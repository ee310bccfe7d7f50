# ODTONE MIHF: a verification project in TLA+

ODTONE implements the Media Independent Handover Function (MIHF) of IEEE
802.21. This directory models the MIHF in `src/src/mihf` (its transactions and
all its services), the 802.11 link SAP in `src/app/sap_80211` and the network
manager in `src/app/networkmanager`, checks the models with TLC on small instances, and proves the main invariants for all
values of the constants with TLAPS.

## 1. Inventory

An MIHF is one process with one `io_service` run by one thread: a handler (a
message, a timer) runs to its end before the next one starts. MIH users (above)
and link SAPs (below) are other processes that talk to it over local UDP; other
MIHFs are reached over UDP or TCP.

| Component | State | Operations | Module |
|---|---|---|---|
| `src_transaction`, `dst_transaction`, `transaction` | state machine, ack requestor, ack responder, two countdown timers, last messages | `run`, `ack_requestor`, `ack_responder` | `Transaction` |
| `transaction_pool` | the sets `_src`, `_dst` | `add`, `del`, `find`, `tick` | `MihfPeers` |
| `message_in`, `message_out` | the counter `_tid` | `operator()`, `new_src_transaction`, `new_dst_transaction` | `MihfPeers` |
| `net_sap`, `udp_listener`, `tcp_listener` | sockets | `send`, `handle_receive` | `MihfPeers` |
| `service_access_controller` | table of handlers | `sac_dispatch`, `sac_process_message` | all |
| `local_transaction_pool` | list of (user, destination, local tid, remote tid) | `add`, `set_remote_tid`, `find`, `set_user_tid` | `LocalPool`, `LocalCommands` |
| `command_service` | `_timer` by transaction identifier | request, response, confirm and timeout of link_get_parameters, link_configure_thresholds, link_actions; net_ho, mn_ho, n2n_ho commands | `LocalCommands` |
| `link_response_pool` | list of answers of link SAPs | `add`, `del`, `find`, `check` | `LocalCommands` |
| `event_service` | `_event_subscriptions`, `_timer` | subscribe, unsubscribe, their responses, confirms and timeout, indications | `Events` |
| `service_management`, `discover_service` | none of their own | capability discovery, registration, deregistration, link and user registration, discovery of points of service | `Management` |
| `information_service` | none | queries and pushes of information | `Management` |
| `link_book`, `user_book`, `address_book` | what is known of links, users, peers | `add`, `fail`, `reset`, `inactive`, look-ups | where they are used |
| `transmit`, `utils` | none | route a message to a user, a link or `message_out` | where they are used |
| `sap_80211` | subscribed events, thresholds, periodic reports, three kinds of timer tasks, completion handlers of connection attempts, layer 3 settings | seven commands, the timers, link events, signals of wpa_supplicant | `LinkSap` |
| `networkmanager` | state of the manager and the devices, two maps of active connections, settings, access points, handlers of answers | the calls of D-Bus clients, link events, answers of the MIHF | `NetworkManager` |

The behaviours that are hard here, and what makes each part correct:

- *Transactions.* Two timers, two acknowledgement machines and a state machine
  advance each other with `goto`s, driven by four kinds of handlers. Correct
  when the sender's verdict is true, every transaction ends, copies of a pending
  request are not processed again, and the machines never reach a combination
  that a handler cannot continue (a null message, a timer at 0 while waiting).
- *Pool.* `dec` runs the machines under the mutex; its sets are ordered by a
  comparator that is no ordering. Correct when no handler runs under the mutex
  and finished transactions leave.
- *message_in, message_out.* Identifiers are chosen by each MIHF on its own,
  messages are lost, copied, late. Correct when a message goes to the
  transaction it belongs to.
- *Command service.* One request of a user becomes several requests to links;
  answers come in any order, late or never. Correct when a request is
  answered to its sender and with the answers to that request.
- *Event service.* Three tables, in the link SAP, in its MIHF and in the MIHF of
  the user, follow each other through messages. Correct when each covers the
  next, and every indication reaches those who asked for it and nobody else.
- *Service management.* Two MIHFs record the same registration on their own, and
  a MIHF advertises what its links said earlier. Correct when what is
  recorded was agreed and what is advertised is true.
- *Link SAP.* A timer may have expired when it is stopped, a link may be lost
  while it is configured, and a signal does not say which request it ends.
  Correct when timers that should run do, thresholds are reported as
  asked, and each command is confirmed once with its own outcome.
- *Network manager.* Setting up a connection takes two requests; calls and events
  come between a request and its answer, and the handler of an answer knows its
  connection only by path. Correct when its two maps agree, the state it shows is
  true, and every activation and every lost connection comes to an end.

`PROJECT.json` lists every component with its status, and the hazards with their
source lines and the properties that cover them.

## 2. The modules

| Module | What it is |
|---|---|
| `Transaction` | the transactions of `transaction.hpp`, `src_transaction.cpp`, `dst_transaction.cpp`, and one iteration of `transaction_pool::dec` |
| `MihfPeers` | several MIHFs: pools, `message_in`, `message_out`, tick, and the network between them |
| `Exchange`, `MihfExchange` | abstract specification of what the transactions promise; the refinement mapping from `MihfPeers` |
| `LocalPool` | the local transaction pool of the command, event and management services |
| `LocalCommands` | the command service of one MIHF with local transaction pool, link response pool, link book and timers |
| `Events` | the event services of several MIHFs, composed with the subscription tables of the link SAPs |
| `Management` | service management, discovery and information services of several MIHFs, with the books of links, users and peers |
| `LinkSap` | the 802.11 link SAP, with wpa_supplicant and the kernel as its environment |
| `NetworkManager` | the network manager, with the MIHF and D-Bus clients as its environment |
| `MCPeers`, `MCCommands`, `MCEvents`, `MCManagement`, `MCLinkSap`, `MCNetworkManager` | the instances for TLC |
| `MihfPeersProofs` | the operators of `Transaction`, the inductive invariant of `MihfPeers` and its theorems |
| `LocalCommandsProofs` | the operators of `LocalPool`, the link book, then the inductive invariant about requests and answers |
| `EventsProofs` | the inductive invariant about the tables of `Events` and its theorems |
| `EventsNamingProofs`, `EventsAnswersProofs` | the inductive invariant about the requests of `Events` and the identifiers under which they travel: definitions and the sending actions, then the other actions and the theorems |
| `ManagementProofs` | the inductive invariant about the books of `Management` and its theorems |
| `LinkSapProofs` | the timer tasks, the confirmations, and the lists of thresholds and reports of `LinkSap` |
| `NetworkManagerProofs` | the inductive invariant of `NetworkManager` and its theorems |

**Transaction.** A transaction is a record with the fields of `transaction_t`.
Every label of the code is an operator from transaction to transaction
(`_wait_ack_lbl_` is `SrcWaitAck`, `_rsp_piggybacking_lbl_` is `RspPiggybacking`,
...). What a call does to the outside is collected in two extra fields: `sent`
(calls of `_netsap.send`) and `handed` (messages that `sac_process_message` gives
to a service). The field `older` is explained below.

**MihfPeers.** One action per handler:

| Action | Code |
|---|---|
| `SendMessage(n, x, i)` | `message_out::operator()` with a request or an indication |
| `SendResponse(n, m)` | `message_out::operator()` with a response |
| `Receive(p)` | `udp_listener::handle_receive`, then `message_in::operator()` (`MessageIn`) with everything it calls |
| `Tick(n)` | `transaction_pool::tick`, `dec` on both pools |
| `Lose(p)` | the network drops a packet |

`unsent`, `todo`, `handled`, `repeated` and `verdict` describe the environment
and the history: what users still want to send, which requests the services have
not answered, what was handed to services once and more than once, and how
the source transaction of each message ended.

**LocalCommands.** One action per handler; handlers that do the same to the state
share one:

| Action | Code |
|---|---|
| `AskLinks(r)` | `link_get_parameters_request`, `link_actions_request`: fan-out to the links |
| `Configure(r)` | `link_configure_thresholds_request` |
| `Conf(r)` | `link_conf_request`, `l3_conf_request` |
| `Forward(r)` | any request of a user to a peer: `forward_request` |
| `Handover(r)` | `generic_command_request`, the eight handover commands |
| `Confirm(c, ok)` | the `_confirm` handlers: `Collect` stores an answer, `Relay` passes it on |
| `PeerResponse(c)`, `UserResponse(c)` | the `_response` handlers |
| `Expire(t)` | a timer runs out; its handler waits in the `io_service` |
| `Fire` | the handler of a timer: `Aggregate`, or a failure |

`atLink`, `atPeer` and `atUser` are what links, peers and users were asked. They
never lose an entry, so each of them may answer late, never or again. The field
`req` of such a message, which no handler reads, tells the properties which request
it belongs to (also in the next two modules). `sent` and `answers` are history.

**Events.** `subs[n]` is the table of MIHF `n`, `listed[l]` that of link SAP `l`.

| Action | Code |
|---|---|
| `Submit(r)` | a user's request to its own MIHF: `local_event_subscribe_request`, or `local_event_unsubscribe_request` with `link_unsubscribe` |
| `Forward(r)` | a user's request for a link of a peer |
| `PeerRequest(m)` | the same request arriving at the peer |
| `PeerResponse(m)` | `event_subscribe_response`, `event_unsubscribe_response` |
| `Confirm(m)` | `event_subscribe_confirm`, `event_unsubscribe_confirm` |
| `Expire(n)`, `Fire(n)` | the timer of a subscription and its handler |
| `LinkHandle(m)` | the link SAP's handling of what its MIHF asks |
| `Restart(l)` | the link SAP starts again and registers |
| `Indicate(l)`, `PeerIndication(m)` | an event of a link; one that a peer passed on |

`got`, `answers`, `sent`, `own` and `overlap` are history; `overlap` holds the events
of a link for which a subscription and an unsubscription crossed, or a restart
made the link forget.

**Management.**

| Action | Code |
|---|---|
| `LinkRegister`, `LinkAnswer`, `CapabilityConfirm` | `link_register_indication`, the link's answer, `link_capability_discover_confirm` |
| `LinkUsed`, `LinkHeard` | another service counts a failure of a link (`link_book::fail`, and what follows when it is given up), or hears of it |
| `UserRegister` | `user_register_indication` |
| `Ask(r)` | a user's request for capabilities, registration, information or a push (`AskCaps`, `AskRegister`, `AskInfo`, `AskPush`) |
| `DiscoveryAnswer`, `DiscoveryReport` | `discover_service::response`, asked for or not |
| `UserAnswer` | a user's answer to a registration or a query |
| `PeerRequest`, `PeerIndication`, `CapsResponse`, `PeerResponse` | what arrives from peers |
| `Tick(n)` | `address_book::tick`, which counts the intervals of registrations down |
| `Lose(m)` | a message between MIHFs is lost |

`confirms`, `told`, `granted` and `lost` are history.

**LinkSap.**

| Action | Code |
|---|---|
| `Handle(r)` | the seven commands: `CapabilityDiscover`, `EventSubscribe`, `GetParameters`, `ConfigureThresholds`, `LinkActions`, `LinkConf`, `L3Conf` |
| `ThresholdsCheck`, `PeriodicReport(i)`, `ScheduledScan` | the functions of the three kinds of timer tasks, in `task_handler` |
| `FreedReport` | `task_handler` on a report that was cancelled meanwhile |
| `LinkEvent` | `dispatch_link_up`, `dispatch_link_down` |
| `WpaSignal` | the signals of wpa_supplicant, which run the completion handlers |
| `CheckExpires`, `ScanExpires`, `ReportExpires(i)` | a timer expires; its handler waits for the thread |
| `Network` | wpa_supplicant associates, once or again, completes or gives up; the link is lost; the value of a parameter changes; the interface sends its first packet |

**NetworkManager.**

| Action | Code |
|---|---|
| `Enable`, `Sleep`, `SetWirelessEnabled`, `Disconnect` | the calls that switch devices off, with `Device::Disable`, `Disconnect` and `clear_connections` |
| `AddConnection`, `Update`, `Delete` | `Settings::AddConnection`, `Connection::Update`, `Connection::Delete` |
| `ActivateConnection`, `AddAndActivateConnection` | the calls that set up a connection, up to the request to associate (`link_conf`) |
| `Discover` | `capability_discover_confirm`, which creates the devices |
| `Answer(r, ok)` | `user::recv_handler` with the handler of the request: `ActionConfirm`, `LinkConfConfirm`, `L3ConfConfirm` |
| `LinkUp`, `LinkDown`, `LinkDetected` | `event_handler` |

`pending` counts the requests of each kind that are not answered. `link`, `scenario`, `calls`
and `drops` are the environment; `crossed` and `mistaken` are history: the active connections that an
answer to an earlier request is, or was, about, and those that are up and were taken for lost with the
link of another device.

### Modelling decisions

- *Messages are values.* The code passes shared pointers. A header carries the
  operation code, the two ack flags, the identifiers, and whether a payload
  follows; the payload is an element of `Body` that names the user's message.
- *Services are the environment* of `MihfPeers`. A handler of a request answers at
  once (it returns true with `out` set), later (`SendResponse`), or never. A handler
  that sends from within its own call is modelled as a `SendMessage` or `SendResponse`
  after it; `NoHandlerUnderLock` shows that this matters nowhere under the mutex.
- *Malformed messages.* A pure acknowledgement that finds no transaction is
  processed as a message. Most handlers reject it (`bad_tlv`), some accept a
  message without payload: `EmptyValid` is one or the other.
- *The set.* `transaction_compare` says "less" for any two different keys.
  With libstdc++ an insertion goes to the front, and a removal finds its element
  only on the right spine of the tree. The oldest element is always found, another
  one may be left. `Erase` returns every pool that can result; `older` records the
  elements inserted before. This over-approximates the tree's shapes: the code
  leaves no element that the model cannot leave. `Insert` refuses a second element
  with an equal key, which is exact for a pool that never held more than two.
- *Counters.* A `uint32` decremented from 0 becomes `Wrapped`, which stays: in the
  code it needs 2^32 seconds to come back to 0. `_tid` wraps at `MaxTid` and skips 0.
- *Network of `MihfPeers`.* `net` is a set. A packet may wait for ever, be overtaken,
  and, up to `MaxFaults` times, be lost or delivered without being removed. Peers
  are assumed to be known in the address book; `net_sap::send` to an unknown peer
  is a lost packet. A MIHF that does not take part in multicast discards the
  message, which is a loss too.
- *Network of `Events` and `Management`.* A message between MIHFs is handled at most
  once, which is what `MihfPeers` establishes while a transaction is pending;
  `duplicates` shows when a copy is handled again. Answers that come after the
  transaction is over get a new identifier, as `message_out` gives them. The
  identifiers of different MIHFs do not coincide (`FirstTid`).
- *Identifiers in `Events`.* A user draws the first one with `rand()`, which nobody seeds, so two users that start
  have the same. Two requests may have one identifier, or the one a MIHF gives
  to a request to a peer. `Armed` then replaces the timer of the earlier one, as `_timer[tid]` does.
- *Timers of the services.* They may run out in any order, which covers the
  response times of the configuration. Replacing or erasing a timer
  cancels it; once expired, its handler runs all the same.
- *Death.* A stored answer of the wrong kind makes `boost::get` throw in a timer's
  handler, and `link_book::fail` throws for an inactive link under
  `sac_process_message`; no caller catches either: `alive` becomes false.
- *Users for handovers.* `generic_command_response` says that these messages "are
  handled by a single MIH-user"; the instance has two. From the second one on,
  `Handover` stores this MIHF as the requester of a local request, as the code does.
- *Identifiers in `LocalCommands`.* `RequestAssumption` keeps those that users choose
  at or below `FirstTid`, so they do not meet those of `message_out`; `clash` looks at
  what happens in the transactions when they do.
- *Registrations* keep, per peer, whether a list of links is recorded, and the interval, an optional number (a set of
  at most one). Recording the list sets the interval to 0, which is not none, and `tick`
  counts 0 down to the largest number, `Span - 1`. Absent
  lists of capabilities are empty ones. Unsolicited reports of discovery users are successes.
- *Link SAP.* Commands, link events, signals and timer handlers all run on the
  `io_service` thread, so each is one action; the kernel and wpa_supplicant run beside it.
  wpa_supplicant is assumed to signal each change of state in order. `main.cpp` defines
  `STOP_SCHED_SCAN_ON_L2_UP`, and the model follows that build. A second attempt that begins before the
  outcome of the first replaces the completion handlers (`dropped`). Indications that
  neither read nor change state, the low power and access point modes are left out.
- *Values of parameters.* The signal is in dBm or per cent, the data rate in kbit/s, the packet error rate
  a quotient of integers. All are stored as unsigned 16-bit numbers (`Uint16`): a negative level becomes a large number, and a
  rate of more than 65535 kbit/s is cut. The packet error rate of an interface that has sent nothing is a
  division by zero (`DividesByZero`), which ends the process on the processors that trap it.
- *Network manager.* D-Bus calls, answers and events run on one thread, each to its end.
  `Connection::Delete` destroys the object that then sends the reply: `Delete` may or
  may not end the process. libdbus refuses a second object under a path (`PathFree`); the
  path of an active connection is the uuid of its settings. The MIHF answers requests in any order. Sending
  a request to the MIHF does not fail, and settings have the fields that `l3_conf` looks up.
- *Sequences.* `LocalPool` has its own `First` and `Without` (the first index of a set, a
  sequence without one position): the provers carry every definition in scope, and
  those of a large library make the proofs of the modules above it ten times slower.

## 3. Runs

The runs of `MCPeers` use two MIHFs `a` and `b`, one or two messages, identifiers up to
`MaxTid = 9` (`a` starts at the last one, so that it wraps, except in the multicast scenario), and the timers
`StopWhen = 2`, `RtxWhen = 1`, `MaxRtx = 1`: the same ratio as 15 = 5 * (2 + 1) in
the code, so that the last retransmission timer and the end of a transaction fall
in the same tick. Ticks of the two MIHFs are independent and unbounded, so each
message and acknowledgement can be arbitrarily late even with `MaxFaults = 0`.
Retransmission makes copies in all runs.

| Run | Instance | Checks | Shows |
|---|---|---|---|
| `requests` | a request and an indication to one peer; or a multicast request, an indication the other way under the same identifiers, and one fault | `TypeOK`, `DroppedIsDecided`, `NoRepeatWhilePending`, `ImplementsExchange` | verdicts are true, copies of a pending request are detected; multicast, the copy the sender gets itself, and the direction read off the header |
| `clash` | the user's identifier equals that of a pending transaction | `PoolsSound` | the machines stay consistent even when `message_out` continues the wrong transaction |
| `empty_messages` | handlers accept messages without payload | `NoHandlerUnderLock` | no handler under the mutex, also for stray acknowledgements |
| `quiescence` | one request, fair | `Quiesces`, `EveryTransactionEnds` | traffic and transactions die out |
| `commands` | two users, a peer, two links; any three of eight requests, two with one identifier | `InactiveAfterFailures`, `AnswersFit`, `DiesOnClashOnly`, `AggregatesAnswered` | answers reach the sender of their request, repeated confirmations are dropped, the aggregating timer always answers |
| `events` | two MIHFs with a link each, up to three users; six sets of requests, two with one identifier twice | `LinkCovers`, `PeerCovers`, `EventsWanted`, `RelayedOnRequest`, `AnswersFit`, `DiesOnGivenUpLinkOnly`, `SubscriptionAnswered` | the three tables cover each other; events and answers reach those who asked |
| `management` | three MIHFs, three users, two discovery users, two links; 13 sets of requests | `AdvertisedHonest`, `IntervalFollowsGrant`, `ConfirmsFit`, `RequestAnswered`, `DiscoveryEnds` | what is advertised and recorded is true; requests are confirmed once |
| `link_sap` | 12 scenarios of up to four commands with up to two faults | `TasksScheduled`, `Watched`, `ReportsRight`, `ConfirmedOnce`, `SuccessIsOwn`, `DeathExplained`, `L3AsConfirmed`, `Confirmed`, `CrossingNoticed` | no order of commands, events, signals and timers stops a timer that should run, loses a confirmation or reports a threshold wrongly |
| `network_manager` | two devices, three connections of which two have one uuid; seven scenarios of up to three calls and two lost links | `ManagerTypeOK`, `ConnectionsPaired`, `IdleIsIdle`, `DiesOnStaleAnswerOnly`, `ActivatedIsAssociated`, `ActivationEnds`, `Recovered` | late answers and events never make the two maps disagree, show a state that is not true or leave a connection half set up |

Several properties name the condition under which the code does not keep them, and
the instances contain it, so each says exactly how far the code goes:

- `commands`: two requests with the same identifier (`Clash`), where the second takes
  over the timer of the first. `AnswersFit` allows two answers to one request, the
  failure of the timer and the link's answer: the local transaction stays in the
  pool when the timer fires.
- `events`: `LinkCovers` excepts the events in `overlap`; a restarted link SAP has no
  subscriptions and its MIHF does not renew them. `PeerCovers` excepts events that some
  user of the same MIHF gave up (see `peer_unsubscribe`). `SubscriptionAnswered` covers the
  subscriptions that were sent to the link: one that finds the link over its limit
  gets neither an answer nor a timer. Of the users that chose one identifier it promises an answer to one only, and
  to none when a peer gave the identifier to a request of its own: the second subscription cancels the timer of the
  first. `EventsWanted`, `RelayedOnRequest` and `AnswersFit` hold as long as no two requests sent so far
  have one identifier (`Apart`).
- `management`: `IntervalFollowsGrant` names the 0 that a mere request leaves and what `tick` makes of it. `RequestAnswered` leaves out registrations with the user's own MIHF, which
  nobody waits for, and is about users that do answer and messages that are not lost.
- `link_sap`: `ConfirmedOnce` excepts a `link_conf` whose `SelectNetwork` failed, `SuccessIsOwn`
  one that waited together with another. `DeathExplained` names the cancelling of a
  report whose timer has expired, and the packet error rate of an unused interface. `ReportsRight` excepts the values whose
  order the conversion to 16 bits changes (`Comparable`). `Confirmed` excepts a `link_conf` for which no attempt is made
  any more (its network may be out of range) and one whose handler a second attempt replaced.
- `network_manager`: `DiesOnStaleAnswerOnly` names the three states in which the process can
  end. `ActivatedIsAssociated` excepts the connections in `crossed`: those activated again before an
  answer to the earlier attempt, and those that `link_down` takes for lost while they are set up.
  It does so because it goes by the state of the device, which a late answer may have set to
  activated, and by `ActiveConnection`, which a failed activation leaves as it was. For the same reason the loss of a
  link may mark the connection of another device, which then stays lost as its own link does not come up
  again: `Recovered` excepts the connections in `mistaken`.
- `ImplementsExchange` needs that the identifiers of users do not meet those of pending
  transactions (`LocalTid` and the identifiers in `Starts` far apart): in the `clash` instance `message_out`
  replaces the message of an unrelated transaction.

**Bounds.** `commands`: `LinkDelete = 1`, so that the second request in a row makes a link
inactive, and three requests (`MaxRequests`) are the fewest that let a link become
inactive and then be asked again. `events`: the sets in `Together` hold the cases that can
interact: two subscribers of one link, of which one leaves; two MIHFs subscribed to each
other; a user alone; an unsubscription without a subscription; two users with one identifier; a user with the identifier
that the other MIHF gives next. Links raise an event
or restart once in all (`MaxOwn`). `management`: each set of requests holds those that touch
the same entries of the books; a discovery finds one peer, or two with one of them twice; `Span = 3`, so that a granted interval, 0 and
the number that follows it differ.
`link_sap`: each scenario holds the commands that share state (thresholds among
themselves and with a connection, reports with a connection, two connections, a connection with a
power change or a disconnection, layer 3 settings); `MaxQueued = 1` expiry of a timer
waits for the thread, which is what one wait can leave; the two signals lie on either
side of the threshold and, being dBm, are negative; of the two data rates one is too large for 16 bits; in one scenario the interface has
sent no packet. `network_manager`: each scenario holds
the calls that touch the same objects (two connections at once, two on
one device, one that moves to another device after a failed call, a connection and what switches it off, settings that change meanwhile).

Three runs show that the code does not do what the documentation
says of it (`findings` in `PROJECT.json` quotes the lines):

| Run | Violated | Because |
|---|---|---|
| `duplicates` | `DuplicatesDetected` | a finished destination transaction is forgotten, and a retransmitted copy is processed again |
| `peer_unsubscribe` | `PeerKeptWhileNeeded` | an unsubscription is forwarded to the peer although another user still needs the event |
| `lost_alert` | `CrossingReported` | a one-shot threshold is erased when it is crossed, and its report is dropped when a later parameter cannot be read |

**Fairness.** *Peers:* `WF(Tick(n))`, as each tick arms the next one before anything
else; `WF(\E p : Receive(p) \/ Lose(p))`, as a packet is not in the network for ever;
whether it arrives is not assumed. Nothing is assumed of users and services.
*Commands, events:* `WF(Expire)` and `WF(Fire)`: time passes, and
the `io_service` runs the handlers of expired timers. Nothing is assumed of links,
peers, users and the network. *Management:* users answer what they are asked, and the network does not
keep messages for ever. Messages may still be lost instead, which `RequestAnswered` says. This service has no timers, so
without users that answer nothing can be promised. *Link SAP:* the thread takes commands,
events, signals and expiries; the timer of the threshold check expires;
wpa_supplicant ends an attempt it has begun, one way or the other. Nothing is assumed of
attempts that begin, of scans, of the link staying up or of failures. *Network manager:* `WF(Answer)`, as the MIHF
answers each request, with a failure if the link does not (the timers of the command service, which `commands`
shows to answer unless two users share an identifier).

**Deadlock** is checked in every run of `MCPeers`; `Tick` is always enabled. It is not
checked in the others, where a process that died, or one whose users
have sent all their requests, really stops.

## 4. Proofs

| Theorem | States |
|---|---|
| `MihfPeersProofs!TypeCorrect` | `[]TypeOK` |
| `MihfPeersProofs!PoolsAreSound` | `[]PoolsSound` |
| `MihfPeersProofs!LockNotReentered` | `[]NoHandlerUnderLock` |
| `MihfPeersProofs!DroppedAfterVerdict` | `[]DroppedIsDecided` |
| `MihfPeersProofs!CopiesDetected` | `NoRepeatWhilePending`, an action property |
| `LocalCommandsProofs!InactiveLinks` | `[]InactiveAfterFailures` |
| `LocalCommandsProofs!AnswersReachSender` | `[]AnswersFit` |
| `LocalCommandsProofs!DiesAfterClash` | `[]DiesOnClashOnly` |
| `EventsProofs!LinksCover` | `[]LinkCovers` |
| `EventsProofs!PeersCover` | `[]PeerCovers` |
| `EventsProofs!DiesOnGivenUpLink` | `[]DiesOnGivenUpLinkOnly` |
| `EventsAnswersProofs!WantedEvents` | `[]EventsWanted` |
| `EventsAnswersProofs!RelayedWhenAsked` | `[]RelayedOnRequest` |
| `EventsAnswersProofs!FittingAnswers` | `[]AnswersFit` |
| `ManagementProofs!HonestCapabilities` | `[]AdvertisedHonest` |
| `ManagementProofs!IntervalsGranted` | `IntervalFollowsGrant`, an action property |
| `LinkSapProofs!TasksRun` | `[]TasksScheduled` |
| `LinkSapProofs!ConfirmsOnce` | `[]ConfirmedOnce` |
| `LinkSapProofs!OwnSuccess` | `[]SuccessIsOwn` |
| `LinkSapProofs!L3Confirmed` | `L3AsConfirmed`, an action property |
| `LinkSapProofs!WatchedAfterUp` | `[]Watched` |
| `LinkSapProofs!DeathsExplained` | `[]DeathExplained` |
| `LinkSapProofs!RightReports` | `[]ReportsRight` |
| `NetworkManagerProofs!ManagerPaired` | `[]ConnectionsPaired` |
| `NetworkManagerProofs!ManagerIdle` | `[]IdleIsIdle` |
| `NetworkManagerProofs!ManagerTypes` | `[]ManagerTypeOK` |
| `NetworkManagerProofs!ManagerDies` | `[]DiesOnStaleAnswerOnly` |
| `NetworkManagerProofs!ManagerAssociated` | `[]ActivatedIsAssociated` |

Those about `MihfPeers` hold for every number of MIHFs, messages, identifiers and faults, for
either value of `EmptyValid`, and for all timers with
`StopWhen >= RtxWhen * (MaxRtx + 1)` (`TimeAssumption`), which 15 >= 5 * 3 meets
with equality.

The inductive invariant is `Inv == TypeOK /\ PoolsGood`. `TypeOK` alone is not
inductive: a machine in `WAIT_ACK` whose `out` were null would retransmit null,
and nothing in the types forbids it. `PoolsGood` says of each stored
transaction that it is *sound* (`SrcSound`, `DstSound`):

- the messages its state will send exist (`RspSound`, `SrcBase`, `DstBase`);
- a waiting ack requestor has a running timer, a finished one has left its
  verdict (`ReqSound`, `ReqDecided`);
- the time left covers the transmissions left (`TimeSound`): this gives
  `DroppedIsDecided`;
- a request with a message to process is already acknowledged, so `dec` does not
  run its machine before its time is over, and then the machine looks at the time
  first (`NothingToProcess`): this gives `NoHandlerUnderLock`;
- a message kept in a source transaction is an acknowledgement or a response
  (`Awaited`), so a source transaction never hands over a request. Since a
  transaction in `_dst` hands over nothing after its first run, a copy of a request
  is handed over only by a new transaction: this gives `NoRepeatWhilePending`.

`MihfPeersProofs` first shows for each operator of
`Transaction` that it maps sound transactions to sound ones; the operators are
proved bottom up in the order of the labels. It then lifts this to pools
(`InsertSound`, `EraseSound`, ...), then to one lemma per action, and concludes
`Invariance`.

`InactiveLinks` holds for all links, requests and limits. Its invariant is
`BookSound /\ LinksConfirm`: the counter stops one past the limit, because an
inactive link is not found and so not counted again, and only a link of the
book confirms.

`AnswersReachSender` and `DiesAfterClash` hold for any users, peers, links and requests that meet
`RequestAssumption` (what a request of each kind looks like, and users' identifiers at or below
`FirstTid`), and any number of repeated or late answers. `AnswersFit` looks at answers only after they are
given; `AnswersInv` says what makes the next one right. `Sound` ties everything
that waits to a request that was sent:

- an entry of the local pool has the user, the destination and the identifiers that the
  request gives it, at a link, at a peer under a number of `message_out`, or at a user (`Belongs`);
- so have the questions that are out, the timers, the handlers that wait and the stored answers.

`Orderly` is about a request whose identifier no other one has (`Alone`): the pool holds at most one entry
for each of those it waits for (`Single`) and none for one that has answered (`Done`); as long as its
timer runs or the handler waits, this MIHF has not answered, and there is one such handler
(`Once`). Each action is then one of four steps that keep this: a request is added (`RequestInv`), an
entry is taken out (`TakenInv`), a timer expires, its handler runs. With two requests under one identifier
`Single` and `Once` fail, which is why the properties except them.

`LinksCover` and `PeersCover` hold for all sets of MIHFs, users, links, events and requests,
every limit of link failures and any number of restarts. The tables follow each other
through messages, so neither is inductive; `EventsInv` adds what is promised by messages on their way:

- a confirmed subscription that its MIHF has not handled yet is on the link's list
  (`ConfirmedListed`);
- an unsubscription on its way to the link is of events that nobody has in the table
  or is about to have, or the event is in `overlap` (`RetiredUnwanted`);
- a granted subscription on its way to a peer is in the table of the sender, unless
  the peer gave it up (`GrantedInTable`);
- requests between MIHFs are those of users (`RequestsSent`), answers come from
  another MIHF (`ResponsesFromNodes`).

There is one lemma per action; `OtherStep` covers those that leave the tables alone.

`DiesOnGivenUpLink` needs `EventsInv` too: the request that ends a MIHF was taken from the network, and only
`RequestsSent` says that a user of another MIHF sent it. A MIHF that ended handles nothing more, so
the link it was asked about stays given up (`BookKept`).

The three theorems of `EventsAnswersProofs` are about requests, answers and indications. They hold for any finite set
of requests, in every state with `Apart`: the identifiers of the requests sent so far differ from each other, from 0 and from those that the MIHFs
give (`Issued`), and these differ from one MIHF to another. The condition is needed. The local pool finds the user of an answer by
the sender and the identifier alone, so two requests under one number may get each other's answers. Requests are only ever added to those sent,
so what is `Apart` now was so before (`ApartBefore`), and the invariant is `Apart => EventsNamed` (`NamedWhileApart`).

None of the three properties is inductive, as each looks at a request only when it is over. `EventsNamed` says that there is
a function `w` with `Named(w)`, where `w[r]` is the number under which the request `r` travels: its own at the MIHF of its user, a number of
`_tid` towards a peer. The model has no variable for it and needs none:

- numbers of requests that were sent differ (`Identified`); as each takes one of `_tid`, which has moved by at most as many steps as there are requests,
  they stay in `Issued`;
- a message to or from a link or a peer has the link, the kind, the number and at most the events of its request (`LinksAbout`, `PeersAbout`);
- so has an entry of the local pool, a running timer and an expired one that waits for its turn (`PoolsAbout`, `TimersAbout`), and no
  entry is there twice;
- once the link, the timer or the peer has answered, its entry, its timer or its expiry is gone (`Once`): this gives "at most once" in `AnswersFit`;
- an entry of the table has a request behind it, and if it is of a user, an answer that told them (`TablesAsked`): this gives `EventsWanted`
  and `RelayedOnRequest` when the indication is sent.

A step picks the number for the request it sends (`Renamed`: any number will do as long as the request was not sent) and keeps `w` for all others.
Each other action removes entries and answers at most one request; `Replied` states what an answer does to the invariant, and is used for
the link, the timer and the peer alike.

`HonestCapabilities` and `IntervalsGranted` hold for all MIHFs, links, users, requests, intervals and results of a discovery; `ServiceAssumption` only says that
what links and users support is made of events, commands and queries. `ManagementInv` adds to the first property:

- a link book entry has no events or all those of the link (`EventsKnown`), so that an answer of a link never takes
  an advertised event away from it, and a MIHF advertises links of its own only;
- no MIHF sends its capabilities to itself, as `sac_process_message` drops what comes from itself: its own entry in
  the address book is changed by `update_local_capabilities` and `link_register_indication` only (`GoodMsg`, `Milder`);
- an answer on its way that accepts a registration has an interval that was granted (`GoodMsg`): this gives `IntervalFollowsGrant` for the step that records it.

It says nothing of the local transaction pools: whoever an answer is taken for, the books stay right.

`TasksRun` holds for all requests, scenarios and levels and any bound on queued
expiries. Its invariant `TasksSound` adds that the tasks are timer tasks and that no handler
changes whether the SAP is set to scan. `TaskSteps` states what `start`, `stop`, an
expiry and `task_handler` do to a task; the actions then follow one by one.

The three theorems about confirmations hold for all requests that meet `WantsAssumption` (a layer 3 request
asks for settings that `clean_l3` knows) and share the invariant `ConfirmsSound`:

- `Once`: the handler of a request waits in one list only, none before the request is handled, and one that was
  already called was called by a `SelectNetwork` that failed;
- `Own`: while a request waits alone, wpa_supplicant associates with its network only, and every
  completion still to be signalled is about it (`OnlyFor`). `AirStep` states what
  keeps this, and holds of everything the surroundings do except a `SelectNetwork`;
- `Shapes`: the types that the above needs.

`SuccessIsOwn` speaks of the moment of the signal; without `OnlyFor`, which follows a request from
`SelectNetwork` to that moment, no step could be shown to keep it.

`WatchedAfterUp`, `DeathsExplained` and `RightReports` are about the lists of thresholds and reports; `ParamsAssumption` only says that a request has lists
of parameters and thresholds. Configuring goes through the parameters one by one, and a cancelled
parameter through the lists, so the operators are recursive functions. The induction is done with sets
(`LeastNumber`: a set of numbers that is not empty has a least one), as `Folding` does for any function that is defined step by step. The
invariant `ListsSound` says that every threshold is one of the configured values, that the tasks of reports are timer tasks that
run after a link_up, that expiries outlive a report only after a late cancelling, and that a one-shot threshold that was reported is gone for
good, as its request was taken. The thresholds and reports of a type are there because a request that was taken asked for it, which
`DeathsExplained` needs for the division by zero. `RightReports` shows that the conversion to 16 bits keeps the order of values that are `Comparable`.

The theorems about the network manager hold for all devices, connections, access points
and scenarios; two connections may share a uuid. Their invariant `Inv`
adds that a device the MIHF has not named yet has no active connection: without it,
`Enable(FALSE)` and `Sleep(TRUE)`, which clear the devices of `_device_map`, could leave one.
`ClearPairs`, `StatePairs` and `ActivatePairs` state what the three ways of changing
the two maps do to them. `ManagerDies` looks at the steps that end the
process (`DiesCause`), after which nothing moves (`DeadStays`). `ManagerAssociated` adds
`Unmixed`: the unanswered requests about a connection that is not in `crossed` are those of its present
activation, a `link_conf` comes once and before its `l3_conf`, and a connection that does not exist has none.
It is what lets a handler that knows the connection only by its path find the right one.

Only model-checked:

- liveness: `Quiesces`, `EveryTransactionEnds`, `AggregatesAnswered`, `SubscriptionAnswered`,
  `RequestAnswered`, `DiscoveryEnds`, `Confirmed`, `CrossingNoticed`, `ActivationEnds`, `Recovered`, which are out of the prover's reach;
- the refinement `ImplementsExchange`: it needs that the identifiers of transactions stay apart for all times, which the wrapping counter `_tid`
  gives only together with a bound on how long a transaction lives;
- `ConfirmsFit` of `Management`: an answer is found in the local pool by destination and number as in `Events`, but a
  discovery makes one request travel under a number for each peer that is asked, so the naming function would have to be one of requests and peers
  that grows with the results of the discovery;
- what a recursive definition computes, beyond what its single steps preserve.

## 5. Not modelled

`PROJECT.json` gives the reason for each component. In short:

- Start-up, logging, message encoding, the TCP listener and sockets keep no protocol state.
- `sap_8023` is the program of `sap_80211` without scans and levels. The older
  `link_sap` and `link_sap_icmp` poll an interface and keep no state that others depend on.
- The users and servers under `src/app` (`mih_usr`, `miis_rdf_server`, the
  discovery users) are the environment of the MIHF: the models let
  users ask and answer in any order.
- `dhcp_usr` (an ISC DHCP distribution) and most of `app/common` (bindings and vendored libraries)
  are third-party code. They are three quarters of the lines under `src`, so
  the share of all lines that is modelled stays small although
  every service of the MIHF is.
- The local pool and the transactions are not composed: `Events` and `Management` take the
  transport between MIHFs as stated in section 2.

## 6. Plan

Done: transactions, pools, peers, the abstract exchange and its refinement; command, event,
management, discovery and information services; the 802.11 link SAP; the network manager;
the theorems above.
Next, in this order:

1. An abstract specification of the command service (a request is answered once,
   with the answers of its links) for requests with different identifiers, and the
   refinement; the run may need a history of confirmed links.
2. The local pool composed with `MihfPeers`, for the way of an answer from the peer to the user.
3. Proofs: `ImplementsExchange` under a hypothesis on identifiers, `ConfirmsFit`.
