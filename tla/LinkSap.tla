------------------------------- MODULE LinkSap -------------------------------
(***************************************************************************)
(* The 802.11 link SAP (app/sap_80211), the process that serves one        *)
(* wireless interface to the MIHF.  One io_service thread runs everything  *)
(* modelled here: the requests of the MIHF, the link events that the       *)
(* netlink receiver posts, the D-Bus signals of wpa_supplicant and the     *)
(* expiries of the timer tasks; each handler is one action.  The kernel    *)
(* and wpa_supplicant run beside it, so that what a handler meets may be   *)
(* ahead of the events and signals that still wait for the thread.         *)
(*                                                                         *)
(* What the request r asks for is the record Ask[r] with the fields         *)
(*   kind    the message                                                   *)
(*   events  of a subscription or an unsubscription                        *)
(*   reads   the parameters that are to be read                            *)
(*   params  the sequence of parameters of a threshold configuration       *)
(*   action  of a link action, scan and refused (it has an attribute or a  *)
(*           point of attachment that the SAP does not support)            *)
(*   wants   the layer 3 settings asked for                                *)
(***************************************************************************)
EXTENDS Integers, Sequences, Functions

CONSTANTS
    Ask,          \* the requests of the MIHF by name, each sent once
    Scenarios,    \* [asks, scans, used, level, faults]: what the MIHF asks in one
                  \* behaviour, whether the SAP is set to scan, whether the interface
                  \* has sent a packet before, the values of the parameters to begin
                  \* with, and a bound on failures and moves of the network's own
    NoNet,        \* no network is selected
    OldNet,       \* the network of before the SAP was started
    Levels,       \* Levels[p]: the values that the parameter p may have
    MaxQueued     \* bound: expiries of one timer waiting for the thread

Request == DOMAIN Ask

\* The parameters that link_parameter_supported accepts.  The received signal
\* strength and the signal strength are one value, in dBm or per cent.  The data
\* rate is in kbit/s.
Measured == {"signal", "data_rate", "packet_error_rate"}

ASSUME LinkSapAssumption ==
    /\ \A b \in Scenarios : /\ b.asks \subseteq Request /\ b.scans \in BOOLEAN /\ b.used \in BOOLEAN
                            /\ b.level \in [Measured -> Int] /\ b.faults \in Nat
                            /\ \A p \in Measured : b.level[p] \in Levels[p]
    /\ NoNet # OldNet /\ {NoNet, OldNet} \cap Request = {}
    /\ Levels \in [Measured -> SUBSET Int]
    /\ Levels["signal"] \subseteq -128 .. 127
    /\ Levels["data_rate"] \cup Levels["packet_error_rate"] \subseteq Nat
    /\ MaxQueued \in Nat \ {0}

VARIABLES
    subscribed,   \* subscribed_event_list
    th,           \* th_cross_list: [by, type, val, dir, once]
    reports,      \* period_rpt_list: [by, type, task]
    check,        \* threshold_check_task
    scan,         \* scheduled_scan_task
    freed,        \* expiries queued for timer tasks that were destroyed
    alive,        \* the process has not died
    buffered,     \* _buffered_completion_handlers, the requests to confirm
    handlers,     \* _completion_handlers
    dropped,      \* history: the requests whose handlers were replaced before they ran
    l3,           \* the layer 3 settings of the interface
    air,          \* the kernel and wpa_supplicant, see Air
    todo,         \* requests that the SAP has not taken yet
    level,        \* the values of the parameters
    faults,       \* failures that may still happen
    \* History, which no action reads:
    confirms,     \* for each request asked, the confirms sent: [status, at, net]
    alerted,      \* thresholds reported
    again,        \* thresholds reported a second time
    missed,       \* thresholds found crossed and not reported
    seenUp,       \* the last link event taken was a link_up
    mixed,        \* link_conf requests that waited together with another
    late          \* a report was cancelled after its timer had expired

tables  == <<subscribed, th, reports, check, scan, freed, alive>>
connect == <<buffered, handlers, dropped>>
world   == <<air, level, faults>>
history == <<confirms, alerted, again, missed, seenUp, mixed, late>>
vars == <<tables, connect, l3, world, todo, history>>
-----------------------------------------------------------------------------
(***************************************************************************)
(* timer_task over a boost deadline_timer.  A wait that has expired is a   *)
(* completion queued for the thread, and neither expires_from_now nor      *)
(* cancel takes that back.                                                 *)
(***************************************************************************)
TimerTask == [running : BOOLEAN, waiting : BOOLEAN, queued : 0 .. MaxQueued]

NewTask == [running |-> FALSE, waiting |-> FALSE, queued |-> 0]

Start(t) == [t EXCEPT !.running = TRUE, !.waiting = TRUE]

Stop(t) == [t EXCEPT !.running = FALSE, !.waiting = FALSE]

\* Mutant of Rearmed: the timer is not armed again.
RearmedNot(t) == [t EXCEPT !.queued = @ - 1]

\* task_handler: the task runs and the timer is armed again, whatever
\* _running says.
Rearmed(t) == [t EXCEPT !.queued = @ - 1, !.waiting = TRUE]

Expired(t) == [t EXCEPT !.waiting = FALSE, !.queued = @ + 1]

CanExpire(t) == t.waiting /\ t.queued < MaxQueued

Scheduled(t) == t.waiting \/ t.queued > 0

\* Mutant of Outliving: the wait goes on as well.
OutlivingWait(t) == t.queued + (IF t.waiting THEN 1 ELSE 0)

\* The completions that outlive a destroyed task: the destructor of the timer
\* cancels the wait, and what is queued stays.
Outliving(t) == t.queued
-----------------------------------------------------------------------------
(***************************************************************************)
(* The network below: the interface's power and association, the state of  *)
(* wpa_supplicant (sup) for the network it was told to select, the link    *)
(* events (links) and the D-Bus signals (signals) on their way; whether    *)
(* the interface has sent a packet (used); and whether there is a          *)
(* scheduled_scan_task (sched_scan_period > 0).                            *)
(***************************************************************************)
Signal == [state : {"associating", "completed", "disconnected", "request"},
           net : Request \cup {NoNet, OldNet}]

Air == [scans : BOOLEAN, power : BOOLEAN, assoc : BOOLEAN, used : BOOLEAN,
        sup : {"disconnected", "associating", "completed"},
        net : Request \cup {NoNet, OldNet},
        links : Seq({"up", "down"}), signals : Seq(Signal)]

Signalled(a, state) ==
    [a EXCEPT !.signals = Append(@, [state |-> state, net |-> a.net])]

\* The interface leaves its network.
Left(a) ==
    LET down == IF a.assoc
                THEN [a EXCEPT !.assoc = FALSE, !.links = Append(@, "down")]
                ELSE a
    IN  IF a.sup = "disconnected" THEN down
        ELSE Signalled([down EXCEPT !.sup = "disconnected"], "disconnected")

\* SelectNetwork: wpa_supplicant leaves the network it is on for the other.
Selected(a, net) == [Left(a) EXCEPT !.net = net]

\* clean_l2: Disconnect ends the attempt of the moment, whatever its network;
\* the error that answers it when there is none is ignored.
CleanL2(a) ==
    IF a.sup = "disconnected" THEN a ELSE [Left(a) EXCEPT !.net = NoNet]

Settings == {"dhcp4", "dhcp6", "address", "route", "dns", "domain"}

ASSUME WantsAssumption ==
    \A r \in Request : Ask[r].kind = "l3_conf" => Ask[r].wants \subseteq Settings

\* What the steps of clean_l3 remove, in their order; all but the last may fail.
CleanSteps == << {"address"}, {"route"}, {"dhcp4"}, {"dhcp6"}, {"dns", "domain"} >>

\* Mutant of CleanL3: the last step is not taken.
CleanL3Short(s, k) == s \ UNION {CleanSteps[i] : i \in 1 .. k - 1}

CleanL3(s, k) == s \ UNION {CleanSteps[i] : i \in 1 .. k}

\* The steps of handle_l3_conf that set what the request wants; writing the
\* resolver's file, the last two, never throws.  That the file can be opened, of
\* which the code takes no notice, is assumed.
SetSteps == <<"dhcp4", "dhcp6", "address", "route", "dns", "domain">>

Fault == faults > 0 /\ faults' = faults - 1
-----------------------------------------------------------------------------
Take(r) == todo' = todo \ {r}

Confirm(rs, status, at, net) ==
    confirms' = [r \in DOMAIN confirms |->
        IF r \in rs
        THEN Append(confirms[r], [status |-> status, at |-> at, net |-> net])
        ELSE confirms[r]]

Supported == {"up", "down", "detected", "going_down", "report", "conf_required"}

\* default_handler, capability_discover: the lists are fixed.
CapabilityDiscover(r) ==
    /\ Take(r) /\ Ask[r].kind = "capabilities"
    /\ Confirm({r}, "success", "request", NoNet)
    /\ UNCHANGED <<tables, connect, l3, world, alerted, again, missed, seenUp, mixed, late>>

EventSubscribe(r) ==
    /\ Take(r)
    /\ \/ Ask[r].kind = "subscribe" /\ subscribed' = subscribed \cup (Ask[r].events \cap Supported)
       \/ Ask[r].kind = "unsubscribe" /\ subscribed' = subscribed \ (Ask[r].events \cap Supported)
    /\ Confirm({r}, "success", "request", NoNet)
    /\ UNCHANGED <<th, reports, check, scan, freed, alive, connect, l3, world,
                   alerted, again, missed, seenUp, mixed, late>>

\* get_packet_error_rate divides by the number of packets sent, which may be zero.
DividesByZero(types) == "packet_error_rate" \in types /\ air.assoc /\ ~air.used

\* A division by zero ends the process, unless the processor takes it for zero.
Trapped(types) == DividesByZero(types) /\ alive' = FALSE

\* Reading any parameter needs the association (get_poa_info throws), and may
\* fail at any time.
GetParameters(r) ==
    /\ Take(r) /\ Ask[r].kind = "get"
    /\ \/ air.assoc /\ Confirm({r}, "success", "request", NoNet) /\ UNCHANGED <<faults, alive>>
       \/ ~air.assoc /\ Confirm({r}, "failure", "request", NoNet) /\ UNCHANGED <<faults, alive>>
       \/ air.assoc /\ Fault /\ Confirm({r}, "failure", "request", NoNet) /\ UNCHANGED alive
       \/ Trapped(Ask[r].reads) /\ UNCHANGED <<faults, confirms>>
    /\ UNCHANGED <<subscribed, th, reports, check, scan, freed, connect, l3, air, level,
                   alerted, again, missed, seenUp, mixed, late>>
-----------------------------------------------------------------------------
(***************************************************************************)
(* Thresholds and periodic reports.                                        *)
(***************************************************************************)
ASSUME ParamsAssumption ==
    \A r \in Request : Ask[r].kind = "thresholds" =>
        /\ Ask[r].params \in Seq(Range(Ask[r].params))
        /\ \A p \in Range(Ask[r].params) :
               /\ p.holds \in Seq(Range(p.holds))
               /\ \A h \in Range(p.holds) : h.val \in Int /\ h.dir \in {"above", "below"}

Inserted(r, p) ==
    [i \in DOMAIN p.holds |->
        [by |-> r, type |-> p.type, val |-> p.holds[i].val, dir |-> p.holds[i].dir,
         once |-> p.mode = "one_shot"]]

\* The elements of the list s that are in S, in their order.
Only(s, S) ==
    LET kept[i \in 0 .. Len(s)] ==
            IF i = 0 THEN <<>>
            ELSE IF s[i] \in S THEN Append(kept[i - 1], s[i]) ELSE kept[i - 1]
    IN  kept[Len(s)]

OfType(s, type) == Only(s, {x \in Range(s) : x.type = type})
NotOfType(s, type) == Only(s, {x \in Range(s) : x.type # type})

\* Cancelling named thresholds takes them out whoever set them.
Cancelled(s, p) ==
    Only(s, {t \in Range(s) : ~ \E i \in DOMAIN p.holds :
        t.type = p.type /\ t.val = p.holds[i].val /\ t.dir = p.holds[i].dir})

\* The completions that outlive the reports in s.
AllOutliving(s) ==
    LET sum[i \in 0 .. Len(s)] == IF i = 0 THEN 0 ELSE sum[i - 1] + Outliving(s[i].task)
    IN  sum[Len(s)]

\* What one parameter of the request r does to the two lists.
Configured(s, r, p) ==
    CASE p.type \notin Measured -> s
      [] p.type \in Measured /\ p.mode = "cancel" /\ p.holds = <<>> ->
            [th |-> NotOfType(s.th, p.type), reports |-> NotOfType(s.reports, p.type),
             freed |-> s.freed + AllOutliving(OfType(s.reports, p.type))]
      [] p.type \in Measured /\ p.mode = "cancel" /\ p.holds # <<>> ->
            [s EXCEPT !.th = Cancelled(@, p)]
      [] p.type \in Measured /\ p.mode # "cancel" /\ p.period ->
            [s EXCEPT !.reports =
                Append(@, [by |-> r, type |-> p.type, task |-> Start(NewTask)])]
      [] OTHER -> [s EXCEPT !.th = @ \o Inserted(r, p)]

\* What the parameters ps of the request r do, one after the other.
AllConfigured(s, r, ps) ==
    LET done[i \in 0 .. Len(ps)] == IF i = 0 THEN s ELSE Configured(done[i - 1], r, ps[i])
    IN  done[Len(ps)]

\* Mutant of CheckFor: the check is left to the next link_up.
CheckForLater(list) == IF list = <<>> /\ check.running THEN Stop(check) ELSE check

\* The check runs while there are thresholds, whatever the state of the link.
CheckFor(list) ==
    IF list # <<>> /\ ~check.running THEN Start(check)
    ELSE IF list = <<>> /\ check.running THEN Stop(check)
    ELSE check

ConfigureThresholds(r) ==
    /\ Take(r) /\ Ask[r].kind = "thresholds"
    /\ LET s == AllConfigured([th |-> th, reports |-> reports, freed |-> freed], r, Ask[r].params)
       IN  /\ th' = s.th
           /\ reports' = s.reports
           /\ freed' = s.freed
           /\ check' = CheckFor(s.th)
           /\ late' = (late \/ \E x \in Range(reports) \ Range(s.reports) : x.task.queued > 0)
    /\ Confirm({r}, "success", "request", NoNet)
    /\ UNCHANGED <<subscribed, scan, alive, connect, l3, world, alerted, again, missed,
                   seenUp, mixed>>

\* LINK_PARAM_VAL: a signal in dBm, a sint8, wraps round, and a data rate of more
\* than 65535 kbit/s is cut; the values of thresholds are of the same type.
Uint16(v) == v % 65536

Crossed(t) ==
    \/ t.dir = "above" /\ Uint16(level[t.type]) > Uint16(t.val)
    \/ t.dir = "below" /\ Uint16(level[t.type]) < Uint16(t.val)

\* Mutant of Remaining: the one-shot thresholds stay.
RemainingAll(s) == s

\* What stays of the thresholds that were read.
Remaining(s) == Only(s, {t \in Range(s) : ~(t.once /\ Crossed(t))})

\* global_thresholds_check: a read that fails after the first k thresholds ends
\* the check.  The one-shot thresholds crossed before it are gone from the list
\* and their report is never sent.
ThresholdsCheck ==
    /\ check.queued > 0
    /\ check' = Rearmed(check)
    /\ \/ /\ "report" \notin subscribed
          /\ UNCHANGED <<th, faults, alive, alerted, again, missed>>
       \/ /\ "report" \in subscribed
          /\ Trapped({t.type : t \in Range(th)})
          /\ UNCHANGED <<th, faults, alerted, again, missed>>
       \/ /\ "report" \in subscribed
          /\ UNCHANGED alive
          /\ \E k \in 0 .. Len(th) :
               LET hit == {t \in Range(SubSeq(th, 1, k)) : Crossed(t)}
               IN  /\ ~air.assoc => k = 0
                   /\ IF air.assoc /\ k < Len(th) THEN Fault ELSE UNCHANGED faults
                   /\ th' = Remaining(SubSeq(th, 1, k)) \o SubSeq(th, k + 1, Len(th))
                   /\ IF k = Len(th)
                      THEN /\ alerted' = alerted \cup hit
                           /\ again' = again \cup (hit \cap alerted)
                           /\ UNCHANGED missed
                      ELSE /\ missed' = missed \cup hit
                           /\ UNCHANGED <<alerted, again>>
    /\ UNCHANGED <<subscribed, reports, scan, freed, connect, l3, air, level, todo,
                   confirms, seenUp, mixed, late>>

\* _report_value: a failed read is ignored, and the report has no state.
PeriodicReport(i) ==
    /\ reports[i].task.queued > 0
    /\ reports' = [reports EXCEPT ![i].task = Rearmed(@)]
    /\ UNCHANGED alive \/ Trapped({reports[i].type})
    /\ UNCHANGED <<subscribed, th, check, scan, freed, connect, l3, world, todo, history>>

\* task_handler on a task that was destroyed: the process dies, or the memory
\* still holds the task and nothing comes of it.
FreedReport ==
    /\ freed > 0
    /\ freed' = freed - 1
    /\ alive' \in BOOLEAN
    /\ UNCHANGED <<subscribed, th, reports, check, scan, connect, l3, world, todo, history>>

\* scheduled_scan_trigger: an error is ignored.
ScheduledScan ==
    /\ scan.queued > 0
    /\ scan' = Rearmed(scan)
    /\ UNCHANGED <<subscribed, th, reports, check, freed, alive, connect, l3, world, todo, history>>
-----------------------------------------------------------------------------
(***************************************************************************)
(* Link events.                                                            *)
(***************************************************************************)
\* Mutant of LinkUp: the check is not started again.
LinkUpNoCheck ==
    /\ scan' = IF scan.running THEN Stop(scan) ELSE scan
    /\ check' = check
    /\ reports' = [i \in DOMAIN reports |-> [reports[i] EXCEPT !.task = Start(@)]]

LinkUp ==
    /\ scan' = IF scan.running THEN Stop(scan) ELSE scan
    /\ check' = IF th # <<>> /\ ~check.running THEN Start(check) ELSE check
    /\ reports' = [i \in DOMAIN reports |-> [reports[i] EXCEPT !.task = Start(@)]]

LinkDown ==
    /\ scan' = IF air.scans /\ ~scan.running THEN Start(scan) ELSE scan
    /\ check' = IF th # <<>> /\ check.running THEN Stop(check) ELSE check
    /\ reports' = [i \in DOMAIN reports |-> [reports[i] EXCEPT !.task = Stop(@)]]

\* dispatch_link_up and dispatch_link_down; the indication itself goes to the
\* MIHF only when the event is subscribed.
LinkEvent ==
    /\ air.links # <<>>
    /\ air' = [air EXCEPT !.links = Tail(@)]
    /\ \/ Head(air.links) = "up" /\ LinkUp
       \/ Head(air.links) = "down" /\ LinkDown
    /\ seenUp' = (Head(air.links) = "up")
    /\ UNCHANGED <<subscribed, th, freed, alive, connect, l3, level, faults, todo,
                   confirms, alerted, again, missed, mixed, late>>
-----------------------------------------------------------------------------
(***************************************************************************)
(* Link and layer 3 configuration.                                         *)
(***************************************************************************)
Waiting == Range(buffered) \cup Range(handlers)

\* Mutant of LinkConf: the network is added and not selected.
LinkConfNoSelect(r) ==
    /\ Take(r) /\ Ask[r].kind = "link_conf"
    /\ buffered' = Append(buffered, r)
    /\ mixed' = mixed \cup (IF Waiting # {} \/ air.signals # <<>>
                            THEN Waiting \cup {r} ELSE {})
    /\ UNCHANGED <<tables, handlers, dropped, l3, world, confirms, alerted, again, missed, seenUp, late>>

\* handle_link_conf.  The handler is added between AddNetwork and
\* SelectNetwork and stays when the latter fails.
LinkConf(r) ==
    /\ Take(r) /\ Ask[r].kind = "link_conf"
    /\ \/ /\ Fault
          /\ Confirm({r}, "failure", "request", NoNet)
          /\ UNCHANGED <<air, buffered, mixed>>
       \/ /\ buffered' = Append(buffered, r)
          /\ mixed' = mixed \cup (IF Waiting # {} \/ air.signals # <<>>
                                  THEN Waiting \cup {r} ELSE {})
          /\ \/ air' = Selected(air, r) /\ UNCHANGED <<faults, confirms>>
             \/ /\ Fault
                /\ Confirm({r}, "failure", "request", NoNet)
                /\ UNCHANGED air
    /\ UNCHANGED <<tables, handlers, dropped, l3, level, alerted, again, missed, seenUp, late>>

\* Mutant of Associating: what was buffered is dropped.
AssociatingDrops ==
    /\ handlers' = <<>>
    /\ buffered' = <<>>
    /\ dropped' = dropped \cup Range(handlers)
    /\ air' = [air EXCEPT !.signals = Tail(@)]
    /\ UNCHANGED confirms

\* PropertiesChanged, "associating": handlers that still wait are lost.
Associating ==
    /\ handlers' = buffered
    /\ buffered' = <<>>
    /\ dropped' = dropped \cup Range(handlers)
    /\ air' = [air EXCEPT !.signals = Tail(@)]
    /\ UNCHANGED confirms

\* Mutant of Ended: the handlers that were called stay.
EndedKeeps(status) ==
    /\ Confirm(Range(handlers), status, "signal", Head(air.signals).net)
    /\ LET a == [air EXCEPT !.signals = Tail(@)]
       IN  air' = IF status # "success" /\ handlers # <<>> THEN CleanL2(a) ELSE a
    /\ UNCHANGED connect

\* PropertiesChanged, "completed" or "disconnected", and NetworkRequest: every
\* handler is called (dispatch_link_conf_completion) and erased; one that is
\* told of a failure disconnects first.
Ended(status) ==
    /\ handlers' = <<>>
    /\ Confirm(Range(handlers), status, "signal", Head(air.signals).net)
    /\ LET a == [air EXCEPT !.signals = Tail(@)]
       IN  air' = IF status # "success" /\ handlers # <<>> THEN CleanL2(a) ELSE a
    /\ UNCHANGED <<buffered, dropped>>

WpaSignal ==
    /\ air.signals # <<>>
    /\ LET state == Head(air.signals).state
       IN  \/ state = "associating" /\ Associating
           \/ state = "completed" /\ Ended("success")
           \/ state = "disconnected" /\ Ended("failure")
           \/ state = "request" /\ Ended("authorization_failure")
    /\ UNCHANGED <<tables, l3, level, faults, todo, alerted, again, missed, seenUp, mixed, late>>

\* handle_l3_conf: a step that fails leaves what the steps before it did.
L3Conf(r) ==
    /\ Take(r) /\ Ask[r].kind = "l3_conf"
    /\ \/ /\ Fault
          /\ \E k \in 0 .. 3 : l3' = CleanL3(l3, k)
          /\ Confirm({r}, "failure", "request", NoNet)
       \/ /\ Fault
          /\ \E k \in 1 .. 4 :
               /\ SetSteps[k] \in Ask[r].wants
               /\ l3' = CleanL3(l3, Len(CleanSteps))
                            \cup (Ask[r].wants \cap {SetSteps[i] : i \in 1 .. k - 1})
          /\ Confirm({r}, "failure", "request", NoNet)
       \/ /\ l3' = CleanL3(l3, Len(CleanSteps)) \cup Ask[r].wants
          /\ Confirm({r}, "success", "request", NoNet)
          /\ UNCHANGED faults
    /\ UNCHANGED <<tables, connect, air, level, alerted, again, missed, seenUp, mixed, late>>

\* set_op_mode.
OpMode(a, action) ==
    CASE action = "power_down" -> [Left(a) EXCEPT !.power = FALSE]
      [] action = "power_up"   -> [a EXCEPT !.power = TRUE]
      [] action = "disconnect" -> Left(a)
      [] OTHER                 -> a

Disconnects(r) == Ask[r].action \in {"power_down", "disconnect"}

\* handle_link_actions: refused, or not possible, or the mode set and the scan
\* or the cleaning after it failed, or all of it done.  wpa_supplicant may know
\* of the mode already when clean_l2 asks it to disconnect.
LinkActions(r) ==
    /\ Take(r) /\ Ask[r].kind = "actions"
    /\ \/ /\ Ask[r].refused
          /\ Confirm({r}, "failure", "request", NoNet)
          /\ UNCHANGED <<air, l3, faults>>
       \/ /\ ~Ask[r].refused /\ Fault
          /\ Confirm({r}, "failure", "request", NoNet)
          /\ \/ UNCHANGED <<air, l3>>
             \/ /\ Ask[r].scan /\ Ask[r].action # "power_down"
                /\ air' = OpMode(air, Ask[r].action)
                /\ UNCHANGED l3
             \/ /\ Disconnects(r)
                /\ air' \in {OpMode(air, Ask[r].action), OpMode(CleanL2(air), Ask[r].action)}
                /\ \E k \in 0 .. 3 : l3' = CleanL3(l3, k)
       \/ /\ ~Ask[r].refused /\ UNCHANGED faults
          /\ Confirm({r}, "success", "request", NoNet)
          /\ IF Disconnects(r)
             THEN /\ air' \in {OpMode(air, Ask[r].action), OpMode(CleanL2(air), Ask[r].action)}
                  /\ l3' = CleanL3(l3, Len(CleanSteps))
             ELSE air' = OpMode(air, Ask[r].action) /\ UNCHANGED l3
    /\ UNCHANGED <<tables, connect, level, alerted, again, missed, seenUp, mixed, late>>
-----------------------------------------------------------------------------
(***************************************************************************)
(* The kernel and wpa_supplicant, and the timers.                          *)
(***************************************************************************)
\* wpa_supplicant has found the network and tries to associate.
SupAssociate ==
    /\ air.power /\ air.net # NoNet /\ air.sup = "disconnected"
    /\ air' = Signalled([air EXCEPT !.sup = "associating"], "associating")
    /\ UNCHANGED <<level, faults>>

SupComplete ==
    /\ air.sup = "associating"
    /\ air' = Signalled([air EXCEPT !.sup = "completed", !.assoc = TRUE,
                                    !.links = Append(@, "up")], "completed")
    /\ UNCHANGED <<level, faults>>

\* An attempt fails, a network is lost, a password is asked for, wpa_supplicant
\* tries another access point of the network, or the value of a parameter changes
\* (while it has a threshold: nothing else reads it).
Disturbance ==
    /\ Fault
    /\ \/ air.sup # "disconnected" /\ air' = Left(air) /\ UNCHANGED level
       \/ air.sup = "associating" /\ air' = Signalled(air, "request") /\ UNCHANGED level
       \/ /\ air.sup # "disconnected"
          /\ air' = Signalled([air EXCEPT !.sup = "associating"], "associating")
          /\ UNCHANGED level
       \/ /\ \E t \in Range(th) : \E v \in Levels[t.type] \ {level[t.type]} :
                 level' = [level EXCEPT ![t.type] = v]
          /\ UNCHANGED air

\* The interface sends its first packet.
FirstPacket ==
    /\ air.assoc /\ ~air.used
    /\ air' = [air EXCEPT !.used = TRUE]
    /\ UNCHANGED <<level, faults>>

Network ==
    /\ SupAssociate \/ SupComplete \/ Disturbance \/ FirstPacket
    /\ UNCHANGED <<tables, connect, l3, todo, history>>

CheckExpires ==
    /\ CanExpire(check)
    /\ check' = Expired(check)
    /\ UNCHANGED <<subscribed, th, reports, scan, freed, alive, connect, l3, world, todo, history>>

ScanExpires ==
    /\ CanExpire(scan)
    /\ scan' = Expired(scan)
    /\ UNCHANGED <<subscribed, th, reports, check, freed, alive, connect, l3, world, todo, history>>

ReportExpires(i) ==
    /\ CanExpire(reports[i].task)
    /\ reports' = [reports EXCEPT ![i].task = Expired(@)]
    /\ UNCHANGED <<subscribed, th, check, scan, freed, alive, connect, l3, world, todo, history>>
-----------------------------------------------------------------------------
\* main: the scan is started when the interface has no link.
Init ==
    /\ \E b \in Scenarios, up \in BOOLEAN :
         /\ todo = b.asks
         /\ confirms = [r \in b.asks |-> <<>>]
         /\ level = b.level
         /\ faults = b.faults
         /\ air = [scans |-> b.scans, power |-> TRUE, assoc |-> up, used |-> b.used,
                   net |-> IF up THEN OldNet ELSE NoNet,
                   sup |-> IF up THEN "completed" ELSE "disconnected",
                   links |-> <<>>, signals |-> <<>>]
         /\ scan = IF b.scans /\ ~up THEN Start(NewTask) ELSE NewTask
         /\ seenUp = up
    /\ subscribed = {} /\ th = <<>> /\ reports = <<>> /\ check = NewTask
    /\ freed = 0 /\ alive = TRUE
    /\ buffered = <<>> /\ handlers = <<>> /\ dropped = {}
    /\ l3 = {"dhcp4", "dns"}
    /\ alerted = {} /\ again = {} /\ missed = {} /\ mixed = {} /\ late = FALSE

Handle(r) ==
    \/ CapabilityDiscover(r) \/ EventSubscribe(r) \/ GetParameters(r)
    \/ ConfigureThresholds(r) \/ LinkActions(r) \/ LinkConf(r) \/ L3Conf(r)

Next ==
    /\ alive
    /\ \/ \E r \in todo : Handle(r)
       \/ ThresholdsCheck \/ ScheduledScan \/ FreedReport
       \/ \E i \in DOMAIN reports : PeriodicReport(i)
       \/ LinkEvent \/ WpaSignal
       \/ CheckExpires \/ ScanExpires
       \/ \E i \in DOMAIN reports : ReportExpires(i)
       \/ Network

\* The thread takes what is queued for it, a timer that waits expires, and
\* wpa_supplicant ends an attempt that it has begun.  It need not begin one: the
\* network may be out of range.
Fairness ==
    /\ WF_vars(alive /\ \E r \in todo : Handle(r))
    /\ WF_vars(alive /\ ThresholdsCheck)
    /\ WF_vars(alive /\ CheckExpires)
    /\ WF_vars(alive /\ LinkEvent)
    /\ WF_vars(alive /\ WpaSignal)
    /\ WF_vars(alive /\ SupComplete /\ UNCHANGED <<tables, connect, l3, todo, history>>)

Spec == Init /\ [][Next]_vars /\ Fairness
-----------------------------------------------------------------------------
\* A timer task that says it runs has its next run scheduled, through every
\* order of start, stop and late expiries (timer_task), and a SAP set to scan
\* scans as long as the last link event it took was no link_up: dispatch_link_down
\* resumes what dispatch_link_up stopped.
TasksScheduled ==
    /\ check.running => Scheduled(check)
    /\ scan.running => Scheduled(scan)
    /\ air.scans /\ ~seenUp => scan.running

\* After a link_up the thresholds are checked and the periodic reports run,
\* whichever of them were configured, cancelled or used up before, with or
\* without a link (dispatch_link_up, handle_link_configure_thresholds).
Watched ==
    seenUp => /\ th # <<>> => check.running
              /\ \A i \in DOMAIN reports :
                   reports[i].task.running /\ Scheduled(reports[i].task)

\* Two values that uint16 keeps in their order: both negative, as levels in dBm
\* are, or both in range.
Comparable(v, w) ==
    \/ -65536 <= v /\ v < 0 /\ -65536 <= w /\ w < 0
    \/ 0 <= v /\ v < 65536 /\ 0 <= w /\ w < 65536

\* A one-shot threshold is reported once (global_thresholds_check erases it), and
\* no threshold is reported on the wrong side of its value, unless the conversion
\* to uint16 changes the order of the two: a data rate of more than 65535 kbit/s
\* is cut, and a signal in per cent meets a threshold in dBm.
ReportsRight ==
    /\ \A t \in again : ~t.once
    /\ \A t \in Range(th) : Comparable(level[t.type], t.val) =>
         (Crossed(t) <=> IF t.dir = "above" THEN level[t.type] > t.val ELSE level[t.type] < t.val)

\* A link_conf is confirmed at most once, unless its SelectNetwork failed: then
\* its handler is still buffered and a later association confirms it again.
ConfirmedOnce ==
    \A r \in DOMAIN confirms :
        Len(confirms[r]) > 1 => Len(confirms[r]) = 2 /\ confirms[r][1].at = "request"

\* A link_conf first confirmed with success by a signal has got its own network,
\* unless it waited together with another link_conf or found signals of an
\* earlier attempt not yet handled: the handlers do not know which network a
\* signal is about.
SuccessIsOwn ==
    \A r \in DOMAIN confirms \ mixed :
        confirms[r] # <<>> /\ confirms[r][1].at = "signal" /\ confirms[r][1].status = "success"
            => confirms[r][1].net = r

\* The parameters that the request r makes the SAP read.
Reads(r) ==
    CASE Ask[r].kind = "get"        -> Ask[r].reads
      [] Ask[r].kind = "thresholds" -> {p.type : p \in Range(Ask[r].params)}
      [] OTHER                      -> {}

\* The SAP dies of two things only.  A periodic report is cancelled after its
\* timer has expired and before the thread ran the expiry: then task_handler runs
\* on the destroyed task.  Or the packet error rate, which a request that was
\* taken asked for, is read of an associated interface that has sent no packet.
DeathExplained ==
    ~alive => \/ late
              \/ /\ air.assoc /\ ~air.used
                 /\ \E r \in DOMAIN confirms \ todo : "packet_error_rate" \in Reads(r)

\* A confirmed layer 3 configuration is what the request asked for, with
\* nothing left of the one before (handle_l3_conf, clean_l3).
L3AsConfirmed ==
    [][\A r \in DOMAIN confirms :
         Ask[r].kind = "l3_conf" /\ confirms'[r] # <<>> /\ confirms[r] = <<>>
            => (confirms'[r][1].status = "success" => l3' = Ask[r].wants)]_vars

\* Every request is confirmed in the end, a link_conf when its attempt to connect
\* has ended, with two exceptions: no attempt is made any more (the interface is
\* powered down, the network is out of range), or wpa_supplicant began another one
\* before the outcome of the first, whose handlers are then gone (dropped).  No
\* other order of requests and signals loses a completion handler.
Confirmed ==
    <>[](alive => \A r \in DOMAIN confirms :
             \/ confirms[r] # <<>>
             \/ r \in Range(buffered) /\ air.sup = "disconnected"
             \/ r \in dropped)

\* A one-shot threshold that stays crossed is not kept for ever while the link
\* is up and the report is subscribed: the check that would notice it is never
\* left stopped.
CrossingNoticed ==
    []<>~(/\ alive /\ air.assoc /\ "report" \in subscribed
          /\ \E t \in Range(th) : t.once /\ Crossed(t))

\* Every crossing that a check finds is reported.  doc/src/app/sap_80211.qbk:
\* "A Link_Parameters_Report message is sent everytime one of these checks
\* detects a crossing of the subscribed nature".
CrossingReported == missed = {}
=============================================================================
