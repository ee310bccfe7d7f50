---------------------------- MODULE LinkSapProofs ----------------------------
(***************************************************************************)
(* The timer tasks and the confirmations of the link SAP, for any          *)
(* requests, parameters and levels and any number of expiries waiting for  *)
(* the thread.                                                             *)
(***************************************************************************)
EXTENDS LinkSap, WellFoundedInduction, TLAPS

\* t is a timer task as far as its fields matter here.
IsTask(t) == DOMAIN t = {"running", "waiting", "queued"} /\ t.queued \in Nat

\* The inductive invariant: the two tasks are timer tasks, and the surroundings
\* keep the setting that says whether there is a scan.
TasksSound ==
    /\ IsTask(check) /\ IsTask(scan)
    /\ "scans" \in DOMAIN air
    /\ TasksScheduled

\* start, stop, an expiry and task_handler keep a task a task; only stop ends a
\* task that runs, and then it says so.
LEMMA TaskSteps ==
    ASSUME NEW t, IsTask(t)
    PROVE  /\ IsTask(Start(t)) /\ Start(t).running /\ Scheduled(Start(t))
           /\ IsTask(Stop(t)) /\ ~Stop(t).running
           /\ IsTask(Expired(t)) /\ Scheduled(Expired(t))
           /\ Expired(t).running = t.running
           /\ t.queued > 0 => IsTask(Rearmed(t))
           /\ Scheduled(Rearmed(t)) /\ Rearmed(t).running = t.running
<1> USE DEF IsTask
<1>1. IsTask(Start(t)) /\ Start(t).running /\ Start(t).waiting
  BY Zenon DEF Start
<1>2. IsTask(Stop(t)) /\ ~Stop(t).running
  BY Zenon DEF Stop
<1>3. IsTask(Expired(t)) /\ Expired(t).queued > 0
  BY DEF Expired
<1>4. Expired(t).running = t.running
  BY Zenon DEF Expired
<1>5. t.queued > 0 => IsTask(Rearmed(t))
  BY DEF Rearmed
<1>6. Rearmed(t).waiting
  BY Zenon DEF Rearmed
<1>7. Rearmed(t).running = t.running
  BY Zenon DEF Rearmed
<1> QED
  BY <1>1, <1>2, <1>3, <1>4, <1>5, <1>6, <1>7 DEF Scheduled

\* Nothing that happens to the network or the supplicant changes the setting.
LEMMA AirSteps ==
    ASSUME NEW a, "scans" \in DOMAIN a
    PROVE  /\ \A s : /\ "scans" \in DOMAIN Signalled(a, s)
                     /\ Signalled(a, s).scans = a.scans
           /\ "scans" \in DOMAIN Left(a) /\ Left(a).scans = a.scans
           /\ "scans" \in DOMAIN CleanL2(a) /\ CleanL2(a).scans = a.scans
           /\ \A n : "scans" \in DOMAIN Selected(a, n) /\ Selected(a, n).scans = a.scans
           /\ \A m : "scans" \in DOMAIN OpMode(a, m) /\ OpMode(a, m).scans = a.scans
<1>1. ASSUME NEW b, "scans" \in DOMAIN b
      PROVE  \A s : "scans" \in DOMAIN Signalled(b, s) /\ Signalled(b, s).scans = b.scans
  BY <1>1, Zenon DEF Signalled
<1>2. "scans" \in DOMAIN Left(a) /\ Left(a).scans = a.scans
  <2> DEFINE down == IF a.assoc
                     THEN [a EXCEPT !.assoc = FALSE, !.links = Append(@, "down")]
                     ELSE a
             gone == [down EXCEPT !.sup = "disconnected"]
  <2>1. "scans" \in DOMAIN down /\ down.scans = a.scans
    BY Zenon
  <2> HIDE DEF down
  <2>2. "scans" \in DOMAIN gone /\ gone.scans = a.scans
    BY <2>1, Zenon
  <2>3. Left(a) = IF a.sup = "disconnected" THEN down ELSE Signalled(gone, "disconnected")
    BY Zenon DEF Left, down
  <2> HIDE DEF gone
  <2> QED
    BY <1>1, <2>1, <2>2, <2>3
<1>3. "scans" \in DOMAIN CleanL2(a) /\ CleanL2(a).scans = a.scans
  BY <1>2, Zenon DEF CleanL2
<1>4. \A n : "scans" \in DOMAIN Selected(a, n) /\ Selected(a, n).scans = a.scans
  BY <1>2, Zenon DEF Selected
<1>5. \A m : "scans" \in DOMAIN OpMode(a, m) /\ OpMode(a, m).scans = a.scans
  BY <1>2, Zenon DEF OpMode
<1> QED
  BY <1>1, <1>2, <1>3, <1>4, <1>5

\* The tasks at the start: none runs but the scan of an interface without link.
LEMMA TasksInit == Init => TasksSound
<1> SUFFICES ASSUME Init PROVE TasksSound
  BY Zenon
<1> PICK b \in Scenarios, up \in BOOLEAN :
        /\ air = [scans |-> b.scans, power |-> TRUE, assoc |-> up, used |-> b.used,
                  net |-> IF up THEN OldNet ELSE NoNet,
                  sup |-> IF up THEN "completed" ELSE "disconnected",
                  links |-> <<>>, signals |-> <<>>]
        /\ scan = IF b.scans /\ ~up THEN Start(NewTask) ELSE NewTask
        /\ seenUp = up
  BY Zenon DEF Init
<1>1. check = NewTask
  BY Zenon DEF Init
<1>2. IsTask(NewTask) /\ ~NewTask.running
  BY Zenon DEF IsTask, NewTask
<1>3. IsTask(check) /\ IsTask(scan) /\ ~check.running /\ (scan.running => Scheduled(scan))
  BY <1>1, <1>2, TaskSteps, Zenon
<1>4. "scans" \in DOMAIN air /\ air.scans = b.scans
  BY Zenon
<1>5. air.scans /\ ~seenUp => scan.running
  BY <1>2, <1>4, TaskSteps, ZenonT(40)
<1> QED
  BY <1>3, <1>4, <1>5 DEF TasksSound, TasksScheduled

\* A step that leaves the two tasks, the last link event and the setting alone
\* keeps the invariant.
LEMMA TasksKept ==
    ASSUME TasksSound, check' = check, scan' = scan, seenUp' = seenUp,
           "scans" \in DOMAIN air', air'.scans = air.scans
    PROVE  TasksSound'
BY Zenon DEF TasksSound, TasksScheduled, IsTask, Scheduled

\* The requests leave the scan alone, and the check is started or stopped.
LEMMA TasksHandle ==
    ASSUME TasksSound, NEW r \in todo, Handle(r)
    PROVE  TasksSound'
<1> "scans" \in DOMAIN air /\ IsTask(check)
  BY Zenon DEF TasksSound
<1>1. CASE CapabilityDiscover(r)
  BY <1>1, TasksKept, Zenon DEF CapabilityDiscover, tables, world
<1>2. CASE EventSubscribe(r)
  BY <1>2, TasksKept, Zenon DEF EventSubscribe, world
<1>3. CASE GetParameters(r)
  BY <1>3, TasksKept, Zenon DEF GetParameters, tables
<1>4. CASE ConfigureThresholds(r)
  <2>1. scan' = scan /\ air' = air /\ seenUp' = seenUp
    BY <1>4, Zenon DEF ConfigureThresholds, world
  <2>2. \E list : check' = CheckFor(list)
    BY <1>4, Zenon DEF ConfigureThresholds
  <2>3. check' \in {check, Start(check), Stop(check)}
    BY <2>2, Zenon DEF CheckFor
  <2>4. IsTask(check') /\ (check'.running => Scheduled(check'))
    <3>1. CASE check' = check
      BY <3>1, Zenon DEF TasksSound, TasksScheduled
    <3>2. CASE check' = Start(check)
      BY <3>2, TaskSteps, Zenon
    <3>3. CASE check' = Stop(check)
      BY <3>3, TaskSteps, Zenon
    <3> QED
      BY <2>3, <3>1, <3>2, <3>3
  <2> QED
    BY <2>1, <2>4, Zenon DEF TasksSound, TasksScheduled, IsTask, Scheduled
<1>5. CASE LinkActions(r)
  <2>1. "scans" \in DOMAIN CleanL2(air) /\ CleanL2(air).scans = air.scans
    BY AirSteps, Zenon
  <2>2. air' \in {air, OpMode(air, Ask[r].action), OpMode(CleanL2(air), Ask[r].action)}
    BY <1>5, Zenon DEF LinkActions
  <2>3. "scans" \in DOMAIN air' /\ air'.scans = air.scans
    BY <2>1, <2>2, AirSteps
  <2>4. check' = check /\ scan' = scan /\ seenUp' = seenUp
    BY <1>5, Zenon DEF LinkActions, tables
  <2> QED
    BY <2>3, <2>4, TasksKept, Zenon
<1>6. CASE LinkConf(r)
  <2>1. air' \in {air, Selected(air, r)}
    BY <1>6, Zenon DEF LinkConf
  <2>2. check' = check /\ scan' = scan /\ seenUp' = seenUp
    BY <1>6, Zenon DEF LinkConf, tables
  <2> QED
    BY <2>1, <2>2, AirSteps, TasksKept
<1>7. CASE L3Conf(r)
  BY <1>7, TasksKept, Zenon DEF L3Conf, tables
<1> QED
  BY <1>1, <1>2, <1>3, <1>4, <1>5, <1>6, <1>7 DEF Handle

\* A link_up stops the scan and a link_down resumes it.
LEMMA TasksLinkEvent ==
    ASSUME TasksSound, LinkEvent
    PROVE  TasksSound'
<1> IsTask(check) /\ IsTask(scan) /\ "scans" \in DOMAIN air
  BY Zenon DEF TasksSound
<1>1. "scans" \in DOMAIN air' /\ air'.scans = air.scans
  BY Zenon DEF LinkEvent
<1>2. check' \in {check, Start(check), Stop(check)}
  BY Zenon DEF LinkEvent, LinkUp, LinkDown
<1>3. IsTask(check') /\ (check'.running => Scheduled(check'))
  <2>1. CASE check' = check
    BY <2>1, Zenon DEF TasksSound, TasksScheduled
  <2>2. CASE check' = Start(check)
    BY <2>2, TaskSteps, Zenon
  <2>3. CASE check' = Stop(check)
    BY <2>3, TaskSteps, Zenon
  <2> QED
    BY <1>2, <2>1, <2>2, <2>3
<1>4. CASE Head(air.links) = "up"
  <2>1. seenUp' /\ scan' = IF scan.running THEN Stop(scan) ELSE scan
    BY <1>4, Zenon DEF LinkEvent, LinkUp
  <2>2. IsTask(scan') /\ ~scan'.running
    BY <2>1, TaskSteps, Zenon
  <2> QED
    BY <1>1, <1>3, <2>1, <2>2 DEF TasksSound, TasksScheduled, IsTask, Scheduled
<1>5. CASE Head(air.links) = "down"
  <2>1. scan' = IF air.scans /\ ~scan.running THEN Start(scan) ELSE scan
    BY <1>5, Zenon DEF LinkEvent, LinkDown
  <2>2. IsTask(scan') /\ (scan'.running => Scheduled(scan')) /\ (air.scans => scan'.running)
    <3>1. CASE air.scans /\ ~scan.running
      BY <2>1, <3>1, TaskSteps, Zenon
    <3>2. CASE ~(air.scans /\ ~scan.running)
      BY <2>1, <3>2, Zenon DEF TasksSound, TasksScheduled
    <3> QED
      BY <3>1, <3>2, Zenon
  <2> QED
    BY <1>1, <1>3, <2>2, Zenon DEF TasksSound, TasksScheduled, IsTask, Scheduled
<1> QED
  BY <1>4, <1>5, Zenon DEF LinkEvent

\* Every step keeps the invariant.
LEMMA TasksNext == TasksSound /\ [Next]_vars => TasksSound'
<1> SUFFICES ASSUME TasksSound, [Next]_vars PROVE TasksSound'
  BY Zenon
<1> IsTask(check) /\ IsTask(scan) /\ "scans" \in DOMAIN air
  BY Zenon DEF TasksSound
<1>1. ASSUME NEW r \in todo, Handle(r) PROVE TasksSound'
  BY <1>1, TasksHandle, Zenon
<1>2. CASE ThresholdsCheck
  <2>1. check' = Rearmed(check) /\ check.queued > 0
    BY <1>2, Zenon DEF ThresholdsCheck
  <2>2. scan' = scan /\ air' = air /\ seenUp' = seenUp
    BY <1>2, Zenon DEF ThresholdsCheck
  <2>3. IsTask(check') /\ Scheduled(check')
    BY <2>1, TaskSteps, Zenon
  <2> QED
    BY <2>2, <2>3, Zenon DEF TasksSound, TasksScheduled, IsTask, Scheduled
<1>3. CASE ScheduledScan
  <2>1. scan' = Rearmed(scan) /\ scan.queued > 0
    BY <1>3, Zenon DEF ScheduledScan
  <2>2. check' = check /\ air' = air /\ seenUp' = seenUp
    BY <1>3, Zenon DEF ScheduledScan, world, history
  <2>3. IsTask(scan') /\ Scheduled(scan') /\ scan'.running = scan.running
    BY <2>1, TaskSteps, Zenon
  <2> QED
    BY <2>2, <2>3, Zenon DEF TasksSound, TasksScheduled, IsTask, Scheduled
<1>4. CASE FreedReport
  BY <1>4, TasksKept, Zenon DEF FreedReport, world, history
<1>5. ASSUME NEW i \in DOMAIN reports, PeriodicReport(i) \/ ReportExpires(i) PROVE TasksSound'
  BY <1>5, TasksKept, Zenon DEF PeriodicReport, ReportExpires, world, history
<1>6. CASE LinkEvent
  BY <1>6, TasksLinkEvent, Zenon
<1>7. CASE WpaSignal
  <2> DEFINE a == [air EXCEPT !.signals = Tail(@)]
  <2>1. air' \in {a, CleanL2(a)}
    BY <1>7, Zenon DEF WpaSignal, Associating, Ended
  <2>2. "scans" \in DOMAIN a /\ a.scans = air.scans
    BY Zenon
  <2> HIDE DEF a
  <2>3. "scans" \in DOMAIN air' /\ air'.scans = air.scans
    BY <2>1, <2>2, AirSteps, Zenon
  <2>4. check' = check /\ scan' = scan /\ seenUp' = seenUp
    BY <1>7, Zenon DEF WpaSignal, tables
  <2> QED
    BY <2>3, <2>4, TasksKept, Zenon
<1>8. CASE CheckExpires
  <2>1. check' = Expired(check)
    BY <1>8, Zenon DEF CheckExpires
  <2>2. scan' = scan /\ air' = air /\ seenUp' = seenUp
    BY <1>8, Zenon DEF CheckExpires, world, history
  <2>3. IsTask(check') /\ Scheduled(check')
    BY <2>1, TaskSteps, Zenon
  <2> QED
    BY <2>2, <2>3, Zenon DEF TasksSound, TasksScheduled, IsTask, Scheduled
<1>9. CASE ScanExpires
  <2>1. scan' = Expired(scan)
    BY <1>9, Zenon DEF ScanExpires
  <2>2. check' = check /\ air' = air /\ seenUp' = seenUp
    BY <1>9, Zenon DEF ScanExpires, world, history
  <2>3. IsTask(scan') /\ Scheduled(scan') /\ scan'.running = scan.running
    BY <2>1, TaskSteps, Zenon
  <2> QED
    BY <2>2, <2>3, Zenon DEF TasksSound, TasksScheduled, IsTask, Scheduled
<1>10. CASE Network
  <2>1. check' = check /\ scan' = scan /\ seenUp' = seenUp
    BY <1>10, Zenon DEF Network, tables, history
  <2>2. "scans" \in DOMAIN air' /\ air'.scans = air.scans
    <3>1. CASE SupAssociate
      BY <3>1, AirSteps, Zenon DEF SupAssociate, Signalled
    <3>2. CASE SupComplete
      BY <3>2, Zenon DEF SupComplete, Signalled
    <3>3. CASE Disturbance
      <4> DEFINE b == [air EXCEPT !.sup = "associating"]
      <4>1. air' \in {air, Left(air), Signalled(air, "request"), Signalled(b, "associating")}
        BY <3>3, Zenon DEF Disturbance
      <4>2. "scans" \in DOMAIN b /\ b.scans = air.scans
        BY Zenon
      <4> HIDE DEF b
      <4>3. "scans" \in DOMAIN Signalled(b, "associating") /\ Signalled(b, "associating").scans = air.scans
        BY <4>2, Zenon DEF Signalled
      <4> QED
        BY <4>1, <4>3, AirSteps
    <3>4. CASE FirstPacket
      BY <3>4, Zenon DEF FirstPacket
    <3> QED
      BY <1>10, <3>1, <3>2, <3>3, <3>4, Zenon DEF Network
  <2> QED
    BY <2>1, <2>2, TasksKept, Zenon
<1>11. CASE UNCHANGED vars
  BY <1>11, TasksKept, Zenon DEF vars, tables, world, history
<1> QED
  BY <1>1, <1>2, <1>3, <1>4, <1>5, <1>6, <1>7, <1>8, <1>9, <1>10, <1>11 DEF Next

\* For every set of requests and every bound: a timer task that says it runs is
\* scheduled, whatever the order of its starts, stops and late expiries, and a
\* SAP that is set to scan does so from every link_down to the next link_up.
THEOREM TasksRun == Spec => []TasksScheduled
<1>1. TasksSound => TasksScheduled
  BY Zenon DEF TasksSound
<1> QED
  BY <1>1, TasksInit, TasksNext, PTL DEF Spec
-----------------------------------------------------------------------------
(***************************************************************************)
(* Induction up to a number                                                *)
(***************************************************************************)

Less == {ss \in Nat \X Nat : ss[1] < ss[2]}

\* A set of numbers has a least one.
LEMMA LeastNumber ==
    ASSUME NEW S \in SUBSET Nat, S # {}
    PROVE  \E m \in S : \A k \in S : m <= k
<1>1. IsWellFoundedOn(Less, Nat)
  BY NatLessThanWellFounded, Zenon DEF OpToRel, Less
<1>2. \E m \in S : \A k \in S : ~(<<k, m>> \in Less)
  BY <1>1, WFMin, Zenon
<1>3. PICK m \in S : \A k \in S : ~(<<k, m>> \in Less)
  BY <1>2
<1>4. ASSUME NEW k \in S PROVE m <= k
  <2>1. ~(<<k, m>> \in Less)
    BY <1>3
  <2>2. ~(k < m)
    BY <2>1 DEF Less
  <2> QED
    BY <2>2
<1> QED
  BY <1>4

\* Induction up to n: a set that has 0 and with a number the next has them all.
LEMMA NumbersUpTo ==
    ASSUME NEW n \in Nat, NEW S, 0 \in S, \A k \in 0 .. n - 1 : k \in S => k + 1 \in S
    PROVE  \A k \in 0 .. n : k \in S
<1> DEFINE bad == {k \in 0 .. n : k \notin S}
<1>1. SUFFICES ASSUME bad # {} PROVE FALSE
  BY Zenon
<1>2. bad \in SUBSET Nat
  OBVIOUS
<1> HIDE DEF bad
<1>3. PICK m \in bad : \A k \in bad : m <= k
  BY <1>1, <1>2, LeastNumber, Zenon
<1>4. m \in 1 .. n /\ m \notin S
  BY <1>3 DEF bad
<1>5. m - 1 \in 0 .. n - 1 /\ ~(m <= m - 1) /\ (m - 1) + 1 = m
  BY <1>4
<1>6. m - 1 \in S
  BY <1>3, <1>5 DEF bad
<1> QED
  BY <1>4, <1>5, <1>6, Zenon

\* f begins with a and goes on to k with the step F.
IsFold(f, k, X, a, F) ==
    f \in [0 .. k -> X] /\ f[0] = a /\ \A i \in 1 .. k : f[i] = F[<<f[i - 1], i>>]

\* A recursive function exists for every step that stays in X.
LEMMA Folding ==
    ASSUME NEW n \in Nat, NEW X, NEW a \in X, NEW F \in [X \X (1 .. n) -> X]
    PROVE  \E f : IsFold(f, n, X, a, F)
<1> USE DEF IsFold
<1> DEFINE Part(k, f) == IsFold(f, k, X, a, F)
           done == {k \in 0 .. n : \E f : Part(k, f)}
<1>1. 0 \in done
  <2> DEFINE f == [i \in 0 .. 0 |-> a]
  <2>1. f \in [0 .. 0 -> X] /\ f[0] = a /\ 1 .. 0 = {}
    OBVIOUS
  <2>2. Part(0, f)
    BY <2>1, Zenon
  <2>3. 0 \in 0 .. n
    OBVIOUS
  <2> QED
    BY <2>2, <2>3, Zenon
<1>2. ASSUME NEW k \in 0 .. n - 1, k \in done PROVE k + 1 \in done
  <2>1. PICK f : Part(k, f)
    BY <1>2, Zenon
  <2> DEFINE g == [i \in 0 .. k + 1 |-> IF i = k + 1 THEN F[<<f[k], k + 1>>] ELSE f[i]]
  <2>2. k + 1 \in 1 .. n /\ k + 1 \in 0 .. n /\ k \in 0 .. k /\ k \in Nat
    OBVIOUS
  <2>3. F[<<f[k], k + 1>>] \in X
    BY <2>1, <2>2, Zenon
  <2>4. g \in [0 .. k + 1 -> X] /\ g[0] = a
    BY <2>1, <2>2, <2>3
  <2>5. ASSUME NEW i \in 1 .. k + 1 PROVE g[i] = F[<<g[i - 1], i>>]
    <3>1. CASE i = k + 1
      <4>1. g[k] = f[k] /\ g[k + 1] = F[<<f[k], k + 1>>] /\ i - 1 = k
        BY <2>2, <3>1
      <4> QED
        BY <3>1, <4>1, Zenon
    <3>2. CASE i # k + 1
      <4>1. i \in 1 .. k /\ i - 1 \in 0 .. k + 1 /\ i - 1 # k + 1 /\ i \in 0 .. k + 1
        BY <2>2, <3>2
      <4>2. g[i] = f[i] /\ g[i - 1] = f[i - 1]
        BY <3>2, <4>1, Zenon
      <4> QED
        BY <2>1, <4>1, <4>2, Zenon
    <3> QED
      BY <3>1, <3>2
  <2> HIDE DEF g
  <2>6. Part(k + 1, g)
    BY <2>4, <2>5, Zenon
  <2> QED
    BY <2>2, <2>6, Zenon
<1>3. n \in done
  <2> HIDE DEF done
  <2>1. \A k \in 0 .. n : k \in done
    BY <1>1, <1>2, NumbersUpTo, Zenon
  <2>2. n \in 0 .. n
    OBVIOUS
  <2> QED
    BY <2>1, <2>2, Zenon
<1> QED
  BY <1>3, Zenon

-----------------------------------------------------------------------------
(***************************************************************************)
(* The confirmations of the requests.                                      *)
(***************************************************************************)
Confirmation == [status : {"success", "failure", "authorization_failure"},
                 at : {"request", "signal"}, net : Request \cup {NoNet, OldNet}]

\* All attempts to connect since the request r, and the signals of those that
\* succeed, are about the network of r.
OnlyFor(a, r) ==
    /\ a.net \in {r, NoNet}
    /\ a.sup # "disconnected" => a.net = r
    /\ \A i \in DOMAIN a.signals : a.signals[i].state = "completed" => a.signals[i].net = r

\* The handler of a request waits in one place, once; only a request whose
\* SelectNetwork failed is confirmed before it is called.
Once(r) ==
    /\ r \in todo => r \notin Waiting /\ confirms[r] = <<>>
    /\ r \in Waiting => /\ Ask[r].kind = "link_conf" /\ Len(confirms[r]) =< 1
                        /\ confirms[r] # <<>> => confirms[r][1].at = "request"
    /\ Len(confirms[r]) > 1 => Len(confirms[r]) = 2 /\ confirms[r][1].at = "request"
    /\ ~(r \in Range(buffered) /\ r \in Range(handlers))

\* Who waits alone, waits for its own network, and gets it.
Own(r) ==
    r \notin mixed =>
        /\ r \in Waiting /\ confirms[r] = <<>> => OnlyFor(air, r)
        /\ confirms[r] # <<>> /\ confirms[r][1].at = "signal" /\ confirms[r][1].status = "success"
               => confirms[r][1].net = r

Shapes ==
    /\ air \in Air
    /\ DOMAIN confirms \subseteq Request /\ todo \subseteq DOMAIN confirms
    /\ \A r \in DOMAIN confirms : confirms[r] \in Seq(Confirmation)
    /\ buffered \in Seq(DOMAIN confirms) /\ handlers \in Seq(DOMAIN confirms)
    /\ l3 \subseteq Settings

\* The inductive invariant.
ConfirmsSound == Shapes /\ \A r \in DOMAIN confirms : Once(r) /\ Own(r)

\* What L3AsConfirmed says of one step.
L3Step ==
    \A r \in DOMAIN confirms :
        Ask[r].kind = "l3_conf" /\ confirms'[r] # <<>> /\ confirms[r] = <<>>
            => (confirms'[r][1].status = "success" => l3' = Ask[r].wants)

\* From a to b nothing happens that a waiting request would take for its own.
AirStep(a, b) == b \in Air /\ \A r : OnlyFor(a, r) => OnlyFor(b, r)

\* The requests R, and nobody else, get the confirmation x.
Adds(R, x) ==
    /\ DOMAIN confirms' = DOMAIN confirms
    /\ \A r \in DOMAIN confirms : confirms'[r] \in Seq(Confirmation)
    /\ \A r \in DOMAIN confirms : r \notin R => confirms'[r] = confirms[r]
    /\ \A r \in DOMAIN confirms \cap R :
           /\ Len(confirms'[r]) = Len(confirms[r]) + 1 /\ confirms'[r] # <<>>
           /\ confirms[r] # <<>> => confirms'[r][1] = confirms[r][1]
           /\ confirms[r] = <<>> => confirms'[r][1] = x

\* Appending to a list.
LEMMA Appended ==
    ASSUME NEW S, NEW s \in Seq(S), NEW e \in S
    PROVE  /\ Append(s, e) \in Seq(S) /\ Range(Append(s, e)) = Range(s) \cup {e}
           /\ Append(s, e) # <<>>
<1>1. Append(s, e) \in Seq(S) /\ Len(Append(s, e)) = Len(s) + 1 /\ Append(s, e)[Len(s) + 1] = e
      /\ \A i \in 1 .. Len(s) : Append(s, e)[i] = s[i]
  OBVIOUS
<1>2. DOMAIN s = 1 .. Len(s) /\ DOMAIN Append(s, e) = 1 .. Len(s) + 1 /\ Len(s) \in Nat
  BY <1>1
<1>3. Range(Append(s, e)) = Range(s) \cup {e}
  BY <1>1, <1>2 DEF Range
<1> QED
  BY <1>1, <1>3

\* Nobody waits in an empty list.
LEMMA NobodyWaits == Range(<<>>) = {}
BY DEF Range

\* A signal of wpa_supplicant joins the queue.
LEMMA SignalledAir ==
    ASSUME NEW a \in Air, NEW s \in {"associating", "completed", "disconnected", "request"}
    PROVE  LET b == Signalled(a, s)
           IN  /\ b \in Air
               /\ \A r : OnlyFor(a, r) /\ (s = "completed" => a.net = r) => OnlyFor(b, r)
               /\ b.net = a.net /\ b.sup = a.sup
<1> DEFINE x == [state |-> s, net |-> a.net]
           q == Append(a.signals, x)
           b == [a EXCEPT !.signals = q]
<1>1. x \in Signal /\ a.signals \in Seq(Signal)
  BY Zenon DEF Air, Signal
<1>2. /\ q \in Seq(Signal) /\ Len(q) = Len(a.signals) + 1 /\ q[Len(a.signals) + 1] = x
      /\ \A i \in 1 .. Len(a.signals) : q[i] = a.signals[i]
  BY <1>1
<1>3. DOMAIN q = 1 .. Len(a.signals) + 1 /\ DOMAIN a.signals = 1 .. Len(a.signals)
      /\ Len(a.signals) \in Nat
  BY <1>1, <1>2
<1>4. Signalled(a, s) = b
  BY Zenon DEF Signalled
<1>5. x.state = s /\ x.net = a.net
  BY Zenon
<1> HIDE DEF x, q
<1>6. b \in Air
  BY <1>2, ZenonT(30) DEF Air
<1>7. b.signals = q /\ b.net = a.net /\ b.sup = a.sup
  BY Zenon DEF Air
<1> HIDE DEF b
<1>8. ASSUME NEW r, OnlyFor(a, r), s = "completed" => a.net = r
      PROVE  OnlyFor(b, r)
  <2>1. ASSUME NEW i \in DOMAIN q, q[i].state = "completed"
        PROVE  q[i].net = r
    <3>1. CASE i = Len(a.signals) + 1
      BY <1>2, <1>5, <1>8, <2>1, <3>1
    <3>2. CASE i \in 1 .. Len(a.signals)
      BY <1>2, <1>3, <1>8, <2>1, <3>2 DEF OnlyFor
    <3> QED
      BY <1>3, <3>1, <3>2
  <2> QED
    BY <1>7, <1>8, <2>1, Zenon DEF OnlyFor
<1> QED
  BY <1>4, <1>6, <1>7, <1>8, Zenon

\* The interface leaves its network.
LEMMA LeftAir ==
    ASSUME NEW a \in Air
    PROVE  AirStep(a, Left(a)) /\ Left(a).sup = "disconnected"
<1> DEFINE l == Append(a.links, "down")
           d == [a EXCEPT !.assoc = FALSE, !.links = l]
           down == IF a.assoc THEN d ELSE a
           gone == [down EXCEPT !.sup = "disconnected"]
<1>1. l \in Seq({"up", "down"})
  BY DEF Air
<1> HIDE DEF l
<1>2. d \in Air
  BY <1>1, ZenonT(30) DEF Air
<1>3. d.signals = a.signals /\ d.net = a.net /\ d.sup = a.sup
  BY Zenon DEF Air
<1> HIDE DEF d
<1>4. down \in Air /\ down.signals = a.signals /\ down.net = a.net /\ down.sup = a.sup
  BY <1>2, <1>3, Zenon
<1>5. Left(a) = IF a.sup = "disconnected" THEN down ELSE Signalled(gone, "disconnected")
  BY Zenon DEF Left, down, d, l
<1> HIDE DEF down
<1>6. gone \in Air
  BY <1>4, ZenonT(30) DEF Air
<1>7. gone.signals = a.signals /\ gone.net = a.net /\ gone.sup = "disconnected"
  BY <1>4, Zenon DEF Air
<1> HIDE DEF gone
<1>8. \A r : OnlyFor(a, r) => OnlyFor(down, r) /\ OnlyFor(gone, r)
  BY <1>4, <1>7, Zenon DEF OnlyFor
<1>9. CASE a.sup = "disconnected"
  BY <1>4, <1>5, <1>8, <1>9, Zenon DEF AirStep
<1>10. CASE a.sup # "disconnected"
  <2> DEFINE b == Signalled(gone, "disconnected")
  <2>1. b \in Air /\ (\A r : OnlyFor(gone, r) => OnlyFor(b, r)) /\ b.sup = gone.sup
    BY <1>6, SignalledAir, Zenon
  <2> HIDE DEF b
  <2>2. Left(a) = b
    BY <1>5, <1>10, Zenon DEF b
  <2> QED
    BY <1>7, <1>8, <2>1, <2>2, Zenon DEF AirStep
<1> QED
  BY <1>9, <1>10, Zenon

\* clean_l2, set_op_mode, and whatever happens to the events of the link.
LEMMA OtherAir ==
    ASSUME NEW a \in Air
    PROVE  /\ AirStep(a, a) /\ AirStep(a, CleanL2(a))
           /\ \A m : AirStep(a, OpMode(a, m))
           /\ \A l \in Seq({"up", "down"}) : AirStep(a, [a EXCEPT !.links = l])
<1>1. AirStep(a, a)
  BY Zenon DEF AirStep
<1>2. AirStep(a, Left(a)) /\ Left(a).sup = "disconnected" /\ Left(a) \in Air
  BY LeftAir, Zenon DEF AirStep
<1>3. AirStep(a, CleanL2(a))
  <2> DEFINE b == Left(a)
             c == [b EXCEPT !.net = NoNet]
  <2>1. c \in Air
    BY <1>2, ZenonT(30) DEF Air
  <2>2. c.signals = b.signals /\ c.net = NoNet /\ c.sup = b.sup
    BY <1>2, Zenon DEF Air
  <2>3. CleanL2(a) = IF a.sup = "disconnected" THEN a ELSE c
    BY Zenon DEF CleanL2
  <2> HIDE DEF b, c
  <2>4. \A r : OnlyFor(b, r) => OnlyFor(c, r)
    BY <1>2, <2>2, Zenon DEF OnlyFor, b
  <2> QED
    BY <1>1, <1>2, <2>1, <2>3, <2>4 DEF AirStep, b
<1>4. ASSUME NEW m
      PROVE  AirStep(a, OpMode(a, m))
  <2> DEFINE b == Left(a)
             off == [b EXCEPT !.power = FALSE]
             on == [a EXCEPT !.power = TRUE]
  <2>1. off \in Air
    BY <1>2, ZenonT(30) DEF Air
  <2>2. on \in Air
    BY ZenonT(30) DEF Air
  <2>3. off.signals = b.signals /\ off.net = b.net /\ off.sup = b.sup
    BY <1>2, Zenon DEF Air
  <2>4. on.signals = a.signals /\ on.net = a.net /\ on.sup = a.sup
    BY Zenon DEF Air
  <2>5. OpMode(a, m) \in {off, on, b, a}
    BY Zenon DEF OpMode
  <2> HIDE DEF b, off, on
  <2>6. \A r : (OnlyFor(b, r) => OnlyFor(off, r)) /\ (OnlyFor(a, r) => OnlyFor(on, r))
    BY <2>3, <2>4, Zenon DEF OnlyFor
  <2>7. AirStep(a, off) /\ AirStep(a, on) /\ AirStep(a, b)
    BY <1>2, <2>1, <2>2, <2>6 DEF AirStep, b
  <2> QED
    BY <1>1, <2>5, <2>7, Zenon
<1>5. ASSUME NEW l \in Seq({"up", "down"})
      PROVE  AirStep(a, [a EXCEPT !.links = l])
  <2> DEFINE b == [a EXCEPT !.links = l]
  <2>1. b \in Air
    BY ZenonT(30) DEF Air
  <2>2. b.signals = a.signals /\ b.net = a.net /\ b.sup = a.sup
    BY Zenon DEF Air
  <2> HIDE DEF b
  <2>3. AirStep(a, b)
    BY <2>1, <2>2, Zenon DEF AirStep, OnlyFor
  <2> QED
    BY <2>3, Zenon DEF b
<1> QED
  BY <1>1, <1>3, <1>4, <1>5, Zenon

\* Two steps in a row.
LEMMA AirSteps2 ==
    ASSUME NEW a, NEW b, NEW c, AirStep(a, b), AirStep(b, c)
    PROVE  AirStep(a, c)
BY Zenon DEF AirStep

\* SelectNetwork: the attempt begins from a supplicant that has left its network.
LEMMA SelectedAir ==
    ASSUME NEW a \in Air, NEW r \in Request
    PROVE  Selected(a, r) \in Air /\ (a.signals = <<>> => OnlyFor(Selected(a, r), r))
<1> DEFINE b == Left(a)
           c == [b EXCEPT !.net = r]
<1>1. b \in Air /\ b.sup = "disconnected"
  BY LeftAir, Zenon DEF AirStep
<1>2. a.signals = <<>> => \A i \in DOMAIN b.signals : b.signals[i].state # "completed"
  <2> SUFFICES ASSUME a.signals = <<>>, NEW i \in DOMAIN b.signals
               PROVE  b.signals[i].state # "completed"
    BY Zenon
  <2> DEFINE d == [a EXCEPT !.assoc = FALSE, !.links = Append(a.links, "down")]
             down == IF a.assoc THEN d ELSE a
             gone == [down EXCEPT !.sup = "disconnected"]
             x == [state |-> "disconnected", net |-> gone.net]
  <2>1. d.signals = <<>>
    BY Zenon DEF Air
  <2>2. DOMAIN d = DOMAIN a
    BY Zenon
  <2>3. b = IF a.sup = "disconnected" THEN down ELSE Signalled(gone, "disconnected")
    BY Zenon DEF Left
  <2> HIDE DEF d, b
  <2>4. down.signals = <<>> /\ DOMAIN down = DOMAIN a
    BY <2>1, <2>2, Zenon
  <2> HIDE DEF down
  <2>5. gone.signals = <<>> /\ "signals" \in DOMAIN gone
    BY <2>4, Zenon DEF Air
  <2>6. Signalled(gone, "disconnected") = [gone EXCEPT !.signals = Append(gone.signals, x)]
    BY Zenon DEF Signalled
  <2>7. x.state = "disconnected"
    BY Zenon
  <2> HIDE DEF gone, x
  <2>8. b.signals \in {<<>>, <<x>>}
    BY <2>3, <2>4, <2>5, <2>6
  <2> QED
    BY <2>7, <2>8
<1>3. Selected(a, r) = c
  BY Zenon DEF Selected
<1> HIDE DEF b
<1>4. c \in Air
  BY <1>1, ZenonT(30) DEF Air
<1>5. c.signals = b.signals /\ c.net = r /\ c.sup = b.sup
  BY <1>1, Zenon DEF Air
<1> HIDE DEF c
<1> QED
  BY <1>1, <1>2, <1>3, <1>4, <1>5 DEF OnlyFor

\* What a confirm adds to the history.
LEMMA ConfirmAdds ==
    ASSUME \A r \in DOMAIN confirms : confirms[r] \in Seq(Confirmation),
           NEW R, NEW st \in {"success", "failure", "authorization_failure"},
           NEW at \in {"request", "signal"}, NEW net \in Request \cup {NoNet, OldNet},
           Confirm(R, st, at, net)
    PROVE  Adds(R, [status |-> st, at |-> at, net |-> net])
<1> DEFINE x == [status |-> st, at |-> at, net |-> net]
<1>1. x \in Confirmation
  BY Zenon DEF Confirmation
<1>2. confirms' = [r \in DOMAIN confirms |->
                       IF r \in R THEN Append(confirms[r], x) ELSE confirms[r]]
  BY Zenon DEF Confirm
<1> HIDE DEF x
<1>3. ASSUME NEW s \in Seq(Confirmation)
      PROVE  LET t == Append(s, x)
             IN  /\ t \in Seq(Confirmation) /\ Len(t) = Len(s) + 1 /\ t # <<>>
                 /\ s # <<>> => t[1] = s[1]
                 /\ s = <<>> => t[1] = x
  <2> DEFINE t == Append(s, x)
  <2>1. t \in Seq(Confirmation) /\ Len(t) = Len(s) + 1 /\ t[Len(s) + 1] = x
        /\ \A i \in 1 .. Len(s) : t[i] = s[i]
    BY <1>1
  <2>2. Len(s) \in Nat /\ (s = <<>> <=> Len(s) = 0) /\ Len(<<>>) = 0
    OBVIOUS
  <2> HIDE DEF t
  <2>3. t # <<>> /\ (s # <<>> => t[1] = s[1]) /\ (s = <<>> => t[1] = x)
    BY <2>1, <2>2
  <2> QED
    BY <2>1, <2>3 DEF t
<1>4. ASSUME NEW r \in DOMAIN confirms \cap R
      PROVE  /\ confirms'[r] \in Seq(Confirmation)
             /\ Len(confirms'[r]) = Len(confirms[r]) + 1 /\ confirms'[r] # <<>>
             /\ confirms[r] # <<>> => confirms'[r][1] = confirms[r][1]
             /\ confirms[r] = <<>> => confirms'[r][1] = x
  BY <1>2, <1>3, Zenon
<1>5. DOMAIN confirms' = DOMAIN confirms
      /\ \A r \in DOMAIN confirms : r \notin R => confirms'[r] = confirms[r]
  BY <1>2, Zenon
<1>6. Adds(R, x)
  BY <1>4, <1>5, Zenon DEF Adds
<1> QED
  BY <1>6, Zenon DEF x

\* The confirm of one request.
LEMMA ConfirmOne ==
    ASSUME Shapes, NEW r \in DOMAIN confirms,
           NEW st \in {"success", "failure", "authorization_failure"}, Confirm({r}, st, "request", NoNet)
    PROVE  /\ DOMAIN confirms' = DOMAIN confirms
           /\ \A q \in DOMAIN confirms : confirms'[q] \in Seq(Confirmation)
           /\ \A q \in DOMAIN confirms : q # r => confirms'[q] = confirms[q]
           /\ Len(confirms'[r]) = Len(confirms[r]) + 1 /\ confirms'[r] # <<>>
           /\ confirms[r] = <<>> => confirms'[r][1].at = "request" /\ confirms'[r][1].status = st
<1> DEFINE x == [status |-> st, at |-> "request", net |-> NoNet]
<1>1. \A q \in DOMAIN confirms : confirms[q] \in Seq(Confirmation)
  BY Zenon DEF Shapes
<1>2. Adds({r}, x)
  BY <1>1, ConfirmAdds, Zenon
<1>3. x.status = st /\ x.at = "request"
  BY Zenon
<1> HIDE DEF x
<1> QED
  BY <1>2, <1>3, Zenon DEF Adds

\* A step that confirms nothing and leaves the handlers alone.
LEMMA ConfirmsKept ==
    ASSUME ConfirmsSound, confirms' = confirms, buffered' = buffered, handlers' = handlers,
           mixed' = mixed, todo' = todo, l3' = l3, AirStep(air, air')
    PROVE  ConfirmsSound' /\ L3Step
<1>1. Shapes'
  BY Zenon DEF ConfirmsSound, Shapes, AirStep
<1>2. ASSUME NEW r \in DOMAIN confirms
      PROVE  Once(r)' /\ Own(r)'
  BY Zenon DEF ConfirmsSound, Once, Own, Waiting, AirStep
<1>3. L3Step
  BY Zenon DEF L3Step
<1> QED
  BY <1>1, <1>2, <1>3, Zenon DEF ConfirmsSound

\* A request that is taken and not confirmed: the process dies.
LEMMA TakenUnconfirmed ==
    ASSUME ConfirmsSound, UNCHANGED <<confirms, buffered, handlers, mixed, l3, air>>, todo' \subseteq todo
    PROVE  ConfirmsSound' /\ L3Step
<1>1. Shapes'
  BY Zenon DEF ConfirmsSound, Shapes
<1>2. ASSUME NEW r \in DOMAIN confirms
      PROVE  Once(r)' /\ Own(r)'
  BY Zenon DEF ConfirmsSound, Once, Own, Waiting, OnlyFor
<1>3. L3Step
  BY Zenon DEF L3Step
<1> QED
  BY <1>1, <1>2, <1>3, Zenon DEF ConfirmsSound

\* A request that is confirmed when it is taken.
LEMMA ConfirmedAtOnce ==
    ASSUME ConfirmsSound, NEW r \in todo, NEW st \in {"success", "failure"},
           Confirm({r}, st, "request", NoNet), todo' = todo \ {r},
           buffered' = buffered, handlers' = handlers, mixed' = mixed,
           l3' \subseteq Settings, AirStep(air, air')
    PROVE  ConfirmsSound' /\ (Ask[r].kind # "l3_conf" => L3Step)
<1>1. Shapes /\ r \in DOMAIN confirms /\ Once(r)
  BY Zenon DEF ConfirmsSound, Shapes
<1>2. /\ DOMAIN confirms' = DOMAIN confirms
      /\ \A q \in DOMAIN confirms : confirms'[q] \in Seq(Confirmation)
      /\ \A q \in DOMAIN confirms : q # r => confirms'[q] = confirms[q]
      /\ Len(confirms'[r]) = Len(confirms[r]) + 1 /\ confirms'[r] # <<>>
      /\ confirms[r] = <<>> => confirms'[r][1].at = "request"
  BY <1>1, ConfirmOne, Zenon
<1>3. Shapes'
  BY <1>1, <1>2, Zenon DEF Shapes, AirStep
<1>4. Waiting' = Waiting
  BY Zenon DEF Waiting
<1>5. r \notin Waiting /\ confirms[r] = <<>> /\ confirms'[r][1].at = "request"
  BY <1>1, <1>2, Zenon DEF Once
<1>a. Len(<<>>) = 0
  BY Zenon
<1>b. ~(Len(confirms'[r]) > 1)
  BY <1>2, <1>5, <1>a
<1>6. ASSUME NEW q \in DOMAIN confirms
      PROVE  Once(q)' /\ Own(q)'
  <2>1. Once(q) /\ Own(q)
    BY Zenon DEF ConfirmsSound
  <2>2. CASE q # r
    BY <1>2, <1>4, <2>1, <2>2, Zenon DEF Once, Own, AirStep
  <2>3. CASE q = r
    BY <1>2, <1>4, <1>5, <1>b, <2>1, <2>3, Zenon DEF Once, Own
  <2> QED
    BY <2>2, <2>3, Zenon
<1>7. Ask[r].kind # "l3_conf" => L3Step
  BY <1>2, Zenon DEF L3Step
<1> QED
  BY <1>2, <1>3, <1>6, <1>7, Zenon DEF ConfirmsSound

\* clean_l3 takes settings away, and all its steps take them all away.
LEMMA CleanL3Cleans ==
    /\ \A s, k : CleanL3(s, k) \subseteq s
    /\ \A s : s \subseteq Settings => CleanL3(s, Len(CleanSteps)) = {}
<1>1. \A s, k : CleanL3(s, k) \subseteq s
  BY Zenon DEF CleanL3
<1>2. ASSUME NEW s, s \subseteq Settings
      PROVE  CleanL3(s, Len(CleanSteps)) = {}
  <2>1. Len(CleanSteps) = 5
    BY Zenon DEF CleanSteps
  <2>2. CleanSteps[1] = {"address"} /\ CleanSteps[2] = {"route"} /\ CleanSteps[3] = {"dhcp4"}
        /\ CleanSteps[4] = {"dhcp6"} /\ CleanSteps[5] = {"dns", "domain"}
    BY Zenon DEF CleanSteps
  <2>3. 1 \in 1 .. 5 /\ 2 \in 1 .. 5 /\ 3 \in 1 .. 5 /\ 4 \in 1 .. 5 /\ 5 \in 1 .. 5
    OBVIOUS
  <2>4. ASSUME NEW e \in s
        PROVE  \E i \in 1 .. 5 : e \in CleanSteps[i]
    BY <1>2, <2>2, <2>3, Zenon DEF Settings
  <2> QED
    BY <2>1, <2>4, Zenon DEF CleanL3
<1> QED
  BY <1>1, <1>2, Zenon

\* handle_l3_conf.
LEMMA ConfirmsL3Conf ==
    ASSUME ConfirmsSound, NEW r \in todo, L3Conf(r)
    PROVE  ConfirmsSound' /\ L3Step
<1>1. Shapes /\ air \in Air /\ r \in DOMAIN confirms /\ Once(r)
  BY Zenon DEF ConfirmsSound, Shapes
<1>2. AirStep(air, air')
  BY <1>1, OtherAir, Zenon DEF L3Conf
<1>3. /\ Ask[r].kind = "l3_conf" /\ todo' = todo \ {r} /\ buffered' = buffered
      /\ handlers' = handlers /\ mixed' = mixed
  BY Zenon DEF L3Conf, Take, connect
<1>4. Ask[r].wants \subseteq Settings
  BY <1>1, <1>3, WantsAssumption, Zenon DEF Shapes
<1>5. CASE Confirm({r}, "success", "request", NoNet) /\ l3' = Ask[r].wants
  <2>1. ConfirmsSound'
    BY <1>2, <1>3, <1>4, <1>5, ConfirmedAtOnce, Zenon
  <2>2. \A q \in DOMAIN confirms : q # r => confirms'[q] = confirms[q]
    BY <1>1, <1>5, ConfirmOne, Zenon
  <2> QED
    BY <1>5, <2>1, <2>2, Zenon DEF L3Step
<1>6. CASE Confirm({r}, "failure", "request", NoNet) /\ l3' \subseteq Settings
  <2>1. ConfirmsSound'
    BY <1>2, <1>3, <1>6, ConfirmedAtOnce, Zenon
  <2>2. /\ \A q \in DOMAIN confirms : q # r => confirms'[q] = confirms[q]
        /\ confirms[r] = <<>> => confirms'[r][1].status = "failure"
    BY <1>1, <1>6, ConfirmOne, Zenon
  <2>3. "failure" # "success"
    OBVIOUS
  <2> QED
    BY <2>1, <2>2, <2>3, Zenon DEF L3Step
<1>7. \/ Confirm({r}, "success", "request", NoNet) /\ l3' = CleanL3(l3, Len(CleanSteps)) \cup Ask[r].wants
      \/ /\ Confirm({r}, "failure", "request", NoNet)
         /\ \/ \E k : l3' = CleanL3(l3, k)
            \/ l3' \subseteq CleanL3(l3, Len(CleanSteps)) \cup Ask[r].wants
  BY Zenon DEF L3Conf
<1>8. CleanL3(l3, Len(CleanSteps)) = {} /\ \A k : CleanL3(l3, k) \subseteq Settings
  BY <1>1, CleanL3Cleans, Zenon DEF Shapes
<1>9. {} \cup Ask[r].wants = Ask[r].wants
  OBVIOUS
<1> QED
  BY <1>4, <1>5, <1>6, <1>7, <1>8, <1>9, Zenon

\* handle_link_actions.
LEMMA ConfirmsLinkActions ==
    ASSUME ConfirmsSound, NEW r \in todo, LinkActions(r)
    PROVE  ConfirmsSound' /\ L3Step
<1>1. air \in Air /\ l3 \subseteq Settings
  BY Zenon DEF ConfirmsSound, Shapes
<1>2. \E st \in {"success", "failure"} : Confirm({r}, st, "request", NoNet)
  BY Zenon DEF LinkActions
<1>3. air' \in {air, OpMode(air, Ask[r].action), OpMode(CleanL2(air), Ask[r].action)}
  BY Zenon DEF LinkActions
<1>4. AirStep(air, air')
  <2>1. AirStep(air, air) /\ AirStep(air, OpMode(air, Ask[r].action)) /\ AirStep(air, CleanL2(air))
    BY <1>1, OtherAir, Zenon
  <2>2. AirStep(CleanL2(air), OpMode(CleanL2(air), Ask[r].action))
    BY <2>1, OtherAir, Zenon DEF AirStep
  <2> QED
    BY <1>3, <2>1, <2>2, AirSteps2
<1>5. l3' = l3 \/ \E k : l3' = CleanL3(l3, k)
  BY Zenon DEF LinkActions
<1>6. l3' \subseteq Settings
  BY <1>1, <1>5, CleanL3Cleans
<1>7. /\ Ask[r].kind = "actions" /\ todo' = todo \ {r} /\ buffered' = buffered
      /\ handlers' = handlers /\ mixed' = mixed
  BY Zenon DEF LinkActions, Take, connect
<1> QED
  BY <1>2, <1>4, <1>6, <1>7, ConfirmedAtOnce, Zenon

\* handle_link_conf: the request waits, confirmed or not, or fails at once.
LEMMA ConfirmsLinkConf ==
    ASSUME ConfirmsSound, NEW r \in todo, LinkConf(r)
    PROVE  ConfirmsSound' /\ L3Step
<1>1. Shapes /\ air \in Air /\ r \in DOMAIN confirms /\ r \in Request /\ Once(r)
  BY Zenon DEF ConfirmsSound, Shapes
<1>2. Ask[r].kind = "link_conf" /\ todo' = todo \ {r} /\ handlers' = handlers /\ l3' = l3
  BY Zenon DEF LinkConf, Take
<1>3. CASE /\ Confirm({r}, "failure", "request", NoNet)
           /\ air' = air /\ buffered' = buffered /\ mixed' = mixed
  BY <1>1, <1>2, <1>3, ConfirmedAtOnce, OtherAir, Zenon DEF Shapes
<1>4. CASE /\ buffered' = Append(buffered, r)
           /\ mixed' = mixed \cup (IF Waiting # {} \/ air.signals # <<>>
                                   THEN Waiting \cup {r} ELSE {})
           /\ \/ air' = Selected(air, r) /\ confirms' = confirms
              \/ air' = air /\ Confirm({r}, "failure", "request", NoNet)
  <2>1. /\ buffered' \in Seq(DOMAIN confirms)
        /\ Range(buffered') = Range(buffered) \cup {r}
    BY <1>1, <1>4, Appended DEF Shapes
  <2>2. Waiting' = Waiting \cup {r}
    BY <1>2, <2>1, Zenon DEF Waiting
  <2>3. /\ DOMAIN confirms' = DOMAIN confirms
        /\ \A q \in DOMAIN confirms : confirms'[q] \in Seq(Confirmation)
        /\ \A q \in DOMAIN confirms : q # r => confirms'[q] = confirms[q]
        /\ \/ confirms'[r] = <<>> /\ air' = Selected(air, r)
           \/ /\ Len(confirms'[r]) = 1 /\ confirms'[r] # <<>>
              /\ confirms'[r][1].at = "request"
    <3>1. confirms[r] = <<>> /\ Len(confirms[r]) = 0
      BY <1>1, Zenon DEF Once
    <3>2. CASE air' = Selected(air, r) /\ confirms' = confirms
      BY <1>1, <3>1, <3>2, Zenon DEF Shapes
    <3>3. CASE Confirm({r}, "failure", "request", NoNet)
      <4>1. /\ DOMAIN confirms' = DOMAIN confirms
            /\ \A q \in DOMAIN confirms : confirms'[q] \in Seq(Confirmation)
            /\ \A q \in DOMAIN confirms : q # r => confirms'[q] = confirms[q]
            /\ Len(confirms'[r]) = Len(confirms[r]) + 1 /\ confirms'[r] # <<>>
            /\ confirms'[r][1].at = "request"
        BY <1>1, <3>1, <3>3, ConfirmOne, Zenon
      <4> QED
        BY <3>1, <4>1
    <3> QED
      BY <1>4, <3>2, <3>3, Zenon
  <2>4. air' \in Air
    BY <1>1, <1>4, SelectedAir, Zenon
  <2>5. Shapes'
    BY <1>1, <1>2, <2>1, <2>3, <2>4, Zenon DEF Shapes
  <2>6. ASSUME NEW q \in DOMAIN confirms, q # r
        PROVE  Once(q)' /\ Own(q)'
    <3>1. Once(q) /\ Own(q)
      BY Zenon DEF ConfirmsSound
    <3>2. confirms'[q] = confirms[q] /\ (q \in Waiting' <=> q \in Waiting)
          /\ (q \in Range(buffered') <=> q \in Range(buffered)) /\ (q \in todo' <=> q \in todo)
      BY <1>2, <2>1, <2>2, <2>3, <2>6, Zenon
    <3>3. q \notin mixed' => q \notin mixed /\ q \notin Waiting
      BY <1>4, Zenon
    <3>4. Once(q)'
      BY <1>2, <3>1, <3>2, Zenon DEF Once
    <3>5. Own(q)'
      BY <3>1, <3>2, <3>3, Zenon DEF Own
    <3> QED
      BY <3>4, <3>5, Zenon
  <2>7. Once(r)'
    <3>1. r \notin Range(handlers)
      BY <1>1, Zenon DEF Once, Waiting
    <3>2. Len(<<>>) = 0
      BY Zenon
    <3>3. /\ Len(confirms'[r]) = 0 \/ Len(confirms'[r]) = 1
          /\ confirms'[r] # <<>> => confirms'[r][1].at = "request"
      BY <2>3, <3>2, Zenon
    <3>4. \A k : k = 0 \/ k = 1 => k =< 1 /\ ~(k > 1)
      OBVIOUS
    <3> QED
      BY <1>2, <2>2, <3>1, <3>3, <3>4, Zenon DEF Once
  <2>8. Own(r)'
    <3>1. r \notin mixed' => air.signals = <<>>
      BY <1>4, Zenon
    <3>2. confirms'[r] # <<>> => confirms'[r][1].at = "request"
      BY <2>3, Zenon
    <3>3. confirms'[r] = <<>> => air' = Selected(air, r)
      BY <2>3, Zenon
    <3> QED
      BY <1>1, <3>1, <3>2, <3>3, SelectedAir, Zenon DEF Own
  <2>9. L3Step
    BY <1>2, <2>3, Zenon DEF L3Step
  <2> QED
    BY <2>3, <2>5, <2>6, <2>7, <2>8, <2>9, Zenon DEF ConfirmsSound
<1> QED
  BY <1>3, <1>4, Zenon DEF LinkConf

\* PropertiesChanged and NetworkRequest.
LEMMA ConfirmsSignal ==
    ASSUME ConfirmsSound, WpaSignal
    PROVE  ConfirmsSound' /\ L3Step
<1> DEFINE x == Head(air.signals)
           q == Tail(air.signals)
           a == [air EXCEPT !.signals = q]
<1>1. Shapes /\ air \in Air
  BY Zenon DEF ConfirmsSound, Shapes
<1>2. air.signals # <<>> /\ l3' = l3 /\ todo' = todo /\ mixed' = mixed
  BY Zenon DEF WpaSignal
<1>3. /\ air.signals \in Seq(Signal) /\ x \in Signal /\ q \in Seq(Signal)
      /\ x = air.signals[1] /\ 1 \in DOMAIN air.signals
      /\ \A i \in DOMAIN q : i + 1 \in DOMAIN air.signals /\ q[i] = air.signals[i + 1]
  BY <1>1, <1>2 DEF Air
<1>4. AirStep(air, a)
  <2>1. a \in Air
    BY <1>1, <1>3, ZenonT(30) DEF Air
  <2>2. a.signals = q /\ a.net = air.net /\ a.sup = air.sup
    BY <1>1, Zenon DEF Air
  <2> HIDE DEF a, q
  <2>3. \A r : OnlyFor(air, r) => OnlyFor(a, r)
    BY <1>3, <2>2, Zenon DEF OnlyFor
  <2> QED
    BY <2>1, <2>3, Zenon DEF AirStep
<1>5. CASE x.state = "associating" /\ Associating
  <2>1. handlers' = buffered /\ buffered' = <<>> /\ air' = a /\ confirms' = confirms
    BY <1>5, Zenon DEF Associating
  <2> HIDE DEF a
  <2>2. Shapes'
    BY <1>1, <1>2, <1>4, <2>1 DEF Shapes, AirStep
  <2>3. Range(handlers') = Range(buffered) /\ Range(buffered') = {} /\ Waiting' \subseteq Waiting
    BY <2>1, NobodyWaits, Zenon DEF Waiting
  <2>4. ASSUME NEW r \in DOMAIN confirms
        PROVE  Once(r)' /\ Own(r)'
    <3>1. Once(r) /\ Own(r)
      BY Zenon DEF ConfirmsSound
    <3>2. Once(r)'
      BY <1>2, <2>1, <2>3, <3>1, Zenon DEF Once
    <3>3. Own(r)'
      BY <1>2, <1>4, <2>1, <2>3, <3>1 DEF Own, AirStep
    <3> QED
      BY <3>2, <3>3, Zenon
  <2> QED
    BY <2>1, <2>2, <2>4, Zenon DEF ConfirmsSound, L3Step
<1>6. ASSUME NEW st \in {"success", "failure", "authorization_failure"}, Ended(st),
             st = "success" => x.state = "completed"
      PROVE  ConfirmsSound' /\ L3Step
  <2> DEFINE H == Range(handlers)
  <2>1. /\ handlers' = <<>> /\ buffered' = buffered /\ Confirm(H, st, "signal", x.net)
        /\ air' \in {a, CleanL2(a)}
    BY <1>6, Zenon DEF Ended
  <2> HIDE DEF a, x
  <2>2. AirStep(air, air')
    <3>1. AirStep(a, CleanL2(a))
      BY <1>4, OtherAir, Zenon DEF AirStep
    <3> QED
      BY <1>4, <2>1, <3>1, AirSteps2
  <2>3. x.net \in Request \cup {NoNet, OldNet}
    BY <1>3, Zenon DEF Signal
  <2>4. /\ DOMAIN confirms' = DOMAIN confirms
        /\ \A r \in DOMAIN confirms : confirms'[r] \in Seq(Confirmation)
        /\ \A r \in DOMAIN confirms : r \notin H => confirms'[r] = confirms[r]
        /\ \A r \in DOMAIN confirms \cap H :
               /\ Len(confirms'[r]) = Len(confirms[r]) + 1 /\ confirms'[r] # <<>>
               /\ confirms[r] # <<>> => confirms'[r][1] = confirms[r][1]
               /\ confirms[r] = <<>> => confirms'[r][1] = [status |-> st, at |-> "signal", net |-> x.net]
    <3>1. \A r \in DOMAIN confirms : confirms[r] \in Seq(Confirmation)
      BY <1>1, Zenon DEF Shapes
    <3>2. Adds(H, [status |-> st, at |-> "signal", net |-> x.net])
      BY <2>1, <2>3, <3>1, ConfirmAdds, Zenon
    <3> QED
      BY <3>2, Zenon DEF Adds
  <2>5. Shapes'
    BY <1>1, <1>2, <2>1, <2>2, <2>4 DEF Shapes, AirStep
  <2>6. Range(handlers') = {} /\ Range(buffered') = Range(buffered) /\ Waiting' = Range(buffered)
    BY <2>1, NobodyWaits, Zenon DEF Waiting
  <2>7. ASSUME NEW r \in DOMAIN confirms, r \notin H
        PROVE  Once(r)' /\ Own(r)'
    <3>1. Once(r) /\ Own(r) /\ confirms'[r] = confirms[r] /\ (r \in Waiting' => r \in Waiting)
      BY <2>4, <2>6, <2>7, Zenon DEF ConfirmsSound, Waiting
    <3>2. Once(r)'
      BY <1>2, <2>6, <3>1, Zenon DEF Once
    <3>3. Own(r)'
      BY <1>2, <2>2, <3>1 DEF Own, AirStep
    <3> QED
      BY <3>2, <3>3, Zenon
  <2>8. ASSUME NEW r \in DOMAIN confirms, r \in H
        PROVE  Once(r)' /\ Own(r)'
    <3>1. Once(r) /\ Own(r) /\ r \in Waiting /\ r \notin Waiting' /\ r \notin todo
      BY <2>6, <2>8, Zenon DEF ConfirmsSound, Waiting, Once
    <3>2. /\ Len(confirms'[r]) = Len(confirms[r]) + 1 /\ confirms'[r] # <<>>
          /\ confirms[r] # <<>> => confirms'[r][1] = confirms[r][1]
          /\ confirms[r] = <<>> => confirms'[r][1] = [status |-> st, at |-> "signal", net |-> x.net]
          /\ confirms[r] \in Seq(Confirmation)
      BY <1>1, <2>4, <2>8, Zenon DEF Shapes
    <3>3. Len(confirms'[r]) =< 2 /\ (Len(confirms'[r]) > 1 => confirms[r] # <<>>)
          /\ (confirms[r] # <<>> => confirms[r][1].at = "request")
      BY <3>1, <3>2 DEF Once
    <3>4. Once(r)'
      BY <1>2, <2>6, <3>1, <3>2, <3>3 DEF Once
    <3>5. r \notin mixed /\ confirms[r] = <<>> /\ st = "success" => x.net = r
      BY <1>3, <1>6, <3>1, Zenon DEF Own, OnlyFor
    <3>6. Own(r)'
      BY <1>2, <3>1, <3>2, <3>3, <3>5 DEF Own
    <3> QED
      BY <3>4, <3>6, Zenon
  <2>9. L3Step
    <3>1. \A r \in DOMAIN confirms : r \in H => Ask[r].kind = "link_conf"
      BY Zenon DEF ConfirmsSound, Once, Waiting
    <3> QED
      BY <2>4, <3>1, Zenon DEF L3Step
  <2> QED
    BY <2>4, <2>5, <2>7, <2>8, <2>9 DEF ConfirmsSound
<1> QED
  BY <1>5, <1>6, Zenon DEF WpaSignal

\* The kernel and wpa_supplicant.
LEMMA ConfirmsNetwork ==
    ASSUME ConfirmsSound, Network
    PROVE  ConfirmsSound' /\ L3Step
<1>1. air \in Air
  BY Zenon DEF ConfirmsSound, Shapes
<1>2. /\ confirms' = confirms /\ buffered' = buffered /\ handlers' = handlers
      /\ mixed' = mixed /\ todo' = todo /\ l3' = l3
  BY Zenon DEF Network, connect, history
<1>3. AirStep(air, air')
  <2>a. ASSUME air' = Signalled([air EXCEPT !.sup = "associating"], "associating"),
               air.net # NoNet \/ air.sup # "disconnected"
        PROVE  AirStep(air, air')
    <3> DEFINE b == [air EXCEPT !.sup = "associating"]
    <3>1. b \in Air
      BY <1>1, ZenonT(30) DEF Air
    <3>2. b.signals = air.signals /\ b.net = air.net /\ b.sup = "associating"
      BY <1>1, Zenon DEF Air
    <3>3. air' = Signalled(b, "associating")
      BY <2>a, Zenon
    <3> HIDE DEF b
    <3>4. \A r : OnlyFor(air, r) => OnlyFor(b, r)
      BY <2>a, <3>2, Zenon DEF OnlyFor
    <3>5. Signalled(b, "associating") \in Air
          /\ \A r : OnlyFor(b, r) => OnlyFor(Signalled(b, "associating"), r)
      BY <3>1, SignalledAir, Zenon
    <3> QED
      BY <3>3, <3>4, <3>5, Zenon DEF AirStep
  <2>1. CASE SupAssociate
    BY <2>1, <2>a, Zenon DEF SupAssociate
  <2>2. CASE SupComplete
    <3> DEFINE l == Append(air.links, "up")
               b == [air EXCEPT !.sup = "completed", !.assoc = TRUE, !.links = l]
    <3>1. l \in Seq({"up", "down"})
      BY <1>1 DEF Air
    <3>2. air' = Signalled(b, "completed") /\ air.sup = "associating"
      BY <2>2, Zenon DEF SupComplete
    <3> HIDE DEF l
    <3>3. b \in Air
      BY <1>1, <3>1, ZenonT(30) DEF Air
    <3>4. b.signals = air.signals /\ b.net = air.net /\ b.sup = "completed"
      BY <1>1, Zenon DEF Air
    <3> HIDE DEF b
    <3>5. \A r : OnlyFor(air, r) => OnlyFor(b, r) /\ b.net = r
      BY <3>2, <3>4, Zenon DEF OnlyFor
    <3>6. Signalled(b, "completed") \in Air
          /\ \A r : OnlyFor(b, r) /\ b.net = r => OnlyFor(Signalled(b, "completed"), r)
      BY <3>3, SignalledAir, Zenon
    <3> QED
      BY <3>2, <3>5, <3>6, Zenon DEF AirStep
  <2>3. CASE Disturbance
    <3>1. air' \in {air, Left(air), Signalled(air, "request")} \/ AirStep(air, air')
      BY <2>3, <2>a, Zenon DEF Disturbance
    <3>2. AirStep(air, Left(air)) /\ AirStep(air, air)
      BY <1>1, LeftAir, OtherAir, Zenon
    <3>3. AirStep(air, Signalled(air, "request"))
      BY <1>1, SignalledAir, Zenon DEF AirStep
    <3> QED
      BY <3>1, <3>2, <3>3, Zenon
  <2>4. CASE FirstPacket
    <3>1. air' = [air EXCEPT !.used = TRUE]
      BY <2>4, Zenon DEF FirstPacket
    <3>2. air' \in Air
      BY <1>1, <3>1, ZenonT(30) DEF Air
    <3>3. air'.signals = air.signals /\ air'.net = air.net /\ air'.sup = air.sup
      BY <1>1, <3>1, Zenon DEF Air
    <3>4. \A r : OnlyFor(air, r) => OnlyFor(air', r)
      BY <3>3, Zenon DEF OnlyFor
    <3> QED
      BY <3>2, <3>4, Zenon DEF AirStep
  <2> QED
    BY <2>1, <2>2, <2>3, <2>4, Zenon DEF Network
<1> QED
  BY <1>2, <1>3, ConfirmsKept, Zenon

\* A handled request.
LEMMA ConfirmsHandle ==
    ASSUME ConfirmsSound, NEW r \in todo, Handle(r)
    PROVE  ConfirmsSound' /\ L3Step
<1>1. AirStep(air, air) /\ l3 \subseteq Settings
  BY OtherAir, Zenon DEF ConfirmsSound, Shapes
<1>2. ASSUME NEW st \in {"success", "failure"}, Confirm({r}, st, "request", NoNet),
             todo' = todo \ {r}, buffered' = buffered, handlers' = handlers, mixed' = mixed,
             l3' = l3, air' = air, Ask[r].kind # "l3_conf"
      PROVE  ConfirmsSound' /\ L3Step
  BY <1>1, <1>2, ConfirmedAtOnce, Zenon
<1>3. CASE CapabilityDiscover(r)
  BY <1>2, <1>3, Zenon DEF CapabilityDiscover, Take, connect, world
<1>4. CASE EventSubscribe(r)
  BY <1>2, <1>4, Zenon DEF EventSubscribe, Take, connect, world
<1>5. CASE GetParameters(r)
  <2>1. ASSUME confirms' = confirms PROVE ConfirmsSound' /\ L3Step
    BY <1>5, <2>1, TakenUnconfirmed, Zenon DEF GetParameters, Take, connect
  <2>2. Ask[r].kind # "l3_conf"
    BY <1>5 DEF GetParameters
  <2> QED
    BY <1>2, <1>5, <2>1, <2>2, ZenonT(40) DEF GetParameters, Take, connect
<1>6. CASE ConfigureThresholds(r)
  BY <1>2, <1>6, Zenon DEF ConfigureThresholds, Take, connect, world
<1> QED
  BY <1>3, <1>4, <1>5, <1>6, ConfirmsLinkActions, ConfirmsLinkConf, ConfirmsL3Conf DEF Handle

\* At the start nothing is confirmed and nobody waits.
LEMMA ConfirmsInit == Init => ConfirmsSound
<1> SUFFICES ASSUME Init PROVE ConfirmsSound
  BY Zenon
<1>1. PICK b \in Scenarios, up \in BOOLEAN :
        /\ todo = b.asks
        /\ confirms = [r \in b.asks |-> <<>>]
        /\ air = [scans |-> b.scans, power |-> TRUE, assoc |-> up, used |-> b.used,
                  net |-> IF up THEN OldNet ELSE NoNet,
                  sup |-> IF up THEN "completed" ELSE "disconnected",
                  links |-> <<>>, signals |-> <<>>]
  BY Zenon DEF Init
<1>2. b.asks \subseteq Request /\ b.scans \in BOOLEAN /\ b.used \in BOOLEAN
  BY LinkSapAssumption, Zenon
<1>3. buffered = <<>> /\ handlers = <<>> /\ l3 \subseteq Settings
  BY Zenon DEF Init, Settings
<1>4. air \in Air
  BY <1>1, <1>2 DEF Air
<1>5. Waiting = {}
  BY <1>3, NobodyWaits, Zenon DEF Waiting
<1>6. Shapes
  BY <1>1, <1>2, <1>3, <1>4 DEF Shapes
<1>7. \A r \in DOMAIN confirms : confirms[r] = <<>>
  BY <1>1, Zenon
<1>8. Len(<<>>) = 0
  BY Zenon
<1> QED
  BY <1>3, <1>5, <1>6, <1>7, <1>8, NobodyWaits DEF ConfirmsSound, Once, Own

\* Every step keeps the invariant, and sets what a layer 3 configuration asked for.
LEMMA ConfirmsNext == ConfirmsSound /\ [Next]_vars => ConfirmsSound' /\ L3Step
<1> SUFFICES ASSUME ConfirmsSound, [Next]_vars PROVE ConfirmsSound' /\ L3Step
  BY Zenon
<1>1. air \in Air /\ AirStep(air, air)
  BY OtherAir, Zenon DEF ConfirmsSound, Shapes
<1>2. CASE \E r \in todo : Handle(r)
  BY <1>2, ConfirmsHandle, Zenon
<1>3. CASE ThresholdsCheck
  BY <1>1, <1>3, ConfirmsKept, Zenon DEF ThresholdsCheck, connect
<1>4. CASE ScheduledScan \/ FreedReport
  BY <1>1, <1>4, ConfirmsKept, Zenon DEF ScheduledScan, FreedReport, connect, world, history
<1>5. CASE \E i \in DOMAIN reports : PeriodicReport(i) \/ ReportExpires(i)
  BY <1>1, <1>5, ConfirmsKept, Zenon DEF PeriodicReport, ReportExpires, connect, world, history
<1>6. CASE LinkEvent
  <2>1. air.links # <<>> /\ air' = [air EXCEPT !.links = Tail(air.links)]
    BY <1>6, Zenon DEF LinkEvent
  <2>2. Tail(air.links) \in Seq({"up", "down"})
    BY <1>1, <2>1 DEF Air
  <2>3. AirStep(air, air')
    BY <1>1, <2>1, <2>2, OtherAir, Zenon
  <2> QED
    BY <1>6, <2>3, ConfirmsKept, Zenon DEF LinkEvent, connect
<1>7. CASE WpaSignal
  BY <1>7, ConfirmsSignal, Zenon
<1>8. CASE CheckExpires \/ ScanExpires
  BY <1>1, <1>8, ConfirmsKept, Zenon DEF CheckExpires, ScanExpires, connect, world, history
<1>9. CASE Network
  BY <1>9, ConfirmsNetwork, Zenon
<1>10. CASE UNCHANGED vars
  BY <1>1, <1>10, ConfirmsKept, Zenon DEF vars, connect, world, history
<1> QED
  BY <1>2, <1>3, <1>4, <1>5, <1>6, <1>7, <1>8, <1>9, <1>10 DEF Next

\* The invariant in every state.
LEMMA ConfirmsInvariant == Spec => []ConfirmsSound
<1>1. ConfirmsSound /\ [Next]_vars => ConfirmsSound'
  BY ConfirmsNext, Zenon
<1> QED
  BY <1>1, ConfirmsInit, PTL DEF Spec

\* For every set of requests, whatever wpa_supplicant does: a link_conf is confirmed at
\* most once, or twice if the first confirm said that SelectNetwork failed.
THEOREM ConfirmsOnce == Spec => []ConfirmedOnce
<1>1. ConfirmsSound => ConfirmedOnce
  BY Zenon DEF ConfirmsSound, Once, ConfirmedOnce
<1> QED
  BY <1>1, ConfirmsInvariant, PTL

\* The success of a link_conf that did not wait with another one, or with old signals,
\* is the success of its own network.
THEOREM OwnSuccess == Spec => []SuccessIsOwn
<1>1. ConfirmsSound => SuccessIsOwn
  BY Zenon DEF ConfirmsSound, Own, SuccessIsOwn
<1> QED
  BY <1>1, ConfirmsInvariant, PTL

\* After every confirmed layer 3 configuration the interface has what was asked for and
\* nothing else.
THEOREM L3Confirmed == Spec => L3AsConfirmed
<1>1. ConfirmsSound /\ [Next]_vars => [L3Step]_vars
  BY ConfirmsNext, Zenon
<1> QED
  BY <1>1, ConfirmsInvariant, PTL DEF Spec, L3AsConfirmed, L3Step
-----------------------------------------------------------------------------
(***************************************************************************)
(* Thresholds and periodic reports.                                        *)
(***************************************************************************)

\* Taking elements out of a list leaves those that are asked for.
LEMMA OnlyThose ==
    ASSUME NEW T, NEW s \in Seq(T), NEW S
    PROVE  Only(s, S) \in Seq(T \cap S) /\ Range(Only(s, S)) \subseteq Range(s) \cap S
<1> DEFINE n == Len(s)
           X == Seq(Range(s) \cap S)
           Step(x, i) == IF s[i] \in S THEN Append(x, s[i]) ELSE x
           Runs(f) == f = [i \in 0 .. n |-> IF i = 0 THEN <<>> ELSE Step(f[i - 1], i)]
           F == [y \in X \X (1 .. n) |-> Step(y[1], y[2])]
           kept == CHOOSE f : Runs(f)
<1>1. n \in Nat /\ <<>> \in X
  OBVIOUS
<1>2. ASSUME NEW x \in X, NEW i \in 1 .. n PROVE Step(x, i) \in X
  <2>1. s[i] \in Range(s)
    BY DEF Range
  <2> QED
    BY <2>1
<1>3. Only(s, S) = kept[n]
  BY Zenon DEF Only
<1> HIDE DEF n, X, Step
<1>4. F \in [X \X (1 .. n) -> X] /\ \A x \in X, i \in 1 .. n : F[<<x, i>>] = Step(x, i)
  BY <1>2
<1> HIDE DEF F
<1>5. PICK f : IsFold(f, n, X, <<>>, F)
  BY <1>1, <1>4, Folding, Zenon
<1>6. \A i \in 0 .. n : i = 0 \/ (i \in 1 .. n /\ i - 1 \in 0 .. n)
  BY <1>1
<1>7. Runs(f)
  <2>1. \A i \in 0 .. n : f[i] = IF i = 0 THEN <<>> ELSE Step(f[i - 1], i)
    BY <1>4, <1>5, <1>6, Zenon DEF IsFold
  <2> QED
    BY <1>5, <2>1 DEF IsFold
<1>8. Runs(kept)
  BY <1>7, Zenon
<1> HIDE DEF kept
<1>9. \A k \in 0 .. n : k \in {i \in 0 .. n : kept[i] \in X}
  <2> DEFINE K == {i \in 0 .. n : kept[i] \in X}
  <2>1. 0 \in K
    BY <1>1, <1>8
  <2>2. ASSUME NEW k \in 0 .. n - 1, k \in K PROVE k + 1 \in K
    <3>1. k + 1 \in 0 .. n /\ k + 1 # 0 /\ (k + 1) - 1 = k /\ k + 1 \in 1 .. n
      BY <1>1
    <3>2. kept[k + 1] = Step(kept[k], k + 1)
      BY <1>8, <3>1, Zenon
    <3> QED
      BY <1>2, <2>2, <3>1, <3>2, Zenon
  <2> HIDE DEF K
  <2>3. \A k \in 0 .. n : k \in K
    BY <1>1, <2>1, <2>2, NumbersUpTo, Zenon
  <2> QED
    BY <2>3, Zenon DEF K
<1>10. Only(s, S) \in Seq(Range(s) \cap S)
  BY <1>1, <1>3, <1>9 DEF X
<1>11. Range(s) \subseteq T
  BY DEF Range
<1> QED
  BY <1>10, <1>11 DEF Range

\* Completions outlive only reports whose timer has expired.
LEMMA OutlivingSum ==
    ASSUME NEW T, NEW s \in Seq(T), \A x \in T : x.task.queued \in Nat
    PROVE  /\ AllOutliving(s) \in Nat
           /\ AllOutliving(s) > 0 => \E x \in Range(s) : x.task.queued > 0
<1> DEFINE n == Len(s)
           none == \A x \in Range(s) : ~(x.task.queued > 0)
           X == IF none THEN {0} ELSE Nat
           Step(x, i) == x + Outliving(s[i].task)
           Runs(f) == f = [i \in 0 .. n |-> IF i = 0 THEN 0 ELSE Step(f[i - 1], i)]
           F == [y \in X \X (1 .. n) |-> Step(y[1], y[2])]
           sum == CHOOSE f : Runs(f)
<1>1. n \in Nat /\ 0 \in X
  OBVIOUS
<1>2. ASSUME NEW x \in X, NEW i \in 1 .. n PROVE Step(x, i) \in X
  <2>1. s[i] \in Range(s) /\ s[i] \in T
    BY DEF Range
  <2>2. s[i].task.queued \in Nat /\ (none => s[i].task.queued = 0)
    BY <2>1
  <2> QED
    BY <2>2 DEF Outliving
<1>3. AllOutliving(s) = sum[n]
  BY Zenon DEF AllOutliving
<1>4. X \subseteq Nat /\ (none => X = {0})
  OBVIOUS
<1> HIDE DEF n, X, Step, none
<1>5. F \in [X \X (1 .. n) -> X] /\ \A x \in X, i \in 1 .. n : F[<<x, i>>] = Step(x, i)
  BY <1>2
<1> HIDE DEF F
<1>6. PICK f : IsFold(f, n, X, 0, F)
  BY <1>1, <1>5, Folding, Zenon
<1>7. \A i \in 0 .. n : i = 0 \/ (i \in 1 .. n /\ i - 1 \in 0 .. n)
  BY <1>1
<1>8. Runs(f)
  <2>1. \A i \in 0 .. n : f[i] = IF i = 0 THEN 0 ELSE Step(f[i - 1], i)
    BY <1>5, <1>6, <1>7, Zenon DEF IsFold
  <2> QED
    BY <1>6, <2>1 DEF IsFold
<1>9. Runs(sum)
  BY <1>8, Zenon
<1> HIDE DEF sum
<1>10. sum[n] \in X
  <2> DEFINE K == {i \in 0 .. n : sum[i] \in X}
  <2>1. 0 \in K
    BY <1>1, <1>9
  <2>2. ASSUME NEW k \in 0 .. n - 1, k \in K PROVE k + 1 \in K
    <3>1. k + 1 \in 0 .. n /\ k + 1 # 0 /\ (k + 1) - 1 = k /\ k + 1 \in 1 .. n
      BY <1>1
    <3>2. sum[k + 1] = Step(sum[k], k + 1)
      BY <1>9, <3>1, Zenon
    <3> QED
      BY <1>2, <2>2, <3>1, <3>2, Zenon
  <2> HIDE DEF K
  <2>3. \A k \in 0 .. n : k \in K
    BY <1>1, <2>1, <2>2, NumbersUpTo, Zenon
  <2>4. n \in 0 .. n
    BY <1>1
  <2> QED
    BY <2>3, <2>4, Zenon DEF K
<1>11. AllOutliving(s) \in Nat /\ (none => AllOutliving(s) = 0)
  BY <1>3, <1>4, <1>10, Zenon
<1> QED
  BY <1>11 DEF none

\* What the lists hold: of the parameters measured, those that the requests name.
Task == [running : BOOLEAN, waiting : BOOLEAN, queued : Nat]

ThresholdSet ==
    {t \in [by : Request, type : Measured, val : Int, dir : {"above", "below"}, once : BOOLEAN] :
        t.type \in Reads(t.by)}

ReportSet ==
    {y \in [by : Request, type : Measured, task : Task] : y.type \in Reads(y.by)}

\* The requests that the SAP has taken.
Taken == DOMAIN confirms \ todo

\* While the request r is handled, the thresholds in list are old or from r.
GoodTh(list, r) ==
    list \in Seq(ThresholdSet) /\ \A t \in Range(list) : t \in Range(th) \/ t.by = r

\* The reports in list are old or just started by r; and completions were added to
\* the f that outlive their tasks only by cancelling a report whose timer had expired.
GoodReports(list, f, r) ==
    /\ list \in Seq(ReportSet) /\ f \in Nat
    /\ \A y \in Range(list) : y \in Range(reports) \/ (y.by = r /\ y.task = Start(NewTask))
    /\ f > freed => \E y \in Range(reports) \ Range(list) : y.task.queued > 0

Lists(r) ==
    {x \in [th : Seq(ThresholdSet), reports : Seq(ReportSet), freed : Nat] :
        GoodTh(x.th, r) /\ GoodReports(x.reports, x.freed, r)}

LEMMA ListsMade ==
    ASSUME NEW r, NEW a, NEW b, NEW f, GoodTh(a, r), GoodReports(b, f, r)
    PROVE  [th |-> a, reports |-> b, freed |-> f] \in Lists(r)
<1> DEFINE x == [th |-> a, reports |-> b, freed |-> f]
<1>1. a \in Seq(ThresholdSet) /\ b \in Seq(ReportSet) /\ f \in Nat
  BY Zenon DEF GoodTh, GoodReports
<1>2. /\ x \in [th : Seq(ThresholdSet), reports : Seq(ReportSet), freed : Nat]
      /\ x.th = a /\ x.reports = b /\ x.freed = f
  BY <1>1, Zenon
<1> HIDE DEF x
<1>3. x \in Lists(r)
  BY <1>2, Zenon DEF Lists
<1> QED
  BY <1>3, Zenon DEF x

\* An element of a list that was filtered was there.
LEMMA OnlyGoodTh ==
    ASSUME NEW r, NEW list, NEW S, GoodTh(list, r) PROVE GoodTh(Only(list, S), r)
<1>1. list \in Seq(ThresholdSet)
  BY Zenon DEF GoodTh
<1>2. Only(list, S) \in Seq(ThresholdSet \cap S) /\ Range(Only(list, S)) \subseteq Range(list) \cap S
  BY <1>1, OnlyThose, Zenon
<1>3. Only(list, S) \in Seq(ThresholdSet)
  BY <1>2
<1> QED
  BY <1>2, <1>3, Zenon DEF GoodTh

\* Cancelling the reports of a type.
LEMMA CancelGood ==
    ASSUME NEW r, NEW list, NEW f, GoodReports(list, f, r), NEW type, freed \in Nat
    PROVE  GoodReports(NotOfType(list, type), f + AllOutliving(OfType(list, type)), r)
<1> DEFINE rest == NotOfType(list, type)
           gone == OfType(list, type)
           k == AllOutliving(gone)
<1>1. /\ list \in Seq(ReportSet) /\ f \in Nat
      /\ \A y \in Range(list) : y \in Range(reports) \/ (y.by = r /\ y.task = Start(NewTask))
      /\ f > freed => \E y \in Range(reports) \ Range(list) : y.task.queued > 0
  BY Zenon DEF GoodReports
<1>2. rest \in Seq(ReportSet) /\ Range(rest) \subseteq {x \in Range(list) : x.type # type}
  <2> DEFINE S == {x \in Range(list) : x.type # type}
  <2>1. rest \in Seq(ReportSet \cap S) /\ Range(rest) \subseteq Range(list) \cap S
    BY <1>1, OnlyThose, Zenon DEF NotOfType
  <2>2. rest \in Seq(ReportSet)
    BY <2>1
  <2> QED
    BY <2>1, <2>2, Zenon
<1>3. gone \in Seq(ReportSet) /\ Range(gone) \subseteq {x \in Range(list) : x.type = type}
  <2> DEFINE S == {x \in Range(list) : x.type = type}
  <2>1. gone \in Seq(ReportSet \cap S) /\ Range(gone) \subseteq Range(list) \cap S
    BY <1>1, OnlyThose, Zenon DEF OfType
  <2>2. gone \in Seq(ReportSet)
    BY <2>1
  <2> QED
    BY <2>1, <2>2, Zenon
<1> HIDE DEF rest, gone
<1>4. \A x \in ReportSet : x.task.queued \in Nat
  BY DEF ReportSet, Task
<1>5. k \in Nat /\ (k > 0 => \E x \in Range(gone) : x.task.queued > 0)
  BY <1>3, <1>4, OutlivingSum, Zenon
<1> HIDE DEF k
<1>6. ~(Start(NewTask).queued > 0)
  BY DEF Start, NewTask
<1>7. k > 0 => \E x \in Range(reports) \ Range(rest) : x.task.queued > 0
  BY <1>1, <1>2, <1>3, <1>5, <1>6, Zenon
<1>8. f > freed => \E x \in Range(reports) \ Range(rest) : x.task.queued > 0
  BY <1>1, <1>2, Zenon
<1>9. f + k \in Nat /\ (f + k > freed => k > 0 \/ f > freed)
  BY <1>1, <1>5
<1>10. GoodReports(rest, f + k, r)
  BY <1>1, <1>2, <1>7, <1>8, <1>9, Zenon DEF GoodReports
<1> QED
  BY <1>10, Zenon DEF rest, gone, k

\* Starting a report.
LEMMA StartGood ==
    ASSUME NEW r, NEW list, NEW f, GoodReports(list, f, r),
           NEW x \in ReportSet, x.by = r, x.task = Start(NewTask)
    PROVE  GoodReports(Append(list, x), f, r)
<1>1. list \in Seq(ReportSet)
  BY Zenon DEF GoodReports
<1>2. Append(list, x) \in Seq(ReportSet) /\ Range(Append(list, x)) = Range(list) \cup {x}
  BY <1>1, Appended
<1>3. ~(x.task.queued > 0)
  BY DEF Start, NewTask
<1> QED
  BY <1>2, <1>3, Zenon DEF GoodReports

\* What a request names.
LEMMA NamedTypes ==
    ASSUME NEW r, Ask[r].kind = "thresholds", NEW p \in Range(Ask[r].params)
    PROVE  p.type \in Reads(r)
<1>1. "thresholds" # "get"
  OBVIOUS
<1>2. Reads(r) = {q.type : q \in Range(Ask[r].params)}
  BY <1>1 DEF Reads
<1> QED
  BY <1>2, Zenon

\* Setting thresholds.
LEMMA InsertGood ==
    ASSUME NEW r \in Request, Ask[r].kind = "thresholds", NEW p \in Range(Ask[r].params),
           p.type \in Measured, NEW list, GoodTh(list, r)
    PROVE  GoodTh(list \o Inserted(r, p), r)
<1> DEFINE new == Inserted(r, p)
<1>1. p.holds \in Seq(Range(p.holds))
  BY ParamsAssumption, Zenon
<1>2. \A h \in Range(p.holds) : h.val \in Int /\ h.dir \in {"above", "below"}
  BY ParamsAssumption, Zenon
<1>3. ASSUME NEW i \in DOMAIN p.holds
      PROVE  new[i] \in ThresholdSet /\ new[i].by = r
  <2>1. p.holds[i] \in Range(p.holds)
    BY DEF Range
  <2>2. p.holds[i].val \in Int /\ p.holds[i].dir \in {"above", "below"} /\ p.type \in Reads(r)
    BY <1>2, <2>1, NamedTypes, Zenon
  <2>3. new[i] = [by |-> r, type |-> p.type, val |-> p.holds[i].val, dir |-> p.holds[i].dir,
                  once |-> (p.mode = "one_shot")]
    BY Zenon DEF Inserted
  <2>4. new[i].by = r /\ new[i].type = p.type
    BY <2>3
  <2>6. new[i] \in [by : Request, type : Measured, val : Int, dir : {"above", "below"}, once : BOOLEAN]
    BY <2>2, <2>3
  <2> QED
    BY <2>2, <2>4, <2>6, Zenon DEF ThresholdSet
<1>4. DOMAIN p.holds = 1 .. Len(p.holds) /\ Len(p.holds) \in Nat /\ DOMAIN new = DOMAIN p.holds
  BY <1>1 DEF Inserted
<1>5. new \in [DOMAIN p.holds -> ThresholdSet]
  BY <1>3, Zenon DEF Inserted
<1> HIDE DEF new
<1>6. new \in Seq(ThresholdSet)
  BY <1>4, <1>5
<1>7. list \in Seq(ThresholdSet)
  BY Zenon DEF GoodTh
<1>8. list \o new \in Seq(ThresholdSet) /\ Range(list \o new) \subseteq Range(list) \cup Range(new)
  BY <1>6, <1>7 DEF Range
<1>9. \A t \in Range(new) : t.by = r
  BY <1>3, <1>4, Zenon DEF Range
<1>10. GoodTh(list \o new, r)
  BY <1>8, <1>9, Zenon DEF GoodTh
<1> QED
  BY <1>10, Zenon DEF new

\* One parameter of a request.
LEMMA ConfiguredGood ==
    ASSUME NEW r \in Request, Ask[r].kind = "thresholds", NEW p \in Range(Ask[r].params),
           NEW x \in Lists(r), freed \in Nat
    PROVE  Configured(x, r, p) \in Lists(r)
<1>1. GoodTh(x.th, r) /\ GoodReports(x.reports, x.freed, r)
  BY Zenon DEF Lists
<1>2. x \in [th : Seq(ThresholdSet), reports : Seq(ReportSet), freed : Nat]
  BY Zenon DEF Lists
<1> DEFINE new == [by |-> r, type |-> p.type, task |-> Start(NewTask)]
           a == x.th \o Inserted(r, p)
<1>4. \/ Configured(x, r, p) = x
      \/ Configured(x, r, p) =
             [th |-> NotOfType(x.th, p.type), reports |-> NotOfType(x.reports, p.type),
              freed |-> x.freed + AllOutliving(OfType(x.reports, p.type))]
      \/ Configured(x, r, p) = [x EXCEPT !.th = Cancelled(x.th, p)]
      \/ p.type \in Measured /\ Configured(x, r, p) = [x EXCEPT !.reports = Append(x.reports, new)]
      \/ p.type \in Measured /\ Configured(x, r, p) = [x EXCEPT !.th = a]
  BY Zenon DEF Configured
<1>5. GoodTh(NotOfType(x.th, p.type), r) /\ GoodTh(Cancelled(x.th, p), r)
  BY <1>1, OnlyGoodTh, Zenon DEF NotOfType, Cancelled
<1>6. GoodReports(NotOfType(x.reports, p.type), x.freed + AllOutliving(OfType(x.reports, p.type)), r)
  BY <1>1, CancelGood, Zenon
<1>7. p.type \in Measured => GoodTh(a, r)
  BY <1>1, InsertGood, Zenon
<1>8. ASSUME p.type \in Measured PROVE GoodReports(Append(x.reports, new), x.freed, r)
  <2>1. Start(NewTask) \in Task
    BY Zenon DEF Start, NewTask, Task
  <2>2. p.type \in Reads(r)
    BY NamedTypes, Zenon
  <2>3. new \in ReportSet /\ new.by = r /\ new.task = Start(NewTask)
    BY <1>8, <2>1, <2>2, Zenon DEF ReportSet
  <2> HIDE DEF new
  <2> QED
    BY <1>1, <2>3, StartGood, Zenon
<1> HIDE DEF new, a
<1>9. /\ [x EXCEPT !.th = Cancelled(x.th, p)] \in Lists(r)
      /\ p.type \in Measured => /\ [x EXCEPT !.th = a] \in Lists(r)
                                /\ [x EXCEPT !.reports = Append(x.reports, new)] \in Lists(r)
  <2>1. ASSUME NEW v, GoodTh(v, r) PROVE [x EXCEPT !.th = v] \in Lists(r)
    <3>1. [th |-> v, reports |-> x.reports, freed |-> x.freed] \in Lists(r)
      BY <1>1, <2>1, ListsMade, Zenon
    <3>2. [x EXCEPT !.th = v] = [th |-> v, reports |-> x.reports, freed |-> x.freed]
      BY <1>2
    <3> QED
      BY <3>1, <3>2, Zenon
  <2>2. ASSUME NEW v, GoodReports(v, x.freed, r) PROVE [x EXCEPT !.reports = v] \in Lists(r)
    <3>1. [th |-> x.th, reports |-> v, freed |-> x.freed] \in Lists(r)
      BY <1>1, <2>2, ListsMade, Zenon
    <3>2. [x EXCEPT !.reports = v] = [th |-> x.th, reports |-> v, freed |-> x.freed]
      BY <1>2
    <3> QED
      BY <3>1, <3>2, Zenon
  <2> QED
    BY <1>5, <1>7, <1>8, <2>1, <2>2, Zenon
<1>10. [th |-> NotOfType(x.th, p.type), reports |-> NotOfType(x.reports, p.type),
        freed |-> x.freed + AllOutliving(OfType(x.reports, p.type))] \in Lists(r)
  BY <1>5, <1>6, ListsMade, Zenon
<1> QED
  BY <1>4, <1>9, <1>10, Zenon

\* All the parameters of a request.
LEMMA AllConfiguredGood ==
    ASSUME NEW r \in Request, Ask[r].kind = "thresholds", NEW x \in Lists(r), freed \in Nat
    PROVE  AllConfigured(x, r, Ask[r].params) \in Lists(r)
<1> DEFINE ps == Ask[r].params
           n == Len(ps)
           X == Lists(r)
           Step(y, i) == Configured(y, r, ps[i])
           Runs(f) == f = [i \in 0 .. n |-> IF i = 0 THEN x ELSE Step(f[i - 1], i)]
           F == [y \in X \X (1 .. n) |-> Step(y[1], y[2])]
           done == CHOOSE f : Runs(f)
<1>1. ps \in Seq(Range(ps)) /\ x \in X
  BY ParamsAssumption, Zenon
<1>2. n \in Nat /\ \A i \in 1 .. n : ps[i] \in Range(ps)
  BY <1>1
<1>3. ASSUME NEW y \in X, NEW i \in 1 .. n PROVE Step(y, i) \in X
  BY <1>2, ConfiguredGood, Zenon
<1>4. AllConfigured(x, r, ps) = done[n]
  BY Zenon DEF AllConfigured
<1> HIDE DEF n, X, Step, ps
<1>5. F \in [X \X (1 .. n) -> X] /\ \A y \in X, i \in 1 .. n : F[<<y, i>>] = Step(y, i)
  BY <1>3
<1> HIDE DEF F
<1>6. PICK f : IsFold(f, n, X, x, F)
  BY <1>1, <1>2, <1>5, Folding, Zenon
<1>7. \A i \in 0 .. n : i = 0 \/ (i \in 1 .. n /\ i - 1 \in 0 .. n)
  BY <1>2
<1>8. Runs(f)
  <2>1. \A i \in 0 .. n : f[i] = IF i = 0 THEN x ELSE Step(f[i - 1], i)
    BY <1>5, <1>6, <1>7, Zenon DEF IsFold
  <2> QED
    BY <1>6, <2>1, Zenon DEF IsFold
<1>9. Runs(done)
  BY <1>8, Zenon
<1> HIDE DEF done
<1>10. done[n] \in X
  <2> DEFINE K == {i \in 0 .. n : done[i] \in X}
  <2>1. 0 \in K
    BY <1>1, <1>2, <1>9
  <2>2. ASSUME NEW k \in 0 .. n - 1, k \in K PROVE k + 1 \in K
    <3>1. k + 1 \in 0 .. n /\ k + 1 # 0 /\ (k + 1) - 1 = k /\ k + 1 \in 1 .. n
      BY <1>2
    <3>2. done[k + 1] = Step(done[k], k + 1)
      BY <1>9, <3>1, Zenon
    <3> QED
      BY <1>3, <2>2, <3>1, <3>2, Zenon
  <2> HIDE DEF K
  <2>3. \A k \in 0 .. n : k \in K
    BY <1>2, <2>1, <2>2, NumbersUpTo, Zenon
  <2>4. n \in 0 .. n
    BY <1>2
  <2> QED
    BY <2>3, <2>4, Zenon DEF K
<1> QED
  BY <1>4, <1>10, Zenon DEF X, ps

\* The inductive invariant: the lists have their types, the link that is up is
\* watched, completions of destroyed tasks come from a late cancelling, what the
\* lists hold was asked for by requests that were taken, and a one-shot threshold
\* that was reported is therefore gone for good.
ListsSound ==
    /\ th \in Seq(ThresholdSet) /\ reports \in Seq(ReportSet) /\ freed \in Nat
    /\ todo \subseteq DOMAIN confirms /\ DOMAIN confirms \subseteq Request
    /\ level \in [Measured -> Int]
    /\ Watched
    /\ freed > 0 => late
    /\ \A t \in Range(th) \cup alerted \cup Range(reports) : t.by \in Taken
    /\ \A t \in alerted : t.once => t \notin Range(th)
    /\ \A t \in again : ~t.once

\* A report that runs.
RunsOn(y) == y.task.running /\ Scheduled(y.task)

LEMMA WatchedMeans ==
    Watched <=> (seenUp => (th # <<>> => check.running) /\ \A y \in Range(reports) : RunsOn(y))
  BY Zenon DEF Watched, RunsOn, Range

LEMMA ListsInit == Init => ListsSound
<1> SUFFICES ASSUME Init PROVE ListsSound
  OBVIOUS
<1>1. /\ th = <<>> /\ reports = <<>> /\ freed = 0 /\ alerted = {} /\ again = {}
      /\ \E b \in Scenarios : todo = b.asks /\ confirms = [r \in b.asks |-> <<>>] /\ level = b.level
  BY Zenon DEF Init
<1>2. /\ todo \subseteq DOMAIN confirms /\ DOMAIN confirms \subseteq Request
      /\ level \in [Measured -> Int]
  BY <1>1, LinkSapAssumption, Zenon
<1>3. Range(<<>>) = {} /\ <<>> \in Seq(ThresholdSet) /\ <<>> \in Seq(ReportSet) /\ ~(0 > 0) /\ 0 \in Nat
  BY NobodyWaits
<1>4. Watched
  BY <1>1, <1>3, WatchedMeans, Zenon
<1> QED
  BY <1>1, <1>2, <1>3, <1>4, Zenon DEF ListsSound

LEMMA ListsKept ==
    ASSUME ListsSound, UNCHANGED <<th, reports, freed, check, seenUp, late, alerted, again>>,
           todo' \subseteq todo, DOMAIN confirms' = DOMAIN confirms, level' \in [Measured -> Int]
    PROVE  ListsSound'
<1>1. Watched'
  BY Zenon DEF ListsSound, Watched, Scheduled
<1>2. Taken \subseteq Taken'
  BY Zenon DEF Taken
<1> QED
  BY <1>1, <1>2, Zenon DEF ListsSound

\* handle_link_configure_thresholds
LEMMA ListsConfigure ==
    ASSUME ListsSound, TasksSound, NEW r \in todo, ConfigureThresholds(r) PROVE ListsSound'
<1> DEFINE x == [th |-> th, reports |-> reports, freed |-> freed]
           s == AllConfigured(x, r, Ask[r].params)
<1>1. /\ r \in Request /\ Ask[r].kind = "thresholds" /\ freed \in Nat
      /\ th \in Seq(ThresholdSet) /\ reports \in Seq(ReportSet) /\ IsTask(check)
  BY Zenon DEF ListsSound, TasksSound, ConfigureThresholds
<1>2. x \in Lists(r)
  <2>1. ~(freed > freed)
    BY <1>1
  <2>2. GoodTh(th, r) /\ GoodReports(reports, freed, r)
    BY <1>1, <2>1, Zenon DEF GoodTh, GoodReports
  <2> QED
    BY <2>2, ListsMade, Zenon
<1>3. /\ th' = s.th /\ reports' = s.reports /\ freed' = s.freed /\ check' = CheckFor(s.th)
      /\ late' = (late \/ \E y \in Range(reports) \ Range(s.reports) : y.task.queued > 0)
      /\ todo' = todo \ {r} /\ DOMAIN confirms' = DOMAIN confirms
      /\ UNCHANGED <<level, seenUp, alerted, again>>
  BY Zenon DEF ConfigureThresholds, Confirm, Take, world
<1> HIDE DEF x
<1>4. s \in Lists(r)
  BY <1>1, <1>2, AllConfiguredGood, Zenon
<1> HIDE DEF s
<1>5. GoodTh(th', r) /\ GoodReports(reports', freed', r)
  BY <1>3, <1>4, Zenon DEF Lists
<1>6. freed' > 0 => late'
  <2>1. freed' > 0 => freed' > freed \/ freed > 0
    BY <1>1, <1>5 DEF GoodReports
  <2>2. freed' > freed => \E y \in Range(reports) \ Range(s.reports) : y.task.queued > 0
    BY <1>3, <1>5, Zenon DEF GoodReports
  <2> QED
    BY <1>3, <2>1, <2>2, Zenon DEF ListsSound
<1>7. \A y \in Range(reports') : y \in Range(reports) \/ RunsOn(y)
  <2>1. Start(NewTask).running /\ Scheduled(Start(NewTask))
    <3>1. IsTask(NewTask)
      BY Zenon DEF IsTask, NewTask
    <3> QED
      BY <3>1, TaskSteps, Zenon
  <2> QED
    BY <1>5, <2>1, Zenon DEF GoodReports, RunsOn
<1>8. th' # <<>> => check'.running
  <2>1. Start(check).running
    BY <1>1, TaskSteps, Zenon
  <2> QED
    BY <1>3, <2>1, Zenon DEF CheckFor
<1>9. seenUp' => (th' # <<>> => check'.running) /\ \A y \in Range(reports') : RunsOn(y)
  BY <1>3, <1>7, <1>8, WatchedMeans, Zenon DEF ListsSound
<1>10. Watched'
  BY <1>9, Zenon DEF Watched, RunsOn, Range, Scheduled
<1>11. /\ \A t \in Range(th') : t \in Range(th) \/ t.by = r
       /\ \A y \in Range(reports') : y \in Range(reports) \/ y.by = r
  BY <1>5, Zenon DEF GoodTh, GoodReports
<1>12. \A t \in Range(th') \cup alerted' \cup Range(reports') : t.by \in Taken'
  <2>1. Taken \subseteq Taken' /\ r \in Taken'
    BY <1>3, Zenon DEF ListsSound, Taken
  <2>2. \A t \in Range(th) \cup alerted \cup Range(reports) : t.by \in Taken
    BY Zenon DEF ListsSound
  <2> QED
    BY <1>3, <1>11, <2>1, <2>2, Zenon
<1>13. \A t \in alerted' : t.once => t \notin Range(th')
  <2>1. r \notin Taken /\ \A t \in alerted : t.by \in Taken /\ (t.once => t \notin Range(th))
    BY Zenon DEF ListsSound, Taken
  <2> QED
    BY <1>3, <1>11, <2>1, Zenon
<1>14. th' \in Seq(ThresholdSet) /\ reports' \in Seq(ReportSet) /\ freed' \in Nat
  BY <1>5, Zenon DEF GoodTh, GoodReports
<1> QED
  BY <1>3, <1>6, <1>10, <1>12, <1>13, <1>14, Zenon DEF ListsSound

LEMMA NotEmpty ==
    ASSUME NEW T, NEW s \in Seq(T), s # <<>> PROVE Range(s) # {}
  BY DEF Range

\* The two parts of a list.
LEMMA Parts ==
    ASSUME NEW T, NEW s \in Seq(T), NEW k \in 0 .. Len(s)
    PROVE  /\ SubSeq(s, 1, k) \in Seq(T) /\ Range(SubSeq(s, 1, k)) \subseteq Range(s)
           /\ SubSeq(s, k + 1, Len(s)) \in Seq(T) /\ Range(SubSeq(s, k + 1, Len(s))) \subseteq Range(s)
           /\ k = Len(s) => Range(SubSeq(s, k + 1, Len(s))) = {}
<1>1. /\ SubSeq(s, 1, k) \in Seq(T) /\ Len(SubSeq(s, 1, k)) = k
      /\ \A i \in 1 .. k : SubSeq(s, 1, k)[i] = s[i]
  OBVIOUS
<1>2. /\ SubSeq(s, k + 1, Len(s)) \in Seq(T) /\ Len(SubSeq(s, k + 1, Len(s))) = Len(s) - k
      /\ \A i \in 1 .. Len(s) - k : SubSeq(s, k + 1, Len(s))[i] = s[k + i]
  OBVIOUS
<1>3. Range(SubSeq(s, 1, k)) \subseteq Range(s)
  BY <1>1 DEF Range
<1>4. Range(SubSeq(s, k + 1, Len(s))) \subseteq Range(s)
  BY <1>2 DEF Range
<1>5. k = Len(s) => Range(SubSeq(s, k + 1, Len(s))) = {}
  BY <1>2 DEF Range
<1> QED
  BY <1>1, <1>2, <1>3, <1>4, <1>5, Zenon

LEMMA Concatenated ==
    ASSUME NEW T, NEW a \in Seq(T), NEW b \in Seq(T)
    PROVE  a \o b \in Seq(T) /\ Range(a \o b) \subseteq Range(a) \cup Range(b)
  BY DEF Range

\* global_thresholds_check
LEMMA ListsCheck ==
    ASSUME ListsSound, TasksSound, ThresholdsCheck PROVE ListsSound'
<1>1. /\ check.queued > 0 /\ check' = Rearmed(check)
      /\ UNCHANGED <<reports, freed, todo, confirms, level, seenUp, late>>
  BY Zenon DEF ThresholdsCheck
<1>2. IsTask(check) /\ th \in Seq(ThresholdSet)
  BY Zenon DEF TasksSound, ListsSound
<1>3. check'.running = check.running
  BY <1>1, <1>2, TaskSteps, Zenon
<1>4. ASSUME th' \in Seq(ThresholdSet), Range(th') \subseteq Range(th), th' # <<>> => th # <<>>,
             alerted' \subseteq alerted \cup Range(th), \A t \in alerted' : t.once => t \notin Range(th'),
             again' \subseteq again \cup (Range(th) \cap alerted)
      PROVE  ListsSound'
  <2>1. seenUp' => (th' # <<>> => check'.running) /\ \A y \in Range(reports') : RunsOn(y)
    BY <1>1, <1>3, <1>4, WatchedMeans, Zenon DEF ListsSound
  <2>2. Watched'
    BY <2>1, Zenon DEF Watched, RunsOn, Range, Scheduled
  <2>3. \A t \in Range(th') \cup alerted' \cup Range(reports') : t.by \in Taken'
    BY <1>1, <1>4, Zenon DEF ListsSound, Taken
  <2>4. \A t \in again' : ~t.once
    BY <1>4, Zenon DEF ListsSound
  <2> QED
    BY <1>1, <1>4, <2>2, <2>3, <2>4, Zenon DEF ListsSound
<1>5. CASE UNCHANGED <<th, alerted, again>>
  <2>1. \A t \in alerted' : t.once => t \notin Range(th')
    BY <1>5, Zenon DEF ListsSound
  <2> QED
    BY <1>2, <1>4, <1>5, <2>1, Zenon
<1>6. ASSUME NEW k \in 0 .. Len(th),
             LET hit == {t \in Range(SubSeq(th, 1, k)) : Crossed(t)}
             IN  /\ th' = Remaining(SubSeq(th, 1, k)) \o SubSeq(th, k + 1, Len(th))
                 /\ IF k = Len(th)
                    THEN alerted' = alerted \cup hit /\ again' = again \cup (hit \cap alerted)
                    ELSE UNCHANGED <<alerted, again>>
      PROVE  ListsSound'
  <2> DEFINE a == SubSeq(th, 1, k)
             b == SubSeq(th, k + 1, Len(th))
             S == {t \in Range(a) : ~(t.once /\ Crossed(t))}
             hit == {t \in Range(a) : Crossed(t)}
             c == Only(a, S)
  <2>1. /\ th' = c \o b
        /\ IF k = Len(th)
           THEN alerted' = alerted \cup hit /\ again' = again \cup (hit \cap alerted)
           ELSE UNCHANGED <<alerted, again>>
    BY <1>6, Zenon DEF Remaining
  <2>2. /\ a \in Seq(ThresholdSet) /\ Range(a) \subseteq Range(th)
        /\ b \in Seq(ThresholdSet) /\ Range(b) \subseteq Range(th)
        /\ k = Len(th) => Range(b) = {}
    BY <1>2, Parts, Zenon
  <2> HIDE DEF a, b
  <2>3. c \in Seq(ThresholdSet) /\ Range(c) \subseteq Range(a) \cap S
    <3>1. c \in Seq(ThresholdSet \cap S) /\ Range(c) \subseteq Range(a) \cap S
      BY <2>2, OnlyThose, Zenon
    <3> HIDE DEF c, S
    <3> QED
      BY <3>1
  <2> HIDE DEF c
  <2>4. th' \in Seq(ThresholdSet) /\ Range(th') \subseteq Range(c) \cup Range(b)
    BY <2>1, <2>2, <2>3, Concatenated, Zenon
  <2>5. Range(th') \subseteq Range(th)
    BY <2>2, <2>3, <2>4, Zenon
  <2>6. th' # <<>> => th # <<>>
    <3>1. th' # <<>> => Range(th') # {}
      BY <2>4, NotEmpty, Zenon
    <3>2. Range(<<>>) = {}
      BY NobodyWaits
    <3> QED
      BY <2>5, <3>1, <3>2, Zenon
  <2>7. alerted' \subseteq alerted \cup Range(th) /\ again' \subseteq again \cup (Range(th) \cap alerted)
    BY <2>1, <2>2, Zenon
  <2>8. \A t \in alerted' : t.once => t \notin Range(th')
    <3>1. CASE k = Len(th)
      <4>1. Range(th') \subseteq S
        BY <2>2, <2>3, <2>4, <3>1, Zenon
      <4> QED
        BY <2>1, <2>5, <3>1, <4>1, Zenon DEF ListsSound
    <3>2. CASE k # Len(th)
      BY <2>1, <2>5, <3>2, Zenon DEF ListsSound
    <3> QED
      BY <3>1, <3>2
  <2> QED
    BY <1>4, <2>4, <2>5, <2>6, <2>7, <2>8, Zenon
<1> QED
  BY <1>5, <1>6, Zenon DEF ThresholdsCheck

LEMMA RunsOnTask ==
    ASSUME NEW y, NEW u, y.task = u PROVE RunsOn(y) <=> u.running /\ Scheduled(u)
<1>1. y.task.running <=> u.running
  OBVIOUS
<1>2. Scheduled(y.task) <=> Scheduled(u)
  BY DEF Scheduled
<1> QED
  BY <1>1, <1>2, Zenon DEF RunsOn

\* A task of a report after what can happen to it.
LEMMA ReportTask ==
    ASSUME NEW y \in ReportSet
    PROVE  /\ [y EXCEPT !.task = Start(@)] \in ReportSet /\ RunsOn([y EXCEPT !.task = Start(@)])
           /\ [y EXCEPT !.task = Stop(@)] \in ReportSet
           /\ [y EXCEPT !.task = Expired(@)] \in ReportSet
           /\ y.task.queued > 0 => [y EXCEPT !.task = Rearmed(@)] \in ReportSet
           /\ RunsOn(y) => RunsOn([y EXCEPT !.task = Expired(@)])
           /\ y.task.queued > 0 /\ RunsOn(y) => RunsOn([y EXCEPT !.task = Rearmed(@)])
<1> DEFINE t == y.task
<1>1. t \in Task
  BY Zenon DEF ReportSet
<1>2. IsTask(t)
  BY <1>1 DEF Task, IsTask
<1>3. Start(t) \in Task /\ Stop(t) \in Task
  BY <1>1, Zenon DEF Task, Start, Stop
<1>4. Expired(t) \in Task /\ (t.queued > 0 => Rearmed(t) \in Task)
  <2>1. t.queued \in Nat /\ t.queued + 1 \in Nat /\ (t.queued > 0 => t.queued - 1 \in Nat)
    BY <1>2 DEF IsTask
  <2> QED
    BY <1>1, <2>1, Zenon DEF Task, Expired, Rearmed
<1>5. \A u \in Task : [y EXCEPT !.task = u] \in ReportSet
  BY DEF ReportSet
<1>6. \A u \in Task : [y EXCEPT !.task = u].task = u
  BY DEF ReportSet
<1>7. RunsOn(y) <=> t.running /\ Scheduled(t)
  BY RunsOnTask, Zenon
<1>8. [y EXCEPT !.task = Start(@)] \in ReportSet /\ RunsOn([y EXCEPT !.task = Start(@)])
  <2> DEFINE z == [y EXCEPT !.task = Start(t)]
  <2>1. z \in ReportSet /\ z.task = Start(t)
    BY <1>3, <1>5, <1>6, Zenon
  <2> HIDE DEF z
  <2>2. RunsOn(z)
    BY <1>2, <1>7, <2>1, RunsOnTask, TaskSteps, Zenon
  <2> QED
    BY <2>1, <2>2, Zenon DEF z
<1>9. [y EXCEPT !.task = Stop(@)] \in ReportSet
  BY <1>3, <1>5, Zenon
<1>10. [y EXCEPT !.task = Expired(@)] \in ReportSet /\ (t.queued > 0 => [y EXCEPT !.task = Rearmed(@)] \in ReportSet)
  BY <1>4, <1>5, Zenon
<1>11. RunsOn(y) => RunsOn([y EXCEPT !.task = Expired(@)])
  <2> DEFINE z == [y EXCEPT !.task = Expired(t)]
  <2>1. z.task = Expired(t)
    BY <1>4, <1>6, Zenon
  <2> HIDE DEF z
  <2>2. RunsOn(y) => RunsOn(z)
    BY <1>2, <1>7, <2>1, RunsOnTask, TaskSteps, Zenon
  <2> QED
    BY <2>2, Zenon DEF z
<1>12. t.queued > 0 /\ RunsOn(y) => RunsOn([y EXCEPT !.task = Rearmed(@)])
  <2> DEFINE z == [y EXCEPT !.task = Rearmed(t)]
  <2>1. t.queued > 0 => z.task = Rearmed(t)
    BY <1>4, <1>6, Zenon
  <2> HIDE DEF z
  <2>2. t.queued > 0 /\ RunsOn(y) => RunsOn(z)
    BY <1>2, <1>7, <2>1, RunsOnTask, TaskSteps, Zenon
  <2> QED
    BY <2>2, Zenon DEF z
<1> QED
  BY <1>8, <1>9, <1>10, <1>11, <1>12, Zenon

\* A step that leaves the thresholds alone.
LEMMA ListsReports ==
    ASSUME ListsSound, UNCHANGED <<th, todo, confirms, level, alerted, again>>,
           reports' \in Seq(ReportSet), freed' \in Nat, freed' > 0 => late',
           \A y \in Range(reports') : y.by \in Taken,
           seenUp' => (th # <<>> => check'.running) /\ \A y \in Range(reports') : RunsOn(y)
    PROVE  ListsSound'
<1>1. Watched'
  BY Zenon DEF Watched, RunsOn, Range, Scheduled
<1>2. \A t \in Range(th') \cup alerted' \cup Range(reports') : t.by \in Taken'
  BY Zenon DEF ListsSound, Taken
<1> QED
  BY <1>1, <1>2, Zenon DEF ListsSound

\* One report changes.
LEMMA OneReport ==
    ASSUME NEW s \in Seq(ReportSet), NEW i \in DOMAIN s, NEW u,
           [s[i] EXCEPT !.task = u] \in ReportSet
    PROVE  /\ [s EXCEPT ![i].task = u] \in Seq(ReportSet)
           /\ \A y \in Range([s EXCEPT ![i].task = u]) : y \in Range(s) \/ y = [s[i] EXCEPT !.task = u]
           /\ s[i] \in Range(s) /\ [s[i] EXCEPT !.task = u].by = s[i].by
<1> DEFINE z == [s[i] EXCEPT !.task = u]
<1>1. [s EXCEPT ![i].task = u] = [s EXCEPT ![i] = z]
  BY Zenon
<1> HIDE DEF z
<1>2. [s EXCEPT ![i] = z] \in Seq(ReportSet) /\ Range([s EXCEPT ![i] = z]) \subseteq Range(s) \cup {z}
  BY DEF Range, z
<1>3. s[i] \in Range(s) /\ s[i] \in ReportSet
  BY DEF Range
<1>4. z.by = s[i].by
  BY <1>3 DEF z, ReportSet
<1> QED
  BY <1>1, <1>2, <1>3, <1>4, Zenon DEF z

\* Every report changes.
LEMMA EveryReport ==
    ASSUME NEW s \in Seq(ReportSet), NEW F \in [ReportSet -> ReportSet],
           NEW v, DOMAIN v = DOMAIN s, v = [i \in DOMAIN s |-> v[i]], \A i \in DOMAIN s : v[i] = F[s[i]]
    PROVE  v \in Seq(ReportSet) /\ Range(v) \subseteq Range(F)
  BY DEF Range

LEMMA OldReports ==
    ASSUME reports \in Seq(ReportSet), NEW F, \A y \in ReportSet : F[y].by = y.by,
           DOMAIN reports' = DOMAIN reports, \A i \in DOMAIN reports : reports'[i] = F[reports[i]],
           \A y \in Range(reports) : y.by \in Taken
    PROVE  \A z \in Range(reports') : z.by \in Taken
<1>1. \A i \in DOMAIN reports : reports[i] \in ReportSet /\ reports[i] \in Range(reports)
  BY DEF Range
<1> SUFFICES ASSUME NEW z \in Range(reports') PROVE z.by \in Taken
  BY Zenon
<1>2. PICK i \in DOMAIN reports' : z = reports'[i]
  BY Zenon DEF Range
<1>3. i \in DOMAIN reports
  BY Zenon
<1>4. z = F[reports[i]]
  BY <1>2, <1>3, Zenon
<1>5. F[reports[i]].by = reports[i].by /\ reports[i].by \in Taken
  BY <1>1, <1>3, Zenon
<1> QED
  BY <1>4, <1>5, Zenon

\* dispatch_link_up and dispatch_link_down
LEMMA ListsLinkEvent ==
    ASSUME ListsSound, TasksSound, LinkEvent PROVE ListsSound'
<1>1. /\ UNCHANGED <<th, freed, level, todo, confirms, alerted, again, late>>
      /\ LinkUp \/ (LinkDown /\ ~seenUp')
  <2> DEFINE e == Head(air.links)
             up == "up"
             down == "down"
  <2>1. up # down
    OBVIOUS
  <2>2. /\ UNCHANGED <<th, freed, level, todo, confirms, alerted, again, late>>
        /\ (e = up /\ LinkUp) \/ (e = down /\ LinkDown)
        /\ seenUp' = (e = up)
    BY Zenon DEF LinkEvent
  <2> HIDE DEF e, up, down
  <2> QED
    BY <2>1, <2>2, Zenon
<1>2. /\ reports \in Seq(ReportSet) /\ IsTask(check) /\ freed \in Nat
      /\ \A y \in Range(reports) : y.by \in Taken
  BY Zenon DEF ListsSound, TasksSound
<1>3. CASE LinkUp
  <2>1. reports' = [i \in DOMAIN reports |-> [reports[i] EXCEPT !.task = Start(reports[i].task)]]
    BY <1>3, Zenon DEF LinkUp
  <2>2. \A y \in ReportSet : [y EXCEPT !.task = Start(y.task)] \in ReportSet /\ RunsOn([y EXCEPT !.task = Start(y.task)])
    BY ReportTask, Zenon
  <2> DEFINE F == [y \in ReportSet |-> [y EXCEPT !.task = Start(y.task)]]
  <2>3. F \in [ReportSet -> ReportSet] /\ \A z \in Range(F) : RunsOn(z)
    BY <2>2, Zenon DEF Range
  <2>4. /\ DOMAIN reports' = DOMAIN reports /\ reports' = [i \in DOMAIN reports |-> reports'[i]]
        /\ \A i \in DOMAIN reports : reports'[i] = F[reports[i]]
    <3>1. \A i \in DOMAIN reports : reports[i] \in ReportSet
      BY <1>2
    <3> QED
      BY <2>1, <3>1, Zenon
  <2> HIDE DEF F
  <2>5. reports' \in Seq(ReportSet) /\ \A z \in Range(reports') : RunsOn(z) /\ z.by \in Taken
    <3>1. reports' \in Seq(ReportSet) /\ Range(reports') \subseteq Range(F)
      BY <1>2, <2>3, <2>4, EveryReport, Zenon
    <3>2. \A y \in ReportSet : F[y].by = y.by
      BY DEF F, ReportSet
    <3>3. \A z \in Range(reports') : z.by \in Taken
      BY <1>2, <2>4, <3>2, OldReports, Zenon
    <3> QED
      BY <2>3, <3>1, <3>3, Zenon
  <2>6. th # <<>> => check'.running
    BY <1>2, <1>3, TaskSteps, Zenon DEF LinkUp
  <2> QED
    BY <1>1, <1>2, <2>5, <2>6, ListsReports, Zenon DEF ListsSound
<1>4. CASE LinkDown /\ ~seenUp'
  <2>1. reports' = [i \in DOMAIN reports |-> [reports[i] EXCEPT !.task = Stop(reports[i].task)]]
    BY <1>4, Zenon DEF LinkDown
  <2> DEFINE F == [y \in ReportSet |-> [y EXCEPT !.task = Stop(y.task)]]
  <2>2. F \in [ReportSet -> ReportSet]
    BY ReportTask, Zenon
  <2>3. /\ DOMAIN reports' = DOMAIN reports /\ reports' = [i \in DOMAIN reports |-> reports'[i]]
        /\ \A i \in DOMAIN reports : reports'[i] = F[reports[i]]
    <3>1. \A i \in DOMAIN reports : reports[i] \in ReportSet
      BY <1>2
    <3> QED
      BY <2>1, <3>1, Zenon
  <2> HIDE DEF F
  <2>4. reports' \in Seq(ReportSet) /\ \A z \in Range(reports') : z.by \in Taken
    <3>1. reports' \in Seq(ReportSet)
      BY <1>2, <2>2, <2>3, EveryReport, Zenon
    <3>2. \A y \in ReportSet : F[y].by = y.by
      BY DEF F, ReportSet
    <3>3. \A z \in Range(reports') : z.by \in Taken
      BY <1>2, <2>3, <3>2, OldReports, Zenon
    <3> QED
      BY <3>1, <3>3, Zenon
  <2> QED
    BY <1>1, <1>2, <1>4, <2>4, ListsReports, Zenon DEF ListsSound
<1> QED
  BY <1>1, <1>3, <1>4, Zenon

\* A report whose timer expires, and one that runs.
LEMMA ListsReportStep ==
    ASSUME ListsSound, NEW i \in DOMAIN reports, PeriodicReport(i) \/ ReportExpires(i) PROVE ListsSound'
<1> DEFINE x == reports[i]
<1>1. reports \in Seq(ReportSet) /\ x \in ReportSet /\ x \in Range(reports) /\ freed \in Nat
  <2>1. reports \in Seq(ReportSet) /\ freed \in Nat
    BY Zenon DEF ListsSound
  <2> QED
    BY <2>1 DEF Range
<1>2. /\ UNCHANGED <<th, check, freed, level, todo, confirms, alerted, again, late, seenUp>>
      /\ \/ reports' = [reports EXCEPT ![i].task = Rearmed(x.task)] /\ x.task.queued > 0
         \/ reports' = [reports EXCEPT ![i].task = Expired(x.task)]
  BY Zenon DEF PeriodicReport, ReportExpires, world, history
<1>3. PICK u : /\ reports' = [reports EXCEPT ![i].task = u] /\ [x EXCEPT !.task = u] \in ReportSet
               /\ RunsOn(x) => RunsOn([x EXCEPT !.task = u])
  BY <1>1, <1>2, ReportTask, Zenon
<1>4. /\ reports' \in Seq(ReportSet)
      /\ \A y \in Range(reports') : y \in Range(reports) \/ y = [x EXCEPT !.task = u]
      /\ [x EXCEPT !.task = u].by = x.by
  BY <1>1, <1>3, OneReport, Zenon
<1>5. seenUp' => (th # <<>> => check'.running) /\ \A y \in Range(reports') : RunsOn(y)
  BY <1>1, <1>2, <1>3, <1>4, WatchedMeans, Zenon DEF ListsSound
<1>6. \A y \in Range(reports') : y.by \in Taken
  BY <1>1, <1>4, Zenon DEF ListsSound
<1> QED
  BY <1>1, <1>2, <1>4, <1>5, <1>6, ListsReports, Zenon DEF ListsSound

\* The timer of the check, and what runs on a destroyed task.
LEMMA ListsTimer ==
    ASSUME ListsSound, TasksSound, CheckExpires \/ FreedReport PROVE ListsSound'
<1>1. UNCHANGED <<th, reports, level, todo, confirms, alerted, again, late, seenUp>>
  BY Zenon DEF CheckExpires, FreedReport, world, history
<1>2. /\ IsTask(check) /\ freed \in Nat /\ reports \in Seq(ReportSet) /\ (freed > 0 => late)
      /\ \A y \in Range(reports) : y.by \in Taken
  BY Zenon DEF ListsSound, TasksSound
<1>3. check'.running = check.running
  BY <1>2, TaskSteps, Zenon DEF CheckExpires, FreedReport
<1>4. freed' \in Nat /\ (freed' > 0 => late')
  <2>1. CASE CheckExpires
    BY <1>1, <1>2, <2>1, Zenon DEF CheckExpires
  <2>2. CASE FreedReport
    <3>1. freed > 0 /\ freed' = freed - 1
      BY <2>2, Zenon DEF FreedReport
    <3>2. freed' \in Nat
      BY <1>2, <3>1
    <3> QED
      BY <1>1, <1>2, <3>1, <3>2, Zenon
  <2> QED
    BY <2>1, <2>2
<1>5. seenUp' => (th # <<>> => check'.running) /\ \A y \in Range(reports') : RunsOn(y)
  BY <1>1, <1>3, WatchedMeans, Zenon DEF ListsSound
<1> QED
  BY <1>1, <1>2, <1>4, <1>5, ListsReports, Zenon

\* No request is ever added.
LEMMA SameRequests == [Next]_vars => DOMAIN confirms' = DOMAIN confirms
<1>1. ASSUME NEW R, NEW st, NEW at, NEW net, Confirm(R, st, at, net) PROVE DOMAIN confirms' = DOMAIN confirms
  BY <1>1, Zenon DEF Confirm
<1>2. ASSUME NEW r, Handle(r) PROVE DOMAIN confirms' = DOMAIN confirms
  BY <1>1, <1>2, Zenon DEF Handle, CapabilityDiscover, EventSubscribe, GetParameters, ConfigureThresholds,
                           LinkActions, LinkConf, L3Conf
<1>3. ASSUME WpaSignal PROVE DOMAIN confirms' = DOMAIN confirms
  BY <1>1, <1>3, Zenon DEF WpaSignal, Associating, Ended
<1>4. ASSUME \/ ThresholdsCheck \/ ScheduledScan \/ FreedReport \/ LinkEvent
             \/ CheckExpires \/ ScanExpires \/ Network \/ UNCHANGED vars
      PROVE  confirms' = confirms
  BY <1>4, Zenon DEF ThresholdsCheck, ScheduledScan, FreedReport, LinkEvent, CheckExpires, ScanExpires,
                     Network, vars, history
<1>5. ASSUME NEW i, PeriodicReport(i) \/ ReportExpires(i) PROVE confirms' = confirms
  BY <1>5, Zenon DEF PeriodicReport, ReportExpires, history
<1> QED
  BY <1>2, <1>3, <1>4, <1>5, Zenon DEF Next

LEMMA ListsNext ==
    ASSUME ListsSound, TasksSound, [Next]_vars PROVE ListsSound'
<1>1. level \in [Measured -> Int] /\ DOMAIN confirms' = DOMAIN confirms
  BY SameRequests, Zenon DEF ListsSound
<1>2. ASSUME NEW r \in todo, Handle(r) PROVE ListsSound'
  <2>1. ASSUME ~ConfigureThresholds(r)
        PROVE  /\ UNCHANGED <<th, reports, freed, check, seenUp, late, alerted, again, level>>
               /\ todo' \subseteq todo
    BY <1>2, <2>1, Zenon DEF Handle, CapabilityDiscover, EventSubscribe, GetParameters, LinkActions,
                             LinkConf, L3Conf, Take, tables, world
  <2> QED
    BY <1>1, <1>2, <2>1, ListsConfigure, ListsKept, Zenon
<1>3. ASSUME ScheduledScan \/ WpaSignal \/ ScanExpires \/ UNCHANGED vars PROVE ListsSound'
  <2>1. UNCHANGED <<th, reports, freed, check, seenUp, late, alerted, again, level, todo>>
    BY <1>3, Zenon DEF ScheduledScan, WpaSignal, ScanExpires, vars, tables, world, history
  <2> QED
    BY <1>1, <2>1, ListsKept, Zenon
<1>4. CASE Network
  <2>1. UNCHANGED <<th, reports, freed, check, seenUp, late, alerted, again, todo>>
    BY <1>4, Zenon DEF Network, tables, history
  <2>2. level' \in [Measured -> Int]
    <3>1. ASSUME NEW t \in Range(th), NEW v \in Levels[t.type], level' = [level EXCEPT ![t.type] = v]
          PROVE  level' \in [Measured -> Int]
      <4>1. th \in Seq(ThresholdSet)
        BY Zenon DEF ListsSound
      <4>2. t \in ThresholdSet
        BY <4>1 DEF Range
      <4>3. t.type \in Measured
        BY <4>2, Zenon DEF ThresholdSet
      <4>4. v \in Int
        BY <3>1, <4>3, LinkSapAssumption, Zenon
      <4> QED
        BY <1>1, <3>1, <4>3, <4>4, Zenon
    <3> QED
      BY <1>1, <1>4, <3>1, Zenon DEF Network, SupAssociate, SupComplete, Disturbance, FirstPacket
  <2> QED
    BY <1>1, <2>1, <2>2, ListsKept, Zenon
<1> QED
  BY <1>2, <1>3, <1>4, ListsCheck, ListsLinkEvent, ListsReportStep, ListsTimer, Zenon DEF Next

LEMMA ListsHold == Spec => []ListsSound
<1>1. Init => ListsSound /\ TasksSound
  BY ListsInit, TasksInit, Zenon
<1>2. ListsSound /\ TasksSound /\ [Next]_vars => ListsSound' /\ TasksSound'
  BY ListsNext, TasksNext, Zenon
<1> QED
  BY <1>1, <1>2, PTL DEF Spec

\* After a link_up the thresholds are checked and the reports run.
THEOREM WatchedAfterUp == Spec => []Watched
<1>1. ListsSound => Watched
  BY Zenon DEF ListsSound
<1> QED
  BY <1>1, ListsHold, PTL

\* A read that divides by zero is one that a request asked for.
LEMMA TrappedRead ==
    ASSUME UNCHANGED air, air.assoc, ~air.used, \E r \in Taken' : "packet_error_rate" \in Reads(r)
    PROVE  DeathExplained'
  BY Zenon DEF DeathExplained, Taken

\* The process dies only after the cancellation of a report whose expiry was
\* queued, or of the packet error rate that a request asked for.
THEOREM DeathsExplained == Spec => []DeathExplained
<1>1. Init => DeathExplained
  BY Zenon DEF Init, DeathExplained
<1>2. ASSUME ListsSound, DeathExplained, [Next]_vars PROVE DeathExplained'
  <2>1. CASE UNCHANGED vars
    BY <1>2, <2>1, Zenon DEF DeathExplained, vars, tables, world, history
  <2>2. ASSUME alive, UNCHANGED alive PROVE DeathExplained'
    BY <2>2, Zenon DEF DeathExplained
  <2>3. ASSUME alive, NEW r \in todo, Handle(r) PROVE DeathExplained'
    <3>1. ASSUME ~GetParameters(r) PROVE UNCHANGED alive
      BY <2>3, <3>1, Zenon DEF Handle, CapabilityDiscover, EventSubscribe, ConfigureThresholds,
                               LinkActions, LinkConf, L3Conf, tables
    <3>2. ASSUME GetParameters(r), Trapped(Ask[r].reads) PROVE DeathExplained'
      <4>1. r \in Taken'
        BY <1>2, <3>2, SameRequests, Zenon DEF GetParameters, Take, Taken, ListsSound
      <4>2. Ask[r].kind = "get" /\ UNCHANGED air
        BY <3>2, Zenon DEF GetParameters
      <4>3. Ask[r].reads \subseteq Reads(r)
        BY <4>2, Zenon DEF Reads
      <4>4. air.assoc /\ ~air.used /\ "packet_error_rate" \in Reads(r)
        BY <3>2, <4>3, Zenon DEF Trapped, DividesByZero
      <4> QED
        BY <4>1, <4>2, <4>4, TrappedRead, Zenon
    <3>3. ASSUME GetParameters(r), ~Trapped(Ask[r].reads) PROVE UNCHANGED alive
      BY <3>3, Zenon DEF GetParameters
    <3> QED
      BY <2>2, <2>3, <3>1, <3>2, <3>3, Zenon
  <2>4. ASSUME alive, ThresholdsCheck PROVE DeathExplained'
    <3>1. ASSUME Trapped({t.type : t \in Range(th)}) PROVE DeathExplained'
      <4> air.assoc /\ ~air.used
        BY <3>1, Zenon DEF Trapped, DividesByZero
      <4>1. PICK t \in Range(th) : t.type = "packet_error_rate"
        BY <3>1, Zenon DEF Trapped, DividesByZero
      <4>2. t.by \in Taken /\ th \in Seq(ThresholdSet)
        BY <1>2, Zenon DEF ListsSound
      <4>3. t \in ThresholdSet
        BY <4>2 DEF Range
      <4>4. t.type \in Reads(t.by)
        BY <4>3, Zenon DEF ThresholdSet
      <4>5. UNCHANGED <<air, todo, confirms>>
        BY <2>4, Zenon DEF ThresholdsCheck
      <4>6. "packet_error_rate" \in Reads(t.by) /\ t.by \in Taken'
        BY <4>1, <4>2, <4>4, <4>5, Zenon DEF Taken
      <4> QED
        BY <4>5, <4>6, TrappedRead, Zenon
    <3>2. ASSUME ~Trapped({t.type : t \in Range(th)}) PROVE UNCHANGED alive
      BY <2>4, <3>2, Zenon DEF ThresholdsCheck
    <3> QED
      BY <2>2, <2>4, <3>1, <3>2, Zenon
  <2>5. ASSUME alive, NEW i \in DOMAIN reports, PeriodicReport(i) PROVE DeathExplained'
    <3>1. ASSUME Trapped({reports[i].type}) PROVE DeathExplained'
      <4> air.assoc /\ ~air.used /\ reports[i].type = "packet_error_rate"
        BY <3>1, Zenon DEF Trapped, DividesByZero
      <4>1. reports \in Seq(ReportSet) /\ \A y \in Range(reports) : y.by \in Taken
        BY <1>2, Zenon DEF ListsSound
      <4>2. reports[i] \in ReportSet /\ reports[i] \in Range(reports)
        BY <4>1 DEF Range
      <4>3. reports[i].type \in Reads(reports[i].by) /\ reports[i].by \in Taken
        BY <4>1, <4>2, Zenon DEF ReportSet
      <4>4. UNCHANGED <<air, todo, confirms>>
        BY <2>5, Zenon DEF PeriodicReport, world, history
      <4>5. reports[i].by \in Taken'
        BY <4>3, <4>4, Zenon DEF Taken
      <4> QED
        BY <4>3, <4>4, <4>5, TrappedRead, Zenon
    <3> QED
      BY <2>2, <2>5, <3>1, Zenon DEF PeriodicReport
  <2>6. ASSUME FreedReport PROVE DeathExplained'
    BY <1>2, <2>6, Zenon DEF FreedReport, ListsSound, DeathExplained, history
  <2>7. ASSUME \/ ScheduledScan \/ LinkEvent \/ WpaSignal \/ CheckExpires \/ ScanExpires \/ Network
               \/ \E i \in DOMAIN reports : ReportExpires(i)
        PROVE  UNCHANGED alive
    BY <2>7, Zenon DEF ScheduledScan, LinkEvent, WpaSignal, CheckExpires, ScanExpires, Network,
                       ReportExpires, tables
  <2> QED
    BY <1>2, <2>1, <2>2, <2>3, <2>4, <2>5, <2>6, <2>7, Zenon DEF Next
<1> QED
  BY <1>1, <1>2, ListsHold, PTL DEF Spec

LEMMA SameOrder ==
    ASSUME NEW x \in Int, NEW y \in Int, Comparable(x, y)
    PROVE  Uint16(x) < Uint16(y) <=> x < y
<1>1. \A v \in Int : -65536 <= v /\ v < 0 => v % 65536 = v + 65536
  BY SMT
<1>2. \A v \in Int : 0 <= v /\ v < 65536 => v % 65536 = v
  BY SMT
<1>3. CASE -65536 <= x /\ x < 0 /\ -65536 <= y /\ y < 0
  <2>1. Uint16(x) = x + 65536 /\ Uint16(y) = y + 65536
    BY <1>1, <1>3, SMT DEF Uint16
  <2> QED
    BY <2>1
<1>4. CASE 0 <= x /\ x < 65536 /\ 0 <= y /\ y < 65536
  <2>1. Uint16(x) = x /\ Uint16(y) = y
    BY <1>2, <1>4, SMT DEF Uint16
  <2> QED
    BY <2>1
<1> QED
  BY <1>3, <1>4 DEF Comparable

\* A one-shot threshold is reported once, and none is reported on the wrong side of
\* its value, unless uint16 changes the order of the two.
THEOREM RightReports == Spec => []ReportsRight
<1>1. ASSUME ListsSound PROVE ReportsRight
  <2>1. level \in [Measured -> Int] /\ th \in Seq(ThresholdSet) /\ \A t \in again : ~t.once
    BY <1>1, Zenon DEF ListsSound
  <2>2. ASSUME NEW t \in Range(th), Comparable(level[t.type], t.val)
        PROVE  Crossed(t) <=> IF t.dir = "above" THEN level[t.type] > t.val ELSE level[t.type] < t.val
    <3> DEFINE v == level[t.type]
               w == t.val
    <3>1. t \in ThresholdSet
      BY <2>1 DEF Range
    <3>2. w \in Int /\ t.dir \in {"above", "below"} /\ t.type \in Measured
      BY <3>1 DEF ThresholdSet
    <3>3. v \in Int
      BY <2>1, <3>2, Zenon
    <3>4. Comparable(v, w)
      BY <2>2, Zenon
    <3>5. /\ Crossed(t) <=> \/ t.dir = "above" /\ Uint16(v) > Uint16(w)
                            \/ t.dir = "below" /\ Uint16(v) < Uint16(w)
      BY Zenon DEF Crossed
    <3> HIDE DEF v, w
    <3>6. Comparable(w, v)
      BY <3>4 DEF Comparable
    <3>7. (Uint16(v) < Uint16(w) <=> v < w) /\ (Uint16(w) < Uint16(v) <=> w < v)
      BY <3>2, <3>3, <3>4, <3>6, SameOrder, Zenon
    <3>8. Uint16(v) \in Int /\ Uint16(w) \in Int
      BY <3>2, <3>3, SMT DEF Uint16
    <3>9. Crossed(t) <=> IF t.dir = "above" THEN v > w ELSE v < w
      BY <3>2, <3>3, <3>5, <3>7, <3>8, SMT
    <3> QED
      BY <3>9 DEF v, w
  <2> QED
    BY <2>1, <2>2, Zenon DEF ReportsRight
<1> QED
  BY <1>1, ListsHold, PTL
=============================================================================
