-------------------------- MODULE HidDaemonProofs --------------------------
(* Theorems about HidDaemon, for any set of devices, of operation slots and *)
(* of requests.                                                             *)
EXTENDS HidDaemon, TLAPS

USE NoTaskAssumption, OpsAssumption, ReportsAssumption, SwitchAssumption

-----------------------------------------------------------------------------
(* Type correctness                                                         *)

\* What the helpers of the actions return.
LEMMA HostUpdateType ==
  /\ NoHost \in Hosts
  /\ \A p \in BOOLEAN : NewHost(p) \in Hosts
  /\ \A h \in Hosts :
       /\ h.report \in SUBSET Reports
       /\ Closed(h) \in Hosts /\ Dropped(h) \in Hosts /\ \A r \in SUBSET Reports : Says(h, r) \in Hosts
       /\ CancelledHosts(h) \subseteq Hosts
       /\ \A b \in BOOLEAN : AfterCleanup(h, b) \subseteq Hosts
       /\ \A p \in LivePhases \cup {"none", "ended"} :
            /\ (h.open => p \notin {"new", "starting"}) => At(h, p) \in Hosts
            /\ \A b \in BOOLEAN :
                 (b => p \notin {"new", "starting"}) => AtOpen(h, p, b) \in Hosts
<1>1. NoHost \in Hosts /\ \A p \in BOOLEAN : NewHost(p) \in Hosts
  BY DEF NoHost, NewHost, Hosts, HostRecords, LivePhases
<1> SUFFICES ASSUME NEW h \in Hosts
             PROVE  /\ h.report \in SUBSET Reports
                    /\ Closed(h) \in Hosts /\ Dropped(h) \in Hosts /\ \A r \in SUBSET Reports : Says(h, r) \in Hosts
                    /\ CancelledHosts(h) \subseteq Hosts
                    /\ \A b \in BOOLEAN : AfterCleanup(h, b) \subseteq Hosts
                    /\ \A p \in LivePhases \cup {"none", "ended"} :
                         /\ (h.open => p \notin {"new", "starting"}) => At(h, p) \in Hosts
                         /\ \A b \in BOOLEAN :
                              (b => p \notin {"new", "starting"}) => AtOpen(h, p, b) \in Hosts
  BY <1>1
<1>2. h.report \in SUBSET Reports /\ Closed(h) \in Hosts /\ Dropped(h) \in Hosts
  BY DEF Hosts, HostRecords, Closed, Dropped
<1>3. \A p \in LivePhases \cup {"none", "ended"} :
        /\ (h.open => p \notin {"new", "starting"}) => At(h, p) \in Hosts
        /\ \A b \in BOOLEAN :
             (b => p \notin {"new", "starting"}) => AtOpen(h, p, b) \in Hosts
  BY DEF Hosts, HostRecords, At, AtOpen
<1>4. \A r \in SUBSET Reports : Says(h, r) \in Hosts
  BY DEF Hosts, HostRecords, Says
<1>5. CancelledHosts(h) \subseteq Hosts
  <2>1. At(h, "drainLost") \in Hosts /\ At(h, "ended") \in Hosts
        /\ AtOpen(h, "ended", FALSE) \in Hosts
    BY <1>3 DEF LivePhases
  <2> QED BY <2>1 DEF CancelledHosts
<1>6. \A b \in BOOLEAN : AfterCleanup(h, b) \subseteq Hosts
  BY <1>2 DEF AfterCleanup
<1> QED BY <1>2, <1>3, <1>4, <1>5, <1>6

LEMMA TaskUpdateType ==
  ASSUME task \in TaskStates, NEW t \in Tasks
  PROVE  /\ Idle(t) \in TaskStates
         /\ \A pc \in TaskPcs : Moved(t, pc) \in TaskStates
         /\ \A pc \in TaskPcs, op \in Ops, d \in Devices :
              Asked(t, op, d, pc) \in TaskStates
<1>1. \A pc \in TaskPcs : Moved(t, pc) \in TaskStates
  BY DEF TaskStates, Moved
<1>2. Idle(t) \in TaskStates
  <2> DEFINE r == [[task[t] EXCEPT !.pc = "idle"] EXCEPT !.op = "start"]
  <2>1. r \in [pc : TaskPcs, op : AllOps, dev : Devices]
    BY DEF TaskStates, TaskPcs, AllOps
  <2>2. Idle(t) = [task EXCEPT ![t] = r]
    BY DEF TaskStates, Idle
  <2> HIDE DEF r
  <2> QED BY <2>1, <2>2 DEF TaskStates
<1>3. \A pc \in TaskPcs, op \in Ops, d \in Devices : Asked(t, op, d, pc) \in TaskStates
  BY DEF TaskStates, Asked
<1> QED BY <1>1, <1>2, <1>3

LEMMA AfterReportsType ==
  ASSUME devices \in SUBSET Devices, NEW r
  PROVE  AfterReports(r) \subseteq SUBSET Devices
  BY DEF AfterReports

LEMMA QueueType ==
  ASSUME waiters \in Seq(Tasks)
  PROVE  Dequeued \in Seq(Tasks) /\ \A t \in Tasks : Append(waiters, t) \in Seq(Tasks)
  BY DEF Dequeued

LEMMA InitTypeOK == Init => TypeOK
<1>1. Init => task \in TaskStates
  BY DEF Init, TaskStates, TaskPcs, AllOps
<1>2. Init => waiters \in Seq(Tasks)
  BY DEF Init
<1>3. Init => lock \in Tasks \cup {NoTask} /\ runPc \in RunPcs /\ devices \in SUBSET Devices
  BY DEF Init, RunPcs
<1> QED BY <1>1, <1>2, <1>3, HostUpdateType DEF Init, TypeOK

\* What the loop of run() writes on its way to the next wait.
LoopTyped ==
  /\ host' \in Hosts /\ runPc' \in RunPcs /\ event' \in BOOLEAN /\ woken' \in BOOLEAN
  /\ paired' \in BOOLEAN /\ orphan' \in BOOLEAN /\ powered' \in BOOLEAN

LEMMA GoToType ==
  ASSUME TypeOK, NEW pc \in RunPcs, NEW ev \in BOOLEAN, NEW h \in Hosts, GoTo(pc, ev, h)
  PROVE  LoopTyped
  BY DEF LoopTyped, TypeOK, GoTo

LEMMA PassGateType ==
  ASSUME TypeOK, NEW devs, NEW ev \in BOOLEAN, NEW h \in Hosts, PassGate(devs, ev, h)
  PROVE  LoopTyped
<1>1. CASE GoTo("waitDevices", FALSE, h)
  BY <1>1, GoToType DEF RunPcs, Waits
<1>2. CASE StartHost(ev, h)
  BY <1>2, HostUpdateType DEF LoopTyped, TypeOK, StartHost, RunPcs
<1> QED BY <1>1, <1>2 DEF PassGate

LEMMA LoopTopType ==
  ASSUME TypeOK, NEW go, NEW devs, NEW ev \in BOOLEAN, NEW h \in Hosts,
         LoopTop(go, devs, ev, h)
  PROVE  LoopTyped
  BY GoToType, PassGateType DEF LoopTop, RunPcs, Waits

LEMMA AfterHostType ==
  ASSUME TypeOK, NEW skip, NEW devs, NEW h \in Hosts, AfterHost(skip, devs, h)
  PROVE  LoopTyped
<1>1. event \in BOOLEAN
  BY DEF TypeOK
<1> QED BY <1>1, GoToType, LoopTopType DEF AfterHost, RunPcs, Waits

\* Each action of run() keeps the types of what it writes.
LEMMA RunTypeOK == TypeOK /\ RunNext => TypeOK'
<1>0. TypeOK => host \in Hosts /\ event \in BOOLEAN
  BY DEF TypeOK
<1>1. TypeOK /\ RunStart => TypeOK'
  <2>1. TypeOK /\ RunStart => LoopTyped
    BY <1>0, LoopTopType DEF RunStart
  <2> QED BY <2>1 DEF TypeOK, LoopTyped, RunStart, runFrame, flags
<1>2. TypeOK /\ RunResumed => TypeOK'
  <2>1. TypeOK /\ RunResumed => LoopTyped
    BY <1>0, GoToType, PassGateType DEF RunResumed, RunPcs
  <2> QED BY <2>1 DEF TypeOK, LoopTyped, RunResumed, runFrame, flags
<1>3. TypeOK /\ RunDevicesChanged => TypeOK'
  <2>1. TypeOK /\ RunDevicesChanged => LoopTyped
    BY <1>0, LoopTopType DEF RunDevicesChanged
  <2> QED BY <2>1 DEF TypeOK, LoopTyped, RunDevicesChanged, runFrame, flags
<1>4. TypeOK /\ RunDelayOver => TypeOK'
  <2>1. TypeOK /\ RunDelayOver => LoopTyped
    BY <1>0, LoopTopType DEF RunDelayOver
  <2> QED BY <2>1 DEF TypeOK, LoopTyped, RunDelayOver, runFrame, flags
<1>5. TypeOK /\ RunHostEnded => TypeOK'
  <2>1. ASSUME TypeOK, RunHostEnded
        PROVE  LoopTyped
    <3> DEFINE h == At(host, "none")
    <3>1. h \in Hosts /\ Says(h, {}) \in Hosts /\ Dropped(h) \in Hosts /\ event \in BOOLEAN
      BY <2>1, <1>0, HostUpdateType
    <3>2. \/ GoTo("cleanup", event, Says(h, {}))
          \/ ActOn(host.report, Dropped(h))
          \/ AfterHost(FALSE, devices, h)
      BY <2>1 DEF RunHostEnded
    <3> HIDE DEF h
    <3> QED BY <2>1, <3>1, <3>2, GoToType, AfterHostType DEF ActOn, RunPcs
  <2>2. TypeOK /\ RunHostEnded => devices' \in SUBSET Devices
    <3>1. RunHostEnded => devices' \in AfterReports(host.report) \/ UNCHANGED devices
      BY DEF RunHostEnded, ActOn
    <3> QED BY <3>1, AfterReportsType DEF TypeOK
  <2>3. TypeOK /\ RunHostEnded =>
          /\ running' \in BOOLEAN /\ todo' \in SUBSET Reports
          /\ races' \in SUBSET {"radio", "swallowed"}
    BY HostUpdateType DEF TypeOK, RunHostEnded
  <2>4. RunHostEnded => UNCHANGED runFrame
    BY DEF RunHostEnded
  <2> QED BY <2>1, <2>2, <2>3, <2>4 DEF TypeOK, LoopTyped, runFrame, flags
<1>6. TypeOK /\ RunCleaned => TypeOK'
  <2>1. ASSUME TypeOK, RunCleaned
        PROVE  LoopTyped
    <3>1. PICK h \in AfterCleanup(host, CleaningTasks # {} \/ shutPc = "cleaning") :
                 ActOn(todo, Dropped(h))
      BY <2>1 DEF RunCleaned
    <3>2. h \in Hosts
      BY <2>1, <1>0, HostUpdateType
    <3>3. Dropped(h) \in Hosts
      BY <3>2, HostUpdateType
    <3> QED BY <2>1, <3>1, <3>3, AfterHostType DEF ActOn
  <2>2. TypeOK /\ RunCleaned => devices' \in SUBSET Devices
    <3>1. RunCleaned => devices' \in AfterReports(todo) \/ UNCHANGED devices
      BY DEF RunCleaned, ActOn
    <3> QED BY <3>1, AfterReportsType DEF TypeOK
  <2>3. TypeOK /\ RunCleaned =>
          /\ running' \in BOOLEAN /\ todo' \in SUBSET Reports
          /\ races' \in SUBSET {"radio", "swallowed"}
    BY HostUpdateType DEF TypeOK, RunCleaned
  <2>4. RunCleaned => UNCHANGED runFrame
    BY DEF RunCleaned
  <2> QED BY <2>1, <2>2, <2>3, <2>4 DEF TypeOK, LoopTyped, runFrame, flags
<1>7. TypeOK /\ RunWriteFails => TypeOK'
  <2>1. ASSUME TypeOK, RunWriteFails
        PROVE  LoopTyped
    <3>1. PICK h \in AfterCleanup(host, CleaningTasks # {} \/ shutPc = "cleaning") :
                 GoTo("done", event, Dropped(h))
      BY <2>1 DEF RunWriteFails
    <3>2. h \in Hosts
      BY <2>1, <1>0, HostUpdateType
    <3>3. Dropped(h) \in Hosts /\ event \in BOOLEAN
      BY <2>1, <1>0, <3>2, HostUpdateType
    <3> QED BY <2>1, <3>1, <3>3, GoToType DEF RunPcs
  <2>2. RunWriteFails => todo' = {} /\ UNCHANGED <<runFrame, running, devices, races>>
    BY DEF RunWriteFails
  <2> QED BY <2>1, <2>2 DEF TypeOK, LoopTyped, runFrame, flags
<1> QED BY <1>1, <1>2, <1>3, <1>4, <1>5, <1>6, <1>7 DEF RunNext

\* So does each step of host.run(): only the host and the chip's power move.
LEMMA HostTypeOK == TypeOK /\ HostNext => TypeOK'
<1>1. HostNext => UNCHANGED hostFrame
  BY DEF HostNext
<1>2. TypeOK /\ HostNext => host' \in Hosts
  <2>1. TypeOK /\ HostBegins => host' \in Hosts
    <3>1. TypeOK /\ host.phase = "new" => At(host, "starting") \in Hosts
      BY HostUpdateType DEF TypeOK, Hosts, LivePhases
    <3> QED BY <3>1, HostUpdateType DEF TypeOK, HostBegins, HostStep, LivePhases
  <2>2. TypeOK /\ HostOpens => host' \in Hosts
    BY HostUpdateType DEF TypeOK, HostOpens, HostStep, LivePhases
  <2>3. TypeOK /\ (HostStarted \/ HostSettled) => host' \in Hosts
    BY HostUpdateType DEF TypeOK, HostStarted, HostSettled, HostStep, LivePhases
  <2>4. TypeOK /\ (HostDrained \/ HostLoses) => host' \in Hosts
    BY HostUpdateType DEF TypeOK, HostDrained, HostLoses, HostStep, LivePhases
  <2>5. TypeOK /\ HostReports => host' \in Hosts
    BY HostUpdateType DEF TypeOK, HostReports
  <2> QED BY <2>1, <2>2, <2>3, <2>4, <2>5 DEF HostNext, LifeNext
<1>3. TypeOK /\ HostNext => powered' \in BOOLEAN
  BY DEF TypeOK, HostNext, LifeNext, HostBegins, HostOpens, HostStarted, HostSettled,
     HostDrained, HostLoses, HostReports
<1>4. TypeOK /\ HostNext =>
        /\ lock' \in Tasks \cup {NoTask} /\ waiters' \in Seq(Tasks) /\ task' \in TaskStates
        /\ shutPc' \in {"up", "cleaning", "down"} /\ userOff' \in BOOLEAN
        /\ races' \in SUBSET {"radio", "swallowed"} /\ UNCHANGED flags
  BY <1>1 DEF TypeOK, hostFrame
<1>5. TypeOK /\ HostNext =>
        /\ running' \in BOOLEAN /\ suspended' \in BOOLEAN /\ event' \in BOOLEAN
        /\ woken' \in BOOLEAN /\ runPc' \in RunPcs /\ todo' \in SUBSET Reports
        /\ paired' \in BOOLEAN /\ orphan' \in BOOLEAN /\ devices' \in SUBSET Devices
  BY <1>1 DEF TypeOK, hostFrame
<1> QED BY <1>2, <1>3, <1>4, <1>5 DEF TypeOK, flags

LEMMA AskTypeOK == ASSUME NEW t \in Tasks PROVE TypeOK /\ AskNext(t) => TypeOK'
<1>1. TypeOK /\ AskNext(t) => task' \in TaskStates
  <2>1. TypeOK /\ (AskScan(t) \/ AskPair(t)) => task' \in TaskStates
    BY TaskUpdateType DEF TypeOK, AskScan, AskPair, Ask, TaskPcs
  <2>2. TypeOK /\ (SubmitPair(t)) => task' \in TaskStates
    BY TaskUpdateType DEF TypeOK, SubmitPair, Ask, TaskPcs
  <2>3. TypeOK /\ (AskConnect(t) \/ AskStart(t)) => task' \in TaskStates
    BY TaskUpdateType DEF TypeOK, AskConnect, AskStart, Ask, TaskPcs
  <2>4. TypeOK /\ (AskStop(t)) => task' \in TaskStates
    BY TaskUpdateType DEF TypeOK, AskStop, Ask, TaskPcs
  <2>5. TypeOK /\ (AskDisconnect(t)) => task' \in TaskStates
    BY TaskUpdateType DEF TypeOK, AskDisconnect, Ask, TaskPcs
  <2>6. TypeOK /\ (AskRemove(t)) => task' \in TaskStates
    BY TaskUpdateType DEF TypeOK, AskRemove, Ask, TaskPcs
  <2>7. TypeOK /\ (PowerEvent(t)) => task' \in TaskStates
    BY TaskUpdateType DEF TypeOK, PowerEvent, Ask, TaskPcs
  <2> QED BY <2>1, <2>2, <2>3, <2>4, <2>5, <2>6, <2>7 DEF AskNext
<1>2. AskNext(t) => UNCHANGED <<askFrame, suspendedBySystem, isScanning>>
  BY DEF AskNext, AskScan, AskPair, SubmitPair, AskConnect, AskStart, AskStop,
     AskDisconnect, AskRemove, PowerEvent, flags
<1>3. TypeOK /\ AskNext(t) =>
        /\ isPairing' \in BOOLEAN /\ userOff' \in BOOLEAN
        /\ devices' \in SUBSET Devices /\ races' \in SUBSET {"radio", "swallowed"}
  BY DEF TypeOK, AskNext, AskScan, AskPair, SubmitPair, AskConnect, AskStart,
     AskStop, AskDisconnect, AskRemove, PowerEvent, flags
<1>4. TypeOK /\ AskNext(t) =>
        /\ running' \in BOOLEAN /\ suspended' \in BOOLEAN /\ event' \in BOOLEAN
        /\ woken' \in BOOLEAN /\ runPc' \in RunPcs /\ host' \in Hosts
        /\ todo' \in SUBSET Reports /\ paired' \in BOOLEAN /\ orphan' \in BOOLEAN
  BY <1>2 DEF TypeOK, askFrame, loopVars
<1>5. TypeOK /\ AskNext(t) =>
        /\ powered' \in BOOLEAN /\ lock' \in Tasks \cup {NoTask}
        /\ waiters' \in Seq(Tasks) /\ shutPc' \in {"up", "cleaning", "down"}
        /\ suspendedBySystem' \in BOOLEAN /\ isScanning' \in BOOLEAN
  BY <1>2 DEF TypeOK, askFrame, loopVars
<1> QED BY <1>1, <1>3, <1>4, <1>5 DEF TypeOK

\* What suspend() and the operation after it leave.
LEMMA TearDownTypeOK ==
  ASSUME NEW t \in Tasks, NEW ev \in BOOLEAN, NEW met \in SUBSET {"radio", "swallowed"}
  PROVE  TypeOK /\ TearDown(t, ev, met) =>
           /\ suspended' \in BOOLEAN /\ event' \in BOOLEAN /\ woken' \in BOOLEAN
           /\ host' \in Hosts /\ UNCHANGED <<paired, orphan, userOff>>
           /\ devices' \in SUBSET Devices /\ powered' \in BOOLEAN
           /\ lock' \in Tasks \cup {NoTask} /\ task' \in TaskStates
           /\ races' \in SUBSET {"radio", "swallowed"}
<1>1. TypeOK /\ TearDown(t, ev, met) => host' \in Hosts
  BY HostUpdateType DEF TypeOK, TearDown, AfterSuspend
<1>2. TypeOK /\ TearDown(t, ev, met) => lock' \in Tasks \cup {NoTask} /\ task' \in TaskStates
  BY TaskUpdateType DEF TypeOK, TearDown, AfterSuspend, Hold, Release, TaskPcs
<1>3. TypeOK /\ TearDown(t, ev, met) =>
        suspended' \in BOOLEAN /\ event' \in BOOLEAN /\ woken' \in BOOLEAN
  BY DEF TypeOK, TearDown, AfterSuspend, Resume
<1>4. TypeOK /\ TearDown(t, ev, met) => devices' \in SUBSET Devices
  <2>1. TypeOK => task[t].dev \in Devices
    BY DEF TypeOK, TaskStates
  <2> QED BY <2>1 DEF TypeOK, TearDown, AfterSuspend
<1>5. TypeOK /\ TearDown(t, ev, met) =>
        /\ UNCHANGED <<paired, orphan, userOff>> /\ powered' \in BOOLEAN
        /\ races' \in SUBSET {"radio", "swallowed"}
  BY DEF TypeOK, TearDown, AfterSuspend
<1> QED BY <1>1, <1>2, <1>3, <1>4, <1>5

\* The operations: what each writes besides the frame that none touches.
LEMMA OpTypeOK == ASSUME NEW t \in Tasks PROVE TypeOK /\ OpNext(t) => TypeOK'
<1>1. OpNext(t) => UNCHANGED opFrame
  BY DEF OpNext, Enqueue, DoScan, DoPairOrConnect, DoStop, DoSystemSuspend, Joined,
     Cleaned, Opened, RadioOpEnds, PairSucceeds, DoResume, DoSystemResume,
     SkipSystemSuspend, DoDisconnect, HungUp
<1>2. TypeOK /\ OpNext(t) => waiters' \in Seq(Tasks)
  BY QueueType DEF TypeOK, OpNext, Enqueue, DoScan, DoPairOrConnect, DoStop,
     DoSystemSuspend, Joined, Cleaned, Opened, RadioOpEnds, PairSucceeds, DoResume,
     DoSystemResume, SkipSystemSuspend, DoDisconnect, HungUp
<1>3. TypeOK /\ OpNext(t) =>
        suspendedBySystem' \in BOOLEAN /\ isScanning' \in BOOLEAN /\ isPairing' \in BOOLEAN
  BY DEF TypeOK, OpNext, Enqueue, DoScan, DoPairOrConnect, DoStop, DoSystemSuspend,
     Joined, Cleaned, Opened, RadioOpEnds, PairSucceeds, DoResume, DoSystemResume,
     SkipSystemSuspend, DoDisconnect, HungUp, EndRadioOp, flags
<1> DEFINE Typed ==
             /\ suspended' \in BOOLEAN /\ event' \in BOOLEAN /\ woken' \in BOOLEAN
             /\ host' \in Hosts /\ paired' \in BOOLEAN /\ orphan' \in BOOLEAN
             /\ userOff' \in BOOLEAN /\ devices' \in SUBSET Devices
             /\ powered' \in BOOLEAN /\ lock' \in Tasks \cup {NoTask}
             /\ task' \in TaskStates /\ races' \in SUBSET {"radio", "swallowed"}
<1>4. TypeOK /\ Suspend(t) => Typed
  <2>1. TypeOK /\ Suspend(t) /\ Live(host) => Typed
    <3>1. TypeOK /\ Suspend(t) /\ Live(host) => host' \in Hosts
      BY HostUpdateType DEF TypeOK, Suspend, SuspendWith, CancelHost
    <3>2. TypeOK /\ Suspend(t) /\ Live(host) =>
            lock' \in Tasks \cup {NoTask} /\ task' \in TaskStates
      BY TaskUpdateType DEF TypeOK, Suspend, SuspendWith, Hold, TaskPcs
    <3>3. TypeOK /\ Suspend(t) /\ Live(host) =>
            /\ suspended' \in BOOLEAN /\ event' \in BOOLEAN /\ woken' \in BOOLEAN
            /\ races' \in SUBSET {"radio", "swallowed"}
      BY DEF TypeOK, Suspend, SuspendWith, CancelHost, Swallowed
    <3>4. TypeOK /\ Suspend(t) /\ Live(host) =>
            /\ paired' \in BOOLEAN /\ orphan' \in BOOLEAN /\ powered' \in BOOLEAN
            /\ userOff' \in BOOLEAN /\ devices' \in SUBSET Devices
      BY DEF TypeOK, Suspend, SuspendWith
    <3> QED BY <3>1, <3>2, <3>3, <3>4
  <2>2. TypeOK /\ Suspend(t) /\ ~Live(host) =>
          \E met \in SUBSET {"radio", "swallowed"} : TearDown(t, FALSE, met)
    BY DEF TypeOK, Suspend, SuspendWith
  <2> QED BY <2>1, <2>2, TearDownTypeOK DEF TypeOK
<1>5. TypeOK /\ (DoScan(t) \/ DoPairOrConnect(t) \/ DoStop(t) \/ DoSystemSuspend(t)) => Typed
  BY <1>4 DEF DoScan, DoPairOrConnect, DoStop, DoSystemSuspend
<1>6. TypeOK /\ Joined(t) => Typed
  BY TearDownTypeOK DEF TypeOK, Joined
<1>7. TypeOK /\ Cleaned(t) => Typed
  <2>1. TypeOK /\ Cleaned(t) => host' \in Hosts
    BY HostUpdateType DEF TypeOK, Cleaned, AfterSuspend
  <2>2. TypeOK /\ Cleaned(t) => lock' \in Tasks \cup {NoTask} /\ task' \in TaskStates
    BY TaskUpdateType DEF TypeOK, Cleaned, AfterSuspend, Hold, Release, TaskPcs
  <2>3. TypeOK /\ Cleaned(t) =>
          suspended' \in BOOLEAN /\ event' \in BOOLEAN /\ woken' \in BOOLEAN
    BY DEF TypeOK, Cleaned, AfterSuspend, Resume
  <2>4. TypeOK /\ Cleaned(t) => devices' \in SUBSET Devices
    <3>1. TypeOK => task[t].dev \in Devices
      BY DEF TypeOK, TaskStates
    <3> QED BY <3>1 DEF TypeOK, Cleaned, AfterSuspend
  <2>5. TypeOK /\ Cleaned(t) =>
          /\ UNCHANGED <<paired, orphan, userOff, races>> /\ powered' \in BOOLEAN
    BY DEF TypeOK, Cleaned, AfterSuspend
  <2> QED BY <2>1, <2>2, <2>3, <2>4, <2>5 DEF TypeOK
<1>8. TypeOK /\ (Enqueue(t) \/ Opened(t)) => Typed
  BY TaskUpdateType DEF TypeOK, Enqueue, Opened, Hold, TaskPcs
<1>9. TypeOK /\ (RadioOpEnds(t) \/ PairSucceeds(t)) => Typed
  <2>1. TypeOK => task[t].dev \in Devices
    BY DEF TypeOK, TaskStates
  <2>2. TypeOK /\ RadioOpEnds(t) => Typed
    BY TaskUpdateType DEF TypeOK, RadioOpEnds, EndRadioOp, Resume, Release
  <2>3. TypeOK /\ PairSucceeds(t) => Typed
    BY <2>1, TaskUpdateType DEF TypeOK, PairSucceeds, EndRadioOp, Resume, Release
  <2> QED BY <2>2, <2>3
<1>10. TypeOK /\ (DoResume(t) \/ DoSystemResume(t) \/ SkipSystemSuspend(t)) => Typed
  BY TaskUpdateType DEF TypeOK, DoResume, DoSystemResume, SkipSystemSuspend, Resume, Release
<1>11. TypeOK /\ (DoDisconnect(t) \/ HungUp(t)) => Typed
  <2>1. TypeOK /\ (DoDisconnect(t) \/ HungUp(t)) =>
          lock' \in Tasks \cup {NoTask} /\ task' \in TaskStates
    BY TaskUpdateType DEF TypeOK, DoDisconnect, HungUp, Hold, Release, TaskPcs
  <2>2. TypeOK /\ (DoDisconnect(t) \/ HungUp(t)) =>
          host' \in Hosts /\ races' \in SUBSET {"radio", "swallowed"}
    BY HostUpdateType DEF TypeOK, DoDisconnect, HungUp, CancelHost, Swallowed
  <2>3. TypeOK /\ (DoDisconnect(t) \/ HungUp(t)) =>
          /\ suspended' \in BOOLEAN /\ event' \in BOOLEAN /\ woken' \in BOOLEAN
          /\ paired' \in BOOLEAN /\ orphan' \in BOOLEAN /\ powered' \in BOOLEAN
          /\ userOff' \in BOOLEAN /\ devices' \in SUBSET Devices
    BY DEF TypeOK, DoDisconnect, HungUp
  <2> QED BY <2>1, <2>2, <2>3
<1>12. TypeOK /\ OpNext(t) => Typed
  BY <1>5, <1>6, <1>7, <1>8, <1>9, <1>10, <1>11 DEF OpNext
<1> QED BY <1>1, <1>2, <1>3, <1>12 DEF TypeOK, opFrame, loopVars

\* And a shutdown, which stops in one of the awaits of daemon.stop().
LEMMA ShutTypeOK == TypeOK /\ (Shutdown \/ ShutdownCleaned) => TypeOK'
<1>1. Shutdown \/ ShutdownCleaned => UNCHANGED shutFrame
  BY DEF Shutdown, ShutdownCleaned
<1>2. TypeOK /\ (Shutdown \/ ShutdownCleaned) => host' \in Hosts
  BY HostUpdateType DEF TypeOK, Shutdown, ShutdownCleaned, CancelRun, CancelHost
<1>3. TypeOK /\ (Shutdown \/ ShutdownCleaned) =>
        /\ runPc' \in RunPcs /\ shutPc' \in {"up", "cleaning", "down"}
        /\ running' \in BOOLEAN /\ event' \in BOOLEAN /\ woken' \in BOOLEAN
  BY DEF TypeOK, Shutdown, ShutdownCleaned, CancelRun, RunPcs
<1>4. TypeOK /\ (Shutdown \/ ShutdownCleaned) => races' \in SUBSET {"radio", "swallowed"}
  BY DEF TypeOK, Shutdown, ShutdownCleaned, CancelRun, CancelHost, Swallowed
<1> QED BY <1>1, <1>2, <1>3, <1>4 DEF TypeOK, shutFrame, flags

LEMMA TypeStep == TypeOK /\ [Next]_vars => TypeOK'
<1>1. TypeOK /\ AnswerAlreadyStopped => TypeOK'
  BY DEF AnswerAlreadyStopped, TypeOK, askFrame, loopVars, flags
<1>2. TypeOK /\ UNCHANGED vars => TypeOK'
  BY DEF vars, TypeOK
<1> QED
  BY <1>1, <1>2, RunTypeOK, HostTypeOK, AskTypeOK, OpTypeOK, ShutTypeOK DEF Next

\* No step of the daemon takes a variable out of its type.
THEOREM TypeCorrect == Spec => []TypeOK
  BY InitTypeOK, TypeStep, PTL DEF Spec

-----------------------------------------------------------------------------
(* The lock, the progress flags and the resume event                        *)

SuspendingOps == {"scan", "pair", "connect", "stop", "systemSuspend"}

\* _op_lock is held by t exactly while t is past an await inside it.
LockOK == \A t \in Tasks : task[t].pc \in InLock <=> lock = t

\* Which operations get where; inside suspend() and after it the daemon is
\* suspended, since only the lock's holder may resume it.
OpsOK == \A t \in Tasks :
  /\ task[t].pc = "asked" => task[t].op = "pair"
  /\ task[t].pc \in {"joining", "cleaning"} => task[t].op \in SuspendingOps
  /\ task[t].pc \in {"opening", "radio"} => task[t].op \in {"scan", "pair"}
  /\ task[t].pc = "hangup" => task[t].op \in {"disconnect", "remove"}
  /\ task[t].pc \in InLock \ {"hangup"} => suspended

\* run()'s first step comes before the first of any request's operation.
TopOK ==
  runPc = "top" => /\ ~suspended /\ waiters = <<>>
                   /\ \A t \in Tasks : task[t].pc \in {"idle", "asked", "fresh"}

\* What TypeOK and the three invariants of the runs need to be inductive.
IInv == TypeOK /\ LockOK /\ OpsOK /\ TopOK
        /\ FlagsEnd /\ SuspendedIsUnset /\ NoLostWakeup

LEMMA InitIInv == Init => IInv
<1>1. Init => \A t \in Tasks : task[t].pc = "idle"
  BY DEF Init
<1>2. Init => LockOK /\ OpsOK
  BY <1>1 DEF Init, LockOK, OpsOK, InLock
<1>3. Init => TopOK /\ FlagsEnd /\ SuspendedIsUnset /\ NoLostWakeup
  BY <1>1 DEF Init, TopOK, FlagsEnd, SuspendedIsUnset, NoLostWakeup
<1> QED BY <1>2, <1>3, InitTypeOK DEF IInv

\* Reading the operations after a move.
LEMMA TaskUpdate ==
  ASSUME TypeOK, NEW t \in Tasks
  PROVE  /\ \A u \in Tasks, pc \in TaskPcs :
              /\ Moved(t, pc)[u].pc = IF u = t THEN pc ELSE task[u].pc
              /\ Moved(t, pc)[u].op = task[u].op
         /\ \A u \in Tasks :
              /\ Idle(t)[u].pc = IF u = t THEN "idle" ELSE task[u].pc
              /\ u # t => Idle(t)[u].op = task[u].op
         /\ \A u \in Tasks, pc \in TaskPcs, op \in Ops, d \in Devices :
              /\ Asked(t, op, d, pc)[u].pc = IF u = t THEN pc ELSE task[u].pc
              /\ Asked(t, op, d, pc)[u].op = IF u = t THEN op ELSE task[u].op
<1>0. task \in TaskStates
  BY DEF TypeOK
<1>1. \A u \in Tasks, pc \in TaskPcs :
        /\ Moved(t, pc)[u].pc = IF u = t THEN pc ELSE task[u].pc
        /\ Moved(t, pc)[u].op = task[u].op
  BY <1>0 DEF TaskStates, Moved
<1>2. \A u \in Tasks :
        /\ Idle(t)[u].pc = IF u = t THEN "idle" ELSE task[u].pc
        /\ u # t => Idle(t)[u].op = task[u].op
  BY <1>0 DEF TaskStates, Idle
<1>3. \A u \in Tasks, pc \in TaskPcs, op \in Ops, d \in Devices :
        /\ Asked(t, op, d, pc)[u].pc = IF u = t THEN pc ELSE task[u].pc
        /\ Asked(t, op, d, pc)[u].op = IF u = t THEN op ELSE task[u].op
  BY <1>0 DEF TaskStates, Asked
<1> QED BY <1>1, <1>2, <1>3

\* Every step of an operation queues it, moves it on inside the lock, or ends it.
LEMMA OpMoves ==
  ASSUME NEW t \in Tasks
  PROVE  TypeOK /\ LockOK /\ OpsOK /\ OpNext(t) =>
           \/ task[t].pc = "fresh" /\ UNCHANGED <<lock, suspended>> /\ task' = Moved(t, "queued")
           \/ /\ lock \in {NoTask, t} /\ lock' = t /\ suspended'
              /\ \/ task' = Moved(t, "joining") /\ task[t].op \in SuspendingOps
                 \/ task' = Moved(t, "cleaning") /\ task[t].op \in SuspendingOps
                 \/ task' = Moved(t, "opening") /\ task[t].op \in {"scan", "pair"}
                 \/ task' = Moved(t, "radio") /\ task[t].op \in {"scan", "pair"}
           \/ /\ lock = NoTask /\ lock' = t /\ task' = Moved(t, "hangup")
               /\ task[t].op \in {"disconnect", "remove"}
           \/ lock \in {NoTask, t} /\ lock' = NoTask /\ task' = Idle(t)
<1> DEFINE Goal ==
      \/ task[t].pc = "fresh" /\ UNCHANGED <<lock, suspended>> /\ task' = Moved(t, "queued")
      \/ /\ lock \in {NoTask, t} /\ lock' = t /\ suspended'
         /\ \/ task' = Moved(t, "joining") /\ task[t].op \in SuspendingOps
            \/ task' = Moved(t, "cleaning") /\ task[t].op \in SuspendingOps
            \/ task' = Moved(t, "opening") /\ task[t].op \in {"scan", "pair"}
            \/ task' = Moved(t, "radio") /\ task[t].op \in {"scan", "pair"}
      \/ /\ lock = NoTask /\ lock' = t /\ task' = Moved(t, "hangup")
               /\ task[t].op \in {"disconnect", "remove"}
      \/ lock \in {NoTask, t} /\ lock' = NoTask /\ task' = Idle(t)
<1>1. (DoScan(t) \/ DoPairOrConnect(t) \/ DoStop(t) \/ DoSystemSuspend(t)) =>
        lock = NoTask /\ task[t].op \in SuspendingOps /\ Suspend(t)
  BY DEF DoScan, DoPairOrConnect, DoStop, DoSystemSuspend, CanTake, SuspendingOps
<1>2. LockOK /\ OpsOK /\ (Joined(t) \/ Cleaned(t) \/ Opened(t) \/ RadioOpEnds(t)
                          \/ PairSucceeds(t) \/ HungUp(t)) => lock = t
  BY DEF LockOK, InLock, Joined, Cleaned, Opened, RadioOpEnds, PairSucceeds, HungUp
<1>3. lock = NoTask /\ task[t].op \in SuspendingOps /\ Suspend(t) => Goal
  BY DEF Suspend, SuspendWith, TearDown, AfterSuspend, Hold, Release
<1>4. OpsOK /\ lock = t /\ Joined(t) => Goal
  BY DEF OpsOK, Joined, TearDown, AfterSuspend, Hold, Release
<1>5. OpsOK /\ lock = t /\ Cleaned(t) => Goal
  BY DEF OpsOK, Cleaned, AfterSuspend, Hold, Release
<1>6. OpsOK /\ lock = t /\ Opened(t) => Goal
  BY DEF OpsOK, Opened, Hold, InLock
<1>7. lock = t /\ (RadioOpEnds(t) \/ PairSucceeds(t) \/ HungUp(t)) => Goal
  BY DEF RadioOpEnds, PairSucceeds, HungUp, EndRadioOp, Release
<1>8. DoResume(t) \/ DoSystemResume(t) \/ SkipSystemSuspend(t) \/ DoDisconnect(t) => Goal
  BY DEF DoResume, DoSystemResume, SkipSystemSuspend, DoDisconnect, Hold, Release, CanTake
<1>9. Enqueue(t) => Goal
  BY DEF Enqueue
<1> QED BY <1>1, <1>2, <1>3, <1>4, <1>5, <1>6, <1>7, <1>8, <1>9 DEF OpNext

LEMMA OpLockOK ==
  ASSUME NEW t \in Tasks
  PROVE  TypeOK /\ LockOK /\ OpsOK /\ OpNext(t) => LockOK'
<1>1. TypeOK /\ LockOK /\ OpsOK /\ OpNext(t) =>
        \/ task[t].pc = "fresh" /\ UNCHANGED <<lock, suspended>> /\ task' = Moved(t, "queued")
        \/ \E pc \in InLock : lock \in {NoTask, t} /\ lock' = t /\ task' = Moved(t, pc)
        \/ lock \in {NoTask, t} /\ lock' = NoTask /\ task' = Idle(t)
  BY OpMoves DEF InLock
<1>2. InLock \subseteq TaskPcs /\ "queued" \in TaskPcs /\ {"queued", "idle", "fresh"} \cap InLock = {}
  BY DEF InLock, TaskPcs
<1>3. TypeOK /\ LockOK /\ task[t].pc = "fresh" /\ lock' = lock /\ task' = Moved(t, "queued") => LockOK'
  BY <1>2, TaskUpdate DEF LockOK
<1>4. ASSUME NEW pc \in InLock
      PROVE  TypeOK /\ LockOK /\ lock \in {NoTask, t} /\ lock' = t /\ task' = Moved(t, pc) => LockOK'
  BY <1>2, TaskUpdate DEF LockOK
<1>5. TypeOK /\ LockOK /\ lock \in {NoTask, t} /\ lock' = NoTask /\ task' = Idle(t) => LockOK'
  BY <1>2, TaskUpdate DEF LockOK
<1> QED BY <1>1, <1>3, <1>4, <1>5

LEMMA OpOpsOK ==
  ASSUME NEW t \in Tasks
  PROVE  TypeOK /\ LockOK /\ OpsOK /\ OpNext(t) => OpsOK'
<1> DEFINE Fine(u) ==
      /\ task[u].pc = "asked" => task[u].op = "pair"
      /\ task[u].pc \in {"joining", "cleaning"} => task[u].op \in SuspendingOps
      /\ task[u].pc \in {"opening", "radio"} => task[u].op \in {"scan", "pair"}
      /\ task[u].pc = "hangup" => task[u].op \in {"disconnect", "remove"}
      /\ task[u].pc \in InLock \ {"hangup"} => suspended
<1>1. {"queued", "idle", "joining", "cleaning", "opening", "radio", "hangup"} \subseteq TaskPcs
  BY DEF TaskPcs
<1>2. TypeOK /\ LockOK /\ OpsOK /\ OpNext(t) => Fine(t)'
  BY <1>1, OpMoves, TaskUpdate DEF InLock
<1>3. ASSUME NEW u \in Tasks, u # t
      PROVE  TypeOK /\ LockOK /\ OpsOK /\ OpNext(t) => Fine(u)'
  <2>1. TypeOK /\ LockOK /\ OpsOK /\ OpNext(t) =>
          task'[u].pc = task[u].pc /\ task'[u].op = task[u].op
    BY <1>1, <1>3, OpMoves, TaskUpdate
  <2>2. TypeOK /\ LockOK /\ OpsOK /\ OpNext(t) =>
          UNCHANGED suspended \/ task[u].pc \notin InLock
    BY <1>3, OpMoves, NoTaskAssumption DEF LockOK
  <2> QED BY <2>1, <2>2 DEF OpsOK
<1> QED BY <1>2, <1>3 DEF OpsOK

\* A request touches neither the lock nor the flags of an operation in flight.
LEMMA AskInv ==
  ASSUME NEW t \in Tasks
  PROVE  IInv /\ AskNext(t) => LockOK' /\ OpsOK' /\ TopOK' /\ FlagsEnd'
                               /\ SuspendedIsUnset' /\ NoLostWakeup'
<1>1. AskNext(t) => /\ task[t].pc \in {"idle", "asked"} /\ UNCHANGED waiters
                    /\ UNCHANGED <<lock, suspended, event, woken, running, runPc, isScanning>>
                    /\ devices' \subseteq devices
  BY DEF AskNext, AskScan, AskPair, SubmitPair, AskConnect, AskStart, AskStop,
         AskDisconnect, AskRemove, PowerEvent, Ask, askFrame, loopVars, flags
<1>2. TypeOK /\ AskNext(t) =>
        \/ task[t].pc = "asked" /\ task' = Moved(t, "fresh") /\ isPairing'
        \/ /\ task[t].pc = "idle" /\ UNCHANGED isPairing
           /\ \E op \in Ops, d \in Devices :
                \/ op = "pair" /\ task' = Asked(t, op, d, "asked")
                \/ task' = Asked(t, op, d, "fresh")
  <2>1. TypeOK /\ AskRemove(t) => \E d \in Devices : task' = Asked(t, "remove", d, "fresh")
                                    /\ task[t].pc = "idle" /\ "remove" \in Ops
    BY DEF TypeOK, AskRemove, Ask
  <2>2. AskRemove(t) \/ AskDisconnect(t) \/ PowerEvent(t) => UNCHANGED isPairing
    BY DEF AskRemove, AskDisconnect, PowerEvent, flags
  <2>3. AskScan(t) \/ AskPair(t) \/ AskConnect(t) \/ AskStart(t) \/ AskStop(t) => UNCHANGED isPairing
    BY DEF AskScan, AskPair, AskConnect, AskStart, AskStop, flags
  <2>4. SubmitPair(t) => task[t].pc = "asked" /\ task' = Moved(t, "fresh") /\ isPairing'
    BY DEF SubmitPair
  <2>5. AskPair(t) => \E d \in Devices : task' = Asked(t, "pair", d, "asked")
                        /\ task[t].pc = "idle" /\ "pair" \in Ops
    BY DEF AskPair, Ask
  <2>6. AskScan(t) \/ AskConnect(t) \/ AskStart(t) \/ AskStop(t) \/ AskDisconnect(t) \/ PowerEvent(t) =>
          task[t].pc = "idle" /\ \E op \in Ops, d \in Devices : task' = Asked(t, op, d, "fresh")
    BY DEF AskScan, AskConnect, AskStart, AskStop, AskDisconnect, PowerEvent, Ask
  <2> QED BY <2>1, <2>2, <2>3, <2>4, <2>5, <2>6 DEF AskNext
<1>3. {"asked", "fresh"} \subseteq TaskPcs /\ {"asked", "fresh", "idle"} \cap InLock = {}
  BY DEF TaskPcs, InLock
<1>4. TypeOK /\ AskNext(t) =>
        /\ \A u \in Tasks : u # t => task'[u].pc = task[u].pc /\ task'[u].op = task[u].op
        /\ task'[t].pc \in {"asked", "fresh"}
        /\ task'[t].pc = "asked" => task'[t].op = "pair"
        /\ task[t].pc = "asked" => task'[t].op = task[t].op /\ task'[t].pc = "fresh"
        /\ UNCHANGED isPairing \/ task[t].pc = "asked"
        /\ task[t].pc = "idle" => UNCHANGED isPairing
  BY <1>2, <1>3, TaskUpdate
<1>5. IInv /\ AskNext(t) => LockOK'
  BY <1>1, <1>3, <1>4 DEF IInv, LockOK
<1>6. IInv /\ AskNext(t) => OpsOK'
  <2>1. InLock = {"joining", "cleaning", "opening", "radio", "hangup"}
    BY DEF InLock
  <2> QED BY <1>1, <1>4, <2>1 DEF IInv, OpsOK
<1>7. IInv /\ AskNext(t) => TopOK' /\ SuspendedIsUnset' /\ NoLostWakeup'
  BY <1>1, <1>4 DEF IInv, TopOK, SuspendedIsUnset, NoLostWakeup
<1>8. IInv /\ AskNext(t) => FlagsEnd'
  <2>1. IInv /\ AskNext(t) => (isScanning => \E u \in Tasks : lock = u /\ task[u].op = "scan")'
    BY <1>1, <1>3, <1>4 DEF IInv, FlagsEnd, LockOK
  <2>2. IInv /\ AskNext(t) =>
          (isPairing => \E u \in Tasks : task[u].op = "pair" /\ task[u].pc \notin {"idle", "asked"})'
    BY <1>1, <1>4 DEF IInv, FlagsEnd, OpsOK
  <2> QED BY <2>1, <2>2 DEF FlagsEnd
<1> QED BY <1>5, <1>6, <1>7, <1>8

\* run(), host.run() and the shutdown leave the operations and their flags alone.
LEMMA LoopInv ==
  IInv /\ (RunNext \/ HostNext \/ Shutdown \/ ShutdownCleaned \/ AnswerAlreadyStopped
           \/ UNCHANGED vars)
  => LockOK' /\ OpsOK' /\ TopOK' /\ FlagsEnd'
<1> DEFINE Step == RunNext \/ HostNext \/ Shutdown \/ ShutdownCleaned
                   \/ AnswerAlreadyStopped \/ UNCHANGED vars
<1>1. RunNext => UNCHANGED <<lock, waiters, task, suspended, flags>>
  BY DEF RunNext, RunStart, RunResumed, RunDevicesChanged, RunDelayOver, RunHostEnded,
     RunCleaned, RunWriteFails, runFrame
<1>2. HostNext => UNCHANGED <<lock, waiters, task, suspended, flags, runPc>>
  BY DEF HostNext, hostFrame
<1>3. Shutdown \/ ShutdownCleaned => UNCHANGED <<lock, waiters, task, suspended, flags>>
  BY DEF Shutdown, ShutdownCleaned, shutFrame
<1>4. Shutdown \/ ShutdownCleaned => runPc' # "top" \/ UNCHANGED runPc
  BY DEF Shutdown, ShutdownCleaned, CancelRun
<1>5. AnswerAlreadyStopped \/ UNCHANGED vars => UNCHANGED <<lock, waiters, task, suspended, flags, runPc>>
  BY DEF AnswerAlreadyStopped, askFrame, loopVars, vars, flags
<1>6. RunNext => runPc' # "top"
  <2>1. RunStart \/ RunResumed \/ RunDevicesChanged \/ RunDelayOver => runPc' # "top"
    BY DEF RunStart, RunResumed, RunDevicesChanged, RunDelayOver, LoopTop, PassGate,
       GoTo, StartHost
  <2>2. RunHostEnded \/ RunCleaned \/ RunWriteFails => runPc' # "top"
    BY DEF RunHostEnded, RunCleaned, RunWriteFails, ActOn, AfterHost, LoopTop,
       PassGate, GoTo, StartHost
  <2> QED BY <2>1, <2>2 DEF RunNext
<1>7. Step => UNCHANGED <<lock, waiters, task, suspended, isScanning, isPairing>>
              /\ (runPc' # "top" \/ UNCHANGED runPc)
  BY <1>1, <1>2, <1>3, <1>4, <1>5, <1>6 DEF flags
<1>8. IInv /\ Step => LockOK' /\ OpsOK'
  BY <1>7 DEF IInv, LockOK, OpsOK
<1>9. IInv /\ Step => TopOK' /\ FlagsEnd'
  BY <1>7 DEF IInv, TopOK, FlagsEnd
<1> QED BY <1>8, <1>9

\* The loop clears _resume_event or leaves it, and waits only where it should.
LEMMA LoopWakeup ==
  IInv /\ (RunNext \/ HostNext \/ Shutdown \/ ShutdownCleaned \/ AnswerAlreadyStopped
           \/ UNCHANGED vars)
  => SuspendedIsUnset' /\ NoLostWakeup'
<1>1. RunStart \/ RunResumed \/ RunDevicesChanged \/ RunDelayOver =>
        /\ UNCHANGED suspended /\ event' \in {event, FALSE}
        /\ runPc' = "waitResume" => suspended
        /\ runPc' = "waitDevices" => devices' = {}
  BY DEF RunStart, RunResumed, RunDevicesChanged, RunDelayOver, LoopTop, PassGate,
     GoTo, StartHost, runFrame
<1>2. RunHostEnded \/ RunCleaned \/ RunWriteFails =>
        /\ UNCHANGED suspended /\ event' \in {event, FALSE}
        /\ runPc' = "waitResume" => suspended
        /\ runPc' = "waitDevices" => devices' = {}
  BY DEF RunHostEnded, RunCleaned, RunWriteFails, ActOn, AfterHost, LoopTop, PassGate,
     GoTo, StartHost, runFrame
<1>3. RunNext => UNCHANGED running \/ RunStart
  BY DEF RunNext, RunResumed, RunDevicesChanged, RunDelayOver, RunHostEnded,
     RunCleaned, RunWriteFails
<1>4. IInv /\ RunNext => SuspendedIsUnset' /\ NoLostWakeup'
  BY <1>1, <1>2, <1>3 DEF RunNext, RunStart, IInv, TypeOK, TopOK, SuspendedIsUnset, NoLostWakeup
<1>5. HostNext \/ AnswerAlreadyStopped \/ UNCHANGED vars =>
        UNCHANGED <<running, suspended, event, woken, runPc, devices>>
  BY DEF HostNext, hostFrame, AnswerAlreadyStopped, askFrame, loopVars, vars
<1>6. IInv /\ (HostNext \/ AnswerAlreadyStopped \/ UNCHANGED vars) =>
        SuspendedIsUnset' /\ NoLostWakeup'
  BY <1>5 DEF IInv, SuspendedIsUnset, NoLostWakeup
<1>7. Shutdown => running' = FALSE
  BY DEF Shutdown
<1>8. ShutdownCleaned => /\ UNCHANGED <<running, event, suspended>>
                         /\ runPc' \in {"done", "host", "cleanup"}
  BY DEF ShutdownCleaned, CancelRun, shutFrame
<1>9. IInv /\ (Shutdown \/ ShutdownCleaned) => SuspendedIsUnset' /\ NoLostWakeup'
  BY <1>7, <1>8 DEF IInv, SuspendedIsUnset, NoLostWakeup
<1> QED BY <1>4, <1>6, <1>9

\* An operation that adds a device or ends a suspension wakes the loop.
LEMMA OpWakeup ==
  ASSUME NEW t \in Tasks
  PROVE  IInv /\ OpNext(t) => TopOK' /\ SuspendedIsUnset' /\ NoLostWakeup'
<1>0. IInv /\ runPc = "top" => /\ lock = NoTask /\ waiters = <<>>
                               /\ task[t].pc \in {"idle", "asked", "fresh"}
  BY DEF IInv, TypeOK, LockOK, TopOK, InLock
<1>1. IInv /\ OpNext(t) => UNCHANGED <<running, runPc>> /\ runPc # "top"
  <2>1. OpNext(t) => UNCHANGED <<running, runPc>>
    BY DEF OpNext, Enqueue, DoScan, DoPairOrConnect, DoStop, DoSystemSuspend, Joined,
       Cleaned, Opened, RadioOpEnds, PairSucceeds, DoResume, DoSystemResume,
       SkipSystemSuspend, DoDisconnect, HungUp, opFrame, loopVars
  <2>2. OpNext(t) => \/ task[t].pc \in InLock \/ MustQueue \/ CanTake(t)
    BY DEF OpNext, Enqueue, DoScan, DoPairOrConnect, DoStop, DoSystemSuspend, Joined,
       Cleaned, Opened, RadioOpEnds, PairSucceeds, DoResume, DoSystemResume,
       SkipSystemSuspend, DoDisconnect, HungUp, InLock
  <2> QED BY <1>0, <2>1, <2>2 DEF MustQueue, CanTake, InLock
<1> DEFINE Effect ==
      \/ ~suspended' /\ woken' = (woken \/ runPc \in Waits)
      \/ /\ UNCHANGED <<woken, devices>>
         /\ \/ suspended' /\ ~event'
            \/ UNCHANGED <<suspended, event>>
<1>2. Suspend(t) => Effect
  BY DEF Suspend, SuspendWith, TearDown, AfterSuspend, Resume
<1>3. DoScan(t) \/ DoPairOrConnect(t) \/ DoStop(t) \/ DoSystemSuspend(t) => Effect
  BY <1>2 DEF DoScan, DoPairOrConnect, DoStop, DoSystemSuspend
<1>4. IInv /\ (Joined(t) \/ Cleaned(t)) => suspended
  BY DEF IInv, OpsOK, InLock, Joined, Cleaned
<1>5. TypeOK /\ suspended /\ Joined(t) => Effect
  BY DEF TypeOK, Joined, TearDown, AfterSuspend, Resume
<1>6. TypeOK /\ suspended /\ Cleaned(t) => Effect
  BY DEF TypeOK, Cleaned, AfterSuspend, Resume
<1>7. RadioOpEnds(t) \/ PairSucceeds(t) \/ Opened(t) \/ Enqueue(t) => Effect
  BY DEF RadioOpEnds, PairSucceeds, Opened, Enqueue, EndRadioOp, Resume
<1>8. DoResume(t) \/ DoSystemResume(t) \/ SkipSystemSuspend(t) \/ DoDisconnect(t) \/ HungUp(t) => Effect
  BY DEF DoResume, DoSystemResume, SkipSystemSuspend, DoDisconnect, HungUp, Resume
<1>9. IInv /\ OpNext(t) => Effect
  BY <1>3, <1>4, <1>5, <1>6, <1>7, <1>8 DEF OpNext, IInv
<1>10. IInv /\ OpNext(t) => TopOK'
  BY <1>1 DEF IInv, TopOK
<1>11. IInv /\ Effect /\ UNCHANGED <<running, runPc>> => SuspendedIsUnset' /\ NoLostWakeup'
  <2>1. ~suspended' /\ woken' = (woken \/ runPc \in Waits) /\ UNCHANGED <<running, runPc>> =>
          SuspendedIsUnset' /\ NoLostWakeup'
    BY DEF SuspendedIsUnset, NoLostWakeup, Waits
  <2>2. IInv /\ UNCHANGED <<running, runPc, woken, devices>> /\ suspended' /\ ~event' =>
          SuspendedIsUnset' /\ NoLostWakeup'
    BY DEF IInv, SuspendedIsUnset, NoLostWakeup
  <2>3. IInv /\ UNCHANGED <<running, runPc, woken, devices, suspended, event>> =>
          SuspendedIsUnset' /\ NoLostWakeup'
    BY DEF IInv, SuspendedIsUnset, NoLostWakeup
  <2> QED BY <2>1, <2>2, <2>3
<1> QED BY <1>1, <1>9, <1>10, <1>11

\* A progress flag falls with the operation that raised it.
LEMMA OpFlags ==
  ASSUME NEW t \in Tasks
  PROVE  IInv /\ OpNext(t) => FlagsEnd'
<1>1. InLock \cup {"queued"} \subseteq TaskPcs \ {"idle", "asked"}
      /\ {"joining", "cleaning", "opening", "radio", "hangup"} \subseteq InLock
  BY DEF TaskPcs, InLock
<1>2. OpNext(t) /\ ~DoScan(t) => (isScanning' => isScanning)
  <2>1. (Enqueue(t) \/ DoPairOrConnect(t) \/ DoStop(t) \/ DoSystemSuspend(t)
         \/ Joined(t) \/ Cleaned(t) \/ Opened(t)) => UNCHANGED isScanning
    BY DEF Enqueue, DoPairOrConnect, DoStop, DoSystemSuspend, Joined, Cleaned, Opened, flags
  <2>2. (DoResume(t) \/ DoSystemResume(t) \/ SkipSystemSuspend(t)
         \/ DoDisconnect(t) \/ HungUp(t)) => UNCHANGED isScanning
    BY DEF DoResume, DoSystemResume, SkipSystemSuspend, DoDisconnect, HungUp, flags
  <2>3. RadioOpEnds(t) \/ PairSucceeds(t) => (isScanning' => isScanning)
    BY DEF RadioOpEnds, PairSucceeds, EndRadioOp
  <2> QED BY <2>1, <2>2, <2>3 DEF OpNext
<1>3. OpNext(t) => (isPairing' => isPairing)
  <2>1. (Enqueue(t) \/ DoScan(t) \/ DoPairOrConnect(t) \/ DoStop(t) \/ DoSystemSuspend(t)
         \/ Joined(t) \/ Cleaned(t) \/ Opened(t)) => UNCHANGED isPairing
    BY DEF Enqueue, DoScan, DoPairOrConnect, DoStop, DoSystemSuspend, Joined, Cleaned,
       Opened, flags
  <2>2. (DoResume(t) \/ DoSystemResume(t) \/ SkipSystemSuspend(t)
         \/ DoDisconnect(t) \/ HungUp(t)) => UNCHANGED isPairing
    BY DEF DoResume, DoSystemResume, SkipSystemSuspend, DoDisconnect, HungUp, flags
  <2>3. RadioOpEnds(t) \/ PairSucceeds(t) => (isPairing' => isPairing)
    BY DEF RadioOpEnds, PairSucceeds, EndRadioOp
  <2> QED BY <2>1, <2>2, <2>3 DEF OpNext
<1>4. IInv /\ OpNext(t) /\ task[t].op \in {"scan", "pair"} =>
        \/ \E pc \in InLock \cup {"queued"} : task' = Moved(t, pc)
        \/ isScanning' = (isScanning /\ task[t].op # "scan")
           /\ isPairing' = (isPairing /\ task[t].op # "pair")
  <2>1. (DoScan(t) \/ DoPairOrConnect(t)) /\ task[t].op \in {"scan", "pair"} =>
          \E pc \in InLock : task' = Moved(t, pc)
    BY <1>1 DEF DoScan, DoPairOrConnect, Suspend, SuspendWith, TearDown, AfterSuspend, Hold
  <2>2. (Joined(t) \/ Cleaned(t) \/ Opened(t)) /\ task[t].op \in {"scan", "pair"} =>
          \E pc \in InLock : task' = Moved(t, pc)
    BY <1>1 DEF Joined, Cleaned, Opened, TearDown, AfterSuspend, Hold
  <2>3. Enqueue(t) => task' = Moved(t, "queued")
    BY DEF Enqueue
  <2>4. RadioOpEnds(t) \/ PairSucceeds(t) =>
          isScanning' = (isScanning /\ task[t].op # "scan")
          /\ isPairing' = (isPairing /\ task[t].op # "pair")
    BY DEF RadioOpEnds, PairSucceeds, EndRadioOp
  <2>5. DoStop(t) \/ DoSystemSuspend(t) \/ DoResume(t) \/ DoSystemResume(t)
        \/ SkipSystemSuspend(t) \/ DoDisconnect(t) => task[t].op \notin {"scan", "pair"}
    BY DEF DoStop, DoSystemSuspend, DoResume, DoSystemResume, SkipSystemSuspend, DoDisconnect
  <2>6. IInv /\ HungUp(t) => task[t].op \notin {"scan", "pair"}
    BY DEF IInv, OpsOK, HungUp
  <2> QED BY <2>1, <2>2, <2>3, <2>4, <2>5, <2>6 DEF OpNext
<1>5. IInv /\ OpNext(t) => \A u \in Tasks : u # t =>
        task'[u].pc = task[u].pc /\ task'[u].op = task[u].op
  BY <1>1, OpMoves, TaskUpdate DEF IInv
<1> DEFINE Pairing == \E u \in Tasks : task[u].op = "pair" /\ task[u].pc \notin {"idle", "asked"}
<1>6. IInv /\ OpNext(t) /\ isPairing' => Pairing'
  <2>1. IInv /\ OpNext(t) /\ isPairing' /\ task[t].op # "pair" => Pairing'
    BY <1>3, <1>5 DEF IInv, FlagsEnd
  <2>2. IInv /\ OpNext(t) /\ isPairing' /\ task[t].op = "pair" => Pairing'
    <3>1. IInv /\ OpNext(t) /\ isPairing' /\ task[t].op = "pair" =>
            \E pc \in InLock \cup {"queued"} : task' = Moved(t, pc)
      BY <1>4
    <3>2. ASSUME NEW pc \in InLock \cup {"queued"}
          PROVE  TypeOK /\ task' = Moved(t, pc) /\ task[t].op = "pair" =>
                   task'[t].op = "pair" /\ task'[t].pc \notin {"idle", "asked"}
      BY <1>1, TaskUpdate
    <3> QED BY <3>1, <3>2 DEF IInv
  <2> HIDE DEF Pairing
  <2> QED BY <2>1, <2>2
<1>7. IInv /\ OpNext(t) /\ isScanning' => \E u \in Tasks : lock' = u /\ task'[u].op = "scan"
  <2>1. IInv /\ DoScan(t) => lock' = t /\ task'[t].op = "scan"
    <3>1. DoScan(t) => lock' = t /\ task[t].op = "scan" /\ \E pc \in InLock : task' = Moved(t, pc)
      BY <1>1 DEF DoScan, Suspend, SuspendWith, TearDown, AfterSuspend, Hold
    <3> QED BY <3>1, <1>1, TaskUpdate DEF IInv
  <2>2. IInv /\ OpNext(t) /\ ~DoScan(t) /\ isScanning' /\ lock # t =>
          \E u \in Tasks : lock' = u /\ task'[u].op = "scan"
    BY <1>2, <1>5, OpMoves, NoTaskAssumption DEF IInv, FlagsEnd
  <2>3. IInv /\ OpNext(t) /\ ~DoScan(t) /\ isScanning' /\ lock = t =>
          lock' = t /\ task'[t].op = "scan"
    <3>1. IInv /\ OpNext(t) /\ ~DoScan(t) /\ isScanning' /\ lock = t =>
            task[t].op = "scan" /\ task[t].pc \in InLock
      BY <1>2 DEF IInv, FlagsEnd, LockOK
    <3>2. IInv /\ OpNext(t) /\ task[t].op = "scan" /\ isScanning' =>
            \E pc \in InLock \cup {"queued"} : task' = Moved(t, pc)
      BY <1>4
    <3>3. IInv /\ OpNext(t) /\ task[t].op = "scan" /\ isScanning' => task'[t].op = "scan" /\ task'[t].pc # "idle"
      BY <3>2, <1>1, TaskUpdate DEF IInv
    <3>4. IInv /\ OpNext(t) /\ lock = t /\ task[t].pc \in InLock /\ task'[t].pc # "idle" => lock' = t
      BY <1>1, OpMoves, TaskUpdate, NoTaskAssumption DEF IInv
    <3> QED BY <3>1, <3>3, <3>4
  <2> QED BY <2>1, <2>2, <2>3
<1> QED BY <1>6, <1>7 DEF FlagsEnd

\* The invariant is inductive.
THEOREM Inductive == Spec => []IInv
<1>1. IInv /\ [Next]_vars => TypeOK'
  BY TypeStep DEF IInv
<1>2. IInv /\ [Next]_vars => LockOK' /\ OpsOK' /\ TopOK' /\ FlagsEnd'
                             /\ SuspendedIsUnset' /\ NoLostWakeup'
  <2>1. ASSUME NEW t \in Tasks
        PROVE  IInv /\ (AskNext(t) \/ OpNext(t)) =>
                 LockOK' /\ OpsOK' /\ TopOK' /\ FlagsEnd' /\ SuspendedIsUnset' /\ NoLostWakeup'
    BY AskInv, OpLockOK, OpOpsOK, OpWakeup, OpFlags DEF IInv
  <2> QED BY <2>1, LoopInv, LoopWakeup DEF Next
<1>3. IInv /\ [Next]_vars => IInv'
  BY <1>1, <1>2 DEF IInv
<1> QED BY <1>3, InitIInv, PTL DEF Spec

\* A resumed daemon never sleeps on: every set(), clear() and wait() of
\* _resume_event, against every operation and a shutdown.
THEOREM WakeupNeverLost == Spec => []NoLostWakeup
<1>1. IInv => NoLostWakeup
  BY DEF IInv
<1> QED BY <1>1, Inductive, PTL

\* A running, suspended daemon has _resume_event clear, so its wait does wait.
THEOREM SuspendedWaits == Spec => []SuspendedIsUnset
<1>1. IInv => SuspendedIsUnset
  BY DEF IInv
<1> QED BY <1>1, Inductive, PTL

\* is_scanning and is_pairing are down whenever no operation answers for them.
THEOREM FlagsNeverStick == Spec => []FlagsEnd
<1>1. IInv => FlagsEnd
  BY DEF IInv
<1> QED BY <1>1, Inductive, PTL

-----------------------------------------------------------------------------
(* The radio                                                                 *)

Raced == "radio" \in races

\* Where the operation in _op_lock is, if there is one.
Stage == IF lock = NoTask THEN "none" ELSE task[lock].pc
InSuspend == {"joining", "cleaning"}
OnRadio   == {"opening", "radio"}

\* run() is at its host exactly while the host's task is not over for it; what
\* a signal leaves it to do.
LoopOK ==
  /\ host.phase = "none" <=> runPc # "host"
  /\ runPc = "top" => shutPc = "up"
  /\ shutPc # "up" => ~running
  /\ shutPc = "down" => runPc \notin Waits
  /\ shutPc = "cleaning" => host.phase \notin {"new", "starting", "open"}
  /\ host.phase \in {"new", "starting"} => ~host.open

\* One cleanup() at a time, of a host that is open until it is over.
AloneOK ==
  /\ runPc = "cleanup" => host.open /\ shutPc # "cleaning" /\ Stage # "cleaning"
  /\ shutPc = "cleaning" => host.open /\ Stage # "cleaning"
  /\ Stage = "cleaning" => host.open /\ ~Live(host)

\* A suspended daemon is off, but for the operation that suspended it.
OffOK ==
  suspended => /\ running => ~woken
               /\ ~paired
               /\ \/ Stage \in InSuspend \cup OnRadio
                  \/ ~powered /\ ~host.open /\ ~Live(host)

\* An open transport has one owner, who will close it or hand it on.
OwnedOK ==
  /\ ~orphan
  /\ host.open \/ Live(host) => host.obj /\ ~paired /\ Stage \notin OnRadio
  /\ host.open => runPc \in {"host", "cleanup"} \/ shutPc = "cleaning" \/ Stage \in InSuspend
  /\ paired => devices # {} /\ (runPc = "done" \/ (runPc \in Waits /\ woken))

RadioInv == LoopOK /\ (~Raced => AloneOK /\ OffOK /\ OwnedOK)

LEMMA HostFields ==
  ASSUME NEW h \in Hosts
  PROVE  /\ h.open \in BOOLEAN /\ h.obj \in BOOLEAN
         /\ h.phase \in LivePhases \cup {"none", "ended"}
         /\ \A p \in LivePhases \cup {"none", "ended"} :
              /\ At(h, p).phase = p /\ At(h, p).open = h.open /\ At(h, p).obj = h.obj
              /\ \A b \in BOOLEAN : /\ AtOpen(h, p, b).phase = p
                                    /\ AtOpen(h, p, b).open = b
                                    /\ AtOpen(h, p, b).obj = h.obj
         /\ \A r : Says(h, r).phase = h.phase /\ Says(h, r).open = h.open
                   /\ Says(h, r).obj = h.obj
         /\ Closed(h).phase = h.phase /\ ~Closed(h).open /\ Closed(h).obj = h.obj
         /\ Dropped(h).phase = h.phase /\ Dropped(h).open = h.open /\ ~Dropped(h).obj
         /\ \A b \in BOOLEAN : /\ NewHost(b).phase = IF b THEN "handoff" ELSE "new"
                               /\ NewHost(b).open = b /\ NewHost(b).obj
<1>1. h.open \in BOOLEAN /\ h.obj \in BOOLEAN /\ h.phase \in LivePhases \cup {"none", "ended"}
  BY DEF Hosts, HostRecords
<1>2. \A p \in LivePhases \cup {"none", "ended"} :
        /\ At(h, p).phase = p /\ At(h, p).open = h.open /\ At(h, p).obj = h.obj
        /\ \A b \in BOOLEAN : /\ AtOpen(h, p, b).phase = p
                              /\ AtOpen(h, p, b).open = b
                              /\ AtOpen(h, p, b).obj = h.obj
  BY DEF Hosts, HostRecords, At, AtOpen
<1>3. \A r : Says(h, r).phase = h.phase /\ Says(h, r).open = h.open
             /\ Says(h, r).obj = h.obj
  BY DEF Hosts, HostRecords, Says
<1>4. /\ Closed(h).phase = h.phase /\ ~Closed(h).open /\ Closed(h).obj = h.obj
      /\ Dropped(h).phase = h.phase /\ Dropped(h).open = h.open /\ ~Dropped(h).obj
  BY DEF Hosts, HostRecords, Closed, Dropped
<1>5. \A b \in BOOLEAN : /\ NewHost(b).phase = IF b THEN "handoff" ELSE "new"
                         /\ NewHost(b).open = b /\ NewHost(b).obj
  BY DEF NewHost
<1> QED BY <1>1, <1>2, <1>3, <1>4, <1>5

\* What cancelling the host's task leaves: a task that is over, one that drains
\* its handlers or one that goes on as it was, and no transport that was not there.
LEMMA CancelFields ==
  ASSUME NEW h \in Hosts, NEW c \in CancelledHosts(h)
  PROVE  /\ c = h \/ (Live(h) /\ c.phase \in {"ended", "drainLost"})
         /\ c.phase # "none" <=> h.phase # "none"
         /\ c.phase \in {"new", "starting", "open"} => c = h
         /\ c.open => h.open
         /\ h.phase # "open" => c.open = h.open
         /\ c.obj = h.obj
<1>1. \A p \in {"ended", "drainLost"} :
        /\ At(h, p).phase = p /\ At(h, p).open = h.open /\ At(h, p).obj = h.obj
        /\ AtOpen(h, p, FALSE).phase = p /\ ~AtOpen(h, p, FALSE).open
        /\ AtOpen(h, p, FALSE).obj = h.obj
  BY DEF Hosts, HostRecords, At, AtOpen
<1> QED BY <1>1 DEF CancelledHosts, Live, LivePhases

LEMMA StageFacts ==
  ASSUME IInv
  PROVE  /\ Stage \in InLock \cup {"none"}
         /\ \A t \in Tasks : task[t].pc \in InLock => lock = t /\ Stage = task[t].pc
         /\ Stage \in InLock => lock \in Tasks /\ task[lock].pc = Stage
         /\ CleaningTasks # {} <=> Stage = "cleaning"
         /\ Cleaning <=> runPc = "cleanup" \/ shutPc = "cleaning" \/ Stage = "cleaning"
         /\ Stage \in InSuspend \cup OnRadio => suspended
<1>1. lock \in Tasks \cup {NoTask} /\ LockOK /\ OpsOK
  BY DEF IInv, TypeOK
<1>2. Stage \in InLock \cup {"none"}
      /\ (Stage \in InLock => lock \in Tasks /\ task[lock].pc = Stage)
  BY <1>1 DEF Stage, LockOK, InLock
<1>3. \A t \in Tasks : task[t].pc \in InLock => lock = t /\ Stage = task[t].pc
  BY <1>1 DEF Stage, LockOK
<1>4. CleaningTasks # {} <=> Stage = "cleaning"
  BY <1>2, <1>3 DEF CleaningTasks, InLock
<1>5. Cleaning <=> runPc = "cleanup" \/ shutPc = "cleaning" \/ Stage = "cleaning"
  BY <1>4 DEF Cleaning, Cleaners
<1>6. Stage \in InSuspend \cup OnRadio => suspended
  BY <1>1, <1>2 DEF OpsOK, InLock, InSuspend, OnRadio
<1> QED BY <1>2, <1>3, <1>4, <1>5, <1>6

\* How the steps of the operations move it; no one else does.
LEMMA StageMoves ==
  ASSUME IInv, NEW t \in Tasks
  PROVE  /\ \A pc \in TaskPcs : Hold(t, pc) => Stage' = pc
         /\ Release(t) => Stage' = "none"
         /\ Enqueue(t) \/ AskNext(t) => Stage' = Stage
         /\ UNCHANGED <<lock, task>> => Stage' = Stage
<1>1. TypeOK /\ LockOK /\ lock \in Tasks \cup {NoTask}
  BY DEF IInv, TypeOK
<1>2. \A pc \in TaskPcs : Hold(t, pc) => Stage' = pc
  BY <1>1, TaskUpdate DEF Stage, Hold
<1>3. Release(t) => Stage' = "none"
  BY DEF Stage, Release
<1>4. Enqueue(t) => Stage' = Stage
  <2>1. Enqueue(t) => lock' = lock /\ lock # t /\ task' = Moved(t, "queued")
    BY <1>1 DEF Enqueue, LockOK, InLock
  <2> QED BY <2>1, <1>1, TaskUpdate DEF Stage, TaskPcs
<1>5. AskNext(t) => Stage' = Stage
  <2>1. AskNext(t) => lock' = lock /\ lock # t
    BY <1>1 DEF AskNext, AskScan, AskPair, SubmitPair, AskConnect, AskStart, AskStop,
       AskDisconnect, AskRemove, PowerEvent, Ask, askFrame, LockOK, InLock
  <2>2. AskNext(t) => \A u \in Tasks : u # t => task'[u] = task[u]
    BY <1>1 DEF AskNext, AskScan, AskPair, SubmitPair, AskConnect, AskStart, AskStop,
       AskDisconnect, AskRemove, PowerEvent, Ask, Asked, Moved, TypeOK, TaskStates
  <2> QED BY <2>1, <2>2, <1>1 DEF Stage
<1> QED BY <1>2, <1>3, <1>4, <1>5 DEF Stage

LEMMA InitRadio == Init => RadioInv
<1>1. Init => runPc = "top" /\ shutPc = "up" /\ ~woken /\ ~suspended /\ ~paired /\ ~orphan
              /\ Stage = "none" /\ host = NoHost
  BY DEF Init, Stage
<1> QED BY <1>1 DEF RadioInv, LoopOK, AloneOK, OffOK, OwnedOK, NoHost, Live, LivePhases,
        InSuspend, OnRadio

\* Where run() may go with h, the host that it leaves behind: it waits or is
\* done, or it starts a host.
Parks(h)  == /\ runPc' \in Waits \cup {"done"} /\ host' = h
             /\ woken' => ~suspended
             /\ runPc' \in Waits => running'
             /\ UNCHANGED <<paired, powered, orphan>>
Starts(h) == /\ runPc' = "host" /\ host' = NewHost(paired) /\ ~woken' /\ ~paired'
             /\ orphan' = (orphan \/ h.open)
             /\ running'

LEMMA LoopGoes ==
  ASSUME NEW go \in BOOLEAN, NEW devs, NEW ev \in BOOLEAN, NEW h,
         LoopTop(go, devs, ev, h), go => running', suspended => ~ev \/ ~go
  PROVE  /\ Parks(h) \/ (Starts(h) /\ ~suspended)
         /\ devs # {} /\ ~suspended => runPc' \in {"host", "done"}
BY DEF LoopTop, PassGate, GoTo, StartHost, Parks, Starts, Waits

LEMMA AfterHostGoes ==
  ASSUME IInv, NEW skip \in BOOLEAN, NEW devs, NEW h, AfterHost(skip, devs, h), UNCHANGED running
  PROVE  Parks(h) \/ (Starts(h) /\ ~suspended)
<1>1. event \in BOOLEAN /\ running \in BOOLEAN /\ (suspended /\ running => ~event)
  BY DEF IInv, TypeOK, SuspendedIsUnset
<1>2. CASE running /\ LoopTop(TRUE, devs, event, h)
  BY <1>1, <1>2, LoopGoes
<1>3. CASE GoTo("done", event, h) \/ (running /\ ~suspended /\ GoTo("delay", event, h))
  BY <1>3 DEF GoTo, Parks, Waits
<1> QED BY <1>2, <1>3 DEF AfterHost

\* The host run() leaves behind, outside of its wait for one.
Fits(h) ==
  /\ h.open => h.obj /\ ~paired /\ (shutPc = "cleaning" \/ Stage \in InSuspend)
  /\ shutPc = "cleaning" \/ Stage = "cleaning" => h.open

LEMMA RunLands ==
  ASSUME IInv, RadioInv, UNCHANGED runFrame, Raced => Raced',
         running' => running \/ runPc = "top",
         NEW h \in Hosts, h.phase = "none", ~Raced' => Fits(h),
         Parks(h) \/ (Starts(h) /\ (~Raced' => ~suspended)),
         ~Raced' /\ paired => devices' = devices /\ runPc' \in {"host", "done"}
  PROVE  RadioInv'
<1>1. /\ Stage' = Stage /\ UNCHANGED <<shutPc, suspended, lock, task>>
      /\ Stage \in InSuspend \cup OnRadio => suspended
  BY StageMoves, StageFacts DEF runFrame, Stage
<1>2. running' => shutPc = "up"
  BY DEF RadioInv, LoopOK
<1>3. CASE Parks(h)
  <2>1. LoopOK'
    BY <1>1, <1>2, <1>3 DEF Parks, LoopOK, RadioInv, Waits
  <2>2. ASSUME ~Raced' PROVE AloneOK' /\ OffOK' /\ OwnedOK'
    <3>1. AloneOK /\ Fits(h) /\ OffOK /\ OwnedOK /\ ~Live(h)
      BY <2>2 DEF RadioInv, Live, LivePhases
    <3>2. /\ runPc' \notin {"cleanup", "host"} /\ host' = h /\ ~Live(host')
          /\ woken' => ~suspended
          /\ UNCHANGED <<paired, powered, orphan>>
      BY <1>3, <3>1 DEF Parks, Waits
    <3>3. h.open => h.obj /\ ~paired /\ Stage \notin OnRadio
                   /\ (suspended => Stage \in InSuspend)
      BY <3>1 DEF Fits, AloneOK, OffOK, OwnedOK, InSuspend, OnRadio
    <3>4. AloneOK'
      BY <1>1, <3>1, <3>2 DEF AloneOK, Fits
    <3>5. OffOK'
      <4>1. suspended => Stage \in InSuspend \cup OnRadio \/ (~powered /\ ~h.open)
        BY <3>1, <3>3 DEF OffOK
      <4> QED BY <1>1, <3>1, <3>2, <4>1 DEF OffOK
    <3>6. OwnedOK'
      <4>1. paired => devices' # {} /\ runPc' = "done"
        BY <2>2, <3>1, <3>2 DEF OwnedOK
      <4>2. h.open => shutPc = "cleaning" \/ Stage \in InSuspend
        BY <3>1 DEF Fits
      <4> QED BY <1>1, <3>1, <3>2, <3>3, <4>1, <4>2 DEF OwnedOK
    <3> QED BY <3>4, <3>5, <3>6
  <2> QED BY <2>1, <2>2 DEF RadioInv
<1>4. CASE Starts(h) /\ (~Raced' => ~suspended)
  <2>0. /\ host'.phase \in {"new", "handoff"} /\ host'.obj /\ paired \in BOOLEAN
        /\ host'.phase = "new" => ~host'.open
        /\ running' /\ runPc' = "host" /\ ~paired' /\ orphan' = (orphan \/ h.open)
    BY <1>4, HostFields DEF Starts, IInv, TypeOK
  <2>1. LoopOK'
    BY <1>1, <1>2, <2>0 DEF LoopOK, Waits
  <2>2. ASSUME ~Raced' PROVE AloneOK' /\ OffOK' /\ OwnedOK'
    <3>1. ~suspended /\ Fits(h) /\ OwnedOK
      BY <1>4, <2>2 DEF RadioInv
    <3>2. shutPc = "up" /\ Stage \notin InSuspend \cup OnRadio /\ ~h.open
      BY <1>1, <1>2, <2>0, <3>1 DEF Fits
    <3>3. AloneOK' /\ OffOK'
      BY <1>1, <2>0, <3>1, <3>2 DEF AloneOK, OffOK, InSuspend
    <3>4. OwnedOK'
      BY <1>1, <2>0, <3>1, <3>2 DEF OwnedOK
    <3> QED BY <3>3, <3>4
  <2> QED BY <2>1, <2>2 DEF RadioInv
<1> QED BY <1>3, <1>4

\* run() starts hosts on a radio that is free, and parks with it free or in the
\* hands of whoever is cleaning up.
LEMMA RunRadio == IInv /\ RadioInv /\ RunNext => RadioInv'
<1> SUFFICES ASSUME IInv, RadioInv, RunNext PROVE RadioInv'
  OBVIOUS
<1>0. /\ host \in Hosts /\ event \in BOOLEAN /\ running \in BOOLEAN /\ devices \in SUBSET Devices
      /\ host.report \in SUBSET Reports /\ todo \in SUBSET Reports
      /\ running /\ suspended => ~event
  BY HostUpdateType DEF IInv, TypeOK, SuspendedIsUnset
<1>1. ASSUME runPc \in Waits \cup {"top"}, ~Raced
      PROVE  Fits(host) /\ (paired => woken /\ devices # {})
  BY <1>1 DEF RadioInv, AloneOK, OwnedOK, Fits, Waits
<1>2. runPc # "host" => host.phase = "none"
  BY DEF RadioInv, LoopOK
<1>3. CASE RunStart
  <2>1. /\ runPc = "top" /\ running' /\ UNCHANGED <<runFrame, devices, races>>
        /\ LoopTop(TRUE, devices, event, host)
    BY <1>3 DEF RunStart
  <2>2. ~suspended
    BY <2>1 DEF IInv, TopOK
  <2>3. /\ Parks(host) \/ Starts(host)
        /\ devices # {} => runPc' \in {"host", "done"}
    BY <1>0, <2>1, <2>2, LoopGoes
  <2> QED BY <1>0, <1>1, <1>2, <2>1, <2>2, <2>3, RunLands DEF Raced
<1>4. CASE RunResumed
  <2>1. /\ runPc = "waitResume" /\ woken /\ UNCHANGED <<runFrame, devices, races, running>>
        /\ Parks(host) \/ (running /\ Starts(host))
        /\ running /\ devices # {} => runPc' \in {"host", "done"}
        /\ ~running => runPc' = "done"
    BY <1>4 DEF RunResumed, PassGate, GoTo, StartHost, Parks, Starts, Waits
  <2>2. running /\ suspended => Raced
    BY <2>1 DEF RadioInv, OffOK
  <2> QED BY <1>0, <1>1, <1>2, <2>1, <2>2, RunLands DEF Raced, Waits
<1>5. CASE RunDevicesChanged
  <2>1. /\ runPc = "waitDevices" /\ UNCHANGED <<runFrame, devices, races, running>>
        /\ LoopTop(running, devices, FALSE, host)
    BY <1>5 DEF RunDevicesChanged
  <2>2. /\ Parks(host) \/ (Starts(host) /\ ~suspended)
        /\ devices # {} /\ ~suspended => runPc' \in {"host", "done"}
    BY <1>0, <2>1, LoopGoes
  <2>3. paired => ~suspended \/ Raced
    BY DEF RadioInv, OffOK
  <2> QED BY <1>0, <1>1, <1>2, <2>1, <2>2, <2>3, RunLands DEF Raced, Waits
<1>6. CASE RunDelayOver
  <2>1. /\ runPc = "delay" /\ UNCHANGED <<runFrame, devices, races, running>>
        /\ \E ev \in {FALSE, event} : LoopTop(running, devices, ev, host)
    BY <1>6 DEF RunDelayOver
  <2>2. /\ Parks(host) \/ (Starts(host) /\ ~suspended)
        /\ devices # {} /\ ~suspended => runPc' \in {"host", "done"}
    BY <1>0, <2>1, LoopGoes
  <2>3. paired => ~suspended \/ Raced
    BY DEF RadioInv, OffOK
  <2> QED BY <1>0, <1>1, <1>2, <2>1, <2>2, <2>3, RunLands DEF Raced, Waits
<1>7. CASE RunHostEnded
  <2> DEFINE g == At(host, "none")
  <2>1. /\ g \in Hosts /\ g.phase = "none" /\ g.open = host.open /\ g.obj = host.obj
        /\ Dropped(g) \in Hosts /\ Dropped(g).phase = "none" /\ Dropped(g).open = host.open
        /\ Says(g, {}) \in Hosts /\ Says(g, {}).phase = "none"
        /\ Says(g, {}).open = host.open /\ Says(g, {}).obj = host.obj
    <3>1. g \in Hosts /\ g.phase = "none" /\ g.open = host.open /\ g.obj = host.obj
      BY <1>0 DEF Hosts, HostRecords, At
    <3> HIDE DEF g
    <3>2. Dropped(g) \in Hosts /\ Says(g, {}) \in Hosts
      BY <3>1, HostUpdateType
    <3> QED BY <3>1, <3>2, HostFields
  <2>2. runPc = "host" /\ host.phase = "ended" /\ UNCHANGED <<runFrame, running>>
    BY <1>7 DEF RunHostEnded
  <2> HIDE DEF g
  <2>3. CASE /\ host.obj /\ ~suspended /\ host.open
             /\ GoTo("cleanup", event, Says(g, {}))
             /\ races' = (races \ {"swallowed"}) \cup (IF Cleaning THEN {"radio"} ELSE {})
             /\ UNCHANGED devices
    <3>1. /\ Stage' = Stage /\ UNCHANGED <<shutPc, suspended, lock, task, running, paired, orphan>>
          /\ runPc' = "cleanup" /\ host'.phase = "none" /\ host'.open /\ host'.obj
      BY <2>1, <2>2, <2>3, StageMoves DEF runFrame, GoTo, Stage
    <3>2. LoopOK'
      BY <2>2, <3>1 DEF RadioInv, LoopOK, Waits
    <3>3. ASSUME ~Raced' PROVE AloneOK' /\ OffOK' /\ OwnedOK'
      <4>1. ~Raced /\ ~Cleaning
        BY <2>3, <3>3 DEF Raced
      <4>2. AloneOK'
        BY <3>1, <4>1, StageFacts DEF AloneOK
      <4>3. OffOK'
        BY <2>3, <3>1 DEF OffOK
      <4>4. OwnedOK'
        BY <2>3, <3>1, <4>1 DEF RadioInv, OwnedOK
      <4> QED BY <4>2, <4>3, <4>4
    <3> QED BY <3>2, <3>3 DEF RadioInv
  <2>4. CASE /\ host.obj /\ ~suspended /\ ~host.open
             /\ ActOn(host.report, Dropped(g)) /\ races' = races \ {"swallowed"}
    <3>1. PICK devs \in AfterReports(host.report) :
             devices' = devs /\ AfterHost(host.report # {}, devs, Dropped(g))
      BY <2>4 DEF ActOn
    <3>2. Parks(Dropped(g)) \/ (Starts(Dropped(g)) /\ ~suspended)
      BY <2>2, <3>1, AfterHostGoes
    <3>3. ~Raced => Fits(Dropped(g)) /\ ~paired
      BY <2>1, <2>2, <2>4 DEF RadioInv, AloneOK, OwnedOK, Fits, Waits
    <3> QED BY <2>1, <2>2, <2>4, <3>2, <3>3, RunLands DEF Raced
  <2>5. CASE /\ ~host.obj \/ suspended
             /\ AfterHost(FALSE, devices, g) /\ UNCHANGED devices
             /\ races' = races \ {"swallowed"}
    <3>2. Parks(g) \/ (Starts(g) /\ ~suspended)
      BY <2>2, <2>5, AfterHostGoes
    <3>3. ~Raced => Fits(g) /\ ~paired
      BY <2>1, <2>2, <2>5 DEF RadioInv, AloneOK, OffOK, OwnedOK, Fits, Waits
    <3> QED BY <2>1, <2>2, <2>5, <3>2, <3>3, RunLands DEF Raced
  <2> QED BY <1>7, <2>3, <2>4, <2>5 DEF RunHostEnded, g
<1>8. CASE RunCleaned \/ RunWriteFails
  <2>1. PICK h \in AfterCleanup(host, CleaningTasks # {} \/ shutPc = "cleaning") :
           \/ ActOn(todo, Dropped(h)) /\ UNCHANGED <<runFrame, running, races>>
           \/ GoTo("done", event, Dropped(h)) /\ UNCHANGED <<runFrame, running, races>>
    BY <1>8 DEF RunCleaned, RunWriteFails
  <2>2. runPc = "cleanup" /\ host.phase = "none"
    BY <1>2, <1>8 DEF RunCleaned, RunWriteFails
  <2>3. h \in Hosts /\ h.phase = "none"
    <3>1. h = Closed(host) \/ h = host
      BY <2>1 DEF AfterCleanup
    <3>2. Closed(host) \in Hosts /\ Closed(host).phase = host.phase
      BY <1>0, HostUpdateType, HostFields
    <3> QED BY <1>0, <2>2, <3>1, <3>2
  <2>4. Dropped(h) \in Hosts /\ Dropped(h).phase = "none" /\ Dropped(h).open = h.open
    BY <2>3, HostUpdateType, HostFields
  <2>5. Parks(Dropped(h)) \/ (Starts(Dropped(h)) /\ ~suspended)
    BY <2>1, AfterHostGoes DEF ActOn, GoTo, Parks, Waits
  <2>6. ~Raced => Fits(Dropped(h)) /\ ~paired
    <3>1. ~Raced => ~(CleaningTasks # {} \/ shutPc = "cleaning")
      BY <2>2, StageFacts DEF RadioInv, AloneOK
    <3>2. ~Raced => ~h.open
      BY <1>0, <2>1, <3>1, HostFields DEF AfterCleanup
    <3> QED BY <2>2, <2>4, <3>2 DEF RadioInv, AloneOK, OwnedOK, Fits, Waits
  <2> QED BY <2>1, <2>3, <2>4, <2>5, <2>6, RunLands DEF Raced
<1> QED BY <1>3, <1>4, <1>5, <1>6, <1>7, <1>8 DEF RunNext

\* The host's task opens its transport once and ends with it closed or left to
\* run(); it leaves everything else alone, and the chip only ever goes off.
LEMMA HostMoves ==
  ASSUME host \in Hosts, LifeNext
  PROVE  /\ host' \in Hosts /\ host'.obj = host.obj
         /\ host.phase # "none" /\ host'.phase # "none"
         /\ host'.phase \in {"new", "starting", "open"} =>
              host.phase \in {"new", "starting", "open"}
         /\ host'.phase \in {"new", "starting"} => host'.open = host.open /\ host.phase = "new"
         /\ Live(host') => Live(host)
         /\ host'.open => host.open \/ Live(host)
         /\ host.phase \notin {"starting", "open"} => host'.open = host.open
         /\ powered' => powered
<1> DEFINE Goal == /\ host' \in Hosts /\ host'.obj = host.obj
                   /\ host.phase # "none" /\ host'.phase # "none"
                   /\ host'.phase \in {"new", "starting", "open"} =>
                        host.phase \in {"new", "starting", "open"}
                   /\ host'.phase \in {"new", "starting"} =>
                        host'.open = host.open /\ host.phase = "new"
                   /\ Live(host') => Live(host)
                   /\ host'.open => host.open \/ Live(host)
                   /\ host.phase \notin {"starting", "open"} => host'.open = host.open
                   /\ powered' => powered
<1>1. /\ \A p \in LivePhases \cup {"none", "ended"} :
           /\ p \notin {"new", "starting"} => At(host, p) \in Hosts
           /\ At(host, p).phase = p
           /\ At(host, p).open = host.open /\ At(host, p).obj = host.obj
           /\ \A b \in BOOLEAN :
                /\ p \notin {"new", "starting"} => AtOpen(host, p, b) \in Hosts
                /\ AtOpen(host, p, b).phase = p
                /\ AtOpen(host, p, b).open = b /\ AtOpen(host, p, b).obj = host.obj
      /\ \A r \in SUBSET Reports :
           /\ Says(host, r) \in Hosts /\ Says(host, r).phase = host.phase
           /\ Says(host, r).open = host.open /\ Says(host, r).obj = host.obj
  BY DEF Hosts, HostRecords, At, AtOpen, Says
<1>2. CASE HostReports
  BY <1>1, <1>2 DEF HostReports, Live
<1>3. CASE HostBegins
  <2>1. host.phase = "new" => At(host, "starting") \in Hosts
    BY HostUpdateType DEF Hosts, LivePhases
  <2> QED BY <1>1, <1>3, <2>1 DEF HostBegins, HostStep, Live, LivePhases
<1>4. CASE HostOpens
  <2>1. /\ host.phase \in {"starting", "open"} /\ Live(host)
        /\ powered' = powered \/ powered' = FALSE
        /\ \/ host' = AtOpen(host, "open", TRUE) /\ host.phase = "starting"
           \/ host' = At(host, "ended") /\ host.phase = "starting"
           \/ host' = AtOpen(host, "ended", FALSE)
    BY <1>4 DEF HostOpens, HostStep, Live, LivePhases
  <2>2. "open" \in LivePhases \cup {"none", "ended"}
    BY DEF LivePhases
  <2>3. CASE host' = AtOpen(host, "open", TRUE) /\ host.phase = "starting"
    <3>1. host' \in Hosts /\ host'.phase = "open" /\ host'.obj = host.obj
      BY <1>1, <2>2, <2>3
    <3> QED BY <2>1, <3>1
  <2>4. CASE host' = At(host, "ended")
    <3>1. host' \in Hosts /\ host'.phase = "ended" /\ host'.obj = host.obj
      BY <1>1, <2>4
    <3> QED BY <2>1, <3>1
  <2>5. CASE host' = AtOpen(host, "ended", FALSE)
    <3>1. host' \in Hosts /\ host'.phase = "ended" /\ host'.obj = host.obj
      BY <1>1, <2>5
    <3> QED BY <2>1, <3>1
  <2> QED BY <2>1, <2>3, <2>4, <2>5
<1>5. CASE HostStarted
  BY <1>1, <1>5 DEF HostStarted, HostStep, Live, LivePhases
<1>6. CASE HostSettled
  BY <1>1, <1>6 DEF HostSettled, HostStep, Live, LivePhases
<1>7. CASE HostDrained \/ HostLoses
  BY <1>1, <1>7 DEF HostDrained, HostLoses, HostStep, Live, LivePhases
<1> QED BY <1>2, <1>3, <1>4, <1>5, <1>6, <1>7 DEF LifeNext

LEMMA HostRadio == IInv /\ RadioInv /\ HostNext => RadioInv'
<1> SUFFICES ASSUME IInv, RadioInv, HostNext PROVE RadioInv'
  OBVIOUS
<1>1. /\ host \in Hosts /\ LifeNext
      /\ UNCHANGED <<running, suspended, woken, runPc, paired, orphan, devices, shutPc, races,
                     lock, task>>
      /\ Stage' = Stage
  BY DEF HostNext, hostFrame, IInv, TypeOK, Stage
<1>2. /\ host'.obj = host.obj
      /\ host.phase # "none" /\ host'.phase # "none"
      /\ host'.phase \in {"new", "starting", "open"} =>
           host.phase \in {"new", "starting", "open"}
      /\ host'.phase \in {"new", "starting"} => host'.open = host.open /\ host.phase = "new"
      /\ Live(host') => Live(host)
      /\ host'.open => host.open \/ Live(host)
      /\ host.phase \notin {"starting", "open"} => host'.open = host.open
      /\ powered' => powered
  BY <1>1, HostMoves
<1>3. runPc = "host"
  BY <1>2 DEF RadioInv, LoopOK
<1>4. LoopOK'
  BY <1>1, <1>2, <1>3 DEF RadioInv, LoopOK
<1>5. ASSUME ~Raced' PROVE AloneOK' /\ OffOK' /\ OwnedOK'
  <2>1. AloneOK /\ OffOK /\ OwnedOK
    BY <1>1, <1>5 DEF RadioInv, Raced
  <2>2. host.phase \in {"starting", "open"} => Live(host)
    BY DEF Live, LivePhases
  <2>3. AloneOK'
    BY <1>1, <1>2, <1>3, <2>1, <2>2 DEF RadioInv, LoopOK, AloneOK
  <2>4. OffOK'
    BY <1>1, <1>2, <2>1 DEF OffOK
  <2>5. OwnedOK'
    BY <1>1, <1>2, <1>3, <2>1 DEF OwnedOK
  <2> QED BY <2>3, <2>4, <2>5
<1> QED BY <1>4, <1>5 DEF RadioInv

\* A request changes what run() finds only by taking a device away from a paired
\* host.
LEMMA AskRadio ==
  ASSUME IInv, RadioInv, NEW t \in Tasks, AskNext(t)
  PROVE  RadioInv'
<1>1. UNCHANGED <<running, runPc, suspended, woken, host, paired, orphan, powered, shutPc>>
  BY DEF AskNext, AskScan, AskPair, SubmitPair, AskConnect, AskStart, AskStop,
     AskDisconnect, AskRemove, PowerEvent, askFrame, loopVars
<1>2. /\ Raced => Raced'
      /\ ~Raced' /\ paired => devices' = devices
  BY DEF AskNext, AskScan, AskPair, SubmitPair, AskConnect, AskStart, AskStop,
     AskDisconnect, AskRemove, PowerEvent, Raced
<1>3. Stage' = Stage
  BY StageMoves
<1> QED BY <1>1, <1>2, <1>3 DEF RadioInv, LoopOK, AloneOK, OffOK, OwnedOK

LEMMA IdleRadio ==
  RadioInv /\ (AnswerAlreadyStopped \/ UNCHANGED vars) => RadioInv'
<1> SUFFICES ASSUME RadioInv, AnswerAlreadyStopped \/ UNCHANGED vars PROVE RadioInv'
  OBVIOUS
<1>1. UNCHANGED <<running, runPc, suspended, woken, host, paired, orphan, powered, shutPc,
                  lock, task, devices, races>>
  BY DEF AnswerAlreadyStopped, askFrame, loopVars, vars
<1> QED BY <1>1 DEF RadioInv, LoopOK, AloneOK, OffOK, OwnedOK, Stage, Raced

\* Cancelling the host's task outside of a suspend() closes what it was opening
\* and leaves the rest to run().
LEMMA CancelRadio ==
  ASSUME IInv, RadioInv, CancelHost(host, races) \/ UNCHANGED <<host, races>>,
         UNCHANGED <<loopVars, suspended, woken, paired, orphan, devices, powered, shutPc>>,
         Stage \notin InSuspend \cup OnRadio, Stage' \notin InSuspend \cup OnRadio
  PROVE  RadioInv'
<1>1. /\ host \in Hosts /\ UNCHANGED <<running, runPc>> /\ Raced' = Raced
      /\ Live(host) => host.phase # "none"
      /\ host' = host \/ host' \in CancelledHosts(host)
  BY DEF IInv, TypeOK, loopVars, CancelHost, Swallowed, Raced, Live, LivePhases
<1>2. /\ host' = host \/ (Live(host) /\ host'.phase \in {"ended", "drainLost"})
      /\ host'.open => host.open
      /\ host.phase # "open" => host'.open = host.open
      /\ host'.obj = host.obj
  BY <1>1, CancelFields
<1>3. CASE host' = host
  BY <1>1, <1>3 DEF RadioInv, LoopOK, AloneOK, OffOK, OwnedOK, InSuspend
<1>4. CASE Live(host) /\ host'.phase \in {"ended", "drainLost"}
  <2>1. LoopOK'
    BY <1>1, <1>2, <1>4 DEF RadioInv, LoopOK
  <2>2. ASSUME ~Raced' PROVE AloneOK' /\ OffOK' /\ OwnedOK'
    <3>1. AloneOK /\ OffOK /\ OwnedOK /\ LoopOK
      BY <1>1, <2>2 DEF RadioInv
    <3>2. AloneOK'
      BY <1>1, <1>2, <1>4, <3>1 DEF LoopOK, AloneOK, InSuspend
    <3>3. ~suspended
      BY <1>4, <3>1 DEF OffOK
    <3>4. OwnedOK'
      BY <1>1, <1>2, <1>4, <3>1 DEF OwnedOK
    <3> QED BY <3>2, <3>3, <3>4 DEF OffOK
  <2> QED BY <2>1, <2>2 DEF RadioInv
<1> QED BY <1>2, <1>3, <1>4

\* suspend() has returned with the transport closed and the task over.
LEMMA AfterSuspendRadio ==
  ASSUME IInv, RadioInv, NEW t \in Tasks, NEW h \in Hosts, NEW ev, AfterSuspend(t, h, ev),
         UNCHANGED opFrame, Raced => Raced',
         h.phase = host.phase, h.open => host.open,
         ~Raced' => /\ ~h.open /\ ~Live(h) /\ ~paired /\ (running => ~woken)
                    /\ runPc # "cleanup" /\ shutPc # "cleaning"
  PROVE  RadioInv'
<1>1. /\ UNCHANGED <<running, runPc, shutPc, paired, orphan>> /\ host' = h
      /\ \/ Stage' = "opening" /\ woken' = woken
         \/ Stage' = "none" /\ ~suspended'
         \/ Stage' = "none" /\ woken' = woken /\ ~powered'
  BY StageMoves DEF opFrame, loopVars, AfterSuspend, Resume, TaskPcs
<1>2. LoopOK'
  BY <1>1 DEF RadioInv, LoopOK
<1>3. ASSUME ~Raced' PROVE AloneOK' /\ OffOK' /\ OwnedOK'
  <2>1. OwnedOK /\ ~h.open /\ ~Live(h) /\ ~paired /\ (running => ~woken)
        /\ runPc # "cleanup" /\ shutPc # "cleaning"
    BY <1>3 DEF RadioInv
  <2>2. AloneOK'
    BY <1>1, <2>1 DEF AloneOK
  <2>3. OffOK'
    BY <1>1, <2>1 DEF OffOK, OnRadio
  <2>4. OwnedOK'
    BY <1>1, <2>1 DEF OwnedOK
  <2> QED BY <2>2, <2>3, <2>4
<1> QED BY <1>2, <1>3 DEF RadioInv

\* suspend() once there is no task to await: what it finds open it closes.
LEMMA TearDownRadio ==
  ASSUME IInv, RadioInv, NEW t \in Tasks, NEW ev, NEW met, TearDown(t, ev, met),
         UNCHANGED opFrame, ~Live(host), Raced => "radio" \in met,
         "radio" \notin met => (running => ~woken) /\ ~paired
  PROVE  RadioInv'
<1>1. /\ host \in Hosts /\ UNCHANGED <<running, runPc, shutPc>> /\ (Raced => Raced')
      /\ Raced' <=> "radio" \in races'
  BY DEF IInv, TypeOK, opFrame, loopVars, TearDown, Raced
<1>2. CASE /\ HasTransport(host)
           /\ suspended' = TRUE /\ woken' = woken
           /\ Hold(t, "cleaning")
           /\ races' = met \cup (IF Cleaning THEN {"radio"} ELSE {})
           /\ UNCHANGED <<host, paired, orphan, devices, powered>>
  <2>1. Stage' = "cleaning" /\ LoopOK' /\ host.open /\ host.obj
    BY <1>1, <1>2, StageMoves DEF RadioInv, LoopOK, TaskPcs, HasTransport
  <2>2. ASSUME ~Raced' PROVE AloneOK' /\ OffOK' /\ OwnedOK'
    <3>1. ~Cleaning /\ (running => ~woken) /\ ~paired /\ OwnedOK
      BY <1>1, <1>2, <2>2 DEF RadioInv
    <3>2. AloneOK'
      BY <1>1, <1>2, <2>1, <3>1 DEF AloneOK, Cleaning, Cleaners
    <3>3. OffOK'
      BY <1>1, <1>2, <2>1, <3>1 DEF OffOK, InSuspend
    <3>4. OwnedOK'
      BY <1>1, <1>2, <2>1, <3>1 DEF OwnedOK, InSuspend, OnRadio
    <3> QED BY <3>2, <3>3, <3>4
  <2> QED BY <2>1, <2>2 DEF RadioInv
<1>3. CASE /\ ~HasTransport(host) /\ races' = met
           /\ AfterSuspend(t, IF host.obj THEN Dropped(host) ELSE host, ev)
  <2> DEFINE h == IF host.obj THEN Dropped(host) ELSE host
  <2>1. h \in Hosts /\ h.phase = host.phase /\ h.open = host.open
    BY <1>1, HostUpdateType, HostFields
  <2>2. ASSUME ~Raced'
        PROVE  ~host.open /\ runPc # "cleanup" /\ shutPc # "cleaning"
    <3>1. AloneOK /\ OwnedOK
      BY <1>1, <2>2 DEF RadioInv
    <3>2. ~host.open
      BY <1>3, <3>1 DEF OwnedOK, HasTransport, Live, LivePhases
    <3> QED BY <3>1, <3>2 DEF AloneOK
  <2>3. ~Raced' => /\ ~h.open /\ ~Live(h) /\ ~paired /\ (running => ~woken)
                   /\ runPc # "cleanup" /\ shutPc # "cleaning"
    BY <1>1, <1>3, <2>1, <2>2 DEF Live
  <2> HIDE DEF h
  <2>4. AfterSuspend(t, h, ev)
    BY <1>3 DEF h
  <2> QED BY <1>1, <2>1, <2>3, <2>4, AfterSuspendRadio
<1> QED BY <1>2, <1>3 DEF TearDown

\* suspend() from its first line, by an operation that has just got the lock.
LEMMA SuspendRadio ==
  ASSUME IInv, RadioInv, NEW t \in Tasks, Suspend(t), UNCHANGED opFrame, ~Exited
  PROVE  RadioInv'
<1> DEFINE met == races \cup (IF woken THEN {"radio"} ELSE {})
<1>1. host \in Hosts /\ UNCHANGED <<running, runPc, shutPc>>
  BY DEF IInv, TypeOK, opFrame, loopVars
<1>2. "radio" \notin met => ~Raced /\ ~woken /\ ~paired
  <2>1. ASSUME ~Raced, ~woken, paired PROVE FALSE
    <3>1. AloneOK /\ OwnedOK
      BY <2>1 DEF RadioInv
    <3>2. runPc = "done" /\ shutPc = "cleaning"
      BY <2>1, <3>1 DEF OwnedOK, Exited
    <3> QED BY <2>1, <3>1, <3>2 DEF AloneOK, OwnedOK
  <2> QED BY <2>1 DEF Raced
<1>3. CASE /\ Live(host) /\ suspended' = TRUE /\ woken' = woken
           /\ CancelHost(host, met) /\ Hold(t, "joining")
           /\ UNCHANGED <<paired, orphan, devices, powered>>
  <2>1. /\ host' = host \/ host'.phase \in {"ended", "drainLost"}
        /\ host'.open => host.open
        /\ host.phase # "open" => host'.open = host.open
        /\ host'.obj = host.obj
    BY <1>1, <1>3, CancelFields DEF CancelHost
  <2>2. Stage' = "joining"
    BY <1>3, StageMoves DEF TaskPcs
  <2>3. host.phase # "none"
    BY <1>3 DEF Live, LivePhases
  <2>4. LoopOK'
    BY <1>1, <2>1, <2>3 DEF RadioInv, LoopOK
  <2>5. ASSUME ~Raced' PROVE AloneOK' /\ OffOK' /\ OwnedOK'
    <3>1. "radio" \notin met
      BY <1>3, <2>5 DEF Raced, CancelHost
    <3>2. AloneOK /\ OwnedOK /\ LoopOK /\ ~woken /\ ~paired
      BY <1>2, <3>1 DEF RadioInv
    <3>3. AloneOK'
      BY <1>1, <2>1, <2>2, <2>3, <3>2 DEF AloneOK, LoopOK
    <3>4. OffOK'
      BY <1>1, <1>3, <2>2, <3>2 DEF OffOK, InSuspend
    <3>5. OwnedOK'
      BY <1>1, <1>3, <2>1, <2>2, <3>2 DEF OwnedOK, InSuspend, OnRadio
    <3> QED BY <3>3, <3>4, <3>5
  <2> QED BY <2>4, <2>5 DEF RadioInv
<1>4. CASE ~Live(host) /\ TearDown(t, FALSE, met)
  <2>1. Raced => "radio" \in met
    BY DEF Raced
  <2> HIDE DEF met
  <2> QED BY <1>2, <1>4, <2>1, TearDownRadio
<1> QED BY <1>3, <1>4 DEF Suspend, SuspendWith, met

\* What an operation does inside the lock leaves the radio with one owner.
LEMMA OpRadio ==
  ASSUME IInv, RadioInv, NEW t \in Tasks, OpNext(t), ~Exited
  PROVE  RadioInv'
<1>1. /\ host \in Hosts /\ lock \in Tasks \cup {NoTask} /\ TaskPcs # {}
      /\ lock = NoTask => Stage = "none"
      /\ task[t].pc \in InLock => lock = t /\ Stage = task[t].pc
      /\ Stage \in InSuspend \cup OnRadio => suspended
  BY StageFacts DEF IInv, TypeOK, Stage, TaskPcs
<1>2. CASE Enqueue(t)
  <2>1. /\ UNCHANGED <<opFrame, suspended, woken, host, paired, orphan, devices, powered, races>>
        /\ Stage' = Stage
    BY <1>2, StageMoves DEF Enqueue
  <2> QED BY <2>1 DEF opFrame, loopVars, RadioInv, LoopOK, AloneOK, OffOK, OwnedOK, Raced
<1>3. CASE DoScan(t) \/ DoPairOrConnect(t) \/ DoStop(t) \/ DoSystemSuspend(t)
  <2>1. Suspend(t) /\ UNCHANGED opFrame
    BY <1>3 DEF DoScan, DoPairOrConnect, DoStop, DoSystemSuspend
  <2> QED BY <2>1, SuspendRadio
<1>4. CASE Joined(t)
  <2>1. /\ TearDown(t, event, races) /\ UNCHANGED opFrame /\ ~Live(host)
        /\ Stage = "joining"
    BY <1>1, <1>4 DEF Joined, InLock
  <2>2. "radio" \notin races => (running => ~woken) /\ ~paired
    BY <1>1, <2>1 DEF RadioInv, OffOK, InSuspend, Raced
  <2> QED BY <2>1, <2>2, TearDownRadio DEF Raced
<1>5. CASE Cleaned(t)
  <2>1. PICK h \in IF Live(host) THEN {host} ELSE AfterCleanup(host, Cleaners # {}) :
           AfterSuspend(t, Dropped(h), event)
    BY <1>5 DEF Cleaned
  <2>2. Stage = "cleaning" /\ UNCHANGED <<opFrame, races>>
    BY <1>1, <1>5 DEF Cleaned, InLock
  <2>3. Closed(host) \in Hosts /\ Closed(host).phase = host.phase /\ ~Closed(host).open
    BY <1>1, HostUpdateType, HostFields
  <2>4. h \in Hosts /\ h.phase = host.phase /\ (h.open => host.open)
    BY <1>1, <2>1, <2>3 DEF AfterCleanup
  <2>5. ASSUME ~Raced
        PROVE  /\ ~h.open /\ ~Live(h) /\ ~paired /\ (running => ~woken)
               /\ runPc # "cleanup" /\ shutPc # "cleaning"
    <3>1. AloneOK /\ OffOK /\ suspended
      BY <1>1, <2>2, <2>5 DEF RadioInv, InSuspend
    <3>2. runPc # "cleanup" /\ shutPc # "cleaning" /\ ~Live(host) /\ ~paired
          /\ (running => ~woken)
      BY <2>2, <3>1 DEF AloneOK, OffOK
    <3>3. h = Closed(host)
      BY <2>1, <3>2 DEF AfterCleanup, Cleaners
    <3> QED BY <2>3, <2>4, <3>2, <3>3 DEF Live
  <2>6. /\ Dropped(h) \in Hosts /\ Dropped(h).phase = h.phase /\ Dropped(h).open = h.open
    BY <2>4, HostUpdateType, HostFields
  <2>7. ~Live(h) => ~Live(Dropped(h))
    BY <2>6 DEF Live
  <2> QED BY <2>1, <2>2, <2>4, <2>5, <2>6, <2>7, AfterSuspendRadio DEF Raced
<1>6. CASE Opened(t)
  <2>1. /\ UNCHANGED <<opFrame, suspended, woken, host, paired, orphan, devices, powered, races>>
        /\ Stage = "opening" /\ Stage' = "radio"
    BY <1>1, <1>6, StageMoves DEF Opened, InLock, TaskPcs
  <2> QED BY <2>1 DEF opFrame, loopVars, RadioInv, LoopOK, AloneOK, OffOK, OwnedOK, Raced,
                      InSuspend, OnRadio
<1>7. CASE RadioOpEnds(t)
  <2>1. /\ UNCHANGED <<opFrame, host, paired, orphan, devices, races>>
        /\ Stage \in OnRadio /\ Stage' = "none" /\ ~suspended' /\ suspended
    BY <1>1, <1>7, StageMoves DEF RadioOpEnds, EndRadioOp, Resume, InLock, OnRadio
  <2>2. LoopOK'
    BY <2>1 DEF opFrame, loopVars, RadioInv, LoopOK
  <2>3. ASSUME ~Raced' PROVE AloneOK' /\ OffOK' /\ OwnedOK'
    <3>1. AloneOK /\ OffOK /\ OwnedOK
      BY <2>1, <2>3 DEF RadioInv, Raced
    <3>2. ~paired /\ ~host.open /\ ~Live(host) /\ ~orphan
      BY <2>1, <3>1 DEF OffOK, OwnedOK
    <3> QED BY <2>1, <3>1, <3>2 DEF opFrame, loopVars, AloneOK, OffOK, OwnedOK
  <2> QED BY <2>2, <2>3 DEF RadioInv
<1>8. CASE PairSucceeds(t)
  <2>1. /\ UNCHANGED <<opFrame, host>> /\ orphan' = (orphan \/ paired)
        /\ Stage = "radio" /\ Stage' = "none" /\ ~suspended' /\ suspended
        /\ woken' = (woken \/ runPc \in Waits)
        /\ Raced => Raced'
        /\ LoopSettled
    <3>1. task[t].pc = "radio" /\ EndRadioOp(t) /\ UNCHANGED <<opFrame, host>> /\ LoopSettled
          /\ orphan' = (orphan \/ paired)
      BY <1>8 DEF PairSucceeds
    <3>2. Stage = "radio" /\ suspended
      BY <1>1, <3>1 DEF InLock, OnRadio
    <3>3. Stage' = "none" /\ ~suspended' /\ woken' = (woken \/ runPc \in Waits)
      BY <3>1, StageMoves DEF EndRadioOp, Resume
    <3>4. Raced => Raced'
      BY <1>8 DEF PairSucceeds, Raced
    <3> QED BY <3>1, <3>2, <3>3, <3>4
  <2>2. LoopOK'
    BY <2>1 DEF opFrame, loopVars, RadioInv, LoopOK
  <2>3. ASSUME ~Raced' PROVE AloneOK' /\ OffOK' /\ OwnedOK'
    <3>1. AloneOK /\ OffOK /\ OwnedOK /\ LoopOK
      BY <2>1, <2>3 DEF RadioInv, Raced
    <3>2. ~paired /\ ~host.open /\ ~Live(host) /\ ~orphan
      BY <2>1, <3>1 DEF OffOK, OwnedOK, OnRadio
    <3>3. devices' # {}
      BY <1>8, <2>3 DEF PairSucceeds, Raced
    <3>4. host.phase = "none"
      BY <1>1, <2>1, <3>2, HostFields DEF LoopSettled, Live
    <3>5. runPc \in Waits \cup {"done"}
      BY <2>1, <3>1, <3>2, <3>4 DEF LoopSettled, WakePending, LoopOK, AloneOK, IInv, TypeOK, RunPcs
    <3>6. AloneOK' /\ OffOK'
      BY <2>1, <3>1, <3>2 DEF opFrame, loopVars, AloneOK, OffOK
    <3>7. OwnedOK'
      BY <2>1, <3>1, <3>2, <3>3, <3>5 DEF opFrame, loopVars, OwnedOK
    <3> QED BY <3>6, <3>7
  <2> QED BY <2>2, <2>3 DEF RadioInv
<1>9. CASE DoResume(t) \/ DoSystemResume(t) \/ SkipSystemSuspend(t)
  <2>1. /\ UNCHANGED <<opFrame, host, paired, orphan, devices, powered, races>>
        /\ Stage = "none" /\ Stage' = "none"
        /\ Resume \/ UNCHANGED <<suspended, woken>>
    BY <1>1, <1>9, StageMoves DEF DoResume, DoSystemResume, SkipSystemSuspend, CanTake
  <2>2. /\ UNCHANGED <<running, runPc, shutPc, host, paired, orphan, devices, powered>>
        /\ Raced' = Raced /\ Stage' = Stage
        /\ \/ ~suspended' /\ (woken => woken')
           \/ UNCHANGED <<suspended, woken>>
    BY <2>1 DEF opFrame, loopVars, Resume, Raced
  <2> QED BY <2>2 DEF RadioInv, LoopOK, AloneOK, OffOK, OwnedOK
<1>10. CASE DoDisconnect(t) \/ HungUp(t)
  <2>1. /\ CancelHost(host, races) \/ UNCHANGED <<host, races>>
        /\ UNCHANGED <<opFrame, suspended, woken, paired, orphan, devices, powered>>
        /\ Stage \in {"none", "hangup"} /\ Stage' \in {"none", "hangup"}
    BY <1>1, <1>10, StageMoves DEF DoDisconnect, HungUp, CanTake, InLock, TaskPcs
  <2> QED BY <2>1, CancelRadio DEF opFrame, InSuspend, OnRadio
<1> QED BY <1>2, <1>3, <1>4, <1>5, <1>6, <1>7, <1>8, <1>9, <1>10 DEF OpNext

\* main() cancelling run(): its await of the host's task, if it is at one, takes
\* the task with it.
LEMMA CancelRunRadio ==
  ASSUME IInv, RadioInv, NEW h \in Hosts, CancelRun(h), UNCHANGED shutFrame, ~running',
         Raced => Raced', h.phase = host.phase, h.obj = host.obj, h.open => host.open,
         ~Raced' => /\ runPc # "cleanup" /\ (Stage = "cleaning" => h.open = host.open)
                    /\ h.open => runPc = "host" \/ Stage \in InSuspend
  PROVE  RadioInv'
<1>1. /\ UNCHANGED <<suspended, paired, orphan, devices, powered>> /\ Stage' = Stage
      /\ shutPc' = "down" /\ runPc' \in {"done", "host", "cleanup"}
      /\ runPc' = "host" <=> runPc = "host"
      /\ runPc' = "cleanup" => runPc = "cleanup"
  BY DEF CancelRun, shutFrame, Stage, Waits
<1>2. CASE Live(h) /\ host'.phase \in {"ended", "drainLost"} /\ host' \in CancelledHosts(h)
  <2>1. /\ host'.phase \in {"ended", "drainLost"}
        /\ host'.open => h.open
        /\ host'.obj = h.obj
    BY <1>2, CancelFields
  <2>2. Live(host) /\ host.phase # "none"
    BY <1>2 DEF Live, LivePhases
  <2>3. LoopOK'
    BY <1>1, <2>1, <2>2 DEF RadioInv, LoopOK, Waits
  <2>4. ASSUME ~Raced' PROVE AloneOK' /\ OffOK' /\ OwnedOK'
    <3>1. AloneOK /\ OffOK /\ OwnedOK /\ LoopOK
      BY <2>4 DEF RadioInv
    <3>2. runPc = "host"
      BY <2>2, <3>1 DEF LoopOK
    <3>3. AloneOK'
      BY <1>1, <2>2, <3>1, <3>2 DEF AloneOK
    <3>4. OffOK'
      BY <1>1, <2>2, <3>1 DEF OffOK
    <3>5. OwnedOK'
      BY <1>1, <2>1, <2>2, <3>1, <3>2 DEF OwnedOK
    <3> QED BY <3>3, <3>4, <3>5
  <2> QED BY <2>3, <2>4 DEF RadioInv
<1>3. CASE host' = h \/ (runPc = "cleanup" /\ host' = Closed(h))
  <2>1. host'.phase = h.phase /\ (host'.open => h.open) /\ host'.obj = h.obj
    BY <1>3, HostFields
  <2>2. LoopOK'
    BY <1>1, <2>1 DEF RadioInv, LoopOK, Waits
  <2>3. ASSUME ~Raced' PROVE AloneOK' /\ OffOK' /\ OwnedOK'
    <3>1. AloneOK /\ OffOK /\ OwnedOK /\ host' = h
      BY <1>3, <2>3 DEF RadioInv
    <3>2. Live(host') <=> Live(host)
      BY <2>1 DEF Live
    <3>3. AloneOK'
      BY <1>1, <2>1, <2>3, <3>1, <3>2 DEF AloneOK
    <3>4. OffOK'
      BY <1>1, <2>1, <3>1, <3>2 DEF OffOK
    <3>5. OwnedOK'
      BY <1>1, <2>1, <2>3, <3>1, <3>2 DEF OwnedOK, Waits
    <3> QED BY <3>3, <3>4, <3>5
  <2> QED BY <2>2, <2>3 DEF RadioInv
<1> QED BY <1>2, <1>3, CancelFields DEF CancelRun, CancelHost

LEMMA ShutRadio ==
  IInv /\ RadioInv /\ (Shutdown \/ ShutdownCleaned) => RadioInv'
<1> SUFFICES ASSUME IInv, RadioInv, Shutdown \/ ShutdownCleaned PROVE RadioInv'
  OBVIOUS
<1>1. host \in Hosts /\ runPc \in RunPcs
  BY DEF IInv, TypeOK
<1>2. CASE /\ Shutdown /\ HasTransport(host) /\ shutPc' = "cleaning"
           /\ races' = IF Cleaning THEN races \cup {"radio"} ELSE races
           /\ UNCHANGED <<runPc, host>>
  <2>1. /\ UNCHANGED <<runPc, host, suspended, paired, orphan, devices, powered>>
        /\ Stage' = Stage /\ ~running' /\ shutPc = "up" /\ runPc # "top"
        /\ host.obj /\ host.open /\ host.phase # "open"
    BY <1>2 DEF Shutdown, shutFrame, Stage, HasTransport
  <2>2. LoopOK'
    BY <1>2, <2>1 DEF RadioInv, LoopOK
  <2>3. ASSUME ~Raced' PROVE AloneOK' /\ OffOK' /\ OwnedOK'
    <3>1. ~Cleaning /\ ~Raced
      BY <1>2, <2>3 DEF Raced
    <3>2. AloneOK /\ OffOK /\ OwnedOK
      BY <3>1 DEF RadioInv
    <3>3. runPc # "cleanup" /\ Stage # "cleaning"
      BY <3>1, StageFacts
    <3>4. AloneOK'
      BY <1>2, <2>1, <3>3 DEF AloneOK
    <3>5. OffOK'
      BY <2>1, <3>2 DEF OffOK
    <3>6. OwnedOK'
      BY <1>2, <2>1, <3>2 DEF OwnedOK
    <3> QED BY <3>4, <3>5, <3>6
  <2> QED BY <2>2, <2>3 DEF RadioInv
<1>3. CASE Shutdown /\ ~HasTransport(host) /\ CancelRun(host)
  <2>1. UNCHANGED shutFrame /\ ~running' /\ shutPc = "up" /\ (Raced <=> Raced')
    BY <1>3 DEF Shutdown, Raced, CancelRun, CancelHost, Swallowed
  <2>2. ASSUME ~Raced
        PROVE  runPc # "cleanup" /\ (host.open => runPc = "host" \/ Stage \in InSuspend)
    <3>1. AloneOK /\ OwnedOK /\ LoopOK
      BY <2>2 DEF RadioInv
    <3>2. runPc # "cleanup"
      BY <1>3, <3>1 DEF AloneOK, OwnedOK, LoopOK, HasTransport
    <3> QED BY <2>1, <3>1, <3>2 DEF OwnedOK
  <2> QED BY <1>1, <1>3, <2>1, <2>2, CancelRunRadio
<1>4. CASE ShutdownCleaned
  <2>1. PICK h \in AfterCleanup(host, runPc = "cleanup" \/ CleaningTasks # {}) : CancelRun(h)
    BY <1>4 DEF ShutdownCleaned
  <2>2. /\ UNCHANGED <<shutFrame, running>> /\ shutPc = "cleaning" /\ (Raced <=> Raced')
    BY <1>4 DEF ShutdownCleaned, Raced, CancelRun, CancelHost, Swallowed
  <2>3. /\ Closed(host) \in Hosts /\ Closed(host).phase = host.phase
        /\ ~Closed(host).open /\ Closed(host).obj = host.obj
    BY <1>1, HostUpdateType, HostFields
  <2>4. /\ h \in Hosts /\ h.phase = host.phase /\ h.obj = host.obj
        /\ h.open => host.open
    BY <1>1, <2>1, <2>3 DEF AfterCleanup
  <2>5. ASSUME ~Raced PROVE runPc # "cleanup" /\ Stage # "cleaning" /\ ~h.open
    <3>1. runPc # "cleanup" /\ Stage # "cleaning"
      BY <2>2, <2>5 DEF RadioInv, AloneOK
    <3> QED BY <2>1, <2>3, <3>1, StageFacts DEF AfterCleanup
  <2>6. ~running'
    BY <2>2 DEF RadioInv, LoopOK
  <2> QED BY <2>1, <2>2, <2>4, <2>5, <2>6, CancelRunRadio
<1> QED BY <1>2, <1>3, <1>4 DEF Shutdown

LEMMA RadioStep == IInv /\ RadioInv /\ [Next]_vars => RadioInv'
<1> SUFFICES ASSUME IInv, RadioInv, [Next]_vars PROVE RadioInv'
  OBVIOUS
<1>1. CASE RunNext
  BY <1>1, RunRadio
<1>2. CASE HostNext
  BY <1>2, HostRadio
<1>3. CASE AnswerAlreadyStopped \/ UNCHANGED vars
  BY <1>3, IdleRadio
<1>4. ASSUME NEW t \in Tasks, AskNext(t) PROVE RadioInv'
  BY <1>4, AskRadio
<1>5. ASSUME NEW t \in Tasks, OpNext(t), ~Exited PROVE RadioInv'
  BY <1>5, OpRadio
<1>6. CASE Shutdown \/ ShutdownCleaned
  BY <1>6, ShutRadio
<1> QED BY <1>1, <1>2, <1>3, <1>4, <1>5, <1>6 DEF Next

\* Who may use the radio is settled in every state: one cleanup() at a time, a
\* suspended daemon that is off, and one owner of an open transport.
THEOREM RadioInductive == Spec => [](IInv /\ RadioInv)
<1>1. Init => RadioInv
  BY InitRadio
<1>2. IInv /\ RadioInv /\ [Next]_vars => RadioInv'
  BY RadioStep
<1> QED BY <1>1, <1>2, Inductive, PTL DEF Spec

\* daemon.py:47/72/83: whatever the requests, the link losses, the failed writes
\* and the signals, and for any number of operations in flight, no two users
\* have the radio open at once and no open transport is left without an owner,
\* but after one of the four races.
THEOREM RadioIsExclusive == Spec => []RadioExclusiveUnlessRaced
<1>1. ASSUME IInv, OffOK, OwnedOK PROVE RadioExclusive /\ ~orphan
  <2>1. \A t \in Tasks : task[t].pc = "radio" => lock = t /\ Stage = "radio"
    BY <1>1, StageFacts DEF InLock
  <2>2. ~orphan /\ (host.open => ~paired /\ Stage # "radio")
    BY <1>1 DEF OwnedOK, OnRadio
  <2>3. Stage = "radio" => ~paired
    BY <1>1, StageFacts DEF OffOK, OnRadio
  <2>4. CASE Stage = "radio"
    BY <2>1, <2>2, <2>3, <2>4 DEF RadioExclusive, OpenRadios
  <2>5. CASE Stage # "radio"
    BY <2>1, <2>2, <2>5 DEF RadioExclusive, OpenRadios
  <2> QED BY <2>2, <2>4, <2>5
<1>2. IInv /\ RadioInv => RadioExclusiveUnlessRaced
  BY <1>1 DEF RadioInv, Raced, RadioExclusiveUnlessRaced
<1> QED BY <1>2, RadioInductive, PTL

\* controller.py: an operation that leaves the daemon suspended leaves it off,
\* for _do_system_suspend to rely on, but after one of the four races.
THEOREM SuspendedMeansOff == Spec => []SuspendedIsOff
<1>1. ASSUME IInv, RadioInv PROVE SuspendedIsOff
  <2> SUFFICES ASSUME lock = NoTask, suspended, ~Raced
               PROVE  ~powered /\ OpenRadios = {} /\ ~Live(host)
    BY DEF SuspendedIsOff, Raced
  <2>1. Stage = "none" /\ OffOK /\ OwnedOK
    BY <1>1 DEF RadioInv, Stage
  <2>2. ~powered /\ ~host.open /\ ~Live(host) /\ ~paired /\ ~orphan
    BY <2>1 DEF OffOK, OwnedOK, InSuspend, OnRadio
  <2>3. \A t \in Tasks : task[t].pc # "radio"
    BY <1>1, <2>1, StageFacts DEF InLock
  <2> QED BY <2>2, <2>3 DEF OpenRadios
<1> QED BY <1>1, RadioInductive, PTL

=============================================================================
