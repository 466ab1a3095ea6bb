----------------------------- MODULE HidDaemon -----------------------------
(* The connection manager: DaemonController's operations (controller.py)   *)
(* over HIDDaemon.run/suspend/resume/disconnect/stop (daemon.py), with the *)
(* life of one HIDHost.run task (host.py) as the thing being managed.      *)
(*                                                                         *)
(* Everything but the request_* entry points runs on one asyncio loop, so  *)
(* an action is a coroutine's segment from one await to the next.  Ready   *)
(* coroutines run in the order they were made ready: a woken run() comes   *)
(* before whatever is made ready later (LoopSettled), but an operation     *)
(* whose first step is already due ("fresh") may still come before it.     *)
EXTENDS HostLife, Sequences, FiniteSets

CONSTANTS
  Devices,      \* addresses that may stand in devices.conf
  Tasks,        \* slots for operations in flight; bounds the requests pending
  NoTask,       \* _op_lock is free
  Ops,          \* the requests the clients and powerd make in this instance
  WriteFails,   \* may a write of devices.conf fail?
  Signals       \* may SIGTERM/SIGINT arrive?

AllOps == {"scan", "pair", "start", "connect", "stop", "disconnect",
           "remove", "systemSuspend", "systemResume"}

ASSUME NoTaskAssumption == NoTask \notin Tasks
ASSUME OpsAssumption    == Ops \subseteq AllOps
ASSUME SwitchAssumption == WriteFails \in BOOLEAN /\ Signals \in BOOLEAN

VARIABLES
  running, suspended,     \* HIDDaemon.running, _suspended
  event,                  \* _resume_event.is_set()
  woken,                  \* run()'s wait on _resume_event has been resolved
  runPc,                  \* the await run() is at
  todo,                   \* run()'s auth_fail_addr / vc_unplug_addr locals
  paired,                 \* _paired_host is not None (its transport is open)
  orphan,                 \* an open transport that nothing refers to any more
  devices,                \* devices.conf
  lock, waiters,          \* _op_lock: its holder and its FIFO of waiters
  task,                   \* the operations in flight
  suspendedBySystem, isScanning, isPairing,   \* controller flags
  shutPc,                 \* main() on a signal: daemon.stop(), then cancel
  userOff,                \* history: the last thing a client asked for was /stop
  races                   \* history: "radio" once one of the races below was
                          \* met, "swallowed" while host.run() goes on although
                          \* it was cancelled

flags == <<suspendedBySystem, isScanning, isPairing>>
loopVars == <<running, runPc, todo>>
vars == <<running, suspended, event, woken, runPc, host, todo, paired, orphan,
          devices, powered, lock, waiters, task, suspendedBySystem, isScanning,
          isPairing, shutPc, userOff, races>>

Waits   == {"waitResume", "waitDevices", "delay"}
RunPcs  == Waits \cup {"top", "host", "cleanup", "done"}
TaskPcs == {"idle", "asked", "fresh", "queued", "joining", "cleaning",
            "opening", "radio", "hangup"}

TaskStates == [Tasks -> [pc : TaskPcs, op : AllOps, dev : Devices]]

\* The operations in flight, with t's at another point or at its end.
Moved(t, pc)       == [task EXCEPT ![t].pc = pc]
Asked(t, op, d, pc) == [task EXCEPT ![t] = [pc |-> pc, op |-> op, dev |-> d]]
Idle(t)            == [task EXCEPT ![t].pc = "idle", ![t].op = "start"]

Init ==
  /\ running = FALSE /\ suspended = FALSE /\ event = FALSE /\ woken = FALSE
  /\ runPc = "top" /\ host = NoHost /\ todo = {}
  /\ paired = FALSE /\ orphan = FALSE
  /\ devices \in SUBSET Devices
  /\ powered = TRUE
  /\ lock = NoTask /\ waiters = <<>>
  /\ task \in [Tasks -> [pc : {"idle"}, op : {"start"}, dev : Devices]]
  /\ suspendedBySystem = FALSE /\ isScanning = FALSE /\ isPairing = FALSE
  /\ shutPc = "up" /\ userOff = FALSE /\ races = {}

-----------------------------------------------------------------------------
(* Helpers                                                                 *)

\* c is what a cancel() made of h: did host.run() lose it?  After a lost race it
\* ends all the same.
Swallowed(h, c) ==
  IF c = h /\ Live(h) /\ h.phase # "drainLost" THEN {"swallowed"} ELSE {}
\* The host is h when it is cancelled.
CancelHost(h, met) ==
  \E c \in CancelledHosts(h) : host' = c /\ races' = met \cup Swallowed(h, c)

\* A slip: suspend() and stop() take the host to have no transport.
NoTransport(h) == FALSE
\* host.transport is assigned only when create_bumble_device() returns.
HasTransport(h) == h.obj /\ h.open /\ h.phase # "open"

\* Who is inside an await of host.cleanup() on the daemon's host.
CleaningTasks == {t \in Tasks : task[t].pc = "cleaning"}
Cleaners == (IF runPc = "cleanup" THEN {"run"} ELSE {})
            \cup (IF shutPc = "cleaning" THEN {"stop"} ELSE {})
Cleaning == Cleaners # {} \/ CleaningTasks # {}

\* cleanup() ends with the transport closed, unless another cleanup() of the
\* same host took hid_host away under it (HostCleanup shows both outcomes).
AfterCleanup(h, others) ==
  {Closed(h)} \cup (IF others THEN {h} ELSE {})

\* run() is in the loop's ready queue: with its wait over, or at its first step.
Woken == woken /\ runPc \in {"waitResume", "waitDevices"}
WakePending == Woken \/ runPc = "top"
LoopSettled == ~WakePending /\ host.phase # "ended"

\* A slip: resume() without the set().
ResumeUnset == suspended' = FALSE /\ UNCHANGED <<event, woken>>
\* daemon.resume()
Resume ==
  /\ suspended' = FALSE
  /\ event' = TRUE
  /\ woken' = (woken \/ runPc \in Waits)

-----------------------------------------------------------------------------
(* HIDDaemon.run(): where the loop goes next.  h is the host it leaves      *)
(* behind, devs the devices.conf it reads, ev the state of _resume_event.   *)

GoTo(pc, ev, h) ==
  /\ runPc' = pc /\ event' = ev /\ host' = h
  /\ woken' = (pc = "delay" /\ ev)
  /\ UNCHANGED <<paired, powered, orphan>>

StartHost(ev, h) ==
  /\ runPc' = "host" /\ event' = ev /\ woken' = FALSE
  /\ host' = NewHost(paired)
  /\ paired' = FALSE /\ powered' = TRUE
  /\ orphan' = (orphan \/ h.open)

PassGate(devs, ev, h) ==
  \/ devs = {} /\ GoTo("waitDevices", FALSE, h)
  \/ devs # {} /\ StartHost(ev, h)

LoopTop(go, devs, ev, h) ==
  \/ ~go /\ GoTo("done", ev, h)
  \/ go /\ suspended /\ ~ev /\ GoTo("waitResume", ev, h)
  \/ go /\ suspended /\ ev /\ PassGate(devs, FALSE, h)
  \/ go /\ ~suspended /\ PassGate(devs, ev, h)

AfterHost(skipDelay, devs, h) ==
  \/ ~running /\ GoTo("done", event, h)
  \/ running /\ (suspended \/ skipDelay) /\ LoopTop(TRUE, devs, event, h)
  \/ running /\ ~suspended /\ ~skipDelay /\ GoTo("delay", event, h)

runFrame == <<suspended, lock, waiters, task, flags, shutPc, userOff>>

RunStart ==
  /\ runPc = "top"
  /\ running' = TRUE
  /\ LoopTop(TRUE, devices, event, host)
  /\ UNCHANGED <<runFrame, todo, devices, races>>

\* `if self._suspended: await event.wait()`: woken, it does not look again.
RunResumed ==
  /\ runPc = "waitResume" /\ woken
  /\ \/ ~running /\ GoTo("done", FALSE, host)
     \/ running /\ PassGate(devices, FALSE, host)
  /\ UNCHANGED <<runFrame, running, todo, devices, races>>

RunDevicesChanged ==
  /\ runPc = "waitDevices" /\ woken
  /\ LoopTop(running, devices, FALSE, host)
  /\ UNCHANGED <<runFrame, running, todo, devices, races>>

\* The reconnect delay ends by the event (cleared) or by its timeout (not).
RunDelayOver ==
  /\ runPc = "delay"
  /\ \/ woken /\ LoopTop(running, devices, FALSE, host)
     \/ LoopTop(running, devices, event, host)
  /\ UNCHANGED <<runFrame, running, todo, devices, races>>

\* devices.conf once run() has dealt with what the host reported.
AfterReports(reports) ==
  IF "unplug" \in reports THEN {devices \ {d} : d \in Devices} ELSE {devices}

\* Past cleanup(): act on an unplug or a stale key, then go on.
ActOn(reports, h) ==
  \E devs \in AfterReports(reports) :
    devices' = devs /\ AfterHost(reports # {}, devs, h)

\* _host_task ended: clean up after it, unless suspend() owns that.
RunHostEnded ==
  /\ runPc = "host" /\ host.phase = "ended"
  /\ LET h == At(host, "none")
     IN \/ /\ host.obj /\ ~suspended /\ host.open
           /\ todo' = host.report
           /\ GoTo("cleanup", event, Says(h, {}))
           /\ races' = (races \ {"swallowed"})
                       \cup (IF Cleaning THEN {"radio"} ELSE {})
           /\ UNCHANGED devices
        \/ /\ host.obj /\ ~suspended /\ ~host.open
           /\ ActOn(host.report, Dropped(h))
           /\ races' = races \ {"swallowed"}
           /\ UNCHANGED todo
        \/ /\ ~host.obj \/ suspended
           /\ AfterHost(FALSE, devices, h)
           /\ races' = races \ {"swallowed"}
           /\ UNCHANGED <<todo, devices>>
  /\ UNCHANGED <<runFrame, running>>

RunCleaned ==
  /\ runPc = "cleanup"
  /\ \E h \in AfterCleanup(host, CleaningTasks # {} \/ shutPc = "cleaning") :
       ActOn(todo, Dropped(h))
  /\ todo' = {}
  /\ UNCHANGED <<runFrame, running, races>>

\* remove_device() failing in the finally block ends run() and with it the
\* daemon (remove_pairing_key() swallows its own errors).
RunWriteFails ==
  /\ WriteFails /\ runPc = "cleanup" /\ "unplug" \in todo
  /\ \E h \in AfterCleanup(host, CleaningTasks # {} \/ shutPc = "cleaning") :
       GoTo("done", event, Dropped(h))
  /\ todo' = {}
  /\ UNCHANGED <<runFrame, running, devices, races>>

-----------------------------------------------------------------------------
(* The host task, as the daemon sees it                                     *)

hostFrame == <<running, suspended, event, woken, runPc, todo, paired, orphan,
               devices, lock, waiters, task, flags, shutPc, userOff, races>>

HostNext == LifeNext /\ UNCHANGED hostFrame

-----------------------------------------------------------------------------
(* Requests: the API handlers and the power monitor, both up before run()   *)

askFrame == <<loopVars, suspended, event, woken, host, paired, orphan,
              powered, lock, waiters, shutPc>>

Ask(t, op, d, pc) ==
  /\ op \in Ops /\ task[t].pc = "idle" /\ ~Woken
  /\ task' = Asked(t, op, d, pc)

AskScan(t) ==
  /\ ~isScanning
  /\ \E d \in Devices : Ask(t, "scan", d, "fresh")
  /\ userOff' = FALSE
  /\ UNCHANGED <<askFrame, races, devices, flags>>

\* request_pair() tests is_pairing and sets it in two steps of an HTTP thread.
AskPair(t) ==
  /\ ~isPairing
  /\ \E d \in Devices : Ask(t, "pair", d, "asked")
  /\ userOff' = FALSE
  /\ UNCHANGED <<askFrame, races, devices, flags>>

SubmitPair(t) ==
  /\ task[t].pc = "asked" /\ ~Woken
  /\ task' = Moved(t, "fresh")
  /\ isPairing' = TRUE
  /\ UNCHANGED <<askFrame, races, devices, suspendedBySystem, isScanning, userOff>>

AskConnect(t) ==
  /\ \E d \in Devices : Ask(t, "connect", d, "fresh")
  /\ userOff' = FALSE
  /\ UNCHANGED <<askFrame, races, devices, flags>>

AskStart(t) ==
  /\ ~(running /\ ~suspended)
  /\ \E d \in Devices : Ask(t, "start", d, "fresh")
  /\ userOff' = FALSE
  /\ UNCHANGED <<askFrame, races, devices, flags>>

AskStop(t) ==
  /\ ~suspended
  /\ \E d \in Devices : Ask(t, "stop", d, "fresh")
  /\ userOff' = TRUE
  /\ UNCHANGED <<askFrame, races, devices, flags>>

\* /stop on a suspended daemon schedules nothing and answers "Already stopped".
AnswerAlreadyStopped ==
  /\ "stop" \in Ops /\ suspended /\ ~userOff
  /\ userOff' = TRUE
  /\ UNCHANGED <<askFrame, races, devices, flags, task>>

AskDisconnect(t) ==
  /\ \E d \in Devices : Ask(t, "disconnect", d, "fresh")
  /\ UNCHANGED <<askFrame, races, devices, flags, userOff>>

\* request_remove(): the HTTP thread edits devices.conf, then disconnects.
AskRemove(t) ==
  /\ \E d \in devices : /\ Ask(t, "remove", d, "fresh")
                        /\ devices' = devices \ {d}
  /\ races' = IF paired THEN races \cup {"radio"} ELSE races
  /\ UNCHANGED <<askFrame, flags, userOff>>

PowerEvent(t) ==
  /\ \E op \in {"systemSuspend", "systemResume"}, d \in Devices :
       Ask(t, op, d, "fresh")
  /\ UNCHANGED <<askFrame, races, devices, flags, userOff>>

-----------------------------------------------------------------------------
(* The operations, under _op_lock                                           *)

opFrame == <<loopVars, shutPc>>

\* asyncio.Lock: the fast path when free and unawaited, else strictly FIFO.
MustQueue == lock # NoTask \/ waiters # <<>>
CanTakeHeld(t) == task[t].pc \in {"fresh", "queued"}   \* a slip: no lock
CanTake(t) ==
  /\ lock = NoTask
  /\ \/ task[t].pc = "fresh" /\ waiters = <<>> /\ runPc # "top"
     \/ task[t].pc = "queued" /\ waiters # <<>> /\ Head(waiters) = t /\ LoopSettled
Dequeued == IF waiters = <<>> THEN waiters ELSE Tail(waiters)

Enqueue(t) ==
  /\ task[t].pc = "fresh" /\ MustQueue
  /\ task' = Moved(t, "queued")
  /\ waiters' = Append(waiters, t)
  /\ UNCHANGED <<opFrame, suspended, event, woken, host, paired, orphan, devices,
                 powered, lock, flags, userOff, races>>

\* The operation is over: leave the lock.
ReleaseKept(t) == lock' = lock /\ task' = Idle(t)      \* a slip: lock kept
Release(t) == lock' = NoTask /\ task' = Idle(t)
Hold(t, pc) == lock' = t /\ task' = Moved(t, pc)

\* A slip: the flags fall on one path only.
EndFlagged(t) == Resume /\ Release(t) /\ UNCHANGED <<isScanning, isPairing>>
\* finally: is_scanning / is_pairing = False, then daemon.resume()
EndRadioOp(t) ==
  /\ Resume
  /\ Release(t)
  /\ isScanning' = (isScanning /\ task[t].op # "scan")
  /\ isPairing' = (isPairing /\ task[t].op # "pair")

\* What each operation does once daemon.suspend() has returned, with h the
\* host suspend() leaves and ev the state it leaves _resume_event in.
AfterSuspend(t, h, ev) ==
  /\ host' = h
  /\ UNCHANGED <<paired, orphan, userOff>>
  /\ \/ /\ task[t].op \in {"scan", "pair"}
        /\ suspended' = TRUE /\ event' = ev /\ woken' = woken
        /\ powered' = TRUE
        /\ Hold(t, "opening")
        /\ UNCHANGED devices
     \/ /\ task[t].op = "connect"
        /\ devices' \in {devices \cup {task[t].dev}}
                        \cup (IF WriteFails THEN {devices} ELSE {})
        /\ Resume
        /\ Release(t)
        /\ UNCHANGED powered
     \/ /\ task[t].op \in {"stop", "systemSuspend"}
        /\ suspended' = TRUE /\ event' = ev /\ woken' = woken
        /\ powered' = FALSE
        /\ Release(t)
        /\ UNCHANGED devices

\* suspend() with no host task to await: the rest of the host's teardown.
TearDown(t, ev, met) ==
  \/ /\ HasTransport(host)
     /\ suspended' = TRUE /\ event' = ev /\ woken' = woken
     /\ Hold(t, "cleaning")
     /\ races' = met \cup (IF Cleaning THEN {"radio"} ELSE {})
     /\ UNCHANGED <<host, paired, orphan, devices, powered, userOff>>
  \/ /\ ~HasTransport(host)
     /\ AfterSuspend(t, IF host.obj THEN Dropped(host) ELSE host, ev)
     /\ races' = met

\* daemon.suspend() from its first line: cancel _host_task and await it.  ev
\* is the state it leaves _resume_event in.
SuspendWith(t, ev) ==
  LET met == races \cup (IF woken THEN {"radio"} ELSE {})
  IN \/ /\ Live(host)
        /\ suspended' = TRUE /\ event' = ev /\ woken' = woken
        /\ CancelHost(host, met)
        /\ Hold(t, "joining")
        /\ UNCHANGED <<paired, orphan, devices, powered, userOff>>
     \/ ~Live(host) /\ TearDown(t, ev, met)

SuspendUncleared(t) == SuspendWith(t, event)   \* a slip: no clear()
Suspend(t) == SuspendWith(t, FALSE)

DoScan(t) ==
  /\ task[t].op = "scan" /\ CanTake(t) /\ waiters' = Dequeued
  /\ isScanning' = TRUE
  /\ Suspend(t)
  /\ UNCHANGED <<opFrame, suspendedBySystem, isPairing>>

DoPairOrConnect(t) ==
  /\ task[t].op \in {"pair", "connect"} /\ CanTake(t) /\ waiters' = Dequeued
  /\ Suspend(t)
  /\ UNCHANGED <<opFrame, flags>>

DoStop(t) ==
  /\ task[t].op = "stop" /\ CanTake(t) /\ waiters' = Dequeued
  /\ Suspend(t)
  /\ UNCHANGED <<opFrame, flags>>

DoSystemSuspend(t) ==
  /\ task[t].op = "systemSuspend" /\ CanTake(t) /\ waiters' = Dequeued
  /\ ~suspended
  /\ suspendedBySystem' = TRUE
  /\ Suspend(t)
  /\ UNCHANGED <<opFrame, isScanning, isPairing>>

\* The host task that suspend() cancelled has ended, and run() has seen it.
Joined(t) ==
  /\ task[t].pc = "joining" /\ ~Live(host) /\ LoopSettled
  /\ TearDown(t, event, races)
  /\ UNCHANGED <<opFrame, waiters, flags>>

\* suspend()'s host.cleanup() is over: `self.host = None`, even if run() has
\* made another host since (whose transport was not the one closed).
Cleaned(t) ==
  /\ task[t].pc = "cleaning" /\ LoopSettled
  /\ \E h \in IF Live(host) THEN {host} ELSE AfterCleanup(host, Cleaners # {}) :
       AfterSuspend(t, Dropped(h), event)
  /\ UNCHANGED <<opFrame, waiters, flags, races>>

\* Scanner.start() / HIDHost.start() of the operation's own transport.
Opened(t) ==
  /\ task[t].pc = "opening" /\ LoopSettled
  /\ Hold(t, "radio")
  /\ UNCHANGED <<opFrame, suspended, event, woken, host, paired, orphan, devices,
                 powered, waiters, flags, userOff, races>>

\* The scan or the pairing is over without a host to keep: its own cleanup()
\* has closed the transport, or the open failed.
RadioOpEnds(t) ==
  /\ task[t].pc \in {"opening", "radio"} /\ LoopSettled
  /\ EndRadioOp(t)
  /\ powered' \in {powered} \cup (IF task[t].pc = "opening" THEN {FALSE} ELSE {})
  /\ UNCHANGED <<opFrame, host, paired, orphan, devices, waiters,
                 suspendedBySystem, userOff, races>>

\* Paired: the open host is handed to run() and the device is added.
PairSucceeds(t) ==
  /\ task[t].pc = "radio" /\ task[t].op = "pair" /\ LoopSettled
  /\ paired' = TRUE
  /\ orphan' = (orphan \/ paired)
  /\ \/ devices' = devices \cup {task[t].dev} /\ races' = races
     \/ WriteFails /\ devices' = devices /\ races' = races \cup {"radio"}
  /\ EndRadioOp(t)
  /\ UNCHANGED <<opFrame, host, powered, waiters, suspendedBySystem, userOff>>

\* _do_resume(), for /start
DoResume(t) ==
  /\ task[t].op = "start" /\ CanTake(t) /\ waiters' = Dequeued
  /\ suspendedBySystem' = FALSE
  /\ IF suspended THEN Resume ELSE UNCHANGED <<suspended, event, woken>>
  /\ Release(t)
  /\ UNCHANGED <<opFrame, host, paired, orphan, devices, powered, isScanning,
                 isPairing, userOff, races>>

DoSystemResume(t) ==
  /\ task[t].op = "systemResume" /\ CanTake(t) /\ waiters' = Dequeued
  /\ suspendedBySystem' = FALSE
  /\ IF suspendedBySystem /\ suspended THEN Resume
     ELSE UNCHANGED <<suspended, event, woken>>
  /\ Release(t)
  /\ UNCHANGED <<opFrame, host, paired, orphan, devices, powered, isScanning,
                 isPairing, userOff, races>>

\* _do_system_suspend() on a daemon that is suspended already.
SkipSystemSuspend(t) ==
  /\ task[t].op = "systemSuspend" /\ CanTake(t) /\ waiters' = Dequeued
  /\ suspended
  /\ Release(t)
  /\ UNCHANGED <<opFrame, suspended, event, woken, host, paired, orphan, devices,
                 powered, flags, userOff, races>>

\* Has the host a link that daemon.disconnect() would drop first?
MayBeConnected == host.obj /\ host.open /\ host.phase \notin {"new", "starting", "open"}

\* daemon.disconnect(): drop a live link first, then cancel _host_task.
DoDisconnect(t) ==
  /\ task[t].op \in {"disconnect", "remove"} /\ CanTake(t) /\ waiters' = Dequeued
  /\ \/ MayBeConnected /\ Hold(t, "hangup") /\ UNCHANGED <<host, races>>
     \/ Release(t) /\ CancelHost(host, races)
  /\ UNCHANGED <<opFrame, suspended, event, woken, paired, orphan, devices,
                 powered, flags, userOff>>

\* connection.disconnect() returned (or raised: then nothing is cancelled).
HungUp(t) ==
  /\ task[t].pc = "hangup"
  /\ Release(t)
  /\ CancelHost(host, races) \/ UNCHANGED <<host, races>>
  /\ UNCHANGED <<opFrame, suspended, event, woken, paired, orphan, devices,
                 powered, waiters, flags, userOff>>

-----------------------------------------------------------------------------
(* main() after SIGTERM or SIGINT                                           *)

shutFrame == <<suspended, paired, orphan, devices, powered, lock, waiters, task,
               flags, userOff, todo>>

\* daemon_task.cancel(): the await run() is at raises CancelledError; the one on
\* the host task passes it on to that, and one of cleanup()'s wait_for()s may
\* lose it, which run(), no longer running, does not need.
CancelRunOnly(h) ==                            \* a slip: host task left alone
  /\ shutPc' = "down" /\ runPc' = (IF runPc = "host" THEN "host" ELSE "done")
  /\ host' = h /\ races' = races
CancelRun(h) ==
  /\ shutPc' = "down"
  /\ \/ runPc \in Waits \cup {"done"} /\ runPc' = "done" /\ host' = h /\ races' = races
     \/ /\ runPc = "cleanup" /\ runPc' \in {"cleanup", "done"}
        /\ host' \in {h} \cup (IF runPc' = "done" THEN {Closed(h)} ELSE {})
        /\ races' = races
     \/ /\ runPc = "host" /\ runPc' = "host"
        /\ CancelHost(h, races)

\* daemon.stop(), up to its await or through to the cancellation.
Shutdown ==
  /\ Signals /\ shutPc = "up" /\ runPc \notin {"top", "done"}
  /\ running' = FALSE /\ event' = TRUE
  /\ \/ /\ HasTransport(host)
        /\ shutPc' = "cleaning"
        /\ woken' = (woken \/ runPc \in Waits)
        /\ races' = IF Cleaning THEN races \cup {"radio"} ELSE races
        /\ UNCHANGED <<runPc, host>>
     \/ /\ ~HasTransport(host)
        /\ CancelRun(host)
        /\ woken' = FALSE
  /\ UNCHANGED shutFrame

ShutdownCleaned ==
  /\ shutPc = "cleaning"
  /\ \E h \in AfterCleanup(host, runPc = "cleanup" \/ CleaningTasks # {}) :
       CancelRun(h)
  /\ woken' = FALSE
  /\ UNCHANGED <<shutFrame, running, event>>

-----------------------------------------------------------------------------

RunNext == RunStart \/ RunResumed \/ RunDevicesChanged \/ RunDelayOver
           \/ RunHostEnded \/ RunCleaned \/ RunWriteFails
AskNext(t) == AskScan(t) \/ AskPair(t) \/ SubmitPair(t) \/ AskConnect(t)
              \/ AskStart(t) \/ AskStop(t) \/ AskDisconnect(t) \/ AskRemove(t)
              \/ PowerEvent(t)
OpNext(t) == Enqueue(t) \/ DoScan(t) \/ DoPairOrConnect(t) \/ DoStop(t)
             \/ DoSystemSuspend(t) \/ Joined(t) \/ Cleaned(t) \/ Opened(t)
             \/ RadioOpEnds(t) \/ PairSucceeds(t) \/ DoResume(t)
             \/ DoSystemResume(t) \/ SkipSystemSuspend(t) \/ DoDisconnect(t)
             \/ HungUp(t)

\* run() has returned and main() is past daemon.stop(): the process exits.
Exited == runPc = "done" /\ shutPc # "cleaning"

Next ==
  \/ /\ ~Exited
     /\ \/ RunNext
        \/ HostNext
        \/ AnswerAlreadyStopped
        \/ \E t \in Tasks : AskNext(t) \/ OpNext(t)
        \/ Shutdown
        \/ ShutdownCleaned
  \/ Exited /\ UNCHANGED vars

Spec == Init /\ [][Next]_vars

\* The loop runs whatever is ready; host.run() has a timeout on every wait up
\* to the 60 s one for a connection, and cleanup() one on each of its own; a
\* scan lasts 10 s.  Nothing bounds how long a device stays connected
\* (HostLoses), nor says that anyone asks for anything.  An operation's step is
\* strongly fair, and so is the second half of request_pair(): LoopSettled and
\* ~Woken only put them behind run() in the ready queue.
Fairness ==
  /\ WF_vars(~Exited /\ RunNext)
  /\ WF_vars(~Exited /\ UNCHANGED hostFrame
             /\ (HostBegins \/ HostOpens \/ HostStarted \/ HostSettled \/ HostDrained))
  /\ \A t \in Tasks : SF_vars(~Exited /\ (OpNext(t) \/ SubmitPair(t)))
  /\ WF_vars(~Exited /\ ShutdownCleaned)

FairSpec == Spec /\ Fairness

-----------------------------------------------------------------------------
(* Properties                                                               *)

\* Every variable keeps its type; the host's says that host.run() never starts
\* on a transport that is open (daemon.py:158-171).
TypeOK ==
  /\ running \in BOOLEAN /\ suspended \in BOOLEAN /\ event \in BOOLEAN
  /\ woken \in BOOLEAN /\ runPc \in RunPcs /\ host \in Hosts
  /\ todo \in SUBSET Reports /\ paired \in BOOLEAN /\ orphan \in BOOLEAN
  /\ devices \in SUBSET Devices /\ powered \in BOOLEAN
  /\ lock \in Tasks \cup {NoTask} /\ waiters \in Seq(Tasks)
  /\ task \in TaskStates
  /\ suspendedBySystem \in BOOLEAN /\ isScanning \in BOOLEAN /\ isPairing \in BOOLEAN
  /\ shutPc \in {"up", "cleaning", "down"} /\ userOff \in BOOLEAN
  /\ races \in SUBSET {"radio", "swallowed"}

InLock == {"joining", "cleaning", "opening", "radio", "hangup"}

\* The transports that are open on the one radio.
OpenRadios ==
  (IF host.open THEN {"host"} ELSE {}) \cup (IF paired THEN {"paired"} ELSE {})
  \cup (IF orphan THEN {"orphan"} ELSE {})
  \cup {t \in Tasks : task[t].pc = "radio"}

\* daemon.py:47/72/83: scan and pair run while suspended, with the transport
\* released, so that no two users of the radio have it open at once.
RadioExclusive == \A a, b \in OpenRadios : a = b

\* The same, except after one of the four known races: an operation that
\* suspends a resumed daemon before run() wakes, two cleanup() calls at once,
\* a pairing whose devices.conf write failed, or a /remove before run() takes
\* the paired host.  Nothing else makes two users share the radio or leaves a
\* transport open that no one can close any more.
RadioExclusiveUnlessRaced ==
  "radio" \notin races => RadioExclusive /\ ~orphan

\* A daemon left suspended by a finished operation is really off: chip powered
\* down, no transport open, no host task alive.  _do_system_suspend returns
\* early on a suspended daemon and relies on it; every other operation resumes.
SuspendedIsOff ==
  /\ lock = NoTask /\ suspended
  /\ "radio" \notin races
  => ~powered /\ OpenRadios = {} /\ ~Live(host)

\* A resumed daemon never sleeps on: run() waits for _resume_event only while
\* it is suspended, and for devices only while there are none, or its wakeup
\* is due (daemon.py:138-152, all the set()/clear() pairs).
NoLostWakeup ==
  ~woken /\ running =>
    /\ runPc = "waitResume" => suspended
    /\ runPc = "waitDevices" => devices = {}

\* A suspended, running daemon has _resume_event clear, so that the wait at
\* daemon.py:140 does wait.
SuspendedIsUnset == suspended /\ running => ~event

\* The progress flags the clients poll never stick: is_scanning only while a
\* scan holds the lock, is_pairing only while a pairing is in flight.
FlagsEnd ==
  /\ isScanning => \E t \in Tasks : lock = t /\ task[t].op = "scan"
  /\ isPairing => \E t \in Tasks : task[t].op = "pair" /\ task[t].pc \notin {"idle", "asked"}

\* controller.py:314: /stop suspends the daemon entirely; with nothing in
\* flight, a daemon whose last request was an acknowledged /stop is suspended.
StopHonoured ==
  userOff /\ running /\ (\A t \in Tasks : task[t].pc = "idle") => suspended

\* daemon.py:137: after a suspend() the loop waits; it starts no host while the
\* daemon is suspended.
StartsOnlyResumed ==
  [][host.phase = "none" /\ host'.phase \in {"new", "handoff"} => ~suspended]_vars

\* Every accepted request is carried out and leaves the lock, unless host.run()
\* lost the cancellation that some suspend() waits on.
OpsComplete ==
  \A t \in Tasks : task[t].pc # "idle"
                   ~> task[t].pc = "idle" \/ "swallowed" \in races \/ Exited

\* A daemon that is neither suspended nor out of devices goes on trying, unless
\* its loop was ended by a devices.conf it could not write (daemon.py:206).
Reconnects ==
  running /\ ~suspended /\ devices # {}
  ~> Live(host) \/ suspended \/ devices = {} \/ ~running \/ Exited

\* After a signal the process comes to its exit, whatever was in flight.
ShutdownCompletes ==
  shutPc # "up" ~> Exited \/ "swallowed" \in races

\* daemon.py:52: suspend() first cancels the host task, which stops host.run()'s
\* connect loop; so its wait for that task ends.
SuspendGoesOn ==
  \A t \in Tasks : task[t].pc = "joining" ~> task[t].pc # "joining"
=============================================================================
