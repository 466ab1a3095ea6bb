----------------------------- MODULE Transport -----------------------------
(* Below the hosts: opening and closing the HCI transport (transport.py),  *)
(* the chip's power and its warm hand-off from Amazon's stack (bt_mtk.py,  *)
(* bt_brcm.py), and the CPU latency pin (cpu_latency.py).                  *)
(*                                                                         *)
(* A user is a HIDHost or a Scanner.  prepare(), ensure_powered() and      *)
(* power_off() call no await: while a hand-off is under way the loop does  *)
(* nothing else, and only btd, bsa_server and other processes move.        *)
EXTENDS Naturals

CONSTANTS
  Users,        \* hosts and scanners
  WarmupRetries \* BSA_WARMUP_RETRIES

ASSUME RetriesAssumption == WarmupRetries \in Nat \ {0}

VARIABLES
  kind,         \* the chip backend: "mtk" or "brcm"
  deep,         \* _plan() finds idle states that are too deep for the UART
  pc,           \* the await each user is at, from ensure_powered() to close()
  fds,          \* users whose descriptor of the device is open
  stale,        \* a descriptor of ours is open that no user refers to
  foreign,      \* another process has /dev/stpbt open
  step,         \* where prepare() is; "free" when the loop runs
  tries,        \* btd recoveries in this prepare()
  warm,         \* BrcmChip._warm
  enabled,      \* /proc/bluetooth/btenable
  btd, bsa,     \* Amazon's daemons: btd, and whether bsa_server runs
  held,         \* what CpuLatencyHold has: a PM QoS fd, a flag to restore, "no"
  saved,        \* the flag it will restore
  disabled,     \* the kernel's cpuidle disable flag of the deep states
  missed,       \* history: what was last tried in vain, its failure only logged
  races,        \* history: "overlap", two users at once or power_off() under
                \* one; "rearmed", a paired host's chip was re-warmed under it
  disturbed,    \* history: btd was restarted by others since it was frozen
  crashed       \* history: the process has been killed

userVars  == <<pc, fds, stale>>
amazon    == <<enabled, btd, bsa>>
pin       == <<held, saved, disabled>>
pinVars   == <<pin, missed>>
history   == <<races, disturbed, crashed>>
fixed     == <<kind, deep>>
vars == <<fixed, userVars, foreign, step, tries, warm, amazon, pinVars, history>>

Steps == {"free", "check", "waiting", "freeze", "kill", "evict", "dead"}
Using   == {"reset", "up", "paired", "closing"}    \* the transport is open
UserPcs == {"idle", "arming", "opening", "retrying", "refused"} \cup Using

Quiet == \A u \in Users : pc[u] = "idle"
InUse == {u \in Users : pc[u] \in Using}
LoopRuns == step = "free"

Met(known, now, race) == IF now THEN known \cup {race} ELSE known

Tried(what, inVain) == IF inVain THEN missed \cup {what} ELSE missed \ {what}

\* The kernel keeps out of deep idle.
Blocked == disabled \/ held = "qos"

Init ==
  /\ \/ /\ kind = "mtk" /\ deep = FALSE
        /\ foreign \in BOOLEAN /\ bsa = FALSE /\ enabled = FALSE
     \/ /\ kind = "brcm" /\ deep \in BOOLEAN
        /\ foreign = FALSE /\ bsa \in BOOLEAN /\ enabled \in BOOLEAN
  /\ pc = [u \in Users |-> "idle"] /\ fds = {} /\ stale = FALSE
  /\ step = "check" /\ tries = 0 /\ warm = FALSE /\ btd = "up"
  /\ held = "no" /\ saved = FALSE /\ disabled = FALSE /\ missed = {}
  /\ races = {} /\ disturbed = FALSE /\ crashed = FALSE

-----------------------------------------------------------------------------
(* CpuLatencyHold                                                          *)

Acquire ==
  \/ /\ held # "no" \/ ~deep
     /\ UNCHANGED pinVars
  \/ /\ held = "no" /\ deep
     /\ \/ /\ held' = "qos"
           /\ UNCHANGED <<saved, disabled>>
        \/ /\ held' = "sysfs" /\ saved' = disabled /\ disabled' = TRUE
        \/ UNCHANGED pin               \* no PM QoS, and sysfs is not writable
     /\ missed' = Tried("pin", held' = "no")

\* Closing the QoS descriptor, or writing the saved flag back; what cannot be
\* written back is forgotten.
Release ==
  /\ held' = "no" /\ saved' = FALSE
  /\ \/ /\ held # "sysfs"
        /\ UNCHANGED <<disabled, missed>>
     \/ /\ held = "sysfs"
        /\ disabled' = saved
        /\ missed' = IF saved THEN missed ELSE Tried("unpin", FALSE)
     \/ /\ held = "sysfs"
        /\ UNCHANGED disabled
        /\ missed' = Tried("unpin", TRUE)

ReleaseNothing == UNCHANGED pinVars                      \* a slip: no release

-----------------------------------------------------------------------------
(* The chip's power                                                        *)

\* A slip: the hand-off still counts as ours.
PowerOffWarm ==
  /\ Release
  /\ \/ UNCHANGED amazon
     \/ /\ enabled /\ enabled' = FALSE
        /\ UNCHANGED btd \/ btd' = "up"
        /\ UNCHANGED bsa
  /\ UNCHANGED warm

\* BrcmChip.power_off().  The radio may be off already, or btenable may not
\* be writable; a frozen btd may sit out its restart.
PowerOff ==
  /\ Release
  /\ warm' = FALSE
  /\ \/ UNCHANGED amazon
     \/ /\ enabled /\ enabled' = FALSE
        /\ UNCHANGED btd \/ btd' = "up"
        /\ UNCHANGED bsa

\* MtkChip inherits a power_off() that does nothing.
TurnedOff == \/ kind = "brcm" /\ PowerOff
             \/ kind = "mtk" /\ UNCHANGED <<warm, amazon, pinVars>>

NotPreparing == UNCHANGED <<foreign, step, tries, disturbed, crashed, fixed>>

\* /stop or the system's suspend, once daemon.suspend() has returned.
TurnOff ==
  /\ LoopRuns
  /\ TurnedOff
  /\ races' = Met(races, ~Quiet, "overlap")
  /\ NotPreparing /\ UNCHANGED userVars

\* Whether ensure_powered() finds our hand-off in place, or bsa_server back;
\* pgrep may fail and see none.
Findings == {ours \in BOOLEAN :
               IF ours THEN kind = "mtk" \/ warm
                       ELSE kind = "brcm" /\ (warm => bsa)}

EnsurePowered(ours) ==
  \/ /\ ours
     /\ UNCHANGED <<step, warm, amazon, pinVars>>
  \/ /\ ~ours /\ warm
     /\ step' = "check"
     /\ PowerOff
  \/ /\ ~ours /\ ~warm
     /\ step' = "check"
     /\ UNCHANGED <<warm, amazon, pinVars>>

\* run(), a scan or a pairing begins.
Arm(u) ==
  /\ LoopRuns /\ pc[u] = "idle"
  /\ \E ours \in Findings :
       /\ EnsurePowered(ours)
       /\ pc' = [pc EXCEPT ![u] = IF ours THEN "opening" ELSE "arming"]
  /\ races' = Met(races, ~Quiet, "overlap")
  /\ tries' = 0
  /\ UNCHANGED <<fds, stale, foreign, disturbed, crashed, fixed>>

\* run() takes the paired host over, but calls ensure_powered() first.
TakePaired(u) ==
  /\ LoopRuns /\ pc[u] = "paired"
  /\ pc' = [pc EXCEPT ![u] = "up"]
  /\ \E ours \in Findings :
       /\ EnsurePowered(ours)
       /\ races' = Met(Met(races, \E v \in Users \ {u} : pc[v] # "idle", "overlap"),
                       ~ours, "rearmed")
  /\ tries' = 0
  /\ UNCHANGED <<fds, stale, foreign, disturbed, crashed, fixed>>

prepFrame == <<fds, stale, races, crashed, fixed>>

\* prepare() is over.  No caller looks at what it returned: whoever asked for
\* the chip goes on to open the transport.
Prepared ==
  /\ step' = "free"
  /\ pc' = [u \in Users |-> IF pc[u] = "arming" THEN "opening" ELSE pc[u]]

\* MtkChip.prepare(), at the daemon's start: evict whoever has the device.
MtkPrepare ==
  /\ kind = "mtk" /\ step = "check"
  /\ UNCHANGED foreign \/ foreign' = FALSE
  /\ Prepared
  /\ UNCHANGED <<prepFrame, tries, warm, amazon, pinVars, disturbed>>

\* BrcmChip.prepare(): the device node may be missing; if no bsa_server is
\* found, btfd is asked to start it.
CheckBsa ==
  /\ kind = "brcm" /\ step = "check"
  /\ warm' = FALSE
  /\ \/ bsa /\ step' = "freeze" /\ UNCHANGED pc
     \/ step' = "waiting" /\ UNCHANGED pc
     \/ Prepared
  /\ UNCHANGED <<prepFrame, foreign, tries, amazon, pinVars, disturbed>>

BsaUp ==
  /\ step = "waiting" /\ bsa
  /\ step' = "freeze"
  /\ UNCHANGED <<prepFrame, pc, foreign, tries, warm, amazon, pinVars, disturbed>>

\* A slip: no count.
RecoverForever ==
  /\ step = "waiting"
  /\ tries' = tries + 1
  /\ btd' = "up" /\ missed' = Tried("thaw", FALSE)
  /\ UNCHANGED <<prepFrame, pc, foreign, step, warm, enabled, bsa, pin, disturbed>>

\* A slip: the restart of a btd that is still frozen.
RecoverFrozen ==
  /\ step = "waiting" /\ tries < WarmupRetries
  /\ tries' = tries + 1
  /\ UNCHANGED <<prepFrame, pc, foreign, step, warm, amazon, pinVars, disturbed>>

\* The wait is over: thaw and restart btd, ask again, wait again.  pgrep may
\* miss a frozen btd, and the restart then hang.
RecoverBtd ==
  /\ step = "waiting" /\ tries < WarmupRetries
  /\ tries' = tries + 1
  /\ btd' \in {btd, "up"} /\ missed' = Tried("thaw", btd' = "frozen")
  /\ UNCHANGED <<prepFrame, pc, foreign, step, warm, enabled, bsa, pin, disturbed>>

GiveUp ==
  /\ step = "waiting" /\ tries = WarmupRetries
  /\ Prepared
  /\ UNCHANGED <<prepFrame, foreign, tries, warm, amazon, pinVars, disturbed>>

\* Each of the two may find nobody, or be refused the signal, and goes on.
FreezeBtd ==
  /\ step = "freeze"
  /\ btd' \in {btd, "frozen"} /\ missed' = Tried("freeze", btd' = "up")
  /\ disturbed' = FALSE
  /\ step' = "kill"
  /\ UNCHANGED <<prepFrame, pc, foreign, tries, warm, enabled, bsa, pin>>

KillBsa ==
  /\ step = "kill"
  /\ bsa' \in {bsa, FALSE} /\ missed' = Tried("kill", bsa')
  /\ step' = "evict"
  /\ UNCHANGED <<prepFrame, pc, foreign, tries, warm, enabled, btd, pin, disturbed>>

\* The process is gone.  The kernel closes its descriptors, and with them the
\* QoS request; a sysfs flag stays as it was written.
Killed ==
  /\ step' = "dead" /\ crashed' = TRUE
  /\ pc' = [u \in Users |-> "idle"] /\ fds' = {} /\ stale' = FALSE
  /\ warm' = FALSE /\ tries' = 0
  /\ held' = "no" /\ saved' = FALSE
  /\ races' = {} /\ missed' = {}
  /\ UNCHANGED <<foreign, amazon, disabled, disturbed, fixed>>

\* free_device(): `fuser -k` kills whoever has the UART open, a bsa_server that
\* is back and this very process included; or fuser is missing or too slow.
EvictHolders ==
  /\ step = "evict"
  /\ \/ /\ warm' = TRUE
        /\ UNCHANGED bsa \/ bsa' = FALSE
        /\ Prepared
        /\ UNCHANGED <<prepFrame, foreign, tries, enabled, btd, pinVars, disturbed>>
     \/ (fds # {} \/ stale) /\ Killed

-----------------------------------------------------------------------------
(* create_bumble_device() and the close of what it returned                *)

userFrame == <<step, tries, enabled, btd, bsa, disturbed, crashed, races, fixed>>

Move(u, at) == pc' = [pc EXCEPT ![u] = at]

\* /dev/stpbt can be open once; a UART as often as one likes.
Busy == kind = "mtk" /\ (foreign \/ stale \/ fds # {})

\* The transport is open; on_transport_open() takes the pin.
OpenSucceeds(u) ==
  /\ LoopRuns /\ pc[u] \in {"opening", "retrying"} /\ ~Busy
  /\ fds' = fds \cup {u}
  /\ Move(u, "reset")
  /\ \/ kind = "brcm" /\ Acquire
     \/ kind = "mtk" /\ UNCHANGED pinVars
  /\ UNCHANGED <<userFrame, stale, foreign, warm>>

\* A slip: the descriptors found are counted, not closed.
CountLeaked(u) ==
  /\ LoopRuns /\ pc[u] = "opening" /\ Busy /\ (stale \/ fds # {})
  /\ Move(u, "retrying")
  /\ UNCHANGED <<userFrame, fds, stale, foreign, warm, pinVars>>

\* EBUSY: close every descriptor of ours on the device and try once more.
ReleaseLeaked(u) ==
  /\ LoopRuns /\ pc[u] = "opening" /\ Busy /\ (stale \/ fds # {})
  /\ fds' = {} /\ stale' = FALSE
  /\ Move(u, "retrying")
  /\ UNCHANGED <<userFrame, foreign, warm, pinVars>>

\* EBUSY with nothing of ours to close, or EBUSY again.
OpenRefused(u) ==
  /\ LoopRuns /\ Busy
  /\ \/ pc[u] = "opening" /\ ~stale /\ fds = {}
     \/ pc[u] = "retrying"
  /\ Move(u, "refused")
  /\ UNCHANGED <<userFrame, fds, stale, foreign, warm, pinVars>>

\* Any other error, and what a refused user does next.
OpenFails(u) ==
  /\ LoopRuns /\ pc[u] \in {"opening", "retrying", "refused"}
  /\ Move(u, "idle")
  /\ UNCHANGED <<userFrame, fds, stale, foreign, warm, pinVars>>

\* The open times out or is cancelled with the device already open.
OpenCut(u) ==
  /\ LoopRuns /\ pc[u] \in {"opening", "retrying"} /\ ~Busy
  /\ stale' = TRUE
  /\ Move(u, "idle")
  /\ UNCHANGED <<userFrame, fds, foreign, warm, pinVars>>

Created(u) ==
  /\ LoopRuns /\ pc[u] = "reset"
  /\ Move(u, "up")
  /\ UNCHANGED <<userFrame, fds, stale, foreign, warm, pinVars>>

\* The reset or power_on() fails or is cancelled.
CreateFails(u) ==
  /\ LoopRuns /\ pc[u] = "reset"
  /\ fds' = fds \ {u}
  /\ Release
  /\ Move(u, "idle")
  /\ UNCHANGED <<userFrame, stale, foreign, warm>>

\* A slip: it powers off and lets the same transport try again.
ResetRetries(u) ==
  /\ LoopRuns /\ pc[u] = "reset"
  /\ TurnedOff
  /\ UNCHANGED <<pc, fds>>
  /\ NotPreparing /\ UNCHANGED <<stale, races>>

\* A slip: it re-warms the chip at once, under its own transport.
ResetRewarms(u) ==
  /\ LoopRuns /\ pc[u] = "reset"
  /\ TurnedOff
  /\ step' = "check" /\ tries' = 0
  /\ UNCHANGED <<userVars, foreign, disturbed, crashed, races, fixed>>

\* on_hci_reset_timeout() powers off, for the next ensure_powered() to re-warm.
ResetTimesOut(u) ==
  /\ LoopRuns /\ pc[u] = "reset"
  /\ fds' = fds \ {u}
  /\ TurnedOff
  /\ Move(u, "idle")
  /\ NotPreparing /\ UNCHANGED <<stale, races>>

\* pair_device() has succeeded: the daemon keeps the host for run().
Paired(u) ==
  /\ LoopRuns /\ pc[u] = "up"
  /\ Move(u, "paired")
  /\ UNCHANGED <<userFrame, fds, stale, foreign, warm, pinVars>>

Cleanup(u) ==
  /\ LoopRuns /\ pc[u] = "up"
  /\ Move(u, "closing")
  /\ UNCHANGED <<userFrame, fds, stale, foreign, warm, pinVars>>

ClosedKeeping(u) ==       \* a slip: the pin goes only when the close was clean
  /\ LoopRuns /\ pc[u] = "closing"
  /\ fds' = fds \ {u}
  /\ \/ UNCHANGED stale /\ Release
     \/ u \in fds /\ stale' = TRUE /\ ReleaseNothing
  /\ Move(u, "idle")
  /\ UNCHANGED <<userFrame, foreign, warm>>

\* The close is over, or is given up after 3 s and leaves the descriptor open;
\* on_transport_close() drops the pin either way.
Closed(u) ==
  /\ LoopRuns /\ pc[u] = "closing"
  /\ fds' = fds \ {u}
  /\ \/ UNCHANGED stale
     \/ u \in fds /\ stale' = TRUE
  /\ Release
  /\ Move(u, "idle")
  /\ UNCHANGED <<userFrame, foreign, warm>>

-----------------------------------------------------------------------------
(* Everybody else                                                          *)

daemonVars == <<userVars, step, tries, warm, pinVars, races, crashed, fixed>>

BtdSpawnsBsa ==
  /\ kind = "brcm" /\ btd = "up" /\ ~bsa
  /\ bsa' = TRUE /\ enabled' = TRUE
  /\ UNCHANGED <<daemonVars, foreign, btd, disturbed>>

BsaDies ==
  /\ bsa
  /\ bsa' = FALSE
  /\ UNCHANGED <<daemonVars, foreign, enabled, btd, disturbed>>

\* init or the framework restarts btd behind the hand-off.
BtdRestarted ==
  /\ btd = "frozen"
  /\ btd' = "up" /\ disturbed' = TRUE
  /\ UNCHANGED <<daemonVars, foreign, enabled, bsa>>

ForeignOpens ==
  /\ kind = "mtk" /\ ~Busy
  /\ foreign' = TRUE
  /\ UNCHANGED <<daemonVars, amazon, disturbed>>

ForeignCloses ==
  /\ foreign
  /\ foreign' = FALSE
  /\ UNCHANGED <<daemonVars, amazon, disturbed>>

Crash == step # "dead" /\ Killed

\* upstart respawns the daemon; main() begins with prepare_bt().
Restart ==
  /\ step = "dead"
  /\ step' = "check"
  /\ UNCHANGED <<userVars, foreign, tries, warm, amazon, pinVars, history, fixed>>

Prepare == \/ MtkPrepare \/ CheckBsa \/ BsaUp \/ RecoverBtd \/ GiveUp
           \/ FreezeBtd \/ KillBsa \/ EvictHolders

UserNext(u) == \/ Arm(u) \/ TakePaired(u) \/ Paired(u) \/ OpenSucceeds(u)
               \/ ReleaseLeaked(u) \/ OpenRefused(u) \/ OpenFails(u)
               \/ OpenCut(u) \/ Created(u) \/ CreateFails(u)
               \/ ResetTimesOut(u) \/ Cleanup(u) \/ Closed(u)

World == \/ BtdSpawnsBsa \/ BsaDies \/ BtdRestarted \/ ForeignOpens
         \/ ForeignCloses \/ Crash \/ Restart

Next == Prepare \/ TurnOff \/ World \/ \E u \in Users : UserNext(u)

Spec == Init /\ [][Next]_vars

-----------------------------------------------------------------------------
(* Properties                                                              *)

TypeOK ==
  /\ kind \in {"mtk", "brcm"} /\ deep \in BOOLEAN
  /\ pc \in [Users -> UserPcs] /\ fds \subseteq Users
  /\ step \in Steps /\ tries \in 0 .. WarmupRetries
  /\ btd \in {"up", "frozen"}
  /\ stale \in BOOLEAN /\ foreign \in BOOLEAN /\ warm \in BOOLEAN
  /\ enabled \in BOOLEAN /\ bsa \in BOOLEAN
  /\ held \in {"no", "qos", "sysfs"} /\ saved \in BOOLEAN /\ disabled \in BOOLEAN
  /\ missed \subseteq {"freeze", "kill", "thaw", "pin", "unpin"}
  /\ races \subseteq {"overlap", "rearmed"} /\ disturbed \in BOOLEAN /\ crashed \in BOOLEAN

\* While the UART is open the kernel stays out of the idle states that lose its
\* bytes (cpu_latency.py:1-14 and :62), as long as the users take turns and the
\* pin could be had at all.  It does not: run() re-arms the chip under a paired
\* host (daemon.py:155).
PinWhileOpen ==
  "overlap" \notin races /\ deep /\ InUse # {} => Blocked \/ "pin" \in missed

\* The hooks release the one pin there is, whoever took it; a chip re-warmed
\* under a paired host apart, users that take turns always have it.
PinHeld == "rearmed" \notin races => PinWhileOpen

\* The pin never outlives the transports, in any order of opens, failures,
\* time-outs and late closes; except that a sysfs flag survives a kill, and a
\* failed write of the value to restore (cpu_latency.py:130-163).
PinNotLeft ==
  Blocked => InUse # {} \/ (disabled /\ (crashed \/ "unpin" \in missed))

\* A hand-off, which ends in `fuser -k` on the UART, is never under way while a
\* user of this process has it open (bt_brcm.py:289-303), with the same
\* exceptions.
EvictsNoUser == races = {} /\ step \notin {"free", "dead"} => fds = {}

\* bsa_server is not on the UART behind a hand-off that counts as ours, unless
\* the hand-off's own signal to btd or to bsa_server went astray, or somebody
\* else restarted btd: btd is frozen before bsa_server is killed, and powering
\* off, which lets btd start it again, gives the claim up (bt_brcm.py:115-133
\* and :274-287).
WarmIsOurs ==
  (warm \/ step = "evict") /\ bsa => disturbed \/ missed \cap {"freeze", "kill"} # {}

\* Warming up is not given up with btd still frozen by an earlier hand-off,
\* of this process or of one that crashed, unless the last attempt to thaw it
\* went astray (bt_brcm.py:69-82).
GivesUpThawed ==
  [][step = "waiting" /\ step' = "free" => btd = "up" \/ "thaw" \in missed]_vars

\* EBUSY is raised to a user only because of another process: what this process
\* leaked itself is found and closed first (transport.py:99-108).
RefusedByOthers ==
  [][\A u \in Users : pc'[u] = "refused" /\ pc[u] # "refused"
                        => foreign \/ "overlap" \in races]_vars
=============================================================================
