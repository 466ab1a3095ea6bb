-------------------------- MODULE TransportProofs --------------------------
(* What holds of the transport, the chip and the pin for any number of users. *)
EXTENDS Transport, TLAPS

\* Users that take turns: at most one is past ensure_powered().
Turns ==
  "overlap" \notin races =>
    \A u, v \in Users : pc[u] # "idle" /\ pc[v] # "idle" => u = v

\* Only a user of an open transport has its descriptor open.
OpenFds == \A u \in fds : pc[u] \in Using

\* A process starts with nothing open, held or counted.
Fresh ==
  /\ step = "dead" => Quiet /\ fds = {} /\ held = "no"
  /\ step \in {"dead", "check"} => tries = 0

\* The kernel's state follows the hold, and the hold has a transport under it;
\* what a kill or a failed write left behind in sysfs apart.
LeftInSysfs == crashed \/ "unpin" \in missed

HoldOK ==
  /\ held # "no" => deep /\ \E u \in Users : pc[u] \in Using
  /\ held = "sysfs" => disabled
  /\ disabled /\ held # "sysfs" => LeftInSysfs
  /\ saved => LeftInSysfs

\* Users that take turns hold the pin while they use the transport, if it was
\* to be had.
Pinned ==
  races = {} /\ deep =>
    \A u \in Users : pc[u] \in Using => held # "no" \/ "pin" \in missed

\* MediaTek has no pin and no warm hand-off.
KindOK == kind = "mtk" => ~deep /\ step \in {"free", "check", "dead"}

\* _warm is down during prepare().
ColdWhilePreparing == step # "free" => ~warm

\* From the freeze on btd stays frozen, unless the freeze went astray or others
\* restart it.
StaysFrozen ==
  (warm \/ step \in {"kill", "evict"}) /\ ~disturbed
    => btd = "frozen" \/ "freeze" \in missed

Thawed == step = "waiting" /\ tries > 0 => btd = "up" \/ "thaw" \in missed

\* A user that tries again found nothing left of ours on the device.
NothingLeaked ==
  \A u \in Users :
    pc[u] = "retrying" /\ "overlap" \notin races => ~stale /\ fds = {}

ChipInv == KindOK /\ ColdWhilePreparing /\ StaysFrozen /\ WarmIsOurs /\ Thawed

UserInv == Turns /\ OpenFds /\ NothingLeaked /\ EvictsNoUser

PinInv == HoldOK /\ Pinned

IInv == TypeOK /\ Fresh /\ ChipInv /\ UserInv /\ PinInv

-----------------------------------------------------------------------------
(* Types                                                                    *)

\* TypeOK in parts: who is where, where prepare() is, and the rest.
UserType == pc \in [Users -> UserPcs] /\ fds \subseteq Users
StepType == step \in Steps /\ tries \in 0 .. WarmupRetries
ChipType ==
  /\ kind \in {"mtk", "brcm"} /\ deep \in BOOLEAN
  /\ warm \in BOOLEAN /\ enabled \in BOOLEAN /\ bsa \in BOOLEAN
  /\ btd \in {"up", "frozen"}
PinType ==
  /\ held \in {"no", "qos", "sysfs"} /\ saved \in BOOLEAN /\ disabled \in BOOLEAN
  /\ missed \subseteq {"freeze", "kill", "thaw", "pin", "unpin"}
FlagType ==
  /\ stale \in BOOLEAN /\ foreign \in BOOLEAN
  /\ races \subseteq {"overlap", "rearmed"}
  /\ disturbed \in BOOLEAN /\ crashed \in BOOLEAN

LEMMA TypeParts == TypeOK <=> UserType /\ StepType /\ ChipType /\ PinType /\ FlagType
  BY DEF TypeOK, UserType, StepType, ChipType, PinType, FlagType

LEMMA TypeInit == Init => TypeOK
<1> SUFFICES ASSUME Init PROVE TypeOK
  OBVIOUS
<1>1. UserType
  BY DEF Init, UserType, UserPcs, Using
<1>2. StepType
  BY RetriesAssumption DEF Init, StepType, Steps
<1>3. ChipType /\ PinType
  BY DEF Init, ChipType, PinType
<1>4. FlagType
  BY DEF Init, FlagType
<1> QED BY <1>1, <1>2, <1>3, <1>4, TypeParts

LEMMA UserTypeStep ==
  ASSUME UserType, [Next]_vars
  PROVE  UserType'
<1> USE DEF UserType, UserPcs, Using
<1>1. CASE Prepare
  BY <1>1 DEF Prepare, MtkPrepare, CheckBsa, BsaUp, RecoverBtd, GiveUp, FreezeBtd,
       KillBsa, EvictHolders, Prepared, Killed, prepFrame
<1>2. CASE TurnOff \/ World \/ UNCHANGED vars
  BY <1>2 DEF TurnOff, World, BtdSpawnsBsa, BsaDies, BtdRestarted, ForeignOpens,
       ForeignCloses, Crash, Restart, Killed, daemonVars, userVars, vars
<1>3. ASSUME NEW u \in Users, UserNext(u)
      PROVE  UserType'
  <2>1. CASE Arm(u) \/ TakePaired(u)
    BY <2>1 DEF Arm, TakePaired
  <2>2. CASE OpenSucceeds(u) \/ ReleaseLeaked(u) \/ OpenRefused(u) \/ OpenFails(u)
    BY <2>2 DEF OpenSucceeds, ReleaseLeaked, OpenRefused, OpenFails, Move
  <2>3. CASE OpenCut(u) \/ Created(u) \/ Paired(u) \/ Cleanup(u)
    BY <2>3 DEF OpenCut, Created, Paired, Cleanup, Move
  <2>4. CASE CreateFails(u) \/ ResetTimesOut(u) \/ Closed(u)
    BY <2>4 DEF CreateFails, ResetTimesOut, Closed, Move
  <2> QED BY <1>3, <2>1, <2>2, <2>3, <2>4 DEF UserNext
<1> QED BY <1>1, <1>2, <1>3 DEF Next

LEMMA StepTypeStep ==
  ASSUME StepType, [Next]_vars
  PROVE  StepType'
<1> USE RetriesAssumption DEF StepType, Steps
<1>1. CASE Prepare
  <2>1. CASE RecoverBtd
    BY <2>1 DEF RecoverBtd
  <2>2. CASE MtkPrepare \/ CheckBsa \/ BsaUp \/ GiveUp
    BY <2>2 DEF MtkPrepare, CheckBsa, BsaUp, GiveUp, Prepared
  <2>3. CASE FreezeBtd \/ KillBsa
    BY <2>3 DEF FreezeBtd, KillBsa
  <2>4. CASE EvictHolders
    BY <2>4 DEF EvictHolders, Prepared, Killed
  <2> QED BY <1>1, <2>1, <2>2, <2>3, <2>4 DEF Prepare
<1>2. CASE TurnOff \/ World \/ UNCHANGED vars
  BY <1>2 DEF TurnOff, NotPreparing, World, BtdSpawnsBsa, BsaDies, BtdRestarted,
       ForeignOpens, ForeignCloses, Crash, Restart, Killed, daemonVars, vars
<1>3. ASSUME NEW u \in Users, UserNext(u)
      PROVE  StepType'
  <2>1. CASE Arm(u) \/ TakePaired(u)
    <3>1. (\E ours \in Findings : EnsurePowered(ours)) /\ tries' = 0
      BY <2>1 DEF Arm, TakePaired
    <3>2. step' = step \/ step' = "check"
      BY <3>1 DEF EnsurePowered
    <3> QED BY <3>1, <3>2
  <2>2. CASE ~(Arm(u) \/ TakePaired(u))
    BY <1>3, <2>2 DEF UserNext, OpenSucceeds, ReleaseLeaked, OpenRefused, OpenFails,
         OpenCut, Created, Paired, Cleanup, CreateFails, ResetTimesOut, Closed,
         userFrame, NotPreparing
  <2> QED BY <2>1, <2>2
<1> QED BY <1>1, <1>2, <1>3 DEF Next

LEMMA ChipTypeStep ==
  ASSUME ChipType, [Next]_vars
  PROVE  ChipType'
<1> USE DEF ChipType, amazon, fixed
<1>1. CASE Prepare
  BY <1>1 DEF Prepare, MtkPrepare, CheckBsa, BsaUp, RecoverBtd, GiveUp, FreezeBtd,
       KillBsa, EvictHolders, Prepared, Killed, prepFrame
<1>2. CASE TurnOff \/ World \/ UNCHANGED vars
  BY <1>2 DEF TurnOff, NotPreparing, TurnedOff, PowerOff, World, BtdSpawnsBsa,
       BsaDies, BtdRestarted, ForeignOpens, ForeignCloses, Crash, Restart, Killed,
       daemonVars, vars
<1>3. ASSUME NEW u \in Users, UserNext(u)
      PROVE  ChipType'
  <2>1. CASE Arm(u) \/ TakePaired(u)
    BY <2>1 DEF Arm, TakePaired, EnsurePowered, PowerOff
  <2>2. CASE ResetTimesOut(u)
    BY <2>2 DEF ResetTimesOut, TurnedOff, PowerOff, NotPreparing
  <2>3. CASE ~(Arm(u) \/ TakePaired(u) \/ ResetTimesOut(u))
    BY <1>3, <2>3 DEF UserNext, OpenSucceeds, ReleaseLeaked, OpenRefused, OpenFails,
         OpenCut, Created, Paired, Cleanup, CreateFails, Closed, userFrame
  <2> QED BY <2>1, <2>2, <2>3
<1> QED BY <1>1, <1>2, <1>3 DEF Next

LEMMA PinTypeStep ==
  ASSUME PinType, [Next]_vars
  PROVE  PinType'
<1>1. Release => PinType'
  BY DEF PinType, Release, Tried
<1>2. UNCHANGED pinVars => PinType'
  BY DEF PinType, pinVars, pin
<1>3. CASE Prepare
  <2>1. CASE Killed
    BY <2>1 DEF Killed, PinType
  <2>2. CASE RecoverBtd \/ FreezeBtd \/ KillBsa
    BY <2>2 DEF RecoverBtd, FreezeBtd, KillBsa, PinType, Tried, pin
  <2>3. CASE UNCHANGED pinVars
    BY <1>2, <2>3
  <2> QED BY <1>3, <2>1, <2>2, <2>3 DEF Prepare, MtkPrepare, CheckBsa, BsaUp, GiveUp,
           EvictHolders
<1>4. CASE TurnOff
  BY <1>1, <1>2, <1>4 DEF TurnOff, TurnedOff, PowerOff
<1>5. CASE World
  <2>1. CASE Killed
    BY <2>1 DEF Killed, PinType
  <2> QED BY <1>2, <1>5, <2>1 DEF World, BtdSpawnsBsa, BsaDies, BtdRestarted,
           ForeignOpens, ForeignCloses, Crash, Restart, daemonVars
<1>6. ASSUME NEW u \in Users, UserNext(u)
      PROVE  PinType'
  <2>1. CASE OpenSucceeds(u)
    BY <1>2, <2>1 DEF OpenSucceeds, Acquire, Tried, PinType, pin
  <2>2. CASE ~OpenSucceeds(u)
    <3>1. Release \/ UNCHANGED pinVars
      BY <1>6, <2>2 DEF UserNext, Arm, TakePaired, EnsurePowered, PowerOff, TurnedOff,
           ReleaseLeaked, OpenRefused, OpenFails, OpenCut, Created, Paired, Cleanup,
           CreateFails, ResetTimesOut, Closed
    <3> QED BY <1>1, <1>2, <3>1
  <2> QED BY <2>1, <2>2
<1> QED BY <1>2, <1>3, <1>4, <1>5, <1>6 DEF Next, vars

LEMMA FlagTypeStep ==
  ASSUME FlagType, [Next]_vars
  PROVE  FlagType'
<1> USE DEF FlagType, Met, history, userVars
<1>1. CASE Prepare
  BY <1>1 DEF Prepare, MtkPrepare, CheckBsa, BsaUp, RecoverBtd, GiveUp, FreezeBtd,
       KillBsa, EvictHolders, Prepared, Killed, prepFrame
<1>2. CASE TurnOff \/ World \/ UNCHANGED vars
  BY <1>2 DEF TurnOff, NotPreparing, World, BtdSpawnsBsa, BsaDies, BtdRestarted,
       ForeignOpens, ForeignCloses, Crash, Restart, Killed, daemonVars, vars
<1>3. ASSUME NEW u \in Users, UserNext(u)
      PROVE  FlagType'
  <2>1. CASE Arm(u) \/ TakePaired(u)
    BY <2>1 DEF Arm, TakePaired
  <2>2. CASE ~(Arm(u) \/ TakePaired(u))
    BY <1>3, <2>2 DEF UserNext, OpenSucceeds, ReleaseLeaked, OpenRefused, OpenFails,
         OpenCut, Created, Paired, Cleanup, CreateFails, ResetTimesOut, Closed,
         userFrame, NotPreparing
  <2> QED BY <2>1, <2>2
<1> QED BY <1>1, <1>2, <1>3 DEF Next

LEMMA TypeStep ==
  ASSUME TypeOK, [Next]_vars
  PROVE  TypeOK'
<1>1. UserType /\ StepType /\ ChipType /\ PinType /\ FlagType
  BY TypeParts
<1>2. UserType' /\ StepType' /\ ChipType' /\ PinType' /\ FlagType'
  BY <1>1, UserTypeStep, StepTypeStep, ChipTypeStep, PinTypeStep, FlagTypeStep
<1> QED BY <1>2 DEF TypeOK, UserType, StepType, ChipType, PinType, FlagType

-----------------------------------------------------------------------------
(* The hand-off                                                             *)

LEMMA FreshStep ==
  ASSUME IInv, [Next]_vars
  PROVE  Fresh'
<1> USE DEF IInv, Fresh, Quiet
<1>1. CASE Prepare
  BY <1>1 DEF Prepare, MtkPrepare, CheckBsa, BsaUp, RecoverBtd, GiveUp, FreezeBtd,
       KillBsa, EvictHolders, Prepared, Killed, prepFrame
<1>2. CASE TurnOff \/ World \/ UNCHANGED vars
  BY <1>2 DEF TurnOff, LoopRuns, NotPreparing, World, BtdSpawnsBsa, BsaDies,
       BtdRestarted, ForeignOpens, ForeignCloses, Crash, Restart, Killed, daemonVars,
       userVars, pinVars, pin, vars
<1>3. ASSUME NEW u \in Users, UserNext(u)
      PROVE  Fresh'
  <2>1. CASE Arm(u) \/ TakePaired(u)
    <3>1. (\E ours \in Findings : EnsurePowered(ours)) /\ tries' = 0 /\ step = "free"
      BY <2>1 DEF Arm, TakePaired, LoopRuns
    <3>2. step' \in {"free", "check"}
      BY <3>1 DEF EnsurePowered
    <3> QED BY <3>1, <3>2
  <2>2. CASE ~(Arm(u) \/ TakePaired(u))
    <3>1. step = "free" /\ step' = step
      BY <1>3, <2>2 DEF UserNext, OpenSucceeds, ReleaseLeaked, OpenRefused, OpenFails,
           OpenCut, Created, Paired, Cleanup, CreateFails, ResetTimesOut, Closed,
           userFrame, NotPreparing, LoopRuns
    <3> QED BY <3>1
  <2> QED BY <2>1, <2>2
<1> QED BY <1>1, <1>2, <1>3 DEF Next

LEMMA ChipStep ==
  ASSUME IInv, [Next]_vars
  PROVE  ChipInv'
<1> USE DEF ChipInv, KindOK, ColdWhilePreparing, StaysFrozen, WarmIsOurs, Thawed,
            IInv, amazon, pinVars, fixed
<1>1. CASE Prepare
  <2>1. CASE MtkPrepare \/ BsaUp \/ GiveUp
    BY <2>1 DEF MtkPrepare, BsaUp, GiveUp, Prepared, prepFrame
  <2>2. CASE CheckBsa
    BY <2>2 DEF CheckBsa, Prepared, prepFrame, Fresh
  <2>3. CASE FreezeBtd
    <3>1. btd' = "frozen" \/ "freeze" \in missed'
      BY <2>3 DEF FreezeBtd, Tried, TypeOK
    <3> QED BY <2>3, <3>1 DEF FreezeBtd, prepFrame
  <2>4. CASE KillBsa
    <3>1. /\ bsa' => "kill" \in missed'
          /\ "freeze" \in missed => "freeze" \in missed'
      BY <2>4 DEF KillBsa, Tried, TypeOK
    <3> QED BY <2>4, <3>1 DEF KillBsa, prepFrame
  <2>5. CASE RecoverBtd
    BY <2>5 DEF RecoverBtd, Tried, TypeOK, prepFrame
  <2>6. CASE EvictHolders
    BY <2>6 DEF EvictHolders, Prepared, Killed, prepFrame
  <2> QED BY <1>1, <2>1, <2>2, <2>3, <2>4, <2>5, <2>6 DEF Prepare
<1>2. CASE TurnOff
  BY <1>2 DEF TurnOff, TurnedOff, PowerOff, LoopRuns, NotPreparing
<1>3. CASE World \/ UNCHANGED vars
  BY <1>3 DEF World, BtdSpawnsBsa, BsaDies, BtdRestarted, ForeignOpens,
       ForeignCloses, Crash, Restart, Killed, daemonVars, history, vars
<1>4. ASSUME NEW u \in Users, UserNext(u)
      PROVE  ChipInv'
  <2>1. CASE Arm(u) \/ TakePaired(u)
    <3>1. PICK ours \in Findings : EnsurePowered(ours)
      BY <2>1 DEF Arm, TakePaired
    <3>2. step = "free" /\ UNCHANGED <<disturbed, fixed>> /\ tries' = 0
      BY <2>1 DEF Arm, TakePaired, LoopRuns
    <3>3. CASE ours /\ UNCHANGED <<step, warm, amazon, pinVars>>
      BY <3>2, <3>3
    <3>4. CASE ~ours /\ step' = "check" /\ warm' = FALSE
      BY <3>2, <3>4 DEF Findings
    <3>5. CASE ~ours /\ ~warm /\ step' = "check" /\ UNCHANGED <<warm, amazon, pinVars>>
      BY <3>2, <3>5 DEF Findings
    <3> QED BY <3>1, <3>3, <3>4, <3>5 DEF EnsurePowered, PowerOff
  <2>2. CASE ResetTimesOut(u)
    BY <2>2 DEF ResetTimesOut, TurnedOff, PowerOff, LoopRuns, NotPreparing
  <2>3. CASE OpenSucceeds(u) \/ CreateFails(u) \/ Closed(u)
    <3>1. missed \cap {"freeze", "kill", "thaw"} \subseteq missed'
      BY <2>3 DEF OpenSucceeds, CreateFails, Closed, Acquire, Release, Tried
    <3>2. step = "free" /\ UNCHANGED <<userFrame, warm>>
      BY <2>3 DEF OpenSucceeds, CreateFails, Closed, LoopRuns
    <3> QED BY <3>1, <3>2 DEF userFrame
  <2>4. CASE ~(Arm(u) \/ TakePaired(u) \/ ResetTimesOut(u)
                \/ OpenSucceeds(u) \/ CreateFails(u) \/ Closed(u))
    BY <1>4, <2>4 DEF UserNext, ReleaseLeaked, OpenRefused, OpenFails,
         OpenCut, Created, Paired, Cleanup, userFrame
  <2> QED BY <2>1, <2>2, <2>3, <2>4
<1> QED BY <1>1, <1>2, <1>3, <1>4 DEF Next

-----------------------------------------------------------------------------
(* The users                                                                *)

LEMMA UserPrepareStep ==
  ASSUME IInv, Prepare
  PROVE  UserInv'
<1> USE DEF UserInv, Turns, OpenFds, NothingLeaked, EvictsNoUser, IInv
<1>1. CASE MtkPrepare \/ CheckBsa \/ GiveUp
  <2>1. UNCHANGED <<fds, stale, races>> /\ (step' = "free" \/ (pc' = pc /\ step # "free" /\ step # "dead"))
    BY <1>1 DEF MtkPrepare, CheckBsa, GiveUp, Prepared, prepFrame
  <2>2. pc' = pc \/ pc' = [v \in Users |-> IF pc[v] = "arming" THEN "opening" ELSE pc[v]]
    BY <1>1 DEF MtkPrepare, CheckBsa, GiveUp, Prepared
  <2> QED BY <2>1, <2>2 DEF TypeOK, UserPcs, Using
<1>2. CASE BsaUp \/ RecoverBtd \/ FreezeBtd \/ KillBsa
  <2>1. UNCHANGED <<pc, fds, stale, races>> /\ step \notin {"free", "dead"}
    BY <1>2 DEF BsaUp, RecoverBtd, FreezeBtd, KillBsa, prepFrame
  <2> QED BY <2>1
<1>3. CASE EvictHolders
  <2>1. CASE Killed
    BY <2>1 DEF Killed
  <2>2. CASE Prepared /\ UNCHANGED prepFrame
    BY <2>2 DEF Prepared, prepFrame, TypeOK, UserPcs, Using
  <2> QED BY <1>3, <2>1, <2>2 DEF EvictHolders
<1> QED BY <1>1, <1>2, <1>3 DEF Prepare

\* A step of u that moves nobody else and keeps the races that are known.
LEMMA TurnsStep ==
  ASSUME IInv, NEW u \in Users, NEW at, pc' = [pc EXCEPT ![u] = at],
         \/ pc[u] # "idle" /\ races \subseteq races'
         \/ "overlap" \in races'
         \/ Quiet /\ races \subseteq races'
  PROVE  Turns'
  BY DEF IInv, UserInv, Turns, Quiet, TypeOK

LEMMA UserStep ==
  ASSUME IInv, NEW u \in Users, UserNext(u)
  PROVE  UserInv'
<1> USE DEF UserInv, IInv
<1>1. CASE Arm(u)
  <2>1. Turns'
    BY <1>1, TurnsStep DEF Arm, Met
  <2>2. OpenFds' /\ NothingLeaked'
    BY <1>1 DEF Arm, OpenFds, NothingLeaked, Turns, TypeOK, UserPcs, Using, Met
  <2>3. EvictsNoUser'
    <3>1. CASE races' = {}
      BY <1>1, <3>1 DEF Arm, Met, Quiet, OpenFds, EvictsNoUser, TypeOK, Using
    <3>2. CASE races' # {}
      BY <3>2 DEF EvictsNoUser
    <3> QED BY <3>1, <3>2
  <2> QED BY <2>1, <2>2, <2>3
<1>2. CASE TakePaired(u)
  <2>1. Turns'
    BY <1>2, TurnsStep DEF TakePaired, Met
  <2>2. OpenFds' /\ NothingLeaked'
    BY <1>2 DEF TakePaired, OpenFds, NothingLeaked, TypeOK, UserPcs, Using, Met
  <2>3. EvictsNoUser'
    <3>1. PICK ours \in Findings :
            /\ EnsurePowered(ours)
            /\ races' = Met(Met(races, \E v \in Users \ {u} : pc[v] # "idle", "overlap"),
                            ~ours, "rearmed")
      BY <1>2 DEF TakePaired
    <3>2. CASE ours
      BY <1>2, <3>1, <3>2 DEF TakePaired, EnsurePowered, LoopRuns, EvictsNoUser
    <3>3. CASE ~ours
      BY <3>1, <3>3 DEF Met, EvictsNoUser
    <3> QED BY <3>2, <3>3
  <2> QED BY <2>1, <2>2, <2>3
<1>3. CASE OpenSucceeds(u)
  <2>1. Turns'
    BY <1>3, TurnsStep DEF OpenSucceeds, Move, userFrame
  <2>2. OpenFds' /\ EvictsNoUser'
    BY <1>3 DEF OpenSucceeds, Move, userFrame, LoopRuns, OpenFds, EvictsNoUser, TypeOK,
         UserPcs, Using
  <2>3. NothingLeaked'
    BY <1>3 DEF OpenSucceeds, Move, userFrame, NothingLeaked, Turns, TypeOK
  <2> QED BY <2>1, <2>2, <2>3
<1>4. CASE ReleaseLeaked(u) \/ OpenRefused(u) \/ OpenFails(u)
  <2>1. Turns'
    BY <1>4, TurnsStep DEF ReleaseLeaked, OpenRefused, OpenFails, Move, userFrame
  <2>2. OpenFds' /\ EvictsNoUser' /\ NothingLeaked'
    BY <1>4 DEF ReleaseLeaked, OpenRefused, OpenFails, Move, userFrame, LoopRuns,
         OpenFds, EvictsNoUser, NothingLeaked, TypeOK, UserPcs, Using
  <2> QED BY <2>1, <2>2
<1>5. CASE OpenCut(u)
  <2>1. Turns'
    BY <1>5, TurnsStep DEF OpenCut, Move, userFrame
  <2>2. OpenFds' /\ EvictsNoUser'
    BY <1>5 DEF OpenCut, Move, userFrame, LoopRuns, OpenFds, EvictsNoUser, TypeOK,
         UserPcs, Using
  <2>3. NothingLeaked'
    BY <1>5 DEF OpenCut, Move, userFrame, NothingLeaked, Turns, TypeOK
  <2> QED BY <2>1, <2>2, <2>3
<1>6. CASE Created(u) \/ Paired(u) \/ Cleanup(u)
  <2>1. Turns'
    BY <1>6, TurnsStep DEF Created, Paired, Cleanup, Move, userFrame
  <2>2. OpenFds' /\ EvictsNoUser' /\ NothingLeaked'
    BY <1>6 DEF Created, Paired, Cleanup, Move, userFrame, LoopRuns,
         OpenFds, EvictsNoUser, NothingLeaked, TypeOK, UserPcs, Using
  <2> QED BY <2>1, <2>2
<1>7. CASE CreateFails(u) \/ ResetTimesOut(u) \/ Closed(u)
  <2>1. Turns'
    BY <1>7, TurnsStep DEF CreateFails, ResetTimesOut, Closed, Move, userFrame
  <2>2. OpenFds' /\ EvictsNoUser'
    BY <1>7 DEF CreateFails, ResetTimesOut, Closed, Move, userFrame, NotPreparing,
         LoopRuns, OpenFds, EvictsNoUser, TypeOK, UserPcs, Using
  <2>3. NothingLeaked'
    BY <1>7 DEF CreateFails, ResetTimesOut, Closed, Move, userFrame, NothingLeaked,
         Turns, TypeOK
  <2> QED BY <2>1, <2>2, <2>3
<1> QED BY <1>1, <1>2, <1>3, <1>4, <1>5, <1>6, <1>7 DEF UserNext

LEMMA UserInvStep ==
  ASSUME IInv, [Next]_vars
  PROVE  UserInv'
<1> USE DEF UserInv, Turns, OpenFds, NothingLeaked, EvictsNoUser, IInv
<1>1. CASE TurnOff
  BY <1>1 DEF TurnOff, LoopRuns, NotPreparing, Met, userVars
<1>2. CASE Crash \/ Restart
  BY <1>2 DEF Crash, Restart, Killed, Fresh, Quiet, userVars, history
<1>3. CASE World /\ ~(Crash \/ Restart)
  BY <1>3 DEF World, BtdSpawnsBsa, BsaDies, BtdRestarted, ForeignOpens,
       ForeignCloses, daemonVars, userVars
<1>4. CASE UNCHANGED vars
  BY <1>4 DEF vars, userVars, history
<1> QED BY <1>1, <1>2, <1>3, <1>4, UserPrepareStep, UserStep DEF Next

-----------------------------------------------------------------------------
(* The pin                                                                  *)

\* A step that leaves the pin and the open transports alone.
LEMMA PinKept ==
  ASSUME PinInv, TypeOK, UNCHANGED <<pin, deep>>, races \subseteq races',
         crashed => crashed', missed \cap {"pin", "unpin"} \subseteq missed',
         \A u \in Users : pc'[u] \in Using <=> pc[u] \in Using
  PROVE  PinInv'
  BY DEF PinInv, HoldOK, LeftInSysfs, Pinned, pin, TypeOK

\* A step that gives up the pin, and leaves a race behind or nobody to need it.
LEMMA PinReleased ==
  ASSUME PinInv, TypeOK, Release, UNCHANGED <<deep, crashed>>,
         races' # {} \/ \A u \in Users : pc'[u] \notin Using
  PROVE  PinInv'
<1>1. HoldOK'
  BY DEF PinInv, HoldOK, LeftInSysfs, Release, Tried, TypeOK
<1>2. Pinned'
  BY DEF Pinned
<1> QED BY <1>1, <1>2 DEF PinInv

\* Where only u was in use, nobody is once u is idle.
LEMMA LastOut ==
  ASSUME IInv, NEW u \in Users, pc[u] \in Using, pc' = [pc EXCEPT ![u] = "idle"],
         races' = races
  PROVE  races' # {} \/ \A v \in Users : pc'[v] \notin Using
  BY DEF IInv, UserInv, Turns, TypeOK, UserPcs, Using

LEMMA PinPrepareStep ==
  ASSUME IInv, Prepare
  PROVE  PinInv'
<1>1. CASE Killed
  BY <1>1 DEF IInv, PinInv, HoldOK, LeftInSysfs, Pinned, Killed, Using, fixed
<1>2. CASE ~Killed
  <2>1. /\ UNCHANGED <<pin, deep, races, crashed>>
        /\ missed \cap {"pin", "unpin"} \subseteq missed'
        /\ \/ pc' = pc
           \/ pc' = [u \in Users |-> IF pc[u] = "arming" THEN "opening" ELSE pc[u]]
    BY <1>2 DEF Prepare, MtkPrepare, CheckBsa, BsaUp, RecoverBtd, GiveUp, FreezeBtd,
         KillBsa, EvictHolders, Prepared, prepFrame, fixed, pinVars, Tried
  <2>2. \A u \in Users : pc'[u] \in Using <=> pc[u] \in Using
    BY <2>1 DEF Using
  <2> QED BY <2>1, <2>2, PinKept DEF IInv
<1> QED BY <1>1, <1>2

\* ensure_powered() under another user leaves a race behind.
LEMMA PinEnsureStep ==
  ASSUME IInv, NEW ours \in Findings, EnsurePowered(ours),
         UNCHANGED <<deep, crashed>>, races \subseteq races',
         \A u \in Users : pc'[u] \in Using <=> pc[u] \in Using,
         races' # {} \/ ours \/ \A u \in Users : pc'[u] \notin Using
  PROVE  PinInv'
<1>1. CASE UNCHANGED pinVars
  BY <1>1, PinKept DEF IInv, pinVars
<1>2. CASE ~ours /\ PowerOff
  BY <1>2, PinReleased DEF IInv, PowerOff
<1> QED BY <1>1, <1>2 DEF EnsurePowered

LEMMA PinUserStep ==
  ASSUME IInv, NEW u \in Users, UserNext(u)
  PROVE  PinInv'
<1> USE DEF IInv
<1>1. CASE Arm(u)
  <2>1. \A v \in Users : pc'[v] \in Using <=> pc[v] \in Using
    BY <1>1 DEF Arm, TypeOK, Using
  <2>2. races' # {} \/ \A v \in Users : pc'[v] \notin Using
    BY <1>1, <2>1 DEF Arm, Met, Quiet, Using
  <2>3. PICK ours \in Findings : EnsurePowered(ours)
    BY <1>1 DEF Arm
  <2>4. UNCHANGED <<deep, crashed>> /\ races \subseteq races'
    BY <1>1 DEF Arm, Met, fixed
  <2> QED BY <2>1, <2>2, <2>3, <2>4, PinEnsureStep
<1>2. CASE TakePaired(u)
  <2>1. \A v \in Users : pc'[v] \in Using <=> pc[v] \in Using
    BY <1>2 DEF TakePaired, TypeOK, Using
  <2>2. PICK ours \in Findings :
          /\ EnsurePowered(ours)
          /\ races' = Met(Met(races, \E v \in Users \ {u} : pc[v] # "idle", "overlap"),
                          ~ours, "rearmed")
    BY <1>2 DEF TakePaired
  <2>3. races' # {} \/ ours
    BY <2>2 DEF Met
  <2>4. UNCHANGED <<deep, crashed>> /\ races \subseteq races'
    BY <1>2, <2>2 DEF TakePaired, Met, fixed
  <2> QED BY <2>1, <2>2, <2>3, <2>4, PinEnsureStep
<1>3. CASE OpenSucceeds(u)
  <2>1. pc' = [pc EXCEPT ![u] = "reset"] /\ UNCHANGED <<kind, deep, races, crashed>>
    BY <1>3 DEF OpenSucceeds, Move, userFrame, fixed
  <2>2. CASE kind = "mtk" /\ UNCHANGED pinVars
    BY <2>1, <2>2 DEF ChipInv, KindOK, PinInv, HoldOK, LeftInSysfs, Pinned, TypeOK, Using,
         pinVars, pin
  <2>3. CASE Acquire
    BY <2>1, <2>3 DEF Acquire, Tried, PinInv, HoldOK, LeftInSysfs, Pinned, TypeOK, Using,
         pinVars, pin
  <2> QED BY <1>3, <2>2, <2>3 DEF OpenSucceeds
<1>4. CASE ReleaseLeaked(u) \/ OpenRefused(u) \/ OpenFails(u) \/ OpenCut(u)
           \/ Created(u) \/ Paired(u) \/ Cleanup(u)
  <2>1. UNCHANGED <<pinVars, deep, races, crashed>>
    BY <1>4 DEF ReleaseLeaked, OpenRefused, OpenFails, OpenCut, Created, Paired,
         Cleanup, userFrame, fixed
  <2>2. \A v \in Users : pc'[v] \in Using <=> pc[v] \in Using
    BY <1>4 DEF ReleaseLeaked, OpenRefused, OpenFails, OpenCut, Created, Paired,
         Cleanup, Move, TypeOK, Using
  <2> QED BY <2>1, <2>2, PinKept DEF pinVars
<1>5. CASE CreateFails(u) \/ ResetTimesOut(u) \/ Closed(u)
  <2>1. pc[u] \in Using /\ pc' = [pc EXCEPT ![u] = "idle"]
        /\ UNCHANGED <<kind, deep, races, crashed>>
    BY <1>5 DEF CreateFails, ResetTimesOut, Closed, Move, Using, userFrame,
         NotPreparing, fixed
  <2>2. races' # {} \/ \A v \in Users : pc'[v] \notin Using
    BY <2>1, LastOut
  <2>3. CASE Release
    BY <2>1, <2>2, <2>3, PinReleased
  <2>4. CASE kind = "mtk" /\ UNCHANGED pinVars
    BY <2>1, <2>4 DEF ChipInv, KindOK, PinInv, HoldOK, LeftInSysfs, Pinned, pinVars, pin
  <2> QED BY <1>5, <2>3, <2>4 DEF CreateFails, ResetTimesOut, Closed, TurnedOff, PowerOff
<1> QED BY <1>1, <1>2, <1>3, <1>4, <1>5 DEF UserNext

LEMMA PinInvStep ==
  ASSUME IInv, [Next]_vars
  PROVE  PinInv'
<1> USE DEF IInv
<1>1. CASE TurnOff
  <2>1. UNCHANGED <<pc, kind, deep, crashed>> /\ races \subseteq races'
        /\ (races' # {} \/ Quiet)
    BY <1>1 DEF TurnOff, NotPreparing, userVars, fixed, Met
  <2>2. CASE Release
    BY <2>1, <2>2, PinReleased DEF Quiet, Using
  <2>3. CASE UNCHANGED pinVars
    BY <2>1, <2>3, PinKept DEF pinVars
  <2> QED BY <1>1, <2>2, <2>3 DEF TurnOff, TurnedOff, PowerOff
<1>2. CASE Crash
  BY <1>2 DEF Crash, Killed, PinInv, HoldOK, LeftInSysfs, Pinned, Using, fixed
<1>3. CASE UNCHANGED <<pc, pinVars, deep, races, crashed>>
  BY <1>3, PinKept DEF pinVars
<1>4. World \/ UNCHANGED vars => Crash \/ UNCHANGED <<pc, pinVars, deep, races, crashed>>
  BY DEF World, BtdSpawnsBsa, BsaDies, BtdRestarted, ForeignOpens, ForeignCloses,
       Restart, daemonVars, userVars, history, fixed, vars
<1> QED BY <1>1, <1>2, <1>3, <1>4, PinPrepareStep, PinUserStep DEF Next

-----------------------------------------------------------------------------
(* The theorems                                                             *)

\* The state of the chip, the pin and the users is well-typed throughout.
THEOREM TypeCorrect == Spec => []TypeOK
<1>1. TypeOK /\ [Next]_vars => TypeOK'
  BY TypeStep
<1> QED BY TypeInit, <1>1, PTL DEF Spec

LEMMA InvInit == Init => IInv
<1> SUFFICES ASSUME Init PROVE IInv
  OBVIOUS
<1>1. Fresh /\ ChipInv
  BY DEF Init, Fresh, Quiet, ChipInv, KindOK, ColdWhilePreparing, StaysFrozen,
       WarmIsOurs, Thawed
<1>2. UserInv
  BY DEF Init, UserInv, Turns, OpenFds, NothingLeaked, EvictsNoUser
<1>3. PinInv
  BY DEF Init, PinInv, HoldOK, LeftInSysfs, Pinned, Using
<1> QED BY <1>1, <1>2, <1>3, TypeInit DEF IInv

\* The inductive invariant behind the theorems below.
THEOREM Inductive == Spec => []IInv
<1>1. IInv /\ [Next]_vars => IInv'
  BY TypeStep, FreshStep, ChipStep, UserInvStep, PinInvStep DEF IInv
<1> QED BY InvInit, <1>1, PTL DEF Spec

\* Users that take turns always have the pin while their transport is open,
\* unless the chip was re-warmed under a paired host or no pin was to be had.
THEOREM PinIsHeld == Spec => []PinHeld
<1>1. IInv => PinHeld
  BY DEF IInv, PinInv, HoldOK, Pinned, PinHeld, PinWhileOpen, Blocked, InUse, TypeOK
<1> QED BY Inductive, <1>1, PTL

\* The pin never outlives the transports, whoever opens, fails and closes when;
\* but for what a kill or a failed write leaves in sysfs.
THEOREM PinGoes == Spec => []PinNotLeft
<1>1. IInv => PinNotLeft
  BY DEF IInv, PinInv, HoldOK, LeftInSysfs, PinNotLeft, Blocked, InUse, TypeOK
<1> QED BY Inductive, <1>1, PTL

\* `fuser -k` is not pointed at a transport in use.
THEOREM NoUserEvicted == Spec => []EvictsNoUser
  BY Inductive, PTL DEF IInv, UserInv

\* A hand-off that counts as ours has no bsa_server behind it, unless its own
\* signals went astray or others restart btd: no power-off, late pgrep or crash
\* in between leaves the claim standing.
THEOREM WarmStaysOurs == Spec => []WarmIsOurs
  BY Inductive, PTL DEF IInv, ChipInv

\* Warming up is not given up with btd frozen, unless the thaw went astray.
THEOREM NeverGivesUpFrozen == Spec => GivesUpThawed
<1>1. IInv /\ [Next]_vars =>
        [step = "waiting" /\ step' = "free" => btd = "up" \/ "thaw" \in missed]_vars
  <2> SUFFICES ASSUME IInv, Next, step = "waiting", step' = "free"
               PROVE  btd = "up" \/ "thaw" \in missed
    BY DEF vars
  <2>1. GiveUp
    BY DEF Next, Prepare, MtkPrepare, CheckBsa, BsaUp, RecoverBtd, FreezeBtd, KillBsa,
         EvictHolders, TurnOff, LoopRuns, World, BtdSpawnsBsa, BsaDies, BtdRestarted,
         ForeignOpens, ForeignCloses, Crash, Restart, Killed, daemonVars, UserNext, Arm,
         TakePaired, OpenSucceeds, ReleaseLeaked, OpenRefused, OpenFails, OpenCut,
         Created, Paired, Cleanup, CreateFails, ResetTimesOut, Closed
  <2> QED BY <2>1, RetriesAssumption DEF GiveUp, IInv, ChipInv, Thawed
<1> QED BY Inductive, <1>1, PTL DEF Spec, GivesUpThawed

\* EBUSY reaches a user only on account of another process.
THEOREM RefusalsAreForeign == Spec => RefusedByOthers
<1>1. ASSUME IInv, [Next]_vars, NEW u \in Users, pc'[u] = "refused", pc[u] # "refused"
      PROVE  foreign \/ "overlap" \in races
  <2>1. OpenRefused(u)
    <3>1. ~Prepare
      BY <1>1 DEF Prepare, MtkPrepare, CheckBsa, BsaUp, RecoverBtd, GiveUp, FreezeBtd,
           KillBsa, EvictHolders, Prepared, Killed
    <3>2. ~(TurnOff \/ World \/ UNCHANGED vars)
      BY <1>1 DEF TurnOff, World, BtdSpawnsBsa, BsaDies, BtdRestarted, ForeignOpens,
           ForeignCloses, Crash, Restart, Killed, daemonVars, userVars, vars
    <3>3. PICK v \in Users : UserNext(v)
      BY <1>1, <3>1, <3>2 DEF Next
    <3>4. u = v
      BY <1>1, <3>3 DEF IInv, TypeOK, UserNext, Arm, TakePaired, OpenSucceeds,
           ReleaseLeaked, OpenRefused, OpenFails, OpenCut, Created, Paired, Cleanup,
           CreateFails, ResetTimesOut, Closed, Move
    <3> QED
      BY <1>1, <3>3, <3>4 DEF IInv, TypeOK, UserNext, Arm, TakePaired, OpenSucceeds,
           ReleaseLeaked, OpenRefused, OpenFails, OpenCut, Created, Paired, Cleanup,
           CreateFails, ResetTimesOut, Closed, Move
  <2>2. "overlap" \notin races => ~stale /\ fds = {}
    BY <1>1, <2>1 DEF OpenRefused, IInv, UserInv, NothingLeaked
  <2>3. foreign \/ stale \/ fds # {}
    BY <2>1 DEF OpenRefused, Busy
  <2> QED BY <2>2, <2>3
<1>2. IInv /\ [Next]_vars =>
        [\A u \in Users : pc'[u] = "refused" /\ pc[u] # "refused"
                            => foreign \/ "overlap" \in races]_vars
  BY <1>1
<1> QED BY Inductive, <1>2, PTL DEF Spec, RefusedByOthers
=============================================================================
