-------------------------- MODULE HostCleanupProofs --------------------------
(* What holds of any number of overlapping cleanup() calls on one host.        *)
EXTENDS HostCleanup, TLAPS

\* No call but stop()'s is under way before the host task has ended.
WaitedForHost == \A c \in Callers \ Early : pc[c] # "out" => hostTask = "ended"

\* Nothing to take down exists before the host has started.
NothingYet ==
  hostTask = "starting" =>
    ~hidHost /\ ~connection /\ \A c \in Callers : pc[c] \notin {"intr", "failed"}

\* A call raises only once hid_host is gone for good.
RaisesLate == \A c \in Callers : pc[c] = "failed" => ~hidHost

\* Whoever took hid_host from under a call is itself on the way to close the
\* transport, has closed it, or was cancelled.
HandedOn ==
  ~hidHost /\ transport = "held" /\ (\E c \in Callers : pc[c] \in {"intr", "failed"})
  => \E d \in Callers : pc[d] \in {"hangup", "closing", "cancelled"}

\* Past the channels hid_host is gone.
PastChannels ==
  \A c \in Callers \ Early : pc[c] \in {"hangup", "closing"} => ~hidHost

\* While stop() has not come, closing the transport means there is nothing left
\* to hang up.
NothingLeft ==
  /\ \A e \in Early : pc[e] = "out"
  /\ transport # "held" \/ \E d \in Callers : pc[d] = "closing"
  => ~connection /\ ~hidHost /\ hostTask = "ended"

IInv == TypeOK /\ ReturnMeansClosed /\ WaitedForHost /\ NothingYet /\ RaisesLate
        /\ HandedOn /\ PastChannels /\ NothingLeft /\ InputGone

-----------------------------------------------------------------------------
(* A call's step, whatever segment it is                                    *)

\* Where c goes and what its step tells of the rest of the host.
StepOf(c) ==
  /\ pc' \in [Callers -> Awaits \cup Left \cup {"cancelled"}]
  /\ \A d \in Callers \ {c} : pc'[d] = pc[d]
  /\ pc[c] \notin {"done", "failed", "cancelled"} /\ pc'[c] # "out"
  /\ (pc[c] = "out" => MayEnter(c))
  /\ hostTask' = hostTask
  /\ (hidHost' => hidHost) /\ (connection' => connection) /\ (uhid' => uhid)
  /\ (transport' # transport => pc[c] = "closing")
  /\ (pc[c] = "closing" /\ pc'[c] # "cancelled" => transport' # "held")
  /\ (pc[c] \in {"out", "gather"} => pc'[c] \in {"gather", "cancelled"} \/ ~uhid')
  /\ (pc'[c] = "gather" => pc[c] = "out")
  /\ (pc'[c] \in {"intr", "ctrl"} => hidHost /\ hidHost')
  /\ (pc'[c] = "hangup" => connection /\ ~hidHost')
  /\ (pc'[c] = "closing" => ~connection' /\ (~hidHost' \/ pc[c] = "hangup"))
  /\ (pc'[c] = "done" => transport' # "held")
  /\ (pc'[c] = "failed" => pc[c] = "intr" /\ ~hidHost)
  /\ (~hidHost' /\ hidHost => pc'[c] \in {"hangup", "closing", "done"})
  /\ (pc[c] = "hangup" => pc'[c] \in {"closing", "done", "cancelled"})
  /\ (pc[c] = "closing" => pc'[c] \in {"done", "cancelled"})
  /\ (pc'[c] = "cancelled" => pc[c] # "out" /\ transport' = transport)
  /\ (transport # "held" => transport' # "held")

\* What HangUp(c), the tail of most segments, does.
LEMMA HangUpStep ==
  ASSUME TypeOK, NEW c \in Callers, HangUp(c)
  PROVE  /\ pc' = [pc EXCEPT ![c] = pc'[c]]
         /\ pc'[c] \in {"hangup", "closing", "done"}
         /\ hidHost' = FALSE /\ (connection' => connection)
         /\ listener' \in BOOLEAN /\ connection' \in BOOLEAN
         /\ (pc'[c] = "hangup" => connection)
         /\ (pc'[c] = "closing" => ~connection')
         /\ (pc'[c] = "done" => transport # "held")
  BY DEF TypeOK, HangUp, DropConnection, Goes, SeemsAlive, SeemsDead

LEMMA CloseCtrlStep ==
  ASSUME TypeOK, NEW c \in Callers, CloseCtrl(c)
  PROVE  /\ pc' = [pc EXCEPT ![c] = pc'[c]]
         /\ pc'[c] \in {"ctrl", "hangup", "closing", "done"}
         /\ (connection' => connection)
         /\ listener' \in BOOLEAN /\ connection' \in BOOLEAN
         /\ ctrl' \in BOOLEAN /\ hidHost' \in BOOLEAN
         /\ (pc'[c] = "ctrl" => hidHost' = hidHost)
         /\ (pc'[c] # "ctrl" => ~hidHost')
         /\ (pc'[c] = "hangup" => connection)
         /\ (pc'[c] = "closing" => ~connection')
         /\ (pc'[c] = "done" => transport # "held")
<1>1. CASE ctrl /\ Goes(c, "ctrl") /\ ctrl' = FALSE /\ UNCHANGED <<hidHost, connection, listener>>
  BY <1>1 DEF TypeOK, Goes
<1>2. CASE ~ctrl /\ HangUp(c) /\ UNCHANGED ctrl
  BY <1>2, HangUpStep DEF TypeOK
<1> QED BY <1>1, <1>2 DEF CloseCtrl

LEMMA CloseChannelsStep ==
  ASSUME TypeOK, NEW c \in Callers, CloseChannels(c)
  PROVE  /\ pc' = [pc EXCEPT ![c] = pc'[c]]
         /\ pc'[c] \in {"intr", "ctrl", "hangup", "closing", "done"}
         /\ (connection' => connection) /\ (hidHost' => hidHost)
         /\ listener' \in BOOLEAN /\ connection' \in BOOLEAN
         /\ ctrl' \in BOOLEAN /\ intr' \in BOOLEAN /\ hidHost' \in BOOLEAN
         /\ (pc'[c] \in {"intr", "ctrl"} => hidHost /\ hidHost')
         /\ (pc'[c] \notin {"intr", "ctrl"} => ~hidHost')
         /\ (pc'[c] = "hangup" => connection)
         /\ (pc'[c] = "closing" => ~connection')
         /\ (pc'[c] = "done" => transport # "held")
<1>1. CASE hidHost /\ SeemsAlive /\ intr /\ intr' = FALSE /\ Goes(c, "intr")
           /\ UNCHANGED <<ctrl, hidHost, connection, listener>>
  BY <1>1 DEF TypeOK, Goes
<1>2. CASE hidHost /\ SeemsAlive /\ ~intr /\ CloseCtrl(c) /\ UNCHANGED intr
  BY <1>2, CloseCtrlStep DEF TypeOK
<1>3. CASE HangUp(c) /\ UNCHANGED <<ctrl, intr>>
  BY <1>3, HangUpStep DEF TypeOK
<1> QED BY <1>1, <1>2, <1>3 DEF CloseChannels

\* Every segment of cleanup() keeps the types and is a StepOf.
LEMMA CallStep ==
  ASSUME TypeOK, NEW c \in Callers, CallNext(c)
  PROVE  TypeOK' /\ StepOf(c)
<1> USE DEF Awaits, Left
<1>1. CASE Enter(c)
  <2>1. CASE connTasks /\ Goes(c, "gather")
             /\ UNCHANGED <<uhid, hidHost, ctrl, intr, connection, listener>>
    BY <1>1, <2>1 DEF TypeOK, StepOf, Enter, MayEnter, Goes
  <2>2. CASE ~connTasks /\ uhid' = FALSE /\ CloseChannels(c)
    BY <1>1, <2>2, CloseChannelsStep DEF TypeOK, StepOf, Enter, MayEnter
  <2> QED BY <1>1, <2>1, <2>2 DEF Enter
<1>2. CASE Gathered(c)
  BY <1>2, CloseChannelsStep DEF TypeOK, StepOf, Gathered
<1>3. CASE IntrClosed(c)
  <2>1. CASE hidHost /\ CloseCtrl(c)
    BY <1>3, <2>1, CloseCtrlStep DEF TypeOK, StepOf, IntrClosed
  <2>2. CASE ~hidHost /\ Goes(c, "failed")
             /\ UNCHANGED <<ctrl, hidHost, connection, listener>>
    BY <1>3, <2>2 DEF TypeOK, StepOf, IntrClosed, Goes
  <2> QED BY <1>3, <2>1, <2>2 DEF IntrClosed
<1>4. CASE CtrlClosed(c)
  BY <1>4, HangUpStep DEF TypeOK, StepOf, CtrlClosed
<1>5. CASE HungUp(c)
  BY <1>5 DEF TypeOK, StepOf, HungUp, DropConnection, Goes
<1>6. CASE TransportClosed(c)
  BY <1>6 DEF TypeOK, StepOf, TransportClosed, Goes, linkVars
<1>7. CASE Cancelled(c)
  BY <1>7 DEF TypeOK, StepOf, Cancelled, Goes, linkVars
<1> QED BY <1>1, <1>2, <1>3, <1>4, <1>5, <1>6, <1>7 DEF CallNext

-----------------------------------------------------------------------------
(* The invariant                                                            *)

LEMMA InitIInv == Init => IInv
  BY CallersAssumption
  DEF Init, IInv, TypeOK, ReturnMeansClosed, WaitedForHost, NothingYet, RaisesLate,
      HandedOn, PastChannels, NothingLeft, InputGone, Left, Awaits, HostTasks

\* What a step of the host task or of the peer may touch.
HostStepOf ==
  /\ UNCHANGED <<pc, transport>>
  /\ hostTask = "ended" => hostTask' = "ended" /\ UNCHANGED <<hidHost, uhid>>
  /\ hostTask = "ended" => (connection' => connection)
  /\ hostTask' = "starting" => UNCHANGED <<hostTask, hidHost, connection>>
  /\ hostTask # "starting" => hidHost' = hidHost

LEMMA HostIsStep == TypeOK /\ HostNext => TypeOK' /\ HostStepOf
<1> SUFFICES ASSUME TypeOK, HostNext PROVE TypeOK' /\ HostStepOf
  OBVIOUS
<1> USE DEF TypeOK, HostStepOf, HostTasks
<1>1. CASE HostStarts
  BY <1>1 DEF HostStarts
<1>2. CASE HostContinues
  BY <1>2 DEF HostContinues
<1>3. CASE ClassicArrives
  BY <1>3 DEF ClassicArrives
<1>4. CASE ChannelsOpen
  BY <1>4 DEF ChannelsOpen
<1>5. CASE BleConnects
  BY <1>5 DEF BleConnects
<1>6. CASE HostWins
  BY <1>6 DEF HostWins
<1>7. CASE CreatesUhid
  BY <1>7 DEF CreatesUhid
<1>8. CASE HostEnds
  BY <1>8 DEF HostEnds, linkVars
<1>9. CASE PeerLeaves
  BY <1>9 DEF PeerLeaves
<1> QED BY <1>1, <1>2, <1>3, <1>4, <1>5, <1>6, <1>7, <1>8, <1>9 DEF HostNext

\* The host task moves no call and never sees one that waited for its end.
LEMMA HostIInv == IInv /\ HostNext => IInv'
<1> SUFFICES ASSUME IInv, HostNext PROVE IInv'
  OBVIOUS
<1>1. HostStepOf
  BY HostIsStep DEF IInv
<1>2. TypeOK'
  BY HostIsStep DEF IInv
<1>3. (ReturnMeansClosed /\ WaitedForHost /\ NothingYet /\ RaisesLate)'
  BY <1>1 DEF HostStepOf, IInv, ReturnMeansClosed, WaitedForHost, NothingYet, RaisesLate
<1>4. HandedOn'
  BY <1>1 DEF HostStepOf, IInv, HandedOn, NothingYet
<1>5. (PastChannels /\ NothingLeft /\ InputGone)'
  BY <1>1 DEF HostStepOf, IInv, PastChannels, NothingLeft, InputGone, WaitedForHost
<1> QED BY <1>2, <1>3, <1>4, <1>5 DEF IInv

LEMMA CallIInv ==
  ASSUME IInv, NEW c \in Callers, CallNext(c)
  PROVE  IInv'
<1>1. TypeOK' /\ StepOf(c)
  BY CallStep DEF IInv
<1>2. ReturnMeansClosed'
  <2> SUFFICES ASSUME NEW d \in Callers, pc'[d] = "done" PROVE transport' # "held"
    BY DEF ReturnMeansClosed
  <2>1. CASE d = c
    BY <1>1, <2>1 DEF StepOf
  <2>2. CASE d # c
    BY <1>1, <2>2 DEF StepOf, IInv, ReturnMeansClosed
  <2> QED BY <2>1, <2>2
<1>3. WaitedForHost'
  BY <1>1 DEF IInv, WaitedForHost, StepOf, MayEnter
<1>4. NothingYet'
  BY <1>1 DEF IInv, NothingYet, StepOf
<1>5. RaisesLate'
  BY <1>1 DEF IInv, RaisesLate, StepOf
<1>6. HandedOn'
  BY <1>1 DEF IInv, HandedOn, StepOf
<1>7. PastChannels'
  BY <1>1 DEF IInv, PastChannels, StepOf
<1>8. NothingLeft'
  <2> SUFFICES ASSUME \A e \in Early : pc'[e] = "out",
                      transport' # "held" \/ \E d \in Callers : pc'[d] = "closing"
               PROVE  ~connection' /\ ~hidHost' /\ hostTask' = "ended"
    BY DEF NothingLeft
  <2>1. c \notin Early /\ \A e \in Early : pc[e] = "out"
    BY <1>1, CallersAssumption DEF StepOf
  <2>2. CASE transport # "held" \/ \E d \in Callers : pc[d] = "closing"
    BY <1>1, <2>1, <2>2 DEF IInv, NothingLeft, StepOf
  <2>3. CASE transport = "held" /\ \A d \in Callers : pc[d] # "closing"
    <3>1. pc'[c] = "closing"
      BY <1>1, <2>3 DEF StepOf
    <3>2. hostTask' = "ended"
      BY <1>3, <2>1, <3>1 DEF WaitedForHost
    <3>3. ~hidHost'
      BY <1>1, <2>1, <3>1 DEF IInv, PastChannels, StepOf
    <3> QED BY <1>1, <3>1, <3>2, <3>3 DEF StepOf
  <2> QED BY <2>2, <2>3
<1>9. InputGone'
  BY <1>1 DEF IInv, InputGone, StepOf, TypeOK, Awaits, Left
<1> QED BY <1>1, <1>2, <1>3, <1>4, <1>5, <1>6, <1>7, <1>8, <1>9 DEF IInv

\* Stuttering changes nothing.
LEMMA StutterIInv == IInv /\ UNCHANGED vars => IInv'
  BY DEF IInv, TypeOK, ReturnMeansClosed, WaitedForHost, NothingYet, RaisesLate,
         HandedOn, PastChannels, NothingLeft, InputGone, vars, linkVars

THEOREM CleanupInductive == Spec => []IInv
<1>1. IInv /\ [Next]_vars => IInv'
  BY HostIInv, CallIInv, StutterIInv DEF Next
<1> QED BY InitIInv, <1>1, PTL DEF Spec

\* The host's fields and the calls' places stay what they are, whatever overlaps.
THEOREM TypeCorrect == Spec => []TypeOK
  BY CleanupInductive, PTL DEF IInv

\* A cleanup() that returned has left no transport, whoever else was at it.
THEOREM ReturnedClosed == Spec => []ReturnMeansClosed
  BY CleanupInductive, PTL DEF IInv

\* Once every call is over, one of them has closed the transport (host.py:464
\* may raise, but never in the call that took hid_host away).
THEOREM SomeoneCloses == Spec => []NobodyLeavesItOpen
<1>1. IInv => NobodyLeavesItOpen
  BY DEF IInv, NobodyLeavesItOpen, ReturnMeansClosed, RaisesLate, HandedOn, Left
<1> QED BY CleanupInductive, <1>1, PTL

\* No input device stays behind an ended host that was cleaned up.
THEOREM InputGoes == Spec => []InputGone
  BY CleanupInductive, PTL DEF IInv

\* No command is sent to a peer once the transport is being closed.
THEOREM ClosesLast == Spec => NoCommandAfterClose
<1>1. ASSUME IInv, [Next]_vars, NEW c \in Callers,
             pc[c] # pc'[c], pc'[c] \in {"intr", "ctrl", "hangup"},
             \A e \in Early : pc[e] = "out"
      PROVE  transport = "held" /\ \A d \in Callers : pc[d] # "closing"
  <2>1. PICK b \in Callers : CallNext(b)
    <3>1. HostNext => pc' = pc
      BY DEF HostNext, HostStarts, HostContinues, ClassicArrives, ChannelsOpen,
             BleConnects, HostWins, CreatesUhid, HostEnds, PeerLeaves
    <3> QED BY <1>1, <3>1 DEF Next, vars
  <2>2. StepOf(b)
    BY <1>1, <2>1, CallStep DEF IInv
  <2>3. b = c
    BY <1>1, <2>2 DEF StepOf
  <2>4. hidHost \/ connection
    BY <1>1, <2>2, <2>3 DEF StepOf
  <2> QED BY <1>1, <2>4 DEF IInv, NothingLeft
<1>2. IInv /\ [Next]_vars =>
        [\A c \in Callers :
           /\ pc[c] # pc'[c] /\ pc'[c] \in {"intr", "ctrl", "hangup"}
           /\ \A e \in Early : pc[e] = "out"
           => transport = "held" /\ \A d \in Callers : pc[d] # "closing"]_vars
  BY <1>1
<1> QED BY CleanupInductive, <1>2, PTL DEF Spec, NoCommandAfterClose
=============================================================================
