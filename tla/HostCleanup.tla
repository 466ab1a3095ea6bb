----------------------------- MODULE HostCleanup -----------------------------
(* HIDHost.cleanup() (host.py) called by several coroutines for one host:      *)
(* run()'s finally block, suspend(), and stop(), which does not wait for the   *)
(* host task to end first.  An action is the segment of one call between two   *)
(* of its awaits.  HidDaemon takes AfterCleanup from here.                     *)
EXTENDS Naturals

CONSTANTS
  Callers,      \* the coroutines that call cleanup() on this host
  Early,        \* those that do so while the host task may still be running
  Cancellable   \* those that may be cancelled inside it: run(), by main()

ASSUME CallersAssumption == Early \subseteq Callers /\ Cancellable \subseteq Callers

VARIABLES
  pc,           \* the await each call is at
  hostTask,     \* how far the host task is
  connTasks,    \* _connection_tasks is not empty
  uhid,         \* uhid_device is not None
  hidHost,      \* hid_host is not None
  ctrl, intr,   \* its l2cap_ctrl_channel and l2cap_intr_channel
  connection,   \* self.connection is not None
  linkUp,       \* its link
  lossSeen,     \* _disconnection_event.is_set()
  listener,     \* the Classic connection listener is registered
  transport     \* "held" while self.transport is set, then what became of it

linkVars == <<connTasks, uhid, hidHost, ctrl, intr, connection, linkUp, lossSeen, listener>>
vars == <<pc, hostTask, linkVars, transport>>

Awaits == {"gather", "intr", "ctrl", "hangup", "closing"}
Left   == {"out", "done", "failed"}      \* not called, returned, raised
HostTasks == {"starting", "connecting", "settingUp", "serving", "ended"}

Init ==
  /\ pc = [c \in Callers |-> "out"] /\ hostTask = "starting"
  /\ connTasks = FALSE /\ uhid = FALSE /\ hidHost = FALSE
  /\ ctrl = FALSE /\ intr = FALSE /\ connection = FALSE /\ linkUp = FALSE
  /\ lossSeen = FALSE /\ listener = FALSE /\ transport = "held"

-----------------------------------------------------------------------------
(* The host task and its link, until they end                               *)

HostStarts ==
  /\ hostTask = "starting" /\ hostTask' = "connecting"
  /\ hidHost' \in BOOLEAN /\ listener' = hidHost'
  /\ UNCHANGED <<pc, connTasks, uhid, ctrl, intr, connection, linkUp, lossSeen, transport>>

\* continue_after_pairing(): the link is there already, up or down by now.
HostContinues ==
  /\ hostTask = "starting" /\ hostTask' = "settingUp"
  /\ hidHost' \in BOOLEAN /\ ctrl' \in {FALSE, hidHost'} /\ intr' \in {FALSE, ctrl'}
  /\ connection' = TRUE /\ linkUp' \in BOOLEAN
  /\ UNCHANGED <<pc, connTasks, uhid, lossSeen, listener, transport>>

\* on_connection_event() and the start of on_classic_connection().
ClassicArrives ==
  /\ hostTask = "connecting" /\ listener /\ transport = "held"
  /\ connTasks' = TRUE
  /\ IF hidHost
     THEN connection' = TRUE /\ linkUp' = TRUE /\ lossSeen' = FALSE
     ELSE UNCHANGED <<connection, linkUp, lossSeen>>
  /\ UNCHANGED <<pc, hostTask, uhid, hidHost, ctrl, intr, listener, transport>>

ChannelsOpen ==
  /\ hostTask = "connecting" /\ connTasks /\ hidHost /\ connection /\ linkUp
  /\ ctrl' = TRUE /\ intr' \in BOOLEAN
  /\ UNCHANGED <<pc, hostTask, connTasks, uhid, hidHost, connection, linkUp,
                 lossSeen, listener, transport>>

\* The BLE handler's link.
BleConnects ==
  /\ hostTask = "connecting" /\ transport = "held" /\ ~linkUp
  /\ connection' = TRUE /\ linkUp' = TRUE
  /\ UNCHANGED <<pc, hostTask, connTasks, uhid, hidHost, ctrl, intr, lossSeen,
                 listener, transport>>

HostWins ==
  /\ hostTask = "connecting" /\ connection /\ hostTask' = "settingUp"
  /\ connTasks' \in {connTasks, FALSE}
  /\ UNCHANGED <<pc, uhid, hidHost, ctrl, intr, connection, linkUp, lossSeen,
                 listener, transport>>

\* _create_uhid_device(): nothing in it looks at the transport.
CreatesUhid ==
  /\ hostTask = "settingUp" /\ hostTask' = "serving" /\ uhid' = TRUE
  /\ UNCHANGED <<pc, connTasks, hidHost, ctrl, intr, connection, linkUp,
                 lossSeen, listener, transport>>

HostEnds ==
  /\ hostTask # "ended" /\ hostTask' = "ended"
  /\ UNCHANGED <<pc, linkVars, transport>>

\* The peer goes, or unplugs the virtual cable with the link still up.
PeerLeaves ==
  /\ linkUp /\ linkUp' \in BOOLEAN /\ lossSeen' = TRUE
  /\ UNCHANGED <<pc, hostTask, connTasks, uhid, hidHost, ctrl, intr, connection,
                 listener, transport>>

-----------------------------------------------------------------------------
(* cleanup()                                                                *)

Goes(c, await) == pc' = [pc EXCEPT ![c] = await]

\* _is_connection_alive() may not notice yet that the link has gone.
SeemsAlive == connection
SeemsDead  == ~connection \/ ~linkUp

\* Slips: the reference kept until the transport is closed; no second close();
\* no close() without a connection.
DropLater(c) ==
  /\ UNCHANGED connection /\ listener' = FALSE
  /\ Goes(c, IF transport = "held" THEN "closing" ELSE "done")
DropOnce(c) ==
  /\ connection' = FALSE /\ listener' = FALSE
  /\ Goes(c, IF transport = "held" /\ \A d \in Callers : pc[d] # "closing"
             THEN "closing" ELSE "done")
DropLinked(c) ==
  /\ connection' = FALSE /\ listener' = FALSE
  /\ IF transport = "held" /\ connection THEN Goes(c, "closing") ELSE Goes(c, "failed")

\* Past the link: forget it, then close the transport unless it is closed.
DropConnection(c) ==
  /\ connection' = FALSE /\ listener' = FALSE
  /\ Goes(c, IF transport = "held" THEN "closing" ELSE "done")

HangUp(c) ==
  /\ hidHost' = FALSE
  /\ \/ SeemsAlive /\ ~lossSeen /\ Goes(c, "hangup") /\ UNCHANGED <<connection, listener>>
     \/ (SeemsDead \/ lossSeen) /\ DropConnection(c)

\* bumble forgets a channel before it awaits its disconnection.
CloseCtrl(c) ==
  \/ /\ ctrl /\ ctrl' = FALSE /\ Goes(c, "ctrl")
     /\ UNCHANGED <<hidHost, connection, listener>>
  \/ ~ctrl /\ HangUp(c) /\ UNCHANGED ctrl

CloseChannels(c) ==
  \/ /\ hidHost /\ SeemsAlive /\ intr
     /\ intr' = FALSE /\ Goes(c, "intr")
     /\ UNCHANGED <<ctrl, hidHost, connection, listener>>
  \/ hidHost /\ SeemsAlive /\ ~intr /\ CloseCtrl(c) /\ UNCHANGED intr
  \/ /\ ~hidHost \/ SeemsDead
     /\ HangUp(c) /\ UNCHANGED <<ctrl, intr>>

\* Everybody but stop() has awaited the host task.
MayEnterAny(c) == pc[c] = "out"                \* a slip: nobody waits
MayEnter(c) == pc[c] = "out" /\ (c \in Early \/ hostTask = "ended")

Enter(c) ==
  /\ MayEnter(c)
  /\ \/ /\ connTasks /\ Goes(c, "gather")
        /\ UNCHANGED <<uhid, hidHost, ctrl, intr, connection, listener>>
     \/ ~connTasks /\ uhid' = FALSE /\ CloseChannels(c)
  /\ UNCHANGED <<hostTask, connTasks, linkUp, lossSeen, transport>>

\* A slip: gather() without return_exceptions raises what the tasks it has just
\* cancelled end with, which no "except Exception" catches.
GatheredRaising(c) ==
  /\ pc[c] = "gather" /\ Goes(c, "cancelled")
  /\ UNCHANGED <<hostTask, linkVars, transport>>
\* _connection_tasks.clear() also forgets a task added during the gather().
Gathered(c) ==
  /\ pc[c] = "gather"
  /\ connTasks' = FALSE /\ uhid' = FALSE /\ CloseChannels(c)
  /\ UNCHANGED <<hostTask, linkUp, lossSeen, transport>>

\* self.hid_host is read again after the await: None raises AttributeError.
IntrClosed(c) ==
  /\ pc[c] = "intr"
  /\ \/ hidHost /\ CloseCtrl(c)
     \/ ~hidHost /\ Goes(c, "failed") /\ UNCHANGED <<ctrl, hidHost, connection, listener>>
  /\ UNCHANGED <<hostTask, connTasks, uhid, intr, linkUp, lossSeen, transport>>

CtrlClosed(c) ==
  /\ pc[c] = "ctrl" /\ HangUp(c)
  /\ UNCHANGED <<hostTask, connTasks, uhid, ctrl, intr, linkUp, lossSeen, transport>>

HungUp(c) ==
  /\ pc[c] = "hangup" /\ DropConnection(c)
  /\ UNCHANGED <<hostTask, connTasks, uhid, hidHost, ctrl, intr, linkUp, lossSeen, transport>>

\* transport.close() returned or raised, or timed out and left its fd behind.
TransportClosed(c) ==
  /\ pc[c] = "closing" /\ Goes(c, "done")
  /\ transport' \in IF transport = "closed" THEN {"closed"} ELSE {"closed", "leaked"}
  /\ UNCHANGED <<hostTask, linkVars>>

Cancelled(c) ==
  /\ c \in Cancellable /\ pc[c] \in Awaits /\ Goes(c, "cancelled")
  /\ UNCHANGED <<hostTask, linkVars, transport>>

HostNext == HostStarts \/ HostContinues \/ ClassicArrives \/ ChannelsOpen
            \/ BleConnects \/ HostWins \/ CreatesUhid \/ HostEnds \/ PeerLeaves
CallNext(c) == Enter(c) \/ Gathered(c) \/ IntrClosed(c) \/ CtrlClosed(c)
               \/ HungUp(c) \/ TransportClosed(c) \/ Cancelled(c)

Next == HostNext \/ \E c \in Callers : CallNext(c)

Spec == Init /\ [][Next]_vars

-----------------------------------------------------------------------------
(* Properties                                                               *)

\* Only who may be cancelled inside cleanup() leaves it with a CancelledError.
TypeOK ==
  /\ pc \in [Callers -> Awaits \cup Left \cup {"cancelled"}]
  /\ \A c \in Callers : pc[c] = "cancelled" => c \in Cancellable
  /\ hostTask \in HostTasks
  /\ connTasks \in BOOLEAN /\ uhid \in BOOLEAN /\ hidHost \in BOOLEAN
  /\ ctrl \in BOOLEAN /\ intr \in BOOLEAN /\ connection \in BOOLEAN
  /\ linkUp \in BOOLEAN /\ lossSeen \in BOOLEAN /\ listener \in BOOLEAN
  /\ transport \in {"held", "closed", "leaked"}

\* host.py:493-500: a cleanup() that returns leaves no transport behind, also
\* when another call is closing the same one (daemon.py:61-69 goes on to open
\* the next).
ReturnMeansClosed == \A c \in Callers : pc[c] = "done" => transport # "held"

\* A call that raised because another took hid_host away leaves the transport
\* to that other one: once every call is over, and none was cancelled, the
\* transport is closed.
NobodyLeavesItOpen ==
  (\A c \in Callers : pc[c] \in Left) /\ (\E c \in Callers : pc[c] # "out")
  => transport # "held"

\* No call issues a channel or link disconnection once another has begun to
\* close the transport under it (host.py:483 comes before the await at 495).
\* stop() is the exception: the host task may connect again behind it.
NoCommandAfterClose ==
  [][\A c \in Callers :
       /\ pc[c] # pc'[c] /\ pc'[c] \in {"intr", "ctrl", "hangup"}
       /\ \A e \in Early : pc[e] = "out"
       => transport = "held" /\ \A d \in Callers : pc[d] # "closing"]_vars

\* The virtual input device does not outlive the clean-up of an ended host:
\* no one past the UHID step of cleanup() can have one re-appear behind it.
InputGone ==
  \A c \in Callers \ Early :
    pc[c] \in {"intr", "ctrl", "hangup", "closing", "done", "failed"} => ~uhid
=============================================================================
