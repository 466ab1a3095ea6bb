------------------------------ MODULE HostLife ------------------------------
(* The life of one HIDHost task as the daemon sees it (host.py): the promise *)
(* that HidDaemon builds on and that HostConnect, which has the two protocol *)
(* handlers, links and channels in it, is checked to keep.                   *)
EXTENDS Naturals

CONSTANT
  Reports       \* what a host may have to report: "authFailure", "unplug"

ASSUME ReportsAssumption == Reports \subseteq {"authFailure", "unplug"}

VARIABLES
  host,         \* HIDDaemon.host and _host_task
  powered       \* the chip is powered and warm

(* "new" and "handoff" are tasks not yet run, "starting" opens the transport,  *)
(* "open" resets the controller, "connecting" is the rest of start() and the   *)
(* wait until _connection_future is settled, "drainWon"/"drainLost" end the     *)
(* handlers, "receiving" sets the device up and waits for its disconnection.   *)
LivePhases == {"new", "handoff", "starting", "open", "connecting",
               "drainWon", "drainLost", "receiving"}
HostRecords == [obj : BOOLEAN, open : BOOLEAN, report : SUBSET Reports,
                phase : LivePhases \cup {"none", "ended"}]
\* run() starts a host without a transport; one that a pairing left with an open
\* transport goes through continue_after_pairing() instead (daemon.py:158-171).
Hosts == {h \in HostRecords : h.open => h.phase \notin {"new", "starting"}}

NoHost == [obj |-> FALSE, open |-> FALSE, report |-> {}, phase |-> "none"]
\* A slip: the paired host is run from its start, on the transport it has.
NewHostRestarted(handoff) ==
  [obj |-> TRUE, open |-> handoff, report |-> {}, phase |-> "new"]
\* A host run() has just made, or the one a pairing left for it.
NewHost(handoff) == [obj |-> TRUE, open |-> handoff, report |-> {},
                     phase |-> IF handoff THEN "handoff" ELSE "new"]

Live(h) == h.phase \in LivePhases

\* A host moved to another phase, with its transport or its reports changed.
At(h, p)           == [h EXCEPT !.phase = p]
AtOpen(h, p, b)    == [h EXCEPT !.phase = p, !.open = b]
Says(h, r)         == [h EXCEPT !.report = r]
Closed(h)          == [h EXCEPT !.open = FALSE]
Dropped(h)         == [h EXCEPT !.obj = FALSE, !.report = {}]

\* Task.cancel() on _host_task: what it may make of the host.  While host.run()
\* drains its handlers the awaited handler takes the cancellation.  Where it is
\* at a wait_for(), which are the transport's open, the controller's reset and
\* the set-up of the device, the wait_for() of Python 3.10 passes over it if what
\* it waits for has just come.  Either way host.run() goes on.
CancelledHosts(h) ==
  IF ~Live(h) \/ h.phase \in {"drainWon", "drainLost"} THEN {h}
  ELSE IF h.phase = "connecting" THEN {At(h, "drainLost")}
  ELSE IF h.phase = "open" THEN {h, AtOpen(h, "ended", FALSE)}
  ELSE IF h.phase \in {"starting", "receiving"} THEN {h, At(h, "ended")}
  ELSE {At(h, "ended")}

-----------------------------------------------------------------------------
(* HIDHost.run() and continue_after_pairing()                               *)

HostStep(from, h) == host.phase = from /\ host' = h

HostBegins ==
  /\ \/ HostStep("new", At(host, "starting"))
     \/ \E p \in {"receiving", "ended"} : HostStep("handoff", At(host, p))
  /\ UNCHANGED powered

\* create_bumble_device(): a failure past the open closes what it opened; a
\* Reset timeout powers the chip off for a clean re-warm.
HostOpens ==
  \/ HostStep("starting", AtOpen(host, "open", TRUE))
     /\ UNCHANGED powered
  \/ HostStep("starting", At(host, "ended"))
     /\ UNCHANGED powered
  \/ HostStep("open", AtOpen(host, "ended", FALSE))
     /\ powered' \in {powered, FALSE}

\* create_bumble_device() has returned; what start() does next may fail.
HostStarted ==
  /\ \E p \in {"connecting", "ended"} : HostStep("open", At(host, p))
  /\ UNCHANGED powered

\* _connection_future: a connection won, or an error or the 60 s timeout.
HostSettled ==
  /\ \E p \in {"drainWon", "drainLost"} : HostStep("connecting", At(host, p))
  /\ UNCHANGED powered

\* The finally block has cancelled and awaited the protocol handlers.
HostDrained ==
  /\ \/ HostStep("drainWon", At(host, "receiving"))
     \/ HostStep("drainLost", At(host, "ended"))
  /\ UNCHANGED powered

\* The link is lost, or the set-up of the connected device fails.
HostLoses ==
  /\ HostStep("receiving", At(host, "ended"))
  /\ UNCHANGED powered

\* Link callbacks leave reports behind until run() or suspend() is done with
\* the host; one of a stale key may be taken back (host.py:274).
HostReports ==
  /\ host.obj /\ host.open
  /\ host.phase \in {"connecting", "drainWon", "drainLost", "receiving", "ended"}
  /\ \E r \in SUBSET Reports : /\ host.report \ {"authFailure"} \subseteq r
                               /\ host' = Says(host, r)
  /\ UNCHANGED powered

LifeNext == HostBegins \/ HostOpens \/ HostStarted \/ HostSettled
            \/ HostDrained \/ HostLoses \/ HostReports

\* The daemon cancels the task: suspend(), disconnect() or a shutdown.
HostCancelled == Live(host) /\ host' \in CancelledHosts(host) /\ UNCHANGED powered

\* The life of the one host, from the moment run() makes it.
LifeSpec ==
  /\ host \in {NewHost(FALSE), NewHost(TRUE)} /\ powered = TRUE
  /\ [][LifeNext \/ HostCancelled]_<<host, powered>>
=============================================================================
