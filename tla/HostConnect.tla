---------------------------- MODULE HostConnect ----------------------------
(* HIDHost.run() (host.py) with its two protocol handlers: the filter-accept-  *)
(* list loop of ble.py, or the scan loop it has for the wildcard address, and   *)
(* the paging loop of classic.py.  They race for one _connection_future, share  *)
(* connection / connected_protocol / _disconnection_event and take turns on     *)
(* _radio_lock.  All of it runs on one asyncio loop: an action is a segment     *)
(* from one await to the next.  A link is one use of a physical connection: one *)
(* that dropped stays down.                                                     *)
EXTENDS Naturals

CONSTANTS
  BleLinks, ClassicLinks,   \* the links there are
  NoLink,
  Starts,                   \* {"new"}: run(); {"handoff"}: after a pairing
  Setups,                   \* the handlers devices.conf may call for
  May                       \* bound: the links that may come up with each of them

ASSUME LinksAssumption ==
  /\ BleLinks \cap ClassicLinks = {}
  /\ {NoLink, "pending", "failed"} \cap (BleLinks \cup ClassicLinks) = {}
ASSUME StartsAssumption == Starts \subseteq {"new", "handoff"}
\* "ble" is an address for the accept list, "wild" the wildcard and no address.
ASSUME SetupsAssumption ==
  Setups \subseteq {s \in SUBSET {"ble", "wild", "classic"} : ~({"ble", "wild"} \subseteq s)}
ASSUME MayAssumption == May \in [Setups -> SUBSET (BleLinks \cup ClassicLinks)]

VARIABLES
  phase,        \* the await HIDHost.run() is at
  open,         \* the transport
  powered,      \* the chip is powered and warm
  configured,   \* what there is in classic_devices and ble_devices
  future,       \* _connection_future: "pending", "failed", or the link that won
  connection,   \* self.connection
  address,      \* the link current_device_address was taken from
  event,        \* _disconnection_event.is_set()
  report,       \* _auth_failure_address, _virtual_cable_unplug_address
  up, spent,    \* the links that are up; the ones that have been
  heard,        \* links with _on_disconnection registered
  lost,         \* links that dropped with somebody listening
  intr,         \* the link hid_host.l2cap_intr_channel belongs to
  latest,       \* the link of _classic_conn_task
  outlived,     \* history: links whose task passed over its cancellation
  listening,    \* the classic connection listener is registered
  ble, found,   \* the BLE handler's await, and the link its initiator got
  aimed,        \* the initiator is after an address the scan has matched
  attempt,      \* which attempt of the wildcard handler
  astray,       \* what cancelled handlers left the controller at
  page,         \* the Classic handler's await
  conn,         \* the on_classic_connection task of each Classic link
  radio         \* _radio_lock: "free" or its holder

runVars  == <<phase, open, powered, configured>>
linkVars == <<up, spent, lost>>
raceVars == <<future, connection, address, heard>>
lossVars == <<event, report>>
bleVars  == <<ble, found, aimed, attempt, astray>>
pageVars == <<page, listening>>
connVars == <<conn, intr, latest, outlived>>
vars == <<runVars, linkVars, raceVars, lossVars, bleVars, pageVars, connVars, radio>>

Reports == {"authFailure", "unplug"}
Links == BleLinks \cup ClassicLinks
Phases == {"new", "handoff", "starting", "open", "preparing", "waiting",
           "drainClassic", "drainBle", "setup", "resetup", "serving", "paired", "ended"}
BlePcs  == {"off", "lists", "lock", "initiate", "cancelling", "lockScan", "scan",
            "ending", "restore", "hangup", "done",
            "lockSeek", "seek", "lockDial", "dial", "redial", "rest"}
PagePcs == {"off", "enabling", "pause", "lock", "page", "teardown", "done"}
ConnPcs == {"none", "begin", "setup", "failing", "hangup", "done"}

ProtoOf(l) == IF l \in BleLinks THEN "ble" ELSE "classic"
\* self.connected_protocol is assigned wherever current_device_address is.
protocol == IF address = NoLink THEN "none" ELSE ProtoOf(address)
Settled == future # "pending"

Init ==
  /\ configured \in Setups
  /\ phase \in Starts
  /\ IF phase = "new"
     THEN /\ connection = NoLink /\ future = "pending" /\ address = NoLink
          /\ up = {} /\ spent = {} /\ open = FALSE
     ELSE \E l \in Links :      \* pair_device() left its link, up or down by now
            /\ ProtoOf(l) \in configured /\ l \in May[configured]
            /\ connection = l /\ future = l /\ address = l
            /\ up \in {{l}, {}} /\ spent = {l} /\ open = TRUE
  /\ powered = TRUE /\ event = FALSE /\ report = {}
  /\ heard = {} /\ lost = {} /\ intr = NoLink /\ listening = FALSE
  /\ ble = "off" /\ found = NoLink /\ aimed = FALSE /\ attempt = 0 /\ astray = {}
  /\ page = "off" /\ conn = [l \in ClassicLinks |-> "none"]
  /\ latest = NoLink /\ outlived = {}
  /\ radio = "free"

-----------------------------------------------------------------------------
(* _radio_lock: two contenders, so that a release hands it to the other one  *)

\* w starts on the radio, or waits for it.
BleAcquires(w, wait) ==
  IF radio = "free" THEN radio' = "ble" /\ ble' = w ELSE radio' = radio /\ ble' = wait
\* A slip: paging does not wait for the radio.
PageBarges == radio' = "classic" /\ page' = "page"
PageAcquires ==
  IF radio = "free" THEN radio' = "classic" /\ page' = "page"
                    ELSE radio' = radio /\ page' = "lock"

\* The waits for the lock, and what each is for.
Wants == [lock |-> "initiate", lockScan |-> "scan", lockSeek |-> "seek", lockDial |-> "dial"]

BleWaits == ble \in DOMAIN Wants
BleGets  == Wants[ble]

\* The BLE handler leaves the radio on its way to pc.
BleReleases(pc) ==
  /\ ble' = pc
  /\ IF page = "lock" THEN radio' = "classic" /\ page' = "page"
                      ELSE radio' = "free" /\ page' = page

\* The BLE handler is at the top of its loop and still, or again, free to go
\* on; after the radio it queues behind a waiting Classic handler.
BleReleasesFor(pc) ==
  IF page = "lock" THEN radio' = "classic" /\ page' = "page" /\ ble' = pc
  ELSE radio' = "ble" /\ page' = page /\ ble' = Wants[pc]

\* The Classic handler leaves the radio.  If connect_task was not done it is
\* cancelled, but nobody tells the controller, which pages on.
PageReleases(pc) ==
  /\ page' = pc /\ astray' \in {astray, astray \cup {"page"}}
  /\ IF BleWaits THEN radio' = "ble" /\ ble' = BleGets
                 ELSE radio' = "free" /\ ble' = ble

-----------------------------------------------------------------------------
(* Task.cancel() on the handlers, as run() does when it drains them          *)

handlers == <<ble, page, radio, astray>>

\* connect_task is awaited before the lock is released; a second cancel hastens it.
CutPage ==
  \/ page \in {"off", "done"} /\ UNCHANGED handlers
  \/ page \in {"enabling", "pause", "lock"} /\ page' = "done" /\ UNCHANGED <<ble, radio, astray>>
  \/ page = "page" /\ page' = "teardown" /\ UNCHANGED <<ble, radio, astray>>
  \/ page = "teardown" /\ PageReleases("done")

\* The initiator cancels its connection and the scan is stopped first; a second
\* cancel, or one that finds it at that already, leaves the lock held.  If what
\* it waits for has just come, the wait_for() of Python 3.10 passes over the
\* cancellation and the handler goes on.
CutBleListed ==
  /\ \/ ble' = IF ble \in {"initiate", "scan"} THEN "ending"
               ELSE IF ble = "off" THEN "off" ELSE "done"
     \/ /\ ble \in {"scan", "cancelling", "ending"} \/ (ble = "initiate" /\ found # NoLink)
        /\ UNCHANGED ble
  /\ UNCHANGED <<page, radio, astray>>

\* The wildcard handler leaves its scan running, and its connection attempt as
\* bumble leaves it.
CutBleWild ==
  \/ /\ ble = "seek" \/ (ble = "dial" /\ found = NoLink)
     /\ BleReleases("done")
     /\ astray' \in IF ble = "seek" THEN {astray \cup {"scan"}}
                    ELSE {astray, astray \cup {"initiator"}}
  \/ ble = "dial" /\ found # NoLink /\ UNCHANGED <<ble, page, radio, astray>>
  \/ ble \notin {"seek", "dial"} /\ ble' = "done" /\ UNCHANGED <<page, radio, astray>>

CutBle == IF "wild" \in configured THEN CutBleWild ELSE CutBleListed

-----------------------------------------------------------------------------
(* HIDHost.run(): from its start to the race, and out of it                  *)

Goes(from, to) == phase = from /\ phase' = to
rest == <<configured, linkVars, connection, address, heard, lossVars, found,
          aimed, attempt, listening, connVars>>

Begins ==
  /\ Goes("new", "starting")
  /\ UNCHANGED <<rest, handlers, future, open, powered>>

Opens ==
  /\ \/ Goes("starting", "open") /\ open' = TRUE
     \/ Goes("starting", "ended") /\ UNCHANGED open
  /\ UNCHANGED <<rest, handlers, future, powered>>

\* A slip: a Reset that times out leaves the transport open.
ResetFailsOpen ==
  /\ Goes("open", "ended") /\ powered' \in {powered, FALSE}
  /\ UNCHANGED <<rest, handlers, future, open>>
ResetFails ==
  /\ Goes("open", "ended") /\ open' = FALSE /\ powered' \in {powered, FALSE}
  /\ UNCHANGED <<rest, handlers, future>>

Started ==
  /\ \E p \in {"preparing", "ended"} : Goes("open", p)
  /\ UNCHANGED <<rest, handlers, future, open, powered>>

\* The rest of start(), then the handlers; with no device, or on a failure,
\* there is none to end.
Prepared ==
  /\ \/ /\ Goes("preparing", "waiting") /\ configured # {}
        /\ ble' = (IF configured \ {"classic"} # {} THEN "lists" ELSE "off")
        /\ page' = (IF "classic" \in configured THEN "enabling" ELSE "off")
        /\ UNCHANGED <<future, radio, astray>>
     \/ /\ Goes("preparing", "drainClassic")
        /\ future' = "failed" /\ UNCHANGED handlers
  /\ UNCHANGED <<rest, open, powered>>

\* wait_for(_connection_future, 60): the time-out cancels the future.
TimesOut ==
  /\ phase = "waiting" /\ ~Settled
  /\ future' = "failed"
  /\ UNCHANGED <<rest, runVars, handlers>>

\* finally: cancel and await the Classic handler, then the BLE handler.
DrainBegins ==
  /\ Goes("waiting", "drainClassic") /\ Settled
  /\ CutPage
  /\ UNCHANGED <<rest, future, open, powered>>

ClassicDrained ==
  /\ Goes("drainClassic", "drainBle") /\ page \in {"off", "done"}
  /\ CutBle
  /\ UNCHANGED <<rest, future, open, powered>>

\* A slip: the BLE handler is cancelled and not awaited.
BleDrainedAtOnce ==
  /\ Goes("drainBle", IF future \in Links THEN "setup" ELSE "ended")
  /\ UNCHANGED <<rest, handlers, future, open, powered>>
BleDrained ==
  /\ Goes("drainBle", IF future \in Links THEN "setup" ELSE "ended")
  /\ ble \in {"off", "done"}
  /\ UNCHANGED <<rest, handlers, future, open, powered>>

\* _handle_classic_connection() / _handle_ble_connection(): past discovery,
\* errors of a link that has dropped are swallowed.
SetUp ==
  /\ \/ /\ Goes("setup", "serving")
        /\ protocol = "ble" \/ (protocol = "classic" /\ intr # NoLink)
     \/ Goes("setup", "ended")
  /\ UNCHANGED <<rest, handlers, future, open, powered>>

\* The wait for _disconnection_event; a Classic auth failure beside a BLE
\* connection is passed over.
Serves ==
  /\ phase = "serving" /\ event
  /\ IF "authFailure" \in report /\ protocol = "ble" /\ connection # NoLink
     THEN phase' = phase /\ event' = FALSE /\ report' = report \ {"authFailure"}
     ELSE phase' = "ended" /\ UNCHANGED lossVars
  /\ UNCHANGED <<configured, linkVars, raceVars, bleVars, pageVars, connVars,
                 radio, open, powered>>

\* continue_after_pairing(): the listener is put on a link that may be down.
Continues ==
  /\ Goes("handoff", "resetup")
  /\ heard' = {connection}
  /\ UNCHANGED <<configured, linkVars, future, connection, address, lossVars,
                 bleVars, pageVars, connVars, radio, open, powered>>

\* The Classic set-up does not raise when its channels fail; the BLE one does.
Continued ==
  /\ \/ /\ Goes("resetup", "paired")
        /\ \/ protocol = "classic" /\ intr' \in {NoLink, connection}
           \/ protocol = "ble" /\ UNCHANGED intr
     \/ Goes("resetup", "ended") /\ protocol = "ble" /\ UNCHANGED intr
  /\ UNCHANGED <<configured, linkVars, raceVars, lossVars, bleVars, pageVars,
                 conn, latest, outlived, radio, open, powered>>

PairedEnds ==
  /\ Goes("paired", "ended") /\ event
  /\ UNCHANGED <<rest, handlers, future, open, powered>>

\* The daemon cancels the host task.  The wait_for() of Python 3.10 passes over
\* it when what it waits for has come: the settled future, and in the open, the
\* reset and the set-up the answer that was about to arrive.  A cancellation of
\* the drain goes to the handler being awaited.
Cancel ==
  \/ /\ phase = "open" /\ phase' = "ended" /\ open' = FALSE
     /\ UNCHANGED <<rest, handlers, future, powered>>
  \/ /\ phase \in {"new", "handoff", "starting", "setup", "resetup", "serving", "paired"}
     /\ phase' = "ended"
     /\ UNCHANGED <<rest, handlers, future, open, powered>>
  \/ /\ phase \in {"starting", "open", "setup", "resetup"}
     /\ UNCHANGED vars
  \/ /\ phase \in {"preparing", "waiting"} /\ ~Settled
     /\ phase' = "drainClassic" /\ future' = "failed" /\ CutPage
     /\ UNCHANGED <<rest, open, powered>>
  \/ /\ phase = "drainClassic" /\ CutPage
     /\ UNCHANGED <<rest, runVars, future>>
  \/ /\ phase = "drainBle" /\ CutBle
     /\ UNCHANGED <<rest, runVars, future>>

RunNext == Begins \/ Opens \/ ResetFails \/ Started \/ Prepared \/ TimesOut
           \/ DrainBegins \/ ClassicDrained \/ BleDrained \/ SetUp \/ Serves
           \/ Continues \/ Continued \/ PairedEnds

-----------------------------------------------------------------------------
(* The BLE handler                                                          *)

bleFrame == <<runVars, linkVars, lossVars, listening, connVars, astray>>

\* The accept list is loaded; a command that fails ends the handler.
BleListed ==
  /\ ble = "lists" /\ "ble" \in configured
  /\ \/ BleAcquires("initiate", "lock")
     \/ ble' = "done" /\ UNCHANGED radio
  /\ UNCHANGED <<bleFrame, raceVars, page, found, aimed, attempt>>

\* The window is over, or the command failed: cancel the connection attempt.
BleWindowEnds ==
  /\ ble = "initiate" /\ found = NoLink
  /\ ble' \in {"cancelling", "ending"}
  /\ UNCHANGED <<bleFrame, raceVars, found, aimed, attempt, page, radio>>

\* A slip: the loop does not look at the future.
BleTurnsOn == BleReleasesFor("lock") /\ aimed' = FALSE
\* The top of the loop.
BleTurns ==
  /\ aimed' = FALSE
  /\ IF Settled THEN BleReleases("done") ELSE BleReleasesFor("lock")

\* The attempt is cancelled: if it was on the accept list, scan for rotated
\* addresses.
BleGivesUp ==
  /\ ble = "cancelling"
  /\ \/ ~aimed /\ BleReleasesFor("lockScan") /\ UNCHANGED aimed
     \/ aimed /\ BleTurns
  /\ UNCHANGED <<bleFrame, raceVars, found, attempt>>

\* The scan is over; with a match the next attempt follows unconditionally.
BleScanned ==
  /\ ble = "scan"
  /\ \/ aimed' = TRUE /\ BleReleasesFor("lock")
     \/ BleTurns
  /\ UNCHANGED <<bleFrame, raceVars, found, attempt>>

BleEnds ==
  /\ ble = "ending" /\ BleReleases("done")
  /\ UNCHANGED <<bleFrame, raceVars, found, aimed, attempt>>

\* A slip: no one is told of the link's disconnection.
BleTakesDeaf ==
  /\ BleReleases("restore")
  /\ connection' = found /\ address' = found /\ UNCHANGED heard
\* _ble_initiate() has returned a link: take it unless another protocol won.
BleTakes ==
  \/ Settled /\ BleReleases("hangup") /\ UNCHANGED <<connection, address, heard>>
  \/ /\ ~Settled /\ BleReleases("restore")
     /\ connection' = found /\ address' = found /\ heard' = heard \cup {found}

BleInitiated ==
  /\ ble = "initiate" /\ found # NoLink
  /\ BleTakes
  /\ UNCHANGED <<bleFrame, found, aimed, attempt, future>>

\* _ble_restore_or_pair() works on self.connection, whichever that is by now,
\* and so does what the wildcard handler does with its success.
BleWon == IF "wild" \in configured THEN connection ELSE found

BleRestored ==
  /\ ble = "restore" /\ connection \in up \cup lost
  /\ ble' = "done" /\ future' = (IF Settled THEN future ELSE BleWon)
  /\ UNCHANGED <<bleFrame, connection, address, heard, found, aimed, attempt, page, radio>>

\* A slip: the attempts are counted from zero.
AfterFailureMore ==
  IF attempt \in 1..2 THEN "redial" ELSE IF Settled THEN "done" ELSE "rest"
\* After a failed attempt: two seconds to the second one, or the loop's three.
AfterFailure == IF attempt = 1 THEN "redial" ELSE IF Settled THEN "done" ELSE "rest"

BleUnrestored ==
  /\ ble = "restore"
  /\ ble' = IF "wild" \in configured THEN AfterFailure ELSE "done"
  /\ UNCHANGED <<bleFrame, raceVars, found, aimed, attempt, page, radio>>

BleHungUp ==
  /\ ble = "hangup"
  /\ \/ ble' = "done"
     \/ "wild" \in configured /\ ble' = AfterFailure
  /\ UNCHANGED <<bleFrame, raceVars, found, aimed, attempt, page, radio>>

BleNext == BleListed \/ BleWindowEnds \/ BleGivesUp \/ BleScanned \/ BleEnds
           \/ BleInitiated \/ BleRestored \/ BleUnrestored \/ BleHungUp

-----------------------------------------------------------------------------
(* The BLE handler for the wildcard address                                 *)

\* The top of its loop.
BleSeeks ==
  /\ (ble = "lists" /\ "wild" \in configured) \/ ble = "rest"
  /\ \/ Settled /\ ble' = "done" /\ UNCHANGED radio
     \/ ~Settled /\ BleAcquires("seek", "lockSeek")
  /\ UNCHANGED <<bleFrame, raceVars, found, aimed, attempt, page>>

\* Ten seconds of scanning, or less; what it found is connected to.
BleSought ==
  /\ ble = "seek"
  /\ \/ Settled /\ BleReleases("done") /\ UNCHANGED attempt
     \/ ~Settled /\ BleReleases("rest") /\ UNCHANGED attempt
     \/ ~Settled /\ BleReleasesFor("lockDial") /\ attempt' = 1
  /\ UNCHANGED <<bleFrame, raceVars, found, aimed>>

\* self.connection is assigned before the future is looked at.
BleDialed ==
  /\ ble = "dial" /\ found # NoLink
  /\ connection' = found /\ found' = NoLink
  /\ \/ Settled /\ BleReleases("hangup") /\ UNCHANGED <<address, heard>>
     \/ /\ ~Settled /\ BleReleases("restore")
        /\ address' = found /\ heard' = heard \cup {found}
  /\ UNCHANGED <<bleFrame, future, aimed, attempt>>

BleDialFails ==
  /\ ble = "dial" /\ found = NoLink /\ BleReleases(AfterFailure)
  /\ UNCHANGED <<bleFrame, raceVars, found, aimed, attempt>>

\* The second attempt does not look at the future.
BleRedials ==
  /\ ble = "redial" /\ BleAcquires("dial", "lockDial") /\ attempt' = attempt + 1
  /\ UNCHANGED <<bleFrame, raceVars, found, aimed, page>>

WildNext == BleSeeks \/ BleSought \/ BleDialed \/ BleDialFails \/ BleRedials

-----------------------------------------------------------------------------
(* The Classic handler and its connection tasks                             *)

pageFrame == <<runVars, linkVars, raceVars, lossVars, found, aimed, attempt,
               connVars>>

\* Page scan is on; with a wildcard only there is no one to page.
PageReady ==
  /\ page = "enabling"
  /\ \/ listening' = TRUE /\ page' \in {"pause", "done"}
     \/ page' = "done" /\ UNCHANGED listening
  /\ UNCHANGED <<pageFrame, ble, radio, astray>>

\* Between attempts, of which one is skipped while there is a connection.
PageTurn ==
  /\ page = "pause"
  /\ \/ Settled /\ page' = "done" /\ UNCHANGED radio
     \/ ~Settled /\ connection = NoLink /\ PageAcquires
  /\ UNCHANGED <<pageFrame, ble, listening, astray>>

PageEnds ==
  /\ \/ page = "page" /\ PageReleases("pause")
     \/ page = "teardown" /\ PageReleases("done")
  /\ UNCHANGED <<pageFrame, listening>>

connFrame == <<runVars, linkVars, bleVars, pageVars, radio, latest, outlived>>
ConnGoes(l, pc) == conn' = [conn EXCEPT ![l] = pc]

\* The race is over, or the address is not allowed: hang up.
ConnRefused(l) ==
  /\ conn[l] = "begin" /\ ConnGoes(l, "hangup")
  /\ UNCHANGED <<connFrame, raceVars, lossVars, intr>>

\* A slip: the future is not looked at.
ConnTakesAny(l) == conn[l] = "begin"
MayTake(l) == conn[l] = "begin" /\ ~Settled

ConnTaken(l) ==
  /\ MayTake(l) /\ ConnGoes(l, "setup")
  /\ heard' = (heard \ {connection}) \cup {l}
  /\ event' = FALSE
  /\ connection' = l /\ address' = l
  /\ UNCHANGED <<connFrame, report, future, intr>>

\* The up links whose peer, or whose task, may have opened hid_host's channels.
Channelled == {k \in ClassicLinks \cap up : conn[k] \notin {"none", "begin"}}

\* Role switch, authentication and the two channels, or conn_lost among them.
\* hid_host is one for all links: its channels may be another link's.
ConnSetUp(l) ==
  /\ conn[l] = "setup"
  /\ \/ l \in lost /\ ConnGoes(l, "done") /\ UNCHANGED <<future, intr>>
     \/ /\ l \notin lost /\ ConnGoes(l, "done")
        /\ intr' \in Channelled /\ future' = IF Settled THEN future ELSE l
     \/ /\ l \notin lost /\ intr \notin up /\ ConnGoes(l, "failing")
        /\ UNCHANGED <<future, intr>>
  /\ UNCHANGED <<connFrame, connection, address, heard, lossVars>>

\* The channels did not open and the link was hung up: whatever connection
\* there is now is forgotten.
ConnFailed(l) ==
  /\ conn[l] = "failing" /\ ConnGoes(l, "done")
  /\ connection' = NoLink /\ address' = NoLink
  /\ future' = IF Settled THEN future ELSE "failed"
  /\ UNCHANGED <<connFrame, heard, lossVars, intr>>

ConnHungUp(l) ==
  /\ conn[l] = "hangup" /\ ConnGoes(l, "done")
  /\ UNCHANGED <<connFrame, raceVars, lossVars, intr>>

ClassicNext == PageReady \/ PageTurn \/ PageEnds
ConnNext(l) == ConnRefused(l) \/ ConnTaken(l) \/ ConnSetUp(l) \/ ConnFailed(l)
               \/ ConnHungUp(l)

-----------------------------------------------------------------------------
(* The peers                                                                *)

\* The initiator's link; one that comes up while the attempt is being
\* cancelled is nobody's.
BleLinkUp(l) ==
  /\ open /\ l \in May[configured] \ spent /\ found = NoLink
  /\ ble \in {"initiate", "cancelling", "ending", "dial"} \/ "initiator" \in astray
  /\ up' = up \cup {l} /\ spent' = spent \cup {l}
  /\ found' = IF ble \in {"initiate", "dial"} THEN l ELSE found
  /\ astray' = astray \ {"initiator"}
  /\ UNCHANGED <<runVars, lost, raceVars, lossVars, ble, aimed, attempt, pageVars,
                 connVars, radio>>

\* A Classic peer pages us or answers; a task is made for it and the previous
\* one is cancelled, which its set-up may pass over.  Older ones are left alone.
Replaced(l, lasts) ==
  [k \in ClassicLinks |-> IF k = l THEN "begin"
                          ELSE IF k # latest \/ lasts THEN conn[k] ELSE "done"]
ClassicLinkUp(l) ==
  /\ open /\ l \in May[configured] \ spent /\ page # "off"
  /\ up' = up \cup {l} /\ spent' = spent \cup {l}
  /\ \/ ~listening /\ UNCHANGED connVars
     \/ listening /\ latest' = l /\ conn' = Replaced(l, FALSE) /\ UNCHANGED <<outlived, intr>>
     \/ /\ listening /\ latest' = l /\ conn' = Replaced(l, TRUE) /\ UNCHANGED intr
        /\ latest # NoLink /\ conn[latest] = "setup" /\ outlived' = outlived \cup {latest}
  /\ UNCHANGED <<runVars, lost, raceVars, lossVars, bleVars, pageVars, radio>>

\* The page that a cancelled connect_task left at the controller gets its answer
\* or times out.
PageLapses ==
  /\ "page" \in astray /\ astray' = astray \ {"page"}
  /\ UNCHANGED <<runVars, linkVars, raceVars, lossVars, ble, found, aimed, attempt,
                 pageVars, connVars, radio>>

\* _on_disconnection(): reason 5 counts as an authentication failure of
\* current_device_address whenever connected_protocol is Classic.
LinkDrops(l) ==
  /\ l \in up /\ up' = up \ {l}
  /\ \/ /\ l \notin heard
        /\ lost' = (IF l \in ClassicLinks /\ conn[l] \in {"setup", "failing"}
                    THEN lost \cup {l} ELSE lost)
        /\ UNCHANGED lossVars
     \/ /\ l \in heard /\ lost' = lost \cup {l} /\ event' = TRUE
        /\ \/ UNCHANGED report
           \/ protocol = "classic" /\ report' = report \cup {"authFailure"}
  /\ UNCHANGED <<runVars, spent, raceVars, bleVars, pageVars, connVars, radio>>

\* The peer opens its control channel once the link's task has begun; the channel
\* lasts as long as the link, whatever becomes of the task.
Unplugs(l) ==
  /\ l \in up /\ (l = intr \/ conn[l] \notin {"none", "begin"})
  /\ event' = TRUE
  /\ report' = IF protocol = "none" THEN report ELSE report \cup {"unplug"}
  /\ UNCHANGED <<runVars, linkVars, raceVars, bleVars, pageVars, connVars, radio>>

PeerNext == \/ PageLapses
            \/ \E l \in BleLinks : BleLinkUp(l)
            \/ \E l \in ClassicLinks : ClassicLinkUp(l) \/ Unplugs(l)
            \/ \E l \in Links : LinkDrops(l)

Next == RunNext \/ Cancel \/ BleNext \/ WildNext \/ ClassicNext \/ PeerNext
        \/ \E l \in ClassicLinks : ConnNext(l)

Spec == Init /\ [][Next]_vars

\* run()'s own steps follow once they can; the 60 s, the windows of the
\* initiator and of the scan and the page attempt's time-out run out; the
\* controller answers commands.  Nothing is assumed of a peer, or of pairing
\* and authentication with one.
Fairness ==
  /\ WF_vars(TimesOut) /\ WF_vars(DrainBegins \/ ClassicDrained \/ BleDrained)
  /\ WF_vars(BleWindowEnds \/ BleGivesUp \/ BleScanned \/ BleEnds
             \/ BleInitiated \/ BleHungUp \/ WildNext)
  /\ WF_vars(PageEnds)

FairSpec == Spec /\ Fairness

-----------------------------------------------------------------------------
(* Properties                                                               *)

TypeOK ==
  /\ phase \in Phases /\ open \in BOOLEAN /\ powered \in BOOLEAN
  /\ configured \in Setups /\ future \in Links \cup {"pending", "failed"}
  /\ connection \in Links \cup {NoLink} /\ address \in Links \cup {NoLink}
  /\ event \in BOOLEAN /\ report \subseteq Reports
  /\ up \subseteq spent /\ spent \subseteq Links /\ heard \subseteq Links
  /\ lost \subseteq Links /\ intr \in ClassicLinks \cup {NoLink}
  /\ listening \in BOOLEAN /\ ble \in BlePcs /\ found \in BleLinks \cup {NoLink}
  /\ aimed \in BOOLEAN /\ attempt \in 0..2 /\ astray \subseteq {"scan", "initiator", "page"}
  /\ page \in PagePcs /\ conn \in [ClassicLinks -> ConnPcs]
  /\ latest \in ClassicLinks \cup {NoLink} /\ outlived \subseteq ClassicLinks
  /\ radio \in {"free", "ble", "classic"}

\* _radio_lock (host.py:214, ble.py:138): no attempt of the BLE handler, nor what a
\* cancelled one leaves the controller at, is on the radio together with an attempt
\* of the Classic handler, whatever is cancelled when.  The lock does not keep the
\* BLE handler off while the controller pages on after a cancelled connect_task.
RadioAlone ==
  ~(/\ \/ ble \in {"initiate", "cancelling", "scan", "ending", "seek", "dial"}
       \/ astray \cap {"scan", "initiator"} # {}
    /\ page \in {"page", "teardown"})

\* Neither handler outlives the race: once run() sets the winner up, or has
\* ended, no one else starts anything on the radio (host.py:250-257).
HandlersEnd ==
  phase \in {"setup", "serving", "ended"} =>
    ble \in {"off", "done"} /\ page \in {"off", "done"}

Alone == configured \in {{"ble"}, {"wild"}, {"classic"}}

\* With one protocol configured the host serves the link that settled the future,
\* but after a replaced set-up task outlived its cancellation: that task may settle
\* the future with its old link, or fail and forget the new one.
ServesWinner ==
  phase = "serving" /\ Alone =>
    \/ connection = future
    \/ future \in outlived
    \/ connection = NoLink /\ outlived # {}

\* With one protocol configured a host does not wait on a dead link: if the link it
\* serves, which for Classic its interrupt channel belongs to, is down, its
\* disconnection event is set.
LossNoticed ==
  /\ phase = "serving" /\ Alone
  /\ connection \in (BleLinks \cup {intr}) \ up
  => event

\* host.py:511: the address kept for the daemon is that of the peer that sent the
\* unplug.
UnplugNamesSender ==
  [][\A l \in ClassicLinks : Unplugs(l) /\ "unplug" \in report' => address = l]_vars

\* README.md:151: with both protocols configured the first device to connect
\* wins, which for the handlers is the link that settled the future.
FirstWins == phase = "serving" /\ connection # NoLink => connection = future

\* host.py:269-270: only a Classic auth failure while BLE is connected is
\* absorbed: run() goes back to waiting only on a link that is still up.
OnlyAuthAbsorbed ==
  [][phase = "serving" /\ event /\ ~event' => connection \in up]_vars

\* Draining ends: a host that was settled or cancelled goes on or ends.
DrainEnds ==
  (phase = "waiting") ~> (phase \in {"setup", "ended"})

\* What HidDaemon takes a host to be.
LifePhase ==
  IF phase \in {"waiting", "drainClassic", "drainBle"} /\ Settled
  THEN IF future \in Links THEN "drainWon" ELSE "drainLost"
  ELSE IF phase \in {"preparing", "waiting"} THEN "connecting"
  ELSE IF phase \in {"setup", "resetup", "serving", "paired"} THEN "receiving"
  ELSE phase

L == INSTANCE HostLife WITH
       host <- [obj |-> TRUE, open |-> open, report |-> report, phase |-> LifePhase]

\* host.run() with its handlers is a host as the daemon knows it: cancelled,
\* lost and reporting only where HostLife says so.
ImplementsLife == L!LifeSpec
=============================================================================
