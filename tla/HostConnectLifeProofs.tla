----------------------- MODULE HostConnectLifeProofs -----------------------
(* HIDHost.run() serves the link that won, notices its loss, and is a host as *)
(* the daemon knows it.                                                       *)
EXTENDS HostConnectProofs

Fresh  == {"new", "starting", "open", "preparing"}
Racing == {"waiting", "drainClassic", "drainBle", "setup", "serving"}
Taken  == {"setup", "failing"}

\* When the transport is open, and how far the race is.
LifeInv ==
  /\ phase \in Racing \cup {"handoff", "open", "preparing", "resetup", "paired"} => open
  /\ phase \in {"new", "starting", "open"} => up = {}
  /\ up # {} => open
  /\ phase = "handoff" => heard = {} /\ intr = NoLink
  /\ phase \in Fresh => ~Settled /\ connection = NoLink /\ intr = NoLink
  /\ phase \in {"drainClassic", "drainBle"} => Settled
  /\ phase \in {"setup", "serving"} => future \in Links

\* A Classic link's task replaces the one before it, which is over unless it
\* has passed over its cancellation.
TaskInv ==
  /\ \A l \in ClassicLinks :
       /\ conn[l] # "none" => l \in spent
       /\ l # latest => conn[l] \in {"none", "done"} \/ (conn[l] \in Taken /\ l \in outlived)
  /\ latest \in spent \cup {NoLink} /\ outlived \subseteq spent \ {latest}
  /\ phase \in Racing /\ intr # NoLink => conn[intr] \notin {"none", "begin"}

\* Handlers that devices.conf does not call for do not run.
AbsentInv ==
  /\ "classic" \notin configured =>
       page = "off" /\ address \notin ClassicLinks /\ "authFailure" \notin report
         /\ \A l \in ClassicLinks : conn[l] = "none"
  /\ configured = {"classic"} =>
       ble = "off" /\ address \notin BleLinks /\ connection \notin BleLinks

\* self.connection is the link being worked on, unless a task that outlived its
\* cancellation has forgotten it.
Forgotten == connection = NoLink /\ outlived # {}
WorkInv ==
  /\ "classic" \notin configured /\ ble = "restore" =>
       connection \in heard /\ ("wild" \notin configured => connection = found)
  /\ configured = {"classic"} =>
       \A l \in ClassicLinks \ outlived : conn[l] \in Taken => connection = l \/ Forgotten

\* Then it is the one that won.
WonInv ==
  /\ "classic" \notin configured /\ future \in Links =>
       connection = future /\ ble \in Over
  /\ configured = {"classic"} /\ future \in Links \ outlived =>
       /\ connection = future \/ Forgotten
       /\ \A l \in ClassicLinks : conn[l] \in Taken => l \in outlived

\* Somebody listens to it, and the event of its loss stays set; of one that was
\* dead when its task took it, no channel is served.
HeardInv ==
  /\ "classic" \notin configured =>
       /\ lost # {} => event
       /\ future \in Links /\ phase \in Racing =>
            connection \in heard /\ (connection \in up \/ event)
  /\ configured = {"classic"} =>
       /\ connection # NoLink /\ phase \in Racing =>
            connection \in heard /\ (connection \in up \/ event \/ intr # connection)
       /\ phase = "serving" => intr # NoLink

LoneInv == TaskInv /\ AbsentInv /\ WorkInv /\ WonInv /\ HeardInv

USE DEF Fresh, Racing, Wild, Taken, Forgotten, Over, OnAir,
        runVars, linkVars, raceVars, lossVars, bleVars, pageVars, connVars

Kept == <<configured, linkVars, connection, address, heard, lossVars, found, connVars>>

\* Most steps move run() or a handler along and touch no link.
LEMMA QuietLone ==
  ASSUME IInv, LifeInv, LoneInv, UNCHANGED Kept,
         future' \in {future, "failed"},
         ble' = "restore" => ble = "restore",
         ble \in Over => ble' \in Over \/ future \notin Links,
         "classic" \notin configured => page' = page,
         configured = {"classic"} => ble' = ble,
         phase' \in Racing => phase \in Racing \cup {"preparing"},
         phase' = "serving" /\ configured = {"classic"} => phase = "serving" \/ intr # NoLink
  PROVE  LoneInv'
<1>1. future' \in Links => future' = future
  BY LinksAssumption DEF Links
<1>2. future \in Links => Settled
  BY LinksAssumption DEF Links, Settled
<1>3. phase = "preparing" => future \notin Links /\ connection = NoLink /\ intr = NoLink
  BY <1>2 DEF LifeInv
<1> USE DEF LoneInv, Kept
<1>4. TaskInv'
  BY <1>3 DEF TaskInv
<1>5. AbsentInv'
  BY DEF AbsentInv
<1>6. WorkInv'
  BY DEF WorkInv
<1>7. WonInv'
  BY <1>1 DEF WonInv
<1>8. HeardInv'
  <2>1. CASE "classic" \notin configured
    BY <1>1, <1>3, <2>1 DEF HeardInv
  <2>2. CASE configured = {"classic"}
    BY <1>3, <2>2 DEF HeardInv
  <2> QED BY <2>1, <2>2 DEF HeardInv
<1> QED BY <1>4, <1>5, <1>6, <1>7, <1>8

\* The lock passed on to the BLE handler does not bring it to a link.
LEMMA CutPageQuiet ==
  ASSUME LoneInv, CutPage \/ \E pc \in PagePcs : PageReleases(pc), page # "off" \/ CutPage
  PROVE  /\ ble' = "restore" => ble = "restore"
         /\ ble \in Over => ble' \in Over
         /\ "classic" \notin configured => page' = page
         /\ configured = {"classic"} => ble' = ble
<1>1. ble' = ble \/ (BleWaits /\ ble' = BleGets)
  BY DEF CutPage, PageReleases, handlers
<1>2. BleWaits => ble \notin Over /\ BleGets \notin {"restore"}
  BY DEF BleWaits, BleGets, Wants
<1>3. "classic" \notin configured => page' = page
  BY DEF LoneInv, AbsentInv, CutPage, handlers
<1> QED BY <1>1, <1>2, <1>3 DEF LoneInv, AbsentInv

LEMMA CutBleQuiet ==
  ASSUME LoneInv, CutBle, page \in Over
  PROVE  /\ ble' = "restore" => ble = "restore"
         /\ ble \in Over => ble' \in Over
         /\ page' = page
         /\ configured = {"classic"} => ble' = ble
<1>1. CASE CutBleListed
  BY <1>1 DEF CutBleListed, LoneInv, AbsentInv
<1>2. CASE CutBleWild /\ "wild" \in configured
  BY <1>2 DEF CutBleWild, BleReleases
<1> QED BY <1>1, <1>2 DEF CutBle

LEMMA RunLone ==
  ASSUME IInv, LifeInv, LoneInv, RunNext
  PROVE  LoneInv'
<1> USE DEF rest, Kept
<1>1. CASE Begins \/ Opens \/ ResetFails \/ Started \/ BleDrained \/ PairedEnds
  <2>1. UNCHANGED <<Kept, ble, page, future>>
    BY <1>1 DEF Begins, Opens, ResetFails, Started, BleDrained, PairedEnds, handlers
  <2>2. phase' \in Racing => phase \in Racing
    BY <1>1 DEF Begins, Opens, ResetFails, Started, BleDrained, PairedEnds, Goes
  <2>3. phase' # "serving"
    BY <1>1 DEF Begins, Opens, ResetFails, Started, BleDrained, PairedEnds, Goes
  <2> QED BY <2>1, <2>2, <2>3, QuietLone
<1>2. CASE Prepared
  <2>1. UNCHANGED Kept /\ future' \in {future, "failed"} /\ ble' \in {ble, "lists", "off"}
    BY <1>2 DEF Prepared, handlers
  <2>2. phase = "preparing" /\ phase' \in {"waiting", "drainClassic"}
    BY <1>2 DEF Prepared, Goes
  <2>3. future \notin Links
    BY <2>2, LinksAssumption DEF LifeInv, Settled, Links
  <2>4. page = "off" /\ ble = "off"
    BY <2>2 DEF IInv, HandInv, PhaseInv, Early
  <2>5. /\ "classic" \notin configured => page' = page
        /\ configured = {"classic"} => ble' = ble
    BY <1>2, <2>4 DEF Prepared, handlers
  <2> QED BY <2>1, <2>2, <2>3, <2>5, QuietLone
<1>3. CASE TimesOut
  <2>1. UNCHANGED <<Kept, ble, page, phase>> /\ future' = "failed"
    BY <1>3 DEF TimesOut, handlers
  <2> QED BY <2>1, QuietLone DEF LoneInv, HeardInv
<1>4. CASE DrainBegins
  <2>1. UNCHANGED <<Kept, future>> /\ phase = "waiting" /\ phase' = "drainClassic" /\ CutPage
    BY <1>4 DEF DrainBegins, Goes
  <2> QED BY <2>1, CutPageQuiet, QuietLone
<1>5. CASE ClassicDrained
  <2>1. /\ UNCHANGED <<Kept, future>> /\ phase = "drainClassic" /\ phase' = "drainBle"
        /\ CutBle /\ page \in Over
    BY <1>5 DEF ClassicDrained, Goes
  <2> QED BY <2>1, CutBleQuiet, QuietLone
<1>6. CASE SetUp
  <2>1. UNCHANGED <<Kept, ble, page, future>> /\ phase = "setup" /\ phase' \in {"serving", "ended"}
    BY <1>6 DEF SetUp, Goes, handlers
  <2>2. phase' = "serving" /\ configured = {"classic"} => intr # NoLink
    BY <1>6 DEF SetUp, Goes, protocol, ProtoOf, LoneInv, AbsentInv, IInv, Types, RaceType, Links
  <2> QED BY <2>1, <2>2, QuietLone
<1>7. CASE Serves
  <2>1. UNCHANGED <<configured, linkVars, raceVars, bleVars, pageVars, connVars>>
    BY <1>7 DEF Serves
  <2>2. \/ phase' = "ended" /\ UNCHANGED lossVars
        \/ UNCHANGED phase /\ report' \subseteq report /\ address \in BleLinks
             /\ "authFailure" \in report
    BY <1>7 DEF Serves, protocol, ProtoOf
  <2>3. TaskInv' /\ WorkInv' /\ WonInv'
    BY <2>1, <2>2 DEF LoneInv, TaskInv, WorkInv, WonInv
  <2>4. AbsentInv'
    BY <2>1, <2>2 DEF LoneInv, AbsentInv
  <2>5. HeardInv'
    BY <2>1, <2>2 DEF LoneInv, HeardInv, AbsentInv
  <2> QED BY <2>3, <2>4, <2>5 DEF LoneInv
<1>8. CASE Continues \/ Continued
  <2>1. /\ UNCHANGED <<configured, linkVars, future, connection, address, lossVars, bleVars,
                       pageVars, conn, latest, outlived>>
        /\ phase' \notin Racing
    BY <1>8 DEF Continues, Continued, Goes
  <2>2. phase \in {"handoff", "resetup"} /\ ble = "off"
    BY <1>8 DEF Continues, Continued, Goes, IInv, HandInv, PhaseInv, Early
  <2>3. TaskInv' /\ AbsentInv' /\ WonInv'
    BY <2>1 DEF LoneInv, TaskInv, AbsentInv, WonInv
  <2>4. WorkInv' /\ HeardInv'
    BY <2>1, <2>2 DEF LoneInv, WorkInv, HeardInv
  <2> QED BY <2>3, <2>4 DEF LoneInv
<1> QED BY <1>1, <1>2, <1>3, <1>4, <1>5, <1>6, <1>7, <1>8 DEF RunNext

LEMMA BleLone ==
  ASSUME IInv, LifeInv, LoneInv, BleNext \/ WildNext
  PROVE  LoneInv'
<1> USE DEF bleFrame
<1>1. CASE BleListed \/ BleWindowEnds \/ BleUnrestored \/ BleHungUp \/ BleSeeks \/ BleRedials
  <2>1. UNCHANGED <<Kept, raceVars, page, phase>> /\ ble \notin Over /\ ble' # "restore"
    BY <1>1 DEF Kept, BleListed, BleWindowEnds, BleUnrestored, BleHungUp, BleSeeks,
       BleRedials, BleAcquires, AfterFailure
  <2>2. configured # {"classic"}
    BY <2>1 DEF LoneInv, AbsentInv
  <2> QED BY <2>1, <2>2, QuietLone DEF LoneInv, HeardInv
<1>2. CASE BleGivesUp \/ BleScanned \/ BleEnds \/ BleSought \/ BleDialFails
  <2>1. UNCHANGED <<Kept, raceVars, phase>> /\ ble \notin Over /\ ble' # "restore"
    BY <1>2 DEF Kept, BleGivesUp, BleScanned, BleEnds, BleSought, BleDialFails, BleTurns,
       BleReleases, BleReleasesFor, AfterFailure, Wants
  <2>2. page = "lock" \/ page' = page
    BY <1>2 DEF BleGivesUp, BleScanned, BleEnds, BleSought, BleDialFails, BleTurns,
       BleReleases, BleReleasesFor
  <2>3. configured # {"classic"} /\ ("classic" \notin configured => page' = page)
    BY <2>1, <2>2 DEF LoneInv, AbsentInv
  <2> QED BY <2>1, <2>3, QuietLone DEF LoneInv, HeardInv
<1>3. CASE BleInitiated \/ BleDialed
  <2>1. /\ UNCHANGED <<configured, linkVars, lossVars, phase, connVars, future>>
        /\ ble \in {"initiate", "dial"} /\ ble' \in {"restore", "hangup"}
        /\ page = "lock" \/ page' = page
    BY <1>3 DEF BleInitiated, BleDialed, BleTakes, BleReleases
  <2>2. configured # {"classic"}
    BY <2>1 DEF LoneInv, AbsentInv
  <2>3. /\ ble' = "restore" => connection' = found /\ found \in heard'
        /\ address' \in {address, found}
    BY <1>3 DEF BleInitiated, BleDialed, BleTakes, BleReleases
  <2>3a. "wild" \notin configured => found' = found
    <3>1. ble = "dial" => "wild" \in configured
      BY DEF IInv, HandInv, FoundInv
    <3> QED BY <1>3, <3>1 DEF BleInitiated, BleDialed
  <2>4. TaskInv'
    BY <2>1 DEF LoneInv, TaskInv
  <2>5. AbsentInv'
    <3>1. found \notin ClassicLinks
      BY LinksAssumption DEF IInv, Types, BleType, Links
    <3> QED BY <2>1, <2>2, <2>3, <3>1 DEF LoneInv, AbsentInv
  <2>6. WorkInv'
    BY <2>1, <2>2, <2>3, <2>3a DEF LoneInv, WorkInv
  <2>7. "classic" \notin configured => future \notin Links
    BY <2>1 DEF LoneInv, WonInv
  <2>8. WonInv' /\ HeardInv'
    BY <2>1, <2>2, <2>7 DEF LoneInv, WonInv, HeardInv
  <2> QED BY <2>4, <2>5, <2>6, <2>8 DEF LoneInv
<1>4. CASE BleRestored
  <2>1. /\ UNCHANGED <<Kept, page, phase>> /\ ble = "restore" /\ ble' = "done"
        /\ connection \in up \cup lost
        /\ future' = IF Settled THEN future ELSE BleWon
    BY <1>4 DEF Kept, BleRestored
  <2>2. configured # {"classic"}
    BY <2>1 DEF LoneInv, AbsentInv
  <2> USE DEF Kept
  <2>3. TaskInv' /\ AbsentInv' /\ WorkInv'
    BY <2>1, <2>2 DEF LoneInv, TaskInv, AbsentInv, WorkInv
  <2>4. "classic" \notin configured =>
          future \notin Links /\ BleWon = connection /\ connection \in heard
    BY <2>1 DEF LoneInv, WorkInv, WonInv, BleWon
  <2>5. WonInv'
    BY <2>1, <2>2, <2>4 DEF LoneInv, WonInv
  <2>6. HeardInv'
    BY <2>1, <2>2, <2>4 DEF LoneInv, HeardInv
  <2> QED BY <2>3, <2>5, <2>6 DEF LoneInv
<1> QED BY <1>1, <1>2, <1>3, <1>4 DEF BleNext, WildNext

LEMMA ClassicLone ==
  ASSUME IInv, LifeInv, LoneInv, ClassicNext
  PROVE  LoneInv'
<1>1. UNCHANGED <<Kept, future, phase>> /\ page # "off"
  BY DEF ClassicNext, PageReady, PageTurn, PageEnds, pageFrame, Kept
<1>2. ble' = ble \/ \E pc \in PagePcs : PageReleases(pc)
  BY DEF ClassicNext, PageReady, PageTurn, PageEnds, PageAcquires, PagePcs
<1>3. "classic" \in configured
  BY <1>1 DEF LoneInv, AbsentInv
<1>4. /\ ble' = "restore" => ble = "restore"
      /\ ble \in Over => ble' \in Over
      /\ configured = {"classic"} => ble' = ble
  BY <1>1, <1>2, CutPageQuiet
<1> QED BY <1>1, <1>3, <1>4, QuietLone DEF LoneInv, HeardInv

LEMMA ConnLone ==
  ASSUME IInv, LifeInv, LoneInv, NEW l \in ClassicLinks, ConnNext(l)
  PROVE  LoneInv'
<1>1. UNCHANGED <<configured, phase, linkVars, ble, page, latest, outlived, found, report>>
  BY DEF ConnNext, ConnRefused, ConnTaken, ConnSetUp, ConnFailed, ConnHungUp, connFrame
<1>2. PICK p \in ConnPcs : conn' = [conn EXCEPT ![l] = p] /\ p # "none"
  BY DEF ConnNext, ConnRefused, ConnTaken, ConnSetUp, ConnFailed, ConnHungUp, ConnGoes, ConnPcs
<1>3. conn[l] # "none" /\ conn' \in [ClassicLinks -> ConnPcs] /\ conn'[l] = p
        /\ \A k \in ClassicLinks \ {l} : conn'[k] = conn[k]
  BY <1>2 DEF ConnNext, ConnRefused, ConnTaken, MayTake, ConnSetUp, ConnFailed, ConnHungUp,
     IInv, Types, ConnType
<1>4. "classic" \in configured /\ l \in Links /\ l # NoLink /\ NoLink \notin Links
  BY <1>3, LinksAssumption DEF LoneInv, AbsentInv, Links
<1>5. l # latest => p = "done" \/ (p \in Taken /\ l \in outlived)
  BY <1>2, <1>3 DEF LoneInv, TaskInv, ConnNext, ConnRefused, ConnTaken, MayTake, ConnSetUp,
     ConnFailed, ConnHungUp, ConnGoes
<1>6. p # "begin"
  BY <1>2, <1>3 DEF ConnNext, ConnRefused, ConnTaken, ConnSetUp, ConnFailed, ConnHungUp, ConnGoes
<1>7. intr' = intr \/ (intr' \in Channelled /\ p = "done")
  BY <1>3 DEF ConnNext, ConnRefused, ConnTaken, ConnSetUp, ConnFailed, ConnHungUp, ConnGoes
<1>8. TaskInv'
  <2>1. \A k \in ClassicLinks :
          /\ conn'[k] # "none" => k \in spent
          /\ k # latest => conn'[k] \in {"none", "done"} \/ (conn'[k] \in Taken /\ k \in outlived)
    BY <1>3, <1>5 DEF LoneInv, TaskInv
  <2>2. conn'[l] \notin {"none", "begin"}
    BY <1>2, <1>3, <1>6
  <2>3. phase \in Racing /\ intr' # NoLink => conn'[intr'] \notin {"none", "begin"}
    <3>1. CASE intr' = intr
      <4>1. intr \in ClassicLinks \cup {NoLink}
        BY DEF IInv, Types, ConnType
      <4> QED BY <1>3, <2>2, <3>1, <4>1 DEF LoneInv, TaskInv
    <3>2. CASE intr' \in Channelled
      BY <1>3, <2>2, <3>2 DEF Channelled
    <3> QED BY <1>7, <3>1, <3>2
  <2> QED BY <1>1, <2>1, <2>3 DEF LoneInv, TaskInv
<1>9. AbsentInv'
  BY <1>1, <1>4, LinksAssumption DEF LoneInv, AbsentInv, ConnNext, ConnRefused, ConnTaken,
     ConnSetUp, ConnFailed, ConnHungUp, Links
<1>10. ASSUME configured = {"classic"} PROVE WorkInv' /\ WonInv' /\ HeardInv'
  <2>1. CASE ConnRefused(l) \/ ConnHungUp(l)
    <3>1. UNCHANGED <<raceVars, lossVars, intr>> /\ p \notin Taken
      BY <1>3, <2>1 DEF ConnRefused, ConnHungUp, ConnGoes
    <3> QED BY <1>1, <1>3, <1>10, <3>1 DEF LoneInv, WorkInv, WonInv, HeardInv
  <2>2. CASE ConnTaken(l)
    <3>1. /\ ~Settled /\ connection' = l /\ l \in heard' /\ UNCHANGED <<future, intr>>
          /\ conn[l] = "begin"
      BY <2>2 DEF ConnTaken, MayTake
    <3>2. future \notin Links
      BY <3>1, LinksAssumption DEF Settled, Links
    <3>3. l = latest /\ \A k \in ClassicLinks \ outlived : conn[k] \in Taken => k = l
      BY <3>1 DEF LoneInv, TaskInv
    <3>4. WorkInv' /\ WonInv'
      BY <1>1, <1>3, <1>10, <3>1, <3>2, <3>3 DEF WorkInv, WonInv
    <3>5. phase \in Racing => intr # l
      BY <1>4, <3>1 DEF LoneInv, TaskInv
    <3> QED BY <1>1, <1>10, <3>1, <3>4, <3>5 DEF LoneInv, HeardInv
  <2>3. CASE ConnSetUp(l)
    <3>1. /\ conn[l] = "setup" /\ p \in {"done", "failing"}
          /\ UNCHANGED <<connection, heard, event>>
          /\ future' = future \/ (future' = l /\ ~Settled /\ p = "done")
          /\ intr' = intr \/ intr' \in up
      BY <1>3, <2>3 DEF ConnSetUp, ConnGoes, Channelled
    <3>2. WorkInv'
      BY <1>1, <1>3, <1>10, <3>1 DEF LoneInv, WorkInv
    <3>3. l \notin outlived => l = latest
      BY <3>1 DEF LoneInv, TaskInv
    <3>4. \A k \in ClassicLinks : k # latest /\ conn[k] \in Taken => k \in outlived
      BY DEF LoneInv, TaskInv
    <3>5. WonInv'
      BY <1>1, <1>3, <1>10, <3>1, <3>3, <3>4 DEF LoneInv, WorkInv, WonInv
    <3>6. NoLink \notin up
      BY <1>4 DEF IInv, Types, LinkType
    <3> QED BY <1>1, <1>10, <3>1, <3>2, <3>5, <3>6 DEF LoneInv, HeardInv
  <2>4. CASE ConnFailed(l)
    <3>1. /\ conn[l] = "failing" /\ connection' = NoLink /\ p = "done"
          /\ future' = (IF Settled THEN future ELSE "failed") /\ UNCHANGED <<heard, event, intr>>
      BY <1>3, <2>4 DEF ConnFailed, ConnGoes
    <3>2. future' \in Links => future' = future
      BY <3>1, LinksAssumption DEF Links
    <3>3. l \notin outlived => l = latest
      BY <3>1 DEF LoneInv, TaskInv
    <3>4. \A k \in ClassicLinks : k # latest /\ conn[k] \in Taken => k \in outlived
      BY DEF LoneInv, TaskInv
    <3>5. WorkInv'
      BY <1>1, <1>3, <1>10, <3>1, <3>3, <3>4 DEF WorkInv
    <3>6. WonInv'
      BY <1>1, <1>3, <1>10, <3>1, <3>2, <3>3, <3>4 DEF LoneInv, WonInv
    <3> QED BY <1>1, <1>10, <3>1, <3>5, <3>6 DEF LoneInv, HeardInv
  <2> QED BY <2>1, <2>2, <2>3, <2>4 DEF ConnNext
<1> QED BY <1>1, <1>4, <1>8, <1>9, <1>10 DEF LoneInv, WorkInv, WonInv, HeardInv

LEMMA CancelLone ==
  ASSUME IInv, LifeInv, LoneInv, Cancel
  PROVE  LoneInv'
<1> USE DEF rest, Kept
<1>1. CASE \/ /\ phase = "open"
              /\ phase' = "ended"
              /\ open' = FALSE
              /\ UNCHANGED <<rest, handlers, future, powered>>
           \/ /\ phase \in {"new", "handoff", "starting", "setup", "resetup", "serving", "paired"}
              /\ phase' = "ended"
              /\ UNCHANGED <<rest, handlers, future, open, powered>>
  <2>1. UNCHANGED <<Kept, ble, page, future>> /\ phase' = "ended"
    BY <1>1 DEF handlers
  <2> QED BY <2>1, QuietLone
<1>2. CASE UNCHANGED vars
  <2>1. UNCHANGED <<Kept, ble, page, future, phase>>
    BY <1>2 DEF vars
  <2> QED BY <2>1, QuietLone DEF LoneInv, HeardInv
<1>3. CASE /\ phase \in {"preparing", "waiting"}
           /\ ~Settled
           /\ phase' = "drainClassic"
           /\ future' = "failed"
           /\ CutPage
           /\ UNCHANGED <<rest, open, powered>>
  <2>1. UNCHANGED Kept /\ phase \in Racing \cup {"preparing"} /\ phase' = "drainClassic"
    BY <1>3
  <2> QED BY <1>3, <2>1, CutPageQuiet, QuietLone
<1>4. CASE /\ phase = "drainClassic"
           /\ CutPage
           /\ UNCHANGED <<rest, runVars, future>>
  <2>1. UNCHANGED <<Kept, phase, future>> /\ phase = "drainClassic"
    BY <1>4
  <2> QED BY <1>4, <2>1, CutPageQuiet, QuietLone
<1>5. CASE /\ phase = "drainBle"
           /\ CutBle
           /\ UNCHANGED <<rest, runVars, future>>
  <2>1. UNCHANGED <<Kept, phase, future>> /\ phase = "drainBle" /\ page \in Over
    BY <1>5 DEF IInv, HandInv, PhaseInv
  <2> QED BY <1>5, <2>1, CutBleQuiet, QuietLone
<1> QED BY <1>1, <1>2, <1>3, <1>4, <1>5 DEF Cancel

LEMMA PeerLone ==
  ASSUME IInv, LifeInv, LoneInv, PeerNext
  PROVE  LoneInv'
<1>1. ASSUME NEW l \in BleLinks, BleLinkUp(l)
      PROVE  LoneInv'
  <2>1. /\ UNCHANGED <<configured, phase, lost, raceVars, lossVars, ble, page, connVars>>
        /\ up \subseteq up' /\ spent \subseteq spent' /\ ble \in {ble, "restore"}
        /\ ble = "restore" => found' = found
    BY <1>1 DEF BleLinkUp
  <2>2. TaskInv' /\ AbsentInv'
    BY <2>1 DEF LoneInv, TaskInv, AbsentInv
  <2>3. WorkInv' /\ WonInv'
    BY <2>1 DEF LoneInv, WorkInv, WonInv
  <2>4. HeardInv'
    BY <2>1 DEF LoneInv, HeardInv
  <2> QED BY <2>2, <2>3, <2>4 DEF LoneInv
<1>2. ASSUME NEW l \in ClassicLinks, ClassicLinkUp(l)
      PROVE  LoneInv'
  <2>1. /\ UNCHANGED <<configured, phase, lost, raceVars, lossVars, ble, page, found, intr>>
        /\ up' = up \cup {l} /\ spent' = spent \cup {l} /\ l \notin spent /\ page # "off"
    BY <1>2 DEF ClassicLinkUp
  <2>2. "classic" \in configured
    BY <2>1 DEF LoneInv, AbsentInv
  <2>3. conn[l] = "none" /\ l \notin outlived
    BY <2>1 DEF LoneInv, TaskInv
  <2>4. CASE UNCHANGED connVars
    <3>1. TaskInv' /\ AbsentInv'
      BY <2>1, <2>4 DEF LoneInv, TaskInv, AbsentInv
    <3>2. WorkInv' /\ WonInv'
      BY <2>1, <2>4 DEF LoneInv, WorkInv, WonInv
    <3>3. HeardInv'
      BY <2>1, <2>4 DEF LoneInv, HeardInv
    <3> QED BY <3>1, <3>2, <3>3 DEF LoneInv
  <2>5. ASSUME NEW lasts \in BOOLEAN, latest' = l, conn' = Replaced(l, lasts),
               outlived' = outlived \cup (IF lasts THEN {latest} ELSE {}),
               lasts => latest \in ClassicLinks /\ conn[latest] = "setup"
        PROVE  LoneInv'
    <3>1. /\ conn'[l] = "begin"
          /\ \A k \in ClassicLinks \ {l} : conn'[k] = IF k # latest \/ lasts THEN conn[k] ELSE "done"
      BY <2>5 DEF Replaced
    <3>2. latest \in ClassicLinks /\ lasts => latest \in spent /\ latest # l
      BY <2>1, <2>5 DEF LoneInv, TaskInv
    <3>3. \A k \in ClassicLinks \ {l} : k \notin outlived' /\ conn'[k] \in Taken =>
            k \notin outlived /\ conn[k] \in Taken
      BY <2>5, <3>1
    <3>4. TaskInv'
      <4>1. \A k \in ClassicLinks : conn'[k] # "none" => k \in spent'
        <5>1. \A k \in ClassicLinks \ {l} : conn'[k] # "none" => conn[k] # "none" \/ k = latest
          BY <2>5, <3>1
        <5>2. latest \in ClassicLinks => latest \in spent
          BY LinksAssumption DEF LoneInv, TaskInv, Links
        <5> QED BY <2>1, <5>1, <5>2 DEF LoneInv, TaskInv
      <4>2. \A k \in ClassicLinks : k # l => conn'[k] \in {"none", "done"}
                                             \/ (conn'[k] \in Taken /\ k \in outlived')
        BY <2>5, <3>1 DEF LoneInv, TaskInv
      <4>3. outlived' \subseteq spent' \ {l}
        BY <2>1, <2>3, <2>5, <3>2 DEF LoneInv, TaskInv
      <4>4. phase \in Racing /\ intr # NoLink => intr # l /\ conn'[intr] \notin {"none", "begin"}
        BY <2>3, <3>1 DEF LoneInv, TaskInv, IInv, Types, ConnType
      <4> QED BY <2>1, <2>5, <4>1, <4>2, <4>3, <4>4 DEF TaskInv
    <3>5. AbsentInv'
      BY <2>1, <2>2 DEF LoneInv, AbsentInv
    <3>6. WorkInv'
      BY <2>1, <2>2, <2>5, <3>1, <3>3 DEF LoneInv, WorkInv
    <3>7. WonInv'
      BY <2>1, <2>2, <2>5, <3>1, <3>3 DEF LoneInv, WonInv
    <3>8. HeardInv'
      BY <2>1, <2>2 DEF LoneInv, HeardInv
    <3> QED BY <3>4, <3>5, <3>6, <3>7, <3>8 DEF LoneInv
  <2>6. \/ UNCHANGED connVars
        \/ /\ latest' = l
           /\ \/ conn' = Replaced(l, FALSE) /\ outlived' = outlived
              \/ /\ conn' = Replaced(l, TRUE) /\ outlived' = outlived \cup {latest}
                 /\ latest # NoLink /\ conn[latest] = "setup"
    BY <1>2 DEF ClassicLinkUp
  <2>7. latest \in ClassicLinks \cup {NoLink}
    BY DEF IInv, Types, ConnType
  <2> QED BY <2>4, <2>5, <2>6, <2>7
<1>3. ASSUME NEW l \in ClassicLinks, Unplugs(l)
      PROVE  LoneInv'
  <2>1. UNCHANGED <<configured, phase, linkVars, raceVars, ble, page, found, connVars>>
    BY <1>3 DEF Unplugs
  <2>2. event' /\ report' \subseteq report \cup {"unplug"}
    BY <1>3 DEF Unplugs
  <2>3. TaskInv' /\ WorkInv' /\ WonInv'
    BY <2>1 DEF LoneInv, TaskInv, WorkInv, WonInv
  <2>4. AbsentInv' /\ HeardInv'
    BY <2>1, <2>2 DEF LoneInv, AbsentInv, HeardInv
  <2> QED BY <2>3, <2>4 DEF LoneInv
<1>4. ASSUME NEW l \in Links, LinkDrops(l)
      PROVE  LoneInv'
  <2>1. /\ UNCHANGED <<configured, phase, spent, raceVars, ble, page, found, connVars>>
        /\ up' = up \ {l} /\ (event => event')
    BY <1>4 DEF LinkDrops
  <2>2. /\ l \in heard => event'
        /\ l \notin heard => UNCHANGED report /\ (lost' = lost
                               \/ (l \in ClassicLinks /\ conn[l] \in {"setup", "failing"}))
        /\ protocol # "classic" => UNCHANGED report
    BY <1>4 DEF LinkDrops
  <2>3. TaskInv' /\ WorkInv' /\ WonInv'
    BY <2>1 DEF LoneInv, TaskInv, WorkInv, WonInv
  <2>4. AbsentInv'
    <3>1. address \in BleLinks \cup {NoLink} => protocol # "classic"
      BY DEF protocol, ProtoOf
    <3>2. address \in Links \cup {NoLink}
      BY DEF IInv, Types, RaceType
    <3> QED BY <2>1, <2>2, <3>1, <3>2 DEF LoneInv, AbsentInv, Links
  <2>5. HeardInv'
    <3>1. "classic" \notin configured /\ l \notin heard => lost' = lost
      BY <2>2 DEF LoneInv, AbsentInv
    <3> QED BY <2>1, <2>2, <3>1 DEF LoneInv, HeardInv
  <2> QED BY <2>3, <2>4, <2>5 DEF LoneInv
<1>5. CASE PageLapses
  <2>1. UNCHANGED <<Kept, ble, page, future, phase>>
    BY <1>5 DEF PageLapses, Kept
  <2> QED BY <2>1, QuietLone DEF LoneInv, HeardInv
<1> QED BY <1>1, <1>2, <1>3, <1>4, <1>5 DEF PeerNext

-----------------------------------------------------------------------------
(* The handlers as run() sees them                                          *)

Handlers == BleNext \/ WildNext \/ ClassicNext \/ \E l \in ClassicLinks : ConnNext(l)

\* A handler runs during the race only, and what it changes of what run() and
\* the daemon look at is the future, once.
LEMMA HandlersLeave ==
  ASSUME IInv, Handlers
  PROVE  /\ phase \notin Early /\ UNCHANGED <<runVars, linkVars, report>>
         /\ Settled => future' = future
<1>1. CASE BleNext
  <2>1. ble # "off" /\ UNCHANGED bleFrame
    BY <1>1 DEF BleNext, BleListed, BleWindowEnds, BleGivesUp, BleScanned,
       BleEnds, BleInitiated, BleRestored, BleUnrestored, BleHungUp
  <2>2. Settled => future' = future
    BY <1>1 DEF BleNext, BleListed, BleWindowEnds, BleGivesUp, BleScanned,
       BleEnds, BleInitiated, BleRestored, BleUnrestored, BleHungUp
  <2> QED BY <2>1, <2>2 DEF bleFrame, IInv, HandInv, PhaseInv
<1>2. CASE WildNext
  <2>1. ble # "off" /\ UNCHANGED <<bleFrame, future>>
    BY <1>2 DEF WildNext, BleSeeks, BleSought, BleDialed, BleDialFails,
       BleRedials
  <2> QED BY <2>1 DEF bleFrame, IInv, HandInv, PhaseInv
<1>3. CASE ClassicNext
  <2>1. page # "off" /\ UNCHANGED pageFrame
    BY <1>3 DEF ClassicNext, PageReady, PageTurn, PageEnds
  <2> QED BY <2>1 DEF pageFrame, IInv, HandInv, PhaseInv
<1>4. ASSUME NEW l \in ClassicLinks, ConnNext(l)
      PROVE  /\ phase \notin Early /\ UNCHANGED <<runVars, linkVars, report>>
             /\ Settled => future' = future
  <2>1. conn[l] # "none" /\ UNCHANGED <<connFrame, report>>
    BY <1>4 DEF ConnNext, ConnRefused, ConnTaken, MayTake, ConnSetUp,
       ConnFailed, ConnHungUp
  <2>2. Settled => future' = future
    BY <1>4 DEF ConnNext, ConnRefused, ConnTaken, ConnSetUp, ConnFailed,
       ConnHungUp
  <2> QED BY <2>1, <2>2 DEF connFrame, IInv, HandInv, PhaseInv
<1> QED BY <1>1, <1>2, <1>3, <1>4 DEF Handlers

LEMMA NextCases == Next <=> RunNext \/ Cancel \/ Handlers \/ PeerNext
BY DEF Next, Handlers

-----------------------------------------------------------------------------
(* The invariants hold                                                      *)

LEMMA LifeInit == Init => LifeInv
BY StartsAssumption DEF Init, LifeInv, Settled

LEMMA LoneInit == Init => LoneInv
<1> SUFFICES ASSUME Init PROVE LoneInv
  OBVIOUS
<1> USE DEF Init
<1>1. TaskInv
  BY DEF TaskInv
<1>2. AbsentInv
  BY LinksAssumption DEF AbsentInv, Init, Links, ProtoOf, Alone
<1>3. WorkInv
  BY DEF WorkInv
<1>4. WonInv
  BY StartsAssumption, LinksAssumption DEF WonInv, Links
<1>5. HeardInv
  BY StartsAssumption DEF HeardInv
<1> QED BY <1>1, <1>2, <1>3, <1>4, <1>5 DEF LoneInv

LEMMA LifeStep ==
  ASSUME IInv, LifeInv, [Next]_vars
  PROVE  LifeInv'
<1>1. CASE RunNext
  <2>1. CASE Begins
    BY <2>1 DEF LifeInv, Settled, Begins, Goes, rest
  <2>2. CASE Opens
    BY <2>2 DEF LifeInv, Settled, Opens, Goes, rest
  <2>3. CASE ResetFails
    BY <2>3 DEF LifeInv, ResetFails, Goes, rest
  <2>4. CASE Started
    BY <2>4 DEF LifeInv, Settled, Started, Goes, rest
  <2>5. CASE Prepared
    BY <2>5 DEF LifeInv, Settled, Prepared, Goes
  <2>6. CASE TimesOut
    BY <2>6 DEF LifeInv, TimesOut
  <2>7. CASE DrainBegins
    BY <2>7 DEF LifeInv, Settled, DrainBegins, Goes
  <2>8. CASE ClassicDrained
    BY <2>8 DEF LifeInv, Settled, ClassicDrained, Goes
  <2>9. CASE BleDrained
    BY <2>9 DEF LifeInv, BleDrained, Goes
  <2>10. CASE SetUp
    BY <2>10 DEF LifeInv, SetUp, Goes
  <2>11. CASE Serves
    BY <2>11 DEF LifeInv, Serves
  <2>12. CASE Continues
    BY <2>12 DEF LifeInv, Continues, Goes
  <2>13. CASE Continued
    BY <2>13 DEF LifeInv, Continued, Goes
  <2>14. CASE PairedEnds
    BY <2>14 DEF LifeInv, PairedEnds, Goes
  <2> QED BY <1>1, <2>1, <2>2, <2>3, <2>4, <2>5, <2>6, <2>7, <2>8, <2>9, <2>10,
       <2>11, <2>12, <2>13, <2>14 DEF RunNext
<1>2. CASE Cancel
  <2>1. CASE UNCHANGED vars
    BY <2>1 DEF vars, LifeInv, Settled
  <2>2. CASE phase' = "ended"
    <3>1. up' # {} => open'
      BY <1>2, <2>2 DEF Cancel, LifeInv, rest, vars
    <3> QED BY <2>2, <3>1 DEF LifeInv
  <2>3. CASE phase' = "drainClassic" /\ future' = "failed" /\ UNCHANGED <<up, open>>
                /\ phase \in {"preparing", "waiting"}
    BY <2>3 DEF LifeInv, Settled
  <2>4. CASE UNCHANGED <<phase, open, up, future>> /\ phase \in {"drainClassic", "drainBle"}
    BY <2>4 DEF LifeInv, Settled
  <2> QED BY <1>2, <2>1, <2>2, <2>3, <2>4 DEF Cancel, rest
<1>3. CASE Handlers
  BY <1>3, HandlersLeave, LinksAssumption DEF LifeInv, Early, Settled, Links
<1>4. CASE PeerNext
  BY <1>4 DEF PeerNext, PageLapses, BleLinkUp, ClassicLinkUp, LinkDrops, Unplugs, LifeInv,
     Settled, IInv, HandInv, PhaseInv, Early
<1>5. CASE UNCHANGED vars
  BY <1>5 DEF vars, LifeInv, Settled
<1> QED BY <1>1, <1>2, <1>3, <1>4, <1>5, NextCases

LEMMA LoneStep ==
  ASSUME IInv, LifeInv, LoneInv, [Next]_vars
  PROVE  LoneInv'
<1>1. CASE Handlers
  BY <1>1, BleLone, ClassicLone, ConnLone DEF Handlers
<1>2. CASE UNCHANGED vars
  <2>1. UNCHANGED <<Kept, ble, page, future, phase>>
    BY <1>2 DEF vars, Kept
  <2> QED BY <2>1, QuietLone DEF LoneInv, HeardInv
<1> QED BY <1>1, <1>2, RunLone, CancelLone, PeerLone, NextCases

LEMMA WinnerInductive == Spec => [](IInv /\ LifeInv /\ LoneInv)
<1>1. Init => IInv /\ LifeInv /\ LoneInv
  BY InitOK, LifeInit, LoneInit
<1>2. IInv /\ LifeInv /\ LoneInv /\ [Next]_vars => (IInv /\ LifeInv /\ LoneInv)'
  BY StepOK, LifeStep, LoneStep
<1> QED BY <1>1, <1>2, PTL DEF Spec

\* With one protocol configured, self.connection is the link that settled the
\* future when host.run() comes to serve it: no connection task or second attempt
\* has replaced it (ble.py:120, classic.py:333).  What can is a replaced set-up task
\* that passed over its cancellation (classic.py:181-183): only it may settle the
\* future with its old link, or fail and forget the link that won.
THEOREM WinnerServed == Spec => []ServesWinner
<1>1. LifeInv /\ LoneInv => ServesWinner
  <2>1. CASE configured = {"classic"}
    BY <2>1 DEF LifeInv, LoneInv, WonInv, ServesWinner
  <2>2. CASE "classic" \notin configured
    BY <2>2 DEF LifeInv, LoneInv, WonInv, ServesWinner
  <2> QED BY <2>1, <2>2 DEF ServesWinner, Alone
<1> QED BY <1>1, WinnerInductive, PTL

\* With one protocol configured, a host whose link is down has been told: somebody
\* has listened to it since a handler took it (classic.py:103, ble.py:103), nothing
\* has cleared the event since (host.py:245, 263), and of a Classic link that was dead
\* when its task took it no channel is ever the host's, whatever tasks outlive their
\* cancellation.
THEOREM LossIsNoticed == Spec => []LossNoticed
<1>1. LifeInv /\ LoneInv => LossNoticed
  <2>1. CASE configured = {"classic"}
    BY <2>1 DEF LoneInv, AbsentInv, HeardInv, LossNoticed
  <2>2. CASE "classic" \notin configured
    BY <2>2 DEF LifeInv, LoneInv, HeardInv, LossNoticed
  <2> QED BY <2>1, <2>2 DEF LossNoticed, Alone
<1> QED BY <1>1, WinnerInductive, PTL

-----------------------------------------------------------------------------
(* The refinement: the daemon's host is                                     *)

Host == [obj |-> TRUE, open |-> open, report |-> report, phase |-> LifePhase]

\* What HostLife does to the record, said of the variables.
LEMMA HostMoves ==
  /\ UNCHANGED <<open, report>> => Host' = L!At(Host, LifePhase')
  /\ UNCHANGED report => Host' = L!AtOpen(Host, LifePhase', open')
  /\ UNCHANGED <<open, LifePhase>> => Host' = L!Says(Host, report')
<1> DEFINE h == Host
           g == Host'
           Records == [obj : {TRUE}, open : {open, open'},
                       report : {report, report'}, phase : {LifePhase, LifePhase'}]
<1>1. h \in Records /\ g \in Records
  BY DEF Host
<1>2. /\ h.open = open /\ h.report = report /\ h.phase = LifePhase
      /\ g.open = open' /\ g.report = report' /\ g.phase = LifePhase'
  BY DEF Host
<1> HIDE DEF h, g
<1>3. UNCHANGED <<open, report>> => g = L!At(h, LifePhase')
  BY <1>1, <1>2 DEF L!At
<1>4. ASSUME UNCHANGED report PROVE g = L!AtOpen(h, LifePhase', open')
  <2> DEFINE k == [h EXCEPT !.phase = LifePhase']
  <2>1. k \in Records /\ k.phase = LifePhase' /\ k.report = report
    BY <1>1, <1>2
  <2> HIDE DEF k
  <2>2. g = [k EXCEPT !.open = open']
    BY <1>1, <1>2, <1>4, <2>1
  <2> QED BY <2>2 DEF L!AtOpen, k
<1>5. UNCHANGED <<open, LifePhase>> => g = L!Says(h, report')
  BY <1>1, <1>2 DEF L!Says
<1> QED BY <1>3, <1>4, <1>5 DEF h, g

\* A step of the host that changes its phase, or the transport with it.
LEMMA Steps ==
  ASSUME NEW a, NEW b, LifePhase = a, LifePhase' = b, UNCHANGED report
  PROVE  /\ open' = open => L!HostStep(a, L!At(Host, b))
         /\ L!HostStep(a, L!AtOpen(Host, b, open'))
<1>1. Host.phase = a
  BY DEF Host
<1> QED BY <1>1, HostMoves DEF L!HostStep, Host

LEMMA MapsReports ==
  ASSUME open = TRUE, UNCHANGED <<open, LifePhase, powered>>,
         LifePhase \in {"connecting", "drainWon", "drainLost", "receiving", "ended"},
         report' \subseteq Reports, report \ {"authFailure"} \subseteq report'
  PROVE  L!HostReports
<1>1. Host.obj = TRUE /\ Host.open = open /\ Host.phase = LifePhase /\ Host.report = report
  BY DEF Host
<1>2. Host' = L!Says(Host, report')
  BY HostMoves
<1> QED BY <1>1, <1>2 DEF L!HostReports, Host

MapsTo == L!LifeNext \/ L!HostCancelled \/ UNCHANGED <<Host, powered>>

LEMMA MapsInit ==
  Init => Host \in {L!NewHost(FALSE), L!NewHost(TRUE)} /\ powered = TRUE
<1> SUFFICES ASSUME Init
             PROVE  Host \in {L!NewHost(FALSE), L!NewHost(TRUE)} /\ powered = TRUE
  OBVIOUS
<1>1. report = {} /\ powered = TRUE
  BY DEF Init
<1>2. CASE phase = "new"
  BY <1>1, <1>2 DEF Init, Host, L!NewHost, LifePhase
<1>3. CASE phase = "handoff"
  BY <1>1, <1>3 DEF Init, Host, L!NewHost, LifePhase
<1> QED BY <1>1, <1>2, <1>3, StartsAssumption DEF Init

LEMMA MapsHandlers ==
  ASSUME IInv, LifeInv, Handlers
  PROVE  MapsTo
<1>1. UNCHANGED <<phase, open, powered, report>> /\ (Settled => future' = future)
  BY HandlersLeave
<1>2. CASE LifePhase' = LifePhase
  BY <1>1, <1>2 DEF MapsTo, Host
<1>3. CASE LifePhase' # LifePhase
  <2>1. LifePhase = "connecting" /\ LifePhase' \in {"drainWon", "drainLost"}
    BY <1>1, <1>3 DEF LifePhase, LifeInv, Settled
  <2>2. L!HostStep("connecting", L!At(Host, LifePhase'))
    BY <1>1, <2>1, Steps
  <2> QED BY <1>1, <2>1, <2>2 DEF MapsTo, L!LifeNext, L!HostSettled, Host
<1> QED BY <1>2, <1>3

LEMMA MapsRun ==
  ASSUME IInv, LifeInv, RunNext
  PROVE  MapsTo
<1> USE DEF MapsTo, L!LifeNext, Host
<1>1. CASE Begins
  <2>1. LifePhase = "new" /\ LifePhase' = "starting" /\ UNCHANGED <<open, report, powered>>
    BY <1>1 DEF Begins, Goes, LifePhase, rest
  <2>2. L!HostStep("new", L!At(Host, "starting"))
    BY <2>1, Steps
  <2> QED BY <2>1, <2>2 DEF L!HostBegins
<1>2. CASE Opens
  <2>1. LifePhase = "starting" /\ UNCHANGED <<report, powered>>
    BY <1>2 DEF Opens, Goes, LifePhase, rest
  <2>2. \/ LifePhase' = "open" /\ open' = TRUE
        \/ LifePhase' = "ended" /\ open' = open
    BY <1>2 DEF Opens, Goes, LifePhase
  <2>3. \/ L!HostStep("starting", L!AtOpen(Host, "open", TRUE))
        \/ L!HostStep("starting", L!At(Host, "ended"))
    BY <2>1, <2>2, Steps
  <2> QED BY <2>1, <2>3 DEF L!HostOpens
<1>3. CASE ResetFails
  <2>1. /\ LifePhase = "open" /\ LifePhase' = "ended" /\ open' = FALSE
        /\ UNCHANGED report /\ powered' \in {powered, FALSE}
    BY <1>3 DEF ResetFails, Goes, LifePhase, rest
  <2>2. L!HostStep("open", L!AtOpen(Host, "ended", FALSE))
    BY <2>1, Steps
  <2> QED BY <2>1, <2>2 DEF L!HostOpens
<1>4. CASE Started
  <2>1. /\ LifePhase = "open" /\ LifePhase' \in {"connecting", "ended"}
        /\ UNCHANGED <<open, report, powered>>
    BY <1>4 DEF Started, Goes, LifePhase, rest
  <2>2. L!HostStep("open", L!At(Host, LifePhase'))
    BY <2>1, Steps
  <2> QED BY <2>1, <2>2 DEF L!HostStarted
<1>5. CASE Prepared \/ TimesOut
  <2>1. /\ LifePhase = "connecting" /\ LifePhase' \in {"connecting", "drainLost"}
        /\ UNCHANGED <<open, report, powered>>
    BY <1>5, LinksAssumption DEF Prepared, TimesOut, Goes, LifePhase, rest,
       LifeInv, Settled, Links
  <2>2. L!HostStep("connecting", L!At(Host, LifePhase'))
    BY <2>1, Steps
  <2> QED BY <2>1, <2>2 DEF L!HostSettled
<1>6. CASE DrainBegins \/ ClassicDrained
  BY <1>6 DEF DrainBegins, ClassicDrained, Goes, LifePhase, rest, LifeInv,
     Settled
<1>7. CASE BleDrained
  <2>1. /\ \/ LifePhase = "drainWon" /\ LifePhase' = "receiving"
           \/ LifePhase = "drainLost" /\ LifePhase' = "ended"
        /\ UNCHANGED <<open, report, powered>>
    BY <1>7 DEF BleDrained, Goes, LifePhase, rest, LifeInv
  <2>2. L!HostStep(LifePhase, L!At(Host, LifePhase'))
    BY <2>1, Steps
  <2> QED BY <2>1, <2>2 DEF L!HostDrained
<1>8. CASE SetUp \/ PairedEnds
  <2>1. /\ LifePhase = "receiving" /\ LifePhase' \in {"receiving", "ended"}
        /\ UNCHANGED <<open, report, powered>>
    BY <1>8 DEF SetUp, PairedEnds, Goes, LifePhase, rest
  <2>2. L!HostStep("receiving", L!At(Host, LifePhase'))
    BY <2>1, Steps
  <2> QED BY <2>1, <2>2 DEF L!HostLoses
<1>9. CASE Serves
  <2>1. LifePhase = "receiving" /\ UNCHANGED <<open, powered>> /\ open
    BY <1>9 DEF Serves, LifePhase, LifeInv
  <2>2. CASE phase' = "ended"
    <3>1. LifePhase' = "ended" /\ UNCHANGED report
      BY <1>9, <2>2 DEF Serves, LifePhase
    <3>2. L!HostStep("receiving", L!At(Host, "ended"))
      BY <2>1, <3>1, Steps
    <3> QED BY <2>1, <3>2 DEF L!HostLoses
  <2>3. CASE phase' # "ended"
    <3>1. LifePhase' = LifePhase /\ report' = report \ {"authFailure"}
      BY <1>9, <2>3 DEF Serves, LifePhase
    <3> QED BY <2>1, <3>1, MapsReports DEF IInv, Types, LossType
  <2> QED BY <2>2, <2>3
<1>10. CASE Continues
  <2>1. LifePhase = "handoff" /\ LifePhase' = "receiving" /\ UNCHANGED <<open, report, powered>>
    BY <1>10 DEF Continues, Goes, LifePhase
  <2>2. L!HostStep("handoff", L!At(Host, "receiving"))
    BY <2>1, Steps
  <2> QED BY <2>1, <2>2 DEF L!HostBegins
<1>11. CASE Continued
  <2>1. /\ LifePhase = "receiving" /\ LifePhase' \in {"receiving", "ended"}
        /\ UNCHANGED <<open, report, powered>>
    BY <1>11 DEF Continued, Goes, LifePhase
  <2>2. L!HostStep("receiving", L!At(Host, LifePhase'))
    BY <2>1, Steps
  <2> QED BY <2>1, <2>2 DEF L!HostLoses
<1> QED BY <1>1, <1>2, <1>3, <1>4, <1>5, <1>6, <1>7, <1>8, <1>9, <1>10, <1>11
        DEF RunNext

\* The daemon's cancellation reaches run(), or the handler it awaits, or nobody.
LEMMA MapsCancel ==
  ASSUME IInv, LifeInv, Cancel
  PROVE  MapsTo
<1> USE DEF MapsTo
<1>1. Host.phase = LifePhase
  BY DEF Host
<1>2. CASE phase = "open" /\ phase' = "ended"
  <2>1. /\ LifePhase = "open" /\ LifePhase' = "ended" /\ open' = FALSE
        /\ UNCHANGED <<report, powered>>
    BY <1>2 DEF Cancel, LifePhase, rest, vars
  <2>2. Host' = L!AtOpen(Host, "ended", FALSE)
    BY <2>1, HostMoves
  <2> QED BY <1>1, <2>1, <2>2 DEF L!HostCancelled, L!CancelledHosts, L!Live,
           L!LivePhases, Host
<1>3. CASE /\ phase \in {"new", "handoff", "starting", "setup", "resetup", "serving", "paired"}
           /\ phase' = "ended"
  <2>1. /\ LifePhase \in {"new", "handoff", "starting", "receiving"}
        /\ LifePhase' = "ended" /\ UNCHANGED <<open, report, powered>>
    BY <1>3 DEF Cancel, LifePhase, rest, vars
  <2>2. Host' = L!At(Host, "ended")
    BY <2>1, HostMoves
  <2> QED BY <1>1, <2>1, <2>2 DEF L!HostCancelled, L!CancelledHosts, L!Live,
           L!LivePhases, Host
<1>4. CASE phase \in {"preparing", "waiting"}
  <2>1. /\ LifePhase = "connecting" /\ LifePhase' = "drainLost"
        /\ UNCHANGED <<open, report, powered>>
    BY <1>4, LinksAssumption DEF Cancel, LifePhase, rest, Settled, Links
  <2>2. Host' = L!At(Host, "drainLost")
    BY <2>1, HostMoves
  <2> QED BY <1>1, <2>1, <2>2 DEF L!HostCancelled, L!CancelledHosts, L!Live,
           L!LivePhases, Host
<1>5. CASE phase \in {"drainClassic", "drainBle"}
  BY <1>5 DEF Cancel, LifePhase, rest, Host, Settled
<1>6. CASE UNCHANGED vars
  BY <1>6 DEF vars, Host, LifePhase, Settled
<1> QED BY <1>2, <1>3, <1>4, <1>5, <1>6 DEF Cancel

\* A link that comes up says nothing; one that drops or unplugs does so only
\* to a host that has been started.
LEMMA MapsPeer ==
  ASSUME IInv, LifeInv, PeerNext
  PROVE  MapsTo
<1> USE DEF MapsTo
<1>1. UNCHANGED <<open, powered, LifePhase>>
  BY DEF PeerNext, PageLapses, BleLinkUp, ClassicLinkUp, LinkDrops, Unplugs, LifePhase,
     Settled
<1>2. CASE UNCHANGED report
  BY <1>1, <1>2 DEF Host
<1>3. CASE ~UNCHANGED report
  <2>1. PICK l \in Links : LinkDrops(l) \/ (l \in ClassicLinks /\ Unplugs(l))
    BY <1>3 DEF PeerNext, PageLapses, BleLinkUp, ClassicLinkUp, Links
  <2>2. l \in up /\ report \subseteq report'
    BY <2>1 DEF LinkDrops, Unplugs
  <2>3. report' \subseteq Reports
    BY <2>1 DEF LinkDrops, Unplugs, Reports, IInv, Types, LossType
  <2>4. open = TRUE /\ phase \notin {"new", "starting", "open"}
    BY <2>2 DEF LifeInv
  <2>5. phase # "handoff"
    <3>1. CASE LinkDrops(l)
      BY <1>3, <3>1 DEF LinkDrops, LifeInv
    <3>2. CASE l \in ClassicLinks /\ Unplugs(l)
      BY <3>2, LinksAssumption DEF Unplugs, LifeInv, IInv, HandInv, PhaseInv,
         Early
    <3> QED BY <2>1, <3>1, <3>2
  <2>6. LifePhase \in {"connecting", "drainWon", "drainLost", "receiving", "ended"}
    BY <2>4, <2>5 DEF LifePhase, LifeInv, IInv, Types, RunType, Phases
  <2> QED BY <1>1, <2>2, <2>3, <2>4, <2>6, MapsReports DEF L!LifeNext
<1> QED BY <1>2, <1>3

\* host.run() and its handlers implement the host the daemon is written for
\* (daemon.py:195): they end, lose their link, report and take a cancellation
\* only where HostLife, on which HidDaemon is built, does.
THEOREM HostImplementsLife == Spec => ImplementsLife
<1>1. Init => Host \in {L!NewHost(FALSE), L!NewHost(TRUE)} /\ powered = TRUE
  BY MapsInit
<1>2. IInv /\ LifeInv /\ [Next]_vars
        => L!LifeNext \/ L!HostCancelled \/ UNCHANGED <<Host, powered>>
  <2>1. UNCHANGED vars => UNCHANGED <<Host, powered>>
    BY DEF vars, Host, LifePhase, Settled
  <2> QED BY <2>1, MapsRun, MapsCancel, MapsHandlers, MapsPeer, NextCases DEF MapsTo
<1> QED BY <1>1, <1>2, WinnerInductive, PTL
        DEF Spec, ImplementsLife, L!LifeSpec, Host

=============================================================================
