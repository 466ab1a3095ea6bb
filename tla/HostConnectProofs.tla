------------------------- MODULE HostConnectProofs -------------------------
(* HIDHost.run() and its handlers, for any links and any devices.conf.       *)
EXTENDS HostConnect, TLAPS

OnAir == {"initiate", "cancelling", "scan", "ending", "seek", "dial"}
Wild  == {"lockSeek", "seek", "lockDial", "dial", "redial", "rest"}
Over  == {"off", "done"}

\* The type invariant, by the variables that go together.
RunType  == /\ phase \in Phases /\ open \in BOOLEAN /\ powered \in BOOLEAN
            /\ configured \in Setups
LinkType == up \subseteq spent /\ spent \subseteq Links /\ lost \subseteq Links
RaceType == /\ future \in Links \cup {"pending", "failed"}
            /\ connection \in Links \cup {NoLink} /\ address \in Links \cup {NoLink}
            /\ heard \subseteq Links
LossType == event \in BOOLEAN /\ report \subseteq Reports
BleType  == /\ ble \in BlePcs /\ found \in BleLinks \cup {NoLink}
            /\ aimed \in BOOLEAN /\ attempt \in 0..2 /\ astray \subseteq {"scan", "initiator", "page"}
PageType == /\ page \in PagePcs /\ listening \in BOOLEAN
            /\ radio \in {"free", "ble", "classic"}
ConnType == /\ intr \in ClassicLinks \cup {NoLink} /\ conn \in [ClassicLinks -> ConnPcs]
            /\ latest \in ClassicLinks \cup {NoLink} /\ outlived \subseteq ClassicLinks

\* Whoever is on the radio holds the lock; a handler that is cancelled once too
\* often may leave it held by no one.  What a cancelled BLE handler left behind is
\* there only once nobody pages any more.
AirInv ==
  /\ ble \in OnAir => radio = "ble"
  /\ page \in {"page", "teardown"} => radio = "classic"
  /\ astray \cap {"scan", "initiator"} # {} => page \in Over

\* The handlers live between the start of the race and the end of its drain.
Early == {"new", "handoff", "starting", "open", "preparing", "resetup", "paired"}
PhaseInv ==
  /\ phase \in Early => /\ ble = "off" /\ page = "off" /\ astray = {}
                        /\ \A l \in ClassicLinks : conn[l] = "none"
  /\ phase \in {"handoff", "resetup"} =>
       connection \in Links /\ address = connection
  /\ phase \in {"drainBle", "setup", "serving", "ended"} => page \in Over
  /\ phase \in {"setup", "serving", "ended"} => ble \in Over

\* The BLE handler's steps are those of the handler that was started, and a
\* link is found before it is worked on; a second attempt follows only the first.
FoundInv ==
  /\ ble \in Wild => "wild" \in configured
  /\ ble = "restore" /\ "wild" \notin configured => found # NoLink
  /\ ble = "redial" => attempt = 1

Types == RunType /\ LinkType /\ RaceType /\ LossType /\ BleType /\ PageType /\ ConnType
HandInv == AirInv /\ PhaseInv /\ FoundInv
IInv == Types /\ HandInv

USE DEF OnAir, Wild, Over

-----------------------------------------------------------------------------
LEMMA TypesAreTypeOK == Types <=> TypeOK
BY DEF Types, TypeOK, RunType, LinkType, RaceType, LossType, BleType, PageType,
   ConnType

LEMMA InitOK == Init => IInv
<1> SUFFICES ASSUME Init PROVE IInv
  OBVIOUS
<1>1. RunType /\ phase \in {"new", "handoff"}
  BY StartsAssumption DEF Init, Phases, RunType
<1>2. LinkType /\ RaceType
  <2>1. CASE phase = "new"
    BY <2>1 DEF Init, LinkType, RaceType
  <2>2. CASE phase # "new"
    BY <2>2 DEF Init, LinkType, RaceType, ProtoOf
  <2> QED BY <2>1, <2>2
<1>3. LossType /\ PageType
  BY DEF Init, LossType, PageType, PagePcs
<1>4. BleType
  <2>1. ble = "off" /\ found = NoLink /\ aimed = FALSE /\ attempt = 0 /\ astray = {}
    BY DEF Init
  <2>2. ble \in BlePcs
    BY <2>1 DEF BlePcs
  <2>3. attempt \in 0..2
    BY <2>1
  <2>4. found \in BleLinks \cup {NoLink} /\ aimed \in BOOLEAN /\ astray \subseteq {"scan", "initiator", "page"}
    BY <2>1
  <2> QED BY <2>2, <2>3, <2>4 DEF BleType
<1>5. ConnType
  BY DEF Init, ConnType, ConnPcs
<1>6. HandInv
  BY <1>1, LinksAssumption DEF Init, HandInv, AirInv, PhaseInv, FoundInv,
     ProtoOf, Links
<1> QED BY <1>1, <1>2, <1>3, <1>4, <1>5, <1>6 DEF IInv, Types

\* What a step leaves alone keeps its type.
LEMMA RunKept == RunType /\ UNCHANGED runVars => RunType'
BY DEF RunType, runVars
LEMMA LinkKept == LinkType /\ UNCHANGED linkVars => LinkType'
BY DEF LinkType, linkVars
LEMMA RaceKept == RaceType /\ UNCHANGED raceVars => RaceType'
BY DEF RaceType, raceVars
LEMMA LossKept == LossType /\ UNCHANGED lossVars => LossType'
BY DEF LossType, lossVars
LEMMA BleKept == BleType /\ UNCHANGED bleVars => BleType'
BY DEF BleType, bleVars
LEMMA PageKept == PageType /\ UNCHANGED <<pageVars, radio>> => PageType'
BY DEF PageType, pageVars
LEMMA ConnKept == ConnType /\ UNCHANGED connVars => ConnType'
BY DEF ConnType, connVars

LEMMA StutterOK == IInv /\ UNCHANGED vars => IInv'
BY RunKept, LinkKept, RaceKept, LossKept, BleKept, PageKept, ConnKept DEF IInv,
   Types, HandInv, AirInv, PhaseInv, FoundInv, vars, runVars, raceVars,
   bleVars, pageVars, connVars

-----------------------------------------------------------------------------
(* The Classic handler's cancellation                                       *)

\* A radio handed on, and a page left to the controller, are the handler's to give.
LEMMA ReleaseTyped ==
  ASSUME BleType, NEW pc, PageReleases(pc), UNCHANGED <<found, aimed, attempt>>
  PROVE  BleType'
<1>1. ble' \in BlePcs
  BY DEF BleType, BlePcs, PageReleases, BleWaits, BleGets, Wants
<1>2. astray' \subseteq {"scan", "initiator", "page"}
  BY DEF BleType, PageReleases
<1> QED BY <1>1, <1>2 DEF BleType

LEMMA CutTyped ==
  ASSUME BleType, CutPage, UNCHANGED <<found, aimed, attempt>>
  PROVE  BleType'
<1>1. CASE UNCHANGED <<ble, astray>>
  BY <1>1 DEF BleType
<1>2. CASE PageReleases("done")
  BY <1>2, ReleaseTyped
<1> QED BY <1>1, <1>2 DEF CutPage, handlers

-----------------------------------------------------------------------------
(* HIDHost.run()                                                            *)

USE DEF runVars, linkVars, raceVars, lossVars, bleVars, pageVars, connVars

LEMMA RunOK ==
  ASSUME IInv, RunNext
  PROVE  IInv'
<1> USE DEF IInv, Types, rest, handlers
<1>1. CASE Begins
  <2>1. LinkType' /\ RaceType' /\ LossType' /\ BleType' /\ PageType' /\ ConnType'
    BY <1>1, LinkKept, RaceKept, LossKept, BleKept, PageKept, ConnKept DEF
       Begins
  <2>2. RunType'
    BY <1>1 DEF RunType, Phases, Begins, Goes
  <2>3. HandInv'
    BY <1>1 DEF HandInv, AirInv, PhaseInv, FoundInv, Early, Begins, Goes
  <2> QED BY <2>1, <2>2, <2>3
<1>2. CASE Opens
  <2>1. LinkType' /\ RaceType' /\ LossType' /\ BleType' /\ PageType' /\ ConnType'
    BY <1>2, LinkKept, RaceKept, LossKept, BleKept, PageKept, ConnKept DEF Opens
  <2>2. RunType'
    BY <1>2 DEF RunType, Phases, Opens, Goes
  <2>3. HandInv'
    BY <1>2 DEF HandInv, AirInv, PhaseInv, FoundInv, Early, Opens, Goes
  <2> QED BY <2>1, <2>2, <2>3
<1>3. CASE ResetFails
  <2>1. LinkType' /\ RaceType' /\ LossType' /\ BleType' /\ PageType' /\ ConnType'
    BY <1>3, LinkKept, RaceKept, LossKept, BleKept, PageKept, ConnKept DEF
       ResetFails
  <2>2. RunType'
    BY <1>3 DEF RunType, Phases, ResetFails, Goes
  <2>3. HandInv'
    BY <1>3 DEF HandInv, AirInv, PhaseInv, FoundInv, Early, ResetFails, Goes
  <2> QED BY <2>1, <2>2, <2>3
<1>4. CASE Started
  <2>1. LinkType' /\ RaceType' /\ LossType' /\ BleType' /\ PageType' /\ ConnType'
    BY <1>4, LinkKept, RaceKept, LossKept, BleKept, PageKept, ConnKept DEF
       Started
  <2>2. RunType'
    BY <1>4 DEF RunType, Phases, Started, Goes
  <2>3. HandInv'
    BY <1>4 DEF HandInv, AirInv, PhaseInv, FoundInv, Early, Started, Goes
  <2> QED BY <2>1, <2>2, <2>3
<1>5. CASE Prepared
  <2>1. LinkType' /\ LossType' /\ ConnType'
    BY <1>5, LinkKept, LossKept, ConnKept DEF Prepared
  <2>2. RunType'
    BY <1>5 DEF RunType, Phases, Prepared, Goes
  <2>3. RaceType'
    BY <1>5 DEF RaceType, Prepared
  <2>4. BleType'
    BY <1>5 DEF BleType, BlePcs, Prepared
  <2>5. PageType'
    BY <1>5 DEF PageType, PagePcs, Prepared
  <2>6. HandInv'
    BY <1>5 DEF HandInv, AirInv, PhaseInv, FoundInv, Early, Prepared, Goes
  <2> QED BY <2>1, <2>2, <2>3, <2>4, <2>5, <2>6
<1>6. CASE TimesOut
  <2>1. RunType' /\ LinkType' /\ LossType' /\ BleType' /\ PageType' /\ ConnType'
    BY <1>6, RunKept, LinkKept, LossKept, BleKept, PageKept, ConnKept DEF
       TimesOut
  <2>2. RaceType'
    BY <1>6 DEF RaceType, TimesOut
  <2>3. HandInv'
    BY <1>6 DEF HandInv, AirInv, PhaseInv, FoundInv, TimesOut
  <2> QED BY <2>1, <2>2, <2>3
<1>7. CASE DrainBegins
  <2>1. LinkType' /\ RaceType' /\ LossType' /\ ConnType'
    BY <1>7, LinkKept, RaceKept, LossKept, ConnKept DEF DrainBegins
  <2>2. RunType'
    BY <1>7 DEF RunType, Phases, DrainBegins, Goes
  <2>3. BleType'
    BY <1>7, CutTyped DEF DrainBegins
  <2>4. PageType'
    BY <1>7 DEF PageType, PagePcs, DrainBegins, CutPage, PageReleases
  <2>5. HandInv'
    BY <1>7 DEF HandInv, AirInv, PhaseInv, FoundInv, Early, DrainBegins, Goes,
       CutPage, PageReleases, BleWaits, BleGets, Wants
  <2> QED BY <2>1, <2>2, <2>3, <2>4, <2>5
<1>8. CASE ClassicDrained
  <2>1. LinkType' /\ RaceType' /\ LossType' /\ ConnType'
    BY <1>8, LinkKept, RaceKept, LossKept, ConnKept DEF ClassicDrained
  <2>2. RunType'
    BY <1>8 DEF RunType, Phases, ClassicDrained, Goes
  <2>3. BleType'
    BY <1>8 DEF BleType, BlePcs, ClassicDrained, CutBle, CutBleListed,
       CutBleWild, BleReleases
  <2>4. PageType'
    BY <1>8 DEF PageType, ClassicDrained, CutBle, CutBleListed, CutBleWild,
       BleReleases
  <2>5. HandInv'
    BY <1>8 DEF HandInv, AirInv, PhaseInv, FoundInv, Early, ClassicDrained,
       Goes, CutBle, CutBleListed, CutBleWild, BleReleases
  <2> QED BY <2>1, <2>2, <2>3, <2>4, <2>5
<1>9. CASE BleDrained
  <2>1. LinkType' /\ RaceType' /\ LossType' /\ BleType' /\ PageType' /\ ConnType'
    BY <1>9, LinkKept, RaceKept, LossKept, BleKept, PageKept, ConnKept DEF
       BleDrained
  <2>2. RunType'
    BY <1>9 DEF RunType, Phases, BleDrained, Goes
  <2>3. HandInv'
    BY <1>9 DEF HandInv, AirInv, PhaseInv, FoundInv, Early, BleDrained, Goes
  <2> QED BY <2>1, <2>2, <2>3
<1>10. CASE SetUp
  <2>1. LinkType' /\ RaceType' /\ LossType' /\ BleType' /\ PageType' /\ ConnType'
    BY <1>10, LinkKept, RaceKept, LossKept, BleKept, PageKept, ConnKept DEF
       SetUp
  <2>2. RunType'
    BY <1>10 DEF RunType, Phases, SetUp, Goes
  <2>3. HandInv'
    BY <1>10 DEF HandInv, AirInv, PhaseInv, FoundInv, Early, SetUp, Goes
  <2> QED BY <2>1, <2>2, <2>3
<1>11. CASE Serves
  <2>1. LinkType' /\ RaceType' /\ BleType' /\ PageType' /\ ConnType'
    BY <1>11, LinkKept, RaceKept, BleKept, PageKept, ConnKept DEF Serves
  <2>2. RunType'
    BY <1>11 DEF RunType, Phases, Serves
  <2>3. LossType'
    BY <1>11 DEF LossType, Serves
  <2>4. HandInv'
    BY <1>11 DEF HandInv, AirInv, PhaseInv, FoundInv, Early, Serves
  <2> QED BY <2>1, <2>2, <2>3, <2>4
<1>12. CASE Continues
  <2>1. LinkType' /\ LossType' /\ BleType' /\ PageType' /\ ConnType'
    BY <1>12, LinkKept, LossKept, BleKept, PageKept, ConnKept DEF Continues
  <2>2. RunType'
    BY <1>12 DEF RunType, Phases, Continues, Goes
  <2>3. RaceType'
    BY <1>12 DEF RaceType, HandInv, PhaseInv, Continues, Goes
  <2>4. HandInv'
    BY <1>12 DEF HandInv, AirInv, PhaseInv, FoundInv, Early, Continues, Goes
  <2> QED BY <2>1, <2>2, <2>3, <2>4
<1>13. CASE Continued
  <2>1. LinkType' /\ RaceType' /\ LossType' /\ BleType' /\ PageType'
    BY <1>13, LinkKept, RaceKept, LossKept, BleKept, PageKept DEF Continued
  <2>2. RunType'
    BY <1>13 DEF RunType, Phases, Continued, Goes
  <2>3. ConnType'
    BY <1>13, LinksAssumption DEF ConnType, HandInv, PhaseInv, Continued, Goes, Links,
       protocol, ProtoOf
  <2>4. HandInv'
    BY <1>13 DEF HandInv, AirInv, PhaseInv, FoundInv, Early, Continued, Goes
  <2> QED BY <2>1, <2>2, <2>3, <2>4
<1>14. CASE PairedEnds
  <2>1. LinkType' /\ RaceType' /\ LossType' /\ BleType' /\ PageType' /\ ConnType'
    BY <1>14, LinkKept, RaceKept, LossKept, BleKept, PageKept, ConnKept DEF
       PairedEnds
  <2>2. RunType'
    BY <1>14 DEF RunType, Phases, PairedEnds, Goes
  <2>3. HandInv'
    BY <1>14 DEF HandInv, AirInv, PhaseInv, FoundInv, Early, PairedEnds, Goes
  <2> QED BY <2>1, <2>2, <2>3
<1> QED BY <1>1, <1>2, <1>3, <1>4, <1>5, <1>6, <1>7, <1>8, <1>9, <1>10, <1>11,
       <1>12, <1>13, <1>14 DEF RunNext

-----------------------------------------------------------------------------
(* Cancellation                                                             *)

LEMMA CancelOK ==
  ASSUME IInv, Cancel
  PROVE  IInv'
<1> USE DEF IInv, Types, rest, handlers
<1>1. CASE /\ phase = "open"
          /\ phase' = "ended"
          /\ open' = FALSE
          /\ UNCHANGED <<rest, handlers, future, powered>>
  <2>1. LinkType' /\ RaceType' /\ LossType' /\ BleType' /\ PageType' /\ ConnType'
    BY <1>1, LinkKept, RaceKept, LossKept, BleKept, PageKept, ConnKept
  <2>2. RunType'
    BY <1>1 DEF RunType, Phases
  <2>3. HandInv'
    BY <1>1 DEF HandInv, AirInv, PhaseInv, FoundInv, Early
  <2> QED BY <2>1, <2>2, <2>3
<1>2. CASE /\ phase \in {"new", "handoff", "starting", "setup", "resetup", "serving", "paired"}
          /\ phase' = "ended"
          /\ UNCHANGED <<rest, handlers, future, open, powered>>
  <2>1. LinkType' /\ RaceType' /\ LossType' /\ BleType' /\ PageType' /\ ConnType'
    BY <1>2, LinkKept, RaceKept, LossKept, BleKept, PageKept, ConnKept
  <2>2. RunType'
    BY <1>2 DEF RunType, Phases
  <2>3. HandInv'
    BY <1>2 DEF HandInv, AirInv, PhaseInv, FoundInv, Early
  <2> QED BY <2>1, <2>2, <2>3
<1>3. CASE /\ phase \in {"preparing", "waiting"}
          /\ ~Settled
          /\ phase' = "drainClassic"
          /\ future' = "failed"
          /\ CutPage
          /\ UNCHANGED <<rest, open, powered>>
  <2>1. LinkType' /\ LossType' /\ ConnType'
    BY <1>3, LinkKept, LossKept, ConnKept
  <2>2. RunType'
    BY <1>3 DEF RunType, Phases
  <2>3. RaceType'
    BY <1>3 DEF RaceType
  <2>4. BleType'
    BY <1>3, CutTyped
  <2>5. PageType'
    BY <1>3 DEF PageType, PagePcs, CutPage, PageReleases
  <2>6. HandInv'
    BY <1>3 DEF HandInv, AirInv, PhaseInv, FoundInv, Early, CutPage,
       PageReleases, BleWaits, BleGets, Wants
  <2> QED BY <2>1, <2>2, <2>3, <2>4, <2>5, <2>6
<1>4. CASE /\ phase = "drainClassic"
          /\ CutPage
          /\ UNCHANGED <<rest, runVars, future>>
  <2>1. RunType' /\ LinkType' /\ RaceType' /\ LossType' /\ ConnType'
    BY <1>4, RunKept, LinkKept, RaceKept, LossKept, ConnKept
  <2>2. BleType'
    BY <1>4, CutTyped
  <2>3. PageType'
    BY <1>4 DEF PageType, PagePcs, CutPage, PageReleases
  <2>4. HandInv'
    BY <1>4 DEF HandInv, AirInv, PhaseInv, FoundInv, CutPage, PageReleases,
       BleWaits, BleGets, Wants
  <2> QED BY <2>1, <2>2, <2>3, <2>4
<1>5. CASE /\ phase = "drainBle"
          /\ CutBle
          /\ UNCHANGED <<rest, runVars, future>>
  <2>1. RunType' /\ LinkType' /\ RaceType' /\ LossType' /\ ConnType'
    BY <1>5, RunKept, LinkKept, RaceKept, LossKept, ConnKept
  <2>2. BleType'
    BY <1>5 DEF BleType, BlePcs, CutBle, CutBleListed, CutBleWild, BleReleases
  <2>3. PageType'
    BY <1>5 DEF PageType, PagePcs, CutBle, CutBleListed, CutBleWild, BleReleases
  <2>4. HandInv'
    BY <1>5 DEF HandInv, AirInv, PhaseInv, FoundInv, Early, CutBle,
       CutBleListed, CutBleWild, BleReleases
  <2> QED BY <2>1, <2>2, <2>3, <2>4
<1>6. CASE UNCHANGED vars
  BY <1>6, StutterOK
<1> QED BY <1>1, <1>2, <1>3, <1>4, <1>5, <1>6 DEF Cancel

-----------------------------------------------------------------------------
(* The BLE handler                                                          *)

LEMMA BleOK ==
  ASSUME IInv, BleNext
  PROVE  IInv'
<1> USE DEF IInv, Types, bleFrame
<1>1. CASE BleListed
  <2>1. RunType' /\ LinkType' /\ RaceType' /\ LossType' /\ ConnType'
    BY <1>1, RunKept, LinkKept, RaceKept, LossKept, ConnKept DEF BleListed
  <2>2. BleType'
    BY <1>1 DEF BleType, BlePcs, BleListed, BleAcquires
  <2>3. PageType'
    BY <1>1 DEF PageType, BleListed, BleAcquires
  <2>4. HandInv'
    BY <1>1 DEF HandInv, AirInv, PhaseInv, FoundInv, BleListed, BleAcquires
  <2> QED BY <2>1, <2>2, <2>3, <2>4
<1>2. CASE BleWindowEnds
  <2>1. RunType' /\ LinkType' /\ RaceType' /\ LossType' /\ PageType' /\ ConnType'
    BY <1>2, RunKept, LinkKept, RaceKept, LossKept, PageKept, ConnKept DEF
       BleWindowEnds
  <2>2. BleType'
    BY <1>2 DEF BleType, BlePcs, BleWindowEnds
  <2>3. HandInv'
    BY <1>2 DEF HandInv, AirInv, PhaseInv, FoundInv, BleWindowEnds
  <2> QED BY <2>1, <2>2, <2>3
<1>3. CASE BleGivesUp
  <2>1. RunType' /\ LinkType' /\ RaceType' /\ LossType' /\ ConnType'
    BY <1>3, RunKept, LinkKept, RaceKept, LossKept, ConnKept DEF BleGivesUp
  <2>2. BleType'
    BY <1>3 DEF BleType, BlePcs, BleGivesUp, BleTurns, BleReleases,
       BleReleasesFor, Wants
  <2>3. PageType'
    BY <1>3 DEF PageType, PagePcs, BleGivesUp, BleTurns, BleReleases,
       BleReleasesFor
  <2>4. HandInv'
    BY <1>3 DEF HandInv, AirInv, PhaseInv, FoundInv, BleGivesUp, BleTurns,
       BleReleases, BleReleasesFor, Wants
  <2> QED BY <2>1, <2>2, <2>3, <2>4
<1>4. CASE BleScanned
  <2>1. RunType' /\ LinkType' /\ RaceType' /\ LossType' /\ ConnType'
    BY <1>4, RunKept, LinkKept, RaceKept, LossKept, ConnKept DEF BleScanned
  <2>2. BleType'
    BY <1>4 DEF BleType, BlePcs, BleScanned, BleTurns, BleReleases,
       BleReleasesFor, Wants
  <2>3. PageType'
    BY <1>4 DEF PageType, PagePcs, BleScanned, BleTurns, BleReleases,
       BleReleasesFor
  <2>4. HandInv'
    BY <1>4 DEF HandInv, AirInv, PhaseInv, FoundInv, BleScanned, BleTurns,
       BleReleases, BleReleasesFor, Wants
  <2> QED BY <2>1, <2>2, <2>3, <2>4
<1>5. CASE BleEnds
  <2>1. RunType' /\ LinkType' /\ RaceType' /\ LossType' /\ ConnType'
    BY <1>5, RunKept, LinkKept, RaceKept, LossKept, ConnKept DEF BleEnds
  <2>2. BleType'
    BY <1>5 DEF BleType, BlePcs, BleEnds, BleReleases
  <2>3. PageType'
    BY <1>5 DEF PageType, PagePcs, BleEnds, BleReleases
  <2>4. HandInv'
    BY <1>5 DEF HandInv, AirInv, PhaseInv, FoundInv, BleEnds, BleReleases
  <2> QED BY <2>1, <2>2, <2>3, <2>4
<1>6. CASE BleInitiated
  <2>1. RunType' /\ LinkType' /\ LossType' /\ ConnType'
    BY <1>6, RunKept, LinkKept, LossKept, ConnKept DEF BleInitiated
  <2>2. BleType'
    BY <1>6 DEF BleType, BlePcs, BleInitiated, BleTakes, BleReleases
  <2>3. PageType'
    BY <1>6 DEF PageType, PagePcs, BleInitiated, BleTakes, BleReleases
  <2>4. RaceType'
    BY <1>6 DEF RaceType, Links, BleType, BleInitiated, BleTakes
  <2>5. HandInv'
    BY <1>6 DEF HandInv, AirInv, PhaseInv, FoundInv, Early, BleInitiated,
       BleTakes, BleReleases
  <2> QED BY <2>1, <2>2, <2>3, <2>4, <2>5
<1>7. CASE BleRestored
  <2>1. RunType' /\ LinkType' /\ LossType' /\ PageType' /\ ConnType'
    BY <1>7, RunKept, LinkKept, LossKept, PageKept, ConnKept DEF BleRestored
  <2>2. BleType'
    BY <1>7 DEF BleType, BlePcs, BleRestored
  <2>3. RaceType'
    BY <1>7 DEF RaceType, Links, BleType, LinkType, HandInv, FoundInv,
       BleRestored, BleWon
  <2>4. HandInv'
    BY <1>7 DEF HandInv, AirInv, PhaseInv, FoundInv, BleRestored
  <2> QED BY <2>1, <2>2, <2>3, <2>4
<1>8. CASE BleUnrestored
  <2>1. RunType' /\ LinkType' /\ RaceType' /\ LossType' /\ PageType' /\ ConnType'
    BY <1>8, RunKept, LinkKept, RaceKept, LossKept, PageKept, ConnKept DEF
       BleUnrestored
  <2>2. BleType'
    BY <1>8 DEF BleType, BlePcs, BleUnrestored, AfterFailure
  <2>3. HandInv'
    BY <1>8 DEF HandInv, AirInv, PhaseInv, FoundInv, BleUnrestored, AfterFailure
  <2> QED BY <2>1, <2>2, <2>3
<1>9. CASE BleHungUp
  <2>1. RunType' /\ LinkType' /\ RaceType' /\ LossType' /\ PageType' /\ ConnType'
    BY <1>9, RunKept, LinkKept, RaceKept, LossKept, PageKept, ConnKept DEF
       BleHungUp
  <2>2. BleType'
    BY <1>9 DEF BleType, BlePcs, BleHungUp, AfterFailure
  <2>3. HandInv'
    BY <1>9 DEF HandInv, AirInv, PhaseInv, FoundInv, BleHungUp, AfterFailure
  <2> QED BY <2>1, <2>2, <2>3
<1> QED BY <1>1, <1>2, <1>3, <1>4, <1>5, <1>6, <1>7, <1>8, <1>9 DEF BleNext

LEMMA WildOK ==
  ASSUME IInv, WildNext
  PROVE  IInv'
<1> USE DEF IInv, Types, bleFrame
<1>1. CASE BleSeeks
  <2>1. RunType' /\ LinkType' /\ RaceType' /\ LossType' /\ ConnType'
    BY <1>1, RunKept, LinkKept, RaceKept, LossKept, ConnKept DEF BleSeeks
  <2>2. BleType'
    BY <1>1 DEF BleType, BlePcs, BleSeeks, BleAcquires
  <2>3. PageType'
    BY <1>1 DEF PageType, BleSeeks, BleAcquires
  <2>4. HandInv'
    BY <1>1 DEF HandInv, AirInv, PhaseInv, FoundInv, BleSeeks, BleAcquires
  <2> QED BY <2>1, <2>2, <2>3, <2>4
<1>2. CASE BleSought
  <2>1. RunType' /\ LinkType' /\ RaceType' /\ LossType' /\ ConnType'
    BY <1>2, RunKept, LinkKept, RaceKept, LossKept, ConnKept DEF BleSought
  <2>2. BleType'
    BY <1>2 DEF BleType, BlePcs, BleSought, BleReleases, BleReleasesFor, Wants
  <2>3. PageType'
    BY <1>2 DEF PageType, PagePcs, BleSought, BleReleases, BleReleasesFor
  <2>4. HandInv'
    BY <1>2 DEF HandInv, AirInv, PhaseInv, FoundInv, BleSought, BleReleases,
       BleReleasesFor
  <2> QED BY <2>1, <2>2, <2>3, <2>4
<1>3. CASE BleDialed
  <2>1. RunType' /\ LinkType' /\ LossType' /\ ConnType'
    BY <1>3, RunKept, LinkKept, LossKept, ConnKept DEF BleDialed
  <2>2. BleType'
    BY <1>3 DEF BleType, BlePcs, BleDialed, BleReleases
  <2>3. PageType'
    BY <1>3 DEF PageType, PagePcs, BleDialed, BleReleases
  <2>4. RaceType'
    BY <1>3 DEF RaceType, Links, BleType, BleDialed
  <2>5. HandInv'
    BY <1>3 DEF HandInv, AirInv, PhaseInv, FoundInv, Early, BleDialed,
       BleReleases
  <2> QED BY <2>1, <2>2, <2>3, <2>4, <2>5
<1>4. CASE BleDialFails
  <2>1. RunType' /\ LinkType' /\ RaceType' /\ LossType' /\ ConnType'
    BY <1>4, RunKept, LinkKept, RaceKept, LossKept, ConnKept DEF BleDialFails
  <2>2. BleType'
    BY <1>4 DEF BleType, BlePcs, BleDialFails, AfterFailure, BleReleases
  <2>3. PageType'
    BY <1>4 DEF PageType, PagePcs, BleDialFails, BleReleases
  <2>4. HandInv'
    BY <1>4 DEF HandInv, AirInv, PhaseInv, FoundInv, BleDialFails,
       AfterFailure, BleReleases
  <2> QED BY <2>1, <2>2, <2>3, <2>4
<1>5. CASE BleRedials
  <2>1. RunType' /\ LinkType' /\ RaceType' /\ LossType' /\ ConnType'
    BY <1>5, RunKept, LinkKept, RaceKept, LossKept, ConnKept DEF BleRedials
  <2>2. BleType'
    <3>1. attempt' = 2
      BY <1>5 DEF HandInv, FoundInv, BleRedials
    <3> QED BY <1>5, <3>1 DEF BleType, BlePcs, BleRedials, BleAcquires
  <2>3. PageType'
    BY <1>5 DEF PageType, BleRedials, BleAcquires
  <2>4. HandInv'
    BY <1>5 DEF HandInv, AirInv, PhaseInv, FoundInv, BleRedials, BleAcquires
  <2> QED BY <2>1, <2>2, <2>3, <2>4
<1> QED BY <1>1, <1>2, <1>3, <1>4, <1>5 DEF WildNext

-----------------------------------------------------------------------------
(* The Classic handler, its tasks, and the peers                            *)

LEMMA ClassicOK ==
  ASSUME IInv, ClassicNext
  PROVE  IInv'
<1> USE DEF IInv, Types, pageFrame
<1>1. CASE PageReady
  <2>1. RunType' /\ LinkType' /\ RaceType' /\ LossType' /\ BleType' /\ ConnType'
    BY <1>1, RunKept, LinkKept, RaceKept, LossKept, BleKept, ConnKept DEF
       PageReady
  <2>2. PageType'
    BY <1>1 DEF PageType, PagePcs, PageReady
  <2>3. HandInv'
    BY <1>1 DEF HandInv, AirInv, PhaseInv, FoundInv, PageReady
  <2> QED BY <2>1, <2>2, <2>3
<1>2. CASE PageTurn
  <2>1. RunType' /\ LinkType' /\ RaceType' /\ LossType' /\ BleType' /\ ConnType'
    BY <1>2, RunKept, LinkKept, RaceKept, LossKept, BleKept, ConnKept DEF
       PageTurn
  <2>2. PageType'
    BY <1>2 DEF PageType, PagePcs, PageTurn, PageAcquires
  <2>3. HandInv'
    BY <1>2 DEF HandInv, AirInv, PhaseInv, FoundInv, PageTurn, PageAcquires
  <2> QED BY <2>1, <2>2, <2>3
<1>3. CASE PageEnds
  <2>1. RunType' /\ LinkType' /\ RaceType' /\ LossType' /\ ConnType'
    BY <1>3, RunKept, LinkKept, RaceKept, LossKept, ConnKept DEF PageEnds
  <2>2. BleType'
    BY <1>3, ReleaseTyped DEF PageEnds
  <2>3. PageType'
    BY <1>3 DEF PageType, PagePcs, PageEnds, PageReleases
  <2>4. HandInv'
    BY <1>3 DEF HandInv, AirInv, PhaseInv, FoundInv, PageEnds, PageReleases,
       BleWaits, BleGets, Wants
  <2> QED BY <2>1, <2>2, <2>3, <2>4
<1> QED BY <1>1, <1>2, <1>3 DEF ClassicNext

LEMMA ConnOK ==
  ASSUME IInv, NEW l \in ClassicLinks, ConnNext(l)
  PROVE  IInv'
<1> USE DEF IInv, Types, connFrame
<1>1. CASE ConnRefused(l)
  <2>1. RunType' /\ LinkType' /\ RaceType' /\ LossType' /\ BleType' /\ PageType'
    BY <1>1, RunKept, LinkKept, RaceKept, LossKept, BleKept, PageKept DEF
       ConnRefused
  <2>2. ConnType'
    BY <1>1 DEF ConnType, ConnPcs, ConnRefused, ConnGoes
  <2>3. HandInv'
    BY <1>1 DEF HandInv, AirInv, PhaseInv, FoundInv, ConnRefused
  <2> QED BY <2>1, <2>2, <2>3
<1>2. CASE ConnTaken(l)
  <2>1. RunType' /\ LinkType' /\ BleType' /\ PageType'
    BY <1>2, RunKept, LinkKept, BleKept, PageKept DEF ConnTaken
  <2>2. ConnType'
    BY <1>2 DEF ConnType, ConnPcs, ConnTaken, ConnGoes
  <2>3. RaceType'
    BY <1>2 DEF RaceType, Links, ConnTaken
  <2>4. LossType'
    BY <1>2 DEF LossType, ConnTaken
  <2>5. HandInv'
    BY <1>2 DEF HandInv, AirInv, PhaseInv, FoundInv, Early, ConnTaken, MayTake
  <2> QED BY <2>1, <2>2, <2>3, <2>4, <2>5
<1>3. CASE ConnSetUp(l)
  <2>1. RunType' /\ LinkType' /\ LossType' /\ BleType' /\ PageType'
    BY <1>3, RunKept, LinkKept, LossKept, BleKept, PageKept DEF ConnSetUp
  <2>2. ConnType'
    BY <1>3 DEF ConnType, ConnPcs, ConnSetUp, ConnGoes, Channelled
  <2>3. RaceType'
    BY <1>3 DEF RaceType, Links, ConnSetUp
  <2>4. HandInv'
    BY <1>3 DEF HandInv, AirInv, PhaseInv, FoundInv, ConnSetUp
  <2> QED BY <2>1, <2>2, <2>3, <2>4
<1>4. CASE ConnFailed(l)
  <2>1. RunType' /\ LinkType' /\ LossType' /\ BleType' /\ PageType'
    BY <1>4, RunKept, LinkKept, LossKept, BleKept, PageKept DEF ConnFailed
  <2>2. ConnType'
    BY <1>4 DEF ConnType, ConnPcs, ConnFailed, ConnGoes
  <2>3. RaceType'
    BY <1>4 DEF RaceType, ConnFailed
  <2>4. HandInv'
    BY <1>4 DEF HandInv, AirInv, PhaseInv, FoundInv, Early, ConnFailed
  <2> QED BY <2>1, <2>2, <2>3, <2>4
<1>5. CASE ConnHungUp(l)
  <2>1. RunType' /\ LinkType' /\ RaceType' /\ LossType' /\ BleType' /\ PageType'
    BY <1>5, RunKept, LinkKept, RaceKept, LossKept, BleKept, PageKept DEF
       ConnHungUp
  <2>2. ConnType'
    BY <1>5 DEF ConnType, ConnPcs, ConnHungUp, ConnGoes
  <2>3. HandInv'
    BY <1>5 DEF HandInv, AirInv, PhaseInv, FoundInv, ConnHungUp
  <2> QED BY <2>1, <2>2, <2>3
<1> QED BY <1>1, <1>2, <1>3, <1>4, <1>5 DEF ConnNext

LEMMA PeerOK ==
  ASSUME IInv, PeerNext
  PROVE  IInv'
<1> USE DEF IInv, Types
<1>1. ASSUME NEW l \in BleLinks, BleLinkUp(l)
      PROVE  IInv'
  <2>1. RunType' /\ RaceType' /\ LossType' /\ PageType' /\ ConnType'
    BY <1>1, RunKept, RaceKept, LossKept, PageKept, ConnKept DEF BleLinkUp
  <2>2. LinkType'
    BY <1>1 DEF LinkType, Links, BleLinkUp
  <2>3. BleType'
    BY <1>1 DEF BleType, BleLinkUp
  <2>4. HandInv'
    BY <1>1 DEF HandInv, AirInv, PhaseInv, FoundInv, BleLinkUp
  <2> QED BY <2>1, <2>2, <2>3, <2>4
<1>2. ASSUME NEW l \in ClassicLinks, ClassicLinkUp(l)
      PROVE  IInv'
  <2>1. RunType' /\ RaceType' /\ LossType' /\ BleType' /\ PageType'
    BY <1>2, RunKept, RaceKept, LossKept, BleKept, PageKept DEF ClassicLinkUp
  <2>2. LinkType'
    BY <1>2 DEF LinkType, Links, ClassicLinkUp
  <2>3. ConnType'
    BY <1>2 DEF ConnType, ConnPcs, ClassicLinkUp, Replaced
  <2>4. HandInv'
    BY <1>2 DEF HandInv, AirInv, PhaseInv, FoundInv, Early, ClassicLinkUp
  <2> QED BY <2>1, <2>2, <2>3, <2>4
<1>3. ASSUME NEW l \in ClassicLinks, Unplugs(l)
      PROVE  IInv'
  <2>1. RunType' /\ LinkType' /\ RaceType' /\ BleType' /\ PageType' /\ ConnType'
    BY <1>3, RunKept, LinkKept, RaceKept, BleKept, PageKept, ConnKept DEF
       Unplugs
  <2>2. LossType'
    BY <1>3 DEF LossType, Reports, Unplugs
  <2>3. HandInv'
    BY <1>3 DEF HandInv, AirInv, PhaseInv, FoundInv, Unplugs
  <2> QED BY <2>1, <2>2, <2>3
<1>4. ASSUME NEW l \in Links, LinkDrops(l)
      PROVE  IInv'
  <2>1. RunType' /\ RaceType' /\ BleType' /\ PageType' /\ ConnType'
    BY <1>4, RunKept, RaceKept, BleKept, PageKept, ConnKept DEF LinkDrops
  <2>2. LinkType'
    BY <1>4 DEF LinkType, LinkDrops
  <2>3. LossType'
    BY <1>4 DEF LossType, Reports, LinkDrops
  <2>4. HandInv'
    BY <1>4 DEF HandInv, AirInv, PhaseInv, FoundInv, LinkDrops
  <2> QED BY <2>1, <2>2, <2>3, <2>4
<1>5. CASE PageLapses
  <2>1. RunType' /\ LinkType' /\ RaceType' /\ LossType' /\ PageType' /\ ConnType'
    BY <1>5, RunKept, LinkKept, RaceKept, LossKept, PageKept, ConnKept DEF PageLapses
  <2>2. BleType'
    BY <1>5 DEF BleType, PageLapses
  <2>3. HandInv'
    BY <1>5 DEF HandInv, AirInv, PhaseInv, FoundInv, PageLapses
  <2> QED BY <2>1, <2>2, <2>3
<1> QED BY <1>1, <1>2, <1>3, <1>4, <1>5 DEF PeerNext

-----------------------------------------------------------------------------
LEMMA StepOK == IInv /\ [Next]_vars => IInv'
<1> SUFFICES ASSUME IInv, [Next]_vars PROVE IInv'
  OBVIOUS
<1>1. ASSUME NEW l \in ClassicLinks, ConnNext(l) PROVE IInv'
  BY <1>1, ConnOK
<1>2. CASE Next
  BY <1>1, <1>2, RunOK, CancelOK, BleOK, WildOK, ClassicOK, PeerOK DEF Next
<1> QED BY <1>2, StutterOK

LEMMA ConnectInductive == Spec => []IInv
<1>1. Init => IInv
  BY InitOK
<1>2. IInv /\ [Next]_vars => IInv'
  BY StepOK
<1> QED BY <1>1, <1>2, PTL DEF Spec

\* Every state of a host is what its variables say it can be: self.connection
\* and the future name links there have been, an await is one of those the
\* handlers have, for any links and any devices.conf.
THEOREM TypeCorrect == Spec => []TypeOK
<1>1. IInv => TypeOK
  BY TypesAreTypeOK DEF IInv
<1> QED BY <1>1, ConnectInductive, PTL

\* _radio_lock does its work (host.py:97, ble.py:138): an attempt of the BLE handler,
\* or what a cancelled one left behind, is never on the radio together with an attempt
\* of the Classic handler, however often and wherever the two are cancelled; only the
\* page of a cancelled connect_task, which the controller goes on with, escapes it.
THEOREM RadioIsAlone == Spec => []RadioAlone
<1>1. IInv => RadioAlone
  BY DEF IInv, HandInv, AirInv, RadioAlone
<1> QED BY <1>1, ConnectInductive, PTL

\* The drain does its work (host.py:250-257): a host that sets its winner up,
\* serves it or has ended has no handler left that could page or scan.
THEOREM HandlersAreEnded == Spec => []HandlersEnd
<1>1. IInv => HandlersEnd
  BY DEF IInv, HandInv, PhaseInv, HandlersEnd
<1> QED BY <1>1, ConnectInductive, PTL

=============================================================================
