-------------------------- MODULE DeviceStoreProofs --------------------------
(* What the device files keep, whatever threads, requests and addresses      *)
(* there are.                                                                *)
EXTENDS DeviceStore, FiniteSetTheorems, WellFoundedInduction, TLAPS

Shape ==
  /\ DOMAIN pc = Threads /\ DOMAIN got = Threads /\ DOMAIN ring = Workers
  /\ DOMAIN stat = Pollers /\ DOMAIN lines = Lists
  /\ job \in [Workers -> Works]

-----------------------------------------------------------------------------
(* Threads, jobs and functions keep their shape                             *)

LEMMA ThreadFacts ==
  /\ Loop \in Workers /\ Loop \in Threads /\ Loop \notin Pollers
  /\ Workers \subseteq Threads /\ Pollers \subseteq Threads
  /\ Workers \cap Pollers = {}
BY ThreadAssumption DEF Workers, Threads, Loop

LEMMA ShapeInit == Init => Shape
BY ThreadFacts, BystanderAssumption DEF Init, Shape, Works

\* The domains of the five functions are those of the step before.
SameDomains ==
  /\ DOMAIN pc' = DOMAIN pc /\ DOMAIN got' = DOMAIN got
  /\ DOMAIN ring' = DOMAIN ring /\ DOMAIN stat' = DOMAIN stat
  /\ DOMAIN lines' = DOMAIN lines

JobSet(t) == job' = job \/ \E w \in Works : job' = [job EXCEPT ![t] = w]

LEMMA ShapeKept ==
  ASSUME Shape, NEW t \in Workers, SameDomains, JobSet(t)
  PROVE  Shape'
BY DEF Shape, SameDomains, JobSet

LEMMA AddedShape ==
  ASSUME Shape, NEW t \in Workers, Added(t)
  PROVE  DOMAIN pc' = DOMAIN pc /\ JobSet(t)
<1>1. CASE job[t].does = "rotate"
  <2> DEFINE w == [job[t] EXCEPT !.does = "remove", !.addr = job[t].old]
  <2>1. job[t] \in Works
    BY DEF Shape
  <2>2. w \in Works
    BY <2>1 DEF Works
  <2>3. job' = [job EXCEPT ![t] = w]
    BY <1>1 DEF Added
  <2> QED
    BY <1>1, <2>2, <2>3 DEF Added, JobSet, Goto
<1>2. CASE job[t].does # "rotate"
  BY <1>2 DEF Added, JobSet, Goto
<1> QED
  BY <1>1, <1>2

LEMMA BeginShape ==
  ASSUME Shape, NEW t \in Workers, NEW what \in {"remove", "forget", "add", "rotate", "bond", "check"},
         NEW a \in Addrs, NEW o \in Addrs, NEW step, Begin(t, what, a, o, step)
  PROVE  DOMAIN pc' = DOMAIN pc /\ JobSet(t)
<1>1. [does |-> what, addr |-> a, old |-> o] \in Works
  BY DEF Works
<1> QED
  BY <1>1 DEF Begin, JobSet, Goto

LEMMA RewritesShape ==
  ASSUME Shape, NEW t \in Workers, Rewrites(t)
  PROVE  Shape'
<1> USE DEF SameDomains, JobSet, Goto, kept, clocks
<1>1. ASSUME NEW f \in Lists, ReadList(t, f) PROVE SameDomains /\ JobSet(t)
  BY <1>1 DEF ReadList
<1>2. ASSUME NEW f \in Lists, CutList(t, f) PROVE SameDomains /\ JobSet(t)
  BY <1>2 DEF CutList
<1>3. ASSUME NEW f \in Lists, WriteList(t, f) PROVE SameDomains /\ JobSet(t)
  BY <1>3 DEF WriteList
<1>4. ReadKeys(t) => SameDomains /\ JobSet(t)
  BY DEF ReadKeys
<1>5. CutKeys(t) => SameDomains /\ JobSet(t)
  BY DEF CutKeys
<1>6. WriteKeys(t) => SameDomains /\ JobSet(t)
  BY DEF WriteKeys
<1> QED
  BY <1>1, <1>2, <1>3, <1>4, <1>5, <1>6, ShapeKept DEF Rewrites

LEMMA FailsShape ==
  ASSUME Shape, NEW t \in Workers, Fails(t)
  PROVE  Shape'
<1>1. Added(t) \/ (DOMAIN pc' = DOMAIN pc /\ job' = job)
  BY DEF Fails, Goto
<1>2. DOMAIN pc' = DOMAIN pc /\ JobSet(t)
  BY <1>1, AddedShape DEF JobSet
<1> QED
  BY <1>2, ShapeKept DEF Fails, SameDomains, kept, clocks

LEMMA LoopShape ==
  ASSUME Shape, LoopWorks
  PROVE  Shape'
<1> USE ThreadFacts, BystanderAssumption DEF SameDomains, kept, clocks, working, Touched
<1>1. ASSUME NEW a \in Touched, BeginRemove(Loop, a) PROVE SameDomains /\ JobSet(Loop)
  BY <1>1, BeginShape DEF BeginRemove
<1>2. ASSUME NEW a \in Touched, BeginForget(a) PROVE SameDomains /\ JobSet(Loop)
  BY <1>2, BeginShape DEF BeginForget
<1>3. ASSUME NEW a \in Touched, BeginAdd(a) PROVE SameDomains /\ JobSet(Loop)
  BY <1>3, BeginShape DEF BeginAdd
<1>4. ASSUME NEW a \in Touched, LoadKeys(a) PROVE SameDomains /\ JobSet(Loop)
  BY <1>4, BeginShape DEF LoadKeys
<1>5. ASSUME NEW a \in Touched, NEW old \in Touched, BeginRotate(a, old)
      PROVE  SameDomains /\ JobSet(Loop)
  BY <1>5, BeginShape DEF BeginRotate
<1>6. ASSUME NEW f \in Lists, AppendLine(Loop, f) PROVE SameDomains /\ JobSet(Loop)
  <2>1. Added(Loop) \/ (DOMAIN pc' = DOMAIN pc /\ job' = job)
    BY <1>6 DEF AppendLine, Goto
  <2> QED
    BY <1>6, <2>1, AddedShape DEF AppendLine, JobSet
<1>7. CheckBlock(Loop) => SameDomains /\ JobSet(Loop)
  <2>1. CheckBlock(Loop) => Added(Loop) \/ (DOMAIN pc' = DOMAIN pc /\ job' = job)
    BY DEF CheckBlock, Goto
  <2> QED
    BY <2>1, AddedShape DEF CheckBlock, JobSet
<1>8. ValidateKeys => SameDomains /\ JobSet(Loop)
  BY BeginShape DEF ValidateKeys
<1>9. ReplaceKeys \/ RenameKeys \/ Look \/ Resume \/ (\E a \in Touched : SaveCache(a))
      => SameDomains /\ JobSet(Loop)
  BY DEF ReplaceKeys, RenameKeys, Look, Resume, SaveCache, JobSet, Goto
<1> QED
  BY <1>1, <1>2, <1>3, <1>4, <1>5, <1>6, <1>7, <1>8, <1>9, ShapeKept DEF LoopWorks, Lists

LEMMA ServesShape ==
  ASSUME Shape, Serves
  PROVE  Shape'
<1> USE ThreadFacts DEF SameDomains, kept, clocks, working, Touched
<1>1. ASSUME NEW t \in Removers, NEW a \in Touched, BeginRemove(t, a)
      PROVE  SameDomains /\ JobSet(t)
  BY <1>1, BeginShape DEF BeginRemove, Workers
<1>2. ASSUME NEW t \in Removers, ClearCache(t) \/ Answer(t) PROVE SameDomains /\ JobSet(t)
  BY <1>2 DEF ClearCache, Answer, JobSet, Goto
<1>3. ASSUME NEW t \in Pollers, Stat(t) \/ Fetch(t) \/ Keep(t)
      PROVE  SameDomains /\ JobSet(Loop)
  BY <1>3 DEF Stat, Fetch, Keep, JobSet, Goto
<1>4. ClearAll => SameDomains /\ JobSet(Loop)
  BY DEF ClearAll, JobSet
<1> QED
  BY <1>1, <1>2, <1>3, <1>4, ShapeKept DEF Serves, Workers

LEMMA ShapeStep == Shape /\ [Next]_vars => Shape'
<1>1. Shape /\ UNCHANGED vars => Shape'
  BY DEF Shape, vars, working, kept, clocks
<1>2. Shape /\ Tick => Shape'
  BY DEF Shape, Tick, working, kept
<1>3. Shape /\ Crash => Shape'
  BY DEF Shape, Crash
<1> QED
  BY <1>1, <1>2, <1>3, RewritesShape, FailsShape, LoopShape, ServesShape DEF Next

-----------------------------------------------------------------------------
(* The list /status answers from                                            *)

\* A poller about to keep a list read it after the mtime it keeps it under.
ListInv ==
  "tick" \notin harm =>
    /\ listing.set /\ listing.at = mtime => listing.of = lines["conf"]
    /\ \A p \in Pollers :
         At(p, <<"keep", "list">>) /\ stat[p] = mtime => got[p] = lines["conf"]

PollersStill ==
  /\ UNCHANGED <<stat, listing>>
  /\ \A p \in Pollers : pc'[p] = pc[p] /\ got'[p] = got[p]

Quiet == mtime' = mtime /\ lines'["conf"] = lines["conf"] /\ harm \subseteq harm'
Written == mtime' = now /\ Met("tick", ListedNow) \subseteq harm'

LEMMA ListKept ==
  ASSUME ListInv, PollersStill, Quiet \/ Written
  PROVE  ListInv'
<1>1. CASE Quiet
  BY <1>1 DEF ListInv, PollersStill, Quiet, At
<1>2. CASE Written
  BY <1>2 DEF ListInv, PollersStill, Written, Met, ListedNow, At
<1> QED
  BY <1>1, <1>2

\* A step of a worker is no step of a poller.
LEMMA OthersStill ==
  ASSUME Shape, NEW t \in Workers, NEW step, Goto(t, step), got' = got,
         UNCHANGED <<stat, listing>>
  PROVE  PollersStill
BY ThreadFacts DEF Shape, PollersStill, Goto

LEMMA AddedStill ==
  ASSUME Shape, NEW t \in Workers, Added(t), got' = got, UNCHANGED <<stat, listing>>
  PROVE  PollersStill
BY ThreadFacts DEF Shape, PollersStill, Added, Goto

LEMMA ChangedWritten ==
  ASSUME Shape, NEW f \in Lists, NEW new, lines' = [lines EXCEPT ![f] = new], Changed(f)
  PROVE  Quiet \/ Written
BY DEF Shape, Lists, Changed, Quiet, Written, Met

LEMMA RewritesListed ==
  ASSUME Shape, NEW t \in Workers, Rewrites(t)
  PROVE  PollersStill /\ (Quiet \/ Written)
<1> USE ThreadFacts, OthersStill DEF kept, clocks
<1>1. ASSUME NEW f \in Lists, ReadList(t, f) PROVE PollersStill /\ Quiet
  BY <1>1 DEF ReadList, Goto, PollersStill, Quiet, Met, Shape
<1>2. ASSUME NEW f \in Lists, CutList(t, f) PROVE PollersStill /\ (Quiet \/ Written)
  <2>1. Goto(t, <<"write", f>>) /\ got' = got /\ UNCHANGED <<stat, listing>>
    BY <1>2 DEF CutList
  <2>2. Changed(f) /\ lines' = [lines EXCEPT ![f] = <<>>]
    BY <1>2 DEF CutList
  <2> QED
    BY <2>1, <2>2, ChangedWritten
<1>3. ASSUME NEW f \in Lists, WriteList(t, f) PROVE PollersStill /\ (Quiet \/ Written)
  <2>1. PollersStill
    BY <1>3 DEF WriteList
  <2>2. CASE Rest(t, f) = <<>>
    BY <1>3, <2>2 DEF WriteList, Quiet
  <2>3. CASE Rest(t, f) # <<>>
    BY <1>3, <2>3, ChangedWritten DEF WriteList
  <2> QED
    BY <2>1, <2>2, <2>3
<1>4. ReadKeys(t) => PollersStill /\ Quiet
  BY DEF ReadKeys, Quiet
<1>5. CutKeys(t) => PollersStill /\ Quiet
  BY DEF CutKeys, Quiet
<1>6. WriteKeys(t) => PollersStill /\ Quiet
  BY DEF WriteKeys, Quiet, Met
<1> QED
  BY <1>1, <1>2, <1>3, <1>4, <1>5, <1>6 DEF Rewrites

LEMMA FailsListed ==
  ASSUME Shape, NEW t \in Workers, Fails(t)
  PROVE  PollersStill /\ Quiet
<1>1. Added(t) \/ \E step : Goto(t, step)
  BY DEF Fails
<1>2. PollersStill
  BY <1>1, OthersStill, AddedStill DEF Fails, kept, clocks
<1> QED
  BY <1>2 DEF Fails, Quiet, Met, kept, clocks

LEMMA LoopListed ==
  ASSUME Shape, LoopWorks
  PROVE  PollersStill /\ (Quiet \/ Written)
<1> USE ThreadFacts, OthersStill DEF kept, clocks, working
<1>1. ASSUME NEW a \in Touched, BeginRemove(Loop, a) PROVE PollersStill /\ Quiet
  BY <1>1 DEF BeginRemove, Begin, Quiet
<1>2. ASSUME NEW a \in Touched, BeginForget(a) PROVE PollersStill /\ Quiet
  BY <1>2 DEF BeginForget, Begin, Quiet
<1>3. ASSUME NEW a \in Touched, BeginAdd(a) PROVE PollersStill /\ Quiet
  BY <1>3 DEF BeginAdd, Begin, Quiet
<1>4. ASSUME NEW a \in Touched, LoadKeys(a) PROVE PollersStill /\ Quiet
  BY <1>4 DEF LoadKeys, Begin, Quiet
<1>5. ASSUME NEW a \in Touched, NEW old \in Touched, BeginRotate(a, old)
      PROVE  PollersStill /\ Quiet
  BY <1>5 DEF BeginRotate, Begin, Quiet
<1>6. ASSUME NEW f \in Lists, AppendLine(Loop, f) PROVE PollersStill /\ (Quiet \/ Written)
  <2>1. Added(Loop) \/ \E step : Goto(Loop, step)
    BY <1>6 DEF AppendLine
  <2>2. PollersStill
    BY <1>6, <2>1, AddedStill DEF AppendLine
  <2>3. CASE f = "conf"
    BY <1>6, <2>2, <2>3 DEF AppendLine, Changed, Written, Met
  <2>4. CASE f # "conf"
    <3>1. mtime' = mtime /\ harm' = harm
      BY <1>6, <2>4 DEF AppendLine, Changed
    <3>2. lines'["conf"] = lines["conf"]
      <4>1. \E new : lines' = [lines EXCEPT ![f] = new]
        BY <1>6 DEF AppendLine
      <4> QED
        BY <2>4, <4>1 DEF Shape, Lists
    <3> QED
      BY <2>2, <3>1, <3>2 DEF Quiet
  <2> QED
    BY <2>2, <2>3, <2>4
<1>7. CheckBlock(Loop) => PollersStill /\ Quiet
  <2>1. CheckBlock(Loop) => Added(Loop) \/ \E step : Goto(Loop, step)
    BY DEF CheckBlock
  <2> QED
    BY <2>1, AddedStill DEF CheckBlock, Quiet
<1>8. ValidateKeys => PollersStill /\ Quiet
  BY DEF ValidateKeys, Begin, Quiet
<1>9. ReplaceKeys \/ RenameKeys => PollersStill /\ Quiet
  BY DEF ReplaceKeys, RenameKeys, Quiet, Met
<1>10. Look \/ Resume \/ (\E a \in Touched : SaveCache(a)) => PollersStill /\ Quiet
  BY DEF Look, Resume, SaveCache, PollersStill, Quiet
<1> QED
  BY <1>1, <1>2, <1>3, <1>4, <1>5, <1>6, <1>7, <1>8, <1>9, <1>10 DEF LoopWorks, Lists

LEMMA ServesListed ==
  ASSUME Shape, ListInv, Serves
  PROVE  ListInv'
<1> USE ThreadFacts, OthersStill DEF kept, clocks, working
<1>1. ASSUME NEW t \in Removers, NEW a \in Touched, BeginRemove(t, a)
      PROVE  PollersStill /\ Quiet
  BY <1>1 DEF BeginRemove, Begin, Quiet, Workers
<1>2. ASSUME NEW t \in Removers, ClearCache(t) \/ Answer(t) PROVE PollersStill /\ Quiet
  BY <1>2 DEF ClearCache, Answer, Quiet, Workers
<1>3. ClearAll => PollersStill /\ Quiet
  BY DEF ClearAll, PollersStill, Quiet
<1>4. ASSUME NEW t \in Pollers, Stat(t) PROVE ListInv'
  BY <1>4 DEF Stat, Goto, ListInv, At, Shape
<1>5. ASSUME NEW t \in Pollers, Fetch(t) PROVE ListInv'
  <2>1. /\ UNCHANGED <<lines, mtime, stat, listing, harm>>
        /\ \A p \in Pollers \ {t} : pc'[p] = pc[p] /\ got'[p] = got[p]
    BY <1>5 DEF Fetch, Goto, Shape
  <2>2. pc'[t] = Idle \/ got'[t] = lines["conf"]
    BY <1>5 DEF Fetch, Goto, Shape
  <2> QED
    BY <2>1, <2>2 DEF ListInv, At, Idle
<1>6. ASSUME NEW t \in Pollers, Keep(t) PROVE ListInv'
  BY <1>6 DEF Keep, Goto, ListInv, At, Shape
<1> QED
  BY <1>1, <1>2, <1>3, <1>4, <1>5, <1>6, ListKept DEF Serves

LEMMA ListStep == Shape /\ ListInv /\ [Next]_vars => ListInv'
<1> USE DEF kept, clocks, working
<1>1. ListInv /\ UNCHANGED vars => ListInv'
  BY DEF ListInv, vars, At
<1>2. ListInv /\ Tick => ListInv'
  BY DEF ListInv, Tick, At
<1>3. ASSUME Shape, ListInv, Crash PROVE ListInv'
  <2>1. /\ ~listing'.set /\ lines'["conf"] = lines["conf"] /\ mtime' = mtime
    BY <1>3 DEF Crash, NoListing, Shape, Lists
  <2>2. \A p \in Pollers : pc'[p] = Idle
    BY <1>3, ThreadFacts DEF Crash
  <2> QED
    BY <2>1, <2>2 DEF ListInv, At, Idle
<1> QED
  BY <1>1, <1>2, <1>3, ListKept, RewritesListed, FailsListed, LoopListed, ServesListed DEF Next

\* A list kept under the mtime devices.conf has is the list it holds, whoever
\* rewrites it meanwhile, unless it changed twice in one tick: the mtime is
\* read before the list (controller.py:85-106).
THEOREM ListingCurrent == Spec => []ListingIsCurrent
<1>1. Init => Shape /\ ListInv
  <2>1. Init => ListInv
    BY ThreadFacts DEF Init, ListInv, At, Idle, NoListing
  <2> QED
    BY <2>1, ShapeInit
<1>2. Shape /\ ListInv /\ [Next]_vars => (Shape /\ ListInv)'
  BY ShapeStep, ListStep
<1>3. Shape /\ ListInv => ListingIsCurrent
  BY DEF ListInv, ListingIsCurrent
<1> QED
  BY <1>1, <1>2, <1>3, PTL DEF Spec

-----------------------------------------------------------------------------
(* The keystore                                                             *)

KeySteps == {<<"cut", "keys">>, <<"write", "keys">>, <<"replace", "keys">>}
Spoiled == harm \cap {"mixed", "lost", "reset"} # {}

\* Who is at work is at work on another device, but for the check.
JobsApart ==
  \A t \in Workers :
    pc[t] \notin {Idle, <<"rename", "keys">>} =>
      job[t].addr # Bystander /\ job[t].old # Bystander

\* Every keystore read, to be written back, has the bond; a truncated one has
\* a writer that will complete it.
KeysInv ==
  ~Spoiled => BystanderBonded /\ \A t \in Workers : pc[t] \in KeySteps => Bystander \in ring[t]

\* A step of t that has nothing to do with the keystore.
Elsewhere(t) ==
  /\ UNCHANGED <<keys, ring, detached>> /\ harm \subseteq harm'
  /\ pc[t] # <<"write", "keys">> /\ pc'[t] \notin KeySteps
  /\ \A u \in Workers \ {t} : pc'[u] = pc[u]

LEMMA KeysKept ==
  ASSUME KeysInv, NEW t \in Workers, Elsewhere(t)
  PROVE  KeysInv'
<1>1. Writing' = Writing
  BY DEF Elsewhere, Writing, At, KeySteps
<1>2. Spoiled => Spoiled'
  BY DEF Elsewhere, Spoiled
<1> QED
  BY <1>1, <1>2 DEF KeysInv, BystanderBonded, Sound, Elsewhere, Spoiled

LEMMA AddedElsewhere ==
  ASSUME Shape, NEW t \in Workers, Added(t), UNCHANGED <<keys, ring, detached>>,
         harm \subseteq harm', pc[t] # <<"write", "keys">>
  PROVE  Elsewhere(t)
<1>1. pc' = [pc EXCEPT ![t] = <<"read", "conf">>] \/ pc' = [pc EXCEPT ![t] = Idle]
  BY DEF Added, Goto
<1> QED
  BY <1>1, ThreadFacts DEF Shape, Elsewhere, KeySteps, Idle

LEMMA GotoElsewhere ==
  ASSUME Shape, NEW t \in Workers, NEW step, Goto(t, step), step \notin KeySteps,
         UNCHANGED <<keys, ring, detached>>, harm \subseteq harm', pc[t] # <<"write", "keys">>
  PROVE  Elsewhere(t)
BY ThreadFacts DEF Shape, Elsewhere, Goto

LEMMA StepsApart ==
  /\ \A f \in Lists : {<<"read", f>>, <<"cut", f>>, <<"write", f>>, <<"append", f>>}
                        \cap KeySteps = {}
  /\ {Idle, <<"read", "keys">>, <<"rename", "keys">>, <<"check", "map">>,
      <<"clear", "cache">>, <<"answer", "none">>} \cap KeySteps = {}
  /\ \A t : AfterKeys(t) \notin KeySteps /\ Ending(t) \notin KeySteps
BY DEF Lists, KeySteps, Idle, AfterKeys, Ending

LEMMA ListsElsewhere ==
  ASSUME Shape, NEW t \in Workers, NEW f \in Lists,
         ReadList(t, f) \/ CutList(t, f) \/ WriteList(t, f)
  PROVE  Elsewhere(t)
<1> USE StepsApart, GotoElsewhere DEF kept, clocks, Met, Changed
<1>1. pc[t] # <<"write", "keys">>
  BY DEF ReadList, CutList, WriteList, At, KeySteps
<1>2. CASE ReadList(t, f)
  <2>1. \E step : Goto(t, step) /\ step \notin KeySteps
    BY <1>2 DEF ReadList
  <2> QED
    BY <1>1, <1>2, <2>1 DEF ReadList
<1>3. CASE CutList(t, f)
  BY <1>1, <1>3 DEF CutList
<1>4. CASE WriteList(t, f)
  <2>1. \E step : Goto(t, step) /\ step \notin KeySteps
    BY <1>4 DEF WriteList
  <2> QED
    BY <1>1, <1>4, <2>1 DEF WriteList
<1> QED
  BY <1>2, <1>3, <1>4

LEMMA ReadKeysStep ==
  ASSUME Shape, KeysInv, NEW t \in Workers, ReadKeys(t)
  PROVE  KeysInv'
<1>1. CASE Sound /\ job[t].addr \in keys.of
  <2>1. /\ UNCHANGED <<keys, detached, harm>> /\ ring' = [ring EXCEPT ![t] = keys.of]
        /\ pc' = [pc EXCEPT ![t] = <<"cut", "keys">>]
    BY <1>1 DEF ReadKeys, Goto, kept
  <2>2. Writing' = Writing
    BY <2>1, ThreadFacts DEF ReadKeys, Writing, At, Shape
  <2>3. ~Spoiled => Bystander \in keys.of
    BY <1>1 DEF KeysInv, BystanderBonded, Sound, Cut, Spoiled
  <2> QED
    BY <2>1, <2>2, <2>3, ThreadFacts DEF KeysInv, BystanderBonded, Sound, Shape, Spoiled
<1>2. CASE ~(Sound /\ job[t].addr \in keys.of)
  <2>1. Elsewhere(t)
    BY <1>2, GotoElsewhere, StepsApart DEF ReadKeys, At, kept
  <2> QED
    BY <2>1, KeysKept
<1> QED
  BY <1>1, <1>2

LEMMA CutKeysStep ==
  ASSUME Shape, KeysInv, NEW t \in Workers, CutKeys(t)
  PROVE  KeysInv'
<1>1. /\ keys' = Cut /\ detached' = detached \ {t} /\ UNCHANGED <<ring, harm>>
      /\ pc[t] = <<"cut", "keys">> /\ pc' = [pc EXCEPT ![t] = <<"write", "keys">>]
  BY DEF CutKeys, Goto, At
<1>2. t \in Writing' \ detached'
  BY <1>1, ThreadFacts DEF Writing, At, Shape
<1> QED
  BY <1>1, <1>2, ThreadFacts DEF KeysInv, BystanderBonded, Shape, Spoiled, KeySteps

LEMMA WriteKeysStep ==
  ASSUME Shape, JobsApart, KeysInv, NEW t \in Workers, WriteKeys(t)
  PROVE  KeysInv'
<1> SUFFICES ASSUME ~Spoiled' PROVE KeysInv'
  BY DEF KeysInv
<1>1. /\ pc[t] = <<"write", "keys">> /\ pc' = [pc EXCEPT ![t] = AfterKeys(t)]
      /\ UNCHANGED <<ring, detached>>
  BY DEF WriteKeys, Goto, At
<1>2. ~Spoiled /\ keys' # Mixed
  BY DEF WriteKeys, Met, Spoiled
<1>3. \A u \in Workers : pc'[u] \in KeySteps => Bystander \in ring'[u]
  BY <1>1, <1>2, StepsApart, ThreadFacts DEF Shape, KeysInv
<1>4. CASE t \in detached
  <2>1. Writing' = Writing \ {t}
    BY <1>1, StepsApart, ThreadFacts DEF Writing, At, Shape, KeySteps
  <2>2. keys' = keys
    BY <1>4 DEF WriteKeys
  <2> QED
    <3>1. BystanderBonded
      BY <1>2 DEF KeysInv
    <3>2. Writing' \ detached' = Writing \ detached
      BY <1>1, <1>4, <2>1
    <3>3. BystanderBonded'
      BY <1>2, <2>2, <3>1, <3>2 DEF BystanderBonded, Sound, Spoiled
    <3> QED
      BY <1>3, <3>3 DEF KeysInv
<1>5. CASE t \notin detached
  <2>1. Bystander \in ring[t] \ {job[t].addr}
    <3>1. pc[t] \in KeySteps /\ pc[t] \notin {Idle, <<"rename", "keys">>}
      BY <1>1 DEF KeySteps, Idle
    <3> QED
      BY <1>2, <3>1 DEF KeysInv, JobsApart
  <2>2. keys' = Whole(ring[t] \ {job[t].addr})
    BY <1>2, <1>5 DEF WriteKeys, OverKeys
  <2> QED
    BY <1>3, <2>1, <2>2 DEF KeysInv, BystanderBonded, Sound, Whole
<1> QED
  BY <1>4, <1>5

LEMMA RewritesKeys ==
  ASSUME Shape, JobsApart, KeysInv, NEW t \in Workers, Rewrites(t)
  PROVE  KeysInv'
BY ListsElsewhere, KeysKept, ReadKeysStep, CutKeysStep, WriteKeysStep DEF Rewrites

LEMMA FailsKeys ==
  ASSUME Shape, KeysInv, NEW t \in Workers, Fails(t)
  PROVE  KeysInv'
<1>1. UNCHANGED <<keys, ring, detached>> /\ harm \subseteq harm'
  BY DEF Fails, kept, Met
<1>2. CASE pc[t] = <<"write", "keys">>
  BY <1>2 DEF Fails, At, Added, Lists, Met, KeysInv, Spoiled
<1>3. CASE pc[t] # <<"write", "keys">>
  <2>1. Added(t) \/ \E step : Goto(t, step) /\ step \notin KeySteps
    BY StepsApart DEF Fails, Lists
  <2> QED
    BY <1>1, <1>3, <2>1, AddedElsewhere, GotoElsewhere, KeysKept
<1> QED
  BY <1>2, <1>3

LEMMA LoopElsewhere ==
  ASSUME Shape, NEW f \in Lists, AppendLine(Loop, f) \/ CheckBlock(Loop)
  PROVE  Elsewhere(Loop)
<1>1. pc[Loop] # <<"write", "keys">>
  BY DEF AppendLine, CheckBlock, At
<1>2. UNCHANGED <<keys, ring, detached>> /\ harm \subseteq harm'
  BY DEF AppendLine, Changed, CheckBlock, kept, Met
<1>3. Added(Loop) \/ \E step : Goto(Loop, step) /\ step \notin KeySteps
  <2>1. <<"append", "map">> \notin KeySteps
    BY DEF KeySteps
  <2> QED
    BY <2>1, StepsApart DEF AppendLine, CheckBlock
<1> QED
  BY <1>1, <1>2, <1>3, AddedElsewhere, GotoElsewhere, ThreadFacts

LEMMA BeginElsewhere ==
  ASSUME Shape, NEW t \in Workers, NEW what, NEW a, NEW o, NEW step, step \notin KeySteps,
         Begin(t, what, a, o, step), UNCHANGED <<keys, ring, detached, harm>>
  PROVE  Elsewhere(t)
<1>1. pc[t] # <<"write", "keys">>
  BY DEF Begin, At, Idle
<1> QED
  BY <1>1, GotoElsewhere DEF Begin

LEMMA LoadKeysStep ==
  ASSUME Shape, KeysInv, NEW a \in Touched, LoadKeys(a)
  PROVE  KeysInv'
<1>1. /\ UNCHANGED <<keys, detached, harm>> /\ ring' = [ring EXCEPT ![Loop] = keys.of]
      /\ pc[Loop] = Idle /\ pc' = [pc EXCEPT ![Loop] = <<"replace", "keys">>]
  BY DEF LoadKeys, Begin, Goto, At, kept
<1>2. Writing' = Writing
  BY <1>1, ThreadFacts DEF Writing, At, Shape, Idle
<1>3. ~Spoiled => Bystander \in keys.of
  BY DEF LoadKeys, KeysInv, BystanderBonded, Sound, Cut, Spoiled
<1> QED
  BY <1>1, <1>2, <1>3, ThreadFacts DEF KeysInv, BystanderBonded, Sound, Shape, Spoiled

LEMMA ReplaceKeysStep ==
  ASSUME Shape, KeysInv, ReplaceKeys
  PROVE  KeysInv'
<1>1. /\ keys' = Whole(ring[Loop] \cup {job[Loop].addr}) /\ UNCHANGED <<ring, harm>>
      /\ pc[Loop] = <<"replace", "keys">> /\ pc' = [pc EXCEPT ![Loop] = Idle]
  BY DEF ReplaceKeys, Goto, At
<1>2. ~Spoiled => Bystander \in ring[Loop]
  BY <1>1, ThreadFacts DEF KeysInv, KeySteps
<1> QED
  BY <1>1, <1>2, ThreadFacts, StepsApart
     DEF KeysInv, BystanderBonded, Sound, Whole, Shape, Spoiled

\* A keystore that is moved away unspoiled would be neither whole nor one a
\* writer is to complete.
LEMMA RenameKeysStep ==
  ASSUME KeysInv, RenameKeys
  PROVE  KeysInv'
<1>1. CASE Spoiled
  BY <1>1 DEF RenameKeys, Met, KeysInv, Spoiled
<1>2. CASE ~Spoiled
  BY <1>2 DEF RenameKeys, Met, KeysInv, BystanderBonded, Spoiled
<1> QED
  BY <1>1, <1>2

LEMMA LoopKeys ==
  ASSUME Shape, KeysInv, LoopWorks
  PROVE  KeysInv'
<1> USE ThreadFacts, StepsApart, BeginElsewhere, KeysKept DEF kept, clocks, working
<1>1. ASSUME NEW a \in Touched, BeginRemove(Loop, a) \/ BeginForget(a) PROVE KeysInv'
  BY <1>1 DEF BeginRemove, BeginForget, Lists
<1>2. ASSUME NEW a \in Touched, BeginAdd(a) PROVE KeysInv'
  BY <1>2 DEF BeginAdd, Lists
<1>3. ASSUME NEW a \in Touched, NEW old \in Touched, BeginRotate(a, old) PROVE KeysInv'
  BY <1>3 DEF BeginRotate, Lists
<1>4. ValidateKeys => KeysInv'
  BY DEF ValidateKeys
<1>5. Look \/ Resume \/ (\E a \in Touched : SaveCache(a)) => KeysInv'
  BY DEF Look, Resume, SaveCache, KeysInv, BystanderBonded, Sound, Writing, At, Spoiled
<1> QED
  BY <1>1, <1>2, <1>3, <1>4, <1>5, LoopElsewhere, LoadKeysStep, ReplaceKeysStep, RenameKeysStep
     DEF LoopWorks, Lists

LEMMA ServesKeys ==
  ASSUME Shape, KeysInv, Serves
  PROVE  KeysInv'
<1> USE ThreadFacts, StepsApart, KeysKept DEF kept, clocks, working
<1>1. ASSUME NEW t \in Removers, NEW a \in Touched, BeginRemove(t, a) PROVE KeysInv'
  BY <1>1, BeginElsewhere DEF BeginRemove, Lists, Workers
<1>2. ASSUME NEW t \in Removers, ClearCache(t) \/ Answer(t) PROVE KeysInv'
  <2>1. pc[t] # <<"write", "keys">>
    BY <1>2 DEF ClearCache, Answer, At
  <2>2. Goto(t, <<"answer", "none">>) \/ Goto(t, Idle)
    BY <1>2 DEF ClearCache, Answer
  <2>3. UNCHANGED <<keys, ring, detached, harm>>
    BY <1>2 DEF ClearCache, Answer
  <2> QED
    BY <2>1, <2>2, <2>3, GotoElsewhere DEF Workers
<1>3. ASSUME NEW t \in Pollers, Stat(t) \/ Fetch(t) \/ Keep(t) PROVE KeysInv'
  <2>1. /\ UNCHANGED <<keys, ring, detached, harm>>
        /\ \A u \in Workers : pc'[u] = pc[u]
    BY <1>3 DEF Stat, Fetch, Keep, Goto, Shape
  <2>2. Writing' = Writing
    BY <2>1 DEF Writing, At
  <2> QED
    BY <2>1, <2>2 DEF KeysInv, BystanderBonded, Sound, Spoiled
<1>4. ClearAll => KeysInv'
  BY DEF ClearAll, KeysInv, BystanderBonded, Sound, Writing, At, Spoiled
<1> QED
  BY <1>1, <1>2, <1>3, <1>4 DEF Serves

LEMMA CrashKeys ==
  ASSUME Shape, KeysInv, Crash
  PROVE  KeysInv'
<1>1. UNCHANGED <<keys, ring>> /\ \A u \in Workers : pc'[u] = Idle
  BY ThreadFacts DEF Crash
<1>2. Spoiled => Spoiled'
  BY DEF Crash, Met, Spoiled
<1>3. Writing # {} => Spoiled'
  BY DEF Crash, Met, Spoiled, Writing
<1>4. CASE Spoiled'
  BY <1>1, <1>4, StepsApart DEF KeysInv, BystanderBonded, Spoiled
<1>5. CASE ~Spoiled'
  <2>1. Sound /\ Bystander \in keys.of
    BY <1>2, <1>3, <1>5 DEF KeysInv, BystanderBonded, Spoiled
  <2> QED
    BY <1>1, <2>1, StepsApart DEF KeysInv, BystanderBonded, Sound
<1> QED
  BY <1>4, <1>5

LEMMA KeysStep == Shape /\ JobsApart /\ KeysInv /\ [Next]_vars => KeysInv'
<1> USE DEF kept, clocks, working
<1>1. KeysInv /\ UNCHANGED vars => KeysInv'
  BY DEF vars, KeysInv, BystanderBonded, Sound, Writing, At, Spoiled
<1>2. KeysInv /\ Tick => KeysInv'
  BY DEF Tick, KeysInv, BystanderBonded, Sound, Writing, At, Spoiled
<1> QED
  BY <1>1, <1>2, RewritesKeys, FailsKeys, LoopKeys, ServesKeys, CrashKeys DEF Next

\* Only a begun job, never a step of one, is on another device than before,
\* but for the second half of a rotation.
SameJob(t) == job' = job /\ pc[t] \notin {Idle, <<"rename", "keys">>}
Quits(t) == job' = job /\ pc'[t] = Idle
OnlyMoves(t) == \A u \in Workers \ {t} : pc'[u] = pc[u]

LEMMA JobsKept ==
  ASSUME JobsApart, NEW t \in Workers, OnlyMoves(t), SameJob(t) \/ Quits(t)
  PROVE  JobsApart'
BY DEF JobsApart, OnlyMoves, SameJob, Quits

LEMMA GotoMoves ==
  ASSUME Shape, NEW t \in Workers, NEW step, Goto(t, step)
  PROVE  OnlyMoves(t) /\ pc'[t] = step
BY ThreadFacts DEF Shape, Goto, OnlyMoves

LEMMA BeginApart ==
  ASSUME Shape, JobsApart, NEW t \in Workers, NEW what, NEW a \in Touched, NEW o \in Touched,
         NEW step, Begin(t, what, a, o, step)
  PROVE  JobsApart'
<1>1. job' = [job EXCEPT ![t] = [does |-> what, addr |-> a, old |-> o]]
  BY DEF Begin
<1>2. OnlyMoves(t)
  BY GotoMoves DEF Begin
<1> QED
  BY <1>1, <1>2 DEF Shape, JobsApart, OnlyMoves, Touched

LEMMA AddedApart ==
  ASSUME Shape, JobsApart, NEW t \in Workers, Added(t),
         pc[t] \notin {Idle, <<"rename", "keys">>}
  PROVE  JobsApart'
<1>1. OnlyMoves(t)
  BY GotoMoves DEF Added
<1>2. job[t] \in Works /\ job[t].old # Bystander /\ job[t].addr # Bystander
  BY DEF Shape, JobsApart
<1>3. /\ job'[t].old # Bystander /\ job'[t].addr # Bystander
      /\ \A u \in Workers \ {t} : job'[u] = job[u]
  BY <1>2 DEF Added, Shape, Works
<1> QED
  BY <1>1, <1>3 DEF JobsApart, OnlyMoves

LEMMA RewritesApart ==
  ASSUME Shape, JobsApart, NEW t \in Workers, Rewrites(t)
  PROVE  JobsApart'
<1>1. pc[t] \notin {Idle, <<"rename", "keys">>} /\ job' = job
  <2>1. \E what \in {"read", "cut", "write"}, f \in Lists \cup {"keys"} : pc[t] = <<what, f>>
    BY DEF Rewrites, ReadList, CutList, WriteList, ReadKeys, CutKeys, WriteKeys, At
  <2>2. job' = job
    BY DEF Rewrites, ReadList, CutList, WriteList, ReadKeys, CutKeys, WriteKeys, kept
  <2> QED
    BY <2>1, <2>2 DEF Idle
<1>2. \E step : Goto(t, step)
  BY DEF Rewrites, ReadList, CutList, WriteList, ReadKeys, CutKeys, WriteKeys
<1> QED
  BY <1>1, <1>2, GotoMoves, JobsKept DEF SameJob

LEMMA FailsApart ==
  ASSUME Shape, JobsApart, NEW t \in Workers, Fails(t)
  PROVE  JobsApart'
<1>1. pc[t] \notin {Idle, <<"rename", "keys">>}
  <2>1. \E what \in {"append", "cut", "write"}, f \in Lists \cup {"keys"} : pc[t] = <<what, f>>
    BY DEF Fails, At
  <2> QED
    BY <2>1 DEF Idle
<1>2. Added(t) \/ ((\E step : Goto(t, step)) /\ job' = job)
  BY DEF Fails
<1> QED
  BY <1>1, <1>2, AddedApart, GotoMoves, JobsKept DEF SameJob

LEMMA LoopApart ==
  ASSUME Shape, JobsApart, LoopWorks
  PROVE  JobsApart'
<1> USE ThreadFacts, GotoMoves, JobsKept
<1>1. ASSUME NEW a \in Touched,
             BeginRemove(Loop, a) \/ BeginForget(a) \/ BeginAdd(a) \/ LoadKeys(a)
      PROVE  JobsApart'
  BY <1>1, BeginApart DEF BeginRemove, BeginForget, BeginAdd, LoadKeys
<1>2. ASSUME NEW a \in Touched, NEW old \in Touched, BeginRotate(a, old) PROVE JobsApart'
  BY <1>2, BeginApart DEF BeginRotate
<1>3. ASSUME NEW f \in Lists, AppendLine(Loop, f) \/ CheckBlock(Loop) PROVE JobsApart'
  <2>1. pc[Loop] \notin {Idle, <<"rename", "keys">>}
    BY <1>3 DEF AppendLine, CheckBlock, At, Idle
  <2>2. Added(Loop) \/ ((\E step : Goto(Loop, step)) /\ job' = job)
    BY <1>3 DEF AppendLine, CheckBlock
  <2> QED
    BY <2>1, <2>2, AddedApart DEF SameJob
<1>4. ValidateKeys => JobsApart'
  BY DEF ValidateKeys, Begin, JobsApart, OnlyMoves, Shape
<1>5. ReplaceKeys \/ RenameKeys => JobsApart'
  BY DEF ReplaceKeys, RenameKeys, Quits
<1>6. Look \/ Resume \/ (\E a \in Touched : SaveCache(a)) => JobsApart'
  BY DEF Look, Resume, SaveCache, JobsApart, working
<1> QED
  BY <1>1, <1>2, <1>3, <1>4, <1>5, <1>6 DEF LoopWorks, Lists

LEMMA ServesApart ==
  ASSUME Shape, JobsApart, Serves
  PROVE  JobsApart'
<1>1. ASSUME NEW t \in Removers, NEW a \in Touched, BeginRemove(t, a) PROVE JobsApart'
  BY <1>1, BeginApart DEF BeginRemove, Workers
<1>2. ASSUME NEW t \in Removers, ClearCache(t) \/ Answer(t) PROVE JobsApart'
  <2>1. pc[t] \notin {Idle, <<"rename", "keys">>} /\ job' = job
    BY <1>2 DEF ClearCache, Answer, At, Idle, kept
  <2>2. Goto(t, <<"answer", "none">>) \/ Goto(t, Idle)
    BY <1>2 DEF ClearCache, Answer
  <2> QED
    BY <2>1, <2>2, GotoMoves, JobsKept DEF SameJob, Workers
<1>3. ASSUME NEW t \in Pollers, Stat(t) \/ Fetch(t) \/ Keep(t) PROVE JobsApart'
  <2>1. job' = job /\ \A u \in Workers : pc'[u] = pc[u]
    BY <1>3, ThreadFacts DEF Stat, Fetch, Keep, Goto, Shape
  <2> QED
    BY <2>1 DEF JobsApart
<1>4. ClearAll => JobsApart'
  BY DEF ClearAll, JobsApart, working
<1> QED
  BY <1>1, <1>2, <1>3, <1>4 DEF Serves

LEMMA ApartStep == Shape /\ JobsApart /\ [Next]_vars => JobsApart'
<1>1. JobsApart /\ (UNCHANGED vars \/ Tick) => JobsApart'
  BY DEF vars, Tick, JobsApart, working
<1>2. Crash => JobsApart'
  BY ThreadFacts DEF Crash, JobsApart
<1> QED
  BY <1>1, <1>2, RewritesApart, FailsApart, LoopApart, ServesApart DEF Next

\* A bond nobody touches is lost only with the whole file: what a truncated
\* keystore shows is never written back, since it does not parse
\* (config.py:242-272), and a replacement starts from a whole one.
THEOREM BondSurvives == Spec => []BystanderBonded
<1>1. Init => Shape /\ JobsApart /\ KeysInv
  <2>1. Init => JobsApart
    BY ThreadFacts DEF Init, JobsApart
  <2>2. Init => KeysInv
    BY ThreadFacts, StepsApart DEF Init, KeysInv, BystanderBonded, Sound, Whole
  <2> QED
    BY <2>1, <2>2, ShapeInit
<1>2. Shape /\ JobsApart /\ KeysInv /\ [Next]_vars => (Shape /\ JobsApart /\ KeysInv)'
  BY ShapeStep, ApartStep, KeysStep
<1>3. Shape /\ JobsApart /\ KeysInv => BystanderBonded
  BY DEF KeysInv, BystanderBonded, Spoiled
<1> QED
  BY <1>1, <1>2, <1>3, PTL DEF Spec

-----------------------------------------------------------------------------
(* Sleeping for want of devices                                             *)

AtAdd == pc[Loop] \in {<<"append", "conf">>, <<"check", "map">>, <<"append", "map">>}

\* Nothing is in the list, and nothing will be put back into it.
Empty(t) == Rewriting(t) => Rest(t, "conf") = <<>>
NoneLeft == lines["conf"] = <<>> /\ \A t \in Workers : Empty(t)

\* While run() sleeps the list is empty, or add_device() is under way, which
\* ends in a resume.
SleepInv ==
  run = "asleep" => IF AtAdd THEN job[Loop].does = "add" ELSE NoneLeft

OthersSame(t) ==
  /\ OnlyMoves(t) /\ run' = run
  /\ \A u \in Workers \ {t} : got'[u] = got[u] /\ job'[u] = job[u]

LEMMA SleepKept ==
  ASSUME SleepInv, NEW t \in Workers, OthersSame(t), t = Loop => ~AtAdd /\ ~AtAdd',
         NoneLeft => lines'["conf"] = <<>> /\ Empty(t)'
  PROVE  SleepInv'
<1>1. CASE t = Loop
  BY <1>1 DEF SleepInv, OthersSame, OnlyMoves, NoneLeft, Empty, Rewriting, Rest
<1>2. CASE t # Loop
  <2>1. AtAdd' = AtAdd /\ job'[Loop] = job[Loop]
    BY <1>2, ThreadFacts DEF OthersSame, OnlyMoves, AtAdd
  <2> QED
    BY <2>1 DEF SleepInv, OthersSame, OnlyMoves, NoneLeft, Empty, Rewriting, Rest
<1> QED
  BY <1>1, <1>2

LEMMA UpIsAwake == ASSUME run' # "asleep" PROVE SleepInv'
BY DEF SleepInv

LEMMA WorkerSame ==
  ASSUME Shape, NEW t \in Workers, NEW step, Goto(t, step), UNCHANGED <<job, run>>,
         \A u \in Workers \ {t} : got'[u] = got[u]
  PROVE  OthersSame(t) /\ pc'[t] = step
BY GotoMoves DEF OthersSame

LEMMA ListsSleep ==
  ASSUME Shape, SleepInv, NEW t \in Workers, NEW f \in Lists,
         ReadList(t, f) \/ CutList(t, f) \/ WriteList(t, f)
  PROVE  SleepInv'
<1>1. t = Loop => ~AtAdd
  BY DEF ReadList, CutList, WriteList, At, AtAdd
<1>2. CASE ReadList(t, f)
  <2>1. /\ UNCHANGED <<lines, job, run>>
        /\ \A u \in Workers \ {t} : got'[u] = got[u]
        /\ \/ Has(lines[f], job[t].addr) /\ Goto(t, <<"cut", f>>)
           \/ Goto(t, Idle)
           \/ f = "map" /\ Goto(t, Ending(t))
    <3>1. UNCHANGED <<lines, job, run>>
      BY <1>2 DEF ReadList, kept
    <3>2. \A u \in Workers \ {t} : got'[u] = got[u]
      <4>1. got' = got \/ \E list : got' = [got EXCEPT ![t] = list]
        BY <1>2 DEF ReadList
      <4> QED
        BY <4>1, ThreadFacts DEF Shape
    <3>3. \/ Has(lines[f], job[t].addr) /\ Goto(t, <<"cut", f>>)
          \/ Goto(t, Idle)
          \/ f = "map" /\ Goto(t, Ending(t))
      BY <1>2 DEF ReadList, Lists
    <3> QED
      BY <3>1, <3>2, <3>3
  <2>2. OthersSame(t) /\ (t = Loop => ~AtAdd')
    BY <2>1, WorkerSame DEF AtAdd, Ending, Idle
  <2>3. ASSUME NoneLeft PROVE Empty(t)'
    <3>1. f = "conf" => ~Has(lines[f], job[t].addr)
      BY <2>3 DEF NoneLeft, Has
    <3>2. pc'[t] \in {Idle, <<"clear", "cache">>, <<"cut", "map">>}
      BY <2>1, <3>1, WorkerSame DEF Ending, Lists
    <3> QED
      BY <3>2 DEF Empty, Rewriting, Idle
  <2> QED
    BY <1>1, <2>1, <2>2, <2>3, SleepKept DEF NoneLeft
<1>3. CASE CutList(t, f)
  <2>1. /\ OthersSame(t) /\ pc[t] = <<"cut", f>> /\ pc'[t] = <<"write", f>>
        /\ UNCHANGED <<job, got>> /\ lines' = [lines EXCEPT ![f] = <<>>]
    BY <1>3, WorkerSame DEF CutList, At
  <2>2. ASSUME NoneLeft PROVE lines'["conf"] = <<>> /\ Empty(t)'
    <3>1. lines'["conf"] = <<>>
      BY <2>1, <2>2 DEF NoneLeft, Shape, Lists
    <3>2. Rewriting(t)' => Rewriting(t)
      BY <2>1 DEF Rewriting, Lists
    <3>3. Rest(t, "conf")' = Rest(t, "conf")
      BY <2>1 DEF Rest
    <3> QED
      BY <2>2, <3>1, <3>2, <3>3 DEF NoneLeft, Empty
  <2> QED
    BY <1>1, <2>1, <2>2, SleepKept DEF AtAdd
<1>4. CASE WriteList(t, f)
  <2>1. /\ OthersSame(t) /\ pc[t] = <<"write", f>>
        /\ pc'[t] \in {<<"read", "keys">>, <<"clear", "cache">>, Idle}
    BY <1>4, WorkerSame DEF WriteList, At, Ending
  <2>2. ASSUME NoneLeft PROVE lines'["conf"] = <<>>
    <3>1. CASE f = "conf"
      BY <1>4, <2>1, <2>2, <3>1 DEF WriteList, NoneLeft, Empty, Rewriting
    <3>2. CASE f # "conf"
      <4>1. lines' = lines \/ \E new : lines' = [lines EXCEPT ![f] = new]
        BY <1>4 DEF WriteList
      <4> QED
        BY <2>2, <3>2, <4>1 DEF Shape, Lists, NoneLeft
    <3> QED
      BY <3>1, <3>2
  <2>3. ~Rewriting(t)'
    BY <2>1 DEF Rewriting, Idle
  <2> QED
    BY <1>1, <2>1, <2>2, <2>3, SleepKept DEF AtAdd, Empty, Idle
<1> QED
  BY <1>2, <1>3, <1>4

\* A step of t that leaves the lists alone and is not about devices.conf.
LEMMA AwaySleep ==
  ASSUME Shape, SleepInv, NEW t \in Workers, OthersSame(t), lines'["conf"] = lines["conf"],
         ~Rewriting(t)', t = Loop => ~AtAdd /\ ~AtAdd'
  PROVE  SleepInv'
BY SleepKept DEF NoneLeft, Empty

LEMMA RewritesSleep ==
  ASSUME Shape, SleepInv, NEW t \in Workers, Rewrites(t)
  PROVE  SleepInv'
<1>1. ASSUME ReadKeys(t) \/ CutKeys(t) \/ WriteKeys(t) PROVE SleepInv'
  <2>1. pc[t] \in {<<"read", "keys">>, <<"cut", "keys">>, <<"write", "keys">>}
    BY <1>1 DEF ReadKeys, CutKeys, WriteKeys, At
  <2>2. UNCHANGED <<lines, job, got, run>>
    BY <1>1 DEF ReadKeys, CutKeys, WriteKeys, kept
  <2>3. \E step \in {<<"cut", "keys">>, <<"write", "keys">>, AfterKeys(t)} : Goto(t, step)
    BY <1>1 DEF ReadKeys, CutKeys, WriteKeys
  <2>4. OthersSame(t) /\ pc'[t] \in {<<"cut", "keys">>, <<"write", "keys">>, <<"read", "map">>, Idle}
    BY <2>2, <2>3, WorkerSame DEF AfterKeys
  <2> QED
    BY <2>1, <2>2, <2>4, AwaySleep DEF AtAdd, Rewriting, Idle
<1> QED
  BY <1>1, ListsSleep DEF Rewrites

\* add_device() ends in a resume, whether or not it wrote anything.
LEMMA AddedSleep ==
  ASSUME Shape, SleepInv, NEW t \in Workers, Added(t), got' = got,
         lines'["conf"] = lines["conf"] \/ (t = Loop /\ AtAdd)
  PROVE  SleepInv'
<1>1. CASE job[t].does # "rotate"
  BY <1>1, UpIsAwake DEF Added
<1>2. CASE job[t].does = "rotate" /\ t = Loop /\ AtAdd
  BY <1>2 DEF Added, SleepInv
<1>3. CASE job[t].does = "rotate" /\ ~(t = Loop /\ AtAdd)
  <2>1. OnlyMoves(t) /\ pc'[t] = <<"read", "conf">>
    BY <1>3, GotoMoves DEF Added
  <2>2. OthersSame(t)
    BY <1>3, <2>1 DEF Added, OthersSame, Shape
  <2> QED
    BY <1>3, <2>1, <2>2, AwaySleep DEF AtAdd, Rewriting
<1> QED
  BY <1>1, <1>2, <1>3

LEMMA FailsSleep ==
  ASSUME Shape, SleepInv, NEW t \in Workers, Fails(t)
  PROVE  SleepInv'
<1>1. got' = got /\ lines' = lines
  BY DEF Fails, kept
<1>2. CASE Added(t)
  BY <1>1, <1>2, AddedSleep
<1>3. CASE ~Added(t)
  <2>1. PICK f \in Lists \cup {"keys"} :
          /\ pc[t] \in {<<"cut", f>>, <<"write", f>>}
          /\ \E step \in {Idle, AfterKeys(t), Ending(t)} : Goto(t, step)
          /\ UNCHANGED <<job, run>>
    BY <1>3 DEF Fails, At, Lists
  <2>2. OthersSame(t) /\ pc'[t] \in {Idle, <<"clear", "cache">>, <<"read", "map">>}
    BY <1>1, <2>1, WorkerSame DEF AfterKeys, Ending
  <2> QED
    BY <1>1, <2>1, <2>2, AwaySleep DEF AtAdd, Rewriting, Idle
<1> QED
  BY <1>2, <1>3

LEMMA BeginSleep ==
  ASSUME Shape, SleepInv, NEW t \in Workers, NEW what, NEW a, NEW o, NEW step,
         Begin(t, what, a, o, step), UNCHANGED <<lines, got, run>>,
         step \in {Idle, <<"read", "conf">>, <<"read", "keys">>, <<"replace", "keys">>,
                   <<"rename", "keys">>}
  PROVE  SleepInv'
<1>1. OthersSame(t) /\ pc'[t] = step /\ pc[t] = Idle
  BY GotoMoves DEF Begin, OthersSame, Shape, At
<1> QED
  BY <1>1, AwaySleep DEF AtAdd, Rewriting, Idle

LEMMA LoopSleep ==
  ASSUME Shape, SleepInv, LoopWorks
  PROVE  SleepInv'
<1> USE ThreadFacts DEF kept, clocks, working
<1>1. ASSUME NEW a \in Touched, BeginRemove(Loop, a) \/ BeginForget(a) \/ LoadKeys(a)
      PROVE  SleepInv'
  BY <1>1, BeginSleep DEF BeginRemove, BeginForget, LoadKeys
<1>2. ASSUME NEW a \in Touched, BeginAdd(a) PROVE SleepInv'
  <2>1. CASE run' = "up"
    BY <2>1, UpIsAwake
  <2>2. CASE run' # "up"
    <3>1. /\ job' = [job EXCEPT ![Loop] = [does |-> "add", addr |-> a, old |-> a]]
          /\ Goto(Loop, <<"append", "conf">>)
      BY <1>2, <2>2 DEF BeginAdd, Begin
    <3>2. AtAdd' /\ job'[Loop].does = "add"
      BY <3>1, GotoMoves DEF AtAdd, Shape
    <3> QED
      BY <3>2 DEF SleepInv
  <2> QED
    BY <2>1, <2>2
<1>3. ASSUME NEW a \in Touched, NEW old \in Touched, BeginRotate(a, old) PROVE SleepInv'
  BY <1>3, UpIsAwake DEF BeginRotate
<1>4. AppendLine(Loop, "conf") => SleepInv'
  <2> SUFFICES ASSUME AppendLine(Loop, "conf") PROVE SleepInv'
    OBVIOUS
  <2>1. Goto(Loop, <<"check", "map">>) /\ AtAdd /\ UNCHANGED <<job, run>>
    BY DEF AppendLine, At, AtAdd
  <2>2. AtAdd'
    BY <2>1, GotoMoves DEF AtAdd
  <2> QED
    BY <2>1, <2>2 DEF SleepInv
<1>5. ASSUME AppendLine(Loop, "map") \/ CheckBlock(Loop) PROVE SleepInv'
  <2>1. AtAdd /\ got' = got
    BY <1>5 DEF AppendLine, CheckBlock, At, AtAdd
  <2>2. CASE Added(Loop)
    BY <2>1, <2>2, AddedSleep
  <2>3. CASE ~Added(Loop)
    <3>1. Goto(Loop, <<"append", "map">>) /\ UNCHANGED <<job, run>>
      BY <1>5, <2>3 DEF AppendLine, CheckBlock
    <3>2. AtAdd'
      BY <3>1, GotoMoves DEF AtAdd
    <3> QED
      BY <2>1, <3>1, <3>2 DEF SleepInv
  <2> QED
    BY <2>2, <2>3
<1>6. ValidateKeys => SleepInv'
  BY BeginSleep DEF ValidateKeys
<1>7. ASSUME ReplaceKeys \/ RenameKeys PROVE SleepInv'
  <2>1. Goto(Loop, Idle) /\ UNCHANGED <<lines, job, got, run>> /\ ~AtAdd
    BY <1>7 DEF ReplaceKeys, RenameKeys, At, AtAdd
  <2> QED
    BY <2>1, WorkerSame, AwaySleep DEF AtAdd, Rewriting, Idle
<1>8. ASSUME Look PROVE SleepInv'
  <2>1. ~AtAdd' /\ ~Rewriting(Loop) /\ UNCHANGED <<lines, pc, job, got>>
    BY <1>8 DEF Look, At, AtAdd, Rewriting, Idle
  <2>2. run' = "asleep" => NoneLeft
    BY <1>8, <2>1 DEF Look, NoneLeft, Empty, Workers
  <2> QED
    BY <2>1, <2>2 DEF SleepInv, NoneLeft, Empty, Rewriting, Rest
<1>9. Resume => SleepInv'
  BY UpIsAwake DEF Resume
<1>10. ASSUME NEW a \in Touched, SaveCache(a) PROVE SleepInv'
  BY <1>10 DEF SaveCache, SleepInv, AtAdd, NoneLeft, Empty, Rewriting, Rest
<1> QED
  BY <1>1, <1>2, <1>3, <1>4, <1>5, <1>6, <1>7, <1>8, <1>9, <1>10 DEF LoopWorks

LEMMA ServesSleep ==
  ASSUME Shape, SleepInv, Serves
  PROVE  SleepInv'
<1> USE ThreadFacts DEF kept, clocks, working
<1>1. ASSUME NEW t \in Removers, NEW a \in Touched, BeginRemove(t, a) PROVE SleepInv'
  BY <1>1, BeginSleep DEF BeginRemove, Workers
<1>2. ASSUME NEW t \in Removers, ClearCache(t) \/ Answer(t) PROVE SleepInv'
  <2>1. /\ pc[t] \in {<<"clear", "cache">>, <<"answer", "none">>}
        /\ UNCHANGED <<lines, job, got, run>>
    BY <1>2 DEF ClearCache, Answer, At
  <2>2. Goto(t, <<"answer", "none">>) \/ Goto(t, Idle)
    BY <1>2 DEF ClearCache, Answer
  <2>3. OthersSame(t) /\ pc'[t] \in {<<"answer", "none">>, Idle}
    BY <2>1, <2>2, WorkerSame DEF Workers
  <2> QED
    BY <2>1, <2>3, AwaySleep DEF AtAdd, Rewriting, Idle, Workers
<1>3. ASSUME NEW t \in Pollers, Stat(t) \/ Fetch(t) \/ Keep(t) PROVE SleepInv'
  <2>1. UNCHANGED <<lines, job, run>> /\ \A u \in Workers : pc'[u] = pc[u] /\ got'[u] = got[u]
    BY <1>3 DEF Stat, Fetch, Keep, Goto, Shape
  <2> QED
    BY <2>1 DEF SleepInv, AtAdd, NoneLeft, Empty, Rewriting, Rest
<1>4. ClearAll => SleepInv'
  BY DEF ClearAll, SleepInv, AtAdd, NoneLeft, Empty, Rewriting, Rest
<1> QED
  BY <1>1, <1>2, <1>3, <1>4 DEF Serves

LEMMA SleepStep == Shape /\ SleepInv /\ [Next]_vars => SleepInv'
<1>1. SleepInv /\ (UNCHANGED vars \/ Tick) => SleepInv'
  BY DEF vars, Tick, kept, working, SleepInv, AtAdd, NoneLeft, Empty, Rewriting, Rest
<1>2. Crash => SleepInv'
  BY UpIsAwake DEF Crash
<1> QED
  BY <1>1, <1>2, RewritesSleep, FailsSleep, LoopSleep, ServesSleep DEF Next

\* run() never sleeps with a device in the list, but for one it overlooked in
\* the middle of a rewrite (daemon.py:110, 144): whatever adds one resumes it.
THEOREM SleepsForNothing == Spec => []SleepsOnlyEmpty
<1>1. Init => Shape /\ SleepInv
  BY ShapeInit DEF Init, SleepInv
<1>2. Shape /\ SleepInv /\ [Next]_vars => (Shape /\ SleepInv)'
  BY ShapeStep, SleepStep
<1>3. SleepInv => SleepsOnlyEmpty
  BY DEF SleepInv, SleepsOnlyEmpty, NoneLeft, AtAdd, At, Idle
<1> QED
  BY <1>1, <1>2, <1>3, PTL DEF Spec
-----------------------------------------------------------------------------
(* The lines of a list                                                      *)

\* From the well-foundedness of the natural numbers, without an operator as a
\* parameter: what the least line of a device, Min of a set of lines, rests on.
LEMMA LeastNatural ==
  ASSUME NEW T \in SUBSET Nat, T # {}
  PROVE  \E x \in T : \A y \in T : x <= y
<1> DEFINE R == OpToRel(<, Nat)
<1>1. ASSUME NEW x \in Nat, NEW y \in Nat, y < x PROVE <<y, x>> \in R
  BY <1>1, Zenon DEF OpToRel
<1>2. IsWellFoundedOn(R, Nat)
  BY NatLessThanWellFounded
<1> HIDE DEF R
<1>3. PICK x \in T : \A y \in T : ~ (<<y, x>> \in R)
  BY <1>2, WFMin
<1>4. \A y \in T : ~ (y < x)
  BY ONLY <1>1, <1>3, T \in SUBSET Nat, x \in T, Zenon
<1> QED BY <1>4

\* Kept() numbers the lines it keeps from 1 on, each once.
LEMMA KeptFacts ==
  ASSUME NEW A, NEW list \in Seq(A), NEW S
  PROVE  /\ Kept(list, S) \in Seq(A)
         /\ \A a : Has(Kept(list, S), a) <=> Has(list, a) /\ a \in S
<1> DEFINE at == {i \in 1..Len(list) : list[i] \in S}
           n  == Cardinality(at)
           Below(i) == {j \in at : j <= i}
           rank == [i \in at |-> Cardinality(Below(i))]
           Nth(m) == CHOOSE i \in at : Cardinality({j \in at : j <= i}) = m
<1>1. /\ IsFiniteSet(at) /\ n \in Nat /\ at \subseteq 1..Len(list) /\ Len(list) \in Nat
      /\ \A i \in 1..Len(list) : list[i] \in A
  <2>1. Len(list) \in Nat /\ \A i \in 1..Len(list) : list[i] \in A
    OBVIOUS
  <2>2. IsFiniteSet(1..Len(list))
    BY <2>1, FS_Interval
  <2>3. at \subseteq 1..Len(list)
    OBVIOUS
  <2> QED BY <2>1, <2>2, <2>3, FS_Subset, FS_CardinalityType
<1>2. \A i \in at : i \in Below(i) /\ IsFiniteSet(Below(i)) /\ Cardinality(Below(i)) \in 1..n
  <2> SUFFICES ASSUME NEW i \in at
               PROVE  i \in Below(i) /\ IsFiniteSet(Below(i)) /\ Cardinality(Below(i)) \in 1..n
    OBVIOUS
  <2>1. i \in Below(i) /\ Below(i) \in SUBSET at
    BY <1>1
  <2> HIDE DEF Below, at
  <2>2. IsFiniteSet(Below(i)) /\ Cardinality(Below(i)) <= n /\ Cardinality(Below(i)) \in Nat
    BY <1>1, <2>1, FS_Subset, FS_CardinalityType
  <2>3. Cardinality(Below(i)) # 0
    BY <2>1, <2>2, FS_EmptySet
  <2> QED BY <1>1, <2>1, <2>2, <2>3
<1>3. \A i, k \in at : i < k => rank[i] < rank[k]
  <2> SUFFICES ASSUME NEW i \in at, NEW k \in at, i < k PROVE rank[i] < rank[k]
    OBVIOUS
  <2>1. Below(i) \in SUBSET Below(k) /\ k \notin Below(i) /\ k \in Below(k)
    BY <1>1
  <2>2. rank[i] = Cardinality(Below(i)) /\ rank[k] = Cardinality(Below(k))
    OBVIOUS
  <2> HIDE DEF Below, at, rank
  <2>3. Cardinality(Below(i)) <= Cardinality(Below(k)) /\ Cardinality(Below(i)) # Cardinality(Below(k))
    BY <1>2, <2>1, FS_Subset
  <2> QED BY <1>2, <2>2, <2>3
<1>4. rank \in Injection(at, 1..n)
  <2>1. rank \in [at -> 1..n]
    BY <1>2
  <2>2. \A i, k \in at : rank[i] = rank[k] => i = k
    <3>1. \A i \in at : i \in Nat /\ rank[i] \in Nat
      <4>1. \A i \in at : i \in 1..Len(list)
        OBVIOUS
      <4> HIDE DEF at, Below
      <4> QED BY <1>1, <1>2, <4>1
    <3> HIDE DEF rank, at
    <3> QED BY <1>3, <3>1
  <2> HIDE DEF rank, at
  <2> QED BY <2>1, <2>2 DEF Injection, IsInjective
<1>5. \A m \in 1..n : \E i \in at : rank[i] = m
  <2>1. IsFiniteSet(1..n) /\ Cardinality(1..n) = n
    BY <1>1, FS_Interval
  <2> HIDE DEF rank, at
  <2>2. rank \in Surjection(at, 1..n)
    BY <1>4, <2>1, FS_Injection
  <2> QED BY <2>2 DEF Surjection
<1>6. \A m \in 1..n : Nth(m) \in at /\ rank[Nth(m)] = m
  BY <1>5
<1>7. Kept(list, S) = [m \in 1..n |-> list[Nth(m)]]
  BY DEF Kept
<1>8. Kept(list, S) \in Seq(A) /\ Len(Kept(list, S)) = n
  <2> HIDE DEF at, Nth
  <2>1. \A m \in 1..n : list[Nth(m)] \in A
    BY <1>1, <1>6
  <2>2. Kept(list, S) \in [1..n -> A]
    BY <1>7, <2>1
  <2> QED BY <1>1, <2>2
<1>9. ASSUME NEW a, Has(Kept(list, S), a) PROVE Has(list, a) /\ a \in S
  <2>1. PICK m \in 1..n : Kept(list, S)[m] = a
    BY <1>8, <1>9 DEF Has
  <2>2. list[Nth(m)] = a
    <3> HIDE DEF at, Nth
    <3> QED BY <1>7, <2>1
  <2> QED BY <1>1, <1>6, <2>1, <2>2 DEF Has
<1>10. ASSUME NEW a, Has(list, a), a \in S PROVE Has(Kept(list, S), a)
  <2>1. PICK i \in at : list[i] = a
    BY <1>10 DEF Has
  <2>2. Nth(rank[i]) = i /\ rank[i] \in 1..n
    <3>1. rank[i] \in 1..n
      BY <1>2, <2>1
    <3> HIDE DEF at, rank, Nth
    <3>2. Nth(rank[i]) \in at /\ rank[Nth(rank[i])] = rank[i]
      BY <1>6, <3>1
    <3> QED BY <1>4, <3>1, <3>2 DEF Injection, IsInjective
  <2> HIDE DEF at, rank, Nth
  <2> QED BY <1>7, <1>8, <2>1, <2>2 DEF Has
<1> QED BY <1>8, <1>9, <1>10

LEMMA ConcatFacts ==
  ASSUME NEW A, NEW s \in Seq(A), NEW r \in Seq(A)
  PROVE  /\ s \o r \in Seq(A) /\ Len(s \o r) = Len(s) + Len(r)
         /\ \A i \in 1..Len(s) + Len(r) :
              (s \o r)[i] = IF i <= Len(s) THEN s[i] ELSE r[i - Len(s)]
         /\ \A b : Has(s, b) => Has(s \o r, b)
BY DEF Has

\* RemoveFirst() takes one line of the device, if there is one, and no other.
LEMMA RemoveFirstFacts ==
  ASSUME NEW A, NEW list \in Seq(A), NEW a
  PROVE  /\ RemoveFirst(list, a) \in Seq(A)
         /\ \A b : b # a /\ Has(list, b) => Has(RemoveFirst(list, a), b)
         /\ ~Twice(list) => ~Has(RemoveFirst(list, a), a)
<1>1. CASE ~Has(list, a)
  BY <1>1 DEF Has, RemoveFirst
<1>2. CASE Has(list, a)
  <2> DEFINE at == {i \in 1..Len(list) : list[i] = a}
  <2>1. PICK k \in at : \A i \in at : k <= i
    <3>1. at \in SUBSET Nat /\ at # {}
      BY <1>2 DEF Has
    <3> HIDE DEF at
    <3> QED BY <3>1, LeastNatural
  <2>2. SelectInSeq(list, LAMBDA v : v = a) \in at
    BY <2>1 DEF SelectInSeq, Min
  <2>3. PICK m \in 1..Len(list) : /\ list[m] = a
                                  /\ RemoveFirst(list, a) = SubSeq(list, 1, m-1) \o SubSeq(list, m+1, Len(list))
    BY <1>2, <2>2 DEF RemoveFirst, RemoveAt, Has
  <2> DEFINE rest == SubSeq(list, 1, m-1) \o SubSeq(list, m+1, Len(list))
  <2>4. /\ rest \in Seq(A) /\ Len(rest) = Len(list) - 1
        /\ \A i \in 1..Len(rest) : rest[i] = IF i < m THEN list[i] ELSE list[i+1]
    <3> DEFINE s == SubSeq(list, 1, m-1)
               r == SubSeq(list, m+1, Len(list))
    <3>1. s \in Seq(A) /\ Len(s) = m-1 /\ \A i \in 1..m-1 : s[i] = list[i]
      OBVIOUS
    <3>2. r \in Seq(A) /\ Len(r) = Len(list)-m /\ \A i \in 1..Len(list)-m : r[i] = list[m+i]
      OBVIOUS
    <3>3. rest = s \o r /\ Len(list) \in Nat /\ m \in 1..Len(list)
      OBVIOUS
    <3> HIDE DEF s, r, rest
    <3>4. rest \in Seq(A) /\ Len(rest) = Len(list) - 1
      <4>1. s \in Seq(A) /\ r \in Seq(A)
        BY <3>1, <3>2
      <4>2. rest \in Seq(A) /\ Len(rest) = Len(s) + Len(r)
        BY <3>3, <4>1, ConcatFacts
      <4> QED BY <3>1, <3>2, <3>3, <4>2
    <3>5. ASSUME NEW i \in 1..Len(rest)
          PROVE  rest[i] = IF i < m THEN list[i] ELSE list[i+1]
      <4>0. i \in Nat /\ rest[i] = IF i <= m-1 THEN s[i] ELSE r[i-(m-1)]
        BY <3>1, <3>2, <3>3, <3>4, ConcatFacts
      <4>1. CASE i < m
        BY <3>1, <3>3, <4>0, <4>1
      <4>2. CASE i >= m
        <5>1. rest[i] = r[i-(m-1)] /\ i-(m-1) \in 1..Len(list)-m
          BY <3>3, <3>4, <4>0, <4>2
        <5>2. r[i-(m-1)] = list[m+(i-(m-1))] /\ m+(i-(m-1)) = i+1
          BY <3>2, <5>1
        <5> QED BY <3>3, <4>0, <4>2, <5>1, <5>2
      <4> QED BY <4>1, <4>2
    <3> QED BY <3>4, <3>5
  <2> HIDE DEF rest
  <2>5. ASSUME NEW b, b # a, Has(list, b) PROVE Has(rest, b)
    <3>1. PICK i \in 1..Len(list) : list[i] = b /\ i # m
      BY <2>3, <2>5 DEF Has
    <3>2. CASE i < m
      BY <2>4, <3>1, <3>2 DEF Has
    <3>3. CASE i > m
      <4>1. i-1 \in 1..Len(rest) /\ rest[i-1] = list[i]
        BY <2>4, <3>3
      <4> QED BY <3>1, <4>1 DEF Has
    <3> QED BY <3>1, <3>2, <3>3
  <2>6. ASSUME Has(rest, a), ~Twice(list) PROVE FALSE
    <3>1. PICK i \in 1..Len(rest) : rest[i] = a
      BY <2>6 DEF Has
    <3>2. \E j \in 1..Len(list) : list[j] = a /\ j # m
      <4>1. CASE i < m
        <5>1. i \in 1..Len(list) /\ list[i] = a /\ i # m
          BY <2>4, <3>1, <4>1
        <5> QED BY <5>1
      <4>2. CASE i >= m
        <5>1. i+1 \in 1..Len(list) /\ list[i+1] = a /\ i+1 # m
          BY <2>4, <3>1, <4>2
        <5> QED BY <5>1
      <4> QED BY <4>1, <4>2
    <3> QED BY <2>3, <2>6, <3>2 DEF Twice
  <2> QED BY <2>3, <2>4, <2>5, <2>6 DEF rest
<1> QED BY <1>1, <1>2

\* What is written from offset 0 is all there, at the start of the file.
LEMMA OverFacts ==
  ASSUME NEW A, NEW old \in Seq(A), NEW new \in Seq(A)
  PROVE  /\ Over(old, new) \in Seq(A)
         /\ \A a : Has(new, a) => Has(Over(old, new), a)
         /\ old = <<>> => Over(old, new) = new
<1>1. SubSeq(old, Len(new) + 1, Len(old)) \in Seq(A)
  OBVIOUS
<1>2. /\ Over(old, new) \in Seq(A) /\ Len(Over(old, new)) >= Len(new)
      /\ \A i \in 1..Len(new) : Over(old, new)[i] = new[i]
  BY <1>1 DEF Over
<1>3. old = <<>> => Over(old, new) = new
  BY DEF Over
<1> QED BY <1>2, <1>3 DEF Has

LEMMA AppendFacts ==
  ASSUME NEW A, NEW list \in Seq(A), NEW a \in A
  PROVE  /\ Append(list, a) \in Seq(A)
         /\ \A b : Has(list, b) => Has(Append(list, a), b)
BY DEF Has

-----------------------------------------------------------------------------
(* Type correctness                                                         *)

LEMMA StepFacts ==
  /\ Idle \in Steps
  /\ \A f \in Lists \cup {"keys"} : {<<"read", f>>, <<"cut", f>>, <<"write", f>>} \subseteq Steps
  /\ \A f \in Lists : <<"append", f>> \in Steps
  /\ {<<"check", "map">>, <<"replace", "keys">>, <<"rename", "keys">>, <<"clear", "cache">>,
      <<"answer", "none">>, <<"fetch", "list">>, <<"keep", "list">>} \subseteq Steps
BY DEF Steps, Idle, Lists

LEMMA WorkTypes ==
  ASSUME TypeOK, NEW t \in Workers
  PROVE  job[t].addr \in Addrs /\ job[t].old \in Addrs /\ job[t] \in Works
BY DEF TypeOK, Works

LEMMA GotoType ==
  ASSUME TypeOK, NEW t \in Threads, NEW step \in Steps, Goto(t, step)
  PROVE  pc' \in [Threads -> Steps]
BY DEF TypeOK, Goto

LEMMA BeginType ==
  ASSUME TypeOK, NEW t \in Workers,
         NEW what \in {"remove", "forget", "add", "rotate", "bond", "check"},
         NEW a \in Addrs, NEW o \in Addrs, NEW step \in Steps, Begin(t, what, a, o, step)
  PROVE  pc' \in [Threads -> Steps] /\ job' \in [Workers -> Works] /\ jobs' \in Nat
<1>1. [does |-> what, addr |-> a, old |-> o] \in Works
  BY DEF Works
<1>2. job' \in [Workers -> Works] /\ jobs' \in Nat
  BY <1>1 DEF Begin, OneMore, TypeOK
<1> QED BY <1>2, GotoType, ThreadFacts DEF Begin

LEMMA AddedType ==
  ASSUME TypeOK, NEW t \in Workers, Added(t)
  PROVE  pc' \in [Threads -> Steps] /\ job' \in [Workers -> Works]
         /\ run' \in {"up", "asleep", "fooled"}
<1>1. (Goto(t, Idle) \/ Goto(t, <<"read", "conf">>)) /\ run' \in {run, "up"}
  BY DEF Added
<1>2. pc' \in [Threads -> Steps]
  BY <1>1, GotoType, StepFacts, ThreadFacts DEF Lists
<1>3. job' \in [Workers -> Works]
  <2> DEFINE w == [job[t] EXCEPT !.does = "remove", !.addr = job[t].old]
  <2>1. w \in Works
    BY WorkTypes DEF Works
  <2>2. job' = job \/ job' = [job EXCEPT ![t] = w]
    BY DEF Added
  <2> HIDE DEF w
  <2> QED BY <2>1, <2>2 DEF TypeOK
<1> QED BY <1>1, <1>2, <1>3 DEF TypeOK

LEMMA RestType ==
  ASSUME TypeOK, NEW t \in Workers, NEW f \in Lists
  PROVE  Rest(t, f) \in Seq(Addrs)
<1>1. got[t] \in Seq(Addrs)
  BY ThreadFacts DEF TypeOK
<1> QED BY <1>1, KeptFacts, RemoveFirstFacts DEF Rest

LEMMA ChangedType ==
  ASSUME TypeOK, NEW f, Changed(f)
  PROVE  mtime' \in Nat /\ harm' \in SUBSET Harms
BY DEF TypeOK, Changed, Met, Harms

LEMMA LinesType ==
  ASSUME TypeOK, NEW f \in Lists, NEW new \in Seq(Addrs), lines' = [lines EXCEPT ![f] = new]
  PROVE  lines' \in [Lists -> Seq(Addrs)]
BY DEF TypeOK

\* The variables that a thread's own step leaves to the others.
LEMMA RewritesType ==
  ASSUME TypeOK, NEW t \in Workers, Rewrites(t)
  PROVE  /\ lines' \in [Lists -> Seq(Addrs)] /\ keys' \in Stores \cup {Cut, Mixed}
         /\ pc' \in [Threads -> Steps] /\ got' \in [Threads -> Seq(Addrs)]
         /\ ring' \in [Workers -> SUBSET Addrs] /\ detached' \in SUBSET Workers
         /\ mtime' \in Nat /\ harm' \in SUBSET Harms
         /\ UNCHANGED <<cached, job, run, now, stat, listing, jobs>>
<1> DEFINE Goal ==
         /\ lines' \in [Lists -> Seq(Addrs)] /\ keys' \in Stores \cup {Cut, Mixed}
         /\ pc' \in [Threads -> Steps] /\ got' \in [Threads -> Seq(Addrs)]
         /\ ring' \in [Workers -> SUBSET Addrs] /\ detached' \in SUBSET Workers
         /\ mtime' \in Nat /\ harm' \in SUBSET Harms
         /\ UNCHANGED <<cached, job, run, now, stat, listing, jobs>>
<1> USE DEF kept, clocks
<1>1. /\ t \in Threads /\ Ending(t) \in Steps /\ AfterKeys(t) \in Steps
      /\ <<"read", "keys">> \in Steps
      /\ \A f \in Lists : <<"write", f>> \in Steps
  BY ThreadFacts, StepFacts DEF Ending, AfterKeys, Lists
<1>2. ASSUME NEW f \in Lists, ReadList(t, f) PROVE Goal
  <2>1. \E step \in Steps : Goto(t, step)
    BY <1>1, <1>2, StepFacts DEF ReadList
  <2>2. pc' \in [Threads -> Steps]
    BY <1>1, <2>1, GotoType
  <2>3. got' = got \/ got' = [got EXCEPT ![t] = lines[f]]
    BY <1>2 DEF ReadList
  <2>4. got' \in [Threads -> Seq(Addrs)]
    BY <2>3 DEF TypeOK
  <2> QED BY <1>2, <2>2, <2>4 DEF ReadList, TypeOK, Met, Harms
<1>3. ASSUME NEW f \in Lists, CutList(t, f) PROVE Goal
  <2>1. pc' \in [Threads -> Steps]
    BY <1>1, <1>3, GotoType DEF CutList
  <2>2. lines' \in [Lists -> Seq(Addrs)]
    <3>1. <<>> \in Seq(Addrs)
      OBVIOUS
    <3> QED BY <1>3, <3>1, LinesType DEF CutList
  <2>3. mtime' \in Nat /\ harm' \in SUBSET Harms
    BY <1>3, ChangedType DEF CutList
  <2> QED BY <1>3, <2>1, <2>2, <2>3 DEF CutList, TypeOK
<1>4. ASSUME NEW f \in Lists, WriteList(t, f) PROVE Goal
  <2>1. pc' \in [Threads -> Steps]
    BY <1>1, <1>4, GotoType DEF WriteList
  <2>2. lines' \in [Lists -> Seq(Addrs)]
    <3>1. lines[f] \in Seq(Addrs)
      BY DEF TypeOK
    <3>2. Over(lines[f], Rest(t, f)) \in Seq(Addrs)
      BY <3>1, RestType, OverFacts
    <3>3. lines' = lines \/ lines' = [lines EXCEPT ![f] = Over(lines[f], Rest(t, f))]
      BY <1>4 DEF WriteList
    <3> QED BY <3>2, <3>3, LinesType DEF TypeOK
  <2>3. mtime' \in Nat /\ harm' \in SUBSET Harms
    BY <1>4, ChangedType DEF WriteList, TypeOK
  <2> QED BY <1>4, <2>1, <2>2, <2>3 DEF WriteList, TypeOK
<1>5. ASSUME ReadKeys(t) PROVE Goal
  <2>1. \E step \in Steps : Goto(t, step)
    BY <1>1, <1>5, StepFacts DEF ReadKeys
  <2>2. pc' \in [Threads -> Steps]
    BY <1>1, <2>1, GotoType
  <2>3. ring' \in [Workers -> SUBSET Addrs]
    <3>1. keys.of \in SUBSET Addrs
      BY DEF TypeOK, Stores, Whole, Cut, Mixed
    <3> QED BY <1>5, <3>1 DEF ReadKeys, TypeOK
  <2> QED BY <1>5, <2>2, <2>3 DEF ReadKeys, TypeOK
<1>6. ASSUME CutKeys(t) PROVE Goal
  <2>1. pc' \in [Threads -> Steps]
    BY <1>1, <1>6, GotoType, StepFacts DEF CutKeys
  <2> QED BY <1>6, <2>1 DEF CutKeys, TypeOK
<1>7. ASSUME WriteKeys(t) PROVE Goal
  <2>1. pc' \in [Threads -> Steps]
    BY <1>1, <1>7, GotoType DEF WriteKeys
  <2>2. ring[t] \ {job[t].addr} \in SUBSET Addrs
    BY DEF TypeOK
  <2>3. keys' \in Stores \cup {Cut, Mixed}
    BY <1>7, <2>2 DEF WriteKeys, OverKeys, Stores, TypeOK
  <2>4. harm' \in SUBSET Harms
    BY <1>7 DEF WriteKeys, Met, Harms, TypeOK
  <2> QED BY <1>7, <2>1, <2>3, <2>4 DEF WriteKeys, TypeOK
<1> QED BY <1>2, <1>3, <1>4, <1>5, <1>6, <1>7 DEF Rewrites

LEMMA FailsType ==
  ASSUME TypeOK, NEW t \in Workers, Fails(t)
  PROVE  TypeOK'
<1>1. UNCHANGED <<kept, got, ring, detached, clocks, jobs>> /\ meddled' \in SUBSET Workers
  BY DEF Fails, TypeOK
<1>2. harm' \in SUBSET Harms
  BY DEF Fails, Met, Harms, TypeOK
<1>3. /\ pc' \in [Threads -> Steps] /\ job' \in [Workers -> Works]
      /\ run' \in {"up", "asleep", "fooled"}
  <2>1. CASE Added(t)
    BY <2>1, AddedType
  <2>2. CASE ~Added(t)
    <3>1. \E f \in Lists \cup {"keys"} :
            Goto(t, CASE f = "conf" -> Idle
                      [] f = "keys" -> AfterKeys(t)
                      [] f = "map"  -> Ending(t)) /\ UNCHANGED <<job, run>>
      BY <2>2 DEF Fails
    <3>2. \E step \in {Idle, AfterKeys(t), Ending(t)} : Goto(t, step)
      BY <3>1 DEF Lists
    <3>3. {Idle, AfterKeys(t), Ending(t)} \subseteq Steps
      BY StepFacts DEF AfterKeys, Ending, Lists
    <3> QED BY <3>1, <3>2, <3>3, GotoType, ThreadFacts DEF TypeOK
  <2> QED BY <2>1, <2>2
<1> QED BY <1>1, <1>2, <1>3 DEF TypeOK, kept, clocks

\* TypeOK without the history of meddling, which Next adds to most steps.
WorkTypeOK ==
  /\ lines \in [Lists -> Seq(Addrs)]
  /\ keys \in Stores \cup {Cut, Mixed} /\ cached \in SUBSET (Addrs \X {"bare", "/P"})
  /\ pc \in [Threads -> Steps] /\ job \in [Workers -> Works]
  /\ got \in [Threads -> Seq(Addrs)] /\ ring \in [Workers -> SUBSET Addrs]
  /\ detached \in SUBSET Workers
  /\ run \in {"up", "asleep", "fooled"}
  /\ now \in Nat /\ mtime \in Nat /\ stat \in [Pollers -> Nat]
  /\ listing \in [of : Seq(Addrs), at : Nat, set : BOOLEAN]
  /\ jobs \in Nat /\ harm \in SUBSET Harms

LEMMA BeginsType ==
  ASSUME TypeOK, NEW a \in Addrs, NEW old \in Addrs,
         \/ BeginRemove(Loop, a) \/ BeginForget(a) \/ BeginAdd(a) \/ LoadKeys(a)
         \/ BeginRotate(a, old) \/ ValidateKeys
  PROVE  WorkTypeOK'
<1> USE ThreadFacts, BystanderAssumption DEF kept, clocks
<1>1. {<<"read", "conf">>, <<"read", "keys">>, <<"append", "conf">>, Idle,
       <<"replace", "keys">>, <<"rename", "keys">>} \subseteq Steps
  BY StepFacts DEF Lists
<1>2. /\ pc' \in [Threads -> Steps] /\ job' \in [Workers -> Works] /\ jobs' \in Nat
  <2>1. \E what \in {"remove", "forget", "add", "rotate", "bond", "check"},
           b \in Addrs, o \in Addrs, step \in Steps : Begin(Loop, what, b, o, step)
    <3>1. BeginRemove(Loop, a) \/ BeginForget(a) => \E step \in Steps, what \in {"remove", "forget"} :
            Begin(Loop, what, a, a, step)
      BY <1>1 DEF BeginRemove, BeginForget
    <3>2. BeginAdd(a) => \E step \in Steps : Begin(Loop, "add", a, a, step)
      BY <1>1 DEF BeginAdd
    <3>3. LoadKeys(a) => \E step \in Steps : Begin(Loop, "bond", a, a, step)
      BY <1>1 DEF LoadKeys
    <3>4. BeginRotate(a, old) => \/ \E step \in Steps : Begin(Loop, "remove", old, old, step)
                                 \/ \E step \in Steps : Begin(Loop, "rotate", a, old, step)
      BY <1>1 DEF BeginRotate
    <3>5. ValidateKeys => \E step \in Steps : Begin(Loop, "check", Bystander, Bystander, step)
      BY <1>1 DEF ValidateKeys
    <3> QED BY <1>1, <3>1, <3>2, <3>3, <3>4, <3>5
  <2> QED BY <2>1, BeginType
<1>3. ring' \in [Workers -> SUBSET Addrs]
  <2>1. keys.of \in SUBSET Addrs
    BY DEF TypeOK, Stores, Whole, Cut, Mixed
  <2>2. ring' = ring \/ ring' = [ring EXCEPT ![Loop] = keys.of]
    BY DEF BeginRemove, BeginForget, BeginAdd, LoadKeys, BeginRotate, ValidateKeys
  <2> QED BY <2>1, <2>2 DEF TypeOK
<1>4. run' \in {"up", "asleep", "fooled"}
  BY DEF BeginRemove, BeginForget, BeginAdd, LoadKeys, BeginRotate, ValidateKeys, TypeOK
<1>5. UNCHANGED <<kept, got, detached, clocks, harm>>
  BY DEF BeginRemove, BeginForget, BeginAdd, LoadKeys, BeginRotate, ValidateKeys
<1> QED BY <1>2, <1>3, <1>4, <1>5 DEF TypeOK, WorkTypeOK

LEMMA LoopType ==
  ASSUME TypeOK, LoopWorks
  PROVE  WorkTypeOK'
<1> USE ThreadFacts DEF kept, clocks, working
<1>1. ASSUME NEW f \in Lists, AppendLine(Loop, f) PROVE WorkTypeOK'
  <2>1. lines' \in [Lists -> Seq(Addrs)]
    <3>1. Append(lines[f], job[Loop].addr) \in Seq(Addrs)
      BY WorkTypes, AppendFacts DEF TypeOK
    <3> QED BY <1>1, <3>1, LinesType DEF AppendLine
  <2>2. mtime' \in Nat /\ harm' \in SUBSET Harms
    BY <1>1, ChangedType DEF AppendLine
  <2>3. /\ pc' \in [Threads -> Steps] /\ job' \in [Workers -> Works]
        /\ run' \in {"up", "asleep", "fooled"}
    <3>1. Added(Loop) \/ (Goto(Loop, <<"check", "map">>) /\ UNCHANGED <<job, run>>)
      BY <1>1 DEF AppendLine
    <3>2. <<"check", "map">> \in Steps
      BY StepFacts
    <3> QED BY <3>1, <3>2, AddedType, GotoType DEF TypeOK
  <2> QED BY <1>1, <2>1, <2>2, <2>3 DEF AppendLine, TypeOK, WorkTypeOK
<1>2. ASSUME CheckBlock(Loop) PROVE WorkTypeOK'
  <2>1. Added(Loop) \/ (Goto(Loop, <<"append", "map">>) /\ UNCHANGED <<job, run>>)
    BY <1>2 DEF CheckBlock
  <2>2. <<"append", "map">> \in Steps
    BY StepFacts DEF Lists
  <2>3. /\ pc' \in [Threads -> Steps] /\ job' \in [Workers -> Works]
        /\ run' \in {"up", "asleep", "fooled"}
    BY <2>1, <2>2, AddedType, GotoType DEF TypeOK
  <2> QED BY <1>2, <2>3 DEF CheckBlock, TypeOK, WorkTypeOK
<1>3. ASSUME ReplaceKeys PROVE WorkTypeOK'
  <2>1. pc' \in [Threads -> Steps]
    BY <1>3, GotoType, StepFacts DEF ReplaceKeys
  <2>2. ring[Loop] \cup {job[Loop].addr} \in SUBSET Addrs
    BY WorkTypes DEF TypeOK
  <2> QED BY <1>3, <2>1, <2>2 DEF ReplaceKeys, TypeOK, WorkTypeOK, Stores, Writing
<1>4. ASSUME RenameKeys PROVE WorkTypeOK'
  <2>1. pc' \in [Threads -> Steps]
    BY <1>4, GotoType, StepFacts DEF RenameKeys
  <2> QED BY <1>4, <2>1 DEF RenameKeys, TypeOK, WorkTypeOK, Stores, Writing, Met, Harms
<1>5. ASSUME NEW a \in Touched, SaveCache(a) PROVE WorkTypeOK'
  BY <1>5 DEF SaveCache, OneMore, Touched, TypeOK, WorkTypeOK
<1>6. ASSUME Look \/ Resume PROVE WorkTypeOK'
  BY <1>6 DEF Look, Resume, TypeOK, WorkTypeOK
<1>7. ASSUME NEW a \in Touched, \/ BeginRemove(Loop, a) \/ BeginForget(a)
                               \/ BeginAdd(a) \/ LoadKeys(a)
                               \/ \E old \in Touched : BeginRotate(a, old)
      PROVE  WorkTypeOK'
  BY <1>7, BeginsType DEF Touched
<1>8. ValidateKeys => WorkTypeOK'
  BY BeginsType, BystanderAssumption
<1> QED BY <1>1, <1>2, <1>3, <1>4, <1>5, <1>6, <1>7, <1>8 DEF LoopWorks, Lists

LEMMA ServesType ==
  ASSUME TypeOK, Serves
  PROVE  WorkTypeOK'
<1> USE ThreadFacts, StepFacts DEF kept, clocks, working
<1>1. ASSUME NEW t \in Removers, NEW a \in Touched, BeginRemove(t, a) PROVE WorkTypeOK'
  <2>1. t \in Workers /\ a \in Addrs /\ <<"read", "conf">> \in Steps
    BY DEF Workers, Touched, Lists
  <2>2. /\ pc' \in [Threads -> Steps] /\ job' \in [Workers -> Works] /\ jobs' \in Nat
    BY <1>1, <2>1, BeginType DEF BeginRemove
  <2> QED BY <1>1, <2>2 DEF BeginRemove, TypeOK, WorkTypeOK
<1>2. ASSUME NEW t \in Removers, ClearCache(t) \/ Answer(t) PROVE WorkTypeOK'
  <2>1. pc' \in [Threads -> Steps]
    BY <1>2, GotoType DEF ClearCache, Answer, Workers
  <2>2. cached' \in SUBSET (Addrs \X {"bare", "/P"})
    BY <1>2 DEF ClearCache, Answer, TypeOK
  <2> QED BY <1>2, <2>1, <2>2 DEF ClearCache, Answer, TypeOK, WorkTypeOK
<1>3. ASSUME NEW t \in Pollers, Stat(t) PROVE WorkTypeOK'
  <2>1. pc' \in [Threads -> Steps]
    BY <1>3, GotoType DEF Stat
  <2> QED BY <1>3, <2>1 DEF Stat, OneMore, TypeOK, WorkTypeOK
<1>4. ASSUME NEW t \in Pollers, Fetch(t) PROVE WorkTypeOK'
  <2>1. Goto(t, Idle) \/ Goto(t, <<"keep", "list">>)
    BY <1>4 DEF Fetch
  <2>2. pc' \in [Threads -> Steps]
    BY <2>1, GotoType
  <2>3. got' = got \/ got' = [got EXCEPT ![t] = lines["conf"]]
    BY <1>4 DEF Fetch
  <2>4. got' \in [Threads -> Seq(Addrs)]
    BY <2>3 DEF TypeOK, Lists
  <2> QED BY <1>4, <2>2, <2>4 DEF Fetch, TypeOK, WorkTypeOK
<1>5. ASSUME NEW t \in Pollers, Keep(t) PROVE WorkTypeOK'
  <2>1. pc' \in [Threads -> Steps]
    BY <1>5, GotoType DEF Keep
  <2>2. got[t] \in Seq(Addrs) /\ stat[t] \in Nat
    BY DEF TypeOK
  <2> QED BY <1>5, <2>1, <2>2 DEF Keep, TypeOK, WorkTypeOK
<1>6. ASSUME ClearAll PROVE WorkTypeOK'
  BY <1>6 DEF ClearAll, OneMore, TypeOK, WorkTypeOK
<1> QED BY <1>1, <1>2, <1>3, <1>4, <1>5, <1>6 DEF Serves

\* What main() adds to the mapper's config is what is not there of the list.
LEMMA UnregisteredFacts ==
  ASSUME TypeOK
  PROVE  /\ lines["conf"] \in Seq(Addrs) /\ lines["map"] \in Seq(Addrs)
         /\ Unregistered \in Seq(Addrs)
         /\ lines["map"] \o Unregistered \in Seq(Addrs)
         /\ \A b : Has(lines["map"], b) => Has(lines["map"] \o Unregistered, b)
<1>1. lines["conf"] \in Seq(Addrs) /\ lines["map"] \in Seq(Addrs)
  BY DEF TypeOK, Lists
<1>2. Unregistered \in Seq(Addrs)
  BY <1>1, KeptFacts DEF Unregistered
<1> QED BY <1>1, <1>2, ConcatFacts

LEMMA CrashType ==
  ASSUME TypeOK, Crash
  PROVE  TypeOK'
<1>1. lines' \in [Lists -> Seq(Addrs)]
  BY UnregisteredFacts, LinesType DEF Crash, Lists
<1>2. NoListing \in [of : Seq(Addrs), at : Nat, set : BOOLEAN]
  BY DEF NoListing
<1>3. pc' \in [Threads -> Steps] /\ jobs' \in Nat /\ run' = "up" /\ detached' = {}
  BY StepFacts DEF Crash, OneMore, TypeOK
<1>4. harm' \in SUBSET Harms /\ listing' = NoListing /\ meddled' = {}
  BY DEF Crash, Met, Harms, TypeOK
<1>5. UNCHANGED <<keys, cached, job, got, ring, now, mtime, stat>>
  BY DEF Crash
<1> QED BY <1>1, <1>2, <1>3, <1>4, <1>5 DEF TypeOK

\* The paired devices are listed once each, the bystander behind them.
LEMMA InitLists ==
  ASSUME NEW paired \in SUBSET Touched, NEW s \in SetToSeqs(paired)
  PROVE  /\ s \in Seq(Addrs) /\ s \o <<Bystander>> \in Seq(Addrs)
         /\ Has(s \o <<Bystander>>, Bystander) /\ ~Twice(s \o <<Bystander>>)
<1>1. IsFiniteSet(paired) /\ paired \subseteq Addrs /\ Bystander \notin paired
  BY AddrsAssumption, FS_Subset DEF Touched
<1>2. Cardinality(paired) \in Nat
  BY <1>1, FS_CardinalityType
<1>3. /\ s \in [1..Cardinality(paired) -> paired]
      /\ \A i, j \in 1..Cardinality(paired) : i # j => s[i] # s[j]
  BY DEF SetToSeqs
<1>4. s \in Seq(Addrs) /\ Len(s) = Cardinality(paired)
  <2>1. s \in [1..Cardinality(paired) -> Addrs]
    BY <1>1, <1>3
  <2> QED BY <1>2, <2>1
<1> DEFINE list == s \o <<Bystander>>
<1>5. /\ list \in Seq(Addrs) /\ Len(list) = Len(s) + 1 /\ list[Len(s) + 1] = Bystander
      /\ \A i \in 1..Len(s) : list[i] = s[i]
  BY <1>4, BystanderAssumption
<1>6. Has(list, Bystander)
  BY <1>2, <1>4, <1>5 DEF Has
<1>7. ASSUME NEW i \in 1..Len(list), NEW j \in 1..Len(list), i < j, list[i] = list[j]
      PROVE  FALSE
  <2>1. i \in 1..Len(s) /\ list[i] = s[i] /\ s[i] \in paired
    BY <1>2, <1>3, <1>4, <1>5, <1>7
  <2>2. CASE j = Len(s) + 1
    BY <1>1, <1>5, <1>7, <2>1, <2>2
  <2>3. CASE j # Len(s) + 1
    <3>1. j \in 1..Len(s) /\ list[j] = s[j]
      BY <1>2, <1>4, <1>5, <2>3
    <3> QED BY <1>3, <1>4, <1>7, <2>1, <3>1
  <2> QED BY <2>2, <2>3
<1> QED BY <1>4, <1>5, <1>6, <1>7 DEF Twice

LEMMA InitTypeOK == Init => TypeOK
<1> SUFFICES ASSUME Init PROVE TypeOK
  OBVIOUS
<1>1. PICK paired \in SUBSET Touched : \E s \in SetToSeqs(paired) :
        /\ lines = [f \in Lists |-> s \o <<Bystander>>]
        /\ keys = Whole(paired \cup {Bystander})
  BY DEF Init
<1>2. lines \in [Lists -> Seq(Addrs)]
  BY <1>1, InitLists
<1>3. keys \in Stores
  BY <1>1, BystanderAssumption DEF Touched, Stores
<1>4. [does |-> "check", addr |-> Bystander, old |-> Bystander] \in Works
  BY BystanderAssumption DEF Works
<1>5. NoListing \in [of : Seq(Addrs), at : Nat, set : BOOLEAN] /\ Idle \in Steps
  BY StepFacts DEF NoListing
<1> QED BY <1>2, <1>3, <1>4, <1>5, ThreadFacts DEF Init, TypeOK

LEMMA TypeStep == TypeOK /\ [Next]_vars => TypeOK'
<1> SUFFICES ASSUME TypeOK, [Next]_vars PROVE TypeOK'
  OBVIOUS
<1>1. ASSUME Meddling, WorkTypeOK' PROVE TypeOK'
  BY <1>1 DEF Meddling, WorkTypeOK, TypeOK
<1>2. CASE UNCHANGED vars
  BY <1>2 DEF TypeOK, vars, kept, working, clocks
<1>3. Tick => WorkTypeOK'
  BY DEF Tick, TypeOK, WorkTypeOK, kept, working, clocks
<1>4. ASSUME NEW t \in Workers, Rewrites(t) PROVE WorkTypeOK'
  BY <1>4, RewritesType DEF TypeOK, WorkTypeOK
<1> QED BY <1>1, <1>2, <1>3, <1>4, LoopType, ServesType, FailsType, CrashType DEF Next

\* Every list, keystore, step and history is what the code can make of it:
\* in particular what the rewriters write back are lists of addresses.
THEOREM TypesKept == Spec => []TypeOK
BY InitTypeOK, TypeStep, PTL DEF Spec

-----------------------------------------------------------------------------
(* A device nobody touches stays listed                                     *)

Bereft == harm \cap {"misread", "lost"} # {}
Holding == {"cut", "write"} \X Lists

\* What a rewriter has read, to be written back, has the bystander; a list
\* without it has a writer that will put it back.
ListedInv ==
  ~Bereft =>
    /\ \A f \in Lists : Has(lines[f], Bystander) \/ SomeoneAt(<<"write", f>>)
    /\ \A t \in Workers : pc[t] \in Holding => Has(got[t], Bystander)

\* No thread gets to hold a list or to have written it, and no line is lost.
ListsGrow ==
  /\ \A u \in Workers : got'[u] = got[u] /\ (pc'[u] = pc[u] \/ {pc[u], pc'[u]} \cap Holding = {})
  /\ \A f \in Lists : Has(lines[f], Bystander) => Has(lines'[f], Bystander)
  /\ harm \subseteq harm'

LEMMA StepsAway ==
  /\ {Idle, <<"check", "map">>, <<"clear", "cache">>, <<"answer", "none">>, <<"replace", "keys">>,
      <<"rename", "keys">>} \cap Holding = {}
  /\ \A what : <<what, "keys">> \notin Holding
  /\ \A f : <<"read", f>> \notin Holding /\ <<"append", f>> \notin Holding
  /\ \A t : AfterKeys(t) \notin Holding /\ Ending(t) \notin Holding
  /\ \A f \in Lists : <<"cut", f>> \in Holding /\ <<"write", f>> \in Holding
BY DEF Holding, Lists, Idle, AfterKeys, Ending

LEMMA ListedKept ==
  ASSUME ListedInv, ListsGrow
  PROVE  ListedInv'
<1>1. \A f \in Lists : SomeoneAt(<<"write", f>>) => SomeoneAt(<<"write", f>>)'
  <2>1. ASSUME NEW f \in Lists, NEW t \in Workers, pc[t] = <<"write", f>>
        PROVE  pc'[t] = <<"write", f>>
    BY <2>1, StepsAway DEF ListsGrow
  <2> QED BY <2>1 DEF SomeoneAt
<1>2. Bereft => Bereft'
  BY DEF ListsGrow, Bereft
<1> QED BY <1>1, <1>2 DEF ListsGrow, ListedInv

LEMMA GotoGrows ==
  ASSUME Shape, NEW t \in Workers, NEW step, Goto(t, step), {pc[t], step} \cap Holding = {},
         \A u \in Workers : got'[u] = got[u], harm \subseteq harm',
         \A f \in Lists : Has(lines[f], Bystander) => Has(lines'[f], Bystander)
  PROVE  ListsGrow
BY ThreadFacts DEF Shape, ListsGrow, Goto

LEMMA AddedGrows ==
  ASSUME Shape, NEW t \in Workers, Added(t), pc[t] \notin Holding,
         \A u \in Workers : got'[u] = got[u], harm \subseteq harm',
         \A f \in Lists : Has(lines[f], Bystander) => Has(lines'[f], Bystander)
  PROVE  ListsGrow
<1>1. \E step \in {Idle, <<"read", "conf">>} : Goto(t, step)
  BY DEF Added
<1> QED BY <1>1, GotoGrows, StepsAway

LEMMA ReadListed ==
  ASSUME Shape, ListedInv, NEW t \in Workers, NEW f \in Lists, ReadList(t, f)
  PROVE  ListedInv'
<1>1. pc[t] = <<"read", f>> /\ lines' = lines /\ harm \subseteq harm'
  BY DEF ReadList, At, Met, kept
<1>2. CASE Has(lines[f], job[t].addr)
  <2>1. /\ pc' = [pc EXCEPT ![t] = <<"cut", f>>] /\ got' = [got EXCEPT ![t] = lines[f]]
        /\ harm' = Met("misread", SomeoneAt(<<"write", f>>))
    BY <1>2 DEF ReadList, Goto
  <2>2. CASE Bereft'
    BY <2>2 DEF ListedInv
  <2>3. CASE ~Bereft'
    <3>1. ~Bereft /\ ~SomeoneAt(<<"write", f>>)
      BY <2>1, <2>3 DEF Bereft, Met
    <3>2. Has(lines[f], Bystander)
      BY <3>1 DEF ListedInv
    <3>3. \A u \in Workers \ {t} : pc'[u] = pc[u] /\ got'[u] = got[u]
      BY <2>1, ThreadFacts DEF Shape
    <3>4. got'[t] = lines[f]
      BY <2>1, ThreadFacts DEF Shape
    <3>5. \A g \in Lists : SomeoneAt(<<"write", g>>) => SomeoneAt(<<"write", g>>)'
      BY <1>1, <3>3 DEF SomeoneAt
    <3> QED BY <1>1, <3>1, <3>2, <3>3, <3>4, <3>5 DEF ListedInv
  <2> QED BY <2>2, <2>3
<1>3. CASE ~Has(lines[f], job[t].addr)
  <2>1. \E step \in {Idle, Ending(t)} : Goto(t, step)
    BY <1>3 DEF ReadList
  <2> QED BY <1>1, <1>3, <2>1, GotoGrows, ListedKept, StepsAway DEF ReadList
<1> QED BY <1>2, <1>3

LEMMA CutListed ==
  ASSUME Shape, ListedInv, NEW t \in Workers, NEW f \in Lists, CutList(t, f)
  PROVE  ListedInv'
<1>1. /\ pc[t] = <<"cut", f>> /\ pc' = [pc EXCEPT ![t] = <<"write", f>>] /\ got' = got
      /\ lines' = [lines EXCEPT ![f] = <<>>] /\ harm \subseteq harm'
  BY DEF CutList, At, Goto, Changed, Met
<1>2. \A u \in Workers \ {t} : pc'[u] = pc[u]
  BY <1>1, ThreadFacts DEF Shape
<1>3. pc'[t] = <<"write", f>>
  BY <1>1, ThreadFacts DEF Shape
<1>4. \A g \in Lists \ {f} : /\ lines'[g] = lines[g]
                             /\ SomeoneAt(<<"write", g>>) => SomeoneAt(<<"write", g>>)'
  BY <1>1, <1>2 DEF Shape, SomeoneAt
<1>5. SomeoneAt(<<"write", f>>)'
  BY <1>3 DEF SomeoneAt
<1>6. Bereft => Bereft'
  BY <1>1 DEF Bereft
<1> QED BY <1>1, <1>2, <1>3, <1>4, <1>5, <1>6, StepsAway DEF ListedInv

\* What a rewriter writes back has the bystander, whichever device it drops.
LEMMA WriteListed ==
  ASSUME TypeOK, Shape, JobsApart, ListedInv, NEW t \in Workers, NEW f \in Lists,
         WriteList(t, f)
  PROVE  ListedInv'
<1>1. /\ pc[t] = <<"write", f>> /\ got' = got /\ harm \subseteq harm'
      /\ \E step \in {<<"read", "keys">>, Ending(t)} : Goto(t, step)
  BY DEF WriteList, At, Changed, Met
<1>2. SUFFICES ASSUME ~Bereft PROVE ListedInv'
  BY <1>1 DEF Bereft, ListedInv
<1>3. Has(got[t], Bystander) /\ got[t] \in Seq(Addrs)
  BY <1>1, <1>2, StepsAway, ThreadFacts DEF ListedInv, TypeOK
<1>4. job[t].addr # Bystander
  BY <1>1 DEF JobsApart, Idle
<1>5. Has(Rest(t, f), Bystander) /\ Rest(t, f) \in Seq(Addrs)
  BY <1>3, <1>4, BystanderAssumption, KeptFacts, RemoveFirstFacts DEF Rest
<1>6. Rest(t, f) # <<>>
  BY <1>5 DEF Has
<1>7. lines' = [lines EXCEPT ![f] = Over(lines[f], Rest(t, f))]
  BY <1>6 DEF WriteList
<1>8. Has(lines'[f], Bystander)
  <2>1. lines[f] \in Seq(Addrs)
    BY DEF TypeOK
  <2>2. lines'[f] = Over(lines[f], Rest(t, f))
    BY <1>7 DEF Shape
  <2> QED BY <1>5, <2>1, <2>2, OverFacts
<1>9. \A u \in Workers \ {t} : pc'[u] = pc[u]
  BY <1>1, GotoMoves DEF OnlyMoves
<1>10. pc'[t] \notin Holding
  BY <1>1, GotoMoves, StepsAway
<1>11. \A g \in Lists \ {f} : /\ lines'[g] = lines[g]
                              /\ SomeoneAt(<<"write", g>>) => SomeoneAt(<<"write", g>>)'
  BY <1>1, <1>7, <1>9 DEF Shape, SomeoneAt
<1> QED BY <1>1, <1>2, <1>8, <1>9, <1>10, <1>11 DEF ListedInv

LEMMA RewritesStayListed ==
  ASSUME TypeOK, Shape, JobsApart, ListedInv, NEW t \in Workers, Rewrites(t)
  PROVE  ListedInv'
<1>1. ASSUME ReadKeys(t) \/ CutKeys(t) \/ WriteKeys(t) PROVE ListedInv'
  <2>1. /\ pc[t] \notin Holding /\ lines' = lines /\ got' = got
        /\ harm \subseteq harm'
    BY <1>1, StepsAway DEF ReadKeys, CutKeys, WriteKeys, At, Met, kept
  <2>2. \E step : Goto(t, step) /\ step \notin Holding
    BY <1>1, StepsAway DEF ReadKeys, CutKeys, WriteKeys
  <2> QED BY <2>1, <2>2, GotoGrows, ListedKept
<1> QED BY <1>1, ReadListed, CutListed, WriteListed DEF Rewrites

LEMMA FailsStayListed ==
  ASSUME Shape, ListedInv, NEW t \in Workers, Fails(t)
  PROVE  ListedInv'
<1>1. lines' = lines /\ got' = got /\ harm \subseteq harm'
  BY DEF Fails, kept, Met
<1>2. CASE Bereft'
  BY <1>2 DEF ListedInv
<1>3. CASE ~Bereft'
  <2>1. \A f \in Lists : pc[t] # <<"write", f>>
    <3>1. SUFFICES ASSUME NEW f \in Lists, pc[t] = <<"write", f>> PROVE FALSE
      OBVIOUS
    <3>2. harm' = Met("lost", TRUE)
      BY <3>1 DEF Fails, At
    <3> QED BY <1>3, <3>2 DEF Bereft, Met
  <2>2. \E step : Goto(t, step) /\ step \notin Holding
    BY StepsAway DEF Fails, Added, Lists
  <2>3. \A u \in Workers \ {t} : pc'[u] = pc[u]
    BY <2>2, GotoMoves DEF OnlyMoves
  <2>4. pc'[t] \notin Holding
    BY <2>2, GotoMoves
  <2>5. \A f \in Lists : SomeoneAt(<<"write", f>>) => SomeoneAt(<<"write", f>>)'
    BY <2>1, <2>3 DEF SomeoneAt
  <2>6. ~Bereft
    BY <1>1, <1>3 DEF Bereft
  <2> QED BY <1>1, <2>3, <2>4, <2>5, <2>6 DEF ListedInv
<1> QED BY <1>2, <1>3

LEMMA LoopStaysListed ==
  ASSUME TypeOK, Shape, ListedInv, LoopWorks
  PROVE  ListedInv'
<1> USE ThreadFacts, StepsAway DEF kept, clocks, working
<1>1. ASSUME NEW a \in Touched, BeginRemove(Loop, a) \/ BeginForget(a) \/ LoadKeys(a)
      PROVE  ListsGrow
  BY <1>1, GotoGrows DEF BeginRemove, BeginForget, LoadKeys, Begin, At
<1>2. ASSUME NEW a \in Touched, BeginAdd(a) PROVE ListsGrow
  BY <1>2, GotoGrows DEF BeginAdd, Begin, At
<1>3. ASSUME NEW a \in Touched, NEW old \in Touched, BeginRotate(a, old) PROVE ListsGrow
  BY <1>3, GotoGrows DEF BeginRotate, Begin, At
<1>4. ASSUME NEW f \in Lists, AppendLine(Loop, f) PROVE ListsGrow
  <2>1. pc[Loop] \notin Holding /\ got' = got /\ harm \subseteq harm'
    BY <1>4 DEF AppendLine, At, Changed, Met
  <2>2. \A g \in Lists : Has(lines[g], Bystander) => Has(lines'[g], Bystander)
    <3>1. lines' = [lines EXCEPT ![f] = Append(lines[f], job[Loop].addr)]
      BY <1>4 DEF AppendLine
    <3>2. lines[f] \in Seq(Addrs) /\ job[Loop].addr \in Addrs
      BY WorkTypes DEF TypeOK
    <3>3. Has(lines[f], Bystander) => Has(Append(lines[f], job[Loop].addr), Bystander)
      BY <3>2, AppendFacts
    <3> QED BY <3>1, <3>3 DEF Shape
  <2>3. Added(Loop) \/ Goto(Loop, <<"check", "map">>)
    BY <1>4 DEF AppendLine
  <2> QED BY <2>1, <2>2, <2>3, AddedGrows, GotoGrows
<1>5. ASSUME CheckBlock(Loop) PROVE ListsGrow
  <2>1. pc[Loop] \notin Holding /\ got' = got /\ lines' = lines /\ harm' = harm
    BY <1>5 DEF CheckBlock, At
  <2>2. Added(Loop) \/ Goto(Loop, <<"append", "map">>)
    BY <1>5 DEF CheckBlock
  <2> QED BY <2>1, <2>2, AddedGrows, GotoGrows
<1>6. ValidateKeys => ListsGrow
  BY GotoGrows DEF ValidateKeys, Begin, At
<1>7. ReplaceKeys \/ RenameKeys => ListsGrow
  BY GotoGrows DEF ReplaceKeys, RenameKeys, At, Met
<1>8. Look \/ Resume \/ (\E a \in Touched : SaveCache(a)) => ListsGrow
  BY DEF Look, Resume, SaveCache, ListsGrow
<1> QED
  BY <1>1, <1>2, <1>3, <1>4, <1>5, <1>6, <1>7, <1>8, ListedKept DEF LoopWorks, Lists

LEMMA ServesStaysListed ==
  ASSUME Shape, ListedInv, Serves
  PROVE  ListedInv'
<1> USE ThreadFacts, StepsAway DEF kept, clocks, working
<1>1. ASSUME NEW t \in Removers, NEW a \in Touched, BeginRemove(t, a) PROVE ListsGrow
  BY <1>1, GotoGrows DEF BeginRemove, Begin, At, Workers
<1>2. ASSUME NEW t \in Removers, ClearCache(t) \/ Answer(t) PROVE ListsGrow
  <2>1. t \in Workers /\ pc[t] \notin Holding /\ UNCHANGED <<lines, got, harm>>
    BY <1>2 DEF ClearCache, Answer, At, Workers
  <2>2. Goto(t, <<"answer", "none">>) \/ Goto(t, Idle)
    BY <1>2 DEF ClearCache, Answer
  <2> QED BY <2>1, <2>2, GotoGrows
<1>3. ASSUME NEW t \in Pollers, Stat(t) \/ Fetch(t) \/ Keep(t) PROVE ListsGrow
  <2>1. UNCHANGED <<lines, harm>> /\ \A u \in Workers : pc'[u] = pc[u] /\ got'[u] = got[u]
    BY <1>3 DEF Stat, Fetch, Keep, Goto, Shape
  <2> QED BY <2>1 DEF ListsGrow
<1>4. ClearAll => ListsGrow
  BY DEF ClearAll, ListsGrow
<1> QED BY <1>1, <1>2, <1>3, <1>4, ListedKept DEF Serves

LEMMA CrashStaysListed ==
  ASSUME TypeOK, ListedInv, Crash
  PROVE  ListedInv'
<1>1. /\ \A u \in Workers : pc'[u] = Idle
      /\ lines' = [lines EXCEPT !["map"] = lines["map"] \o Unregistered]
  BY ThreadFacts DEF Crash
<1>2. SUFFICES ASSUME ~Bereft' PROVE ListedInv'
  BY DEF ListedInv
<1>3. ~Bereft /\ \A f \in Lists : ~SomeoneAt(<<"write", f>>)
  BY <1>2 DEF Crash, Bereft, Met, SomeoneAt, At
<1>4. \A f \in Lists : Has(lines[f], Bystander)
  BY <1>3 DEF ListedInv
<1>5. \A f \in Lists : Has(lines'[f], Bystander)
  BY <1>1, <1>4, UnregisteredFacts DEF TypeOK, Lists
<1> QED BY <1>1, <1>5, StepsAway DEF ListedInv

LEMMA ListedStep == TypeOK /\ Shape /\ JobsApart /\ ListedInv /\ [Next]_vars => ListedInv'
<1>1. ListedInv /\ (UNCHANGED vars \/ Tick) => ListedInv'
  BY ListedKept DEF vars, Tick, kept, working, ListsGrow
<1> QED
  BY <1>1, RewritesStayListed, FailsStayListed, LoopStaysListed, ServesStaysListed,
     CrashStaysListed DEF Next

\* A device that no request, report or pairing is about keeps its line and its
\* block through any overlap of rewrites, unless one of them took a truncated
\* list for the list or a write was cut off (config.py:289-304,
\* button_mapper.py:83-110).
THEOREM BystanderStays == Spec => []BystanderListed
<1>1. Init => TypeOK /\ Shape /\ JobsApart /\ ListedInv
  <2>1. Init => JobsApart
    BY ThreadFacts DEF Init, JobsApart
  <2>2. Init => \A f \in Lists : Has(lines[f], Bystander)
    BY InitLists DEF Init
  <2>3. Init => ListedInv
    BY <2>2, ThreadFacts, StepsAway DEF Init, ListedInv
  <2> QED BY <2>1, <2>3, ShapeInit, InitTypeOK
<1>2. TypeOK /\ Shape /\ JobsApart /\ ListedInv /\ [Next]_vars
        => (TypeOK /\ Shape /\ JobsApart /\ ListedInv)'
  BY TypeStep, ShapeStep, ApartStep, ListedStep
<1>3. ListedInv => BystanderListed
  BY DEF ListedInv, BystanderListed, Bereft
<1> QED BY <1>1, <1>2, <1>3, PTL DEF Spec

-----------------------------------------------------------------------------
(* What a removal leaves                                                    *)

\* Until a device has two lines, the first line of it is all there is.
Doubled == "double" \in harm
OnceInv == ~Doubled => ~Twice(lines["conf"])

OnceGoes ==
  /\ harm \subseteq harm'
  /\ lines'["conf"] = lines["conf"] \/ Met("double", Twice(lines'["conf"])) \subseteq harm'

LEMMA OnceKept == OnceInv /\ OnceGoes => OnceInv'
BY DEF OnceInv, OnceGoes, Doubled, Met

LEMMA ChangedGoes ==
  ASSUME Shape, NEW f \in Lists, NEW new, lines' = [lines EXCEPT ![f] = new], Changed(f)
  PROVE  OnceGoes
<1>1. CASE f = "conf"
  BY <1>1 DEF Changed, Met, OnceGoes
<1>2. CASE f # "conf"
  BY <1>2 DEF Shape, Lists, Changed, OnceGoes
<1> QED BY <1>1, <1>2

LEMMA OnceStep == Shape /\ OnceInv /\ [Next]_vars => OnceInv'
<1> SUFFICES ASSUME Shape, [Next]_vars PROVE OnceGoes
  BY OnceKept
<1> USE DEF kept, clocks, working
<1>1. CASE UNCHANGED vars \/ Tick
  BY <1>1 DEF vars, Tick, OnceGoes
<1>2. ASSUME NEW t \in Workers, NEW f \in Lists, ReadList(t, f) PROVE OnceGoes
  BY <1>2 DEF ReadList, OnceGoes, Met
<1>3. ASSUME NEW t \in Workers, NEW f \in Lists, CutList(t, f) PROVE OnceGoes
  BY <1>3, ChangedGoes DEF CutList
<1>4. ASSUME NEW t \in Workers, NEW f \in Lists, WriteList(t, f) PROVE OnceGoes
  <2>1. CASE Rest(t, f) = <<>>
    BY <1>4, <2>1 DEF WriteList, OnceGoes
  <2>2. CASE Rest(t, f) # <<>>
    BY <1>4, <2>2, ChangedGoes DEF WriteList
  <2> QED BY <2>1, <2>2
<1>5. ASSUME NEW t \in Workers, ReadKeys(t) \/ CutKeys(t) \/ WriteKeys(t) PROVE OnceGoes
  BY <1>5 DEF ReadKeys, CutKeys, WriteKeys, OnceGoes, Met
<1>6. ASSUME NEW f \in Lists, AppendLine(Loop, f) PROVE OnceGoes
  BY <1>6, ChangedGoes DEF AppendLine
<1>7. ASSUME LoopWorks, \A f \in Lists : ~AppendLine(Loop, f) PROVE OnceGoes
  <2>1. harm \subseteq harm' /\ lines' = lines
    BY <1>7 DEF LoopWorks, Lists, BeginRemove, BeginForget, BeginAdd, LoadKeys, SaveCache,
                BeginRotate, CheckBlock, ReplaceKeys, ValidateKeys, RenameKeys, Look, Resume, Met
  <2> QED BY <2>1 DEF OnceGoes
<1>8. ASSUME Serves PROVE OnceGoes
  BY <1>8 DEF Serves, BeginRemove, ClearCache, Answer, Stat, Fetch, Keep, ClearAll, OnceGoes
<1>9. ASSUME NEW t \in Workers, Fails(t) PROVE OnceGoes
  BY <1>9 DEF Fails, OnceGoes, Met
<1>10. ASSUME Crash PROVE OnceGoes
  BY <1>10 DEF Crash, OnceGoes, Met, Shape, Lists
<1> QED
  BY <1>1, <1>2, <1>3, <1>4, <1>5, <1>6, <1>7, <1>8, <1>9, <1>10 DEF Next, Rewrites

\* The steps of a removal, in their order, from one of them on.
FromKeys  == {<<"read", "keys">>, <<"cut", "keys">>, <<"write", "keys">>}
FromMap   == {<<"read", "map">>, <<"cut", "map">>, <<"write", "map">>}
FromCache == {<<"clear", "cache">>, <<"answer", "none">>}
Removing  == {<<"read", "conf">>, <<"cut", "conf">>, <<"write", "conf">>}
             \cup FromKeys \cup FromMap \cup FromCache

RemoverInv ==
  \A t \in Removers : pc[t] # Idle => pc[t] \in Removing /\ job[t].does = "remove"

\* How far a removal that nobody meddled with has come: what it has read is
\* the list, what it has cut is still cut, and what it has dropped is gone.
Done(t) ==
  /\ pc[t] = <<"cut", "conf">> => got[t] = lines["conf"]
  /\ pc[t] = <<"write", "conf">> => lines["conf"] = <<>> /\ (~Doubled => ~Twice(got[t]))
  /\ pc[t] \in FromKeys \cup FromMap \cup FromCache =>
       (~Doubled => ~Has(lines["conf"], job[t].addr))
  /\ pc[t] = <<"write", "keys">> => keys = Cut /\ t \notin detached
  /\ pc[t] \in FromMap \cup FromCache => job[t].addr \notin keys.of
  /\ pc[t] = <<"write", "map">> => lines["map"] = <<>>
  /\ pc[t] \in FromCache => ~Has(lines["map"], job[t].addr)
  /\ pc[t] = <<"answer", "none">> => <<job[t].addr, "bare">> \notin cached

DoneInv == \A t \in Removers \ meddled : Done(t)

\* A step of u leaves the other workers alone; a keystore that is replaced
\* under an open one is not a truncated one.
Alone(u) ==
  /\ \A t \in Workers \ {u} : pc'[t] = pc[t] /\ got'[t] = got[t] /\ job'[t] = job[t]
  /\ detached' \subseteq detached \/ keys' # Cut
  /\ harm \subseteq harm'

\* Undisturbed, a removal is as far as it was.
LEMMA DoneKept ==
  ASSUME NEW t, Done(t), pc'[t] = pc[t], got'[t] = got[t], job'[t] = job[t],
         pc[t] = Idle \/ kept' = kept, detached' \subseteq detached \/ keys' # Cut,
         harm \subseteq harm'
  PROVE  Done(t)'
<1>1. Idle \notin Removing
  BY DEF Idle, Removing, FromKeys, FromMap, FromCache
<1>2. CASE pc[t] = Idle
  BY <1>1, <1>2 DEF Done, Removing, FromKeys, FromMap, FromCache
<1>3. CASE kept' = kept
  <2>1. lines' = lines /\ keys' = keys /\ cached' = cached /\ (Doubled => Doubled')
    BY <1>3 DEF kept, Doubled
  <2> QED BY <2>1 DEF Done
<1> QED BY <1>2, <1>3

LEMMA OthersDone ==
  ASSUME DoneInv, NEW u \in Workers, Alone(u), Meddling, NEW t \in Removers \ {u}, t \notin meddled'
  PROVE  Done(t)'
<1>1. t \in Workers /\ pc'[t] = pc[t]
  BY DEF Workers, Alone
<1>2. pc[t] = Idle \/ (kept' = kept /\ t \notin meddled)
  BY <1>1 DEF Meddling
<1>3. CASE pc[t] = Idle
  BY <1>1, <1>3 DEF Done, Idle, FromKeys, FromMap, FromCache
<1>4. CASE pc[t] # Idle
  BY <1>1, <1>2, <1>4, DoneKept DEF Alone, DoneInv
<1> QED BY <1>3, <1>4

LEMMA RewritesAlone ==
  ASSUME Shape, NEW t \in Workers, Rewrites(t)
  PROVE  Alone(t)
<1>1. /\ job' = job /\ detached' \subseteq detached /\ harm \subseteq harm'
      /\ \E step : Goto(t, step)
  BY DEF Rewrites, ReadList, CutList, WriteList, ReadKeys, CutKeys, WriteKeys, Changed, Met
<1>2. got' = got \/ \E new : got' = [got EXCEPT ![t] = new]
  BY DEF Rewrites, ReadList, CutList, WriteList, ReadKeys, CutKeys, WriteKeys
<1>3. \A u \in Workers \ {t} : got'[u] = got[u]
  BY <1>2, ThreadFacts DEF Shape
<1> QED BY <1>1, <1>3, GotoMoves DEF Alone, OnlyMoves

LEMMA AddedAlone ==
  ASSUME Shape, NEW t \in Workers, Added(t), got' = got, detached' = detached, harm \subseteq harm'
  PROVE  Alone(t)
<1>1. \A u \in Workers \ {t} : job'[u] = job[u]
  BY DEF Added, Shape
<1> QED BY <1>1, GotoMoves DEF Added, Alone, OnlyMoves

LEMMA BeginAlone ==
  ASSUME Shape, NEW t \in Workers, NEW what, NEW a, NEW o, NEW step,
         Begin(t, what, a, o, step), UNCHANGED <<got, detached, harm>>
  PROVE  Alone(t)
<1>1. \A u \in Workers \ {t} : job'[u] = job[u]
  BY DEF Begin, Shape
<1> QED BY <1>1, GotoMoves DEF Begin, Alone, OnlyMoves

LEMMA LoopAlone ==
  ASSUME Shape, LoopWorks
  PROVE  Alone(Loop)
<1> USE ThreadFacts, GotoMoves DEF kept, clocks, working
<1>1. ASSUME NEW a \in Touched,
             BeginRemove(Loop, a) \/ BeginForget(a) \/ BeginAdd(a) \/ LoadKeys(a)
      PROVE  Alone(Loop)
  BY <1>1, BeginAlone DEF BeginRemove, BeginForget, BeginAdd, LoadKeys
<1>2. ASSUME NEW a \in Touched, NEW old \in Touched, BeginRotate(a, old) PROVE Alone(Loop)
  BY <1>2, BeginAlone DEF BeginRotate
<1>3. ValidateKeys => Alone(Loop)
  BY BeginAlone DEF ValidateKeys
<1>4. ASSUME NEW f \in Lists, AppendLine(Loop, f) \/ CheckBlock(Loop) PROVE Alone(Loop)
  <2>1. got' = got /\ detached' = detached /\ harm \subseteq harm'
    BY <1>4 DEF AppendLine, CheckBlock, Changed, Met
  <2>2. Added(Loop) \/ ((\E step : Goto(Loop, step)) /\ job' = job)
    BY <1>4 DEF AppendLine, CheckBlock
  <2> QED BY <2>1, <2>2, AddedAlone DEF Alone, OnlyMoves
<1>5. ReplaceKeys \/ RenameKeys => Alone(Loop)
  BY DEF ReplaceKeys, RenameKeys, Whole, Cut, Met, Alone, OnlyMoves
<1>6. Look \/ Resume \/ (\E a \in Touched : SaveCache(a)) => Alone(Loop)
  BY DEF Look, Resume, SaveCache, Alone
<1> QED BY <1>1, <1>2, <1>3, <1>4, <1>5, <1>6 DEF LoopWorks, Lists

WorkersStill ==
  /\ \A t \in Workers : pc'[t] = pc[t] /\ got'[t] = got[t] /\ job'[t] = job[t]
  /\ Alone(Loop)

\* Pollers, the clock and /clear-cache are at nobody's job.
LEMMA ServesAlone ==
  ASSUME Shape, Serves \/ Tick
  PROVE  \/ WorkersStill
         \/ \E t \in Removers :
              Alone(t) /\ ((\E a \in Touched : BeginRemove(t, a)) \/ ClearCache(t) \/ Answer(t))
<1> USE ThreadFacts DEF kept, clocks, working
<1>1. ASSUME NEW t \in Removers, NEW a \in Touched, BeginRemove(t, a) PROVE Alone(t)
  BY <1>1, BeginAlone DEF BeginRemove, Workers
<1>2. ASSUME NEW t \in Removers, ClearCache(t) \/ Answer(t) PROVE Alone(t)
  <2>1. t \in Workers /\ UNCHANGED <<job, got, detached, harm>>
    BY <1>2 DEF ClearCache, Answer, Workers
  <2>2. \E step : Goto(t, step)
    BY <1>2 DEF ClearCache, Answer
  <2> QED BY <2>1, <2>2, GotoMoves DEF Alone, OnlyMoves
<1>3. ASSUME NEW t \in Pollers, Stat(t) \/ Fetch(t) \/ Keep(t) PROVE WorkersStill
  <2>1. /\ UNCHANGED <<job, detached, harm>>
        /\ \A u \in Workers : pc'[u] = pc[u] /\ got'[u] = got[u]
    BY <1>3 DEF Stat, Fetch, Keep, Goto, Shape
  <2> QED BY <2>1 DEF WorkersStill, Alone
<1>4. ClearAll \/ Tick => WorkersStill
  BY DEF ClearAll, Tick, WorkersStill, Alone
<1> QED BY <1>1, <1>2, <1>3, <1>4 DEF Serves

RemoverAt(t) == pc[t] # Idle => pc[t] \in Removing /\ job[t].does = "remove"

LEMMA RemoverFacts ==
  ASSUME NEW t \in Removers
  PROVE  t \in Workers /\ t # Loop /\ Ending(t) = <<"clear", "cache">>
BY ThreadAssumption DEF Workers, Loop, Ending

\* Of a thread that serves /remove, the steps are those of a removal.
LEMMA OwnRemoves ==
  ASSUME Shape, RemoverInv, NEW t \in Removers,
         \/ Rewrites(t) \/ Fails(t) \/ ClearCache(t) \/ Answer(t)
         \/ \E a \in Touched : BeginRemove(t, a)
  PROVE  RemoverAt(t)'
<1> USE RemoverFacts
<1> USE DEF Removing, FromKeys, FromMap, FromCache
<1>1. ASSUME NEW a \in Touched, BeginRemove(t, a) PROVE RemoverAt(t)'
  BY <1>1, GotoMoves DEF BeginRemove, Begin, Shape, RemoverAt
<1>2. CASE ClearCache(t) \/ Answer(t)
  <2>1. job' = job /\ pc[t] \in FromCache
    BY <1>2 DEF ClearCache, Answer, At
  <2>2. Goto(t, <<"answer", "none">>) \/ Goto(t, Idle)
    BY <1>2 DEF ClearCache, Answer
  <2>3. pc'[t] \in {<<"answer", "none">>, Idle}
    BY <2>2, GotoMoves
  <2> QED BY <2>1, <2>3 DEF RemoverInv, RemoverAt, Idle
<1>3. CASE Rewrites(t)
  <2>1. pc[t] \in Removing \ FromCache /\ job' = job
    BY <1>3 DEF Rewrites, ReadList, CutList, WriteList, ReadKeys, CutKeys, WriteKeys, At,
                kept, Lists
  <2>2. job[t].does = "remove"
    BY <2>1 DEF RemoverInv, Idle
  <2>3. \E step \in Removing \cup {Idle} : Goto(t, step)
    BY <1>3, <2>2 DEF Rewrites, ReadList, CutList, WriteList, ReadKeys, CutKeys, WriteKeys,
                      AfterKeys, Lists
  <2>4. pc'[t] \in Removing \cup {Idle}
    BY <2>3, GotoMoves
  <2> QED BY <2>1, <2>2, <2>4 DEF RemoverAt
<1>4. CASE Fails(t)
  <2>0. \E what \in {"append", "cut", "write"}, f \in Lists \cup {"keys"} : pc[t] = <<what, f>>
    BY <1>4 DEF Fails, At
  <2>1. pc[t] # Idle
    BY <2>0 DEF Idle
  <2>2. job[t].does = "remove" /\ pc[t] \in Removing
    BY <2>1 DEF RemoverInv
  <2>3. job' = job /\ \E step \in Removing \cup {Idle} : Goto(t, step)
    <3>1. \A f : pc[t] # <<"append", f>>
      BY <2>2
    <3>2. AfterKeys(t) \in Removing /\ Ending(t) \in Removing
      BY <2>2 DEF AfterKeys
    <3>3. job' = job /\ \E f \in Lists \cup {"keys"} :
            Goto(t, CASE f = "conf" -> Idle
                      [] f = "keys" -> AfterKeys(t)
                      [] f = "map"  -> Ending(t))
      BY <1>4, <3>1 DEF Fails, At
    <3>4. job' = job /\ \E step \in {Idle, AfterKeys(t), Ending(t)} : Goto(t, step)
      BY <3>3 DEF Lists
    <3> QED BY <3>2, <3>4
  <2>4. pc'[t] \in Removing \cup {Idle}
    BY <2>3, GotoMoves
  <2> QED BY <2>2, <2>3, <2>4 DEF RemoverAt
<1> QED BY <1>1, <1>2, <1>3, <1>4

LEMMA FailsAlone ==
  ASSUME Shape, NEW t \in Workers, Fails(t)
  PROVE  Alone(t)
<1>1. got' = got /\ detached' = detached /\ harm \subseteq harm'
  BY DEF Fails, Met
<1>2. Added(t) \/ ((\E step : Goto(t, step)) /\ job' = job)
  BY DEF Fails
<1> QED BY <1>1, <1>2, AddedAlone, GotoMoves DEF Alone, OnlyMoves

LEMMA RemoverStep == Shape /\ RemoverInv /\ [Next]_vars => RemoverInv'
<1> SUFFICES ASSUME Shape, RemoverInv, [Next]_vars PROVE RemoverInv'
  OBVIOUS
<1> USE RemoverFacts
<1>1. CASE UNCHANGED vars
  BY <1>1 DEF vars, working, RemoverInv
<1>2. CASE Crash
  BY <1>2, ThreadFacts DEF Crash, RemoverInv
<1>3. ASSUME WorkersStill PROVE RemoverInv'
  BY <1>3 DEF WorkersStill, RemoverInv
<1>4. ASSUME NEW u \in Workers, Alone(u), u \in Removers => RemoverAt(u)' PROVE RemoverInv'
  BY <1>4 DEF RemoverInv, RemoverAt, Alone
<1>5. ASSUME NEW u \in Workers, Rewrites(u) \/ Fails(u) PROVE RemoverInv'
  BY <1>4, <1>5, RewritesAlone, FailsAlone, OwnRemoves
<1>6. LoopWorks => RemoverInv'
  BY <1>4, LoopAlone, ThreadFacts
<1>7. Serves \/ Tick => RemoverInv'
  BY <1>3, <1>4, ServesAlone, OwnRemoves
<1> QED BY <1>1, <1>2, <1>5, <1>6, <1>7 DEF Next

LEMMA StepsOfRemoval ==
  /\ FromKeys \cap FromMap = {} /\ FromKeys \cap FromCache = {} /\ FromMap \cap FromCache = {}
  /\ <<"write", "keys">> \in FromKeys /\ <<"write", "map">> \in FromMap
  /\ <<"answer", "none">> \in FromCache
  /\ {Idle, <<"read", "conf">>, <<"cut", "conf">>, <<"write", "conf">>}
       \cap (FromKeys \cup FromMap \cup FromCache) = {}
BY DEF FromKeys, FromMap, FromCache, Idle

\* remove_device(), the list: what is written back is the list without the
\* only line of the device.
LEMMA ConfDone ==
  ASSUME TypeOK, Shape, OnceInv, NEW t \in Removers, Done(t),
         ReadList(t, "conf") \/ CutList(t, "conf") \/ WriteList(t, "conf")
  PROVE  Done(t)'
<1> USE RemoverFacts, StepsOfRemoval
<1>0. "conf" \in Lists /\ job' = job
  BY DEF Lists, ReadList, CutList, WriteList, kept
<1>1. CASE ReadList(t, "conf")
  <2>1. /\ lines' = lines /\ pc'[t] \in {Idle, <<"cut", "conf">>}
        /\ pc'[t] = <<"cut", "conf">> => got' = [got EXCEPT ![t] = lines["conf"]]
    <3>1. CASE Has(lines["conf"], job[t].addr)
      BY <1>1, <3>1, GotoMoves DEF ReadList, kept
    <3>2. CASE ~Has(lines["conf"], job[t].addr)
      BY <1>1, <3>2, GotoMoves DEF ReadList, kept, Idle
    <3> QED BY <3>1, <3>2
  <2> QED BY <2>1, ThreadFacts DEF Done, Shape, Idle
<1>2. CASE CutList(t, "conf")
  <2>1. /\ pc[t] = <<"cut", "conf">> /\ pc'[t] = <<"write", "conf">> /\ got' = got
        /\ lines'["conf"] = <<>>
    BY <1>0, <1>2, GotoMoves DEF CutList, At, Shape
  <2>2. Doubled => Doubled'
    BY <1>2 DEF CutList, Changed, Met, Doubled
  <2>3. ~Doubled' => ~Twice(got'[t])
    BY <2>1, <2>2 DEF OnceInv, Done
  <2> QED BY <2>1, <2>3 DEF Done
<1>3. CASE WriteList(t, "conf")
  <2> DEFINE rest == RemoveFirst(got[t], job[t].addr)
  <2>1. /\ pc[t] = <<"write", "conf">> /\ pc'[t] = <<"read", "keys">>
        /\ Rest(t, "conf") = rest
    BY <1>3, GotoMoves DEF WriteList, At, Rest
  <2>2. lines["conf"] = <<>> /\ (~Doubled => ~Twice(got[t]))
    BY <2>1 DEF Done
  <2>3. got[t] \in Seq(Addrs) /\ lines["conf"] \in Seq(Addrs)
    BY <1>0, ThreadFacts DEF TypeOK
  <2>4. rest \in Seq(Addrs) /\ (~Doubled => ~Has(rest, job[t].addr))
    BY <2>2, <2>3, RemoveFirstFacts
  <2>5. lines'["conf"] = rest
    <3>1. CASE rest = <<>>
      BY <1>3, <2>1, <2>2, <3>1 DEF WriteList
    <3>2. CASE rest # <<>>
      <4>1. lines' = [lines EXCEPT !["conf"] = Over(lines["conf"], rest)]
        BY <1>3, <2>1, <3>2 DEF WriteList
      <4>2. Over(lines["conf"], rest) = rest
        BY <2>2, <2>3, <2>4, OverFacts
      <4> QED BY <1>0, <4>1, <4>2 DEF Shape
    <3> QED BY <3>1, <3>2
  <2>6. Doubled => Doubled'
    BY <1>3 DEF WriteList, Changed, Met, Doubled
  <2> HIDE DEF rest
  <2>7. pc'[t] \notin FromMap \cup FromCache \cup {<<"write", "keys">>}
    BY <2>1 DEF FromMap, FromCache
  <2> QED BY <1>0, <2>1, <2>4, <2>5, <2>6, <2>7 DEF Done
<1> QED BY <1>1, <1>2, <1>3

\* remove_pairing_key(): a keystore with the key is read, truncated and
\* written back without it; one that does not parse has no key.
LEMMA KeysDone ==
  ASSUME TypeOK, Shape, RemoverInv, NEW t \in Removers, Done(t),
         ReadKeys(t) \/ CutKeys(t) \/ WriteKeys(t)
  PROVE  Done(t)'
<1> USE RemoverFacts, StepsOfRemoval
<1>1. /\ pc[t] \in FromKeys /\ job' = job /\ lines' = lines /\ (Doubled => Doubled')
  BY DEF ReadKeys, CutKeys, WriteKeys, At, FromKeys, kept, Met, Doubled
<1>2. AfterKeys(t) = <<"read", "map">>
  BY <1>1 DEF RemoverInv, AfterKeys
<1>3. ~Doubled' => ~Has(lines'["conf"], job'[t].addr)
  BY <1>1 DEF Done
<1>4. CASE ReadKeys(t)
  <2>1. keys' = keys
    BY <1>4 DEF ReadKeys, kept
  <2>2. CASE Sound /\ job[t].addr \in keys.of
    <3>1. pc'[t] = <<"cut", "keys">>
      BY <1>4, <2>2, GotoMoves DEF ReadKeys
    <3>2. pc'[t] \in FromKeys
      BY <3>1 DEF FromKeys
    <3> QED BY <1>3, <3>1, <3>2 DEF Done
  <2>3. CASE ~(Sound /\ job[t].addr \in keys.of)
    <3>1. pc'[t] = <<"read", "map">>
      BY <1>2, <1>4, <2>3, GotoMoves DEF ReadKeys
    <3>2. job[t].addr \notin keys.of
      BY <2>3 DEF TypeOK, Stores, Whole, Cut, Mixed, Sound
    <3>3. pc'[t] \in FromMap
      BY <3>1 DEF FromMap
    <3> QED BY <1>1, <1>3, <2>1, <3>1, <3>2, <3>3 DEF Done
  <2> QED BY <2>2, <2>3
<1>5. CASE CutKeys(t)
  <2>1. pc'[t] = <<"write", "keys">> /\ keys' = Cut /\ t \notin detached'
    BY <1>5, GotoMoves DEF CutKeys
  <2> QED BY <1>3, <2>1 DEF Done
<1>6. CASE WriteKeys(t)
  <2>1. pc'[t] = <<"read", "map">> /\ pc[t] = <<"write", "keys">>
    BY <1>2, <1>6, GotoMoves DEF WriteKeys, At
  <2>2. keys' = Whole(ring[t] \ {job[t].addr})
    BY <1>6, <2>1 DEF WriteKeys, OverKeys, Done
  <2>3. job'[t].addr \notin keys'.of
    BY <1>1, <2>2 DEF Whole
  <2>4. pc'[t] \in FromMap
    BY <2>1 DEF FromMap
  <2> QED BY <1>3, <2>1, <2>3, <2>4 DEF Done
<1> QED BY <1>4, <1>5, <1>6

\* unregister_device(): every block of the device is dropped.
LEMMA MapDone ==
  ASSUME TypeOK, Shape, NEW t \in Removers, Done(t),
         ReadList(t, "map") \/ CutList(t, "map") \/ WriteList(t, "map")
  PROVE  Done(t)'
<1> USE RemoverFacts, StepsOfRemoval
<1>1. "map" \in Lists /\ "map" # "conf"
  BY DEF Lists
<1>2. /\ pc[t] \in FromMap /\ job' = job /\ keys' = keys /\ cached' = cached
      /\ (Doubled => Doubled')
  BY DEF ReadList, CutList, WriteList, At, FromMap, kept, Changed, Met, Doubled
<1>3. lines'["conf"] = lines["conf"]
  <2>1. lines' = lines \/ \E new : lines' = [lines EXCEPT !["map"] = new]
    BY DEF ReadList, CutList, WriteList, kept
  <2> QED BY <1>1, <2>1 DEF Shape, Lists
<1>4. /\ ~Doubled' => ~Has(lines'["conf"], job'[t].addr)
      /\ job'[t].addr \notin keys'.of
  BY <1>2, <1>3 DEF Done
<1>5. CASE ReadList(t, "map")
  <2>1. CASE Has(lines["map"], job[t].addr)
    <3>1. pc'[t] = <<"cut", "map">>
      BY <1>1, <1>5, <2>1, GotoMoves DEF ReadList
    <3>2. pc'[t] \in FromMap
      BY <3>1 DEF FromMap
    <3> QED BY <1>4, <3>1, <3>2 DEF Done
  <2>2. CASE ~Has(lines["map"], job[t].addr)
    <3>1. pc'[t] = <<"clear", "cache">> /\ lines' = lines
      BY <1>1, <1>5, <2>2, GotoMoves DEF ReadList, kept
    <3>2. pc'[t] \in FromCache
      BY <3>1 DEF FromCache
    <3> QED BY <1>2, <1>4, <2>2, <3>1, <3>2 DEF Done
  <2> QED BY <2>1, <2>2
<1>6. CASE CutList(t, "map")
  <2>1. pc'[t] = <<"write", "map">> /\ lines'["map"] = <<>>
    BY <1>1, <1>6, GotoMoves DEF CutList, Shape
  <2> QED BY <1>4, <2>1 DEF Done
<1>7. CASE WriteList(t, "map")
  <2> DEFINE rest == Kept(got[t], Addrs \ {job[t].addr})
  <2>1. /\ pc[t] = <<"write", "map">> /\ pc'[t] = <<"clear", "cache">> /\ Rest(t, "map") = rest
    BY <1>1, <1>7, GotoMoves DEF WriteList, At, Rest
  <2>2. lines["map"] = <<>> /\ got[t] \in Seq(Addrs) /\ lines["map"] \in Seq(Addrs)
    BY <1>1, <2>1, ThreadFacts DEF Done, TypeOK
  <2>3. rest \in Seq(Addrs) /\ ~Has(rest, job[t].addr)
    BY <2>2, KeptFacts
  <2> HIDE DEF rest
  <2>4. lines'["map"] = rest
    <3>1. CASE rest = <<>>
      BY <1>7, <2>1, <2>2, <3>1 DEF WriteList
    <3>2. CASE rest # <<>>
      <4>1. lines' = [lines EXCEPT !["map"] = Over(lines["map"], rest)]
        BY <1>7, <2>1, <3>2 DEF WriteList
      <4>2. Over(lines["map"], rest) = rest
        BY <2>2, <2>3, OverFacts
      <4> QED BY <1>1, <4>1, <4>2 DEF Shape
    <3> QED BY <3>1, <3>2
  <2>5. pc'[t] \in FromCache
    BY <2>1 DEF FromCache
  <2> QED BY <1>2, <1>4, <2>1, <2>3, <2>4, <2>5 DEF Done
<1> QED BY <1>5, <1>6, <1>7

LEMMA CacheDone ==
  ASSUME Shape, NEW t \in Removers, Done(t), ClearCache(t) \/ Answer(t)
  PROVE  Done(t)'
<1> USE RemoverFacts, StepsOfRemoval
<1>1. CASE ClearCache(t)
  <2>1. /\ pc[t] = <<"clear", "cache">> /\ pc'[t] = <<"answer", "none">>
        /\ cached' = cached \ {<<job[t].addr, "bare">>} /\ UNCHANGED <<lines, keys, job, harm>>
    BY <1>1, GotoMoves DEF ClearCache, At
  <2>2. {pc[t], pc'[t]} \subseteq FromCache /\ (Doubled => Doubled')
    BY <2>1 DEF FromCache, Doubled
  <2> QED BY <2>1, <2>2 DEF Done
<1>2. CASE Answer(t)
  <2>1. pc'[t] = Idle
    BY <1>2, GotoMoves DEF Answer
  <2> QED BY <2>1 DEF Done, Idle
<1> QED BY <1>1, <1>2

\* A thread that is not meddled with after a step was not before it, or is at
\* the start of its removal.
LEMMA OwnDone ==
  ASSUME TypeOK, Shape, OnceInv, RemoverInv, DoneInv, Meddling, NEW t \in Removers,
         t \notin meddled',
         \/ Rewrites(t) \/ ClearCache(t) \/ Answer(t)
         \/ \E a \in Touched : BeginRemove(t, a)
  PROVE  Done(t)'
<1> USE RemoverFacts, StepsOfRemoval
<1>1. CASE pc'[t] = Idle
  BY <1>1 DEF Done, Idle
<1>2. CASE pc'[t] # Idle /\ \E a \in Touched : BeginRemove(t, a)
  <2>1. pc'[t] = <<"read", "conf">>
    BY <1>2, GotoMoves DEF BeginRemove, Begin
  <2> QED BY <2>1 DEF Done
<1>3. CASE pc'[t] # Idle /\ ~\E a \in Touched : BeginRemove(t, a)
  <2>1. Done(t)
    BY <1>3 DEF Meddling, DoneInv
  <2> QED BY <1>3, <2>1, ConfDone, KeysDone, MapDone, CacheDone DEF Rewrites, Lists
<1> QED BY <1>1, <1>2, <1>3

LEMMA DoneStep ==
  TypeOK /\ Shape /\ OnceInv /\ RemoverInv /\ DoneInv /\ [Next]_vars => DoneInv'
<1> SUFFICES ASSUME TypeOK, Shape, OnceInv, RemoverInv, DoneInv, [Next]_vars,
                    NEW t \in Removers, t \notin meddled'
             PROVE  Done(t)'
  BY DEF DoneInv
<1> USE RemoverFacts
<1>1. CASE UNCHANGED vars
  BY <1>1, DoneKept DEF vars, kept, working, DoneInv
<1>2. CASE Crash
  <2>1. pc'[t] = Idle
    BY <1>2, ThreadFacts DEF Crash
  <2> QED BY <2>1, StepsOfRemoval DEF Done, Idle
<1>3. ASSUME NEW u \in Workers, Fails(u) PROVE Done(t)'
  <2>1. u # t /\ t \notin meddled /\ kept' = kept /\ Alone(u)
    BY <1>3, FailsAlone DEF Fails
  <2> QED BY <2>1, DoneKept DEF Alone, DoneInv
<1>4. ASSUME Meddling, WorkersStill PROVE Done(t)'
  BY <1>4, OthersDone, ThreadFacts DEF WorkersStill
<1>5. ASSUME Meddling, NEW u \in Workers, Rewrites(u) PROVE Done(t)'
  BY <1>5, RewritesAlone, OthersDone, OwnDone
<1>6. ASSUME Meddling, LoopWorks PROVE Done(t)'
  BY <1>6, LoopAlone, OthersDone, ThreadFacts
<1>7. ASSUME Meddling, Serves \/ Tick PROVE Done(t)'
  BY <1>4, <1>7, ServesAlone, OthersDone, OwnDone
<1> QED BY <1>1, <1>2, <1>3, <1>5, <1>6, <1>7 DEF Next

\* When /remove answers, and no other thread changed a file on the way, the
\* device has no line, no block, no key and no cached descriptor, whoever else
\* is at work elsewhere, unless it had a second line to begin with
\* (controller.py:249-258, config.py:283-305, button_mapper.py:83-110).
THEOREM RemovalLeavesNothing == Spec => []RemovedLeavesNothing
<1>1. Init => TypeOK /\ Shape /\ OnceInv /\ RemoverInv /\ DoneInv
  <2>1. Init => OnceInv
    BY InitLists DEF Init, OnceInv, Lists
  <2>2. Init => RemoverInv /\ DoneInv
    BY RemoverFacts, ThreadFacts, StepsOfRemoval DEF Init, RemoverInv, DoneInv, Done, Idle
  <2> QED BY <2>1, <2>2, ShapeInit, InitTypeOK
<1>2. TypeOK /\ Shape /\ OnceInv /\ RemoverInv /\ DoneInv /\ [Next]_vars
        => (TypeOK /\ Shape /\ OnceInv /\ RemoverInv /\ DoneInv)'
  BY TypeStep, ShapeStep, OnceStep, RemoverStep, DoneStep
<1>3. DoneInv => RemovedLeavesNothing
  BY StepsOfRemoval DEF DoneInv, Done, RemovedLeavesNothing, LeftNothing, Lists, At, Doubled
<1> QED BY <1>1, <1>2, <1>3, PTL DEF Spec

==============================================================================
