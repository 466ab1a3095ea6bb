-------------------------- MODULE InputDeviceProofs --------------------------
(* What reaches the kernel of a peer's descriptor and of its reports, for any  *)
(* descriptors and values.                                                     *)
EXTENDS InputDevice, FiniteSetTheorems, SequenceTheorems,
        WellFoundedInduction, TLAPS

-----------------------------------------------------------------------------
(* Keys that are released                                                   *)

\* The report IDs _on_ble_hid_report() scans for, if it does it now.
Scan(d) == IF Shown(d) = {} THEN {1, 5} ELSE Shown(d)

Shape ==
  /\ proto \in {"ble", "classic"} /\ origin \in Descriptors
  /\ DOMAIN held = RidsOf(origin)
  /\ phase = "up" => DOMAIN kernel = RidsOf(descriptor)
  /\ ids # {} => phase \in {"up", "failed", "gone"} /\ ids = Scan(reportMap)

\* On BLE a key the kernel has down is one a report still holds: the knob's
\* report writes report 5 as well, and its release releases it.
KnobInv ==
  phase = "up" /\ ~lost /\ proto = "ble" /\ Assumed =>
    Released(kernel[5]) \/ ~Released(held[1]) \/ ~Released(held[5])

\* On Classic what the kernel has is what the peer sent last, if anything.
PlainInv ==
  phase = "up" /\ ~lost /\ proto = "classic"
    /\ (Declared(descriptor) = {}) = (Declared(origin) = {}) =>
    \A r \in DOMAIN kernel : Released(kernel[r]) \/ (r \in DOMAIN held /\ kernel[r] = held[r])

LEMMA PrefixFacts ==
  ASSUME NEW A, NEW s \in Seq(A), NEW e
  PROVE  /\ (<<e>> \o s)[1] = e /\ Tail(<<e>> \o s) = s
<1> DEFINE t == <<e>> \o s
<1>1. s \in Seq(A \cup {e}) /\ <<e>> \in Seq(A \cup {e})
  OBVIOUS
<1>2. /\ t \in Seq(A \cup {e}) /\ Len(t) = Len(s) + 1 /\ t[1] = e
      /\ \A k \in 1..Len(s) : t[k + 1] = s[k]
  BY <1>1
<1> HIDE DEF t
<1>3. /\ t # <<>> /\ Tail(t) \in Seq(A \cup {e}) /\ Len(Tail(t)) = Len(s)
      /\ \A k \in 1..Len(Tail(t)) : Tail(t)[k] = s[k]
  <2>1. t # <<>>
    BY <1>2
  <2> QED BY <1>2, <2>1, HeadTailProperties
<1>4. Tail(t) = s
  BY <1>1, <1>3, SeqEqual
<1> QED BY <1>2, <1>4 DEF t

LEMMA ConsumerIsOne == Min({1, 5}) = 1
BY DEF Min

\* Report 5 goes through as it is; a released knob, in two bytes or more, is
\* forwarded as a released report 5.
LEMMA RemapFacts ==
  ASSUME NEW value \in Seq(0..255)
  PROVE  /\ Remapped(5, value, {1, 5})[1] = 5 /\ Tail(Remapped(5, value, {1, 5})) = value
         /\ Len(value) >= 2 /\ Released(value) =>
              /\ Remapped(1, value, {1, 5})[1] = 5
              /\ Released(Tail(Remapped(1, value, {1, 5})))
<1>1. Remapped(5, value, {1, 5}) = <<5>> \o value
  BY ConsumerIsOne DEF Remapped
<1>2. ASSUME Len(value) >= 2, Released(value)
      PROVE  /\ Remapped(1, value, {1, 5})[1] = 5
             /\ Released(Tail(Remapped(1, value, {1, 5})))
  <2>1. value[1] = 0 /\ value[2] = 0
    BY <1>2 DEF Released
  <2>2. CASE Len(value) = 2
    <3>1. Remapped(1, value, {1, 5}) = Translated(1, value)
      BY <2>2, ConsumerIsOne DEF Remapped
    <3>2. Translated(1, value) = <<5, 0, 0>>
      BY <2>1 DEF Translated
    <3>3. <<5, 0, 0>>[1] = 5 /\ Released(Tail(<<5, 0, 0>>))
      BY DEF Released
    <3> QED BY <3>1, <3>2, <3>3
  <2>3. CASE Len(value) # 2
    <3>1. KeyboardLike(value) /\ value[1] \notin {1, 5}
      BY <1>2, <2>1 DEF KeyboardLike
    <3>2. Remapped(1, value, {1, 5}) = <<5>> \o value
      BY <2>3, <3>1, ConsumerIsOne DEF Remapped
    <3> QED BY <1>2, <3>2, PrefixFacts
  <2> QED BY <2>2, <2>3
<1> QED BY <1>1, <1>2, PrefixFacts

\* Report IDs are never 0.
LEMMA DeclaredFacts ==
  ASSUME NEW d \in Seq(Items)
  PROVE  0 \notin Declared(d)
BY DEF Declared, ToSet, Items, Kinds, Torn, Item

LEMMA OriginFacts ==
  ASSUME Shape
  PROVE  origin \in Seq(Items) /\ 0 \notin Declared(origin)
BY DescriptorAssumption, DeclaredFacts DEF Shape

LEMMA ScannedFacts ==
  ASSUME Shape
  PROVE  ScannedIds = Scan(reportMap)
BY DEF Shape, ScannedIds, Scan

LEMMA ReportShape ==
  ASSUME Shape, NEW rid \in DOMAIN held, NEW value \in Values, Report(rid, value)
  PROVE  Shape'
<1>1. /\ DOMAIN held' = DOMAIN held /\ UNCHANGED <<proto, phase, origin, reportMap, descriptor>>
  BY DEF Report, made
<1>2. DOMAIN kernel' = DOMAIN kernel
  BY DEF Report, KernelTakes
<1>3. ids' # {} => phase' \in {"up", "failed", "gone"} /\ ids' = Scan(reportMap)'
  <2>1. CASE proto = "ble"
    BY <1>1, <2>1, ScannedFacts DEF Report, Scan
  <2>2. CASE proto # "ble"
    BY <1>1, <2>2 DEF Report, Shape, Scan
  <2> QED BY <2>1, <2>2
<1> QED BY <1>1, <1>2, <1>3 DEF Shape

LEMMA ShapeStep == Shape /\ [Next]_vars => Shape'
<1> SUFFICES ASSUME Shape, [Next]_vars PROVE Shape'
  OBVIOUS
<1> USE DEF Shape, loop, made, reports
<1>1. CASE UNCHANGED vars
  BY <1>1 DEF vars
<1>2. CASE GetMap \/ Inject \/ Strip \/ Stripped
  BY <1>2 DEF GetMap, Inject, Strip, Stripped
<1>3. CASE Create \/ Destroy
  BY <1>3 DEF Create, Destroy
<1> QED BY <1>1, <1>2, <1>3, ReportShape DEF Next

\* While the device is up, only a report moves what KeysRelease speaks of.
LEMMA CalmKept ==
  ASSUME KnobInv, PlainInv,
         \/ phase' # "up"
         \/ UNCHANGED <<phase, proto, origin, reportMap, descriptor, held, kernel, lost>>
  PROVE  KnobInv' /\ PlainInv'
BY DEF KnobInv, PlainInv, Assumed

\* A report sends its ID, then its value; while the device is up and nothing is
\* lost, the kernel is given what is forwarded.
LEMMA ReportTaken ==
  ASSUME Shape, NEW rid \in DOMAIN held, NEW value \in Values, Report(rid, value),
         phase' = "up", ~lost'
  PROVE  /\ phase = "up" /\ ~lost /\ KernelTakes(Forwarded(rid, value))
         /\ held' = [held EXCEPT ![rid] = value] /\ value \in Seq(0..255)
         /\ UNCHANGED <<proto, origin, reportMap, descriptor>>
BY ValueAssumption DEF Report, made

LEMMA KnobStep ==
  ASSUME Shape, KnobInv, NEW rid \in DOMAIN held, NEW value \in Values, Report(rid, value)
  PROVE  KnobInv'
<1> SUFFICES ASSUME phase' = "up", ~lost', proto' = "ble", Assumed',
                    Released(held'[1]), Released(held'[5])
             PROVE  Released(kernel'[5])
  BY DEF KnobInv
<1>1. /\ phase = "up" /\ ~lost /\ KernelTakes(Forwarded(rid, value))
      /\ held' = [held EXCEPT ![rid] = value] /\ value \in Seq(0..255)
      /\ UNCHANGED <<proto, origin, reportMap, descriptor>>
  BY ReportTaken
<1>2. Declared(descriptor) = {1, 5} /\ Shown(reportMap) = {1, 5} /\ DOMAIN held = {1, 5}
  BY <1>1 DEF Assumed
<1>3. Forwarded(rid, value) = Remapped(rid, value, {1, 5})
  BY <1>1, <1>2, ScannedFacts DEF Forwarded, Scan
<1>4. DOMAIN kernel = {1, 5}
  BY <1>1, <1>2 DEF Shape, RidsOf
<1>5. CASE rid = 5
  <2>1. kernel' = [kernel EXCEPT ![5] = value]
    BY <1>1, <1>2, <1>3, <1>5, RemapFacts DEF KernelTakes
  <2> QED BY <1>1, <1>2, <1>4, <1>5, <2>1
<1>6. CASE rid = 1
  <2>1. held'[1] = value /\ Len(value) >= 2
    BY <1>1, <1>2, <1>6 DEF Assumed
  <2>2. /\ Remapped(1, value, {1, 5})[1] = 5
        /\ Released(Tail(Remapped(1, value, {1, 5})))
    BY <1>1, <2>1, RemapFacts
  <2>3. kernel' = [kernel EXCEPT ![5] = Tail(Remapped(1, value, {1, 5}))]
    BY <1>1, <1>2, <1>3, <1>6, <2>2 DEF KernelTakes
  <2> QED BY <1>4, <2>2, <2>3
<1> QED BY <1>2, <1>5, <1>6

LEMMA PlainStep ==
  ASSUME Shape, PlainInv, NEW rid \in DOMAIN held, NEW value \in Values, Report(rid, value)
  PROVE  PlainInv'
<1> SUFFICES ASSUME phase' = "up", ~lost', proto' = "classic",
                    ((Declared(descriptor) = {}) = (Declared(origin) = {}))',
                    NEW r \in DOMAIN kernel'
             PROVE  Released(kernel'[r]) \/ (r \in DOMAIN held' /\ kernel'[r] = held'[r])
  BY DEF PlainInv
<1>1. /\ phase = "up" /\ ~lost /\ KernelTakes(Forwarded(rid, value))
      /\ held' = [held EXCEPT ![rid] = value] /\ value \in Seq(0..255)
      /\ UNCHANGED <<proto, origin, reportMap, descriptor>>
  BY ReportTaken
<1>2. (Declared(descriptor) = {}) = (Declared(origin) = {})
  BY <1>1
<1>3. DOMAIN kernel' = DOMAIN kernel /\ DOMAIN held' = DOMAIN held
  BY <1>1 DEF KernelTakes
<1>4. \A q \in DOMAIN kernel :
        Released(kernel[q]) \/ (q \in DOMAIN held /\ kernel[q] = held[q])
  BY <1>1, <1>2 DEF PlainInv
<1>5. CASE Declared(descriptor) = {}
  <2>1. rid = 0 /\ DOMAIN kernel = {0} /\ DOMAIN held = {0}
    BY <1>1, <1>2, <1>5 DEF Shape, RidsOf
  <2>2. Forwarded(rid, value) = value
    BY <1>1, <2>1 DEF Forwarded
  <2>3. kernel' = [kernel EXCEPT ![0] = value]
    BY <1>1, <1>5, <2>2 DEF KernelTakes
  <2> QED BY <1>1, <1>3, <2>1, <2>3
<1>6. CASE Declared(descriptor) # {}
  <2>1. /\ rid # 0 /\ DOMAIN kernel = Declared(descriptor)
    BY <1>1, <1>2, <1>6, OriginFacts DEF Shape, RidsOf
  <2>2. Forwarded(rid, value) = <<rid>> \o value
    BY <1>1, <2>1 DEF Forwarded
  <2>3. Forwarded(rid, value)[1] = rid /\ Tail(Forwarded(rid, value)) = value
    BY <1>1, <2>2, PrefixFacts
  <2>4. CASE rid \in Declared(descriptor)
    <3>1. kernel' = [kernel EXCEPT ![rid] = value]
      BY <1>1, <1>6, <2>3, <2>4 DEF KernelTakes
    <3> QED BY <1>1, <1>3, <1>4, <3>1
  <2>5. CASE rid \notin Declared(descriptor)
    <3>1. kernel' = kernel /\ r # rid
      BY <1>1, <1>3, <1>6, <2>1, <2>3, <2>5 DEF KernelTakes
    <3> QED BY <1>1, <1>3, <1>4, <3>1
  <2> QED BY <2>4, <2>5
<1> QED BY <1>5, <1>6

\* A new device holds no key, whatever the peer held before it was made.
LEMMA CreateStep ==
  ASSUME Shape, KnobInv, PlainInv, Create
  PROVE  KnobInv' /\ PlainInv'
<1>1. CASE phase' # "up"
  BY <1>1, CalmKept
<1>2. CASE phase' = "up"
  <2>1. kernel' = [r \in RidsOf(descriptor) |-> <<0>>] /\ descriptor' = descriptor
    BY <1>2 DEF Create
  <2>2. \A r \in DOMAIN kernel' : Released(kernel'[r])
    BY <2>1 DEF Released
  <2>3. Assumed' => 5 \in DOMAIN kernel'
    BY <2>1 DEF Assumed, RidsOf
  <2> QED BY <2>2, <2>3 DEF KnobInv, PlainInv
<1> QED BY <1>1, <1>2

LEMMA KeysStep ==
  Shape /\ KnobInv /\ PlainInv /\ [Next]_vars => (KnobInv /\ PlainInv)'
<1> SUFFICES ASSUME Shape, KnobInv, PlainInv, [Next]_vars PROVE KnobInv' /\ PlainInv'
  OBVIOUS
<1>1. CASE UNCHANGED vars
  BY <1>1, CalmKept DEF vars, made, reports
<1>2. CASE GetMap \/ Inject \/ Strip \/ Stripped \/ Destroy
  BY <1>2, CalmKept DEF GetMap, Inject, Strip, Stripped, Destroy
<1> QED BY <1>1, <1>2, CreateStep, KnobStep, PlainStep DEF Next

\* Whatever order the reports of a peer come in, once each of them is released
\* the kernel holds no key: the knob's release, forwarded as a release of report
\* 5, clears what the knob's press put there (ble.py:458-500), and what goes
\* through unchanged is released as it was pressed (classic.py:336-344).
THEOREM KeysAreReleased == Spec => []KeysRelease
<1>1. Init => Shape /\ KnobInv /\ PlainInv
  BY DEF Init, Shape, KnobInv, PlainInv
<1>2. Shape /\ KnobInv /\ PlainInv /\ [Next]_vars => (Shape /\ KnobInv /\ PlainInv)'
  BY ShapeStep, KeysStep
<1>3. Shape /\ KnobInv /\ PlainInv => KeysRelease
  BY DEF Shape, KnobInv, PlainInv, KeysRelease, Assumed
<1> QED BY <1>1, <1>2, <1>3, PTL DEF Spec

-----------------------------------------------------------------------------
(* Numbers and ranks                                                        *)

LEMMA LeastNatural ==
  ASSUME NEW T \in SUBSET Nat, T # {}
  PROVE  \E x \in T : \A y \in T : x <= y
<1> DEFINE R == OpToRel(<, Nat)
<1>1. ASSUME NEW x \in Nat, NEW y \in Nat, y < x PROVE <<y, x>> \in R
  BY <1>1, Zenon DEF OpToRel
<1>2. IsWellFoundedOn(R, Nat)
  BY NatLessThanWellFounded
<1> HIDE DEF R
<1>3. PICK x \in T : \A y \in T : ~ (<<y, x>> \in R)
  BY <1>2, WFMin
<1>4. \A y \in T : ~ (y < x)
  BY ONLY <1>1, <1>3, T \in SUBSET Nat, x \in T, Zenon
<1> QED BY <1>4

LEMMA MaxFacts ==
  ASSUME NEW n \in Nat, NEW S \in SUBSET (0..n), S # {}
  PROVE  Max(S) \in S /\ \A y \in S : y <= Max(S)
<1> DEFINE T == {m \in Nat : \A y \in S : y <= m}
<1>1. PICK x \in T : \A m \in T : x <= m
  <2>1. T \in SUBSET Nat /\ n \in T
    OBVIOUS
  <2> HIDE DEF T
  <2> QED BY <2>1, LeastNatural
<1>2. x \in S
  <2> SUFFICES ASSUME x \notin S PROVE FALSE
    OBVIOUS
  <2>0. PICK z : z \in S
    OBVIOUS
  <2>1. x \in Nat /\ \A y \in S : y \in Nat /\ y <= x /\ y # x
    BY <1>1
  <2>2. x - 1 \in Nat /\ \A y \in S : y <= x - 1
    <3>1. z \in Nat /\ z <= x /\ z # x
      BY <2>0, <2>1
    <3>2. x - 1 \in Nat
      BY <2>1, <3>1
    <3> QED BY <2>1, <3>2
  <2> QED BY <1>1, <2>2
<1>3. \A y \in S : x >= y
  BY <1>1
<1> HIDE DEF T
<1> QED BY <1>2, <1>3 DEF Max

\* How many of a set of numbers are at most j.
Rank(S, j) == Cardinality({l \in S : l <= j})

LEMMA RankFacts ==
  ASSUME NEW n \in Nat, NEW S \in SUBSET (1..n)
  PROVE  /\ IsFiniteSet(S) /\ Cardinality(S) \in Nat
         /\ \A j \in S : Rank(S, j) \in 1..Cardinality(S)
         /\ Cardinality(S) = 0 => S = {}
<1>1. IsFiniteSet(S) /\ Cardinality(S) \in Nat /\ (Cardinality(S) = 0 => S = {})
  <2>1. IsFiniteSet(1..n)
    BY FS_Interval
  <2>2. IsFiniteSet(S)
    BY <2>1, FS_Subset
  <2> QED BY <2>2, FS_CardinalityType, FS_EmptySet
<1>2. ASSUME NEW j \in S PROVE Rank(S, j) \in 1..Cardinality(S)
  <2> DEFINE B == {l \in S : l <= j}
  <2>1. B \in SUBSET S /\ j \in B
    OBVIOUS
  <2> HIDE DEF B
  <2>2. IsFiniteSet(B) /\ Cardinality(B) <= Cardinality(S) /\ Cardinality(B) \in Nat
    BY <1>1, <2>1, FS_Subset, FS_CardinalityType
  <2>3. Cardinality(B) # 0
    BY <2>1, <2>2, FS_EmptySet
  <2> QED BY <1>1, <2>2, <2>3 DEF Rank, B
<1> QED BY <1>1, <1>2

\* Numbers from n + 1 to m rank behind those up to n.
LEMMA RankBehind ==
  ASSUME NEW n \in Nat, NEW S \in SUBSET (1..n), NEW m \in Nat, n <= m
  PROVE  /\ Cardinality(S \cup (n+1)..m) = Cardinality(S) + (m - n)
         /\ \A j \in S : Rank(S \cup (n+1)..m, j) = Rank(S, j)
         /\ \A j \in (n+1)..m : Rank(S \cup (n+1)..m, j) = Cardinality(S) + (j - n)
<1>1. ASSUME NEW j \in n..m PROVE Cardinality(S \cup (n+1)..j) = Cardinality(S) + (j - n)
  <2>1. IsFiniteSet(S) /\ Cardinality(S) \in Nat
    BY RankFacts
  <2>2. /\ IsFiniteSet((n+1)..j)
        /\ Cardinality((n+1)..j) = IF n+1 > j THEN 0 ELSE j - (n+1) + 1
    BY FS_Interval
  <2>3. S \cap (n+1)..j = {}
    OBVIOUS
  <2>4. Cardinality(S \cup (n+1)..j)
          = Cardinality(S) + Cardinality((n+1)..j) - Cardinality(S \cap (n+1)..j)
    BY <2>1, <2>2, FS_Union
  <2>5. Cardinality(S \cap (n+1)..j) = 0
    BY <2>3, FS_EmptySet
  <2>6. Cardinality((n+1)..j) = j - n
    BY <2>2
  <2> QED BY ONLY <2>1, <2>4, <2>5, <2>6, n \in Nat, j \in n..m, m \in Nat
<1>2. ASSUME NEW j \in S PROVE Rank(S \cup (n+1)..m, j) = Rank(S, j)
  <2>1. {l \in S \cup (n+1)..m : l <= j} = {l \in S : l <= j}
    OBVIOUS
  <2> QED BY <2>1 DEF Rank
<1>3. ASSUME NEW j \in (n+1)..m
      PROVE  Rank(S \cup (n+1)..m, j) = Cardinality(S) + (j - n)
  <2>1. \A l \in S : l \in Nat /\ l <= j
    OBVIOUS
  <2>2. \A l \in (n+1)..m : l <= j <=> l \in (n+1)..j
    OBVIOUS
  <2>3. (n+1)..j \subseteq (n+1)..m /\ j \in n..m
    OBVIOUS
  <2>4. {l \in S \cup (n+1)..m : l <= j} = S \cup (n+1)..j
    BY <2>1, <2>2, <2>3
  <2>5. Cardinality(S \cup (n+1)..j) = Cardinality(S) + (j - n)
    BY <1>1, <2>3
  <2> QED BY <2>4, <2>5 DEF Rank
<1>4. m \in n..m
  OBVIOUS
<1>5. Cardinality(S \cup (n+1)..m) = Cardinality(S) + (m - n)
  BY <1>1, <1>4
<1> QED BY <1>2, <1>3, <1>5

-----------------------------------------------------------------------------
(* Segments of a descriptor                                                 *)

\* The items of the clean collections that end before k.
Chosen(d, k) == {j \in DOMAIN d : \E e \in Ends(d) : e < k /\ Clean(d, e) /\ j \in First(d, e)..e}

\* The list holds the items of d that S names, in their order.
Selects(list, S, d) ==
  Len(list) = Cardinality(S) /\ \A j \in S : list[Rank(S, j)] = d[j]

LEMMA BeforeFacts ==
  ASSUME NEW d \in Seq(Items), NEW k \in 1..Len(d), NEW kinds
  PROVE  /\ Before(d, k, kinds) \subseteq 1..Len(d) /\ k \notin Before(d, k, kinds)
         /\ IsFiniteSet(Before(d, k, kinds)) /\ Cardinality(Before(d, k, kinds)) \in Nat
         /\ Before(d, k + 1, kinds) =
              IF d[k].is \in kinds THEN Before(d, k, kinds) \cup {k} ELSE Before(d, k, kinds)
         /\ Cardinality(Before(d, k + 1, kinds)) =
              IF d[k].is \in kinds THEN Cardinality(Before(d, k, kinds)) + 1
                                   ELSE Cardinality(Before(d, k, kinds))
<1>1. /\ Before(d, k, kinds) \subseteq 1..Len(d) /\ k \notin Before(d, k, kinds)
      /\ Before(d, k + 1, kinds) =
           IF d[k].is \in kinds THEN Before(d, k, kinds) \cup {k} ELSE Before(d, k, kinds)
  BY DEF Before
<1>2. IsFiniteSet(Before(d, k, kinds)) /\ Cardinality(Before(d, k, kinds)) \in Nat
  <2>1. Len(d) \in Nat
    OBVIOUS
  <2> QED BY <1>1, <2>1, RankFacts
<1> HIDE DEF Before
<1>3. Cardinality(Before(d, k, kinds) \cup {k}) = Cardinality(Before(d, k, kinds)) + 1
  BY <1>1, <1>2, FS_AddElement
<1> QED BY <1>1, <1>2, <1>3

LEMMA DepthFacts ==
  ASSUME NEW d \in Seq(Items)
  PROVE  /\ DepthAt(d, 1) = 0
         /\ \A k \in 1..Len(d) :
              /\ DepthAt(d, k) \in Int
              /\ DepthAt(d, k + 1) = CASE d[k].is = "open"  -> DepthAt(d, k) + 1
                                       [] d[k].is = "close" -> DepthAt(d, k) - 1
                                       [] OTHER             -> DepthAt(d, k)
<1>1. Cardinality(Before(d, 1, {"open"})) = 0 /\ Cardinality(Before(d, 1, {"close"})) = 0
  <2>1. Before(d, 1, {"open"}) = {} /\ Before(d, 1, {"close"}) = {}
    BY DEF Before
  <2> QED BY <2>1, FS_EmptySet
<1>2. DepthAt(d, 1) = 0
  BY <1>1 DEF DepthAt
<1>3. ASSUME NEW k \in 1..Len(d)
      PROVE  /\ DepthAt(d, k) \in Int
             /\ DepthAt(d, k + 1) = CASE d[k].is = "open"  -> DepthAt(d, k) + 1
                                      [] d[k].is = "close" -> DepthAt(d, k) - 1
                                      [] OTHER             -> DepthAt(d, k)
  <2> DEFINE opens(q)  == Cardinality(Before(d, q, {"open"}))
             closes(q) == Cardinality(Before(d, q, {"close"}))
  <2>1. /\ opens(k) \in Nat /\ closes(k) \in Nat
        /\ opens(k + 1) = IF d[k].is = "open" THEN opens(k) + 1 ELSE opens(k)
        /\ closes(k + 1) = IF d[k].is = "close" THEN closes(k) + 1 ELSE closes(k)
    <3>1. ASSUME NEW kind
          PROVE  /\ Cardinality(Before(d, k, {kind})) \in Nat
                 /\ Cardinality(Before(d, k + 1, {kind})) =
                      IF d[k].is \in {kind} THEN Cardinality(Before(d, k, {kind})) + 1
                                            ELSE Cardinality(Before(d, k, {kind}))
      <4> DEFINE kinds == {kind}
      <4> HIDE DEF kinds
      <4>1. /\ Cardinality(Before(d, k, kinds)) \in Nat
            /\ Cardinality(Before(d, k + 1, kinds)) =
                 IF d[k].is \in kinds THEN Cardinality(Before(d, k, kinds)) + 1
                                      ELSE Cardinality(Before(d, k, kinds))
        BY ONLY d \in Seq(Items), k \in 1..Len(d), BeforeFacts
      <4> QED BY ONLY <4>1 DEF kinds
    <3> QED BY <3>1
  <2>2. DepthAt(d, k) = opens(k) - closes(k) /\ DepthAt(d, k + 1) = opens(k + 1) - closes(k + 1)
    BY DEF DepthAt
  <2> HIDE DEF opens, closes
  <2> QED BY <2>1, <2>2
<1> QED BY <1>2, <1>3

\* A segment starts behind the last end there is before it.
LEMMA FirstFacts ==
  ASSUME NEW d \in Seq(Items), NEW k \in 1..Len(d) + 1
  PROVE  First(d, k) \in 1..k /\ \A e \in Ends(d) : e < k => e < First(d, k)
<1> DEFINE S == {0} \cup {e \in Ends(d) : e < k}
<1>1. Ends(d) \subseteq 1..Len(d) /\ Len(d) \in Nat /\ k \in Nat \ {0}
  BY DEF Ends
<1>2. S \in SUBSET (0..k - 1) /\ S # {} /\ k - 1 \in Nat
  BY <1>1
<1>3. First(d, k) = 1 + Max(S) /\ \A e \in Ends(d) : e < k => e \in S
  BY DEF First
<1> HIDE DEF S
<1>4. Max(S) \in 0..k - 1 /\ \A e \in S : e <= Max(S)
  BY <1>2, MaxFacts
<1> QED BY <1>1, <1>2, <1>3, <1>4

LEMMA FirstStep ==
  ASSUME NEW d \in Seq(Items), NEW k \in 1..Len(d)
  PROVE  First(d, k + 1) = IF k \in Ends(d) THEN k + 1 ELSE First(d, k)
<1>1. CASE k \in Ends(d)
  <2>1. First(d, k + 1) \in 1..k + 1 /\ k < First(d, k + 1)
    BY <1>1, FirstFacts
  <2> QED BY <1>1, <2>1
<1>2. CASE k \notin Ends(d)
  <2>1. {e \in Ends(d) : e < k + 1} = {e \in Ends(d) : e < k}
    BY <1>2 DEF Ends
  <2> QED BY <1>2, <2>1 DEF First
<1> QED BY <1>1, <1>2

LEMMA ChosenFacts ==
  ASSUME NEW d \in Seq(Items), NEW k \in 1..Len(d) + 1
  PROVE  Chosen(d, k) \in SUBSET (1..First(d, k) - 1)
<1>1. ASSUME NEW j \in Chosen(d, k) PROVE j \in 1..First(d, k) - 1
  <2>1. PICK e \in Ends(d) : e < k /\ j \in First(d, e)..e
    BY <1>1 DEF Chosen
  <2>2. e \in 1..Len(d) /\ Len(d) \in Nat /\ e < First(d, k) /\ First(d, k) \in 1..k
    BY <2>1, FirstFacts DEF Ends
  <2>3. First(d, e) \in 1..e
    BY <2>2, FirstFacts
  <2> QED BY <2>1, <2>2, <2>3
<1> QED BY <1>1

LEMMA ChosenStep ==
  ASSUME NEW d \in Seq(Items), NEW k \in 1..Len(d)
  PROVE  Chosen(d, k + 1) = IF k \in Ends(d) /\ Clean(d, k)
                            THEN Chosen(d, k) \cup First(d, k)..k
                            ELSE Chosen(d, k)
<1>1. First(d, k)..k \subseteq 1..Len(d) /\ Len(d) \in Nat
  BY FirstFacts
<1>2. \A e \in Ends(d) : e \in Nat /\ (e < k + 1 <=> e < k \/ e = k)
  BY DEF Ends
<1>3. \A j : j \in Chosen(d, k + 1) <=>
               \/ j \in Chosen(d, k)
               \/ j \in DOMAIN d /\ k \in Ends(d) /\ Clean(d, k) /\ j \in First(d, k)..k
  BY <1>2 DEF Chosen
<1>4. DOMAIN d = 1..Len(d)
  OBVIOUS
<1> QED BY <1>1, <1>3, <1>4

\* What has been kept, followed by the segment that ends at m.
LEMMA SelectsMore ==
  ASSUME NEW d \in Seq(Items), NEW list \in Seq(Items), NEW n \in Nat,
         NEW m \in 1..Len(d), n < m, NEW S \in SUBSET (1..n), Selects(list, S, d)
  PROVE  /\ list \o SubSeq(d, n + 1, m) \in Seq(Items)
         /\ Selects(list \o SubSeq(d, n + 1, m), S \cup (n + 1)..m, d)
<1> DEFINE more == SubSeq(d, n + 1, m)
           all  == list \o more
           T    == S \cup (n + 1)..m
<1>1. /\ more \in Seq(Items) /\ Len(more) = m - n
      /\ \A k \in 1..m - n : more[k] = d[n + k]
  OBVIOUS
<1> HIDE DEF more
<1>2. /\ all \in Seq(Items) /\ Len(all) = Len(list) + (m - n)
      /\ \A k \in 1..Len(list) : all[k] = list[k]
      /\ \A k \in 1..m - n : all[Len(list) + k] = more[k]
  <2>1. Len(list) \in Nat
    OBVIOUS
  <2>2. all \in Seq(Items) /\ Len(all) = Len(list) + Len(more)
    BY <1>1, ConcatProperties
  <2>3. \A k \in 1..Len(list) + Len(more) :
          all[k] = IF k <= Len(list) THEN list[k] ELSE more[k - Len(list)]
    BY <1>1, ConcatProperties
  <2> HIDE DEF all
  <2>4. m - n \in Nat /\ Len(more) = m - n
    BY <1>1
  <2>5. ASSUME NEW k \in 1..m - n PROVE all[Len(list) + k] = more[k]
    <3>1. /\ Len(list) + k \in 1..Len(list) + Len(more) /\ ~(Len(list) + k <= Len(list))
          /\ Len(list) + k - Len(list) = k
      BY <2>1, <2>4
    <3> QED BY <2>3, <3>1
  <2>6. ASSUME NEW k \in 1..Len(list) PROVE all[k] = list[k]
    BY <2>1, <2>3, <2>4
  <2> QED BY <2>2, <2>4, <2>5, <2>6
<1>3. /\ Len(list) = Cardinality(S) /\ Cardinality(S) \in Nat
      /\ \A j \in S : Rank(S, j) \in 1..Cardinality(S) /\ list[Rank(S, j)] = d[j]
  BY RankFacts DEF Selects
<1>4. /\ Cardinality(T) = Cardinality(S) + (m - n)
      /\ \A j \in S : Rank(T, j) = Rank(S, j)
      /\ \A j \in (n + 1)..m : Rank(T, j) = Cardinality(S) + (j - n)
  <2>1. m \in Nat /\ n <= m
    OBVIOUS
  <2> QED BY <2>1, RankBehind
<1> HIDE DEF all
<1>5. ASSUME NEW j \in S PROVE all[Rank(T, j)] = d[j]
  BY <1>2, <1>3, <1>4
<1>6. ASSUME NEW j \in (n + 1)..m PROVE all[Rank(T, j)] = d[j]
  <2>1. j - n \in 1..m - n /\ n + (j - n) = j
    OBVIOUS
  <2>2. all[Len(list) + (j - n)] = more[j - n]
    BY <1>2, <2>1
  <2>3. more[j - n] = d[j]
    BY <1>1, <2>1
  <2>4. Rank(T, j) = Len(list) + (j - n)
    BY <1>3, <1>4
  <2> QED BY <2>2, <2>3, <2>4
<1>7. Len(all) = Cardinality(T) /\ \A j \in T : all[Rank(T, j)] = d[j]
  BY <1>2, <1>3, <1>4, <1>5, <1>6
<1> QED BY <1>2, <1>7 DEF Selects, all, more

-----------------------------------------------------------------------------
(* The loop of strip_digitizer_collections()                                *)

LEMMA ItemFacts ==
  /\ Span \in Items /\ Torn.is = "torn"
  /\ \A item \in Items : item.is = "torn" => item = Torn
BY DEF Items, Kinds, Item, Span, Torn, Main

LEMMA InjectedType ==
  ASSUME NEW d \in Seq(Items)
  PROVE  Injected(d) \in Seq(Items)
<1> DEFINE found == {k \in DOMAIN d : Shows(d[k]) /\ d[k].n = 1}
<1>1. CASE found = {}
  BY <1>1 DEF Injected
<1>2. CASE found # {}
  <2>1. PICK k \in found : \A l \in found : k <= l
    <3>1. found \in SUBSET Nat
      OBVIOUS
    <3> HIDE DEF found
    <3> QED BY <1>2, <3>1, LeastNatural
  <2>2. Min(found) \in found
    <3> HIDE DEF found
    <3> QED BY <2>1 DEF Min
  <2> DEFINE m == Min(found)
  <2>3. Injected(d) = d \/ Injected(d) = InsertAt(d, m + 1, Span)
    BY <1>2 DEF Injected
  <2>4. m \in 1..Len(d)
    BY <2>2
  <2> HIDE DEF m, found
  <2> DEFINE front == SubSeq(d, 1, (m + 1) - 1)
             back  == SubSeq(d, m + 1, Len(d))
  <2>5. front \in Seq(Items) /\ <<Span>> \in Seq(Items) /\ back \in Seq(Items)
    BY <2>4, ItemFacts
  <2>6. InsertAt(d, m + 1, Span) = (front \o <<Span>>) \o back
    BY DEF InsertAt
  <2> HIDE DEF front, back
  <2>7. (front \o <<Span>>) \o back \in Seq(Items)
    BY <2>5
  <2> QED BY <2>3, <2>6, <2>7
<1> QED BY <1>1, <1>2

\* The loop has not begun, or has come to item i: no item before it is cut
\* off, the segment it is in starts behind the last end, and what it has kept
\* are the clean collections so far.
LoopAt ==
  /\ i \in 1..Len(reportMap) + 1 /\ Before(reportMap, i, {"torn"}) = {}
  /\ depth = DepthAt(reportMap, i) /\ start = First(reportMap, i)
  /\ tainted \in BOOLEAN
  /\ tainted <=> \E j \in start..i - 1 : reportMap[j] = Page(Digitizer)
  /\ kept \in Seq(Items) /\ Selects(kept, Chosen(reportMap, i), reportMap)

StripInv ==
  /\ origin \in Descriptors /\ reportMap \in Seq(Items)
  /\ phase \in {"none", "mapped"} =>
       i = 1 /\ start = 1 /\ depth = 0 /\ tainted = FALSE /\ kept = <<>>
  /\ phase = "stripping" => LoopAt
  /\ StripsDigitizers

\* Before the first item nothing is cut off and nothing chosen.
LEMMA FreshFacts ==
  ASSUME NEW d \in Seq(Items)
  PROVE  /\ 1 \in 1..Len(d) + 1 /\ Before(d, 1, {"torn"}) = {} /\ DepthAt(d, 1) = 0
         /\ First(d, 1) = 1 /\ Selects(<<>>, Chosen(d, 1), d)
<1>1. Len(d) \in Nat /\ 1 \in 1..Len(d) + 1
  OBVIOUS
<1>2. Before(d, 1, {"torn"}) = {} /\ DepthAt(d, 1) = 0
  BY DepthFacts DEF Before
<1>3. First(d, 1) = 1
  <2>1. First(d, 1) \in 1..1
    BY <1>1, FirstFacts
  <2> QED BY <2>1
<1>4. Chosen(d, 1) = {}
  <2>1. Chosen(d, 1) \in SUBSET (1..First(d, 1) - 1)
    BY <1>1, ChosenFacts
  <2> QED BY <1>3, <2>1
<1>5. Selects(<<>>, {}, d)
  BY FS_EmptySet DEF Selects
<1> QED BY <1>1, <1>2, <1>3, <1>4, <1>5

LEMMA LoopStarts ==
  ASSUME reportMap' \in Seq(Items), i' = 1, start' = 1, depth' = 0, tainted' = FALSE,
         kept' = <<>>
  PROVE  LoopAt'
<1> DEFINE d == reportMap'
<1>1. /\ 1 \in 1..Len(d) + 1 /\ Before(d, 1, {"torn"}) = {} /\ DepthAt(d, 1) = 0
      /\ First(d, 1) = 1 /\ Selects(<<>>, Chosen(d, 1), d)
  BY FreshFacts
<1>2. tainted' \in BOOLEAN /\ (tainted' <=> \E j \in 1..1 - 1 : d[j] = Page(Digitizer))
  <2>1. 1..1 - 1 = {}
    OBVIOUS
  <2> QED BY <2>1
<1> QED BY <1>1, <1>2 DEF LoopAt

\* A turn of the loop is at the end of a collection exactly when the item is an
\* End Collection and the depth was 1.
LEMMA EndsHere ==
  ASSUME reportMap \in Seq(Items), LoopAt, i \in 1..Len(reportMap), reportMap[i] # Torn
  PROVE  /\ Before(reportMap, i + 1, {"torn"}) = {}
         /\ DepthAt(reportMap, i) \in Int
         /\ DepthAt(reportMap, i + 1) = CASE reportMap[i].is = "open"  -> depth + 1
                                          [] reportMap[i].is = "close" -> depth - 1
                                          [] OTHER                     -> depth
         /\ i \in Ends(reportMap) <=> reportMap[i].is = "close" /\ depth = 1
         /\ Clean(reportMap, i) <=> ~(tainted \/ reportMap[i] = Page(Digitizer))
<1>1. Before(reportMap, i, {"torn"}) = {} /\ depth = DepthAt(reportMap, i)
  BY DEF LoopAt
<1>2. Before(reportMap, i + 1, {"torn"}) = {}
  <2>1. reportMap[i] \in Items
    OBVIOUS
  <2>2. reportMap[i].is # "torn"
    BY <2>1, ItemFacts
  <2>3. Before(reportMap, i + 1, {"torn"}) =
          IF reportMap[i].is \in {"torn"} THEN Before(reportMap, i, {"torn"}) \cup {i}
                                          ELSE Before(reportMap, i, {"torn"})
    BY BeforeFacts
  <2> QED BY <1>1, <2>2, <2>3
<1>3. /\ DepthAt(reportMap, i) \in Int
      /\ DepthAt(reportMap, i + 1) = CASE reportMap[i].is = "open"  -> depth + 1
                                       [] reportMap[i].is = "close" -> depth - 1
                                       [] OTHER                     -> depth
  BY <1>1, DepthFacts
<1>4. i \in Ends(reportMap) <=> reportMap[i].is = "close" /\ depth = 1
  <2>1. i \in Ends(reportMap) <=> reportMap[i].is = "close" /\ DepthAt(reportMap, i + 1) = 0
    BY <1>1 DEF Ends
  <2>2. reportMap[i].is = "close" => DepthAt(reportMap, i + 1) = depth - 1
    BY <1>3
  <2> QED BY <1>1, <1>3, <2>1, <2>2
<1>5. Clean(reportMap, i) <=> ~(tainted \/ reportMap[i] = Page(Digitizer))
  <2>1. start = First(reportMap, i) /\ start \in 1..i
    BY FirstFacts DEF LoopAt
  <2>2. \A j : j \in start..i <=> j \in start..i - 1 \/ j = i
    BY <2>1
  <2>3. Clean(reportMap, i) <=> \A j \in start..i : reportMap[j] # Page(Digitizer)
    BY <2>1 DEF Clean
  <2>4. tainted <=> \E j \in start..i - 1 : reportMap[j] = Page(Digitizer)
    BY DEF LoopAt
  <2> QED BY <2>2, <2>3, <2>4
<1> QED BY <1>2, <1>3, <1>4, <1>5

LEMMA StripStep ==
  ASSUME StripInv, Strip
  PROVE  LoopAt'
<1> DEFINE bad == tainted \/ reportMap[i] = Page(Digitizer)
           d   == reportMap
<1>1. /\ d \in Seq(Items) /\ LoopAt /\ i \in 1..Len(d) /\ d[i] # Torn
      /\ d' = d /\ i' = i + 1 /\ Len(d) \in Nat
  BY DEF StripInv, Strip
<1>2. /\ Before(d, i + 1, {"torn"}) = {}
      /\ depth' = DepthAt(d, i + 1)
      /\ i \in Ends(d) <=> d[i].is = "close" /\ depth = 1
      /\ Clean(d, i) <=> ~bad
  BY <1>1, EndsHere DEF Strip
<1>3. start = First(d, i) /\ start \in 1..i
  BY <1>1, FirstFacts DEF LoopAt
<1>4. CASE i \in Ends(d)
  <2>1. start' = i + 1 /\ tainted' = FALSE
        /\ kept' = IF bad THEN kept ELSE kept \o SubSeq(d, start, i)
    BY <1>2, <1>4 DEF Strip
  <2>2. start' = First(d, i + 1)
    BY <1>1, <1>4, <2>1, FirstStep
  <2>3. kept' \in Seq(Items) /\ Selects(kept', Chosen(d, i + 1), d)
    <3>1. CASE bad
      <4>1. Chosen(d, i + 1) = Chosen(d, i)
        BY <1>1, <1>2, <3>1, ChosenStep
      <4> QED BY <1>1, <2>1, <3>1, <4>1 DEF LoopAt
    <3>2. CASE ~bad
      <4>1. Chosen(d, i + 1) = Chosen(d, i) \cup start..i
        BY <1>1, <1>2, <1>3, <1>4, <3>2, ChosenStep
      <4>2. Chosen(d, i) \in SUBSET (1..start - 1)
        BY <1>1, <1>3, ChosenFacts
      <4>3. /\ start - 1 \in Nat /\ start - 1 < i /\ (start - 1) + 1 = start
            /\ kept \in Seq(Items) /\ Selects(kept, Chosen(d, i), d)
        BY <1>1, <1>3 DEF LoopAt
      <4>4. /\ kept \o SubSeq(d, (start - 1) + 1, i) \in Seq(Items)
            /\ Selects(kept \o SubSeq(d, (start - 1) + 1, i),
                       Chosen(d, i) \cup ((start - 1) + 1)..i, d)
        BY ONLY <1>1, <4>2, <4>3, SelectsMore
      <4> QED BY <2>1, <3>2, <4>1, <4>3, <4>4
    <3> QED BY <3>1, <3>2
  <2>4. ~\E j \in start'..i' - 1 : d[j] = Page(Digitizer)
    BY <1>1, <2>1
  <2>5. tainted' \in BOOLEAN /\ (tainted' <=> \E j \in start'..i' - 1 : d[j] = Page(Digitizer))
    BY <2>1, <2>4
  <2>6. i + 1 \in 1..Len(d) + 1
    BY <1>1
  <2> QED BY <1>1, <1>2, <2>2, <2>3, <2>5, <2>6 DEF LoopAt
<1>5. CASE i \notin Ends(d)
  <2>1. tainted' = bad /\ kept' = kept /\ start' = start
    BY <1>2, <1>5 DEF Strip
  <2>2. start' = First(d, i + 1) /\ Chosen(d, i + 1) = Chosen(d, i)
    BY <1>1, <1>3, <1>5, <2>1, FirstStep, ChosenStep
  <2>3. tainted' \in BOOLEAN
    BY <1>1, <2>1 DEF LoopAt
  <2>4. tainted' <=> \E j \in start'..i' - 1 : d[j] = Page(Digitizer)
    <3>1. \A j : j \in start'..i' - 1 <=> j \in start..i - 1 \/ j = i
      BY <1>1, <1>3, <2>1
    <3>2. tainted <=> \E j \in start..i - 1 : d[j] = Page(Digitizer)
      BY <1>1 DEF LoopAt
    <3> QED BY <2>1, <3>1, <3>2
  <2> QED BY <1>1, <1>2, <2>1, <2>2, <2>3, <2>4 DEF LoopAt
<1> QED BY <1>4, <1>5

\* Where the loop stops, every collection that ends has ended.
LEMMA StopFacts ==
  ASSUME NEW d \in Seq(Items), NEW k \in 1..Len(d) + 1,
         k \in 1..Len(d) => d[k] = Torn
  PROVE  Chosen(d, k) = Wanted(d)
<1>1. ASSUME NEW e \in Ends(d) PROVE e < k
  <2>1. e \in 1..Len(d) /\ d[e].is = "close" /\ Before(d, e, {"torn"}) = {} /\ Len(d) \in Nat
    BY DEF Ends
  <2>2. CASE k = Len(d) + 1
    BY <2>1, <2>2
  <2>3. CASE k # Len(d) + 1
    <3>1. k \in 1..Len(d) /\ d[k].is = "torn"
      BY <2>1, <2>3, ItemFacts
    <3>2. k # e
      BY <2>1, <3>1
    <3>3. ~(k < e)
      BY <2>1, <3>1 DEF Before
    <3> QED BY <2>1, <3>1, <3>2, <3>3
  <2> QED BY <2>2, <2>3
<1> QED BY <1>1 DEF Chosen, Wanted

LEMMA StoppedStep ==
  ASSUME StripInv, Stripped
  PROVE  StripInv'
<1> DEFINE d == reportMap
           W == Wanted(d)
<1>1. /\ d \in Seq(Items) /\ LoopAt /\ i \in 1..Len(d) + 1
      /\ d' = d /\ origin' = origin /\ origin \in Descriptors /\ phase' = "stripped"
      /\ i \in 1..Len(d) => d[i] = Torn
  BY DEF StripInv, Stripped, LoopAt
<1>2. Chosen(d, i) = W
  BY <1>1, StopFacts
<1>3. Selects(kept, W, d)
  BY <1>1, <1>2 DEF LoopAt
<1>4. W \in SUBSET (1..Len(d)) /\ Len(d) \in Nat
  BY <1>1 DEF Wanted
<1>5. descriptor' = IF kept = <<>> THEN d ELSE kept
  BY DEF Stripped
<1>6. kept = <<>> <=> W = {}
  <2>1. Cardinality({}) = 0 /\ (Cardinality(W) = 0 => W = {})
    BY <1>4, RankFacts, FS_EmptySet
  <2> HIDE DEF W
  <2>2. kept \in Seq(Items) /\ Len(kept) = Cardinality(W)
    BY <1>1, <1>3 DEF LoopAt, Selects
  <2>3. kept = <<>> <=> Len(kept) = 0
    BY <2>2
  <2> QED BY <2>1, <2>2, <2>3
<1>7. StripsDigitizers'
  BY <1>1, <1>3, <1>5, <1>6 DEF StripsDigitizers, Selects, Rank
<1> QED BY <1>1, <1>7 DEF StripInv

LEMMA StripsStep == StripInv /\ [Next]_vars => StripInv'
<1> SUFFICES ASSUME StripInv, [Next]_vars PROVE StripInv'
  OBVIOUS
<1> USE DEF loop, made, reports
<1>1. CASE UNCHANGED vars
  BY <1>1 DEF vars, StripInv, LoopAt, StripsDigitizers
<1>2. CASE GetMap
  <2>1. /\ origin' = origin /\ UNCHANGED loop /\ phase = "none" /\ phase' \in {"mapped", "gone"}
        /\ reportMap' \in Seq(Items)
    BY <1>2, DescriptorAssumption DEF GetMap, StripInv
  <2> QED BY <2>1 DEF StripInv, StripsDigitizers
<1>3. CASE Inject
  <2>1. /\ origin' = origin /\ UNCHANGED loop /\ phase = "mapped" /\ phase' = "stripping"
        /\ reportMap' \in Seq(Items)
    BY <1>3, InjectedType DEF Inject, StripInv
  <2>2. LoopAt'
    BY <2>1, LoopStarts DEF StripInv
  <2> QED BY <2>1, <2>2 DEF StripInv, StripsDigitizers
<1>4. CASE Strip
  <2>1. LoopAt'
    BY <1>4, StripStep
  <2>2. phase' = "stripping" /\ UNCHANGED <<origin, reportMap>>
    BY <1>4 DEF Strip
  <2> QED BY <2>1, <2>2 DEF StripInv, StripsDigitizers
<1>5. CASE Create \/ Destroy
  <2>1. UNCHANGED <<origin, reportMap, loop>> /\ phase' \in {"up", "failed", "gone"}
    BY <1>5 DEF Create, Destroy
  <2> QED BY <2>1 DEF StripInv, StripsDigitizers
<1>6. ASSUME NEW rid \in DOMAIN held, NEW value \in Values, Report(rid, value)
      PROVE  StripInv'
  <2>1. UNCHANGED <<phase, origin, reportMap, loop, descriptor>>
    BY <1>6 DEF Report
  <2> QED BY <2>1 DEF StripInv, LoopAt, StripsDigitizers
<1> QED BY <1>1, <1>2, <1>3, <1>4, <1>5, <1>6, StoppedStep DEF Next

\* Of every descriptor, however malformed, what goes to the kernel is the
\* closed collections without a digitizer, whole and in their order, or the
\* descriptor as it came when there is none (uhid_handler.py:16-75).
THEOREM DigitizersAreStripped == Spec => []StripsDigitizers
<1>1. Init => StripInv
  BY DescriptorAssumption DEF Init, StripInv, StripsDigitizers
<1>2. StripInv => StripsDigitizers
  BY DEF StripInv
<1> QED BY <1>1, <1>2, StripsStep, PTL DEF Spec

-----------------------------------------------------------------------------
(* Types                                                                     *)

LEMMA ItemNumbers ==
  ASSUME NEW d \in Seq(Items)
  PROVE  Shown(d) \in SUBSET Nat /\ RidsOf(d) \in SUBSET Nat
<1>1. \A item \in Items : item.n \in Nat
  BY DEF Items, Kinds, Torn, Item
<1>2. ToSet(d) \subseteq Items
  BY DEF ToSet
<1> QED BY <1>1, <1>2 DEF Shown, RidsOf, Declared

LEMMA WiderSeq ==
  ASSUME NEW S, NEW T, S \subseteq T, NEW s \in Seq(S)
  PROVE  s \in Seq(T)
OBVIOUS

LEMMA ValueTypes == \A value \in Values : value \in Seq(Nat)
<1>1. 0..255 \subseteq Nat
  OBVIOUS
<1> QED BY <1>1, WiderSeq, ValueAssumption

\* Whatever is forwarded is a sequence of bytes and report IDs.
LEMMA ForwardedType ==
  ASSUME TypeOK, NEW rid \in DOMAIN held, NEW value \in Values
  PROVE  /\ Forwarded(rid, value) \in Seq(Nat) /\ Forwarded(rid, value) # <<>>
         /\ Tail(Forwarded(rid, value)) \in Seq(Nat)
<1>1. value \in Seq(Nat) /\ value # <<>>
  BY ValueTypes, ValueAssumption
<1>2. rid \in Nat
  <2>1. origin \in Seq(Items) /\ DOMAIN held = RidsOf(origin)
    BY DEF TypeOK
  <2> QED BY <2>1, ItemNumbers
<1>3. ScannedIds \in SUBSET Nat /\ ScannedIds # {}
  <2>1. Shown(reportMap) \in SUBSET Nat
    BY ItemNumbers DEF TypeOK
  <2>2. {1, 5} \in SUBSET Nat /\ {1, 5} # {} /\ ids \in SUBSET Nat
    BY DEF TypeOK
  <2> QED BY <2>1, <2>2 DEF ScannedIds
<1>4. \A n \in Nat : <<n>> \o value \in Seq(Nat) /\ <<n>> \o value # <<>>
  BY <1>1
<1>5. Translated(rid, value) \in Seq(Nat) /\ Translated(rid, value) # <<>>
  <2>1. \A u \in {233, 234, 547} : KeyOf[u] \in Nat
    BY DEF KeyOf
  <2>2. DOMAIN KeyOf = {233, 234, 547}
    BY DEF KeyOf
  <2>3. \A n \in Nat : <<5, 0, n>> \in Seq(Nat) /\ <<5, 0, n>> # <<>>
    OBVIOUS
  <2> QED BY <1>2, <1>4, <2>1, <2>2, <2>3 DEF Translated
<1>6. Min(ScannedIds) \in Nat
  <2>1. PICK k \in ScannedIds : \A l \in ScannedIds : k <= l
    BY <1>3, LeastNatural
  <2> QED BY <1>3, <2>1 DEF Min
<1>7. ASSUME NEW ks PROVE /\ Min(ks) \in Nat => /\ Remapped(rid, value, ks) \in Seq(Nat)
                                               /\ Remapped(rid, value, ks) # <<>>
  BY <1>1, <1>2, <1>4, <1>5 DEF Remapped
<1>8. Forwarded(rid, value) \in Seq(Nat) /\ Forwarded(rid, value) # <<>>
  BY <1>1, <1>2, <1>4, <1>6, <1>7 DEF Forwarded
<1> QED BY <1>8, HeadTailProperties

LEMMA TypeStep == TypeOK /\ Shape /\ StripInv /\ [Next]_vars => TypeOK'
<1> SUFFICES ASSUME TypeOK, Shape, StripInv, [Next]_vars PROVE TypeOK'
  OBVIOUS
<1> USE DEF loop, made, reports
<1>1. CASE UNCHANGED vars
  BY <1>1 DEF vars, TypeOK
<1>2. CASE GetMap
  <2>1. reportMap' \in Seq(Items) /\ phase' \in {"mapped", "gone"}
    BY <1>2, DescriptorAssumption DEF GetMap, TypeOK
  <2>2. i = 1 /\ start = 1
    BY <1>2 DEF StripInv, GetMap
  <2> QED BY <1>2, <2>1, <2>2 DEF GetMap, TypeOK, Phases
<1>3. CASE Inject
  <2>1. reportMap' \in Seq(Items)
    BY <1>3, InjectedType DEF Inject, TypeOK
  <2>2. i = 1 /\ start = 1
    BY <1>3 DEF StripInv, Inject
  <2> QED BY <1>3, <2>1, <2>2 DEF Inject, TypeOK, Phases
<1>4. CASE Strip
  <2>1. LoopAt'
    BY <1>4, StripStep
  <2>2. start' \in 1..i'
    <3>1. reportMap' \in Seq(Items) /\ i' \in 1..Len(reportMap') + 1
      BY <1>4, <2>1 DEF Strip, TypeOK, LoopAt
    <3>2. First(reportMap', i') \in 1..i'
      BY <3>1, FirstFacts
    <3> QED BY <2>1, <3>2 DEF LoopAt
  <2>3. depth' \in Int
    BY <1>4 DEF Strip, TypeOK
  <2>4. tainted' \in BOOLEAN /\ kept' \in Seq(Items) /\ i' \in 1..Len(reportMap') + 1
    BY <2>1 DEF LoopAt
  <2> QED BY <1>4, <2>2, <2>3, <2>4 DEF Strip, TypeOK
<1>5. CASE Stripped
  <2>1. descriptor' \in Seq(Items) /\ Len(reportMap) \in Nat
    BY <1>5 DEF Stripped, TypeOK
  <2>2. phase = "stripping" /\ phase' = "stripped" /\ kernel' = kernel
    BY <1>5 DEF Stripped
  <2>3. kernel' \in [{} -> Seq(Nat)]
    BY <2>2 DEF TypeOK
  <2>4. 1 \in 1..Len(reportMap) + 1 /\ 1 \in 1..1 /\ <<>> \in Seq(Items)
    BY <2>1
  <2>5. /\ i' = 1 /\ start' = 1 /\ depth' = 0 /\ tainted' = FALSE /\ kept' = <<>>
        /\ UNCHANGED <<proto, origin, reportMap, pointer, ids, held, lost>>
    BY <1>5 DEF Stripped
  <2>6. kernel' \in [IF phase' = "up" THEN RidsOf(descriptor') ELSE {} -> Seq(Nat)]
    BY <2>2, <2>3
  <2>7. tainted' \in BOOLEAN /\ pointer' \in BOOLEAN /\ lost' \in BOOLEAN
    BY <2>5 DEF TypeOK
  <2>8. phase' \in Phases /\ phase' # "up"
    BY <2>2 DEF Phases
  <2>9. {origin', reportMap'} \subseteq Seq(Items) /\ depth' \in Int /\ kept' \in Seq(Items)
    BY <2>4, <2>5 DEF TypeOK
  <2>10. i' \in 1..Len(reportMap') + 1 /\ start' \in 1..i'
    BY <2>4, <2>5
  <2>11. /\ proto' \in {"ble", "classic"} /\ ids' \in SUBSET Nat
         /\ held' \in [RidsOf(origin') -> Seq(Nat)]
    BY <2>5 DEF TypeOK
  <2> QED BY <2>1, <2>6, <2>7, <2>8, <2>9, <2>10, <2>11 DEF TypeOK
<1>6. CASE Create
  <2>1. pointer' \in BOOLEAN
    BY <1>6 DEF Create, TypeOK, IsPointer
  <2>2. <<0>> \in Seq(Nat)
    OBVIOUS
  <2> QED BY <1>6, <2>1, <2>2 DEF Create, TypeOK, Phases
<1>7. CASE Destroy
  <2>1. kernel' = <<>> /\ kernel' \in [{} -> Seq(Nat)]
    BY <1>7 DEF Destroy
  <2> QED BY <1>7, <2>1 DEF Destroy, TypeOK, Phases
<1>8. ASSUME NEW rid \in DOMAIN held, NEW value \in Values, Report(rid, value)
      PROVE  TypeOK'
  <2>1. held' \in [RidsOf(origin) -> Seq(Nat)]
    BY <1>8, ValueTypes DEF Report, TypeOK
  <2>2. ids' \in SUBSET Nat
    BY <1>8, ItemNumbers DEF Report, TypeOK, ScannedIds
  <2>3. kernel' \in [IF phase = "up" THEN RidsOf(descriptor) ELSE {} -> Seq(Nat)]
    <3> DEFINE data == Forwarded(rid, value)
    <3>1. data \in Seq(Nat) /\ Tail(data) \in Seq(Nat)
      BY ForwardedType
    <3>2. CASE phase = "up"
      <4> HIDE DEF data
      <4>1. \/ kernel' = kernel
            \/ \E r \in Nat, v \in {data, Tail(data)} : kernel' = [kernel EXCEPT ![r] = v]
        <5>1. kernel' = kernel \/ KernelTakes(data)
          BY <1>8, <3>2 DEF Report, data
        <5>2. data[1] \in Declared(descriptor) => data[1] \in Nat
          <6>1. RidsOf(descriptor) \in SUBSET Nat
            BY ItemNumbers DEF TypeOK
          <6> QED BY <6>1 DEF RidsOf
        <5> QED BY <5>1, <5>2 DEF KernelTakes
      <4>2. kernel \in [RidsOf(descriptor) -> Seq(Nat)]
        BY <3>2 DEF TypeOK
      <4>3. \A f \in [RidsOf(descriptor) -> Seq(Nat)], r, v \in Seq(Nat) :
              [f EXCEPT ![r] = v] \in [RidsOf(descriptor) -> Seq(Nat)]
        OBVIOUS
      <4>4. kernel' \in [RidsOf(descriptor) -> Seq(Nat)]
        BY <3>1, <4>1, <4>2, <4>3
      <4> QED BY <3>2, <4>4
    <3>3. CASE phase # "up"
      BY <1>8, <3>3 DEF Report, TypeOK
    <3> QED BY <3>2, <3>3
  <2>4. lost' \in BOOLEAN
    BY <1>8 DEF Report, TypeOK
  <2> QED BY <1>8, <2>1, <2>2, <2>3, <2>4 DEF Report, TypeOK
<1> QED BY <1>1, <1>2, <1>3, <1>4, <1>5, <1>6, <1>7, <1>8 DEF Next

\* Every variable keeps its type, the loop's segment starts no later than the
\* item it is at, and the kernel has accepted no descriptor over its limit, for
\* any descriptors, fallback and values (uhid_handler.py:16-75, 230).
THEOREM TypeCorrect == Spec => []TypeOK
<1>1. Init => TypeOK /\ Shape /\ StripInv
  <2>1. ASSUME Init PROVE TypeOK
    <3>1. /\ <<>> \in Seq(Items) /\ <<0, 0>> \in Seq(Nat) /\ Len(<<>>) = 0
          /\ 1 \in 1..0 + 1 /\ 1 \in 1..1
      OBVIOUS
    <3>2. kernel = <<>> /\ kernel \in [{} -> Seq(Nat)]
      BY <2>1 DEF Init
    <3>3. held \in [RidsOf(origin) -> Seq(Nat)]
      BY <2>1, <3>1 DEF Init
    <3>4. phase = "none" /\ origin \in Seq(Items) /\ reportMap = <<>> /\ MaxDescriptor \in Nat
      BY <2>1, DescriptorAssumption, SizeAssumption DEF Init
    <3>5. ids \in SUBSET Nat
      BY <2>1 DEF Init
    <3>6. kernel \in [IF phase = "up" THEN RidsOf(descriptor) ELSE {} -> Seq(Nat)]
      BY <3>2, <3>4
    <3>7. tainted \in BOOLEAN /\ pointer \in BOOLEAN /\ lost \in BOOLEAN
      BY <2>1 DEF Init
    <3>8. phase \in Phases /\ phase # "up"
      BY <3>4 DEF Phases
    <3>9. /\ {origin, reportMap} \subseteq Seq(Items) /\ depth \in Int /\ kept \in Seq(Items)
          /\ descriptor \in Seq(Items) /\ proto \in {"ble", "classic"}
      BY <2>1, <3>1, <3>4 DEF Init
    <3>10. i \in 1..Len(reportMap) + 1 /\ start \in 1..i
      BY <2>1, <3>1 DEF Init
    <3> QED BY <3>3, <3>5, <3>6, <3>7, <3>8, <3>9, <3>10 DEF TypeOK
  <2>2. Init => Shape
    BY DEF Init, Shape
  <2>3. Init => StripInv
    BY DescriptorAssumption DEF Init, StripInv, StripsDigitizers
  <2> QED BY <2>1, <2>2, <2>3
<1>2. TypeOK /\ Shape /\ StripInv /\ [Next]_vars => (TypeOK /\ Shape /\ StripInv)'
  BY TypeStep, ShapeStep, StripsStep
<1> QED BY <1>1, <1>2, PTL DEF Spec

-----------------------------------------------------------------------------
(* No digitizer page is left                                                 *)

NoDigitizer(d) == \A k \in 1..Len(d) : d[k] # Page(Digitizer)

\* What is taken out for good: a descriptor that keeps anything has no Digitizer
\* usage page in it.
DigitizerGone == phase = "stripped" => descriptor = reportMap \/ NoDigitizer(descriptor)

GoneInv == NoDigitizer(kept) /\ DigitizerGone

LEMMA GoneStrip ==
  ASSUME StripInv, GoneInv, Strip
  PROVE  GoneInv'
<1> DEFINE d == reportMap
           bad == tainted \/ d[i] = Page(Digitizer)
           more == SubSeq(d, start, i)
<1>1. /\ d \in Seq(Items) /\ LoopAt /\ i \in 1..Len(d) /\ d[i] # Torn /\ Len(d) \in Nat
      /\ kept \in Seq(Items) /\ phase' = "stripping" /\ NoDigitizer(kept)
  BY DEF StripInv, Strip, GoneInv, LoopAt
<1>2. start = First(d, i) /\ start \in 1..i /\ (Clean(d, i) <=> ~bad)
  BY <1>1, FirstFacts, EndsHere DEF LoopAt
<1>3. kept' = kept \/ (~bad /\ kept' = kept \o more)
  BY DEF Strip
<1>4. ASSUME ~bad PROVE NoDigitizer(kept \o more)
  <2>1. \A j \in start..i : d[j] # Page(Digitizer)
    BY <1>2, <1>4 DEF Clean
  <2>2. /\ more \in Seq(Items) /\ Len(more) = i - start + 1
        /\ \A k \in 1..Len(more) : more[k] = d[start + k - 1]
    BY <1>1, <1>2
  <2>3. \A k \in 1..Len(more) : more[k] # Page(Digitizer)
    <3>1. \A k \in 1..i - start + 1 : start + k - 1 \in start..i
      BY <1>1, <1>2
    <3> HIDE DEF more
    <3> QED BY <2>1, <2>2, <3>1
  <2> HIDE DEF more
  <2>4. /\ Len(kept \o more) = Len(kept) + Len(more)
        /\ \A k \in 1..Len(kept) + Len(more) :
             (kept \o more)[k] = IF k <= Len(kept) THEN kept[k] ELSE more[k - Len(kept)]
    BY <1>1, <2>2, ConcatProperties
  <2>5. ASSUME NEW k \in 1..Len(kept) + Len(more) PROVE (kept \o more)[k] # Page(Digitizer)
    <3>1. Len(kept) \in Nat /\ Len(more) \in Nat
      BY <1>1, <2>2
    <3>2. CASE k <= Len(kept)
      BY <1>1, <2>4, <3>1, <3>2 DEF NoDigitizer
    <3>3. CASE ~(k <= Len(kept))
      <4>1. k - Len(kept) \in 1..Len(more)
        BY <3>1, <3>3
      <4> QED BY <2>3, <2>4, <3>3, <4>1
    <3> QED BY <3>2, <3>3
  <2> QED BY <2>4, <2>5 DEF NoDigitizer
<1> HIDE DEF bad, more
<1>5. NoDigitizer(kept')
  BY <1>1, <1>3, <1>4
<1> QED BY <1>1, <1>5 DEF GoneInv, DigitizerGone, NoDigitizer

LEMMA GoneStep == StripInv /\ GoneInv /\ [Next]_vars => GoneInv'
<1> SUFFICES ASSUME StripInv, GoneInv, [Next]_vars PROVE GoneInv'
  OBVIOUS
<1> USE DEF loop, made, reports, NoDigitizer
<1>1. CASE UNCHANGED vars
  BY <1>1 DEF vars, GoneInv, DigitizerGone
<1>2. CASE GetMap \/ Inject \/ Create \/ Destroy
  <2>1. kept' = kept /\ phase' # "stripped"
    BY <1>2 DEF GetMap, Inject, Create, Destroy
  <2> QED BY <2>1 DEF GoneInv, DigitizerGone
<1>3. CASE Stripped
  BY <1>3 DEF Stripped, GoneInv, DigitizerGone
<1>4. ASSUME NEW rid \in DOMAIN held, NEW value \in Values, Report(rid, value)
      PROVE  GoneInv'
  BY <1>4 DEF Report, GoneInv, DigitizerGone
<1> QED BY <1>1, <1>2, <1>3, <1>4, GoneStrip DEF Next

\* "A Digitizer must never reach the Kindle" (uhid_handler.py:16): a descriptor
\* of which anything was dropped has no Digitizer usage page, on
\* whatever level; one that has it goes through only as it came.
THEOREM NoDigitizerLeft == Spec => []DigitizerGone
<1>1. Init => StripInv /\ GoneInv
  <2>1. Init => StripInv
    BY DescriptorAssumption DEF Init, StripInv, StripsDigitizers
  <2>2. Init => GoneInv
    BY DEF Init, GoneInv, NoDigitizer, DigitizerGone
  <2> QED BY <2>1, <2>2
<1>2. StripInv /\ GoneInv /\ [Next]_vars => (StripInv /\ GoneInv)'
  BY StripsStep, GoneStep
<1>3. GoneInv => DigitizerGone
  BY DEF GoneInv
<1> QED BY <1>1, <1>2, <1>3, PTL DEF Spec

==============================================================================
