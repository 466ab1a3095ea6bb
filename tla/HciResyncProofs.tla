-------------------------- MODULE HciResyncProofs --------------------------
(* What the resync parser does with any bytes, split into any reads.        *)
EXTENDS HciResync, SequenceTheorems, TLAPS

\* The bytes of the wire that were there before this call of feed_data().
Before == Len(wire) - Len(data)
Prior == SubSeq(wire, gone + 1, Before)

\* What was held when this call began, nothing of it taken yet.
StillHeld == gone < Before /\ ~Hopeless(Prior) /\ ~Complete(Prior)

CallInv ==
  pc = "parsing" =>
    /\ Len(data) <= Len(wire)
    /\ \A i \in 1 .. Len(wire) : i > Before => at[i] = fed
    /\ since = Never => gone >= Before
    /\ since # Never => StillHeld \/ Before <= gone + 3

IdleInv ==
  pc = "idle" =>
    /\ buffer # <<>> => since # Never
    /\ ~Hopeless(buffer) /\ ~Complete(buffer)

\* Unless a byte was dropped under it, the timer has a byte it runs for.
TimerInv ==
  since # Never /\ ~slipped =>
    /\ gone < Len(wire) /\ since = at[gone + 1]
    /\ pc = "parsing" => StillHeld

ClockInv == fed <= now /\ since <= fed

IInv == TypeOK /\ ParsesWire /\ ClockInv /\ CallInv /\ IdleInv /\ TimerInv

-----------------------------------------------------------------------------
(* Sequences of bytes                                                       *)

Suffix(w, n) == SubSeq(w, n + 1, Len(w))

LEMMA SubSeqFacts ==
  ASSUME NEW w \in Seq(Byte), NEW m \in Nat, NEW n \in 0 .. Len(w)
  PROVE  /\ SubSeq(w, m + 1, n) \in Seq(Byte)
         /\ Len(SubSeq(w, m + 1, n)) = IF m < n THEN n - m ELSE 0
         /\ \A i \in 1 .. n - m : SubSeq(w, m + 1, n)[i] = w[m + i]
<1>1. \A i \in m + 1 .. n : w[i] \in Byte
  BY ElementOfSeq, LenProperties
<1>2. /\ SubSeq(w, m + 1, n) \in Seq(Byte)
      /\ Len(SubSeq(w, m + 1, n)) = IF m + 1 <= n THEN n - (m + 1) + 1 ELSE 0
      /\ \A i \in 1 .. n - (m + 1) + 1 : SubSeq(w, m + 1, n)[i] = w[m + 1 + i - 1]
  BY <1>1, SubSeqProperties, LenProperties
<1> QED
  BY <1>2, LenProperties

LEMMA SuffixFacts ==
  ASSUME NEW w \in Seq(Byte), NEW n \in 0 .. Len(w)
  PROVE  /\ Suffix(w, n) \in Seq(Byte)
         /\ Len(Suffix(w, n)) = Len(w) - n
         /\ \A i \in 1 .. Len(w) - n : Suffix(w, n)[i] = w[n + i]
  BY SubSeqFacts, LenProperties DEF Suffix

LEMMA SuffixOfConcat ==
  ASSUME NEW w \in Seq(Byte), NEW c \in Seq(Byte), NEW n \in 0 .. Len(w)
  PROVE  Suffix(w \o c, n) = Suffix(w, n) \o c
<1> DEFINE d == w \o c
           v == Suffix(w, n)
           s == Suffix(d, n)
           t == v \o c
<1>1. Len(w) \in Nat /\ Len(c) \in Nat /\ n \in Nat /\ n <= Len(w)
  BY LenProperties
<1>2. /\ d \in Seq(Byte) /\ Len(d) = Len(w) + Len(c)
      /\ \A i \in 1 .. Len(w) + Len(c) : d[i] = IF i <= Len(w) THEN w[i] ELSE c[i - Len(w)]
  BY ConcatProperties
<1>3. /\ v \in Seq(Byte) /\ Len(v) = Len(w) - n
      /\ \A i \in 1 .. Len(w) - n : v[i] = w[n + i]
  BY SuffixFacts
<1> HIDE DEF d, v
<1>4. n \in 0 .. Len(d)
  BY <1>1, <1>2
<1>5. /\ s \in Seq(Byte) /\ Len(s) = Len(d) - n
      /\ \A i \in 1 .. Len(d) - n : s[i] = d[n + i]
  BY <1>2, <1>4, SuffixFacts
<1>6. /\ t \in Seq(Byte) /\ Len(t) = Len(v) + Len(c)
      /\ \A i \in 1 .. Len(v) + Len(c) : t[i] = IF i <= Len(v) THEN v[i] ELSE c[i - Len(v)]
  BY <1>3, ConcatProperties
<1> HIDE DEF s, t
<1>7. Len(s) = Len(w) + Len(c) - n /\ Len(t) = Len(s)
  BY <1>1, <1>2, <1>3, <1>5, <1>6
<1>8. ASSUME NEW i \in 1 .. Len(s)
      PROVE  s[i] = t[i]
  <2>1. i \in Nat /\ 1 <= i /\ i <= Len(w) + Len(c) - n
    BY <1>1, <1>7
  <2>2. s[i] = d[n + i] /\ n + i \in 1 .. Len(w) + Len(c)
    BY <1>1, <1>2, <1>5, <2>1
  <2>3. CASE i <= Len(w) - n
    <3>1. d[n + i] = w[n + i]
      BY <1>1, <1>2, <2>2, <2>3
    <3>2. t[i] = v[i] /\ v[i] = w[n + i]
      BY <1>1, <1>3, <1>6, <2>1, <2>3
    <3> QED BY <2>2, <3>1, <3>2
  <2>4. CASE i > Len(w) - n
    <3>1. d[n + i] = c[n + i - Len(w)]
      BY <1>1, <1>2, <2>1, <2>2, <2>4
    <3>2. t[i] = c[i - Len(v)]
      BY <1>1, <1>3, <1>6, <2>1, <2>4
    <3>3. i - Len(v) = n + i - Len(w)
      BY <1>1, <1>3, <2>1
    <3> QED BY <2>2, <3>1, <3>2, <3>3
  <2> QED BY <1>1, <2>1, <2>3, <2>4
<1>9. s = t
  BY <1>5, <1>6, <1>7, <1>8, SeqEqual
<1> QED BY <1>9 DEF s, t, d, v

LEMMA SuffixOfSuffix ==
  ASSUME NEW w \in Seq(Byte), NEW n \in 0 .. Len(w), NEW m \in 0 .. Len(w) - n
  PROVE  Suffix(Suffix(w, n), m) = Suffix(w, n + m)
<1> DEFINE v == Suffix(w, n)
           s == Suffix(v, m)
           t == Suffix(w, n + m)
<1>1. /\ v \in Seq(Byte) /\ Len(v) = Len(w) - n
      /\ \A i \in 1 .. Len(w) - n : v[i] = w[n + i]
  BY SuffixFacts
<1> HIDE DEF v
<1>2. Len(w) \in Nat /\ m \in 0 .. Len(v) /\ n + m \in 0 .. Len(w)
  BY <1>1, LenProperties
<1>3. /\ s \in Seq(Byte) /\ Len(s) = Len(v) - m
      /\ \A i \in 1 .. Len(v) - m : s[i] = v[m + i]
  BY <1>1, <1>2, SuffixFacts
<1>4. /\ t \in Seq(Byte) /\ Len(t) = Len(w) - (n + m)
      /\ \A i \in 1 .. Len(w) - (n + m) : t[i] = w[n + m + i]
  BY <1>2, SuffixFacts
<1> HIDE DEF s, t
<1>5. \A i \in 1 .. Len(s) : s[i] = t[i]
  <2> TAKE i \in 1 .. Len(s)
  <2>1. i \in 1 .. Len(w) - n - m /\ m + i \in 1 .. Len(w) - n
    BY <1>1, <1>2, <1>3
  <2>2. s[i] = v[m + i] /\ v[m + i] = w[n + (m + i)] /\ t[i] = w[n + m + i]
    BY <1>1, <1>2, <1>3, <1>4, <2>1
  <2> QED BY <2>1, <2>2, <1>2
<1>6. s = t
  BY <1>1, <1>2, <1>3, <1>4, <1>5, SeqEqual
<1> QED BY <1>6 DEF s, t, v

-----------------------------------------------------------------------------
(* Packets                                                                  *)

LEMMA PacketFacts ==
  ASSUME NEW b \in Seq(Byte), b # <<>>
  PROVE  /\ Len(b) \in Nat \ {0} /\ b[1] \in Byte
         /\ Known(b) <=> b[1] \in {2, 4}
         /\ HasHeader(b) <=> (b[1] = 2 /\ Len(b) >= 5) \/ (b[1] = 4 /\ Len(b) >= 3)
         /\ b[1] = 2 => Body(b) = b[4] + 256 * b[5] /\ Total(b) = 5 + Body(b)
         /\ b[1] = 4 => Body(b) = b[3] /\ Total(b) = 3 + Body(b)
         /\ BadLength(b) <=> b[1] \in {2, 4} /\ HasHeader(b)
                              /\ Body(b) > (IF b[1] = 2 THEN 1024 ELSE 255)
         /\ HasHeader(b) => Body(b) \in Nat
<1>1. Len(b) \in Nat \ {0} /\ \A i \in 1 .. Len(b) : b[i] \in Byte
  BY EmptySeq, ElementOfSeq, LenProperties
<1>2. Known(b) <=> b[1] \in {2, 4}
  BY DEF Known, Info
<1>3. b[1] = 2 => InfoOf(b) = [header |-> 4, offset |-> 2, size |-> 2, longest |-> 1024]
  BY DEF InfoOf, Info
<1>4. b[1] = 4 => InfoOf(b) = [header |-> 2, offset |-> 1, size |-> 1, longest |-> 255]
  BY DEF InfoOf, Info
<1>5. HasHeader(b) <=> (b[1] = 2 /\ Len(b) >= 5) \/ (b[1] = 4 /\ Len(b) >= 3)
  BY <1>1, <1>2, <1>3, <1>4 DEF HasHeader
<1>6. b[1] = 2 => Body(b) = b[4] + 256 * b[5] /\ Total(b) = 5 + Body(b)
  BY <1>3 DEF Body, Total
<1>7. b[1] = 4 => Body(b) = b[3] /\ Total(b) = 3 + Body(b)
  BY <1>4 DEF Body, Total
<1>8. HasHeader(b) => Body(b) \in Nat
  <2>1. CASE b[1] = 2 /\ Len(b) >= 5
    <3>1. b[4] \in Byte /\ b[5] \in Byte
      BY <2>1, <1>1
    <3>2. Body(b) = b[4] + 256 * b[5]
      BY <2>1, <1>6
    <3>3. \A x, y \in Byte : x + 256 * y \in Nat
      BY DEF Byte
    <3> QED BY <3>1, <3>2, <3>3
  <2>2. CASE b[1] = 4 /\ Len(b) >= 3
    <3>1. b[3] \in Byte
      BY <2>2, <1>1
    <3>2. Byte \subseteq Nat
      BY DEF Byte
    <3> QED BY <3>1, <3>2, <2>2, <1>7
  <2> QED BY <2>1, <2>2, <1>5
<1>9. BadLength(b) <=> b[1] \in {2, 4} /\ HasHeader(b)
                       /\ Body(b) > (IF b[1] = 2 THEN 1024 ELSE 255)
  BY <1>3, <1>4, <1>5 DEF BadLength
<1> QED BY <1>1, <1>2, <1>5, <1>6, <1>7, <1>8, <1>9

\* What is begun is told apart by its first bytes only.
LEMMA PrefixFacts ==
  ASSUME NEW p \in Seq(Byte), p # <<>>, NEW b \in Seq(Byte), Len(p) <= Len(b),
         \A i \in 1 .. Len(p) : b[i] = p[i]
  PROVE  /\ b # <<>>
         /\ Hopeless(p) => Hopeless(b)
         /\ Complete(p) => Complete(b) /\ Total(b) = Total(p)
         /\ ~Hopeless(p) /\ Hopeless(b) => Len(p) <= 4
         /\ ~Hopeless(p) /\ ~Complete(p) /\ Complete(b) => Total(b) > Len(p)
<1>1. Len(p) \in Nat \ {0} /\ Len(b) \in Nat \ {0} /\ b # <<>> /\ b[1] = p[1]
  <2>1. Len(p) \in Nat \ {0} /\ Len(b) \in Nat
    BY PacketFacts, LenProperties
  <2>2. b # <<>>
    BY <2>1, EmptySeq
  <2> QED BY <2>1, <2>2
<1>2. HasHeader(p) => HasHeader(b) /\ Body(b) = Body(p) /\ Total(b) = Total(p)
  <2>1. CASE p[1] = 2 /\ Len(p) >= 5
    <3>1. b[4] = p[4] /\ b[5] = p[5]
      BY <2>1, <1>1
    <3>2. HasHeader(b) /\ Body(b) = Body(p)
      BY <3>1, <2>1, <1>1, PacketFacts
    <3> QED BY <3>2, <2>1, <1>1, PacketFacts
  <2>2. CASE p[1] = 4 /\ Len(p) >= 3
    <3>1. b[3] = p[3]
      BY <2>2, <1>1
    <3>2. HasHeader(b) /\ Body(b) = Body(p)
      BY <3>1, <2>2, <1>1, PacketFacts
    <3> QED BY <3>2, <2>2, <1>1, PacketFacts
  <2> QED BY <2>1, <2>2, <1>1, PacketFacts
<1>3. HasHeader(p) => (BadLength(p) <=> BadLength(b))
  BY <1>1, <1>2, PacketFacts
<1>4. Known(p) <=> Known(b)
  BY <1>1, PacketFacts
<1>5. Hopeless(p) => Hopeless(b)
  BY <1>1, <1>3, <1>4, PacketFacts DEF Hopeless
<1>6. Complete(p) => Complete(b) /\ Total(b) = Total(p)
  <2>1. HasHeader(p) => Total(p) \in Nat
    BY PacketFacts
  <2> QED BY <1>1, <1>2, <1>3, <2>1 DEF Complete
<1>7. ~Hopeless(p) /\ Hopeless(b) => Len(p) <= 4
  BY <1>1, <1>3, <1>4, PacketFacts DEF Hopeless
<1>8. ~Hopeless(p) /\ ~Complete(p) /\ Complete(b) => Total(b) > Len(p)
  BY <1>1, <1>2, <1>3, <1>4, PacketFacts DEF Hopeless, Complete
<1> QED BY <1>1, <1>5, <1>6, <1>7, <1>8

\* A packet is three bytes at least, and what is there.
LEMMA CompleteFacts ==
  ASSUME NEW b \in Seq(Byte), Complete(b)
  PROVE  Total(b) \in 3 .. Len(b)
BY PacketFacts DEF Complete

LEMMA PartIsShort ==
  ASSUME NEW b \in Seq(Byte), b # <<>>, ~Hopeless(b), ~Complete(b)
  PROVE  Len(b) <= LongestPart
BY PacketFacts DEF Hopeless, Complete, LongestPart, Byte

-----------------------------------------------------------------------------
(* The invariant                                                            *)

LEMMA HistoryFacts ==
  ASSUME NEW c \in Seq(Byte), NEW t \in Nat
  PROVE  /\ [i \in 1 .. Len(c) |-> t] \in Seq(Nat)
         /\ Len([i \in 1 .. Len(c) |-> t]) = Len(c)
         /\ \A i \in 1 .. Len(c) : [j \in 1 .. Len(c) |-> t][i] = t
BY LenProperties

LEMMA FromFacts ==
  ASSUME TypeOK, NEW n \in 0 .. Len(wire)
  PROVE  From(n) = Suffix(wire, n) /\ From(n) \in Seq(Byte)
BY SuffixFacts DEF From, Suffix, TypeOK

LEMMA InitOK == Init => IInv
<1> SUFFICES ASSUME Init PROVE IInv
  OBVIOUS
<1>1. Len(<<>>) = 0 /\ <<>> \in Seq(Byte) /\ <<>> \in Seq(Nat)
  BY EmptySeq
<1>2. TypeOK
  <2>1. gone \in 0 .. Len(wire) /\ Len(at) = Len(wire)
    BY <1>1 DEF Init
  <2> QED BY <1>1, <2>1 DEF Init, TypeOK
<1>3. ParsesWire
  <2>1. From(0) = <<>>
    BY <1>1, SubSeqEmpty DEF Init, From
  <2> QED BY <1>1, <2>1 DEF Init, ParsesWire
<1>4. ClockInv /\ CallInv /\ IdleInv /\ TimerInv
  BY <1>1 DEF Init, ClockInv, CallInv, IdleInv, TimerInv, Never, Hopeless, Complete
<1> QED BY <1>2, <1>3, <1>4 DEF IInv

\* The parser starts afresh with the bytes c, none of them taken.
LEMMA AfreshFacts ==
  ASSUME TypeOK, NEW c \in Seq(Byte), Afresh(c), buffer' = c
  PROVE  /\ ParsesWire'
         /\ wire' \in Seq(Byte) /\ at' \in Seq(Nat) /\ Len(at') = Len(wire')
         /\ gone' \in 0 .. Len(wire') /\ packets' \subseteq [from : Nat, len : Nat]
         /\ slipped' \in BOOLEAN
<1>1. Len(c) \in Nat
  BY LenProperties
<1>2. From(0)' = c
  BY SubSeqFull DEF From, Afresh
<1>3. ParsesWire'
  BY <1>2 DEF ParsesWire, Afresh
<1>4. now \in Nat /\ wire' = c /\ at' = [i \in 1 .. Len(c) |-> now]
  BY DEF Afresh, TypeOK
<1>5. at' \in Seq(Nat) /\ Len(at') = Len(wire')
  BY <1>4, HistoryFacts
<1>6. gone' = 0 /\ packets' = {} /\ slipped' = FALSE
  BY DEF Afresh
<1>7. gone' \in 0 .. Len(wire')
  BY <1>1, <1>4, <1>6
<1>8. packets' \subseteq [from : Nat, len : Nat] /\ slipped' \in BOOLEAN
  BY <1>6
<1> QED BY <1>3, <1>4, <1>5, <1>7, <1>8

\* More bytes do not change what the bytes before them are.
LEMMA ParseGrows ==
  ASSUME TypeOK, ParsesWire, NEW c \in Seq(Byte),
         wire' = wire \o c, buffer' = buffer \o c, UNCHANGED <<gone, packets>>
  PROVE  ParsesWire'
<1>1. wire \in Seq(Byte) /\ Len(wire) \in Nat /\ gone \in 0 .. Len(wire)
  BY LenProperties DEF TypeOK
<1>2. \A n \in 0 .. Len(wire) :
        From(n) \in Seq(Byte) /\ From(n)' = From(n) \o c
  BY <1>1, FromFacts, SuffixOfConcat DEF From, Suffix
<1>3. ASSUME NEW n \in 0 .. Len(wire), Hopeless(From(n)) \/ Complete(From(n))
      PROVE  /\ Hopeless(From(n)) => Hopeless(From(n)')
             /\ Complete(From(n)) => Complete(From(n)') /\ Total(From(n)') = Total(From(n))
  <2> DEFINE p == From(n)
  <2>1. p \in Seq(Byte) /\ p # <<>> /\ From(n)' = p \o c
    BY <1>2, <1>3 DEF Hopeless, Complete
  <2> HIDE DEF p
  <2>2. p \o c \in Seq(Byte) /\ Len(p) <= Len(p \o c)
        /\ \A i \in 1 .. Len(p) : (p \o c)[i] = p[i]
    BY <2>1, ConcatProperties, LenProperties
  <2>3. /\ Hopeless(p) => Hopeless(p \o c)
        /\ Complete(p) => Complete(p \o c) /\ Total(p \o c) = Total(p)
    BY <2>1, <2>2, PrefixFacts
  <2> QED BY <2>1, <2>3 DEF p
<1>4. buffer' = From(gone)'
  BY <1>1, <1>2 DEF ParsesWire
<1>5. ASSUME NEW k \in packets
      PROVE  /\ Complete(From(k.from)') /\ k.len = Total(From(k.from)')
             /\ k.from + k.len <= gone
  <2>1. k.from \in Nat /\ k.len \in Nat
    BY DEF TypeOK
  <2>2. k.from + k.len <= gone /\ Complete(From(k.from)) /\ k.len = Total(From(k.from))
    BY DEF ParsesWire
  <2>3. k.from \in 0 .. Len(wire)
    BY <1>1, <2>1, <2>2
  <2> QED BY <1>3, <2>2, <2>3
<1>6. ASSUME NEW n \in 0 .. gone - 1
      PROVE  Hopeless(From(n)') \/ \E k \in packets : Within(k, n)
  <2>1. n \in 0 .. Len(wire)
    BY <1>1
  <2>2. Hopeless(From(n)) \/ \E k \in packets : Within(k, n)
    BY DEF ParsesWire
  <2> QED BY <1>3, <2>1, <2>2
<1>7. \A k, l \in packets : k = l \/ k.from + k.len <= l.from \/ l.from + l.len <= k.from
  BY DEF ParsesWire
<1> QED BY <1>4, <1>5, <1>6, <1>7 DEF ParsesWire, Within, From

LEMMA PriorFacts ==
  ASSUME TypeOK, ParsesWire, CallInv, pc = "parsing", gone < Before
  PROVE  /\ Prior \in Seq(Byte) /\ Prior # <<>> /\ buffer # <<>>
         /\ Len(Prior) = Before - gone /\ Len(Prior) <= Len(buffer)
         /\ \A i \in 1 .. Len(Prior) : buffer[i] = Prior[i]
<1>1. /\ wire \in Seq(Byte) /\ Len(wire) \in Nat /\ Len(data) \in Nat
      /\ Len(data) <= Len(wire) /\ gone \in 0 .. Len(wire)
  BY LenProperties DEF TypeOK, CallInv
<1>2. Before \in 0 .. Len(wire)
  BY <1>1 DEF Before
<1>3. /\ Prior \in Seq(Byte) /\ Len(Prior) = Before - gone
      /\ \A i \in 1 .. Before - gone : Prior[i] = wire[gone + i]
  BY <1>1, <1>2, SubSeqFacts DEF Prior
<1>4. /\ buffer \in Seq(Byte) /\ Len(buffer) = Len(wire) - gone
      /\ \A i \in 1 .. Len(wire) - gone : buffer[i] = wire[gone + i]
  BY <1>1, SuffixFacts DEF ParsesWire, From, Suffix
<1>5. Len(Prior) # 0 /\ Len(buffer) # 0 /\ Len(Prior) <= Len(buffer)
  BY <1>1, <1>2, <1>3, <1>4
<1>6. Prior # <<>> /\ buffer # <<>>
  BY <1>5, EmptySeq
<1>7. \A i \in 1 .. Len(Prior) : buffer[i] = Prior[i]
  BY <1>1, <1>2, <1>3, <1>4
<1> QED BY <1>3, <1>5, <1>6, <1>7

LEMMA FeedKeeps ==
  ASSUME IInv, NEW c \in Reads, Feed(c)
  PROVE  IInv'
<1>1. /\ TypeOK /\ ParsesWire /\ ClockInv /\ CallInv /\ IdleInv /\ TimerInv
      /\ c \in Seq(Byte) /\ Len(c) \in Nat
      /\ pc = "idle" /\ pc' = "parsing" /\ data' = c /\ fed' = now /\ now' = now
      /\ now \in Nat
  BY ReadsAssumption, LenProperties DEF IInv, Feed, TypeOK
<1>2. CASE Stale
  <2>1. buffer' = c /\ since' = Never /\ Afresh(c)
    BY <1>2 DEF Feed
  <2>2. /\ ParsesWire'
        /\ wire' \in Seq(Byte) /\ at' \in Seq(Nat) /\ Len(at') = Len(wire')
        /\ gone' \in 0 .. Len(wire') /\ packets' \subseteq [from : Nat, len : Nat]
        /\ slipped' \in BOOLEAN
    BY <1>1, <2>1, AfreshFacts
  <2>3. TypeOK'
    BY <1>1, <2>1, <2>2 DEF TypeOK
  <2>4. ClockInv'
    BY <1>1, <2>1 DEF ClockInv, Never
  <2>5. CallInv'
    <3>1. wire' = c /\ gone' = 0 /\ at' = [i \in 1 .. Len(c) |-> now]
      BY <2>1 DEF Afresh
    <3>2. Before' = 0
      BY <1>1, <3>1 DEF Before
    <3> QED BY <1>1, <2>1, <3>1, <3>2 DEF CallInv
  <2>6. IdleInv' /\ TimerInv'
    BY <1>1, <2>1 DEF IdleInv, TimerInv
  <2> QED BY <2>2, <2>3, <2>4, <2>5, <2>6 DEF IInv
<1>3. CASE ~Stale
  <2>1. /\ buffer' = buffer \o c /\ wire' = wire \o c
        /\ at' = at \o [i \in 1 .. Len(c) |-> now]
        /\ UNCHANGED <<since, gone, packets, slipped>>
    BY <1>3 DEF Feed
  <2>2. /\ wire \in Seq(Byte) /\ Len(wire) \in Nat /\ gone \in 0 .. Len(wire)
        /\ at \in Seq(Nat) /\ Len(at) = Len(wire) /\ buffer \in Seq(Byte)
    BY <1>1, LenProperties DEF TypeOK
  <2>3. /\ wire' \in Seq(Byte) /\ buffer' \in Seq(Byte)
        /\ Len(wire') = Len(wire) + Len(c)
    BY <1>1, <2>1, <2>2, ConcatProperties
  <2>4. /\ at' \in Seq(Nat) /\ Len(at') = Len(wire')
        /\ \A i \in 1 .. Len(wire) : at'[i] = at[i]
        /\ \A i \in 1 .. Len(wire') : i > Len(wire) => at'[i] = now
    <3> DEFINE a == [i \in 1 .. Len(c) |-> now]
    <3>1. a \in Seq(Nat) /\ Len(a) = Len(c) /\ \A i \in 1 .. Len(c) : a[i] = now
      BY <1>1, HistoryFacts
    <3> HIDE DEF a
    <3>2. /\ at \o a \in Seq(Nat) /\ Len(at \o a) = Len(wire) + Len(c)
          /\ \A i \in 1 .. Len(wire) + Len(c) :
               (at \o a)[i] = IF i <= Len(wire) THEN at[i] ELSE a[i - Len(wire)]
      <4>1. /\ at \o a \in Seq(Nat) /\ Len(at \o a) = Len(at) + Len(a)
            /\ \A i \in 1 .. Len(at) + Len(a) :
                 (at \o a)[i] = IF i <= Len(at) THEN at[i] ELSE a[i - Len(at)]
        BY <2>2, <3>1, ConcatProperties
      <4> QED BY <2>2, <3>1, <4>1
    <3>3. at' = at \o a
      BY <2>1 DEF a
    <3> QED BY <1>1, <2>2, <2>3, <3>1, <3>2, <3>3
  <2>5. TypeOK'
    <3>1. gone' \in 0 .. Len(wire')
      BY <1>1, <2>1, <2>2, <2>3
    <3> QED BY <1>1, <2>1, <2>3, <2>4, <3>1 DEF TypeOK
  <2>6. ParsesWire'
    BY <1>1, <2>1, ParseGrows
  <2>7. ClockInv'
    BY <1>1, <2>1 DEF ClockInv, TypeOK, Never
  <2>8. Before' = Len(wire)
    BY <1>1, <2>2, <2>3 DEF Before
  <2>9. gone < Len(wire) => StillHeld' /\ buffer # <<>>
    <3>1. SUFFICES ASSUME gone < Len(wire) PROVE StillHeld' /\ buffer # <<>>
      OBVIOUS
    <3>2. buffer # <<>>
      <4>1. Len(buffer) = Len(wire) - gone
        BY <1>1, <2>2, SuffixFacts DEF ParsesWire, From, Suffix
      <4>2. Len(buffer) # 0
        BY <2>2, <3>1, <4>1
      <4> QED BY <4>2, EmptySeq
    <3>3. Prior' = buffer
      <4> DEFINE p == SubSeq(wire \o c, gone + 1, Len(wire))
      <4>1. /\ p \in Seq(Byte) /\ Len(p) = Len(wire) - gone
            /\ \A i \in 1 .. Len(wire) - gone : p[i] = (wire \o c)[gone + i]
        <5>1. wire \o c \in Seq(Byte) /\ Len(wire) \in 0 .. Len(wire \o c)
          BY <1>1, <2>1, <2>2, <2>3
        <5>2. gone \in Nat /\ gone < Len(wire)
          BY <2>2, <3>1
        <5> DEFINE w == wire \o c
        <5> HIDE DEF w
        <5>3. w \in Seq(Byte) /\ Len(wire) \in 0 .. Len(w)
          BY <5>1 DEF w
        <5>4. LET q == SubSeq(w, gone + 1, Len(wire)) IN
                /\ q \in Seq(Byte)
                /\ Len(q) = IF gone < Len(wire) THEN Len(wire) - gone ELSE 0
                /\ \A i \in 1 .. Len(wire) - gone : q[i] = w[gone + i]
          BY <5>2, <5>3, SubSeqFacts
        <5> QED BY <5>2, <5>4 DEF w
      <4>2. /\ Len(buffer) = Len(wire) - gone
            /\ \A i \in 1 .. Len(wire) - gone : buffer[i] = wire[gone + i]
        BY <1>1, <2>2, SuffixFacts DEF ParsesWire, From, Suffix
      <4>3. \A i \in 1 .. Len(wire) - gone : (wire \o c)[gone + i] = wire[gone + i]
        BY <1>1, <2>2, ConcatProperties
      <4>4. p = buffer
        <5> HIDE DEF p
        <5> QED BY <2>2, <4>1, <4>2, <4>3, SeqEqual
      <4>5. Prior' = p
        BY <2>1, <2>8 DEF Prior
      <4> QED BY <4>4, <4>5
    <3> QED BY <1>1, <2>1, <2>8, <3>1, <3>2, <3>3 DEF StillHeld, IdleInv
  <2>10. gone = Len(wire) => buffer = <<>>
    BY <1>1, <2>2, SubSeqEmpty DEF ParsesWire, From
  <2>11. CallInv'
    <3>1. since = Never => gone >= Len(wire)
      BY <1>1, <2>2, <2>9 DEF IdleInv
    <3>2. gone < Len(wire) \/ Len(wire) <= gone + 3
      BY <2>2
    <3> QED BY <1>1, <2>1, <2>2, <2>3, <2>4, <2>8, <2>9, <3>1, <3>2 DEF CallInv
  <2>12. IdleInv'
    BY <1>1 DEF IdleInv
  <2>13. TimerInv'
    <3>1. SUFFICES ASSUME since # Never, ~slipped
                   PROVE  gone < Len(wire') /\ since = at'[gone + 1] /\ StillHeld'
      BY <2>1 DEF TimerInv, Never
    <3>2. gone < Len(wire) /\ since = at[gone + 1]
      BY <1>1, <3>1 DEF TimerInv
    <3> QED BY <1>1, <2>2, <2>3, <2>4, <2>9, <3>2
  <2> QED BY <2>5, <2>6, <2>7, <2>11, <2>12, <2>13 DEF IInv
<1> QED BY <1>2, <1>3

\* n bytes at the head of the buffer are taken off it.
LEMMA TakeFacts ==
  ASSUME TypeOK, ParsesWire, NEW n \in 1 .. Len(buffer), Take(n), wire' = wire
  PROVE  /\ buffer' = From(gone + n) /\ buffer' \in Seq(Byte)
         /\ gone' = gone + n /\ gone' \in 0 .. Len(wire)
<1>1. /\ wire \in Seq(Byte) /\ Len(wire) \in Nat /\ gone \in 0 .. Len(wire)
      /\ buffer \in Seq(Byte) /\ Len(buffer) \in Nat
  BY LenProperties DEF TypeOK
<1>2. buffer = Suffix(wire, gone) /\ Len(buffer) = Len(wire) - gone
  BY <1>1, SuffixFacts DEF ParsesWire, From, Suffix
<1>3. buffer' = Suffix(buffer, n)
  BY DEF Take, Suffix
<1>4. buffer' = Suffix(wire, gone + n)
  BY <1>1, <1>2, <1>3, SuffixOfSuffix
<1>5. gone' = gone + n /\ gone' \in 0 .. Len(wire)
  BY <1>1, <1>2 DEF Take
<1>6. gone + n \in 0 .. Len(wire)
  BY <1>1, <1>2
<1>7. buffer' \in Seq(Byte)
  BY <1>1, <1>4, <1>6, SuffixFacts
<1> QED BY <1>4, <1>5, <1>7 DEF From, Suffix

LEMMA DropKeeps ==
  ASSUME IInv, Drop
  PROVE  IInv'
<1>1. /\ TypeOK /\ ParsesWire /\ ClockInv /\ CallInv /\ IdleInv /\ TimerInv
      /\ pc = "parsing" /\ Hopeless(buffer) /\ Take(1)
      /\ slipped' = (slipped \/ since # Never)
      /\ UNCHANGED <<since, call, now, wire, at, packets>>
  BY DEF IInv, Drop
<1>2. /\ wire \in Seq(Byte) /\ Len(wire) \in Nat /\ gone \in 0 .. Len(wire)
      /\ buffer \in Seq(Byte) /\ 1 \in 1 .. Len(buffer)
  BY <1>1, LenProperties, EmptySeq DEF TypeOK, Hopeless
<1>3. /\ buffer' = From(gone + 1) /\ buffer' \in Seq(Byte)
      /\ gone' = gone + 1 /\ gone' \in 0 .. Len(wire)
  BY <1>1, <1>2, TakeFacts
<1>4. TypeOK'
  BY <1>1, <1>3 DEF TypeOK, call
<1>5. ParsesWire'
  <2>1. \A n : From(n)' = From(n)
    BY <1>1 DEF From
  <2>2. \A k \in packets : k.from \in Nat /\ k.len \in Nat
    BY <1>1 DEF TypeOK
  <2>3. ASSUME NEW n \in 0 .. gone
        PROVE  Hopeless(From(n)) \/ \E k \in packets : Within(k, n)
    <3>1. CASE n = gone
      BY <1>1, <3>1 DEF ParsesWire
    <3>2. CASE n # gone
      <4>1. n \in 0 .. gone - 1
        BY <1>2, <3>2
      <4> QED BY <1>1, <4>1 DEF ParsesWire
    <3> QED BY <3>1, <3>2
  <2>4. \A k \in packets : /\ Complete(From(k.from)) /\ k.len = Total(From(k.from))
                           /\ k.from + k.len <= gone + 1
    BY <1>1, <1>2, <2>2 DEF ParsesWire
  <2>5. \A k, l \in packets : k = l \/ k.from + k.len <= l.from \/ l.from + l.len <= k.from
    BY <1>1 DEF ParsesWire
  <2>6. gone' - 1 = gone
    BY <1>2, <1>3
  <2> QED BY <1>1, <1>3, <2>1, <2>3, <2>4, <2>5, <2>6 DEF ParsesWire, Within
<1>6. ClockInv'
  BY <1>1 DEF ClockInv, call
<1>7. CallInv'
  <2>1. /\ Len(data) <= Len(wire) /\ \A i \in 1 .. Len(wire) : i > Before => at[i] = fed
        /\ since = Never => gone >= Before
        /\ since # Never => StillHeld \/ Before <= gone + 3
    BY <1>1 DEF CallInv
  <2>2. Len(data) \in Nat /\ Before \in Nat
    <3>1. Len(data) \in Nat
      BY <1>1, LenProperties DEF TypeOK
    <3> QED BY <1>2, <2>1, <3>1 DEF Before
  <2>3. Before' = Before
    BY <1>1 DEF Before, call
  <2>4. StillHeld => Before <= gone + 4
    <3>1. SUFFICES ASSUME StillHeld PROVE Before <= gone + 4
      OBVIOUS
    <3>2. /\ Prior \in Seq(Byte) /\ Prior # <<>> /\ Len(Prior) = Before - gone
          /\ Len(Prior) <= Len(buffer)
          /\ \A i \in 1 .. Len(Prior) : buffer[i] = Prior[i]
      BY <1>1, <3>1, PriorFacts DEF StillHeld
    <3>3. Len(Prior) <= 4
      BY <1>1, <1>2, <3>1, <3>2, PrefixFacts DEF StillHeld
    <3> QED BY <1>2, <2>2, <3>2, <3>3
  <2>5. since # Never => Before <= gone' + 3
    BY <1>2, <1>3, <2>1, <2>2, <2>4
  <2>6. since = Never => gone' >= Before
    BY <1>2, <1>3, <2>1, <2>2
  <2> QED BY <1>1, <2>1, <2>3, <2>5, <2>6 DEF CallInv, call, Before
<1>8. IdleInv' /\ TimerInv'
  BY <1>1 DEF IdleInv, TimerInv, call
<1> QED BY <1>4, <1>5, <1>6, <1>7, <1>8 DEF IInv

LEMMA DeliverKeeps ==
  ASSUME IInv, Deliver
  PROVE  IInv'
<1> DEFINE n == Total(buffer)
           new == [from |-> gone, len |-> n]
<1>1. /\ TypeOK /\ ParsesWire /\ ClockInv /\ CallInv /\ IdleInv /\ TimerInv
      /\ pc = "parsing" /\ Complete(buffer) /\ Take(n)
      /\ packets' = packets \cup {new}
      /\ since' = Never /\ slipped' = FALSE
      /\ UNCHANGED <<call, now, wire, at>>
  BY DEF IInv, Deliver
<1>2. /\ wire \in Seq(Byte) /\ Len(wire) \in Nat /\ gone \in 0 .. Len(wire)
      /\ buffer \in Seq(Byte) /\ Len(buffer) \in Nat /\ n \in 3 .. Len(buffer)
  BY <1>1, LenProperties, CompleteFacts DEF TypeOK
<1> HIDE DEF n
<1>3. /\ buffer' = From(gone + n) /\ buffer' \in Seq(Byte)
      /\ gone' = gone + n /\ gone' \in 0 .. Len(wire)
  <2>1. n \in 1 .. Len(buffer)
    BY <1>2
  <2> QED BY <1>1, <2>1, TakeFacts
<1>4. TypeOK'
  <2>1. new \in [from : Nat, len : Nat]
    BY <1>2
  <2> QED BY <1>1, <1>3, <2>1 DEF TypeOK, call
<1>5. ParsesWire'
  <2>1. \A m : From(m)' = From(m)
    BY <1>1 DEF From
  <2>2. \A k \in packets : /\ k.from \in Nat /\ k.len \in Nat /\ k.from + k.len <= gone
                           /\ Complete(From(k.from)) /\ k.len = Total(From(k.from))
    BY <1>1 DEF TypeOK, ParsesWire
  <2>3. new.from = gone /\ new.len = n /\ Complete(From(gone)) /\ n = Total(From(gone))
    BY <1>1 DEF ParsesWire, n
  <2>4. ASSUME NEW k \in packets'
        PROVE  /\ Complete(From(k.from)) /\ k.len = Total(From(k.from))
               /\ k.from + k.len <= gone'
    BY <1>1, <1>2, <1>3, <2>2, <2>3
  <2>5. ASSUME NEW k \in packets', NEW l \in packets'
        PROVE  k = l \/ k.from + k.len <= l.from \/ l.from + l.len <= k.from
    BY <1>1, <2>2, <2>3 DEF ParsesWire
  <2>6. ASSUME NEW m \in 0 .. gone' - 1
        PROVE  Hopeless(From(m)) \/ \E k \in packets' : Within(k, m)
    <3>1. CASE m < gone
      <4>1. m \in 0 .. gone - 1
        BY <1>2, <3>1
      <4> QED BY <1>1, <4>1 DEF ParsesWire
    <3>2. CASE m >= gone
      <4>1. new \in packets' /\ Within(new, m)
        BY <1>1, <1>2, <1>3, <2>3, <3>2 DEF Within
      <4> QED BY <4>1
    <3> QED BY <1>2, <3>1, <3>2
  <2> QED BY <1>3, <2>1, <2>4, <2>5, <2>6 DEF ParsesWire, Within
<1>6. ClockInv'
  BY <1>1 DEF ClockInv, call, TypeOK, Never
<1>7. CallInv'
  <2>1. /\ Len(data) <= Len(wire) /\ \A i \in 1 .. Len(wire) : i > Before => at[i] = fed
        /\ since = Never => gone >= Before
        /\ since # Never => StillHeld \/ Before <= gone + 3
    BY <1>1 DEF CallInv
  <2>2. Len(data) \in Nat /\ Before \in Nat
    <3>1. Len(data) \in Nat
      BY <1>1, LenProperties DEF TypeOK
    <3> QED BY <1>2, <2>1, <3>1 DEF Before
  <2>3. Before' = Before
    BY <1>1 DEF Before, call
  <2>4. StillHeld => Before < gone + n
    <3>1. SUFFICES ASSUME StillHeld PROVE Before < gone + n
      OBVIOUS
    <3>2. /\ Prior \in Seq(Byte) /\ Prior # <<>> /\ Len(Prior) = Before - gone
          /\ Len(Prior) <= Len(buffer)
          /\ \A i \in 1 .. Len(Prior) : buffer[i] = Prior[i]
      BY <1>1, <3>1, PriorFacts DEF StillHeld
    <3>3. n > Len(Prior)
      BY <1>1, <1>2, <3>1, <3>2, PrefixFacts DEF StillHeld, n
    <3> QED BY <1>2, <2>2, <3>2, <3>3
  <2>5. gone' >= Before
    BY <1>2, <1>3, <2>1, <2>2, <2>4
  <2> QED BY <1>1, <2>1, <2>3, <2>5 DEF CallInv, call, Before
<1>8. IdleInv' /\ TimerInv'
  BY <1>1 DEF IdleInv, TimerInv, call
<1> QED BY <1>4, <1>5, <1>6, <1>7, <1>8 DEF IInv

LEMMA WaitKeeps ==
  ASSUME IInv, Wait
  PROVE  IInv'
<1>1. /\ TypeOK /\ ParsesWire /\ ClockInv /\ CallInv /\ IdleInv /\ TimerInv
      /\ pc = "parsing" /\ pc' = "idle" /\ ~Hopeless(buffer) /\ ~Complete(buffer)
      /\ data' = <<>>
      /\ since' = IF buffer # <<>> /\ since = Never THEN fed ELSE since
      /\ UNCHANGED <<buffer, fed, now, wire, at, gone, packets, slipped>>
  BY DEF IInv, Wait, history
<1>2. TypeOK'
  BY <1>1, EmptySeq DEF TypeOK
<1>3. ParsesWire'
  BY <1>1 DEF ParsesWire, From, Within
<1>4. ClockInv'
  <2>1. since' \in {fed, since} /\ fed' = fed /\ now' = now
    BY <1>1
  <2>2. fed \in Nat /\ fed <= now /\ since <= fed
    BY <1>1 DEF ClockInv, TypeOK
  <2> QED BY <2>1, <2>2 DEF ClockInv
<1>5. CallInv'
  <2>1. pc' = "idle"
    BY <1>1
  <2> QED BY <2>1 DEF CallInv
<1>6. IdleInv'
  <2>1. buffer # <<>> => since' # Never
    BY <1>1 DEF TypeOK, Never
  <2>2. ~Hopeless(buffer') /\ ~Complete(buffer')
    BY <1>1 DEF Hopeless, Complete, Known, HasHeader, BadLength, InfoOf, Body, Total
  <2> QED BY <1>1, <2>1, <2>2 DEF IdleInv
<1>7. TimerInv'
  <2>1. SUFFICES ASSUME since' # Never, ~slipped
                 PROVE  gone < Len(wire) /\ since' = at[gone + 1]
    BY <1>1 DEF TimerInv
  <2>2. CASE since # Never
    BY <1>1, <2>1, <2>2 DEF TimerInv
  <2>3. CASE since = Never
    <3>1. buffer # <<>> /\ since' = fed /\ gone >= Before
      BY <1>1, <2>1, <2>3 DEF CallInv
    <3>2. /\ wire \in Seq(Byte) /\ Len(wire) \in Nat /\ Len(data) \in Nat
          /\ gone \in 0 .. Len(wire)
      BY <1>1, LenProperties DEF TypeOK
    <3>3. gone # Len(wire)
      BY <1>1, <3>1, <3>2, SubSeqEmpty DEF ParsesWire, From
    <3>4. gone + 1 \in 1 .. Len(wire) /\ gone + 1 > Before
      BY <3>1, <3>2, <3>3 DEF Before
    <3> QED BY <1>1, <3>1, <3>2, <3>4 DEF CallInv
  <2> QED BY <2>2, <2>3
<1> QED BY <1>2, <1>3, <1>4, <1>5, <1>6, <1>7 DEF IInv

LEMMA ResetKeeps ==
  ASSUME IInv, Reset
  PROVE  IInv'
<1>1. /\ TypeOK /\ ClockInv /\ pc = "idle" /\ pc' = "idle"
      /\ buffer' = <<>> /\ since' = Never /\ Afresh(<<>>)
      /\ data' = data /\ fed' = fed /\ now' = now /\ <<>> \in Seq(Byte)
  BY EmptySeq DEF IInv, Reset, call
<1>2. /\ ParsesWire'
      /\ wire' \in Seq(Byte) /\ at' \in Seq(Nat) /\ Len(at') = Len(wire')
      /\ gone' \in 0 .. Len(wire') /\ packets' \subseteq [from : Nat, len : Nat]
      /\ slipped' \in BOOLEAN
  BY <1>1, AfreshFacts
<1>3. TypeOK'
  BY <1>1, <1>2 DEF TypeOK
<1>4. ClockInv'
  BY <1>1 DEF ClockInv, TypeOK, Never
<1>5. CallInv' /\ IdleInv' /\ TimerInv'
  BY <1>1 DEF CallInv, IdleInv, TimerInv, Hopeless, Complete
<1> QED BY <1>2, <1>3, <1>4, <1>5 DEF IInv

LEMMA TickKeeps ==
  ASSUME IInv, Tick
  PROVE  IInv'
<1>1. /\ TypeOK /\ ParsesWire /\ ClockInv /\ CallInv /\ IdleInv /\ TimerInv
      /\ now' = now + 1 /\ UNCHANGED <<parser, call, history>>
  BY DEF IInv, Tick
<1>2. TypeOK' /\ ClockInv'
  BY <1>1 DEF TypeOK, ClockInv, parser, call, history
<1>3. ParsesWire'
  BY <1>1 DEF ParsesWire, From, Within, parser, history
<1>4. CallInv' /\ IdleInv'
  BY <1>1 DEF CallInv, IdleInv, StillHeld, Prior, Before, parser, call, history
<1>5. TimerInv'
  BY <1>1 DEF TimerInv, StillHeld, Prior, Before, parser, call, history
<1> QED BY <1>2, <1>3, <1>4, <1>5 DEF IInv

LEMMA StutterKeeps ==
  ASSUME IInv, UNCHANGED vars
  PROVE  IInv'
BY DEF IInv, TypeOK, ParsesWire, From, Within, ClockInv, CallInv, IdleInv, TimerInv,
       StillHeld, Prior, Before, vars, parser, call, history

\* The invariant of the parser: what it has cut out of the wire, what it still
\* holds, and what its timer runs for (hci_parser.py:61-106).
THEOREM ParserInductive == Spec => []IInv
<1>1. Init => IInv
  BY InitOK
<1>2. IInv /\ [Next]_vars => IInv'
  <2> SUFFICES ASSUME IInv, [Next]_vars PROVE IInv'
    OBVIOUS
  <2>1. ASSUME NEW bytes \in Reads, Feed(bytes) PROVE IInv'
    BY <2>1, FeedKeeps
  <2>2. CASE Drop
    BY <2>2, DropKeeps
  <2>3. CASE Deliver
    BY <2>3, DeliverKeeps
  <2>4. CASE Wait
    BY <2>4, WaitKeeps
  <2>5. CASE Reset
    BY <2>5, ResetKeeps
  <2>6. CASE Tick
    BY <2>6, TickKeeps
  <2>7. CASE UNCHANGED vars
    BY <2>7, StutterKeeps
  <2> QED BY <2>1, <2>2, <2>3, <2>4, <2>5, <2>6, <2>7 DEF Next
<1> QED BY <1>1, <1>2, PTL DEF Spec

-----------------------------------------------------------------------------
(* What follows from it                                                     *)

\* Every variable keeps its type, for any bytes on the wire.
THEOREM TypeCorrect == Spec => []TypeOK
<1>1. IInv => TypeOK
  BY DEF IInv
<1> QED BY <1>1, ParserInductive, PTL

\* The packets delivered are those one pass over the whole wire finds, for any
\* bytes, split into any reads (hci_parser.py:74-97).
THEOREM ReadsDoNotMatter == Spec => []ParsesWire
<1>1. IInv => ParsesWire
  BY DEF IInv
<1> QED BY <1>1, ParserInductive, PTL

\* No packet is withheld between two reads, and never more than 1028 bytes
\* (hci_parser.py:81-93).
THEOREM NothingWithheld == Spec => []HeldIsPartial
<1>1. IInv => HeldIsPartial
  <2> SUFFICES ASSUME IInv, pc = "idle", buffer # <<>>
               PROVE  /\ ~Hopeless(buffer) /\ ~Complete(buffer)
                      /\ Len(buffer) <= LongestPart /\ since \in 0 .. fed
    BY DEF HeldIsPartial
  <2>1. ~Hopeless(buffer) /\ ~Complete(buffer) /\ since # Never
    BY DEF IInv, IdleInv
  <2>2. Len(buffer) <= LongestPart
    BY <2>1, PartIsShort DEF IInv, TypeOK
  <2>3. since \in 0 .. fed
    BY <2>1 DEF IInv, ClockInv, TypeOK
  <2> QED BY <2>1, <2>2, <2>3
<1> QED BY <1>1, ParserInductive, PTL

\* The timer runs from the first byte held, unless a byte was dropped under it
\* (hci_parser.py:104).
THEOREM TimerIsOfHead == Spec => []TimerFromHead
<1>1. IInv => TimerFromHead
  BY DEF IInv, TimerFromHead, IdleInv, TimerInv
<1> QED BY <1>1, ParserInductive, PTL

\* After a silence the next read is parsed from its first byte
\* (hci_parser.py:66-70).
THEOREM SilenceHeals == Spec => SilenceCleans
<1> DEFINE A == pc = "idle" /\ pc' = "parsing" /\ now - fed > PartialTimeout
                  => buffer' = data'
<1>1. IInv /\ [Next]_vars => [A]_vars
  <2> SUFFICES ASSUME IInv, Next, pc = "idle", pc' = "parsing",
                      now - fed > PartialTimeout
               PROVE  buffer' = data'
    OBVIOUS
  <2>1. PICK bytes \in Reads : Feed(bytes)
    BY DEF Next, Drop, Deliver, Wait, Reset, Tick, call
  <2>2. data' = bytes /\ bytes \in Seq(Byte)
    BY <2>1, ReadsAssumption DEF Feed
  <2>3. CASE Stale
    BY <2>1, <2>2, <2>3 DEF Feed
  <2>4. CASE ~Stale
    <3>1. since = Never
      BY <2>4, BoundAssumption DEF IInv, ClockInv, TypeOK, Stale, Never
    <3>2. buffer = <<>>
      BY <3>1 DEF IInv, IdleInv
    <3>3. buffer' = buffer \o bytes
      BY <2>1, <2>4 DEF Feed
    <3> QED BY <2>2, <3>2, <3>3, ConcatEmptySeq
  <2> QED BY <2>3, <2>4
<1> QED BY <1>1, ParserInductive, PTL DEF Spec, SilenceCleans
=============================================================================
