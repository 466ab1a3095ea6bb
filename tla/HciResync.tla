----------------------------- MODULE HciResync -----------------------------
(* ResyncingPacketParser (hci_parser.py), which replaces bumble's parser on *)
(* a UART: packets are cut out of the bytes as they come, a byte that cannot *)
(* begin a packet is dropped, and a packet half read for too long is given   *)
(* up.  feed_data() is one call without an await; its loop is modelled turn  *)
(* by turn.  What the sink does, its exceptions included, changes nothing.   *)
EXTENDS Integers, Sequences

CONSTANTS
  Reads,           \* what one read of the UART may return: sequences of bytes
  PartialTimeout,  \* PARTIAL_TIMEOUT, in ticks
  MaxWire,         \* bound: bytes since the parser last started afresh
  MaxTime          \* bound: ticks of the monotonic clock

Byte == 0 .. 255
Never == -1

ASSUME ReadsAssumption == Reads \subseteq Seq(Byte)
ASSUME BoundAssumption ==
  PartialTimeout \in Nat /\ MaxWire \in Nat /\ MaxTime \in Nat

VARIABLES
  buffer,   \* bytes not yet delivered or dropped
  since,    \* _partial_since: when the packet now half read was begun
  data,     \* what feed_data() was called with, while it runs
  fed,      \* when it was last called
  pc,       \* "idle", or "parsing" inside it
  now,      \* the monotonic clock
  wire,     \* history: all bytes since the parser last started afresh
  at,       \* history: when each of them was read
  gone,     \* history: how many of them were delivered or dropped
  packets,  \* history: the places in wire of the packets delivered
  slipped   \* history: a byte was dropped while the timer ran for it

parser  == <<buffer, since>>
call    == <<data, fed, pc>>
history == <<wire, at, gone, packets, slipped>>
vars == <<parser, call, now, history>>

-----------------------------------------------------------------------------
\* RX_PACKET_INFO: of an ACL packet (2) and of an event (4), the bytes of the
\* header after the type, where in it the length is, and the longest body.
\* The length is two bytes, little-endian, or one; the masks take all of them.
Info == [type \in {2, 4} |->
  IF type = 2 THEN [header |-> 4, offset |-> 2, size |-> 2, longest |-> 1024]
              ELSE [header |-> 2, offset |-> 1, size |-> 1, longest |-> 255]]

InfoOf(b) == Info[b[1]]

Known(b) == b[1] \in DOMAIN Info
HasHeader(b) == Known(b) /\ Len(b) >= 1 + InfoOf(b).header

Body(b) ==
  LET first == 2 + InfoOf(b).offset IN
    IF InfoOf(b).size = 1 THEN b[first] ELSE b[first] + 256 * b[first + 1]

Total(b) == 1 + InfoOf(b).header + Body(b)

BadLength(b) == HasHeader(b) /\ Body(b) > InfoOf(b).longest

\* What the loop finds at the head of b: no packet, a packet, or part of one.
Hopeless(b) == b # <<>> /\ (~Known(b) \/ BadLength(b))
Complete(b) == b # <<>> /\ HasHeader(b) /\ ~BadLength(b) /\ Len(b) >= Total(b)

\* The most that can be waiting: an ACL packet that lacks its last byte.
LongestPart == 4 + 1024

TypeOK ==
  /\ buffer \in Seq(Byte) /\ since \in Nat \cup {Never}
  /\ data \in Seq(Byte) /\ fed \in Nat /\ pc \in {"idle", "parsing"}
  /\ now \in Nat
  /\ wire \in Seq(Byte) /\ at \in Seq(Nat) /\ Len(at) = Len(wire)
  /\ gone \in 0 .. Len(wire) /\ packets \subseteq [from : Nat, len : Nat]
  /\ slipped \in BOOLEAN

-----------------------------------------------------------------------------
Init ==
  /\ buffer = <<>> /\ since = Never
  /\ data = <<>> /\ fed = 0 /\ pc = "idle" /\ now = 0
  /\ wire = <<>> /\ at = <<>> /\ gone = 0 /\ packets = {} /\ slipped = FALSE

Stale == since # Never /\ now - since > PartialTimeout

Afresh(bytes) ==
  /\ wire' = bytes /\ at' = [i \in 1 .. Len(bytes) |-> now]
  /\ gone' = 0 /\ packets' = {} /\ slipped' = FALSE

FeedFlushingAll(bytes) == \* a slip: the read is put in the buffer first
  /\ pc = "idle" /\ pc' = "parsing"
  /\ data' = bytes /\ fed' = now
  /\ IF Stale
     THEN buffer' = <<>> /\ since' = Never /\ Afresh(<<>>)
     ELSE /\ buffer' = buffer \o bytes
          /\ wire' = wire \o bytes
          /\ at' = at \o [i \in 1 .. Len(bytes) |-> now]
          /\ UNCHANGED <<since, gone, packets, slipped>>
  /\ Len(wire') <= MaxWire
  /\ UNCHANGED now

Feed(bytes) == \* a call of feed_data(), up to the loop
  /\ pc = "idle" /\ pc' = "parsing"
  /\ data' = bytes /\ fed' = now
  /\ IF Stale
     THEN buffer' = bytes /\ since' = Never /\ Afresh(bytes)
     ELSE /\ buffer' = buffer \o bytes
          /\ wire' = wire \o bytes
          /\ at' = at \o [i \in 1 .. Len(bytes) |-> now]
          /\ UNCHANGED <<since, gone, packets, slipped>>
  /\ Len(wire') <= MaxWire
  /\ UNCHANGED now

Take(n) == \* del self.buffer[:n]
  /\ buffer' = SubSeq(buffer, n + 1, Len(buffer))
  /\ gone' = gone + n

DropTwo ==               \* a slip: a byte too many is dropped
  /\ pc = "parsing" /\ Hopeless(buffer)
  /\ Take(2)
  /\ slipped' = (slipped \/ since # Never)
  /\ UNCHANGED <<since, call, now, wire, at, packets>>

\* _drop_byte(): the timer goes on, for a packet that has turned out not to
\* be one.
Drop ==
  /\ pc = "parsing" /\ Hopeless(buffer)
  /\ Take(1)
  /\ slipped' = (slipped \/ since # Never)
  /\ UNCHANGED <<since, call, now, wire, at, packets>>

DeliverShort ==          \* a slip: the type byte is not counted
  /\ pc = "parsing" /\ Complete(buffer)
  /\ packets' = packets \cup {[from |-> gone, len |-> Total(buffer)]}
  /\ Take(Total(buffer) - 1)
  /\ since' = Never /\ slipped' = FALSE
  /\ UNCHANGED <<call, now, wire, at>>

DeliverTimed ==          \* a slip: the timer goes on past the packet
  /\ pc = "parsing" /\ Complete(buffer)
  /\ packets' = packets \cup {[from |-> gone, len |-> Total(buffer)]}
  /\ Take(Total(buffer))
  /\ UNCHANGED <<since, slipped, call, now, wire, at>>

Deliver ==
  /\ pc = "parsing" /\ Complete(buffer)
  /\ packets' = packets \cup {[from |-> gone, len |-> Total(buffer)]}
  /\ Take(Total(buffer))
  /\ since' = Never /\ slipped' = FALSE
  /\ UNCHANGED <<call, now, wire, at>>

WaitUntimed ==           \* a slip: the timer starts at the next read
  /\ pc = "parsing" /\ pc' = "idle"
  /\ ~Hopeless(buffer) /\ ~Complete(buffer)
  /\ data' = <<>>
  /\ since' = IF buffer # <<>> /\ since = Never /\ buffer # data THEN fed ELSE since
  /\ UNCHANGED <<buffer, fed, now, history>>

Wait == \* the rest of the packet, or anything at all, is still to come
  /\ pc = "parsing" /\ pc' = "idle"
  /\ ~Hopeless(buffer) /\ ~Complete(buffer)
  /\ data' = <<>>
  /\ since' = IF buffer # <<>> /\ since = Never THEN fed ELSE since
  /\ UNCHANGED <<buffer, fed, now, history>>

Reset == \* for bumble
  /\ pc = "idle"
  /\ buffer' = <<>> /\ since' = Never /\ Afresh(<<>>)
  /\ UNCHANGED <<call, now>>

Tick ==
  /\ now < MaxTime /\ now' = now + 1
  /\ UNCHANGED <<parser, call, history>>

Next == (\E bytes \in Reads : Feed(bytes)) \/ Drop \/ Deliver \/ Wait \/ Reset \/ Tick

\* feed_data() is one call: it runs to its end.
Spec == Init /\ [][Next]_vars

-----------------------------------------------------------------------------
From(n) == SubSeq(wire, n + 1, Len(wire))
Within(k, n) == k.from <= n /\ n < k.from + k.len

\* However the bytes were split into reads, what is delivered and dropped is
\* what one pass over all of them gives: each packet is a packet at its place,
\* each byte outside the packets could not begin one, none is read twice, and
\* the buffer is what is left (hci_parser.py:74-97).
ParsesWire ==
  /\ buffer = From(gone)
  /\ \A k \in packets : /\ Complete(From(k.from)) /\ k.len = Total(From(k.from))
                        /\ k.from + k.len <= gone
  /\ \A k, l \in packets : k = l \/ k.from + k.len <= l.from \/ l.from + l.len <= k.from
  /\ \A n \in 0 .. gone - 1 : Hopeless(From(n)) \/ \E k \in packets : Within(k, n)

\* Between two reads no packet is withheld: what is held is part of one whose
\* length is plausible, shorter than the longest there is, and a timer runs
\* for it that is no younger than the last read (hci_parser.py:104).
HeldIsPartial ==
  pc = "idle" /\ buffer # <<>> =>
    /\ ~Hopeless(buffer) /\ ~Complete(buffer) /\ Len(buffer) <= LongestPart
    /\ since \in 0 .. fed

\* A read that follows a silence longer than the time-out is parsed from its
\* first byte, whatever was lost before it (hci_parser.py:64).
SilenceCleans ==
  [][pc = "idle" /\ pc' = "parsing" /\ now - fed > PartialTimeout
       => buffer' = data']_vars

\* The timer runs from the read that brought the first byte of what is held,
\* so that no packet is given up before its time, unless it was started for
\* a byte that was dropped since (hci_parser.py:104, 77, 88).
TimerFromHead ==
  pc = "idle" /\ buffer # <<>> /\ ~slipped => since = at[gone + 1]

\* "A packet left half-read this long" (hci_parser.py:64): only such a packet
\* is given up.  The code gives up younger ones after a byte was dropped.
GivesUpOnlyStale ==
  pc = "idle" /\ buffer # <<>> /\ Stale => now - at[gone + 1] > PartialTimeout
=============================================================================
