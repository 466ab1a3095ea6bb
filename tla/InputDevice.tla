---------------------------- MODULE InputDevice ----------------------------
(* The virtual input device of a connected peer: the report descriptor on   *)
(* its way to /dev/uhid (host.py, uhid_handler.py) and the reports that      *)
(* follow it (ble.py, classic.py).  A descriptor is a sequence of items; of   *)
(* its bytes the model keeps what the searches for 0x85 tell apart.          *)
EXTENDS Integers, Sequences, FiniteSets, SequencesExt

CONSTANTS
  Descriptors,    \* report maps of peers
  Fallback,       \* FALLBACK_HID_DESCRIPTOR
  Values,         \* what an input report may hold: short sequences of bytes
  MaxDescriptor   \* HID_MAX_DESCRIPTOR_SIZE, in items

Item(kind, value) == [is |-> kind, n |-> value]
Page(p)  == Item("page", p)     \* Global: Usage Page
Usage(u) == Item("usage", u)    \* Local: Usage
Id(r)    == Item("id", r)       \* Global: Report ID, bytes 0x85 r
Most(r)  == Item("most", r)     \* Logical Maximum with the data bytes 0x85 r
Span     == Item("span", 0)     \* Local: Usage Minimum 0 and Usage Maximum
Open(t)  == Item("open", t)     \* Main: Collection, 1 for an application
Close    == Item("close", 0)    \* Main: End Collection; it may have data
Input    == Item("input", 0)    \* Main: Input
Torn     == Item("torn", 0)     \* an item whose data the descriptor cuts off

Digitizer == 13
Main == {"open", "close", "input"}

\* Report ID 0 is reserved; the model has it for reports without an ID.
Kinds == Main \cup {"page", "usage", "id", "most", "span"}
Items == [is : Kinds \ {"id"}, n : Nat] \cup [is : {"id"}, n : Nat \ {0}] \cup {Torn}

ASSUME DescriptorAssumption == \A d \in Descriptors \cup {Fallback} : d \in Seq(Items)
ASSUME ValueAssumption == \A value \in Values : value \in Seq(0..255) /\ value # <<>>
ASSUME SizeAssumption == MaxDescriptor \in Nat

VARIABLES
  proto,      \* connected_protocol
  phase,      \* "none", "mapped", "stripping", "stripped", "up", "failed", "gone"
  origin,     \* the report map of the peer
  reportMap,  \* report_map
  i, start, depth, tainted, kept,   \* the locals of strip_digitizer_collections()
  descriptor, \* what UHID_CREATE2 carries
  pointer,    \* _is_pointer
  ids,        \* _descriptor_report_ids, {} before the first report
  held,       \* the last value the peer sent in each of its reports
  kernel,     \* the last value the kernel took for each report
  lost        \* history: a report was sent that send_input() did not deliver

loop == <<i, start, depth, tainted, kept>>
made == <<descriptor, pointer>>
reports == <<ids, held, kernel, lost>>
vars == <<proto, phase, origin, reportMap, loop, made, reports>>

Phases == {"none", "mapped", "stripping", "stripped", "up", "failed", "gone"}

-----------------------------------------------------------------------------
\* Bytes 0x85 r, as a search through the bytes finds them: in a Report ID, or
\* in the data of another item.
Shows(item) == item.is \in {"id", "most"}
Shown(d) == {item.n : item \in {e \in ToSet(d) : Shows(e)}}
Declared(d) == {item.n : item \in {e \in ToSet(d) : e.is = "id"}}

\* A peer without report IDs sends its only report as number 0.
RidsOf(d) == IF Declared(d) = {} THEN {0} ELSE Declared(d)

Injected(d) == \* _inject_consumer_usage_range(), once
  LET found == {k \in DOMAIN d : Shows(d[k]) /\ d[k].n = 1} IN
    IF found = {} THEN d
    ELSE LET k == Min(found) IN
      IF k < Len(d) /\ d[k + 1] = Span THEN d ELSE InsertAt(d, k + 1, Span)

\* The items before k, as descriptor_is_pointer() has walked them.
Before(d, k, kinds) == {j \in 1 .. k - 1 : d[j].is \in kinds}
DepthAt(d, k) == Cardinality(Before(d, k, {"open"})) - Cardinality(Before(d, k, {"close"}))
PageAt(d, k, p) ==
  Before(d, k, {"page"}) # {} /\ d[Max(Before(d, k, {"page"}))] = Page(p)
UsageAt(d, k, u) ==
  LET own == {j \in Before(d, k, {"usage"}) : \A l \in Before(d, k, Main) : l < j} IN
    own # {} /\ d[Max(own)] = Usage(u)

IsPointer(d) == \* descriptor_is_pointer()
  \E k \in DOMAIN d :
    /\ d[k] = Open(1) /\ DepthAt(d, k) = 0 /\ Before(d, k, {"torn"}) = {}
    /\ PageAt(d, k, 1) /\ (UsageAt(d, k, 1) \/ UsageAt(d, k, 2))

\* Types, and where the loop is: the segment it is in starts no later than the
\* item it has come to.  What the kernel accepted is no longer than it may be
\* (uhid_handler.py:230), and it knows that descriptor's reports.
TypeOK ==
  /\ proto \in {"ble", "classic"} /\ phase \in Phases
  /\ {origin, reportMap} \subseteq Seq(Items)
  /\ i \in 1 .. Len(reportMap) + 1 /\ start \in 1 .. i
  /\ depth \in Int /\ tainted \in BOOLEAN /\ kept \in Seq(Items)
  /\ descriptor \in Seq(Items) /\ pointer \in BOOLEAN
  /\ phase = "up" => Len(descriptor) <= MaxDescriptor
  /\ ids \in SUBSET Nat /\ held \in [RidsOf(origin) -> Seq(Nat)]
  /\ kernel \in [IF phase = "up" THEN RidsOf(descriptor) ELSE {} -> Seq(Nat)]
  /\ lost \in BOOLEAN

-----------------------------------------------------------------------------
Init ==
  /\ proto \in {"ble", "classic"}
  /\ phase = "none" /\ origin \in Descriptors /\ reportMap = <<>>
  /\ i = 1 /\ start = 1 /\ depth = 0 /\ tainted = FALSE /\ kept = <<>>
  /\ descriptor = <<>> /\ pointer = FALSE
  /\ ids = {} /\ held = [r \in RidsOf(origin) |-> <<0, 0>>]
  /\ kernel = <<>> /\ lost = FALSE

\* From the cache or from the peer; a Classic peer that gives none gets the
\* fallback, a BLE peer is given up.
GetMap ==
  /\ phase = "none"
  /\ \/ phase' = "mapped" /\ reportMap' = origin
     \/ proto = "classic" /\ phase' = "mapped" /\ reportMap' = Fallback
     \/ proto = "ble" /\ phase' = "gone" /\ UNCHANGED reportMap
  /\ UNCHANGED <<proto, origin, loop, made, reports>>

Inject ==
  /\ phase = "mapped" /\ phase' = "stripping"
  /\ reportMap' = Injected(reportMap)
  /\ UNCHANGED <<proto, origin, loop, made, reports>>

StripAnyEnd ==           \* a slip: a collection in a collection ends a segment
  /\ phase = "stripping" /\ i \in DOMAIN reportMap /\ reportMap[i] # Torn
  /\ LET item == reportMap[i]
         bad  == tainted \/ item = Page(Digitizer)
     IN
       /\ depth' = CASE item.is = "open"  -> depth + 1
                     [] item.is = "close" -> depth - 1
                     [] OTHER             -> depth
       /\ IF item.is = "close"
          THEN /\ kept' = IF bad THEN kept ELSE kept \o SubSeq(reportMap, start, i)
               /\ start' = i + 1 /\ tainted' = FALSE
          ELSE tainted' = bad /\ UNCHANGED <<kept, start>>
  /\ i' = i + 1
  /\ UNCHANGED <<proto, phase, origin, reportMap, made, reports>>

Strip == \* one turn of the loop of strip_digitizer_collections()
  /\ phase = "stripping" /\ i \in DOMAIN reportMap /\ reportMap[i] # Torn
  /\ LET item == reportMap[i]
         bad  == tainted \/ item = Page(Digitizer)
     IN
       /\ depth' = CASE item.is = "open"  -> depth + 1
                     [] item.is = "close" -> depth - 1
                     [] OTHER             -> depth
       /\ IF item.is = "close" /\ depth = 1
          THEN /\ kept' = IF bad THEN kept ELSE kept \o SubSeq(reportMap, start, i)
               /\ start' = i + 1 /\ tainted' = FALSE
          ELSE tainted' = bad /\ UNCHANGED <<kept, start>>
  /\ i' = i + 1
  /\ UNCHANGED <<proto, phase, origin, reportMap, made, reports>>

\* Nothing kept: the descriptor goes on as it is.
Stripped ==
  /\ phase = "stripping" /\ (i \in DOMAIN reportMap => reportMap[i] = Torn)
  /\ phase' = "stripped"
  /\ descriptor' = IF kept = <<>> THEN reportMap ELSE kept
  /\ i' = 1 /\ start' = 1 /\ depth' = 0 /\ tainted' = FALSE /\ kept' = <<>>
  /\ UNCHANGED <<proto, origin, reportMap, pointer, reports>>

\* _create_uhid_device(): a descriptor too long, or /dev/uhid failing, leaves
\* the peer connected without a device.
Create ==
  /\ phase = "stripped"
  /\ \/ /\ Len(descriptor) <= MaxDescriptor
        /\ phase' = "up" /\ pointer' = IsPointer(descriptor)
        /\ kernel' = [r \in RidsOf(descriptor) |-> <<0>>]
     \/ phase' = "failed" /\ UNCHANGED <<pointer, kernel>>
  /\ UNCHANGED <<proto, origin, reportMap, loop, descriptor, ids, held, lost>>

-----------------------------------------------------------------------------
\* _descriptor_report_ids: scanned from the bytes at the first report.
ScannedIds == IF ids # {} THEN ids
              ELSE IF Shown(reportMap) = {} THEN {1, 5} ELSE Shown(reportMap)

\* Volume up and down, and home, as keys F1 to F3 of report 5.
KeyOf == [u \in {233, 234, 547} |-> CASE u = 233 -> 58 [] u = 234 -> 59 [] u = 547 -> 60]

TranslatedHalf(rid, value) ==   \* a slip: the empty frame is passed on
  LET usage == value[1] + 256 * value[2] IN
    IF usage \in DOMAIN KeyOf THEN <<5, 0, KeyOf[usage]>> ELSE <<rid>> \o value

\* A two-byte report of the smallest ID is taken for consumer usages.
Translated(rid, value) ==
  LET usage == value[1] + 256 * value[2] IN
    IF usage = 0 THEN <<5, 0, 0>>
    ELSE IF usage \in DOMAIN KeyOf THEN <<5, 0, KeyOf[usage]>>
    ELSE <<rid>> \o value

KeyboardLike(value) == Len(value) >= 2 /\ value[1] <= 8 /\ value[2] <= 101

Remapped(rid, value, known) == \* _on_ble_hid_report()
  LET consumer == Min(known) IN
    CASE rid \in known \ {consumer} -> <<rid>> \o value
      [] rid = consumer /\ Len(value) = 2 -> Translated(rid, value)
      [] OTHER ->
           IF KeyboardLike(value) /\ value[1] \notin known THEN <<5>> \o value
           ELSE IF value # <<>> /\ value[1] \in known THEN value
           ELSE <<consumer>> \o value

\* On Classic the ID, if there is one, is the first byte of the report itself.
Forwarded(rid, value) ==
  IF proto = "ble" THEN Remapped(rid, value, ScannedIds)
  ELSE IF rid = 0 THEN value ELSE <<rid>> \o value

\* The kernel drops a report whose ID the descriptor does not declare; with
\* none declared, all the bytes are the report.
KernelTakes(data) ==
  IF Declared(descriptor) = {} THEN kernel' = [kernel EXCEPT ![0] = data]
  ELSE IF data[1] \in Declared(descriptor)
  THEN kernel' = [kernel EXCEPT ![data[1]] = Tail(data)]
  ELSE UNCHANGED kernel

\* The peer reports a change: on Classic from the moment the channel is open,
\* on BLE once subscribed to, after the device was made.  The report is dropped
\* while there is no device, and when the write to /dev/uhid fails.
Report(rid, value) ==
  /\ phase \in {"up", "failed"} \/ (phase = "none" /\ proto = "classic")
  /\ held' = [held EXCEPT ![rid] = value]
  /\ ids' = IF proto = "ble" THEN ScannedIds ELSE ids
  /\ IF phase = "up"
     THEN \/ KernelTakes(Forwarded(rid, value)) /\ UNCHANGED lost
          \/ lost' = TRUE /\ UNCHANGED kernel
     ELSE UNCHANGED <<kernel, lost>>
  /\ UNCHANGED <<proto, phase, origin, reportMap, loop, made>>

\* cleanup(): UHID_DESTROY, and the kernel releases what it held.
Destroy ==
  /\ phase \in {"up", "failed"} /\ phase' = "gone"
  /\ pointer' = FALSE /\ kernel' = <<>>
  /\ UNCHANGED <<proto, origin, reportMap, loop, descriptor, ids, held, lost>>

Next ==
  \/ GetMap \/ Inject \/ Strip \/ Stripped \/ Create \/ Destroy
  \/ \E rid \in DOMAIN held, value \in Values : Report(rid, value)

Spec == Init /\ [][Next]_vars

-----------------------------------------------------------------------------
\* The closed top-level collections of a descriptor, by their last items, and
\* the items of those without a Digitizer usage page anywhere in them.
Ends(d) == {k \in DOMAIN d : /\ d[k].is = "close" /\ DepthAt(d, k + 1) = 0
                             /\ Before(d, k, {"torn"}) = {}}
First(d, k) == 1 + Max({0} \cup {e \in Ends(d) : e < k})
Clean(d, k) == \A j \in First(d, k) .. k : d[j] # Page(Digitizer)
Wanted(d) == {j \in DOMAIN d : \E k \in Ends(d) : Clean(d, k) /\ j \in First(d, k) .. k}

\* "A Digitizer must never reach the Kindle" (uhid_handler.py:16): what goes to
\* the kernel is the clean collections, each one whole and in their order; it
\* is the descriptor as it came only when none is clean.
StripsDigitizers ==
  phase = "stripped" =>
    LET wanted == Wanted(reportMap) IN
      IF wanted = {} THEN descriptor = reportMap
      ELSE /\ Len(descriptor) = Cardinality(wanted)
           /\ \A j \in wanted :
                descriptor[Cardinality({l \in wanted : l <= j})] = reportMap[j]

Released(value) == \A n \in DOMAIN value : value[n] = 0

\* The peers the translation is made for: consumer usages of two bytes or more
\* in report 1, keys in report 5, and neither collection stripped.
Assumed ==
  /\ Declared(descriptor) = {1, 5} /\ Shown(reportMap) = {1, 5} /\ DOMAIN held = {1, 5}
  /\ Len(held[1]) >= 2

\* Whatever order keys and knob are pressed and released in, the kernel holds
\* no key down once the peer holds none (ble.py:458-500): on BLE, for the
\* keyboard report of the peers assumed; on Classic for every report, unless
\* the device declares report IDs and the peer none, or the other way round.
KeysRelease ==
  phase = "up" /\ ~lost /\ (\A r \in DOMAIN held : Released(held[r])) =>
    IF proto = "ble" THEN Assumed => Released(kernel[5])
    ELSE (Declared(descriptor) = {}) = (Declared(origin) = {}) =>
           \A r \in DOMAIN kernel : Released(kernel[r])

\* All but the consumer frames (item 1 of the comment) is "remapped by the
\* descriptor's set of report IDs" (ble.py:468, item 2): of a device with report
\* IDs, what is forwarded is a report of the descriptor.  It need not be.
ForwardsDeclared ==
  phase = "up" /\ proto = "ble" /\ Declared(descriptor) # {} =>
    \A rid \in DOMAIN held, value \in Values :
      rid # Min(ScannedIds) \/ Len(value) # 2 =>
        Forwarded(rid, value)[1] \in Declared(descriptor)
=============================================================================
