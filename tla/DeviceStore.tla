---------------------------- MODULE DeviceStore ----------------------------
(* The files the daemon keeps its devices in: devices.conf and the blocks  *)
(* of the button mapper's config (config.py, button_mapper.py), bumble's   *)
(* pairing_keys.json, the descriptor cache (device_cache.py), and the copy *)
(* of the list that /status answers from (controller.py).                  *)
(*                                                                         *)
(* The event loop calls these functions without an await, HTTP threads     *)
(* call them beside it, and there is no lock: the steps are those the      *)
(* kernel sees.  open(.., 'w') empties the file; what is written reaches   *)
(* it at close, from offset 0.  A line is a device, all of one length.     *)
EXTENDS Naturals, Sequences, FiniteSets, SequencesExt

CONSTANTS
  Addrs,      \* addresses
  Bystander,  \* one that no request, report or pairing is about
  Removers,   \* HTTP threads that serve /remove
  Pollers,    \* HTTP threads that serve /status
  MaxLines,   \* bound: lines a list grows to by appending
  MaxJobs,    \* bound: requests, jobs and crashes
  MaxTime     \* bound: ticks of the file system's clock

ASSUME BystanderAssumption == Bystander \in Addrs
ASSUME AddrsAssumption == IsFiniteSet(Addrs)  \* 48 bits
ASSUME ThreadAssumption ==
  /\ Removers \cap Pollers = {}
  /\ "loop" \notin Removers \cup Pollers
ASSUME BoundAssumption == MaxLines \in Nat /\ MaxJobs \in Nat /\ MaxTime \in Nat

VARIABLES
  lines,    \* devices.conf ("conf") and the mapper's config ("map")
  keys,     \* pairing_keys.json
  cached,   \* files of the descriptor cache: an address, with or without /P
  pc,       \* the next step of each thread
  job,      \* what the event loop or a remover is at
  got,      \* the list a thread has read
  ring,     \* the keystore a thread has read
  detached, \* threads whose open keystore has since been replaced or renamed
  run,      \* HIDDaemon.run(): "up", "asleep" for want of devices, or "fooled"
  now,      \* the file system's clock
  mtime,    \* of devices.conf
  stat,     \* the mtime a poller has read
  listing,  \* _devices_cache and _devices_mtime
  jobs,     \* requests and jobs begun, for the bound
  meddled,  \* history: jobs during which another thread changed a store
  harm      \* history: what has gone wrong, see Harms

kept    == <<lines, keys, cached>>
working == <<pc, job, got, ring, detached>>
clocks  == <<now, mtime, stat, listing>>
vars == <<kept, working, run, clocks, jobs, meddled, harm>>

Loop    == "loop"
Workers == Removers \cup {Loop}
Threads == Workers \cup Pollers
Touched == Addrs \ {Bystander}
Lists   == {"conf", "map"}

\* The keystore as it parses, truncated, and two texts over one another.
Whole(s) == [text |-> "whole", of |-> s]
Cut      == [text |-> "cut", of |-> {}]
Mixed    == [text |-> "mixed", of |-> {}]
Stores   == {Whole(s) : s \in SUBSET Addrs}

Idle == <<"idle", "none">>
Steps == {Idle, <<"append", "conf">>, <<"check", "map">>, <<"append", "map">>,
          <<"replace", "keys">>, <<"rename", "keys">>, <<"clear", "cache">>,
          <<"answer", "none">>, <<"fetch", "list">>, <<"keep", "list">>}
         \cup {"read", "cut", "write"} \X {"conf", "keys", "map"}

(* "misread": a rewriter took a truncated list for the list; "lost": a     *)
(* writer died or failed with a file truncated; "mixed": two rewrites of   *)
(* the keystore interleaved; "reset": a sound keystore was moved away;     *)
(* "double": a second line for a device; "tick": devices.conf changed      *)
(* twice in a tick and was listed in between.                              *)
Harms == {"misread", "lost", "mixed", "reset", "double", "tick"}

Works == [does : {"remove", "forget", "add", "rotate", "bond", "check"},
          addr : Addrs, old : Addrs]

TypeOK ==
  /\ lines \in [Lists -> Seq(Addrs)]
  /\ keys \in Stores \cup {Cut, Mixed} /\ cached \in SUBSET (Addrs \X {"bare", "/P"})
  /\ pc \in [Threads -> Steps] /\ job \in [Workers -> Works]
  /\ got \in [Threads -> Seq(Addrs)] /\ ring \in [Workers -> SUBSET Addrs]
  /\ detached \in SUBSET Workers
  /\ run \in {"up", "asleep", "fooled"}
  /\ now \in Nat /\ mtime \in Nat /\ stat \in [Pollers -> Nat]
  /\ listing \in [of : Seq(Addrs), at : Nat, set : BOOLEAN]
  /\ jobs \in Nat /\ meddled \in SUBSET Workers /\ harm \in SUBSET Harms

-----------------------------------------------------------------------------
Has(list, a) == \E i \in 1..Len(list) : list[i] = a
Twice(list)  == \E i, j \in 1..Len(list) : i < j /\ list[i] = list[j]

\* The lines of a list that are of devices in S, in their order.
Kept(list, S) ==
  LET at == {i \in 1..Len(list) : list[i] \in S}
      Nth(n) == CHOOSE i \in at : Cardinality({j \in at : j <= i}) = n
  IN [n \in 1..Cardinality(at) |-> list[Nth(n)]]

\* Text written from offset 0 over what the file holds by then.
Over(old, new) == new \o SubSeq(old, Len(new) + 1, Len(old))

At(t, step) == pc[t] = step
Goto(t, step) == pc' = [pc EXCEPT ![t] = step]
Sound == keys.text = "whole"
SomeoneAt(step) == \E t \in Workers : pc[t] = step
Met(h, now_) == IF now_ THEN harm \cup {h} ELSE harm

RestUpTo(t, f) ==        \* a slip: the copying stops at the line it drops
  SubSeq(got[t], 1, SelectInSeq(got[t], LAMBDA a : a = job[t].addr) - 1)

\* What a rewriter of a list writes back: remove_device() drops the first
\* line of the device, unregister_device() every block of it.
Rest(t, f) == IF f = "conf" THEN RemoveFirst(got[t], job[t].addr)
                            ELSE Kept(got[t], Addrs \ {job[t].addr})

\* devices.conf is written at the tick now; the mapper's times are not used.
ListedNow ==
  \/ listing.set /\ listing.at = now
  \/ \E t \in Pollers : At(t, <<"keep", "list">>) /\ stat[t] = now
Changed(f) ==
  IF f = "conf"
  THEN /\ mtime' = now
       /\ harm' = Met("tick", ListedNow) \cup Met("double", Twice(lines'[f]))
  ELSE UNCHANGED <<mtime, harm>>

\* Threads with the keystore open, truncated and not yet written.
Writing == {t \in Workers : At(t, <<"write", "keys">>)}
OverKeys(old, new) ==
  IF \/ old = Cut
     \/ old.text = "whole" /\ Cardinality(old.of) <= Cardinality(new)
  THEN Whole(new) ELSE Mixed

Rewriting(t) == pc[t] \in {<<"cut", "conf">>, <<"write", "conf">>}

AfterKeysEarly(t) ==     \* a slip: it goes straight to the cache
  IF job[t].does = "forget" THEN Idle ELSE <<"clear", "cache">>

\* The end of remove_pairing_key(), and of remove_device().
AfterKeys(t) == IF job[t].does = "forget" THEN Idle ELSE <<"read", "map">>
Ending(t) == IF t = Loop THEN Idle ELSE <<"clear", "cache">>

NoListing == [of |-> <<>>, at |-> 0, set |-> FALSE]

Init ==
  /\ \E paired \in SUBSET Touched : \E s \in SetToSeqs(paired) :
       /\ lines = [f \in Lists |-> s \o <<Bystander>>]
       /\ keys = Whole(paired \cup {Bystander})
  /\ cached = {}
  /\ pc = [t \in Threads |-> Idle]
  /\ job = [t \in Workers |-> [does |-> "check", addr |-> Bystander, old |-> Bystander]]
  /\ got = [t \in Threads |-> <<>>] /\ ring = [t \in Workers |-> {}]
  /\ detached = {} /\ run = "up"
  /\ now = 0 /\ mtime = 0 /\ stat = [t \in Pollers |-> 0]
  /\ listing = NoListing
  /\ jobs = 0 /\ meddled = {} /\ harm = {}

OneMore == jobs < MaxJobs /\ jobs' = jobs + 1

Begin(t, what, a, o, step) ==
  /\ At(t, Idle) /\ OneMore
  /\ job' = [job EXCEPT ![t] = [does |-> what, addr |-> a, old |-> o]]
  /\ Goto(t, step)

BeginRemove(t, a) == \* /remove, or the event loop for an unplugged device
  /\ Begin(t, "remove", a, a, <<"read", "conf">>)
  /\ UNCHANGED <<kept, got, ring, detached, run, clocks, harm>>

BeginForget(a) == \* run() clears a key that failed to authenticate
  /\ Begin(Loop, "forget", a, a, <<"read", "keys">>)
  /\ UNCHANGED <<kept, got, ring, detached, run, clocks, harm>>

\* add_device() returns when the list has the device; a pairing or /connect
\* then resumes the daemon.
BeginAdd(a) ==
  /\ IF Has(lines["conf"], a)
     THEN Begin(Loop, "add", a, a, Idle) /\ run' = "up"
     ELSE Begin(Loop, "add", a, a, <<"append", "conf">>) /\ UNCHANGED run
  /\ UNCHANGED <<kept, got, ring, detached, clocks, harm>>

\* _save_rotated_address(): add the new address, then remove the old one.
BeginRotate(a, old) ==
  /\ run = "up"
  /\ IF Has(lines["conf"], a)
     THEN Begin(Loop, "remove", old, old, <<"read", "conf">>)
     ELSE Begin(Loop, "rotate", a, old, <<"append", "conf">>)
  /\ UNCHANGED <<kept, got, ring, detached, run, clocks, harm>>

\* A slip: the daemon is resumed only when there was something to save.
AddedAsleep(t) == Goto(t, Idle) /\ UNCHANGED <<job, run>>

\* What follows add_device(), also when it failed: it swallows its errors.
Added(t) ==
  IF job[t].does = "rotate"
  THEN /\ job' = [job EXCEPT ![t].does = "remove", ![t].addr = job[t].old]
       /\ Goto(t, <<"read", "conf">>) /\ UNCHANGED run
  ELSE Goto(t, Idle) /\ run' = "up" /\ UNCHANGED job

AppendLine(t, f) ==
  /\ At(t, <<"append", f>>) /\ Len(lines[f]) < MaxLines
  /\ lines' = [lines EXCEPT ![f] = Append(@, job[t].addr)] /\ Changed(f)
  /\ IF f = "conf"
     THEN Goto(t, <<"check", "map">>) /\ UNCHANGED <<job, run>>
     ELSE Added(t)
  /\ UNCHANGED <<keys, cached, got, ring, detached, now, stat, listing, jobs>>

CheckBlock(t) == \* register_device()
  /\ At(t, <<"check", "map">>)
  /\ IF Has(lines["map"], job[t].addr)
     THEN Added(t)
     ELSE Goto(t, <<"append", "map">>) /\ UNCHANGED <<job, run>>
  /\ UNCHANGED <<kept, got, ring, detached, clocks, jobs, harm>>

-----------------------------------------------------------------------------
\* A rewriter that does not find the device has nothing to write.
ReadList(t, f) ==
  /\ At(t, <<"read", f>>)
  /\ IF Has(lines[f], job[t].addr)
     THEN /\ got' = [got EXCEPT ![t] = lines[f]] /\ Goto(t, <<"cut", f>>)
          /\ harm' = Met("misread", SomeoneAt(<<"write", f>>))
     ELSE /\ Goto(t, IF f = "conf" THEN Idle ELSE Ending(t))
          /\ UNCHANGED <<got, harm>>
  /\ UNCHANGED <<kept, job, ring, detached, run, clocks, jobs>>

CutList(t, f) == \* open(f, 'w')
  /\ At(t, <<"cut", f>>)
  /\ lines' = [lines EXCEPT ![f] = <<>>] /\ Changed(f)
  /\ Goto(t, <<"write", f>>)
  /\ UNCHANGED <<keys, cached, job, got, ring, detached, run, now, stat, listing, jobs>>

WriteList(t, f) ==
  /\ At(t, <<"write", f>>)
  /\ IF Rest(t, f) = <<>>
     THEN UNCHANGED <<lines, mtime, harm>>
     ELSE lines' = [lines EXCEPT ![f] = Over(@, Rest(t, f))] /\ Changed(f)
  /\ Goto(t, IF f = "conf" THEN <<"read", "keys">> ELSE Ending(t))
  /\ UNCHANGED <<keys, cached, job, got, ring, detached, run, now, stat, listing, jobs>>

\* remove_pairing_key(): a keystore that does not parse is left alone.
ReadKeys(t) ==
  /\ At(t, <<"read", "keys">>)
  /\ IF Sound /\ job[t].addr \in keys.of
     THEN ring' = [ring EXCEPT ![t] = keys.of] /\ Goto(t, <<"cut", "keys">>)
     ELSE Goto(t, AfterKeys(t)) /\ UNCHANGED ring
  /\ UNCHANGED <<kept, job, got, detached, run, clocks, jobs, harm>>

CutKeys(t) ==
  /\ At(t, <<"cut", "keys">>)
  /\ keys' = Cut /\ detached' = detached \ {t} /\ Goto(t, <<"write", "keys">>)
  /\ UNCHANGED <<lines, cached, job, got, ring, run, clocks, jobs, harm>>

WriteKeys(t) ==
  /\ At(t, <<"write", "keys">>) /\ Goto(t, AfterKeys(t))
  /\ keys' = IF t \in detached THEN keys ELSE OverKeys(keys, ring[t] \ {job[t].addr})
  /\ harm' = Met("mixed", keys' = Mixed)
  /\ UNCHANGED <<lines, cached, job, got, ring, detached, run, clocks, jobs>>

\* A slip: a keystore that does not parse is taken for an empty one.
LoadKeysLenient(a) ==
  /\ Begin(Loop, "bond", a, a, <<"replace", "keys">>)
  /\ ring' = [ring EXCEPT ![Loop] = keys.of]
  /\ UNCHANGED <<kept, got, detached, run, clocks, harm>>

\* bumble's JsonKeyStore: load, then a temporary file renamed over the old
\* one; a keystore that does not parse fails the pairing.
LoadKeys(a) ==
  /\ Sound
  /\ Begin(Loop, "bond", a, a, <<"replace", "keys">>)
  /\ ring' = [ring EXCEPT ![Loop] = keys.of]
  /\ UNCHANGED <<kept, got, detached, run, clocks, harm>>

ReplaceKeys ==
  /\ At(Loop, <<"replace", "keys">>) /\ Goto(Loop, Idle)
  /\ keys' = Whole(ring[Loop] \cup {job[Loop].addr}) /\ detached' = detached \cup Writing
  /\ UNCHANGED <<lines, cached, job, got, ring, run, clocks, jobs, harm>>

\* validate_keystore(), before every scan and pairing: one that does not
\* parse is moved to .bak, under the writer's feet when it has one.
ValidateKeys ==
  /\ ~Sound
  /\ Begin(Loop, "check", Bystander, Bystander, <<"rename", "keys">>)
  /\ UNCHANGED <<kept, got, ring, detached, run, clocks, harm>>

RenameKeys ==
  /\ At(Loop, <<"rename", "keys">>) /\ Goto(Loop, Idle)
  /\ keys' = Whole({}) /\ detached' = detached \cup Writing
  /\ harm' = Met("reset", Sound \/ (keys = Cut /\ Writing \ detached # {}))
  /\ UNCHANGED <<lines, cached, job, got, ring, run, clocks, jobs>>

-----------------------------------------------------------------------------
\* open() or the write at close fails: remove_device() raises, the others
\* report it and go on.
Fails(t) ==
  /\ \E f \in Lists \cup {"keys"} :
       \/ /\ At(t, <<"append", f>>) /\ Added(t) /\ UNCHANGED harm
       \/ /\ \/ At(t, <<"cut", f>>) /\ UNCHANGED harm
             \/ At(t, <<"write", f>>) /\ harm' = Met("lost", TRUE)
          /\ Goto(t, CASE f = "conf" -> Idle
                       [] f = "keys" -> AfterKeys(t)
                       [] f = "map"  -> Ending(t))
          /\ UNCHANGED <<job, run>>
  /\ meddled' = meddled \cup {t}
  /\ UNCHANGED <<kept, got, ring, detached, clocks, jobs>>

ClearCache(t) == \* request_remove(), after remove_device()
  /\ At(t, <<"clear", "cache">>)
  /\ cached' = cached \ {<<job[t].addr, "bare">>} /\ Goto(t, <<"answer", "none">>)
  /\ UNCHANGED <<lines, keys, job, got, ring, detached, run, clocks, jobs, harm>>

Answer(t) ==
  /\ At(t, <<"answer", "none">>) /\ Goto(t, Idle)
  /\ UNCHANGED <<kept, job, got, ring, detached, run, clocks, jobs, harm>>

ClearAll == \* /clear-cache
  /\ OneMore /\ cached' = {}
  /\ UNCHANGED <<lines, keys, working, run, clocks, harm>>

\* A host has read the descriptor; the file is named after the address as
\* bumble or the client wrote it, with /P when public and not normalized.
SaveCache(a) ==
  /\ At(Loop, Idle) /\ OneMore
  /\ \E type \in {"bare", "/P"} : cached' = cached \cup {<<a, type>>}
  /\ UNCHANGED <<lines, keys, working, run, clocks, harm>>

\* run() reads the list before each host and sleeps when it is empty; the
\* one about to be written back is not.
Look ==
  /\ run = "up" /\ At(Loop, Idle)
  /\ run' = IF lines["conf"] # <<>> THEN "up"
            ELSE IF \E t \in Removers : Rewriting(t) /\ Rest(t, "conf") # <<>>
                 THEN "fooled" ELSE "asleep"
  /\ UNCHANGED <<kept, working, clocks, jobs, harm>>

Resume == \* the end of a scan, a pairing or /start
  /\ run # "up" /\ At(Loop, Idle) /\ run' = "up"
  /\ UNCHANGED <<kept, working, clocks, jobs, harm>>

-----------------------------------------------------------------------------
StatBefore(t) ==         \* a slip: one less, to be refreshed at once
  /\ At(t, Idle) /\ OneMore /\ Goto(t, <<"fetch", "list">>)
  /\ stat' = [stat EXCEPT ![t] = mtime - 1]
  /\ UNCHANGED <<kept, job, got, ring, detached, run, now, mtime, listing, harm>>

\* _get_devices_cached(): the mtime first, then the lock, then the list.
Stat(t) ==
  /\ At(t, Idle) /\ OneMore /\ Goto(t, <<"fetch", "list">>)
  /\ stat' = [stat EXCEPT ![t] = mtime]
  /\ UNCHANGED <<kept, job, got, ring, detached, run, now, mtime, listing, harm>>

Fetch(t) ==
  /\ At(t, <<"fetch", "list">>)
  /\ \A q \in Pollers : ~At(q, <<"keep", "list">>)
  /\ IF listing.set /\ stat[t] = listing.at
     THEN Goto(t, Idle) /\ UNCHANGED got
     ELSE got' = [got EXCEPT ![t] = lines["conf"]] /\ Goto(t, <<"keep", "list">>)
  /\ UNCHANGED <<kept, job, ring, detached, run, clocks, jobs, harm>>

KeepLate(t) ==           \* a slip: the mtime is read after the list
  /\ At(t, <<"keep", "list">>) /\ Goto(t, Idle)
  /\ listing' = [of |-> got[t], at |-> mtime, set |-> TRUE]
  /\ UNCHANGED <<kept, job, got, ring, detached, run, now, mtime, stat, jobs, harm>>

Keep(t) ==
  /\ At(t, <<"keep", "list">>) /\ Goto(t, Idle)
  /\ listing' = [of |-> got[t], at |-> stat[t], set |-> TRUE]
  /\ UNCHANGED <<kept, job, got, ring, detached, run, now, mtime, stat, jobs, harm>>

Tick ==
  /\ now < MaxTime /\ now' = now + 1
  /\ UNCHANGED <<kept, working, run, mtime, stat, listing, jobs, harm>>

Unregistered == Kept(lines["conf"], {a \in Addrs : ~Has(lines["map"], a)})

\* Killed and respawned: main() registers every device with the mapper and
\* starts over.
Crash ==
  /\ OneMore
  /\ pc' = [t \in Threads |-> Idle] /\ detached' = {} /\ run' = "up"
  /\ lines' = [lines EXCEPT !["map"] = @ \o Unregistered]
  /\ listing' = NoListing
  /\ harm' = Met("lost", \E t \in Workers, f \in Lists \cup {"keys"} :
                           At(t, <<"write", f>>))
  /\ meddled' = {}
  /\ UNCHANGED <<keys, cached, job, got, ring, now, mtime, stat>>

-----------------------------------------------------------------------------
LoopWorks ==
  \/ \E a \in Touched :
       \/ BeginRemove(Loop, a) \/ BeginForget(a) \/ BeginAdd(a) \/ LoadKeys(a)
       \/ SaveCache(a)
       \/ \E old \in Touched \ {a} : BeginRotate(a, old)
  \/ AppendLine(Loop, "conf") \/ AppendLine(Loop, "map") \/ CheckBlock(Loop)
  \/ ReplaceKeys \/ ValidateKeys \/ RenameKeys \/ Look \/ Resume

Rewrites(t) ==
  \/ \E f \in Lists : ReadList(t, f) \/ CutList(t, f) \/ WriteList(t, f)
  \/ ReadKeys(t) \/ CutKeys(t) \/ WriteKeys(t)

Serves ==
  \/ \E t \in Removers, a \in Touched : BeginRemove(t, a)
  \/ \E t \in Removers : ClearCache(t) \/ Answer(t)
  \/ \E t \in Pollers : Stat(t) \/ Fetch(t) \/ Keep(t)
  \/ ClearAll

\* A job is meddled with when a store changes in it by another's step.
Meddling ==
  meddled' = {t \in Workers :
    /\ pc'[t] # Idle
    /\ t \in meddled \/ (pc'[t] = pc[t] /\ pc[t] # Idle /\ kept' # kept)}

Next ==
  \/ /\ LoopWorks \/ Serves \/ Tick \/ \E t \in Workers : Rewrites(t)
     /\ Meddling
  \/ \E t \in Workers : Fails(t)
  \/ Crash

Spec == Init /\ [][Next]_vars

-----------------------------------------------------------------------------
\* A device that nobody touches stays configured, and stays known to the
\* mapper, unless a rewriter took a truncated file for the list or a write
\* was cut off: lines 289-304 of config.py, 83-110 of button_mapper.py.
BystanderListed ==
  harm \cap {"misread", "lost"} = {} =>
    \A f \in Lists : Has(lines[f], Bystander) \/ SomeoneAt(<<"write", f>>)

\* A bond that nobody touches survives every removal, pairing and check of
\* the keystore that overlap: a truncated keystore does not parse, so no one
\* writes back what was read from it (config.py:250).  It is lost only with
\* the file: a write cut off, two rewrites mixed, or a reset under a writer.
BystanderBonded ==
  harm \cap {"mixed", "lost", "reset"} = {} =>
    \/ Sound /\ Bystander \in keys.of
    \/ keys = Cut /\ Writing \ detached # {}

\* A removal nobody meddles with leaves no line, key or block of the device,
\* nor a descriptor cached under its bare address (controller.py:255).
LeftNothing(a) ==
  /\ \A f \in Lists : ~Has(lines[f], a)
  /\ a \notin keys.of /\ <<a, "bare">> \notin cached

RemovedLeavesNothing ==
  \A t \in Removers :
    At(t, <<"answer", "none">>) /\ t \notin meddled /\ "double" \notin harm =>
      LeftNothing(job[t].addr)

\* run() sleeps for want of devices only while there are none, or when it
\* looked in the middle of a removal (daemon.py:144).
SleepsOnlyEmpty ==
  run = "asleep" /\ At(Loop, Idle) => lines["conf"] = <<>>

\* A cached list whose mtime is the file's is the file's list, unless the
\* file changed twice in one tick of its clock (controller.py:92).
ListingIsCurrent ==
  "tick" \notin harm /\ listing.set /\ listing.at = mtime =>
    listing.of = lines["conf"]

\* "back up and reset if corrupt" (config.py:222): a keystore that is whole,
\* or that its writer is about to complete, is not moved away.  The code does.
ResetsOnlyCorrupt == "reset" \notin harm
=============================================================================
