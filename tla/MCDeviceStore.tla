--------------------------- MODULE MCDeviceStore ---------------------------
(* Model values for DeviceStore, and a view of its states.  A local of a    *)
(* function that has returned is dead: no guard and no property reads it,   *)
(* nor whether the loop's job was meddled with.                            *)
EXTENDS DeviceStore, TLC

Symmetry == Permutations(Removers) \cup Permutations(Touched)

Read == {"cut", "write"}

\* No listing is kept and none will be: the times mean nothing any more.
NeverListed == jobs = MaxJobs /\ ~listing.set /\ \A t \in Pollers : pc[t] = Idle

LiveView ==
  <<lines, keys, cached, pc, run, jobs,
    IF NeverListed THEN <<>> ELSE <<now, mtime, listing>>,
    meddled \cap Removers, harm, detached \cap Writing,
    [t \in Workers |-> IF pc[t] = Idle THEN <<>> ELSE <<job[t]>>],
    [t \in Threads |-> IF pc[t] \in (Read \X Lists) \cup {<<"keep", "list">>}
                       THEN got[t] ELSE <<>>],
    [t \in Workers |-> IF pc[t] \in (Read \X {"keys"}) \cup {<<"replace", "keys">>}
                       THEN ring[t] ELSE {}],
    [t \in Pollers |-> IF pc[t] = Idle THEN 0 ELSE stat[t]]>>
=============================================================================
