---------------------------- MODULE MCHciResync ----------------------------
(* Bytes that begin a packet, make short and long lengths, or neither.  An  *)
(* ACL header <<2, x, x, 2, 4>> claims 1026 bytes, one more than 1024 + 1.   *)
EXTENDS HciResync, SequencesExt

MCReads == BoundedSeq({0, 2, 4}, 3) \ {<<>>}
=============================================================================
