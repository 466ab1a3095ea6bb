---------------------------- MODULE MCTransport ----------------------------
(* Model values for Transport: two users and the retries of the code.      *)
EXTENDS Transport, TLC

UserSymmetry == Permutations(Users)
=============================================================================
