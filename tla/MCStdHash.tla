------------------------------ MODULE MCStdHash ------------------------------
(* Three keys that meet in tables of 2, of 4 and of 8 slots: two begin in  *)
(* the last slot of each, so that their search goes round to where the     *)
(* third begins.                                                           *)
EXTENDS StdHash

MCHashOf == [k \in Keys |-> IF k = 3 THEN 0 ELSE 7]
=============================================================================
