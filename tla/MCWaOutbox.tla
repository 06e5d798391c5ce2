----------------------------- MODULE MCWaOutbox ------------------------------
(* The instances of WaOutbox that TLC checks. *)
EXTENDS WaOutbox, TLC

CONSTANTS a, b, c, m1, m2, p1, p2, w1, w2

\* a and c are messages of one mosque, a and b go to one number.
MCMosqueOf == [r \in Refs |-> IF r = b THEN m2 ELSE m1]
MCPhoneOf == [r \in Refs |-> IF r = c THEN p2 ELSE p1]

Symmetry == Permutations({w1, w2})

=============================================================================
