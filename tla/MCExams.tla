-------------------------------- MODULE MCExams --------------------------------
(* Instances of Exams for TLC. *)
EXTENDS Exams, TLC

Symmetry == Permutations(Sessions) \union Permutations(Requests) \union Permutations(Nominations)
              \union Permutations(Scores)

=============================================================================
