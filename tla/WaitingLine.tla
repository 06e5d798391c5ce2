----------------------------- MODULE WaitingLine -----------------------------
(***************************************************************************)
(* What the line of a mosque promises to those who stand in it: whoever    *)
(* comes stands behind everybody who is there, whoever goes leaves the     *)
(* others as they were, and nobody overtakes but by the hand of an         *)
(* administrator, who lets two neighbours change places.                   *)
(***************************************************************************)
CONSTANT People

VARIABLES
  waiting,   \* who stands in line
  ahead      \* <<p, q>>: p stands before q

line == <<waiting, ahead>>

Between(s, t) == s \X t

\* Everybody in s stands before or behind everybody else in s
InOrder(s, rel) ==
  /\ rel \subseteq Between(s, s)
  /\ \A p \in s : <<p, p>> \notin rel
  /\ \A p, q \in s : p # q => <<p, q>> \in rel \/ <<q, p>> \in rel
  /\ \A p, q, r \in s : <<p, q>> \in rel /\ <<q, r>> \in rel => <<p, r>> \in rel

LineInit == waiting = {} /\ ahead = {}

\* People come, one or many at once
Come ==
  /\ waiting \subseteq waiting' /\ waiting # waiting' /\ waiting' \subseteq People
  /\ ahead' \intersect Between(waiting, waiting) = ahead
  /\ Between(waiting, waiting' \ waiting) \subseteq ahead'
  /\ InOrder(waiting', ahead')

\* Some of them go: they are served or removed
Go ==
  /\ waiting' \subseteq waiting
  /\ ahead' = ahead \intersect Between(waiting', waiting')

\* Two neighbours change places
ChangePlaces ==
  /\ UNCHANGED waiting
  /\ \E p, q \in waiting :
       /\ <<p, q>> \in ahead
       /\ \A r \in waiting : ~(<<p, r>> \in ahead /\ <<r, q>> \in ahead)
       /\ ahead' = (ahead \ {<<p, q>>}) \union {<<q, p>>}

LineNext == Go \/ Come \/ ChangePlaces

LineSpec == LineInit /\ [][LineNext]_line

=============================================================================
