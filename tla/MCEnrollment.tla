---------------------------- MODULE MCEnrollment ----------------------------
(***************************************************************************)
(* Instances of Enrollment for TLC. The run of the safety properties has    *)
(* two desks in one: a behaviour picks one of them first and stays there.   *)
(***************************************************************************)
EXTENDS Enrollment, TLC

VARIABLE desk

\* The halaqahs accept everybody
MCAll == {Regs}

\* An administrator may also turn the first registration away; a halaqah may be closed
MCSome == {Regs, Regs \ {1}, {}}

\* Two halaqahs of the mosque that accept everybody, and two registrations. Seats that are
\* forgotten, and requests that die before they fill one, are left to the other desk.
TwoHalaqahs ==
  /\ \A h \in Halaqahs : joined[h]
  /\ reg[3].status = "absent"
  /\ \A h \in Halaqahs : ~lost[h]
  /\ \A r \in Regs : reg[r].order <= 2 /\ \A w \in Workers : job[w].new[r].order <= 2
  /\ accepts = [h \in Halaqahs |-> Regs]
  /\ \A w \in Workers : job[w].at = "deciding" => job[w].allows = accepts

\* One halaqah with changing criteria, which may join the mosque late, and three
\* registrations; the other is closed. A claim whose request died is left to the other desk.
OneLine ==
  /\ count[2] = 0 /\ joined[2] /\ accepts[2] = {} /\ accepts[1] # {}
  /\ \A r \in Regs : reg[r].halaqah # 2
  /\ \A r \in Regs : reg[r].status = "assigned" /\ ~reg[r].student =>
       \E w \in Workers : job[w].at \in {"claimed", "added"} /\ job[w].r = r
  /\ \A w \in Workers : job[w].h # 2 /\ (job[w].at = "deciding" => job[w].allows[1] # {})

AtDesk == IF desk = "halaqahs" THEN TwoHalaqahs ELSE OneLine

DeskInit == Init /\ desk \in {"halaqahs", "line"} /\ AtDesk
DeskNext == Next /\ UNCHANGED desk /\ AtDesk'
DeskSpec == DeskInit /\ [][DeskNext]_<<vars, desk>>

\* The runs of one property need one desk
OneDeskInit == Init /\ desk = "only"
OneDeskNext == Next /\ UNCHANGED desk

\* Requests in flight are interchangeable
Symmetry == Permutations(Workers)

=============================================================================
