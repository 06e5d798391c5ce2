------------------------------ MODULE MCWardLog ------------------------------
(* The instances of WardLog that TLC checks. *)
EXTENDS WardLog, TLC

CONSTANTS today, yesterday, c1, c2, s1, s2, r1, r2

\* c1 is a ward of today, c2 one of yesterday.
MCDateOf == [c \in Contents |-> IF c = c1 THEN today ELSE yesterday]

\* One ward is explored in full, with its buddies, tracks and grades; the wards
\* of one pupil that follow each other are all alike in everything else, and from
\* the third on one request is in flight at a time.
PlainWards(s) ==
  /\ ~resetOnEdit
  /\ \A w \in WardIds :
       /\ log[w].student \in {s, Nobody} /\ log[w].content \in {c1, Nothing}
       /\ log[w].track = Nothing /\ ~log[w].graded /\ buddy[w] = NoBuddy
  /\ \A r \in Requests :
       /\ req[r].student \in {s, Nobody} /\ req[r].content \in {c1, Nothing}
       /\ req[r].track = Nothing /\ req[r].buddy = Nobody

OneWardOrPlain ==
  \/ nextId = 1
  \/ /\ nextId = 2
     /\ \A r \in Requests : req[r].pc \notin {"checked", "linked"}
     /\ \E r \in Requests : req[r].track = Nothing
  \/ /\ nextId <= 2 \/ \E r \in Requests : req[r] = Idle
     /\ \E s \in Students : PlainWards(s)

Symmetry == Permutations({s1, s2}) \cup Permutations({r1, r2})

=============================================================================
