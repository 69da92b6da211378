---------------------------- MODULE InternTable ----------------------------
(***************************************************************************)
(* What the constant pool of a class promises its clients: a table that     *)
(* gives each constant one index and each index one constant, and that only *)
(* ever grows, so that an index once handed out keeps its meaning.          *)
(***************************************************************************)

VARIABLE meaning   \* pairs of an index and the constant it stands for

Init == meaning = {}

OneToOne(m) == \A x, y \in m : x[1] = y[1] <=> x[2] = y[2]

(* A client asks for a constant; the table may need others besides. *)
Intern ==
  /\ meaning \subseteq meaning'
  /\ OneToOne(meaning')

Spec == Init /\ [][Intern]_meaning
=============================================================================
