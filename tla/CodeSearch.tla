----------------------------- MODULE CodeSearch -----------------------------
(***************************************************************************)
(* What the traversal of a method's code graph promises, said without its   *)
(* recursion, its worklist or its rewriting of the graph: once the graph is *)
(* fixed, instructions are reached one at a time, each from a root or from  *)
(* an instruction reached before it, and the search ends only when nothing  *)
(* more can be reached.  The graph itself never changes, however the        *)
(* detailed algorithm re-encodes its branches.                              *)
(***************************************************************************)
EXTENDS Naturals

CONSTANT Instruction   \* the instructions a method may contain

VARIABLES
  edges,     \* control flow: a set of pairs of instructions
  roots,     \* the method's entry and the entries of its handlers
  reached,   \* the instructions found so far
  status     \* "fixing" the graph, "searching" it, or "closed"

vars == <<edges, roots, reached, status>>

Init ==
  /\ edges = {}
  /\ roots = {}
  /\ reached = {}
  /\ status = "fixing"

(* The graph is handed over: from here on it is never modified. *)
Begin ==
  /\ status = "fixing"
  /\ edges' \in SUBSET (Instruction \X Instruction)
  /\ roots' \in SUBSET Instruction
  /\ status' = "searching"
  /\ UNCHANGED reached

(* One more instruction is reached. *)
Reach(n) ==
  /\ status = "searching"
  /\ n \notin reached
  /\ n \in roots \/ \E m \in reached : <<m, n>> \in edges
  /\ reached' = reached \cup {n}
  /\ UNCHANGED <<edges, roots, status>>

Closed ==
  /\ roots \subseteq reached
  /\ \A e \in edges : e[1] \in reached => e[2] \in reached

(* The search may end only when it is complete. *)
Finish ==
  /\ status = "searching"
  /\ Closed
  /\ status' = "closed"
  /\ UNCHANGED <<edges, roots, reached>>

Next == Begin \/ (\E n \in Instruction : Reach(n)) \/ Finish

Spec == Init /\ [][Next]_vars
=============================================================================
