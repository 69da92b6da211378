---------------------------- MODULE MCMethodCode ----------------------------
(* Small instances of MethodCode for TLC: the instructions a run allows. *)
EXTENDS MethodCode, FiniteSets

CONSTANTS a, b   \* labels

I(o, w, p, q, x) == [op |-> o, width |-> w, pop |-> p, push |-> q, ext |-> x]

Push    == I("plain", 2, 0, 1, 1)      \* iload
Pop     == I("plain", 1, 1, 0, 0)      \* pop
Hole    == I("unused", 1, 0, 0, 0)     \* xxxunusedxxx
Wide    == I("wide", 1, 0, 0, 0)
Goto    == I("goto", 3, 0, 0, 0)
Jsr     == I("jsr", 3, 0, 1, 0)
If      == I("cond", 3, 1, 0, 0)       \* ifeq
IfSame  == I("cond", 3, 0, 0, 0)       \* a branch leaving the stack as it is
Return  == I("return", 1, 0, 0, 0)
Ret     == I("ret", 2, 0, 0, 1)
Switch  == I("tableswitch", 13, 1, 0, 0)

\* Straight-line code, placeholders, loops and forward branches.
FlowInstrs   == {Push, Hole, Goto, If, Return}
\* Branches only, to be widened.
FarInstrs    == {Goto, IfSame, Return, Push}
HandlerInstrs == {Push, If, IfSame, Return}
SwitchInstrs == {Push, Switch, Jsr, Ret, Return, Wide}
SwitchOnly   == {Push, Switch, Return}
OverflowInstrs == {Goto, Return}

RewriteInstrs == FarInstrs \cup HandlerInstrs \cup SwitchInstrs \cup {Hole}

Appended == {ins[n] : n \in Emitted}

\* Methods that hold one switch: two multiply the graphs without bringing a new
\* order of visits.
OneSwitch == Cardinality({n \in Emitted : op[n] \in SwitchOps}) <= 1

\* The methods of run rewrite: branches only, a switch among other code, or a
\* handler; among the first three instructions a placeholder, to be overwritten.
RewriteMethods ==
  \/ Appended \subseteq FarInstrs /\ handlers = <<>>
  \/ Appended \subseteq FarInstrs \cup {Hole} /\ handlers = <<>> /\ used <= 3
  \/ Appended \subseteq SwitchInstrs /\ handlers = <<>> /\ used <= 3 /\ OneSwitch
  \/ Appended \subseteq HandlerInstrs /\ used <= 3
=============================================================================
