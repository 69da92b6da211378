----------------------------- MODULE MethodCode -----------------------------
(***************************************************************************)
(* The code of one JVM method as libbytecode builds and finalizes it.       *)
(*                                                                          *)
(* A client appends instructions (bc_append), links branches to             *)
(* instructions or to labels, adds switch cases and exception handlers,     *)
(* and then has the class written, which finalizes the method:              *)
(* traverse_code walks the code graph depth first (calc_offsets), computing *)
(* stack depths and branch offsets and widening the branches that are too   *)
(* far, and, when anything moved, lays the code out again.                  *)
(*                                                                          *)
(* The C recursion of calc_offsets is the stack of frames "work": what is   *)
(* still to be done by the calls in progress, innermost first.  The loops   *)
(* over the code list take one step per instruction.                        *)
(*                                                                          *)
(* Left out: opcodes that behave alike are one kind of instruction          *)
(* ("plain" includes athrow and lreturn, which the code lets fall through;  *)
(* "return" stands for return, areturn, dreturn, freturn and ireturn, which *)
(* calc_offsets rewrites into one another); operands that are not branch    *)
(* offsets; nodes handed out while gen_bytecode is FALSE, which never enter *)
(* the method; failed allocations.                                          *)
(***************************************************************************)
EXTENDS Integers, Sequences

CONSTANTS
  MaxInstrs,    \* the most instructions a client appends
  Instrs,       \* the instructions it may append
  Label,        \* the labels it may use
  CaseNum,      \* the case numbers of its switches
  MaxHandlers,  \* the most exception handlers it adds
  BranchMax,    \* the largest offset of a narrow branch: 2^15 - 1 in check_distance
  FillThresh,   \* JVM_SWITCH_FILL_THRESH: 10
  StackLimit    \* the largest stack depth a property looks at

JumpOps   == {"goto", "goto_w", "jsr", "jsr_w"}
SwitchOps == {"tableswitch", "lookupswitch"}
ReturnOps == {"return", "ret"}
BranchOps == JumpOps \cup {"cond"}
Ops       == {"plain", "unused", "wide"} \cup BranchOps \cup SwitchOps \cup ReturnOps

(* An instruction as jvm_opcode describes it: its width in bytes, what it   *)
(* takes off the stack and puts on it, and by how much a preceding wide     *)
(* instruction lengthens it.                                                *)
Instruction == [op : Ops, width : 1..255, pop : Nat, push : Nat, ext : 0..2]

PlaceholderWidth == 1   \* xxxunusedxxx
GotoWidth        == 3   \* goto, jsr
WideGotoWidth    == 5   \* goto_w, jsr_w

ASSUME MaxInstrsAssumption   == MaxInstrs \in Nat
ASSUME InstrsAssumption      == Instrs \subseteq Instruction
ASSUME PlaceholderAssumption == \A i \in Instrs : i.op = "unused" => i.width = PlaceholderWidth /\ i.ext = 0
ASSUME LabelAssumption       == 0 \notin Label
ASSUME CaseNumAssumption     == CaseNum \subseteq Int
ASSUME MaxHandlersAssumption == MaxHandlers \in Nat
ASSUME BranchMaxAssumption   == BranchMax \in Nat
ASSUME FillThreshAssumption  == FillThresh \in Nat
ASSUME StackLimitAssumption  == StackLimit \in Nat

(* Nodes are numbered in the order the client creates them.  The two nodes  *)
(* that widening the conditional n creates are GotoOf(n) and WideOf(n).     *)
Client    == 1..MaxInstrs
Node      == 1..(3 * MaxInstrs)
None      == 0
NodeOrNone == Node \cup {None}
GotoOf(n) == MaxInstrs + 2 * n - 1
WideOf(n) == MaxInstrs + 2 * n

VARIABLES
  phase,      \* what the method's owner is doing
  used,       \* the number of nodes the client has created
  code,       \* the code list: the nodes in the order they will be written
  ins,        \* for each node, the instruction that was appended
  op,         \* its opcode now
  width,      \* its width now
  pc,         \* its address
  next,       \* the node that follows it
  target,     \* branch_target
  label,      \* branch_label
  operand,    \* the branch offset
  depth,      \* stack_depth, -1 when unknown
  visited,
  cases,      \* a switch's cases: pairs of a case number and a node
  low, high,  \* its smallest and largest case number
  entries,    \* its num_entries
  dflt,       \* a switch's default_case
  labelled,   \* the first instruction associated with each label
  handlers,   \* exc_table
  methPc,     \* the method's pc: the length of its code
  stacksize,  \* the stack after the instruction calc_offsets saw last
  maxStack,   \* max_stack
  reCalc,     \* reCalcAddr
  work,       \* what the calls of calc_offsets in progress still have to do
  entered,    \* the number of handlers traversed: num_handlers
  idx,        \* position of a loop over the code list
  tmpPc,
  warned,     \* has "diff stack sizes" been reported?
  orphan      \* history: was a handler entered whose try block was unvisited?

graph     == <<used, code, ins, next, pc>>
links     == <<label, cases, low, high, dflt, labelled, handlers>>
encoding  == <<op, width, target, operand, entries>>
analysis  == <<depth, visited, stacksize, maxStack, reCalc, warned>>
walk      == <<work, entered, orphan>>
layout    == <<idx, tmpPc>>
vars == <<phase, graph, links, encoding, methPc, analysis, walk, layout>>

Emitted == 1..used
Last(s) == s[Len(s)]
-----------------------------------------------------------------------------
(* Building the method. *)

(* A frame of calc_offsets: enter a node, return from a jsr to the node     *)
(* after it, or go on with a switch's cases from a case number.             *)
Frame == [at : {"enter", "after", "cases"}, node : Node, from : Int]

Enter(n)    == [at |-> "enter", node |-> n, from |-> 0]
After(n)    == [at |-> "after", node |-> n, from |-> 0]
Cases(n, c) == [at |-> "cases", node |-> n, from |-> c]

Handler == [from : Client, to : Client, target : Client]

(* The contents of a node nobody has created yet; bc_new_graph_node gives   *)
(* every node the same targets, label, depth and visited flag.              *)
Blank == [op |-> "plain", width |-> 1, pop |-> 0, push |-> 0, ext |-> 0]

Init ==
  /\ phase = "append" /\ used = 0 /\ code = <<>>
  /\ ins = [n \in Node |-> Blank]
  /\ op = [n \in Node |-> "plain"]
  /\ width = [n \in Node |-> 1]
  /\ pc = [n \in Node |-> 0]
  /\ next = [n \in Node |-> None]
  /\ target = [n \in Node |-> None]
  /\ label = [n \in Node |-> None]
  /\ operand = [n \in Node |-> 0]
  /\ depth = [n \in Node |-> -1]
  /\ visited = [n \in Node |-> FALSE]
  /\ cases = [n \in Node |-> {}]
  /\ low = [n \in Node |-> 0] /\ high = [n \in Node |-> 0]
  /\ entries = [n \in Node |-> 0]
  /\ dflt = [n \in Node |-> None]
  /\ labelled = [l \in Label |-> None]
  /\ handlers = <<>>
  /\ methPc = 0 /\ stacksize = 0 /\ maxStack = 0 /\ reCalc = FALSE
  /\ work = <<>> /\ entered = 0 /\ idx = 1 /\ tmpPc = 0
  /\ warned = FALSE /\ orphan = FALSE

(* bytecode1: the code so far ends in a placeholder, which the instruction  *)
(* takes over, label and incoming branches included.                        *)
EndsInPlaceholder == code # <<>> /\ op[Last(code)] = "unused"

(* forgets that the method grows *)
MutantOverwritePlaceholder(i) ==
  /\ phase = "append"
  /\ EndsInPlaceholder
  /\ LET n == Last(code) IN
       /\ ins' = [ins EXCEPT ![n] = i]
       /\ op' = [op EXCEPT ![n] = i.op]
       /\ width' = [width EXCEPT ![n] = i.width]
  /\ UNCHANGED <<phase, used, code, methPc, pc, next, links, target, operand, entries,
                 analysis, walk, layout>>

OverwritePlaceholder(i) ==
  /\ phase = "append"
  /\ EndsInPlaceholder
  /\ LET n == Last(code) IN
       /\ ins' = [ins EXCEPT ![n] = i]
       /\ op' = [op EXCEPT ![n] = i.op]
       /\ width' = [width EXCEPT ![n] = i.width]
  /\ methPc' = methPc + i.width - PlaceholderWidth
  /\ UNCHANGED <<phase, used, code, pc, next, links, target, operand, entries, analysis, walk, layout>>

(* bytecode1: the instruction is a new node at the end of the code. *)
AppendedWidth(i) ==
  IF code # <<>> /\ op[Last(code)] = "wide" THEN i.width + i.ext ELSE i.width

AppendInstr(i) ==
  /\ phase = "append"
  /\ ~ EndsInPlaceholder
  /\ used < MaxInstrs
  /\ LET n == used + 1 IN
       /\ used' = n
       /\ code' = Append(code, n)
       /\ ins' = [ins EXCEPT ![n] = i]
       /\ op' = [op EXCEPT ![n] = i.op]
       /\ width' = [width EXCEPT ![n] = AppendedWidth(i)]
       /\ pc' = [pc EXCEPT ![n] = methPc]
       /\ next' = [m \in Node |-> IF code # <<>> /\ m = Last(code) THEN n ELSE next[m]]
  /\ methPc' = methPc + AppendedWidth(i)
  /\ UNCHANGED <<phase, links, target, operand, entries, analysis, walk, layout>>

(* The linking calls commute with each other and with the later appends, so *)
(* the model makes them when the code is complete, in the order of the      *)
(* nodes, then associates labels, then adds handlers.                       *)
StartLinking ==
  /\ phase = "append"
  /\ phase' = "link"
  /\ UNCHANGED <<graph, links, encoding, methPc, analysis, walk, layout>>

Linked(n) ==
  /\ op[n] \in BranchOps => target[n] # None \/ label[n] # None
  /\ op[n] \in SwitchOps => dflt[n] # None

Linking(n) ==
  /\ phase = "link"
  /\ \A m \in Emitted : m < n => Linked(m)
  /\ ~ Linked(n)
  /\ UNCHANGED <<phase, graph, op, width, operand, methPc, analysis, walk, layout>>

(* bc_set_branch_target *)
SetBranchTarget(n, t) ==
  /\ op[n] \in BranchOps
  /\ Linking(n)
  /\ target' = [target EXCEPT ![n] = t]
  /\ UNCHANGED <<links, entries>>

(* bc_set_branch_label; calc_offsets resolves the labels of jumps only. *)
SetBranchLabel(n, l) ==
  /\ op[n] \in JumpOps
  /\ Linking(n)
  /\ label' = [label EXCEPT ![n] = l]
  /\ UNCHANGED <<target, entries, cases, low, high, dflt, labelled, handlers>>

(* bc_add_switch_case: each case number once; the order in which cases are  *)
(* added is lost when they are sorted.                                      *)
AddSwitchCase(n, c, t) ==
  /\ op[n] \in SwitchOps
  /\ Linking(n)
  /\ \A e \in cases[n] : e[1] < c
  /\ cases' = [cases EXCEPT ![n] = @ \cup {<<c, t>>}]
  /\ low' = [low EXCEPT ![n] = IF cases[n] = {} \/ c < @ THEN c ELSE @]
  /\ high' = [high EXCEPT ![n] = IF cases[n] = {} \/ c > @ THEN c ELSE @]
  /\ entries' = [entries EXCEPT ![n] = @ + 1]
  /\ UNCHANGED <<target, label, dflt, labelled, handlers>>

(* bc_add_switch_default *)
AddSwitchDefault(n, t) ==
  /\ op[n] \in SwitchOps
  /\ Linking(n)
  /\ dflt' = [dflt EXCEPT ![n] = t]
  /\ UNCHANGED <<target, entries, label, cases, low, high, labelled, handlers>>

AllLinked == phase = "link" /\ \A n \in Emitted : Linked(n)

(* bc_associate_branch_label: find_label reads only the first association. *)
AssociateLabel(l, n) ==
  /\ AllLinked
  /\ handlers = <<>>
  /\ labelled[l] = None
  /\ labelled' = [labelled EXCEPT ![l] = n]
  /\ UNCHANGED <<phase, graph, label, cases, low, high, dflt, handlers, encoding, methPc, analysis, walk, layout>>

(* bc_add_exception_handler *)
AddHandler(from, to, t) ==
  /\ AllLinked
  /\ Len(handlers) < MaxHandlers
  /\ from < to
  /\ handlers' = Append(handlers, [from |-> from, to |-> to, target |-> t])
  /\ UNCHANGED <<phase, graph, label, cases, low, high, dflt, labelled, encoding, methPc, analysis, walk, layout>>
-----------------------------------------------------------------------------
(* Finalizing the method. *)

(* traverse_code, up to its first call of calc_offsets. *)
StartTraverse ==
  /\ AllLinked
  /\ IF code = <<>>
       THEN /\ phase' = "done"
            /\ UNCHANGED <<depth, reCalc, work>>
       ELSE /\ phase' = "traverse"
            /\ depth' = [depth EXCEPT ![Head(code)] = 0]
            /\ reCalc' = FALSE
            /\ work' = <<Enter(Head(code))>>
  /\ UNCHANGED <<graph, links, encoding, methPc, visited, stacksize, maxStack, warned, entered, orphan, layout>>

(* The innermost call is about to do frame f; rest is what its callers have *)
(* left to do.                                                              *)
Top(f)    == phase = "traverse" /\ work # <<>> /\ Head(work) = f
(* calls calc_offsets with NULL.  A Mutant... here and below is a           *)
(* definition with a plausible bug in it, which the project's mutation runs *)
(* put in the place of the one that follows it.                             *)
MutantEnterIf(n) == <<Enter(n)>>
EnterIf(n) == IF n = None THEN <<>> ELSE <<Enter(n)>>

(* calc_offsets returns at once from a node it has seen. *)
EnterVisited(n) ==
  /\ Top(Enter(n))
  /\ visited[n]
  /\ work' = Tail(work)
  /\ UNCHANGED <<phase, graph, links, encoding, methPc, analysis, entered, orphan, layout>>

(* The head of calc_offsets: the node is marked and its instruction takes   *)
(* effect on the stack (dec_stack, then inc_stack).                         *)
SizeAfter(n) == depth[n] - ins[n].pop + ins[n].push
MutantBigger(a, b) == b   \* the last size, not the largest
Bigger(a, b) == IF a > b THEN a ELSE b

Visit(n) ==
  /\ Top(Enter(n))
  /\ ~ visited[n]
  /\ stacksize' = SizeAfter(n)
  /\ maxStack' = Bigger(maxStack, SizeAfter(n))
  /\ UNCHANGED <<phase, links, methPc, entered, orphan, layout>>

VisitPlain(n) ==
  /\ Visit(n)
  /\ op[n] \notin BranchOps \cup SwitchOps \cup ReturnOps
  /\ visited' = [visited EXCEPT ![n] = TRUE]
  /\ depth' = [m \in Node |-> IF m = next[n] THEN SizeAfter(n) ELSE depth[m]]
  /\ work' = EnterIf(next[n]) \o Tail(work)
  /\ UNCHANGED <<graph, encoding, reCalc, warned>>

VisitReturn(n) ==
  /\ Visit(n)
  /\ op[n] \in ReturnOps
  /\ visited' = [visited EXCEPT ![n] = TRUE]
  /\ work' = Tail(work)
  /\ UNCHANGED <<graph, encoding, depth, reCalc, warned>>

(* check_distance *)
TooFar(o, dest, src) ==
  /\ o \notin {"goto_w", "jsr_w"}
  /\ dest - src > BranchMax \/ dest - src < -(BranchMax + 1)

(* bc_node_at_pc gives up at the first node of the list beyond the address. *)
NodeAtPc(p) ==
  IF \E k \in 1..Len(code) : pc[code[k]] = p /\ \A j \in 1..(k - 1) : pc[code[j]] < p
  THEN CHOOSE n \in Node : \E k \in 1..Len(code) :
         n = code[k] /\ pc[n] = p /\ \A j \in 1..(k - 1) : pc[code[j]] < p
  ELSE None

(* The node a jump goes to: its target, or else the node at the address of  *)
(* the instruction its label is associated with (find_label).               *)
MutantJumpDest(n) == target[n]   \* ignores the label
JumpDest(n) ==
  IF target[n] # None THEN target[n]
  ELSE IF label[n] \in Label /\ labelled[label[n]] # None
       THEN NodeAtPc(pc[labelled[label[n]]])
       ELSE None

AfterJsr(n) == IF op[n] \in {"jsr", "jsr_w"} THEN <<After(n)>> ELSE <<>>

VisitJump(n) ==
  /\ Visit(n)
  /\ op[n] \in JumpOps
  /\ JumpDest(n) # None
  /\ visited' = [visited EXCEPT ![n] = TRUE]
  /\ LET d   == JumpDest(n)
         far == TooFar(op[n], pc[d], pc[n])
     IN
       /\ depth' = [depth EXCEPT ![d] = IF @ = -1 THEN SizeAfter(n) ELSE @]
       /\ warned' = (warned \/ depth[d] \notin {-1, SizeAfter(n)})
       /\ reCalc' = (reCalc \/ far)
       /\ op' = [op EXCEPT ![n] = IF far THEN (IF @ = "goto" THEN "goto_w" ELSE "jsr_w") ELSE @]
       /\ width' = [width EXCEPT ![n] = IF far THEN WideGotoWidth ELSE @]
       /\ operand' = [operand EXCEPT ![n] = pc[d] - pc[n]]
       /\ target' = [target EXCEPT ![n] = d]
       /\ work' = <<Enter(d)>> \o AfterJsr(n) \o Tail(work)
  /\ UNCHANGED <<graph, entries>>

(* "cannot find label" or "cannot find node": the jump stays unresolved. *)
VisitLostJump(n) ==
  /\ Visit(n)
  /\ op[n] \in JumpOps
  /\ JumpDest(n) = None
  /\ visited' = [visited EXCEPT ![n] = TRUE]
  /\ work' = AfterJsr(n) \o Tail(work)
  /\ UNCHANGED <<graph, encoding, depth, reCalc, warned>>

(* A jsr goes on to the next node with the stack its subroutine's traversal *)
(* happened to leave behind.                                                *)
ReturnFromJsr(n) ==
  /\ Top(After(n))
  /\ depth' = [m \in Node |-> IF m = next[n] THEN stacksize ELSE depth[m]]
  /\ work' = EnterIf(next[n]) \o Tail(work)
  /\ UNCHANGED <<phase, graph, links, encoding, methPc, visited, stacksize, maxStack,
                 reCalc, warned, entered, orphan, layout>>

(* Both successors of a conditional get its stack, whatever they had. *)
MutantCondDepths(n) ==   \* only the node that follows
  depth' = [m \in Node |-> IF m = next[n] THEN SizeAfter(n) ELSE depth[m]]
CondDepths(n) ==
  depth' = [m \in Node |-> IF m \in {next[n], target[n]} THEN SizeAfter(n) ELSE depth[m]]
CondWork(n) == work' = EnterIf(next[n]) \o <<Enter(target[n])>> \o Tail(work)

VisitCond(n) ==
  /\ Visit(n)
  /\ op[n] = "cond"
  /\ ~ TooFar(op[n], pc[target[n]], pc[n])
  /\ visited' = [visited EXCEPT ![n] = TRUE]
  /\ CondDepths(n)
  /\ CondWork(n)
  /\ operand' = [operand EXCEPT ![n] = pc[target[n]] - pc[n]]
  /\ UNCHANGED <<graph, op, width, target, entries, reCalc, warned>>

MutantInsertAfter(s, k, a, b) ==   \* the two the wrong way round
  [j \in 1..(Len(s) + 2) |->
     IF j <= k THEN s[j] ELSE IF j = k + 1 THEN b ELSE IF j = k + 2 THEN a ELSE s[j - 2]]
MutantInsertBefore(s, k, a, b) ==
  [j \in 1..(Len(s) + 2) |->
     IF j < k THEN s[j] ELSE IF j = k THEN a ELSE IF j = k + 1 THEN b ELSE s[j - 2]]

InsertAfter(s, k, a, b) ==
  [j \in 1..(Len(s) + 2) |->
     IF j <= k THEN s[j] ELSE IF j = k + 1 THEN a ELSE IF j = k + 2 THEN b ELSE s[j - 2]]

Position(n) == CHOOSE k \in 1..Len(code) : code[k] = n

GotoIns     == [op |-> "goto", width |-> GotoWidth, pop |-> 0, push |-> 0, ext |-> 0]
WideGotoIns == [op |-> "goto_w", width |-> WideGotoWidth, pop |-> 0, push |-> 0, ext |-> 0]

(* A conditional too far from its target becomes                            *)
(*     cond w;  g: goto the next node;  w: goto_w the target                *)
(* where the new nodes carry the address of the end of the method until the *)
(* code is laid out again.                                                  *)
VisitFarCond(n) ==
  LET g == GotoOf(n)
      w == WideOf(n)
  IN
  /\ Visit(n)
  /\ op[n] = "cond"
  /\ TooFar(op[n], pc[target[n]], pc[n])
  /\ visited' = [m \in Node |-> m \in {n, g, w} \/ visited[m]]
  /\ CondDepths(n)
  /\ CondWork(n)
  /\ reCalc' = TRUE
  /\ ins' = [ins EXCEPT ![g] = GotoIns, ![w] = WideGotoIns]
  /\ op' = [op EXCEPT ![g] = "goto", ![w] = "goto_w"]
  /\ width' = [width EXCEPT ![g] = GotoWidth, ![w] = WideGotoWidth]
  /\ pc' = [pc EXCEPT ![g] = methPc, ![w] = methPc]
  /\ operand' = [operand EXCEPT ![n] = pc[target[n]] - pc[n]]
  /\ next' = [next EXCEPT ![n] = g, ![g] = w, ![w] = next[n]]
  /\ target' = [target EXCEPT ![n] = w, ![g] = next[n], ![w] = target[n]]
  /\ code' = InsertAfter(code, Position(n), g, w)
  /\ UNCHANGED <<used, entries, warned>>

(* The numbers of the cases in the sorted array, and where each goes; a     *)
(* tableswitch has an entry for every number between low and high, the      *)
(* missing ones being the default.                                          *)
Span(n) == high[n] - low[n] + 1
SortedNumbers(n) ==
  IF op[n] = "tableswitch" THEN low[n]..high[n] ELSE {e[1] : e \in cases[n]}
CaseDest(n, c) ==
  IF \E t \in Client : <<c, t>> \in cases[n]
  THEN CHOOSE t \in Client : <<c, t>> \in cases[n]
  ELSE dflt[n]

(* The bytes of a switch at address p; its width is kept in a u1. *)
Padding(p) == 3 - (p % 4)
SwitchBytes(n, o, p) ==
  IF o = "tableswitch" THEN 1 + Padding(p) + 12 + Span(n) * 4
                       ELSE 1 + Padding(p) + 8 + entries[n] * 8
SwitchWidth(n, o, p) == SwitchBytes(n, o, p) % 256

(* setup_tableswitch or setup_lookupswitch, chosen by the number of gaps. *)
VisitSwitch(n) ==
  /\ Visit(n)
  /\ op[n] \in SwitchOps
  /\ visited' = [visited EXCEPT ![n] = TRUE]
  /\ reCalc' = TRUE
  /\ LET o == IF Span(n) - entries[n] > FillThresh THEN "lookupswitch" ELSE "tableswitch" IN
       /\ op' = [op EXCEPT ![n] = o]
       /\ width' = [width EXCEPT ![n] = SwitchWidth(n, o, pc[n])]
       /\ entries' = [entries EXCEPT ![n] = IF o = "tableswitch" THEN Span(n) ELSE @]
  /\ work' = <<Cases(n, low[n])>> \o Tail(work)
  /\ UNCHANGED <<graph, target, operand, depth, warned>>

(* The next case of the sorted array: it gets the stack of the moment, and  *)
(* only if it has none yet.                                                 *)
NextCase(n, from, c) ==
  /\ Top(Cases(n, from))
  /\ c \in SortedNumbers(n) /\ c >= from
  /\ \A d \in SortedNumbers(n) : d >= from => c <= d
  /\ depth' = [depth EXCEPT ![CaseDest(n, c)] = IF @ = -1 THEN stacksize ELSE @]
  /\ work' = <<Enter(CaseDest(n, c)), Cases(n, c + 1)>> \o Tail(work)
  /\ UNCHANGED <<phase, graph, links, encoding, methPc, visited, stacksize, maxStack,
                 reCalc, warned, entered, orphan, layout>>

(* skips the default *)
MutantDefaultCase(n, from) ==
  /\ Top(Cases(n, from))
  /\ \A d \in SortedNumbers(n) : d < from
  /\ work' = Tail(work)
  /\ UNCHANGED <<phase, graph, links, encoding, methPc, analysis, entered, orphan, layout>>

(* Past the last case comes the default, whose depth nobody sets. *)
DefaultCase(n, from) ==
  /\ Top(Cases(n, from))
  /\ \A d \in SortedNumbers(n) : d < from
  /\ work' = <<Enter(dflt[n])>> \o Tail(work)
  /\ UNCHANGED <<phase, graph, links, encoding, methPc, analysis, entered, orphan, layout>>

(* forgets the exception on the stack *)
MutantEnterHandler ==
  /\ phase = "traverse"
  /\ work = <<>>
  /\ entered < Len(handlers)
  /\ LET h == handlers[entered + 1] IN
       /\ depth' = [depth EXCEPT ![h.target] = depth[h.from]]
       /\ work' = <<Enter(h.target)>>
       /\ orphan' = (orphan \/ ~ visited[h.from])
  /\ entered' = entered + 1
  /\ UNCHANGED <<phase, graph, links, encoding, methPc, visited, stacksize, maxStack,
                 reCalc, warned, layout>>

(* traverse_code: the next exception handler starts with the stack of its   *)
(* try block and the exception.                                             *)
EnterHandler ==
  /\ phase = "traverse"
  /\ work = <<>>
  /\ entered < Len(handlers)
  /\ LET h == handlers[entered + 1] IN
       /\ depth' = [depth EXCEPT ![h.target] = depth[h.from] + 1]
       /\ work' = <<Enter(h.target)>>
       /\ orphan' = (orphan \/ ~ visited[h.from])
  /\ entered' = entered + 1
  /\ UNCHANGED <<phase, graph, links, encoding, methPc, visited, stacksize, maxStack,
                 reCalc, warned, layout>>

TraversalDone == phase = "traverse" /\ work = <<>> /\ entered = Len(handlers)

(* Nothing moved: traverse_code succeeds. *)
Succeed ==
  /\ TraversalDone
  /\ ~ reCalc
  /\ phase' = "done"
  /\ UNCHANGED <<graph, links, encoding, methPc, analysis, walk, layout>>

StartLayout ==
  /\ TraversalDone
  /\ reCalc
  /\ phase' = "layout"
  /\ idx' = 1
  /\ tmpPc' = 0
  /\ UNCHANGED <<graph, links, encoding, methPc, analysis, walk>>

(* The loop that gives every instruction its final address. *)
MutantLaidOutWidth(n) == width[n]   \* keeps a switch's padding
LaidOutWidth(n) == IF op[n] \in SwitchOps THEN SwitchWidth(n, op[n], tmpPc) ELSE width[n]

LayoutInstr ==
  /\ phase = "layout"
  /\ idx <= Len(code)
  /\ LET n == code[idx] IN
       /\ pc' = [pc EXCEPT ![n] = tmpPc]
       /\ width' = [width EXCEPT ![n] = LaidOutWidth(n)]
       /\ tmpPc' = tmpPc + LaidOutWidth(n)
  /\ idx' = idx + 1
  /\ UNCHANGED <<phase, used, code, ins, next, links, op, target, operand, entries, methPc, analysis, walk>>

StartOffsets ==
  /\ phase = "layout"
  /\ idx > Len(code)
  /\ phase' = "offsets"
  /\ reCalc' = FALSE
  /\ idx' = 1
  /\ UNCHANGED <<graph, links, encoding, methPc, depth, visited, stacksize, maxStack, warned, walk, tmpPc>>

(* keeps the offsets *)
MutantRecalcOffset ==
  /\ phase = "offsets"
  /\ idx <= Len(code)
  /\ LET n == code[idx]
         t == target[n]
     IN reCalc' = IF t = None THEN reCalc ELSE TooFar(op[n], pc[t], pc[n])
  /\ idx' = idx + 1
  /\ UNCHANGED <<phase, graph, links, op, width, target, operand, entries, methPc, depth, visited,
                 stacksize, maxStack, warned, walk, tmpPc>>

(* The loop that recomputes the offsets: each branch overwrites what the    *)
(* branches before it found out about their distances.                      *)
RecalcOffset ==
  /\ phase = "offsets"
  /\ idx <= Len(code)
  /\ LET n == code[idx]
         t == target[n]
     IN IF t = None THEN UNCHANGED <<reCalc, operand>>
        ELSE /\ reCalc' = TooFar(op[n], pc[t], pc[n])
             /\ operand' = [operand EXCEPT ![n] = pc[t] - pc[n]]
  /\ idx' = idx + 1
  /\ UNCHANGED <<phase, graph, links, op, width, target, entries, methPc, depth, visited, stacksize,
                 maxStack, warned, walk, tmpPc>>

(* tries again while something does not fit *)
MutantRetryOffsets ==
  /\ phase = "offsets"
  /\ idx > Len(code)
  /\ IF reCalc
       THEN phase' = "traverse" /\ UNCHANGED methPc
       ELSE phase' = "done" /\ methPc' = tmpPc
  /\ UNCHANGED <<graph, links, encoding, analysis, walk, layout>>

(* "things are still screwed", or the new length is the method's. *)
EndOffsets ==
  /\ phase = "offsets"
  /\ idx > Len(code)
  /\ IF reCalc
       THEN phase' = "failed" /\ UNCHANGED methPc
       ELSE phase' = "done" /\ methPc' = tmpPc
  /\ UNCHANGED <<graph, links, encoding, analysis, walk, layout>>
-----------------------------------------------------------------------------
Build ==
  \/ \E i \in Instrs : OverwritePlaceholder(i) \/ AppendInstr(i)
  \/ StartLinking
  \/ \E n, t \in Emitted : SetBranchTarget(n, t) \/ AddSwitchDefault(n, t)
  \/ \E n \in Emitted, l \in Label : SetBranchLabel(n, l) \/ AssociateLabel(l, n)
  \/ \E n, t \in Emitted, c \in CaseNum : AddSwitchCase(n, c, t)
  \/ \E from, to, t \in Emitted : AddHandler(from, to, t)
  \/ StartTraverse

Traverse ==
  \/ \E n \in Emitted :
       \/ EnterVisited(n) \/ VisitPlain(n) \/ VisitReturn(n)
       \/ VisitJump(n) \/ VisitLostJump(n) \/ ReturnFromJsr(n)
       \/ VisitCond(n) \/ VisitFarCond(n) \/ VisitSwitch(n)
       \/ DefaultCase(n, Head(work).from)
       \/ \E c \in SortedNumbers(n) : NextCase(n, Head(work).from, c)
  \/ EnterHandler

Relocate == Succeed \/ StartLayout \/ LayoutInstr \/ StartOffsets \/ RecalcOffset \/ EndOffsets

Finalizing == Traverse \/ Relocate
Terminated == phase \in {"done", "failed"} /\ UNCHANGED vars
Next == Build \/ Finalizing \/ Terminated

Spec     == Init /\ [][Next]_vars
(* The C code runs on once traverse_code is called; the client need not. *)
FairSpec == Spec /\ WF_vars(Finalizing)
-----------------------------------------------------------------------------
(* Properties. *)

(* Every field holds what its C type and its use allow. *)
GraphType ==
  /\ used \in 0..MaxInstrs
  /\ code \in Seq(Node)
  /\ ins \in [Node -> Instruction]
  /\ next \in [Node -> NodeOrNone]
  /\ pc \in [Node -> Int]
LinksType ==
  /\ label \in [Node -> Label \cup {None}]
  /\ cases \in [Node -> SUBSET (CaseNum \X Client)]
  /\ low \in [Node -> Int]
  /\ high \in [Node -> Int]
  /\ dflt \in [Node -> Client \cup {None}]
  /\ labelled \in [Label -> Client \cup {None}]
  /\ handlers \in Seq(Handler)
EncodingType ==
  /\ op \in [Node -> Ops]
  /\ width \in [Node -> Nat]
  /\ target \in [Node -> NodeOrNone]
  /\ operand \in [Node -> Int]
  /\ entries \in [Node -> Int]
AnalysisType ==
  /\ depth \in [Node -> Int]
  /\ visited \in [Node -> BOOLEAN]
  /\ stacksize \in Int
  /\ maxStack \in Nat
  /\ reCalc \in BOOLEAN
  /\ warned \in BOOLEAN
WalkType ==
  /\ work \in Seq(Frame)
  /\ entered \in Nat
  /\ orphan \in BOOLEAN
ControlType ==
  /\ phase \in {"append", "link", "traverse", "layout", "offsets", "done", "failed"}
  /\ methPc \in Int
  /\ idx \in Nat \ {0}
  /\ tmpPc \in Nat
TypeOK ==
  GraphType /\ LinksType /\ EncodingType /\ AnalysisType /\ WalkType /\ ControlType

(* The next pointers, which calc_offsets follows, spell the code list,      *)
(* which write_code follows, whatever was inserted into both.               *)
NextSpellsCode ==
  \A k \in 1..Len(code) :
    next[code[k]] = IF k = Len(code) THEN None ELSE code[k + 1]

(* When traverse_code succeeds, the addresses are those of the bytes        *)
(* write_code will put out, and code_length is their number, whether or not *)
(* anything was widened or inserted.                                        *)
AddressesExact ==
  phase = "done" /\ code # <<>> =>
    /\ pc[Head(code)] = 0
    /\ \A k \in 1..(Len(code) - 1) : pc[code[k + 1]] = pc[code[k]] + width[code[k]]
    /\ methPc = pc[Last(code)] + width[Last(code)]

(* When traverse_code succeeds, every branch the traversal reached carries  *)
(* the distance between the final addresses of its target and itself.       *)
OperandsExact ==
  phase = "done" =>
    \A k \in 1..Len(code) :
      LET n == code[k] IN
      visited[n] /\ target[n] # None => operand[n] = pc[target[n]] - pc[n]

(* When traverse_code succeeds, a switch it reached is as long as what      *)
(* write_code puts out for it, padded from its final address, as long as    *)
(* that fits the u1.                                                        *)
SwitchWidthsExact ==
  phase = "done" =>
    \A n \in Emitted :
      visited[n] /\ op[n] \in SwitchOps /\ SwitchBytes(n, op[n], pc[n]) < 256 =>
        width[n] = SwitchBytes(n, op[n], pc[n])

(* A try block still covers exactly the instructions it covered when the    *)
(* handler was added and what was inserted on their behalf, although        *)
(* finalizeMethod writes addresses, all of which may have moved.            *)
Owner(n) == IF n \in Client THEN n ELSE (n - MaxInstrs + 1) \div 2
TryBlocksKept ==
  phase = "done" =>
    \A k \in 1..Len(handlers), j \in 1..Len(code) :
      LET h == handlers[k]
          n == code[j]
      IN h.from <= Owner(n) /\ Owner(n) < h.to <=> pc[h.from] <= pc[n] /\ pc[n] < pc[h.to]

(* The control flow the client described, seen through the widened          *)
(* conditionals: the node that follows, the node branched to, and every     *)
(* node calc_offsets should go on to.                                       *)
Inserted(n) == n > MaxInstrs
Fall(n) == IF Inserted(next[n]) THEN target[next[n]] ELSE next[n]
Dest(n) ==
  IF target[n] # None
  THEN IF Inserted(target[n]) THEN target[target[n]] ELSE target[n]
  ELSE IF label[n] = None THEN None ELSE labelled[label[n]]

Branches(n) ==
  LET o == ins[n].op IN
  (IF o \in BranchOps THEN {Dest(n)}
   ELSE IF o \in SwitchOps THEN {dflt[n]} \cup {e[2] : e \in cases[n]}
   ELSE {}) \ {None}
Falls(n) ==
  (IF ins[n].op \in {"goto", "goto_w"} \cup SwitchOps \cup ReturnOps THEN {} ELSE {Fall(n)}) \ {None}
Succ(n) == Branches(n) \cup Falls(n)

(* The traversal is an exhaustive search of that control flow, which its    *)
(* rewriting of the graph never changes.                                    *)
Fixed == phase \notin {"append", "link"}
Search == INSTANCE CodeSearch WITH
  Instruction <- Client,
  edges   <- IF Fixed THEN {e \in Emitted \X Emitted : e[2] \in Succ(e[1])} ELSE {},
  roots   <- IF Fixed /\ code # <<>>
             THEN {1} \cup {handlers[k].target : k \in 1..Len(handlers)} ELSE {},
  reached <- {n \in Client : visited[n]},
  status  <- IF ~ Fixed THEN "fixing"
             ELSE IF phase = "traverse" \/ code = <<>> THEN "searching" ELSE "closed"
SearchSpec == Search!Spec

(* An assignment of stack depths that the verifier would accept for what    *)
(* was traversed: zero at the entry, along every edge the effect of the     *)
(* instruction (a subroutine starts with the return address and gives it    *)
(* back), and the exception on top of its try block.                        *)
Result(D, n) == D[n] - ins[n].pop + ins[n].push
Consistent(D) ==
  /\ D[1] = 0
  /\ \A m \in Emitted : visited[m] =>
       /\ \A n \in Branches(m) : D[n] = Result(D, m)
       /\ \A n \in Falls(m) : D[n] = IF ins[m].op \in {"jsr", "jsr_w"} THEN D[m] ELSE Result(D, m)
  /\ \A k \in 1..entered : D[handlers[k].target] = D[handlers[k].from] + 1
  /\ ~ orphan

Depths == [Emitted -> 0..StackLimit]

(* If the method's code has consistent stack depths at all, those are the   *)
(* ones calc_offsets leaves in the nodes, whatever the order of the visits. *)
StackDepthsExact ==
  phase = "done" /\ code # <<>> =>
    \A D \in Depths : Consistent(D) => \A n \in Emitted : visited[n] => depth[n] = D[n]

(* ... and max_stack covers the stack after every reachable instruction. *)
MaxStackSuffices ==
  phase = "done" /\ code # <<>> =>
    \A D \in Depths : Consistent(D) =>
      \A n \in Emitted : visited[n] => Result(D, n) <= maxStack

(* The two hold of methods without switches, whose default case is entered  *)
(* with no depth, and without subroutines, which come back with whatever    *)
(* depth their traversal left behind.                                       *)
Plain       == \A n \in Emitted : op[n] \notin SwitchOps \cup {"jsr", "jsr_w"}
DepthsExact == Plain => StackDepthsExact
StackNoted  == Plain => MaxStackSuffices

(* Once called, traverse_code returns. *)
TraverseReturns == phase = "traverse" ~> phase \in {"done", "failed"}

(* "recalculate the branch target offsets ... returns 0 on success": on     *)
(* success a narrow branch's distance fits its signed 16 bits.              *)
OffsetsFit ==
  phase = "done" =>
    \A k \in 1..Len(code) :
      LET n == code[k] IN
      visited[n] /\ target[n] # None => ~ TooFar(op[n], pc[target[n]], pc[n])

(* "Later the address will be resolved": on success every reachable jump to *)
(* an associated label has its target.                                      *)
LabelsResolved ==
  phase = "done" =>
    \A n \in Emitted :
      visited[n] /\ op[n] \in JumpOps /\ Dest(n) # None => target[n] # None
=============================================================================
