---------------------------- MODULE ControlCode ----------------------------
(***************************************************************************)
(* How the code generator translates the control flow of a program unit     *)
(* (codegen.c): DO loops, the forms of IF and GOTO, labels and the end of    *)
(* the unit; and what the bytecode does when it runs.                       *)
(*                                                                          *)
(* The unit is read line by line and translated line by line.  Then the     *)
(* bytecode runs in step with a machine for the Fortran unit: each moves    *)
(* alone where nothing is to be seen, and both move at once where a         *)
(* statement works, tests, selects, assigns or returns.                     *)
(*                                                                          *)
(* Left out: the Java source, which says the same with calls of Dummy.go_to *)
(* and Dummy.label; while_emit, which blockif_emit reaches only after a     *)
(* label without a statement, and the parser gives every label a statement; *)
(* offsets and widths of instructions, which MethodCode models.             *)
(***************************************************************************)
EXTENDS Integers, SequencesExt

CONSTANTS
  Families,    \* a sequence; the units that occur: up to max lines of the set lines (each
               \* [k, lab, to, do], see Line), needs_reflection in reflect
  MaxLines,    \* bound: lines of a unit
  MaxLocal     \* bound: local variables of the method

FirstLoopLabel == 100000      \* what cur_do_label starts at, for DO without a label

Kinds == {"work", "continue", "return", "stop", "goto", "lifgoto", "assign", "cgoto", "agoto",
          "aif", "aifwide", "lifwork", "do", "enddo", "if", "elseif", "else", "endif", "end"}
ASSUME FamiliesAssumption ==
  \A f \in ToSet(Families) :
    /\ f.max \in 1..MaxLines /\ f.reflect \subseteq BOOLEAN
    /\ \A line \in f.lines :
         /\ line.k \in Kinds /\ line.lab \in 0..(FirstLoopLabel - 1)
         /\ line.to \in Seq(1..(FirstLoopLabel - 1))
         /\ line.k \in {"goto", "lifgoto", "assign"} => Len(line.to) = 1
         /\ line.k \in {"aif", "aifwide"} => Len(line.to) = 3
         /\ line.do.own \in BOOLEAN
         /\ line.do.start \in Int /\ line.do.stop \in Int /\ line.do.incr \in Int \ {0}
ASSUME LimitAssumption == MaxLines \in Nat /\ MaxLocal \in Nat /\ MaxLines <= MaxLocal

VARIABLES
  family,    \* the index of the family the unit is of
  unit,      \* the lines of the program unit
  nest,      \* the loops and blocks open where it is being read, innermost last: [head, arm]
  assigned,  \* assign_labels
  reflect,   \* import_reflection
  phase,     \* "read", "emit", "run"
  gen,       \* the state of the generator, see StartGen
  code,      \* the running bytecode: [pc, local, val, asg, on]
  ftn        \* the Fortran machine: [at, stage, loop, left, val, asg, on]

vars == <<family, unit, nest, assigned, reflect, phase, gen, code, ftn>>

Lines == DOMAIN unit
-----------------------------------------------------------------------------
(* Reading a unit.  A line has a label or 0, the labels it names, and DO    *)
(* parameters: start (added to the DO variable if own), stop and incr.  It  *)
(* gets the loops and blocks that are open before it, and, if it continues  *)
(* or ends a block or a loop, the line that began it.                       *)
Line(s, of) == [k |-> s.k, lab |-> s.lab, to |-> s.to, do |-> s.do, of |-> of, open |-> nest]

(* The loops and the arms of blocks that a line lies in: a line that starts *)
(* an arm or ends a block lies around the arm before it.                    *)
Around(i) == IF unit[i].k \in {"elseif", "else", "endif"} THEN Front(unit[i].open) ELSE unit[i].open
In(i)     == {n.arm : n \in ToSet(Around(i))}

Innermost == IF nest = <<>> THEN [head |-> 0, arm |-> 0] ELSE Last(nest)
Opens(k)  == nest # <<>> /\ unit[Innermost.head].k = k
Closed(lab) == {n \in ToSet(nest) : unit[n.head].k = "do" /\ unit[n.head].to = <<lab>>}

(* One more line, which ends the innermost drop loops and blocks.  Not read *)
(* are lines that control cannot reach, a second plain statement in a row,  *)
(* and lines that leave no room for the ends of blocks and the END.         *)
Stops == {"goto", "return", "stop", "aif", "aifwide", "agoto"}
Reachable(line) == unit # <<>> /\ Last(unit).k \in Stops
                     => line.lab # 0 \/ line.k \in {"elseif", "else", "endif", "enddo", "end"}
Plain(line) == line.k \in {"work", "lifwork", "assign"} /\ line.lab = 0
Read(line, push, drop) ==
  /\ phase = "read" /\ Len(unit) < Families[family].max /\ Reachable(line)
  /\ ~(unit # <<>> /\ Plain(Last(unit)) /\ Plain(line))
  /\ line.k # "end" => Len(unit) + Cardinality({n \in ToSet(nest) : unit[n.head].k = "if"})
                        + Len(push) - drop + 2 <= Families[family].max
  /\ \A i \in Lines : line.lab # 0 => unit[i].lab # line.lab
  /\ unit' = Append(unit, line)
  /\ nest' = SubSeq(nest, 1, Len(nest) - drop) \o push
  /\ UNCHANGED <<family, reflect, gen, code, ftn>>
Here == Len(unit) + 1

(* A label ASSIGNed is noted once: assign_labels.                           *)
Noted(s) == IF s.k = "assign" /\ s.to[1] \notin ToSet(assigned) THEN Append(assigned, s.to[1])
                                                                ELSE assigned

(* Statements that open and close nothing; a label may end loops, which     *)
(* must be the innermost ones.                                              *)
ReadSimple(s) ==
  /\ s.k \notin {"do", "enddo", "if", "elseif", "else", "endif", "end"}
  /\ Closed(s.lab) # {} => s.k \in {"work", "continue", "lifwork", "lifgoto"}
  /\ \E n \in 0..Len(nest) :
       /\ Closed(s.lab) = {nest[m] : m \in (Len(nest) - n + 1)..Len(nest)}
       /\ Read(Line(s, 0), <<>>, n)
  /\ assigned' = Noted(s) /\ phase' = phase

(* Do_incr: a DO without a label gets the next one from cur_do_label.       *)
ReadDo(s) ==
  LET l == IF s.to = <<>> THEN FirstLoopLabel + Len(unit) ELSE s.to[1] IN
  /\ s.k = "do" /\ Closed(s.lab) = {} /\ s.lab # l /\ \A i \in Lines : unit[i].lab # l
  /\ Read([Line(s, 0) EXCEPT !.to = <<l>>], <<[head |-> Here, arm |-> Here]>>, 0)
  /\ UNCHANGED <<assigned, phase>>
ReadEndDo(s) ==
  /\ s.k = "enddo" /\ Opens("do") /\ unit[Innermost.head].to[1] >= FirstLoopLabel
  /\ Closed(s.lab) = {}
  /\ Read(Line(s, Innermost.head), <<>>, 1)
  /\ UNCHANGED <<assigned, phase>>

ReadIf(s) ==
  /\ s.k = "if" /\ Closed(s.lab) = {}
  /\ Read(Line(s, 0), <<[head |-> Here, arm |-> Here]>>, 0)
  /\ UNCHANGED <<assigned, phase>>
ReadArm(s) ==
  /\ s.k \in {"elseif", "else"} /\ Opens("if") /\ unit[Innermost.arm].k # "else"
  /\ Closed(s.lab) = {}
  /\ Read(Line(s, Innermost.head), <<[head |-> Innermost.head, arm |-> Here]>>, 1)
  /\ UNCHANGED <<assigned, phase>>
ReadEndIf(s) ==
  /\ s.k = "endif" /\ Opens("if") /\ Closed(s.lab) = {}
  /\ Read(Line(s, Innermost.head), <<>>, 1)
  /\ UNCHANGED <<assigned, phase>>

(* The END line, if the unit is a legal one: its labels exist, and no jump  *)
(* enters a loop or an arm of a block.                                      *)
LineOf(l) == CHOOSE i \in Lines : unit[i].lab = l
ReadEnd(s) ==
  /\ s.k = "end" /\ nest = <<>>
  /\ Read(Line(s, 0), <<>>, 0)
  /\ \A i \in {j \in Lines : unit[j].k # "do"} : \A l \in ToSet(unit[i].to) :
       \/ l = s.lab
       \/ \E t \in Lines : unit[t].lab = l /\ In(t) \subseteq In(i)
  /\ (\E i \in Lines : unit[i].k = "agoto") => assigned # <<>>
  /\ phase' = "emit" /\ assigned' = assigned
-----------------------------------------------------------------------------
(* The generator.                                                           *)

Instr(op, i) == [op |-> op, line |-> i, to |-> 0, lab |-> 0, loc |-> 0, num |-> 0, wide |-> FALSE]
Goto(i, l)   == [Instr("goto", i) EXCEPT !.lab = l]
Hole         == Instr("unused", 0)

(* bc_append: an instruction takes the place of xxxunusedxxx before it.     *)
Solid(c)      == IF c # <<>> /\ Last(c).op = "unused" THEN Front(c) ELSE c
Puts(g, inss) == [g EXCEPT !.code = Solid(@) \o inss]
Where(g)      == Len(Solid(g.code)) + 1     \* where the next instruction goes

(* What initialize_lists sets up and what emit puts before the statements:  *)
(* where reflective calls are made, the start of the exception range.       *)
StartGen == [line   |-> 1,
             code   |-> IF reflect THEN <<Hole>> ELSE <<>>,
             labels |-> [l \in {} |-> 0],   \* where each label is
             loops  |-> <<>>,               \* doloop
             blocks |-> <<>>,               \* the active calls of blockif_emit
             next   |-> 0,                  \* cur_local_number
             max    |-> 0,
             range  |-> [from |-> 1, to |-> 1, at |-> {}]]

Width(wide) == IF wide THEN 2 ELSE 1
GetLocal(g, wide) == [g EXCEPT !.next = @ + Width(wide),
                               !.max = IF @ < g.next + Width(wide) THEN g.next + Width(wide) ELSE @]
MutantReleaseLocal(g, wide) == [g EXCEPT !.next = @ - 2]   \* takes every local for a double
ReleaseLocal(g, wide) == [g EXCEPT !.next = @ - Width(wide)]

(* forloop_emit and forloop_bytecode_emit                                   *)
ForLoop(g, i) ==
  LET h == Puts(g, <<Instr("init", i), [Instr("count", i) EXCEPT !.loc = g.next], Instr("goto", i)>>)
  IN [GetLocal(h, FALSE) EXCEPT
        !.loops = Append(@, [label |-> unit[i].to[1], line |-> i, loc |-> g.next, goto |-> Len(h.code)])]

(* forloop_end_bytecode for the innermost loop                              *)
MutantForLoopEnd(g) ==      \* forgets to decrement the iteration count
  LET loop == Last(g.loops)
      h    == Puts(g, <<Instr("incr", loop.line),
                        [Instr("ifgt", loop.line) EXCEPT !.loc = loop.loc, !.to = loop.goto + 1]>>)
  IN ReleaseLocal([h EXCEPT !.code[loop.goto].to = Len(h.code), !.loops = Front(@)], FALSE)
ForLoopEnd(g) ==
  LET loop == Last(g.loops)
      h    == Puts(g, <<Instr("incr", loop.line),
                        [Instr("dec", loop.line) EXCEPT !.loc = loop.loc],
                        [Instr("ifgt", loop.line) EXCEPT !.loc = loop.loc, !.to = loop.goto + 1]>>)
  IN ReleaseLocal([h EXCEPT !.code[loop.goto].to = Len(h.code), !.loops = Front(@)], FALSE)

(* The loops of computed_goto_emit and of assigned_goto_emit: for each      *)
(* label, if the value in loc is its number, go to it.  A test is at an odd *)
(* place of the sequence, which comes right after place at of the code.     *)
IfEqualGotos(i, loc, nums, labels, at) ==
  [k \in 1..(2 * Len(labels)) |->
     IF k % 2 = 0 THEN Goto(i, labels[k \div 2])
     ELSE [Instr("ifne", i) EXCEPT !.loc = loc, !.num = nums[(k + 1) \div 2], !.to = at + k + 2]]
Select(g, i, nums, labels) ==
  LET loc == g.next
      h   == Puts(GetLocal(g, FALSE), <<[Instr("eval", i) EXCEPT !.loc = loc]>>)
  IN ReleaseLocal(Puts(h, IfEqualGotos(i, loc, nums, labels, Len(h.code)) \o <<Hole>>), FALSE)
ComputedGoto(g, i) == Select(g, i, [j \in DOMAIN unit[i].to |-> j], unit[i].to)
AssignedGoto(g, i) ==
  LET labels == IF unit[i].to # <<>> THEN unit[i].to ELSE assigned
  IN Select(g, i, labels, labels)

(* arithmeticif_emit; the value is an integer or a double.                  *)
ArithmeticIf(g, i, wide) ==
  LET loc == g.next
      h   == Puts(GetLocal(g, wide), <<[Instr("eval", i) EXCEPT !.loc = loc, !.wide = wide]>>)
      at  == Where(h)
      l   == unit[i].to
  IN ReleaseLocal(
       Puts(h, <<[Instr("ifge", i) EXCEPT !.loc = loc, !.to = at + 2], Goto(i, l[1]),
                 [Instr("ifne", i) EXCEPT !.loc = loc, !.to = at + 4], Goto(i, l[2]),
                 Goto(i, l[3])>>), wide)

(* logicalif_emit                                                           *)
LogicalIf(g, i, inner) ==
  LET h == Puts(g, <<Instr("test", i), inner, Hole>>)
  IN [h EXCEPT !.code[Where(g)].to = Len(h.code)]

(* blockif_emit: what it appends before the statements of the first arm.    *)
BlockIf(g, i) ==
  [Puts(g, <<Instr("test", i)>>) EXCEPT
     !.blocks = Append(@, [line |-> i, test |-> Where(g), gotos |-> {}])]

SetTop(g, b) == [g EXCEPT !.blocks = Append(Front(@), b)]

(* The end of an arm that others follow: a goto to the end of the block,    *)
(* and a placeholder for the test to branch to.                             *)
CloseArm(g, i) ==
  LET b == Last(g.blocks)
      q == Where(g)
      h == Puts(g, <<Instr("goto", i), Hole>>)
  IN SetTop([h EXCEPT !.code[b.test].to = q + 1], [b EXCEPT !.test = 0, !.gotos = @ \cup {q}])
ElseIf(g, i) ==
  LET h == CloseArm(g, i)
  IN SetTop(Puts(h, <<Instr("test", i)>>), [Last(h.blocks) EXCEPT !.test = Where(h)])
(* An empty ELSE part is no node of the tree.                               *)
Else(g, i) == IF unit[i + 1].k = "endif" THEN g ELSE CloseArm(g, i)

MutantEndIf(g, i) ==        \* leaves the gotos of all arms but the last
  LET b == Last(g.blocks)
      f == IF b.test # 0 /\ b.gotos # {} THEN CloseArm(g, i) ELSE g
      h == Puts(f, <<Hole>>)
      e == Len(h.code)
      c == Last(h.blocks)
      ends == (IF c.test = 0 THEN {} ELSE {c.test}) \cup {q \in c.gotos : \A r \in c.gotos : r <= q}
  IN [h EXCEPT !.blocks = Front(@),
               !.code = [q \in DOMAIN @ |-> IF q \in ends THEN [@[q] EXCEPT !.to = e] ELSE @[q]]]
EndIf(g, i) ==
  LET b == Last(g.blocks)
      f == IF b.test # 0 /\ b.gotos # {} THEN CloseArm(g, i) ELSE g
      h == Puts(f, <<Hole>>)
      e == Len(h.code)
      c == Last(h.blocks)
      ends == c.gotos \cup (IF c.test = 0 THEN {} ELSE {c.test})
  IN [h EXCEPT !.blocks = Front(@),
               !.code = [q \in DOMAIN @ |-> IF q \in ends THEN [@[q] EXCEPT !.to = e] ELSE @[q]]]

(* end_emit: the handlers of reflective calls, and a return unless one has  *)
(* just been generated.                                                     *)
Handlers(g, i) ==
  LET q == Where(g)
      h == Puts(g, <<Instr("goto", i), Instr("catch", i), Instr("goto", i), Instr("catch", i), Hole>>)
  IN [h EXCEPT !.code[q].to = q + 4, !.code[q + 2].to = q + 4,
               !.range = [from |-> 1, to |-> q, at |-> {q + 1, q + 3}]]
MutantEnd(g, i) == IF reflect THEN Handlers(g, i) ELSE g    \* adds no return
End(g, i) ==
  LET h == IF reflect THEN Handlers(g, i) ELSE g
  IN IF h.code # <<>> /\ Last(h.code).op = "return" THEN h ELSE Puts(h, <<Instr("return", i)>>)

(* emit for the statement on a line, without its label.                     *)
Statement(g, i) ==
  LET k == unit[i].k IN
  CASE k = "do"      -> ForLoop(g, i)
    [] k = "cgoto"   -> ComputedGoto(g, i)
    [] k = "agoto"   -> AssignedGoto(g, i)
    [] k = "aif"     -> ArithmeticIf(g, i, FALSE)
    [] k = "aifwide" -> ArithmeticIf(g, i, TRUE)
    [] k = "lifwork" -> LogicalIf(g, i, Instr("work", i))
    [] k = "lifgoto" -> LogicalIf(g, i, Goto(i, unit[i].to[1]))
    [] k = "if"      -> BlockIf(g, i)
    [] k = "elseif"  -> ElseIf(g, i)
    [] k = "else"    -> Else(g, i)
    [] k = "endif"   -> EndIf(g, i)
    [] k = "goto"    -> Puts(g, <<Goto(i, unit[i].to[1])>>)
    [] k = "assign"  -> Puts(g, <<[Instr("assign", i) EXCEPT !.num = unit[i].to[1]]>>)
    [] k = "end"     -> End(g, i)
    [] k \in {"work", "return", "stop"} -> Puts(g, <<Instr(k, i)>>)
    [] k \in {"continue", "enddo"} -> g

(* label_emit: a placeholder, the statement of line i unless that is 0,     *)
(* once, and the ends of the loops that the label ends.                     *)
Ending(loops, l) ==              \* how many of the innermost loops have the label l
  CHOOSE n \in 0..Len(loops) :
    /\ \A m \in (Len(loops) - n + 1)..Len(loops) : loops[m].label = l
    /\ n < Len(loops) => loops[Len(loops) - n].label # l
Placed(labels, l, at) == [x \in DOMAIN labels \cup {l} |-> IF x = l THEN at ELSE labels[x]]
Labelled(g, l, i) ==
  LET h == Puts(g, <<Hole>>)
      f == IF i = 0 THEN h ELSE Statement(h, i)
      closed[n \in 0..Len(f.loops)] == IF n = 0 THEN f ELSE ForLoopEnd(closed[n - 1])
  IN [closed[Ending(f.loops, l)] EXCEPT !.labels = Placed(@, l, Len(h.code))]

(* An ENDDO is translated as the label of its loop; the label of an ENDDO   *)
(* goes before that, the label of an ENDIF after its block.                 *)
EmitStatement(g, i) == IF unit[i].k = "enddo" THEN Labelled(g, unit[unit[i].of].to[1], 0)
                                              ELSE Statement(g, i)
EmitLine ==
  LET i    == gen.line
      line == unit[i]
      done == IF line.lab = 0 THEN EmitStatement(gen, i)
              ELSE CASE line.k = "endif" -> Labelled(Statement(gen, i), line.lab, 0)
                     [] line.k = "enddo" -> EmitStatement(Labelled(gen, line.lab, 0), i)
                     [] OTHER            -> Labelled(gen, line.lab, i)
  IN /\ phase = "emit"
     /\ gen' = [done EXCEPT !.line = i + 1]
     /\ phase' = IF line.k = "end" THEN "run" ELSE "emit"
     /\ UNCHANGED <<family, unit, nest, assigned, reflect, code, ftn>>
-----------------------------------------------------------------------------
(* Running the bytecode.                                                    *)

Top == 1000     \* the upper half of a double, read as a number

StartCode == [pc |-> 1, local |-> [n \in 0..(MaxLocal - 1) |-> 0],
              val |-> [i \in 1..MaxLines |-> 0], asg |-> 0, on |-> TRUE]
Now == gen.code[code.pc]
Target(ins) == IF ins.lab \in DOMAIN gen.labels THEN gen.labels[ins.lab] ELSE ins.to

\* The quotient of Fortran and of idiv: truncated.
Quot(a, b) == LET q == (IF a < 0 THEN -a ELSE a) \div (IF b < 0 THEN -b ELSE b)
              IN IF (a < 0) = (b < 0) THEN q ELSE -q
(* gen_iter_expr: (stop - start + incr) / incr; start is evaluated where    *)
(* the expression is.                                                       *)
StartOf(do, v) == IF do.own THEN v + do.start ELSE do.start
Iterations(do, v) == Quot(do.stop - StartOf(do, v) + do.incr, do.incr)

Branches == {"goto", "ifne", "ifge", "ifgt", "test"}
Silent == {"goto", "ifne", "ifge", "count", "incr", "dec", "ifgt", "catch", "unused"}
Go(c, pc) == [c EXCEPT !.pc = pc]
CodeSteps ==
  LET c   == code
      ins == Now
      do  == unit[ins.line].do
      x   == c.local[ins.loc]
      If(b) == Go(c, IF b THEN c.pc + 1 ELSE Target(ins))
  IN CASE ins.op = "goto"  -> Go(c, Target(ins))
       [] ins.op = "ifne"  -> If(x = ins.num)
       [] ins.op = "ifge"  -> If(x < 0)
       [] ins.op = "ifgt"  -> If(x <= 0)
       [] ins.op = "count" -> Go([c EXCEPT !.local[ins.loc] = Iterations(do, c.val[ins.line])], c.pc + 1)
       [] ins.op = "dec"   -> Go([c EXCEPT !.local[ins.loc] = @ - 1], c.pc + 1)
       [] ins.op = "incr"  -> Go([c EXCEPT !.val[ins.line] = @ + do.incr], c.pc + 1)
       [] ins.op \in {"catch", "unused"} -> Go(c, c.pc + 1)

Store(c, ins, x) ==
  [c EXCEPT !.local = [n \in DOMAIN @ |-> IF n = ins.loc THEN x
                                          ELSE IF ins.wide /\ n = ins.loc + 1 THEN Top ELSE @[n]]]
-----------------------------------------------------------------------------
(* The Fortran machine: what the standard says the unit does.               *)

StartFtn == [at |-> 1, stage |-> "stmt", loop |-> 0, left |-> [i \in 1..MaxLines |-> 0],
             val |-> [i \in 1..MaxLines |-> 0], asg |-> 0, on |-> TRUE]
Cur == unit[ftn.at]
At(f, i, stage) == [f EXCEPT !.at = i, !.stage = stage, !.loop = 0]
JumpTo(f, l) == At(f, LineOf(l), "stmt")

Ends(i) == {d \in Lines : unit[d].k = "do" /\
              ((unit[i].k = "enddo" /\ unit[i].of = d) \/ unit[i].lab = unit[d].to[1])}
Terminal(d) == CHOOSE i \in Lines : d \in Ends(i)

\* Control reaches the end of line i; the loops of ds that end there are active.
Close(f, i, ds) == IF ds = {} THEN At(f, i + 1, "stmt")
                   ELSE [f EXCEPT !.at = i, !.stage = "close", !.loop = CHOOSE d \in ds : \A e \in ds : e <= d]
Finish(f, i) == Close(f, i, Ends(i))

NextArm(i) == LET head == IF unit[i].k = "if" THEN i ELSE unit[i].of
              IN CHOOSE j \in Lines : /\ j > i /\ unit[j].of = head
                                      /\ \A m \in (i + 1)..(j - 1) : unit[m].of # head
EndOf(i) == CHOOSE j \in Lines : unit[j].k = "endif" /\ unit[j].of = unit[i].of

\* A loop's incrementation at its terminal line.
Increment(f) ==
  LET d == f.loop
      g == [f EXCEPT !.val[d] = @ + unit[d].do.incr, !.left[d] = @ - 1]
  IN IF g.left[d] > 0 THEN At(g, d + 1, "stmt")
     ELSE Close(g, f.at, {e \in Ends(f.at) : e < d})

FtnSilent(f) ==
  LET k == unit[f.at].k IN
  \/ f.stage = "close"
  \/ f.stage = "then" /\ k = "lifgoto"
  \/ f.stage = "arm" /\ k \in {"else", "endif"}
  \/ f.stage = "stmt" /\ k \in {"goto", "continue", "enddo", "elseif", "else", "endif"}
FtnSteps(f) ==
  LET k == unit[f.at].k IN
  CASE f.stage = "close" -> Increment(f)
    [] f.stage = "arm"   -> At(f, f.at + 1, "stmt")
    [] f.stage = "then" \/ (f.stage = "stmt" /\ k = "goto") -> JumpTo(f, unit[f.at].to[1])
    [] f.stage = "stmt" /\ k \in {"elseif", "else"} -> At(f, EndOf(f.at), "stmt")
    [] OTHER -> Finish(f, f.at)

(* What the machine is about to do, as the code would.                      *)
FtnOp ==
  CASE Cur.k \in {"if", "elseif"} -> "test"
    [] Cur.k \in {"lifwork", "lifgoto"} -> IF ftn.stage = "then" THEN "work" ELSE "test"
    [] Cur.k \in {"cgoto", "agoto", "aif", "aifwide"} -> "eval"
    [] Cur.k = "do"  -> "init"
    [] Cur.k = "end" -> "return"
    [] OTHER -> Cur.k
-----------------------------------------------------------------------------
(* Both run.  Each comes to rest before something that can be seen.         *)
Running == phase = "run" /\ code.on /\ code.pc \in DOMAIN gen.code
FtnOn == ftn.on /\ ftn.at \in Lines
CodeStep ==
  /\ Running /\ Now.op \in Silent
  /\ code' = CodeSteps
  /\ UNCHANGED <<family, unit, nest, assigned, reflect, phase, gen, ftn>>
FtnStep ==
  /\ Running /\ Now.op \notin Silent /\ FtnOn /\ FtnSilent(ftn)
  /\ ftn' = FtnSteps(ftn)
  /\ UNCHANGED <<family, unit, nest, assigned, reflect, phase, gen, code>>

Meeting == Running /\ Now.op \notin Silent /\ FtnOn /\ ~FtnSilent(ftn)
Both(op, c, f) ==
  /\ Meeting /\ Now.op = op /\ FtnOp = op
  /\ code' = c /\ ftn' = f
  /\ UNCHANGED <<family, unit, nest, assigned, reflect, phase, gen>>
Past == Go(code, code.pc + 1)

Work == Both("work", Past, Finish(ftn, ftn.at))
(* A reflective call, which only a unit that imports reflection makes,      *)
(* fails: the handlers print a message, and the unit ends.                  *)
Throw == \E h \in gen.range.at :
  /\ reflect /\ code.pc \in gen.range.from..(gen.range.to - 1)
  /\ Both("work", Go(code, h), At(ftn, Len(unit), "stmt"))
Test == \E b \in BOOLEAN :
  Both("test", IF b THEN Past ELSE Go(code, Now.to),
       IF Cur.k \in {"if", "elseif"}
       THEN IF b THEN At(ftn, ftn.at + 1, "stmt") ELSE At(ftn, NextArm(ftn.at), "arm")
       ELSE IF b THEN [ftn EXCEPT !.stage = "then"] ELSE Finish(ftn, ftn.at))
Initialise ==
  LET do == Cur.do
      v  == ftn.val[ftn.at]
      n  == Iterations(do, v)
      f  == [ftn EXCEPT !.val[ftn.at] = StartOf(do, v), !.left[ftn.at] = IF n > 0 THEN n ELSE 0]
      t  == Terminal(ftn.at)
      w  == code.val[Now.line]
  IN Both("init", [Past EXCEPT !.val[Now.line] = StartOf(unit[Now.line].do, w)],
          IF n > 0 THEN At(f, ftn.at + 1, "stmt")
                   ELSE Close(f, t, {e \in Ends(t) : e < ftn.at}))
AssignLabel == Both("assign", [Past EXCEPT !.asg = Now.num],
                    Finish([ftn EXCEPT !.asg = Cur.to[1]], ftn.at))
Evaluate(x) ==
  LET l == Cur.to
      j == CASE Cur.k = "cgoto" -> IF x \in DOMAIN l THEN l[x] ELSE 0
             [] Cur.k = "agoto" -> x
             [] OTHER -> IF x < 0 THEN l[1] ELSE IF x = 0 THEN l[2] ELSE l[3]
  IN Both("eval", Store(Past, Now, x), IF j = 0 THEN Finish(ftn, ftn.at) ELSE JumpTo(ftn, j))
(* The value: any for a computed GOTO and an arithmetic IF; for an assigned *)
(* GOTO, the label last assigned, one of its list, from where it may be     *)
(* jumped to.                                                               *)
Values ==
  CASE Cur.k = "cgoto" -> 0..(Len(Cur.to) + 1)
    [] Cur.k = "agoto" -> {l \in {ftn.asg} \cap ToSet(IF Cur.to = <<>> THEN assigned ELSE Cur.to) :
                             In(LineOf(l)) \subseteq In(ftn.at)}
    [] OTHER -> {-1, 0, 1}
Eval == Meeting /\ Now.op = "eval" /\ FtnOp = "eval" /\ \E x \in Values : Evaluate(x)
Leave == \E op \in {"return", "stop"} : Both(op, [code EXCEPT !.on = FALSE], [ftn EXCEPT !.on = FALSE])

(* The unit has ended, or is not a legal one: no END comes that fits it, or *)
(* an assigned GOTO has no label of its list that it may jump to; or the    *)
(* two machines have parted, which SameStatement excludes.                  *)
Parted == ~Running \/ ~FtnOn \/ (Meeting /\ Now.op # FtnOp)
Rest ==
  /\ \/ phase = "read"
     \/ phase = "run" /\ (Parted \/ (Meeting /\ Now.op = "eval" /\ Values = {}))
  /\ UNCHANGED vars
-----------------------------------------------------------------------------
Init ==
  /\ unit = <<>> /\ nest = <<>> /\ assigned = <<>> /\ phase = "read"
  /\ family \in DOMAIN Families /\ reflect \in Families[family].reflect
  /\ gen = StartGen /\ code = StartCode /\ ftn = StartFtn

Reading == \E s \in Families[family].lines :
  ReadSimple(s) \/ ReadDo(s) \/ ReadEndDo(s) \/ ReadIf(s) \/ ReadArm(s) \/ ReadEndIf(s) \/ ReadEnd(s)
Run == CodeStep \/ FtnStep \/ Work \/ Throw \/ Test \/ Initialise \/ AssignLabel \/ Eval \/ Leave

Next == Reading \/ EmitLine \/ Run \/ Rest

Spec == Init /\ [][Next]_vars
(* A program that runs keeps running.                                       *)
FairSpec == Spec /\ WF_vars(Run)
-----------------------------------------------------------------------------
(* The types of the state, and that the locals suffice.                     *)
TypeOK ==
  /\ phase \in {"read", "emit", "run"} /\ reflect \in BOOLEAN
  /\ \A i \in Lines : unit[i].k \in Kinds /\ In(i) \subseteq Lines
  /\ gen.next \in 0..gen.max /\ gen.max <= MaxLocal
  /\ \A p \in DOMAIN gen.code : gen.code[p].line \in 0..Len(unit)
  /\ code.pc \in Nat /\ code.on \in BOOLEAN
  /\ ftn.at \in 1..(MaxLines + 1) /\ ftn.stage \in {"stmt", "arm", "then", "close"}

(* The bytecode does what the Fortran unit does: it stays inside its code,  *)
(* and where both come to rest they are at the same line, about to do the   *)
(* same, with the same values of the DO variables and of the assigned label. *)
SameStatement ==
  /\ phase = "run" => code.pc \in DOMAIN gen.code /\ ftn.at \in Lines
  /\ Meeting => /\ Now.op = FtnOp
                /\ Now.op # "return" => Now.line = ftn.at
                /\ code.val = ftn.val /\ code.asg = ftn.asg

(* Once the unit is translated every branch has a target in the code, the   *)
(* code cannot be left at its end, and no loop, block or local is left open. *)
Targets == {Target(gen.code[p]) : p \in {q \in DOMAIN gen.code : gen.code[q].op \in Branches}}
CodeComplete ==
  phase = "run" =>
    /\ \A p \in DOMAIN gen.code :
         gen.code[p].op \in Branches => gen.code[p].to # 0 \/ gen.code[p].lab \in DOMAIN gen.labels
    /\ Targets \subseteq DOMAIN gen.code
    /\ gen.code # <<>> /\ Last(gen.code).op = "return"
    /\ gen.loops = <<>> /\ gen.blocks = <<>> /\ gen.next = 0

(* The iteration count of each loop that control is in is the number of     *)
(* iterations that the loop has left, unless its start reads the DO         *)
(* variable (README, section 4).                                            *)
IterationCounts ==
  Meeting => \A p \in DOMAIN gen.code :
    gen.code[p].op = "count" /\ gen.code[p].line \in In(ftn.at)
      => code.local[gen.code[p].loc] = ftn.left[gen.code[p].line]

(* A unit without jumps ends: its loops end.                                *)
Structured == \A i \in Lines : unit[i].k \notin {"goto", "lifgoto", "cgoto", "agoto", "aif", "aifwide"}
StructuredUnitsEnd == (phase = "run" /\ Structured) ~> ~code.on
=============================================================================
