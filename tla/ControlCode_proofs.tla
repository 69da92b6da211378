-------------------------- MODULE ControlCode_proofs --------------------------
(***************************************************************************)
(* Proofs about ControlCode: that a unit is translated completely.          *)
(***************************************************************************)
EXTENDS ControlUnit_proofs

USE LimitAssumption

-----------------------------------------------------------------------------
(* The code of a unit. *)

Ops == {"init", "count", "goto", "incr", "dec", "ifgt", "eval", "ifne", "ifge", "test", "work", "return",
        "stop", "assign", "catch", "unused"}
InstrType == {x \in [op : Ops, line : Nat, to : Nat, lab : Nat, loc : Nat, num : Nat, wide : BOOLEAN] :
                x.op = "unused" => x.line = 0}
LoopType  == [label : Nat, line : Nat, loc : Nat, goto : Nat]
BlockType == [line : Nat, test : Nat, gotos : SUBSET Nat]
GenType == [line : Nat, code : Seq(InstrType), labels : UNION {[D -> Nat] : D \in SUBSET Nat},
            loops : Seq(LoopType), blocks : Seq(BlockType), next : Nat, max : Nat,
            range : [from : Nat, to : Nat, at : SUBSET Nat]]

\* The same, but for where they branch to.
Same(x, y) == x = [y EXCEPT !.to = x.to]
Empty(j)   == unit[j].k = "else" /\ unit[j + 1].k = "endif"
\* The labels that a computed or assigned GOTO selects from.
Chosen(j)  == IF unit[j].k = "agoto" /\ unit[j].to = <<>> THEN assigned ELSE unit[j].to

(* P[j] is where the code of line j starts; how long it is, without the ends *)
(* of loops (an ENDIF may have one instruction more), and what it is.        *)
Size(j) == LET k == unit[j].k IN
  CASE k = "do" -> 3
    [] k \in {"work", "return", "stop", "goto", "assign", "if"} -> 1
    [] k \in {"lifwork", "lifgoto", "elseif"} -> 2
    [] k \in {"cgoto", "agoto"} -> 1 + 2 * Len(Chosen(j))
    [] k \in {"aif", "aifwide"} -> 6
    [] k = "else" -> IF Empty(j) THEN 0 ELSE 1
    [] OTHER -> 0
CodeOf(k, to, chosen, c, j, p) ==
  LET loc == c[p].loc IN
  /\ k = "do" => /\ c[p] = Instr("init", j)
                 /\ c[p + 1] = [Instr("count", j) EXCEPT !.loc = c[p + 1].loc]
                 /\ Same(c[p + 2], Instr("goto", j))
  /\ k \in {"work", "return", "stop"} => c[p] = Instr(k, j)
  /\ k = "goto" => c[p] = Goto(j, to[1])
  /\ k = "assign" => c[p] = [Instr("assign", j) EXCEPT !.num = to[1]]
  /\ k \in {"lifwork", "lifgoto"} =>
       /\ c[p] = [Instr("test", j) EXCEPT !.to = p + 2]
       /\ c[p + 1] = IF k = "lifwork" THEN Instr("work", j) ELSE Goto(j, to[1])
  /\ k \in {"cgoto", "agoto"} =>
       /\ c[p] = [Instr("eval", j) EXCEPT !.loc = loc]
       /\ \A m \in DOMAIN chosen :
            /\ c[p + 2 * m - 1] = [Instr("ifne", j) EXCEPT
                 !.loc = loc, !.num = IF k = "cgoto" THEN m ELSE chosen[m], !.to = p + 2 * m + 1]
            /\ c[p + 2 * m] = Goto(j, chosen[m])
  /\ k \in {"aif", "aifwide"} =>
       /\ c[p] = [Instr("eval", j) EXCEPT !.loc = loc, !.wide = (k = "aifwide")]
       /\ c[p + 1] = [Instr("ifge", j) EXCEPT !.loc = loc, !.to = p + 3] /\ c[p + 2] = Goto(j, to[1])
       /\ c[p + 3] = [Instr("ifne", j) EXCEPT !.loc = loc, !.to = p + 5] /\ c[p + 4] = Goto(j, to[2])
       /\ c[p + 5] = Goto(j, to[3])
  /\ k = "if" => Same(c[p], Instr("test", j))
  /\ k = "elseif" => Same(c[p], Instr("goto", j)) /\ Same(c[p + 1], Instr("test", j))
StatementCode(c, j, p) ==
  /\ CodeOf(unit[j].k, unit[j].to, Chosen(j), c, j, p)
  /\ unit[j].k = "else" /\ ~ Empty(j) => Same(c[p], Instr("goto", j))

(* The loops that are open before line i, and the end of loop d; the ends of *)
(* the loops in R, from the innermost, come between line t and position w.   *)
DoHeads(i) == {d \in Lines : unit[d].k = "do" /\ \E m \in 1..Len(Open(i)) : Open(i)[m].head = d}
EndAt(c, P, d) == c[P[d] + 2].to - 2
LoopEnd(c, P, d) ==
  LET x   == EndAt(c, P, d)
      loc == c[P[d] + 1].loc
  IN /\ c[x] = Instr("incr", d)
     /\ c[x + 1] = [Instr("dec", d) EXCEPT !.loc = loc]
     /\ c[x + 2] = [Instr("ifgt", d) EXCEPT !.loc = loc, !.to = P[d] + 3]
Chained(c, P, t, R, w) ==
  LET q == P[t] + Size(t) IN
  /\ R = {} => w = q
  /\ \A d \in R :
       /\ LoopEnd(c, P, d) /\ q <= EndAt(c, P, d) /\ EndAt(c, P, d) + 3 <= w
       /\ (\A e \in R : e <= d) => EndAt(c, P, d) = q
       /\ (\A e \in R : d <= e) => EndAt(c, P, d) + 3 = w
       /\ \A e \in R : e < d /\ (\A f \in R : f <= e \/ d <= f) => EndAt(c, P, e) = EndAt(c, P, d) + 3
EndIfCode(c, P, e) ==
  \/ P[e + 1] = P[e]
  \/ P[e + 1] = P[e] + 1 /\ c[P[e]] = [Instr("goto", e) EXCEPT !.to = P[e + 1]]
LineEnd(c, P, j) == IF unit[j].k = "endif" THEN EndIfCode(c, P, j) ELSE Chained(c, P, j, Ends(j), P[j + 1])

(* What the tests and the gotos of a block branch to, once that is known:    *)
(* an empty ELSE and the ENDIF are as one.                                   *)
TestAt(P, a) == IF unit[a].k = "if" THEN P[a] ELSE P[a] + 1
NextOne(a, j) == a < j /\ unit[j].of = HeadOf(a) /\ \A m \in (a + 1)..(j - 1) : unit[m].of # HeadOf(a)
Jumps(a) == unit[a].k = "elseif" \/ (unit[a].k = "else" /\ ~ Empty(a))
ArmEnd(c, P, i, a) ==
  /\ unit[a].k \in {"if", "elseif"} => \A j \in 1..(i - 1) : NextOne(a, j) =>
       /\ Jumps(j) => c[TestAt(P, a)].to = P[j] + 1
       /\ unit[j].k = "endif" => c[TestAt(P, a)].to = P[j + 1]
       /\ Empty(j) /\ j + 1 < i => c[TestAt(P, a)].to = P[j + 2]
  /\ Jumps(a) => \A e \in 1..(i - 1) : unit[e].k = "endif" /\ unit[e].of = unit[a].of => c[P[a]].to = P[e + 1]

(* Locals: no open loop loses its iteration count.                           *)
LocalsOK(c, P, j) ==
  \A d \in DoHeads(j) :
    /\ unit[j].k = "do" => c[P[d] + 1].loc < c[P[j] + 1].loc
    /\ unit[j].k \in {"cgoto", "agoto", "aif", "aifwide"} => c[P[d] + 1].loc < c[P[j]].loc

LabelAt(g, P, j) == unit[j].lab # 0 => /\ unit[j].lab \in DOMAIN g.labels
                                       /\ g.labels[unit[j].lab] = IF unit[j].k = "endif" THEN P[j + 1] ELSE P[j]

(* The stacks of the generator hold the open loops D and blocks.             *)
LoopStack(g, P, D) ==
  /\ g.next = Len(g.loops)
  /\ \A d \in D : \E m \in 1..Len(g.loops) : g.loops[m].line = d
  /\ \A m \in 1..Len(g.loops) :
       LET d == g.loops[m].line IN
       /\ d \in D /\ \A q \in 1..(m - 1) : g.loops[q].line < d
       /\ g.loops[m].label = unit[d].to[1] /\ g.loops[m].loc = m - 1 /\ g.loops[m].goto = P[d] + 2
       /\ g.code[P[d] + 1].loc = m - 1
IfEntries(i) == {Open(i)[m] : m \in {q \in 1..Len(Open(i)) : unit[Open(i)[q].head].k = "if"}}
(* The tests that wait for their branch when a is the arm being read, and    *)
(* the gotos that wait for the end of the block of h before line i.          *)
Tests(a) == {x \in Lines : unit[x].k \in {"if", "elseif"} /\ (x = a \/ (Empty(a) /\ NextOne(x, a)))}
Leaves(h, i) == {y \in Lines : y < i /\ Jumps(y) /\ unit[y].of = h}
BlockIs(P, i, e, b) ==
  /\ b.line = e.head
  /\ Tests(e.arm) = {} => b.test = 0
  /\ \A a \in Tests(e.arm) : b.test = TestAt(P, a)
  /\ b.gotos = {P[y] : y \in Leaves(e.head, i)}
BlockStack(g, P, i) ==
  /\ \A m \in 1..Len(g.blocks) : /\ \E e \in IfEntries(i) : BlockIs(P, i, e, g.blocks[m])
                                 /\ \A q \in 1..(m - 1) : g.blocks[q].line < g.blocks[m].line
  /\ \A e \in IfEntries(i) : \E m \in 1..Len(g.blocks) : g.blocks[m].line = e.head

(* Every instruction branches into the code, or to a label of its line, or   *)
(* waits for that; and its locals are locals of the method.                  *)
Waits(g, p) == \/ \E m \in 1..Len(g.loops) : g.loops[m].goto = p
               \/ \E m \in 1..Len(g.blocks) : g.blocks[m].test = p \/ p \in g.blocks[m].gotos
InstrOK(g, p) ==
  LET ins == g.code[p] IN
  /\ ins.op # "unused" /\ ins.line \in Lines
  /\ ins.op \in Branches => \/ Waits(g, p) /\ ins.lab = 0
                            \/ ins.lab = 0 /\ ins.to \in 1..Len(g.code)
                            \/ ins.op = "goto" /\ ins.lab \in ToSet(Chosen(ins.line))
                               /\ unit[ins.line].k \notin {"do", "end"}
  /\ ins.loc < MaxLocal /\ (ins.wide => ins.loc + 1 < MaxLocal)

LinesCoded(g, P, i) ==
  /\ P \in [1..i -> Nat \ {0}] /\ P[1] = 1
  /\ \A j \in 1..i : \A k \in (j + 1)..i : P[j] + Size(j) <= P[k]
  /\ \A j \in 1..(i - 1) : /\ StatementCode(g.code, j, P[j]) /\ LineEnd(g.code, P, j)
                           /\ LocalsOK(g.code, P, j) /\ LabelAt(g, P, j)
                           /\ ArmEnd(g.code, P, i, j)
Sound(g) ==
  /\ g \in GenType /\ g.max <= MaxLocal /\ g.next <= g.max
  /\ \A p \in 1..(Where(g) - 1) : InstrOK(g, p)
  /\ \A l \in DOMAIN g.labels : l # 0 /\ g.labels[l] \in 1..Len(g.code)

(* The first i - 1 lines have been translated, and the next starts at the    *)
(* end of the code.                                                          *)
Translated(g, P, i) ==
  /\ Sound(g) /\ LinesCoded(g, P, i) /\ P[i] = Where(g)
  /\ LoopStack(g, P, DoHeads(i)) /\ BlockStack(g, P, i)
  /\ g.code # <<>> /\ Last(g.code).op = "return" => i > 1 /\ (unit[i - 1].k = "return" \/ Empty(i - 1))

(* The instructions that still wait for their branches when line i is read.  *)
Fixable(i, x) ==
  \/ x.op = "goto" /\ x.line \in DoHeads(i)
  \/ x.op = "goto" /\ x.line < i /\ Jumps(x.line) /\ \E e \in IfEntries(i) : unit[x.line].of = e.head
  \/ x.op = "test" /\ \E e \in IfEntries(i) : x.line \in Tests(e.arm)

(* Instructions that wait are gotos and tests of loops and blocks.          *)
LEMMA FixableIs ==
  ASSUME NEW i, NEW x, Fixable(i, x)
  PROVE  x.op \in {"goto", "test"} /\ unit[x.line].k \in {"do", "if", "elseif", "else"}
<1>1. CASE x.op = "goto" /\ x.line \in DoHeads(i)
  BY <1>1 DEF DoHeads
<1>2. CASE x.op = "goto" /\ Jumps(x.line)
  BY <1>2 DEF Jumps
<1>3. CASE x.op = "test" /\ \E e \in IfEntries(i) : x.line \in Tests(e.arm)
  <2>1. PICK a : x.line \in Tests(a)
    BY <1>3
  <2>2. unit[x.line].k \in {"if", "elseif"}
    BY <2>1 DEF Tests
  <2> QED BY <1>3, <2>2
<1> QED BY <1>1, <1>2, <1>3 DEF Fixable

(* What a change that only fixes branches leaves alone.                      *)
Fixes(i, c, d, w) ==
  \A q \in 1..(w - 1) : Same(d[q], c[q]) /\ (d[q] # c[q] => Fixable(i, c[q]))

(* The branches to line i of a block and to what comes after it are set.     *)
ArmsClosed(c, P, i, w) ==
  \A a \in 1..(i - 1) :
    /\ unit[a].k \in {"if", "elseif"} /\ NextOne(a, i) =>
         /\ Jumps(i) => c[TestAt(P, a)].to = P[i] + 1
         /\ unit[i].k = "endif" => c[TestAt(P, a)].to = w
    /\ unit[a].k \in {"if", "elseif"} /\ NextOne(a, i - 1) /\ Empty(i - 1) => c[TestAt(P, a)].to = w
    /\ Jumps(a) /\ unit[i].k = "endif" /\ unit[a].of = unit[i].of => c[P[a]].to = w

(* What h is when, after g, the statement of line i and the ends of the      *)
(* loops R have been translated.                                             *)
LoopsAt(i) == DoHeads(i) \cup {d \in {i} : unit[d].k = "do"}
Part(g, h, P, i, R) ==
  /\ Sound(h) /\ Fixes(i, g.code, h.code, P[i]) /\ Len(g.code) <= Len(h.code)
  /\ StatementCode(h.code, i, P[i]) /\ LocalsOK(h.code, P, i) /\ P[i] + Size(i) <= Where(h)
  /\ IF unit[i].k = "endif"
     THEN Where(h) = P[i] \/ (Where(h) = P[i] + 1 /\ h.code[P[i]] = [Instr("goto", i) EXCEPT !.to = Where(h)])
     ELSE Chained(h.code, P, i, R, Where(h))
  /\ LoopStack(h, P, LoopsAt(i) \ R) /\ BlockStack(h, P, i + 1) /\ ArmsClosed(h.code, P, i, Where(h))
  /\ h.labels = g.labels
  /\ h.code # <<>> /\ Last(h.code).op = "return" => unit[i].k = "return" \/ Empty(i)

(* How long the code of a line is, kind by kind.                            *)
LEMMA SizeIs ==
  ASSUME UnitInv, NEW j \in Lines
  PROVE  /\ Size(j) \in Nat /\ Chosen(j) \in Seq(Nat) /\ Len(Chosen(j)) \in Nat
         /\ unit[j].k = "do" => Size(j) = 3
         /\ unit[j].k \in {"work", "return", "stop", "goto", "assign", "if"} => Size(j) = 1
         /\ unit[j].k \in {"lifwork", "lifgoto", "elseif"} => Size(j) = 2
         /\ unit[j].k \in {"cgoto", "agoto"} => Size(j) = 1 + 2 * Len(Chosen(j))
         /\ unit[j].k \in {"aif", "aifwide"} => Size(j) = 6
         /\ unit[j].k = "else" => Size(j) = IF Empty(j) THEN 0 ELSE 1
         /\ unit[j].k \in {"continue", "enddo", "endif", "end"} => Size(j) = 0
<1>1. unit[j].to \in Seq(Nat) /\ assigned \in Seq(Nat) /\ unit[j].k \in Kinds
  BY UnitTypes DEF UnitInv, UnitType
<1>2. Chosen(j) \in Seq(Nat) /\ Len(Chosen(j)) \in Nat
  BY <1>1 DEF Chosen
<1> QED BY <1>1, <1>2 DEF Size, Kinds

(* The fields of instructions.                                               *)
LEMMA Fields ==
  ASSUME NEW op, NEW j
  PROVE  /\ Instr(op, j).op = op /\ Instr(op, j).line = j /\ Instr(op, j).lab = 0 /\ Instr(op, j).to = 0
         /\ \A l : Goto(j, l).op = "goto" /\ Goto(j, l).line = j /\ Goto(j, l).lab = l /\ Goto(j, l).to = 0
         /\ \A x : /\ [Instr(op, j) EXCEPT !.to = x].op = op /\ [Instr(op, j) EXCEPT !.to = x].line = j
                   /\ [Instr(op, j) EXCEPT !.num = x].op = op /\ [Instr(op, j) EXCEPT !.num = x].line = j
                   /\ [Instr(op, j) EXCEPT !.loc = x].op = op /\ [Instr(op, j) EXCEPT !.loc = x].line = j
         /\ \A x, y : /\ [Instr(op, j) EXCEPT !.loc = x, !.wide = y].op = op
                      /\ [Instr(op, j) EXCEPT !.loc = x, !.wide = y].line = j
                      /\ [Instr(op, j) EXCEPT !.loc = x, !.to = y].op = op
                      /\ [Instr(op, j) EXCEPT !.loc = x, !.to = y].line = j
         /\ \A x, y, z : /\ [Instr(op, j) EXCEPT !.loc = x, !.num = y, !.to = z].op = op
                         /\ [Instr(op, j) EXCEPT !.loc = x, !.num = y, !.to = z].line = j
BY DEF Instr, Goto

(* Fields of an instruction that was fixed.                                 *)
LEMMA SameIs ==
  ASSUME NEW op, NEW j, NEW x, NEW y, Same(x, Instr(op, j))
  PROVE  /\ x.op = op /\ x.line = j /\ x.lab = 0 /\ x.loc = 0
         /\ Same(y, x) => Same(y, Instr(op, j))
<1>1. x.op = op /\ x.line = j /\ x.lab = 0 /\ x.loc = 0
  BY DEF Same, Instr
<1>2. ASSUME Same(y, x) PROVE Same(y, Instr(op, j))
  BY <1>2 DEF Same, Instr
<1> QED BY <1>1, <1>2

(* Fixing branches leaves the code of a statement.                          *)
LEMMA StatementKept ==
  ASSUME UnitInv, NEW i, NEW j \in Lines, NEW c, NEW d, NEW p \in Nat \ {0}, NEW w \in Nat, p + Size(j) <= w,
         Fixes(i, c, d, w), StatementCode(c, j, p)
  PROVE  StatementCode(d, j, p)
<1> DEFINE k == unit[j].k
           n == Size(j)
<1>1. \A q \in p..(p + n - 1) : Same(d[q], c[q]) /\ (d[q] # c[q] => Fixable(i, c[q]))
  BY SizeIs DEF Fixes
<1>2. \A q \in p..(p + n - 1) : c[q].line = j /\ (k \notin {"do", "if", "elseif", "else"} \/ c[q].op \notin {"goto", "test"})
                                 => d[q] = c[q]
  BY <1>1, FixableIs
<1>3. CASE k = "do"
  <2>1. n = 3 /\ p \in p..(p + n - 1) /\ p + 1 \in p..(p + n - 1) /\ p + 2 \in p..(p + n - 1)
    BY <1>3, SizeIs
  <2>2. /\ c[p] = Instr("init", j) /\ c[p + 1] = [Instr("count", j) EXCEPT !.loc = c[p + 1].loc]
        /\ Same(c[p + 2], Instr("goto", j))
    BY <1>3 DEF StatementCode, CodeOf
  <2>3. c[p].line = j /\ c[p + 1].line = j /\ c[p].op = "init" /\ c[p + 1].op = "count"
    BY <2>2 DEF Instr
  <2>4. d[p] = c[p] /\ d[p + 1] = c[p + 1]
    BY <1>2, <2>1, <2>3
  <2>5. Same(d[p + 2], Instr("goto", j))
    <3>1. Same(d[p + 2], c[p + 2])
      BY <1>1, <2>1
    <3> QED BY <2>2, <3>1 DEF Same, Instr
  <2> QED BY <1>3, <2>2, <2>4, <2>5 DEF StatementCode, CodeOf
<1>4. CASE k \in {"work", "return", "stop", "goto", "assign"}
  <2>1. n = 1 /\ p \in p..(p + n - 1)
    BY <1>4, SizeIs
  <2>2. c[p].line = j
    <3>1. PICK kk, l : kk = k /\ l = unit[j].to[1]
      OBVIOUS
    <3>2. c[p] = Instr(kk, j) \/ c[p] = Goto(j, l) \/ c[p] = [Instr("assign", j) EXCEPT !.num = l]
      BY <1>4, <3>1 DEF StatementCode, CodeOf
    <3> QED BY ONLY <3>2 DEF Instr, Goto
  <2>3. d[p] = c[p]
    BY <1>2, <1>4, <2>1, <2>2
  <2> QED BY <1>4, <2>3 DEF StatementCode, CodeOf
<1>5. CASE k \in {"lifwork", "lifgoto"}
  <2>1. n = 2 /\ p \in p..(p + n - 1) /\ p + 1 \in p..(p + n - 1)
    BY <1>5, SizeIs
  <2>2. c[p].line = j /\ c[p + 1].line = j
    <3>1. /\ c[p] = [Instr("test", j) EXCEPT !.to = p + 2]
          /\ c[p + 1] = Instr("work", j) \/ c[p + 1] = Goto(j, unit[j].to[1])
      BY <1>5 DEF StatementCode, CodeOf
    <3> QED BY <3>1, Fields
  <2>3. d[p] = c[p] /\ d[p + 1] = c[p + 1]
    BY <1>2, <1>5, <2>1, <2>2
  <2> QED BY <1>5, <2>3 DEF StatementCode, CodeOf
<1>6. CASE k \in {"aif", "aifwide"}
  <2>1. n = 6 /\ \A m \in 0..5 : p + m \in p..(p + n - 1)
    BY <1>6, SizeIs
  <2>2. c[p].line = j /\ c[p + 1].line = j /\ c[p + 2].line = j /\ c[p + 3].line = j /\ c[p + 4].line = j /\ c[p + 5].line = j
    <3>1. PICK loc, l : loc = c[p].loc /\ l = unit[j].to
      OBVIOUS
    <3>2. /\ c[p] = [Instr("eval", j) EXCEPT !.loc = loc, !.wide = (k = "aifwide")]
          /\ c[p + 1] = [Instr("ifge", j) EXCEPT !.loc = loc, !.to = p + 3] /\ c[p + 2] = Goto(j, l[1])
          /\ c[p + 3] = [Instr("ifne", j) EXCEPT !.loc = loc, !.to = p + 5] /\ c[p + 4] = Goto(j, l[2])
          /\ c[p + 5] = Goto(j, l[3])
      BY <1>6, <3>1 DEF StatementCode, CodeOf
    <3> QED BY ONLY <3>2, Fields
  <2>3. d[p] = c[p]
    BY <1>2, <1>6, <2>1, <2>2
  <2>4. /\ d[p + 1] = c[p + 1] /\ d[p + 2] = c[p + 2] /\ d[p + 3] = c[p + 3]
        /\ d[p + 4] = c[p + 4] /\ d[p + 5] = c[p + 5]
    BY <1>2, <1>6, <2>1, <2>2
  <2> QED BY <1>6, <2>3, <2>4 DEF StatementCode, CodeOf
<1>7. CASE k \in {"cgoto", "agoto"}
  <2>1. n = 1 + 2 * Len(Chosen(j)) /\ Len(Chosen(j)) \in Nat /\ DOMAIN Chosen(j) = 1..Len(Chosen(j))
    BY <1>7, SizeIs
  <2>2. d[p] = c[p]
    <3>1. c[p].line = j /\ p \in p..(p + n - 1)
      <4>1. PICK loc : loc = c[p].loc
        OBVIOUS
      <4>2. c[p] = [Instr("eval", j) EXCEPT !.loc = loc]
        BY <1>7, <4>1 DEF StatementCode, CodeOf
      <4> QED BY <2>1, <4>2, Fields
    <3> QED BY <1>2, <1>7, <3>1
  <2>3. ASSUME NEW m \in DOMAIN Chosen(j) PROVE d[p + 2 * m - 1] = c[p + 2 * m - 1] /\ d[p + 2 * m] = c[p + 2 * m]
    <3>1. p + 2 * m - 1 \in p..(p + n - 1) /\ p + 2 * m \in p..(p + n - 1)
      BY <2>1
    <3>2. c[p + 2 * m - 1].line = j /\ c[p + 2 * m].line = j
      <4>1. PICK loc, x, l : loc = c[p].loc /\ l = Chosen(j)[m] /\ x = IF k = "cgoto" THEN m ELSE Chosen(j)[m]
        OBVIOUS
      <4>2. /\ c[p + 2 * m - 1] = [Instr("ifne", j) EXCEPT !.loc = loc, !.num = x, !.to = p + 2 * m + 1]
            /\ c[p + 2 * m] = Goto(j, l)
        BY <1>7, <4>1 DEF StatementCode, CodeOf
      <4> QED BY ONLY <4>2 DEF Instr, Goto
    <3> QED BY <1>2, <1>7, <3>1, <3>2
  <2> QED BY <1>7, <2>2, <2>3 DEF StatementCode, CodeOf
<1>8. CASE k = "if" \/ (k = "else" /\ ~ Empty(j))
  <2>1. n = 1 /\ p \in p..(p + n - 1)
    BY <1>8, SizeIs
  <2>2. Same(d[p], c[p])
    BY <1>1, <2>1
  <2>3. Same(c[p], Instr("test", j)) \/ Same(c[p], Instr("goto", j))
    BY <1>8 DEF StatementCode, CodeOf
  <2>4. k = "if" => Same(d[p], Instr("test", j))
    <3>1. k = "if" => Same(c[p], Instr("test", j))
      BY DEF StatementCode, CodeOf
    <3> QED BY <2>2, <3>1, SameIs
  <2>5. k = "else" => Same(d[p], Instr("goto", j))
    <3>1. k = "else" => Same(c[p], Instr("goto", j))
      BY <1>8 DEF StatementCode, CodeOf
    <3> QED BY <2>2, <3>1, SameIs
  <2> QED BY <1>8, <2>4, <2>5 DEF StatementCode, CodeOf
<1>9. CASE k = "elseif"
  <2>1. n = 2 /\ p \in p..(p + n - 1) /\ p + 1 \in p..(p + n - 1)
    BY <1>9, SizeIs
  <2>2. Same(d[p], c[p]) /\ Same(d[p + 1], c[p + 1])
    BY <1>1, <2>1
  <2>3. Same(c[p], Instr("goto", j)) /\ Same(c[p + 1], Instr("test", j))
    BY <1>9 DEF StatementCode, CodeOf
  <2>4. Same(d[p], Instr("goto", j)) /\ Same(d[p + 1], Instr("test", j))
    BY <2>2, <2>3, SameIs
  <2> QED BY <1>9, <2>4 DEF StatementCode, CodeOf
<1>10. CASE k \in {"continue", "enddo", "endif", "end"} \/ (k = "else" /\ Empty(j))
  BY <1>10 DEF StatementCode, CodeOf
<1>11. k \in Kinds
  BY UnitTypes DEF UnitInv
<1> QED BY <1>3, <1>4, <1>5, <1>6, <1>7, <1>8, <1>9, <1>10, <1>11 DEF Kinds

(* Open loops began before, and a loop that has ended is not open.          *)
LEMMA DoHeadsIs ==
  ASSUME UnitInv, NEW i \in 1..(Len(unit) + 1)
  PROVE  /\ \A d \in DoHeads(i) : d \in Lines /\ d \in 1..(i - 1) /\ unit[d].k = "do"
         /\ \A t \in 1..(i - 1) : \A d \in Ends(t) : d \notin DoHeads(i) /\ d \in 1..(t - 1) /\ d \in Lines /\ unit[d].k = "do"
<1>1. Lines = 1..Len(unit) /\ Len(unit) \in Nat
  BY UnitTypes DEF UnitInv
<1>2. ASSUME NEW d \in DoHeads(i) PROVE d \in Lines /\ d \in 1..(i - 1) /\ unit[d].k = "do"
  <2>1. PICK m \in 1..Len(Open(i)) : Open(i)[m].head = d
    BY DEF DoHeads
  <2>2. /\ Open(i)[m].head \in 1..Open(i)[m].arm /\ Open(i)[m].arm \in 1..(i - 1)
    BY HeadsRise
  <2>3. d \in 1..(i - 1)
    BY <1>1, <2>1, <2>2
  <2> QED BY <2>3 DEF DoHeads
<1>3. ASSUME NEW t \in 1..(i - 1), NEW d \in Ends(t) PROVE d \notin DoHeads(i) /\ d \in 1..(t - 1) /\ d \in Lines /\ unit[d].k = "do"
  <2>1. d \in Lines /\ unit[d].k = "do" /\ t \in Lines /\ t < i
    BY <1>1 DEF Ends
  <2>2. d \notin DoHeads(i)
    <3> SUFFICES ASSUME d \in DoHeads(i) PROVE FALSE
      OBVIOUS
    <3>1. PICK m \in 1..Len(Open(i)) : Open(i)[m].head = d
      BY DEF DoHeads
    <3>2. StackOK(i)
      BY DEF UnitInv, Stacks
    <3>3. Latest(Open(i)[m], i)
      BY <3>2 DEF StackOK
    <3> QED BY <2>1, <3>1, <3>3 DEF Latest
  <2>3. LoopOK(d)
    BY <2>1 DEF UnitInv, LoopsEnd
  <2>4. d < t
    BY <2>1, <2>3 DEF LoopOK
  <2> QED BY <1>1, <2>1, <2>2, <2>4
<1> QED BY <1>2, <1>3

(* What LinesCoded says of the places of the code.                           *)
LEMMA Places ==
  ASSUME UnitInv, NEW i \in Lines, NEW g, NEW P, LinesCoded(g, P, i)
  PROVE  /\ P \in [1..i -> Nat \ {0}] /\ i \in Nat
         /\ \A j \in 1..i : P[j] \in Nat \ {0} /\ j \in Lines /\ P[j] <= P[i] /\ Size(j) \in Nat
         /\ \A j \in 1..(i - 1) : P[j] + Size(j) <= P[i] /\ P[j] + Size(j) <= P[j + 1] /\ j + 1 \in 1..i /\ P[j + 1] <= P[i]
<1>1. P \in [1..i -> Nat \ {0}] /\ i \in Nat /\ Lines = 1..Len(unit) /\ Len(unit) \in Nat
  BY UnitTypes DEF UnitInv, LinesCoded
<1>2. \A j \in 1..i : \A k \in (j + 1)..i : P[j] + Size(j) <= P[k]
  BY DEF LinesCoded
<1>3. ASSUME NEW j \in 1..i PROVE P[j] \in Nat \ {0} /\ j \in Lines /\ P[j] <= P[i] /\ Size(j) \in Nat
  <2>1. P[j] \in Nat \ {0} /\ j \in Lines /\ P[i] \in Nat
    BY <1>1
  <2>2. Size(j) \in Nat
    BY <2>1, SizeIs
  <2>3. j = i \/ i \in (j + 1)..i
    BY <1>1
  <2>4. j = i \/ P[j] + Size(j) <= P[i]
    BY <1>2, <2>3
  <2> QED BY <2>1, <2>2, <2>4
<1>4. ASSUME NEW j \in 1..(i - 1) PROVE P[j] + Size(j) <= P[i] /\ P[j] + Size(j) <= P[j + 1] /\ j + 1 \in 1..i /\ P[j + 1] <= P[i]
  <2>1. j \in 1..i /\ i \in (j + 1)..i /\ j + 1 \in (j + 1)..i /\ j + 1 \in 1..i
    BY <1>1
  <2> QED BY <1>2, <1>3, <2>1
<1> QED BY <1>1, <1>3, <1>4

(* The ends of loops stay in line if each of them stays.                    *)
LEMMA ChainedKept ==
  ASSUME NEW c, NEW d, NEW P, NEW t, NEW R, NEW w, Chained(c, P, t, R, w),
         \A x \in R : EndAt(d, P, x) = EndAt(c, P, x) /\ LoopEnd(d, P, x)
  PROVE  Chained(d, P, t, R, w)
<1> PICK E, F, q : /\ E = [x \in R |-> EndAt(c, P, x)] /\ F = [x \in R |-> LoopEnd(c, P, x)] /\ q = P[t] + Size(t)
  OBVIOUS
<1>1. \A x \in R : E[x] = EndAt(c, P, x) /\ E[x] = EndAt(d, P, x)
  OBVIOUS
<1>2. /\ R = {} => w = q
      /\ \A x \in R : /\ q <= E[x] /\ E[x] + 3 <= w
                      /\ (\A e \in R : e <= x) => E[x] = q
                      /\ (\A e \in R : x <= e) => E[x] + 3 = w
                      /\ \A e \in R : e < x /\ (\A f \in R : f <= e \/ x <= f) => E[e] = E[x] + 3
  BY <1>1 DEF Chained
<1> QED BY <1>1, <1>2 DEF Chained

(* The ends of the loops in R stay where they are.                           *)
LEMMA LoopEndsKept ==
  ASSUME UnitInv, NEW i \in Lines, NEW c \in Seq(InstrType), NEW d, NEW P, NEW t \in 1..i, NEW R, NEW v \in Nat, NEW w \in Nat, v <= w,
         w <= Len(c) + 1, P \in [1..i -> Nat \ {0}], Fixes(i, c, d, w), Chained(c, P, t, R, v),
         P[t] \in Nat, Size(t) \in Nat,
         \A x \in R : x \in 1..i /\ unit[x].k = "do" /\ x \notin DoHeads(i) /\ P[x] + 3 <= w /\ StatementCode(c, x, P[x])
  PROVE  Chained(d, P, t, R, v)
<1> SUFFICES ASSUME NEW x \in R PROVE EndAt(d, P, x) = EndAt(c, P, x) /\ LoopEnd(d, P, x)
  BY ChainedKept
<1> DEFINE p == P[x]
           e == EndAt(c, P, x)
<1>1. p \in Nat \ {0} /\ p + 3 <= w /\ unit[x].k = "do" /\ x \notin DoHeads(i)
  BY DEF UnitInv
<1>2. /\ c[p + 1] = [Instr("count", x) EXCEPT !.loc = c[p + 1].loc]
      /\ Same(c[p + 2], Instr("goto", x))
  BY <1>1 DEF StatementCode, CodeOf
<1>3. /\ c[p + 2].op = "goto" /\ c[p + 2].line = x /\ c[p + 1].op = "count"
  <2>1. PICK l : c[p + 1] = [Instr("count", x) EXCEPT !.loc = l]
    BY <1>2
  <2>2. c[p + 1].op = "count"
    BY ONLY <2>1, Fields
  <2> QED BY ONLY <1>2, <2>2, SameIs
<1>4. \A q \in 1..(w - 1) : Same(d[q], c[q]) /\ (d[q] # c[q] => Fixable(i, c[q]))
  BY DEF Fixes
<1>5. d[p + 1] = c[p + 1] /\ d[p + 2] = c[p + 2]
  <2>1. p + 1 \in 1..(w - 1) /\ p + 2 \in 1..(w - 1)
    <3>1. PICK y \in Nat \ {0} : y = P[x] /\ y + 3 <= w
      BY <1>1
    <3>2. w \in Nat
      OBVIOUS
    <3>3. y + 1 \in 1..(w - 1) /\ y + 2 \in 1..(w - 1)
      BY ONLY <3>1, <3>2
    <3> QED BY ONLY <3>1, <3>3
  <2>2. ~ Fixable(i, c[p + 1])
    BY <1>3, FixableIs
  <2>3. ~ Fixable(i, c[p + 2])
    BY <1>1, <1>3 DEF Fixable, Jumps
  <2> QED BY <1>4, <2>1, <2>2, <2>3
<1>6. EndAt(d, P, x) = e
  BY <1>5 DEF EndAt
<1>7. e \in Int
  <2>1. p + 2 \in 1..Len(c)
    BY <1>1
  <2>2. c[p + 2] \in InstrType
    BY <2>1
  <2>3. PICK y \in Nat : y = c[p + 2].to
    BY <2>2 DEF InstrType
  <2>4. e = y - 2
    BY <2>3 DEF EndAt
  <2>5. y - 2 \in Int
    OBVIOUS
  <2> QED BY ONLY <2>4, <2>5
<1>8. LoopEnd(c, P, x) /\ P[t] + Size(t) <= e /\ e + 3 <= v
  BY DEF Chained
<1>9. /\ c[e].op = "incr" /\ c[e + 1].op = "dec" /\ c[e + 2].op = "ifgt"
  <2>1. PICK l, m : /\ c[e] = Instr("incr", x) /\ c[e + 1] = [Instr("dec", x) EXCEPT !.loc = l]
                    /\ c[e + 2] = [Instr("ifgt", x) EXCEPT !.loc = l, !.to = m]
    <3>1. PICK l, m : l = c[P[x] + 1].loc /\ m = P[x] + 3
      OBVIOUS
    <3>2. /\ c[e] = Instr("incr", x) /\ c[e + 1] = [Instr("dec", x) EXCEPT !.loc = c[P[x] + 1].loc]
          /\ c[e + 2] = [Instr("ifgt", x) EXCEPT !.loc = c[P[x] + 1].loc, !.to = P[x] + 3]
      BY <1>8, Zenon DEF LoopEnd
    <3> QED BY <3>1, <3>2, Zenon
  <2> QED BY ONLY <2>1, Fields
<1>10. d[e] = c[e] /\ d[e + 1] = c[e + 1] /\ d[e + 2] = c[e + 2]
  <2>0. PICK u, n, y : u = P[t] /\ n = Size(t) /\ y = e
    OBVIOUS
  <2>1. e \in 1..(w - 1) /\ e + 1 \in 1..(w - 1) /\ e + 2 \in 1..(w - 1)
    <3>1. u \in Nat \ {0} /\ n \in Nat /\ y \in Int /\ u + n <= y /\ y + 3 <= v
      BY <1>7, <1>8, <2>0, UnitTypes DEF UnitInv
    <3>2. w \in Nat /\ v \in Nat /\ v <= w
      OBVIOUS
    <3>3. y \in 1..(w - 1) /\ y + 1 \in 1..(w - 1) /\ y + 2 \in 1..(w - 1)
      BY ONLY <3>1, <3>2
    <3> QED BY <2>0, <3>3
  <2>2. ~ Fixable(i, c[e]) /\ ~ Fixable(i, c[e + 1]) /\ ~ Fixable(i, c[e + 2])
    BY <1>9, FixableIs
  <2> QED BY <1>4, <2>1, <2>2
<1>11. LoopEnd(d, P, x)
  BY <1>5, <1>6, <1>8, <1>10 DEF LoopEnd
<1> QED BY <1>6, <1>11

(* Instructions that are appended.                                           *)
LEMMA CodeAt ==
  ASSUME NEW g \in GenType
  PROVE  /\ g.code \in Seq(InstrType) /\ Len(g.code) \in Nat /\ Where(g) \in Nat \ {0}
         /\ Solid(g.code) \in Seq(InstrType) /\ Len(Solid(g.code)) = Where(g) - 1
         /\ \A q \in 1..(Where(g) - 1) : Solid(g.code)[q] = g.code[q] /\ g.code[q] \in InstrType /\ q \in 1..Len(g.code)
         /\ Where(g) <= Len(g.code) + 1 /\ Len(g.code) <= Where(g)
         /\ Where(g) = Len(g.code) => g.code # <<>> /\ Last(g.code).op = "unused"
         /\ g.code # <<>> /\ Last(g.code).op # "unused" => Where(g) = Len(g.code) + 1
         /\ g.code # <<>> /\ Last(g.code).op = "unused" => Where(g) = Len(g.code)
<1> PICK c \in Seq(InstrType) : c = g.code
  BY DEF GenType
<1>1. Len(c) \in Nat
  OBVIOUS
<1>2. CASE c # <<>> /\ Last(c).op = "unused"
  <2>1. Len(c) - 1 \in 0..Len(c) /\ Len(c) > 0
    BY <1>1, <1>2
  <2>2. Solid(c) = SubSeq(c, 1, Len(c) - 1)
    BY <1>2 DEF Solid, Front
  <2>3. /\ Solid(c) \in Seq(InstrType) /\ Len(Solid(c)) = Len(c) - 1
        /\ \A q \in 1..(Len(c) - 1) : Solid(c)[q] = c[q]
    BY <2>1, <2>2, Prefix
  <2>4. \A q \in 1..(Len(c) - 1) : c[q] \in InstrType
    BY <2>1
  <2> QED BY <1>1, <1>2, <2>1, <2>3, <2>4 DEF Where
<1>3. CASE ~ (c # <<>> /\ Last(c).op = "unused")
  <2>1. Solid(c) = c
    BY <1>3 DEF Solid
  <2>2. \A q \in 1..Len(c) : c[q] \in InstrType
    OBVIOUS
  <2> QED BY <1>1, <1>3, <2>1, <2>2 DEF Where
<1> QED BY <1>2, <1>3

Appended(g, h, s, w, n) ==
  /\ h \in GenType /\ h.code \in Seq(InstrType) /\ Len(h.code) = w - 1 + n /\ w \in Nat \ {0}
  /\ Len(g.code) <= Len(h.code)
  /\ \A q \in 1..(w - 1) : h.code[q] = g.code[q]
  /\ \A k \in 1..n : h.code[w - 1 + k] = s[k]
  /\ h.code # <<>> /\ Last(h.code) = s[n]
  /\ s[n].op = "unused" => Where(h) = w - 1 + n
  /\ s[n].op # "unused" => Where(h) = w + n
  /\ h.labels = g.labels /\ h.loops = g.loops /\ h.blocks = g.blocks /\ h.next = g.next /\ h.max = g.max
  /\ h.line = g.line /\ h.range = g.range

(* What bc_append does to the code.                                         *)
LEMMA CodePuts ==
  ASSUME NEW g \in GenType, NEW s \in Seq(InstrType), NEW h, h = Puts(g, s), NEW w, w = Where(g), NEW n \in Nat \ {0}, n = Len(s)
  PROVE  Appended(g, h, s, w, n)
<1>1. PICK c : c = Solid(g.code)
  OBVIOUS
<1>2. c \in Seq(InstrType) /\ Len(c) = w - 1 /\ w \in Nat \ {0} /\ \A q \in 1..(w - 1) : c[q] = g.code[q]
  BY <1>1, CodeAt
<1>3. h = [g EXCEPT !.code = c \o s]
  BY <1>1 DEF Puts
<1>4. PICK d : d = c \o s
  OBVIOUS
<1>5. /\ d \in Seq(InstrType) /\ Len(d) = w - 1 + n /\ \A k \in 1..(w - 1) : d[k] = c[k]
      /\ \A k \in 1..n : d[w - 1 + k] = s[k]
  <2>1. /\ d \in Seq(InstrType) /\ Len(d) = Len(c) + Len(s) /\ \A k \in 1..Len(c) : d[k] = c[k]
        /\ \A k \in 1..Len(s) : d[Len(c) + k] = s[k]
    <3>1. c \in Seq(InstrType) /\ s \in Seq(InstrType)
      BY <1>2
    <3> QED BY ONLY <3>1, <1>4, Joined
  <2>2. Len(c) = w - 1 /\ Len(s) = n
    BY <1>2
  <2> QED BY ONLY <2>1, <2>2
<1>6. h \in GenType /\ h.code = d /\ h.labels = g.labels /\ h.loops = g.loops /\ h.blocks = g.blocks /\ h.next = g.next
      /\ h.max = g.max /\ h.line = g.line /\ h.range = g.range
  BY <1>3, <1>4, <1>5 DEF GenType
<1>7. d # <<>> /\ Last(d) = s[n]
  <2>1. n \in 1..n /\ w - 1 + n > 0
    BY <1>2
  <2>2. Last(d) = d[w - 1 + n]
    BY <1>5 DEF Last
  <2>3. d # <<>>
    BY <1>5, <2>1
  <2> QED BY <1>5, <2>1, <2>2, <2>3
<1>8. Len(g.code) <= w
  BY CodeAt
<1>9. /\ s[n].op = "unused" => Where(h) = w - 1 + n
      /\ s[n].op # "unused" => Where(h) = w + n
  <2>1. /\ s[n].op = "unused" => Where(h) = Len(d)
        /\ s[n].op # "unused" => Where(h) = Len(d) + 1
    BY <1>6, <1>7, CodeAt
  <2> QED BY <1>2, <1>5, <2>1
<1>10. Len(g.code) <= Len(d)
  <2>1. PICK m \in Nat : m = Len(g.code)
    BY CodeAt
  <2>2. m <= w /\ w \in Nat /\ n \in Nat \ {0}
    BY <1>2, <1>8, <2>1
  <2>3. m <= w - 1 + n
    BY ONLY <2>1, <2>2
  <2> QED BY <1>5, <2>1, <2>3
<1> QED BY <1>2, <1>5, <1>6, <1>7, <1>9, <1>10 DEF Appended

(* What an instruction that keeps its place needs to stay right.             *)
LEMMA SoundAfter ==
  ASSUME NEW g, NEW h \in GenType, Sound(g), h.max <= MaxLocal, h.next <= h.max, h.labels = g.labels,
         Len(g.code) <= Len(h.code), NEW w, w = Where(g),
         \A p \in 1..(w - 1) :
           /\ Same(h.code[p], g.code[p])
           /\ h.code[p].to = g.code[p].to \/ (g.code[p].lab = 0 /\ h.code[p].to \in 1..Len(h.code))
           /\ Waits(g, p) => Waits(h, p) \/ g.code[p].lab # 0 \/ h.code[p].to \in 1..Len(h.code),
         \A p \in w..(Where(h) - 1) : InstrOK(h, p)
  PROVE  Sound(h)
<1>1. g \in GenType /\ \A p \in 1..(w - 1) : InstrOK(g, p)
  BY DEF Sound
<1>2. Len(g.code) \in Nat /\ Len(h.code) \in Nat /\ w \in Nat \ {0} /\ Where(h) \in Nat
  BY <1>1, CodeAt
<1>3. ASSUME NEW p \in 1..(Where(h) - 1) PROVE InstrOK(h, p)
  <2>1. CASE p \in 1..(w - 1)
    <3>1. PICK x, y : x = g.code[p] /\ y = h.code[p]
      OBVIOUS
    <3>2. y = [x EXCEPT !.to = y.to] /\ x \in InstrType
      BY <1>1, <2>1, <3>1, CodeAt DEF Same
    <3>3. y.op = x.op /\ y.line = x.line /\ y.lab = x.lab /\ y.loc = x.loc /\ y.wide = x.wide
      BY <3>2 DEF InstrType
    <3>4. /\ y.to = x.to \/ (x.lab = 0 /\ y.to \in 1..Len(h.code))
          /\ Waits(g, p) => Waits(h, p) \/ x.lab # 0 \/ y.to \in 1..Len(h.code)
      BY <2>1, <3>1
    <3>5. /\ x.op # "unused" /\ x.line \in Lines
          /\ x.op \in Branches => \/ Waits(g, p) /\ x.lab = 0
                                  \/ x.lab = 0 /\ x.to \in 1..Len(g.code)
                                  \/ x.op = "goto" /\ x.lab \in ToSet(Chosen(x.line)) /\ unit[x.line].k \notin {"do", "end"}
          /\ x.loc < MaxLocal /\ (x.wide => x.loc + 1 < MaxLocal)
      BY <1>1, <2>1, <3>1 DEF InstrOK
    <3>6. x.to \in 1..Len(g.code) => x.to \in 1..Len(h.code)
      <4>1. Len(g.code) <= Len(h.code)
        OBVIOUS
      <4> QED BY ONLY <1>2, <4>1
    <3>7. y.op \in Branches => \/ Waits(h, p) /\ y.lab = 0
                               \/ y.lab = 0 /\ y.to \in 1..Len(h.code)
                               \/ y.op = "goto" /\ y.lab \in ToSet(Chosen(y.line)) /\ unit[y.line].k \notin {"do", "end"}
      BY <3>3, <3>4, <3>5, <3>6
    <3> QED BY <3>1, <3>3, <3>5, <3>7 DEF InstrOK
  <2>2. CASE p \in w..(Where(h) - 1)
    BY <2>2
  <2> QED BY <1>2, <2>1, <2>2
<1>4. ASSUME NEW l \in DOMAIN h.labels PROVE l # 0 /\ h.labels[l] \in 1..Len(h.code)
  <2>1. l # 0 /\ h.labels[l] \in 1..Len(g.code)
    BY DEF Sound
  <2> QED BY <1>2, <2>1
<1> QED BY <1>3, <1>4 DEF Sound

(* The loops and blocks that are open, as a set.                             *)
Entries(i) == {Open(i)[m] : m \in 1..Len(Open(i))}

(* What is open, as a set.                                                  *)
LEMMA EntriesAre ==
  ASSUME UnitInv, NEW i \in 1..(Len(unit) + 1)
  PROVE  /\ \A e \in Entries(i) : /\ e \in Entry /\ e.head \in 1..e.arm /\ e.arm \in 1..(i - 1) /\ e.head \in Lines /\ e.arm \in Lines
                                  /\ e.head < i /\ e.head # i /\ e.head \in Nat /\ e.arm \in Nat
                                  /\ unit[e.head].k \in {"do", "if"} /\ Latest(e, i)
                                  /\ unit[e.head].k = "if" => /\ HeadOf(e.arm) = e.head /\ unit[e.arm].k \in {"if", "elseif", "else"}
                                                              /\ (unit[e.arm].k = "if" => e.arm = e.head)
                                                              /\ (unit[e.arm].k # "if" => unit[e.arm].of = e.head)
         /\ \A e, f \in Entries(i) : e.head = f.head => e = f
         /\ DoHeads(i) = {e.head : e \in {f \in Entries(i) : unit[f.head].k = "do"}}
         /\ IfEntries(i) = {e \in Entries(i) : unit[e.head].k = "if"}
<1>1. Lines = 1..Len(unit) /\ Len(unit) \in Nat /\ Open(i) \in Seq(Entry) /\ Len(Open(i)) \in Nat
  BY UnitTypes DEF UnitInv
<1>2. /\ \A m \in 1..Len(Open(i)) : /\ Open(i)[m].head \in 1..Open(i)[m].arm /\ Open(i)[m].arm \in 1..(i - 1)
                                    /\ unit[Open(i)[m].head].k \in {"do", "if"}
      /\ \A m, n \in 1..Len(Open(i)) : Open(i)[n].head = Open(i)[m].head => m = n
  BY HeadsRise
<1>3. \A m \in 1..Len(Open(i)) : OpenOK(Open(i), m) /\ Latest(Open(i)[m], i)
  BY DEF UnitInv, Stacks, StackOK
<1> PICK s : s = Open(i)
  OBVIOUS
<1>4. ASSUME NEW e \in Entries(i)
      PROVE  /\ e \in Entry /\ e.head \in 1..e.arm /\ e.arm \in 1..(i - 1) /\ e.head \in Lines /\ e.arm \in Lines
             /\ e.head < i /\ e.head # i /\ e.head \in Nat /\ e.arm \in Nat
             /\ unit[e.head].k \in {"do", "if"} /\ Latest(e, i)
             /\ unit[e.head].k = "if" => /\ HeadOf(e.arm) = e.head /\ unit[e.arm].k \in {"if", "elseif", "else"}
                                         /\ (unit[e.arm].k = "if" => e.arm = e.head)
                                         /\ (unit[e.arm].k # "if" => unit[e.arm].of = e.head)
  <2>1. PICK m \in 1..Len(s) : e = s[m]
    BY DEF Entries
  <2>2. e \in Entry /\ e.head \in 1..e.arm /\ e.arm \in 1..(i - 1) /\ unit[e.head].k \in {"do", "if"} /\ Latest(e, i)
    BY <1>1, <1>2, <1>3, <2>1
  <2>3. PICK h, a : h = e.head /\ a = e.arm
    OBVIOUS
  <2>4. h \in Nat /\ a \in Nat
    BY <2>2, <2>3 DEF Entry
  <2>5. h < i /\ h # i /\ h \in Lines /\ a \in Lines
    BY <1>1, <2>2, <2>3, <2>4
  <2>6. unit[h].k = "if" => (a = h \/ (unit[a].k \in {"elseif", "else"} /\ unit[a].of = h))
    BY <1>3, <2>1, <2>3 DEF OpenOK
  <2>7. unit[h].k = "if" => /\ HeadOf(a) = h /\ unit[a].k \in {"if", "elseif", "else"}
                            /\ (unit[a].k = "if" => a = h) /\ (unit[a].k # "if" => unit[a].of = h)
    BY <2>6 DEF HeadOf
  <2> QED BY <2>2, <2>3, <2>4, <2>5, <2>7
<1>5. ASSUME NEW e \in Entries(i), NEW f \in Entries(i), e.head = f.head PROVE e = f
  <2>1. PICK m \in 1..Len(s) : e = s[m]
    BY DEF Entries
  <2>2. PICK n \in 1..Len(s) : f = s[n]
    BY DEF Entries
  <2> QED BY <1>2, <1>5, <2>1, <2>2
<1>6. DoHeads(i) = {e.head : e \in {f \in Entries(i) : unit[f.head].k = "do"}}
  <2>1. \A d : d \in DoHeads(i) <=> d \in Lines /\ unit[d].k = "do" /\ \E m \in 1..Len(s) : s[m].head = d
    BY DEF DoHeads
  <2>2. \A d : d \in {e.head : e \in {f \in Entries(i) : unit[f.head].k = "do"}} <=> \E e \in Entries(i) : unit[e.head].k = "do" /\ e.head = d
    OBVIOUS
  <2>3. \A e : e \in Entries(i) <=> \E m \in 1..Len(s) : e = s[m]
    BY DEF Entries
  <2> QED BY <1>4, <2>1, <2>2, <2>3
<1>7. IfEntries(i) = {e \in Entries(i) : unit[e.head].k = "if"}
  BY DEF IfEntries, Entries
<1> QED BY <1>4, <1>5, <1>6, <1>7

(* What a line opens and closes, as sets.                                    *)
Opened(i) == [head |-> IF unit[i].k \in {"do", "if"} THEN i ELSE unit[i].of, arm |-> i]
(* What is open after a line.                                               *)
LEMMA EntriesAfter ==
  ASSUME UnitInv, NEW i \in Lines, NEW k, k = unit[i].k
  PROVE  /\ k \in {"do", "if"} => Entries(i + 1) = Entries(i) \cup {Opened(i)}
         /\ k \in Arms => \E e \in Entries(i) :
              /\ e.head = unit[i].of /\ unit[e.head].k = "if" /\ (unit[e.arm].k # "else" \/ k = "endif")
              /\ \A f \in Entries(i) : f # e => f.head < e.head
              /\ Entries(i + 1) = (Entries(i) \ {e}) \cup {x \in {Opened(i)} : k # "endif"}
         /\ k \notin Openers \cup {"endif"} =>
              /\ Entries(i + 1) = {e \in Entries(i) : e.head \notin Ends(i)}
              /\ \A d \in Ends(i) : (\E e \in Entries(i) : e.head = d) /\ \A e \in Entries(i) : e.head >= d => e.head \in Ends(i)
<1>1. /\ Lines = 1..Len(unit) /\ Len(unit) \in Nat /\ i \in 1..(Len(unit) + 1) /\ i + 1 \in 1..(Len(unit) + 1) /\ unit[i].of \in Nat
      /\ Open(i) \in Seq(Entry) /\ Len(Open(i)) \in Nat /\ Open(i + 1) \in Seq(Entry)
  BY UnitTypes DEF UnitInv
<1>2. Follows(i)
  BY DEF UnitInv, Openings
<1> PICK s, t : s = Open(i) /\ t = Open(i + 1)
  OBVIOUS
<1>3. \A e : /\ e \in Entries(i) <=> \E m \in 1..Len(s) : e = s[m]
             /\ e \in Entries(i + 1) <=> \E m \in 1..Len(t) : e = t[m]
  BY DEF Entries
<1>4. /\ \A m \in 1..Len(s) : s[m].head \in Nat
      /\ \A m \in 1..Len(s) : \A n \in 1..(m - 1) : s[n].head < s[m].head
      /\ \A m, n \in 1..Len(s) : s[n].head = s[m].head => m = n
  <2>1. \A m \in 1..Len(s) : s[m] \in Entry
    BY <1>1
  <2>2. /\ \A m \in 1..Len(s) : \A n \in 1..(m - 1) : s[n].head < s[m].head
        /\ \A m, n \in 1..Len(s) : s[n].head = s[m].head => m = n
    BY <1>1, HeadsRise
  <2> QED BY <2>1, <2>2 DEF Entry
<1>5. CASE k \in {"do", "if"}
  <2>1. t = Append(s, Opened(i)) /\ Opened(i) \in Entry
    BY <1>1, <1>2, <1>5 DEF Follows, Opened, Entry
  <2>2. Len(t) = Len(s) + 1 /\ (\A m \in 1..Len(s) : t[m] = s[m]) /\ t[Len(s) + 1] = Opened(i)
    BY <1>1, <2>1, Added
  <2>3. Entries(i + 1) = Entries(i) \cup {Opened(i)}
    <3>0. PICK l \in Nat : l = Len(s)
      BY <1>1
    <3>1. \A m : m \in 1..Len(t) <=> m \in 1..Len(s) \/ m = Len(s) + 1
      <4>1. \A m : m \in 1..(l + 1) <=> m \in 1..l \/ m = l + 1
        OBVIOUS
      <4> QED BY <2>2, <3>0, <4>1, Zenon
    <3>2. \A e : e \in Entries(i + 1) <=> e \in Entries(i) \/ e = Opened(i)
      BY <1>3, <2>2, <3>1
    <3> QED BY <3>2
  <2> QED BY <1>5, <2>3 DEF Arms, Openers
<1>6. CASE k \in Arms
  <2>1. s # <<>> /\ unit[i].of = Last(s).head /\ unit[unit[i].of].k = "if" /\ (k = "endif" \/ unit[Last(s).arm].k # "else")
    BY <1>2, <1>6 DEF Follows, Continues, Arms
  <2>2. PICK l \in Nat \ {0} : l = Len(s)
    BY <1>1, <2>1
  <2>3. PICK e : e = s[l] /\ e = Last(s) /\ e \in Entries(i)
    BY <1>3, <2>2 DEF Last
  <2>4. Front(s) = SubSeq(s, 1, l - 1) /\ l - 1 \in 0..Len(s)
    BY <2>2 DEF Front
  <2>5. PICK r : r = Front(s) /\ r \in Seq(Entry) /\ Len(r) = l - 1 /\ \A m \in 1..(l - 1) : r[m] = s[m]
    BY <1>1, <2>4, Prefix
  <2>6. \A f : f \in Entries(i) <=> f = e \/ \E m \in 1..(l - 1) : f = r[m]
    <3>1. \A m : m \in 1..Len(s) <=> m \in 1..(l - 1) \/ m = l
      BY <2>2
    <3>2. e = s[l] /\ \A m \in 1..(l - 1) : r[m] = s[m]
      BY <2>3, <2>5
    <3>3. \A f : f \in Entries(i) <=> \E m \in 1..Len(s) : f = s[m]
      BY <1>3
    <3> QED BY ONLY <3>1, <3>2, <3>3, Zenon
  <2>7. \A m \in 1..(l - 1) : r[m].head < e.head /\ r[m] # e
    <3>1. l \in 1..Len(s) /\ \A m \in 1..(l - 1) : r[m] = s[m] /\ s[m].head < s[l].head /\ s[m].head \in Nat
      BY <1>4, <2>2, <2>5
    <3>2. s[l].head \in Nat /\ \A m \in 1..(l - 1) : r[m].head < s[l].head /\ r[m].head \in Nat
      BY <1>4, <3>1
    <3>3. \A x \in Nat : ~ (x < x)
      OBVIOUS
    <3> QED BY <2>3, <3>2, <3>3
  <2>8. Entries(i + 1) = (Entries(i) \ {e}) \cup {x \in {Opened(i)} : k # "endif"}
    <3>1. CASE k = "endif"
      <4>1. t = r
        BY <1>2, <2>5, <3>1 DEF Follows
      <4> QED BY <1>3, <2>5, <2>6, <2>7, <3>1, <4>1
    <3>2. CASE k \in {"elseif", "else"}
      <4>1. t = Append(r, Opened(i)) /\ Opened(i) \in Entry
        <5>1. t = Append(r, [head |-> unit[i].of, arm |-> i])
          BY <1>2, <2>5, <3>2 DEF Follows
        <5>2. Opened(i) = [head |-> unit[i].of, arm |-> i]
          BY <1>2, <3>2 DEF Opened
        <5>3. i \in Nat /\ unit[i].of \in Nat
          BY <1>1
        <5> QED BY ONLY <5>1, <5>2, <5>3 DEF Entry
      <4>2. Len(t) = l /\ (\A m \in 1..(l - 1) : t[m] = r[m]) /\ t[l] = Opened(i)
        BY <2>2, <2>5, <4>1, Added
      <4>3. \A f : f \in Entries(i + 1) <=> f = Opened(i) \/ \E m \in 1..(l - 1) : f = r[m]
        BY <1>3, <2>2, <4>2
      <4> QED BY <2>6, <2>7, <3>2, <4>3
    <3> QED BY <1>6, <3>1, <3>2 DEF Arms
  <2>9. \A f \in Entries(i) : f # e => f.head < e.head
    BY <2>6, <2>7
  <2> QED BY <1>6, <2>1, <2>3, <2>8, <2>9 DEF Arms, Openers
<1>7. CASE k \notin Openers \cup {"endif"}
  <2>1. PICK n \in 0..Len(s) : t = SubSeq(s, 1, n) /\ Ends(i) = {s[m].head : m \in (n + 1)..Len(s)}
    BY <1>2, <1>7 DEF Follows
  <2>2. Len(t) = n /\ \A m \in 1..n : t[m] = s[m]
    BY <1>1, <2>1, Prefix
  <2>3. \A m \in 1..Len(s) : s[m].head \in Ends(i) <=> m > n
    BY <1>1, <1>4, <2>1
  <2>4. Entries(i + 1) = {e \in Entries(i) : e.head \notin Ends(i)}
    <3>1. \A m : m \in 1..n <=> m \in 1..Len(s) /\ ~ (m > n)
      BY <1>1
    <3> QED BY <1>3, <2>2, <2>3, <3>1
  <2>5. ASSUME NEW d \in Ends(i)
        PROVE  (\E e \in Entries(i) : e.head = d) /\ \A e \in Entries(i) : e.head >= d => e.head \in Ends(i)
    <3>1. PICK m \in (n + 1)..Len(s) : s[m].head = d
      BY <2>1
    <3>2. m \in 1..Len(s) /\ m > n
      BY <1>1, <3>1
    <3>3. ASSUME NEW e \in Entries(i), e.head >= d PROVE e.head \in Ends(i)
      <4>1. PICK x \in 1..Len(s) : e = s[x]
        BY <1>3
      <4>2. ~ (x \in 1..(m - 1))
        BY <1>4, <3>1, <3>2, <3>3, <4>1
      <4>3. x > n
        BY <1>1, <3>2, <4>1, <4>2
      <4> QED BY <2>3, <4>1, <4>3
    <3> QED BY <1>3, <3>1, <3>2, <3>3
  <2> QED BY <1>7, <2>4, <2>5 DEF Arms, Openers
<1> QED BY <1>5, <1>6, <1>7 DEF Openers, Arms

(* The loops that are open after a line.                                    *)
LEMMA HeadsAfter ==
  ASSUME UnitInv, NEW i \in Lines
  PROVE  /\ DoHeads(i + 1) = LoopsAt(i) \ Ends(i)
         /\ Ends(i) \subseteq DoHeads(i) /\ i \notin Ends(i) /\ i \notin DoHeads(i)
         /\ \A d \in Ends(i) : \A e \in DoHeads(i) : e >= d => e \in Ends(i)
         /\ unit[i].k \in Openers \cup {"endif"} => Ends(i) = {}
<1>1. /\ Lines = 1..Len(unit) /\ Len(unit) \in Nat /\ i \in 1..(Len(unit) + 1) /\ i + 1 \in 1..(Len(unit) + 1) /\ unit[i].of \in Nat
  BY UnitTypes DEF UnitInv
<1> PICK k : k = unit[i].k
  OBVIOUS
<1>2. /\ DoHeads(i) = {e.head : e \in {f \in Entries(i) : unit[f.head].k = "do"}}
      /\ DoHeads(i + 1) = {e.head : e \in {f \in Entries(i + 1) : unit[f.head].k = "do"}}
      /\ \A e \in Entries(i) : e.head \in Lines /\ e.head # i
  BY <1>1, EntriesAre
<1>3. \A d : d \in Ends(i) => unit[d].k = "do" /\ d \in Lines
  BY DEF Ends
<1>4. \A d : /\ d \in DoHeads(i) <=> \E e \in Entries(i) : e.head = d /\ unit[d].k = "do"
             /\ d \in DoHeads(i + 1) <=> \E e \in Entries(i + 1) : e.head = d /\ unit[d].k = "do"
  BY <1>2
<1>5. Follows(i)
  BY DEF UnitInv, Openings
<1>6. k \in Openers \cup {"endif"} => Ends(i) = {}
  BY <1>5 DEF Follows
<1>7. CASE k \in {"do", "if"}
  <2>1. Entries(i + 1) = Entries(i) \cup {Opened(i)} /\ Opened(i).head = i
    BY <1>7, EntriesAfter DEF Opened
  <2>2. Ends(i) = {}
    BY <1>6, <1>7 DEF Openers
  <2>3. \A d : d \in DoHeads(i + 1) <=> d \in DoHeads(i) \/ (d = i /\ k = "do")
    BY <1>4, <2>1
  <2>4. DoHeads(i + 1) = LoopsAt(i) \ Ends(i)
    BY <2>2, <2>3 DEF LoopsAt
  <2> QED BY <1>2, <1>4, <2>2, <2>4
<1>8. CASE k \in Arms
  <2>1. PICK e \in Entries(i) : /\ e.head = unit[i].of /\ unit[e.head].k = "if"
                                /\ Entries(i + 1) = (Entries(i) \ {e}) \cup {x \in {Opened(i)} : k # "endif"}
    BY <1>8, EntriesAfter
  <2>2. Opened(i).head = unit[i].of
    BY <1>8 DEF Opened, Arms
  <2>3. k = "enddo" \/ Ends(i) = {}
    BY <1>6, <1>8 DEF Arms, Openers
  <2>4. \A d : d \in DoHeads(i + 1) <=> d \in DoHeads(i)
    BY <1>4, <2>1, <2>2
  <2>5. LoopsAt(i) = DoHeads(i) /\ Ends(i) = {}
    BY <1>8, <2>3 DEF LoopsAt, Arms
  <2> QED BY <1>2, <1>4, <2>4, <2>5
<1>9. CASE k \notin Openers \cup {"endif"}
  <2>1. /\ Entries(i + 1) = {e \in Entries(i) : e.head \notin Ends(i)}
        /\ \A d \in Ends(i) : (\E e \in Entries(i) : e.head = d) /\ \A e \in Entries(i) : e.head >= d => e.head \in Ends(i)
    BY <1>9, EntriesAfter
  <2>2. LoopsAt(i) = DoHeads(i)
    BY <1>9 DEF LoopsAt, Openers
  <2>3. \A d : d \in DoHeads(i + 1) <=> d \in DoHeads(i) /\ d \notin Ends(i)
    BY <1>4, <2>1
  <2>4. \A d \in Ends(i) : d \in DoHeads(i) /\ \A e \in DoHeads(i) : e >= d => e \in Ends(i)
    BY <1>3, <1>4, <2>1
  <2> QED BY <1>2, <1>4, <1>9, <2>2, <2>3, <2>4
<1> QED BY <1>7, <1>8, <1>9 DEF Openers, Arms

(* The blocks that are open after a line.                                   *)
LEMMA IfsAfter ==
  ASSUME UnitInv, NEW i \in Lines, NEW k, k = unit[i].k
  PROVE  /\ k \notin {"if"} \cup Arms => IfEntries(i + 1) = IfEntries(i)
         /\ k = "if" => IfEntries(i + 1) = IfEntries(i) \cup {[head |-> i, arm |-> i]}
         /\ k \in Arms => \E e \in IfEntries(i) :
              /\ e.head = unit[i].of /\ NextOne(e.arm, i) /\ (unit[e.arm].k # "else" \/ k = "endif")
              /\ \A f \in IfEntries(i) : f # e => f.head < e.head
              /\ IfEntries(i + 1) = (IfEntries(i) \ {e}) \cup {x \in {[head |-> unit[i].of, arm |-> i]} : k # "endif"}
<1>1. /\ Lines = 1..Len(unit) /\ Len(unit) \in Nat /\ i \in 1..(Len(unit) + 1) /\ i + 1 \in 1..(Len(unit) + 1) /\ unit[i].of \in Nat
      /\ k \in Kinds
  BY UnitTypes DEF UnitInv
<1>2. /\ \A e : e \in IfEntries(i) <=> e \in Entries(i) /\ unit[e.head].k = "if"
      /\ \A e : e \in IfEntries(i + 1) <=> e \in Entries(i + 1) /\ unit[e.head].k = "if"
      /\ \A e \in Entries(i) : e.head \in Lines /\ e.head # i
  <2>1. /\ IfEntries(i) = {e \in Entries(i) : unit[e.head].k = "if"}
        /\ IfEntries(i + 1) = {e \in Entries(i + 1) : unit[e.head].k = "if"}
        /\ \A e \in Entries(i) : e.head \in Lines /\ e.head # i
    BY <1>1, EntriesAre
  <2> QED BY <2>1
<1>3. CASE k \in {"do", "if"}
  <2>1. Entries(i + 1) = Entries(i) \cup {Opened(i)} /\ Opened(i).head = i /\ Opened(i) = [head |-> i, arm |-> i]
    BY <1>3, EntriesAfter DEF Opened
  <2>2. \A e : e \in IfEntries(i + 1) <=> e \in IfEntries(i) \/ (k = "if" /\ e = Opened(i))
    BY <1>2, <1>3, <2>1
  <2>3. k = "if" => IfEntries(i + 1) = IfEntries(i) \cup {Opened(i)}
    BY <2>2
  <2>4. k = "do" => IfEntries(i + 1) = IfEntries(i)
    BY <2>2
  <2> QED BY <1>3, <2>1, <2>3, <2>4 DEF Arms
<1>4. CASE k \in Arms
  <2>1. PICK e \in Entries(i) : /\ e.head = unit[i].of /\ unit[e.head].k = "if" /\ (unit[e.arm].k # "else" \/ k = "endif")
                                /\ \A f \in Entries(i) : f # e => f.head < e.head
                                /\ Entries(i + 1) = (Entries(i) \ {e}) \cup {x \in {Opened(i)} : k # "endif"}
    BY <1>4, EntriesAfter
  <2>2. Opened(i) = [head |-> unit[i].of, arm |-> i] /\ Opened(i).head = unit[i].of
    BY <1>4 DEF Opened, Arms
  <2>3. \A f : f \in IfEntries(i + 1) <=> (f \in IfEntries(i) /\ f # e) \/ (f = Opened(i) /\ k # "endif")
    BY <1>2, <2>1, <2>2
  <2>4. IfEntries(i + 1) = (IfEntries(i) \ {e}) \cup {x \in {Opened(i)} : k # "endif"}
    BY <2>3
  <2>5. NextOne(e.arm, i)
    <3>1. e.arm \in 1..(i - 1) /\ Latest(e, i) /\ HeadOf(e.arm) = e.head
      BY <1>1, <2>1, EntriesAre
    <3>2. \A m \in (e.arm + 1)..(i - 1) : unit[m].of # e.head
      <4> SUFFICES ASSUME NEW m \in (e.arm + 1)..(i - 1), unit[m].of = e.head PROVE FALSE
        OBVIOUS
      <4>0. PICK a \in 1..(i - 1) : a = e.arm
        BY <3>1
      <4>1. m \in Lines /\ m < i /\ ~ (m <= e.arm)
        <5>1. m \in (a + 1)..(i - 1)
          BY <4>0
        <5> QED BY <1>1, <4>0, <5>1
      <4> QED BY <2>1, <3>1, <4>1 DEF Latest
    <3> QED BY <1>1, <2>1, <3>1, <3>2 DEF NextOne
  <2>6. e \in IfEntries(i) /\ \A f \in IfEntries(i) : f # e => f.head < e.head
    BY <1>2, <2>1
  <2> QED BY <1>4, <2>1, <2>2, <2>4, <2>5, <2>6 DEF Arms
<1>5. CASE k \notin Openers \cup {"endif"}
  <2>1. Entries(i + 1) = {e \in Entries(i) : e.head \notin Ends(i)}
    BY <1>5, EntriesAfter
  <2>2. \A d \in Ends(i) : unit[d].k = "do"
    BY DEF Ends
  <2>3. \A e : e \in IfEntries(i + 1) <=> e \in IfEntries(i)
    BY <1>2, <2>1, <2>2
  <2>4. IfEntries(i + 1) = IfEntries(i)
    BY <2>3
  <2> QED BY <1>5, <2>4 DEF Arms, Openers
<1> QED BY <1>3, <1>4, <1>5 DEF Openers, Arms

(* Statements that leave the stacks of the generator alone.                  *)
LEMMA BlocksStay ==
  ASSUME UnitInv, NEW i \in Lines, unit[i].k \notin {"if"} \cup Arms, NEW g, NEW h, NEW P, BlockStack(g, P, i), h.blocks = g.blocks
  PROVE  BlockStack(h, P, i + 1)
<1>1. IfEntries(i + 1) = IfEntries(i)
  BY IfsAfter
<1>2. Lines = 1..Len(unit) /\ Len(unit) \in Nat
  BY UnitTypes DEF UnitInv
<1>3. ASSUME NEW e \in IfEntries(i), NEW b, BlockIs(P, i, e, b) PROVE BlockIs(P, i + 1, e, b)
  <2>1. \A y \in Lines : Jumps(y) => (y < i + 1 <=> y < i)
    <3>1. ~ Jumps(i)
      BY DEF Jumps, Arms
    <3> QED BY <1>2, <3>1
  <2>2. Leaves(e.head, i + 1) = Leaves(e.head, i)
    BY <2>1 DEF Leaves
  <2> QED BY <1>3, <2>2 DEF BlockIs
<1> QED BY <1>1, <1>3 DEF BlockStack

(* The stack of loops depends on the code by the counts only.               *)
LEMMA LoopsStay ==
  ASSUME NEW g, NEW h, NEW P, NEW D, LoopStack(g, P, D), h.loops = g.loops, h.next = g.next,
         \A d \in D : h.code[P[d] + 1].loc = g.code[P[d] + 1].loc
  PROVE  LoopStack(h, P, D)
<1> PICK s : s = g.loops
  OBVIOUS
<1>1. /\ h.next = Len(s)
      /\ \A d \in D : \E m \in 1..Len(s) : s[m].line = d
      /\ \A m \in 1..Len(s) : /\ s[m].line \in D /\ \A q \in 1..(m - 1) : s[q].line < s[m].line
                              /\ s[m].label = unit[s[m].line].to[1] /\ s[m].loc = m - 1 /\ s[m].goto = P[s[m].line] + 2
  BY DEF LoopStack
<1>2. \A m \in 1..Len(s) : g.code[P[s[m].line] + 1].loc = m - 1
  BY DEF LoopStack
<1>3. ASSUME NEW m \in 1..Len(s) PROVE h.code[P[s[m].line] + 1].loc = m - 1
  <2>1. PICK d : d = s[m].line
    OBVIOUS
  <2>2. d \in D /\ g.code[P[d] + 1].loc = m - 1
    BY <1>1, <1>2, <2>1
  <2>3. h.code[P[d] + 1].loc = g.code[P[d] + 1].loc
    BY <2>2
  <2> QED BY ONLY <2>1, <2>2, <2>3
<1>4. h.loops = s
  OBVIOUS
<1> QED BY ONLY <1>1, <1>3, <1>4 DEF LoopStack

(* A line that is no arm of a block closes no arm.                          *)
LEMMA NoArm ==
  ASSUME UnitInv, NEW i \in Lines, unit[i].k \notin Arms, NEW c, NEW P, NEW w
  PROVE  ArmsClosed(c, P, i, w)
<1>1. i - 1 + 1 = i /\ unit[i].k # "endif"
  BY UnitTypes DEF UnitInv, Arms
<1>2. ~ Jumps(i) /\ ~ Empty(i - 1)
  BY <1>1 DEF Jumps, Empty, Arms
<1> QED BY <1>1, <1>2 DEF ArmsClosed

(* A statement that touches no stack only appends its code.                 *)
LEMMA PlainPart ==
  ASSUME UnitInv, NEW i \in Lines, unit[i].k \notin {"do", "if"} \cup Arms, NEW g, NEW P, Translated(g, P, i),
         NEW h \in GenType, Where(h) = P[i] + Size(i), Len(g.code) <= Len(h.code),
         \A q \in 1..(P[i] - 1) : h.code[q] = g.code[q],
         StatementCode(h.code, i, P[i]), LocalsOK(h.code, P, i), \A p \in P[i]..(P[i] + Size(i) - 1) : InstrOK(h, p),
         h.loops = g.loops, h.blocks = g.blocks, h.next = g.next, h.labels = g.labels, h.max <= MaxLocal, h.next <= h.max,
         h.code # <<>> /\ Last(h.code).op = "return" => unit[i].k = "return" \/ Empty(i)
  PROVE  Part(g, h, P, i, {})
<1>1. /\ Sound(g) /\ LinesCoded(g, P, i) /\ P[i] = Where(g) /\ LoopStack(g, P, DoHeads(i)) /\ BlockStack(g, P, i) /\ g \in GenType
  BY DEF Translated, Sound
<1>2. /\ P \in [1..i -> Nat \ {0}] /\ P[i] \in Nat /\ Size(i) \in Nat /\ i \in 1..(Len(unit) + 1) /\ i \in Nat
      /\ \A j \in 1..(i - 1) : P[j] + Size(j) <= P[i] /\ P[j] \in Nat \ {0}
  BY <1>1, Places, UnitTypes DEF UnitInv
<1>3. \A p \in 1..(Where(g) - 1) : g.code[p] \in InstrType
  BY <1>1, CodeAt
<1>4. Sound(h)
  <2>1. \A p \in 1..(Where(g) - 1) : /\ Same(h.code[p], g.code[p]) /\ h.code[p].to = g.code[p].to
                                     /\ Waits(g, p) => Waits(h, p)
    <3>1. \A x \in InstrType : Same(x, x)
      BY DEF Same, InstrType
    <3>2. \A p : Waits(g, p) => Waits(h, p)
      BY DEF Waits
    <3> QED BY <1>1, <1>3, <3>1, <3>2
  <2>2. ASSUME NEW p \in Where(g)..(Where(h) - 1) PROVE InstrOK(h, p)
    <3>1. Where(g) = P[i] /\ Where(h) = P[i] + Size(i)
      BY <1>1
    <3>2. PICK x, y : x = Where(g) /\ y = Where(h) /\ p \in x..(y - 1)
      OBVIOUS
    <3>3. p \in P[i]..(P[i] + Size(i) - 1)
      BY <1>2, <3>1, <3>2
    <3> QED BY <3>3
  <2> QED BY <1>1, <2>1, <2>2, SoundAfter
<1>5. Fixes(i, g.code, h.code, P[i])
  <2>1. \A x \in InstrType : Same(x, x)
    BY DEF Same, InstrType
  <2> QED BY <1>1, <1>3, <2>1 DEF Fixes
<1>6. Chained(h.code, P, i, {}, Where(h))
  BY DEF Chained
<1>7. LoopStack(h, P, LoopsAt(i) \ {})
  <2>1. LoopsAt(i) \ {} = DoHeads(i)
    BY DEF LoopsAt
  <2>2. \A d \in DoHeads(i) : P[d] + 1 \in 1..(P[i] - 1)
    <3>1. \A d \in DoHeads(i) : d \in 1..(i - 1) /\ Size(d) = 3
      BY <1>2, DoHeadsIs, SizeIs
    <3>2. ASSUME NEW d \in DoHeads(i) PROVE P[d] + 1 \in 1..(P[i] - 1)
      <4>1. P[d] + 3 <= P[i] /\ P[d] \in Nat \ {0} /\ P[i] \in Nat
        BY <1>2, <3>1
      <4> QED BY <4>1
    <3> QED BY <3>2
  <2>3. \A d \in DoHeads(i) : h.code[P[d] + 1].loc = g.code[P[d] + 1].loc
    BY <2>2
  <2> QED BY <1>1, <2>1, <2>3, LoopsStay
<1>8. BlockStack(h, P, i + 1)
  BY <1>1, BlocksStay
<1>9. unit[i].k # "endif"
  BY DEF Arms
<1>10. P[i] + Size(i) <= Where(h)
  BY <1>2
<1>11. ArmsClosed(h.code, P, i, Where(h))
  BY NoArm
<1> QED BY <1>4, <1>5, <1>6, <1>7, <1>8, <1>9, <1>10, <1>11 DEF Part

(* Instructions of a line.                                                   *)
LEMMA Changed ==
  ASSUME NEW z \in InstrType
  PROVE  /\ \A x \in Nat : /\ [z EXCEPT !.to = x] \in InstrType /\ [z EXCEPT !.num = x] \in InstrType
                           /\ [z EXCEPT !.loc = x] \in InstrType
         /\ \A x \in Nat, y \in BOOLEAN : [z EXCEPT !.loc = x, !.wide = y] \in InstrType
         /\ \A x, y \in Nat : [z EXCEPT !.loc = x, !.to = y] \in InstrType
<1>1. ASSUME NEW x \in Nat PROVE [z EXCEPT !.to = x] \in InstrType /\ [z EXCEPT !.num = x] \in InstrType
  BY DEF InstrType
<1>2. ASSUME NEW x \in Nat PROVE [z EXCEPT !.loc = x] \in InstrType
  BY DEF InstrType
<1>3. ASSUME NEW x \in Nat, NEW y \in BOOLEAN PROVE [z EXCEPT !.loc = x, !.wide = y] \in InstrType
  BY DEF InstrType
<1>4. ASSUME NEW x \in Nat, NEW y \in Nat PROVE [z EXCEPT !.loc = x, !.to = y] \in InstrType
  BY DEF InstrType
<1> QED BY <1>1, <1>2, <1>3, <1>4, Zenon

(* Changing three fields keeps it as well.                                  *)
LEMMA Changed3 ==
  ASSUME NEW z \in InstrType, NEW x \in Nat, NEW y \in Nat, NEW v \in Nat
  PROVE  [z EXCEPT !.loc = x, !.num = y, !.to = v] \in InstrType
BY DEF InstrType

(* The instructions that the generator makes are typed.                     *)
LEMMA InstrTypes ==
  ASSUME NEW j \in Nat
  PROVE  /\ \A op \in Ops : op # "unused" => Instr(op, j) \in InstrType
         /\ \A l \in Nat : Goto(j, l) \in InstrType
<1>1. \A op \in Ops : op # "unused" => Instr(op, j) \in InstrType
  BY DEF Instr, InstrType
<1>2. ASSUME NEW l \in Nat PROVE Goto(j, l) \in InstrType
  BY DEF Goto, Instr, InstrType, Ops
<1> QED BY <1>1, <1>2

(* So is the placeholder.                                                   *)
LEMMA HoleIs == Hole \in InstrType /\ Hole.op = "unused"
BY DEF Hole, Instr, InstrType, Ops

(* Numbers of lines, and which line is the last one.                        *)
LEMMA LineIs ==
  ASSUME UnitInv, phase # "read", NEW i \in Lines
  PROVE  /\ i \in Nat \ {0} /\ MaxLocal \in Nat \ {0} /\ i <= Len(unit) /\ Len(unit) \in Nat /\ Lines = 1..Len(unit)
         /\ Len(unit) <= MaxLocal
         /\ unit[i].k # "end" => i < Len(unit) /\ i + 1 \in Lines
         /\ unit[i].k = "end" <=> i = Len(unit)
         /\ Len(unit) \in Lines /\ unit[Len(unit)].k = "end"
<1>1. Lines = 1..Len(unit) /\ Len(unit) \in Nat /\ Len(unit) <= MaxLines
  BY UnitTypes DEF UnitInv, UnitType
<1>2. unit[Len(unit)].k = "end"
  BY DEF UnitInv, Complete
<1>3. unit[i].k = "end" => i = Len(unit)
  BY DEF UnitInv, OneEnd
<1> QED BY <1>1, <1>2, <1>3

(* A statement for which no code is generated.                               *)
LEMMA NothingPart ==
  ASSUME UnitInv, NEW i \in Lines, unit[i].k \in {"continue", "enddo"}, NEW g, NEW P, Translated(g, P, i),
         ~ (g.code # <<>> /\ Last(g.code).op = "return")
  PROVE  Part(g, g, P, i, {})
<1>1. /\ Sound(g) /\ LinesCoded(g, P, i) /\ P[i] = Where(g) /\ g \in GenType /\ g.max <= MaxLocal /\ g.next <= g.max
  BY DEF Translated, Sound
<1>2. P[i] \in Nat \ {0} /\ Size(i) = 0
  BY <1>1, Places, SizeIs, UnitTypes DEF UnitInv
<1>3. StatementCode(g.code, i, P[i]) /\ LocalsOK(g.code, P, i)
  <2>1. PICK c, p, k : c = g.code /\ p = P[i] /\ k = unit[i].k /\ k \in {"continue", "enddo"}
    OBVIOUS
  <2>2. StatementCode(c, i, p)
    <3>1. k \notin {"do", "work", "return", "stop", "goto", "assign", "lifwork", "lifgoto", "cgoto", "agoto", "aif", "aifwide",
                   "if", "elseif", "else"}
      BY <2>1
    <3> QED BY ONLY <2>1, <3>1, Zenon DEF StatementCode, CodeOf
  <2>3. LocalsOK(c, P, i)
    BY <2>1 DEF LocalsOK
  <2> QED BY <2>1, <2>2, <2>3
<1>4. \A p \in P[i]..(P[i] + Size(i) - 1) : InstrOK(g, p)
  BY <1>2
<1>5. Len(g.code) <= Len(g.code)
  BY <1>1, CodeAt
<1>6. Where(g) = P[i] + Size(i)
  BY <1>1, <1>2
<1>7. unit[i].k \notin {"do", "if"} \cup Arms
  BY DEF Arms
<1> QED BY <1>1, <1>3, <1>4, <1>5, <1>6, <1>7, PlainPart

(* One instruction.                                                          *)
LEMMA OnePart ==
  ASSUME UnitInv, phase # "read", NEW i \in Lines, NEW g, NEW P, Translated(g, P, i),
         NEW k, k = unit[i].k, k \in {"work", "return", "stop", "goto", "assign"}
  PROVE  Part(g, Statement(g, i), P, i, {})
<1>1. /\ Sound(g) /\ LinesCoded(g, P, i) /\ P[i] = Where(g) /\ g \in GenType /\ g.max <= MaxLocal /\ g.next <= g.max
  BY DEF Translated, Sound
<1>2. P[i] \in Nat \ {0} /\ Size(i) = 1
  BY <1>1, Places, SizeIs, UnitTypes DEF UnitInv
<1>0. k \in {"work", "return", "stop", "goto", "assign"}
  OBVIOUS
<1>3. PICK l : l = unit[i].to[1]
  OBVIOUS
<1>4. k \in {"goto", "assign"} => l \in Nat /\ Len(unit[i].to) = 1 /\ unit[i].to \in Seq(Nat)
  <2>1. LabelsOK(i)
    BY DEF UnitInv, Labelling
  <2>2. k \in {"goto", "assign"} => Len(unit[i].to) = 1
    BY <2>1 DEF LabelsOK
  <2>3. unit[i].to \in Seq(Nat)
    BY UnitTypes DEF UnitInv
  <2> QED BY <1>3, <2>2, <2>3
<1>5. PICK x : x = CASE k = "goto" -> Goto(i, l) [] k = "assign" -> [Instr("assign", i) EXCEPT !.num = l]
                     [] k \in {"work", "return", "stop"} -> Instr(k, i)
  OBVIOUS
<1>6. PICK h : h = Puts(g, <<x>>)
  OBVIOUS
<1>7. h = Statement(g, i)
  BY <1>3, <1>5, <1>6 DEF Statement
<1>8. /\ x \in InstrType /\ x.op = k /\ x.line = i /\ x.loc = 0 /\ ~ x.wide
      /\ k = "goto" => x.lab = l
  <2>1. i \in Nat /\ k \in Ops
    BY LineIs DEF Ops
  <2>2. CASE k = "goto"
    <3>1. x = Goto(i, l) /\ l \in Nat
      BY <1>4, <1>5, <2>2
    <3>2. x \in InstrType
      BY <2>1, <3>1, InstrTypes
    <3> QED BY ONLY <2>2, <3>1, <3>2 DEF Goto, Instr
  <2>3. CASE k = "assign"
    <3>1. x = [Instr("assign", i) EXCEPT !.num = l] /\ l \in Nat
      BY <1>4, <1>5, <2>3
    <3>2. x \in InstrType
      <4>1. Instr("assign", i) \in InstrType
        BY <2>1, <2>3, InstrTypes
      <4> QED BY <3>1, <4>1, Changed, Zenon
    <3> QED BY ONLY <2>3, <3>1, <3>2 DEF Instr
  <2>4. CASE k \in {"work", "return", "stop"}
    <3>1. x = Instr(k, i)
      BY <1>5, <2>4
    <3>2. x \in InstrType
      BY <2>1, <2>4, <3>1, InstrTypes
    <3> QED BY ONLY <2>4, <3>1, <3>2 DEF Instr
  <2> QED BY <2>2, <2>3, <2>4
<1>9. /\ h \in GenType /\ Len(g.code) <= Len(h.code) /\ Where(h) = P[i] + 1
      /\ \A q \in 1..(P[i] - 1) : h.code[q] = g.code[q]
      /\ h.code[P[i]] = x /\ Last(h.code) = x
      /\ h.labels = g.labels /\ h.loops = g.loops /\ h.blocks = g.blocks /\ h.next = g.next /\ h.max = g.max
  <2>1. <<x>> \in Seq(InstrType) /\ Len(<<x>>) = 1 /\ <<x>>[1] = x /\ 1 \in Nat \ {0}
    BY <1>8
  <2>2. PICK s : s = <<x>>
    OBVIOUS
  <2>3. s \in Seq(InstrType) /\ 1 = Len(s) /\ s[1] = x
    BY <2>1, <2>2
  <2>4. PICK w : w = P[i] /\ w = Where(g)
    BY <1>1
  <2>5. /\ h \in GenType /\ Len(g.code) <= Len(h.code)
        /\ \A q \in 1..(w - 1) : h.code[q] = g.code[q]
        /\ \A m \in 1..1 : h.code[w - 1 + m] = s[m]
        /\ h.code # <<>> /\ Last(h.code) = s[1]
        /\ s[1].op # "unused" => Where(h) = w + 1
        /\ h.labels = g.labels /\ h.loops = g.loops /\ h.blocks = g.blocks /\ h.next = g.next /\ h.max = g.max
    <3>1. PICK n \in Nat \ {0} : n = 1
      OBVIOUS
    <3>2. h = Puts(g, s) /\ n = Len(s) /\ w = Where(g)
      BY <1>6, <2>2, <2>3, <2>4, <3>1
    <3>3. Appended(g, h, s, w, n)
      BY <1>1, <2>3, <3>2, CodePuts
    <3> QED BY <3>1, <3>3 DEF Appended
  <2>6. w - 1 + 1 = w /\ 1 \in 1..1
    BY <1>2, <2>4
  <2>7. h.code[w] = x
    BY <2>3, <2>5, <2>6
  <2>8. x.op # "unused"
    BY <1>8
  <2> QED BY <2>3, <2>4, <2>5, <2>7, <2>8
<1>10. StatementCode(h.code, i, P[i]) /\ LocalsOK(h.code, P, i)
  <2>1. LocalsOK(h.code, P, i)
    BY DEF LocalsOK
  <2>2. StatementCode(h.code, i, P[i])
    <3>1. /\ k = "goto" => h.code[P[i]] = Goto(i, unit[i].to[1])
          /\ k = "assign" => h.code[P[i]] = [Instr("assign", i) EXCEPT !.num = unit[i].to[1]]
          /\ k \in {"work", "return", "stop"} => h.code[P[i]] = Instr(k, i)
      BY <1>3, <1>5, <1>9
    <3>2. PICK c, p, kk, to : c = h.code /\ p = P[i] /\ kk = unit[i].k /\ to = unit[i].to
      OBVIOUS
    <3>3. kk = k
      BY <3>2
    <3> QED BY ONLY <3>1, <3>2, <3>3, <1>0, Zenon DEF StatementCode, CodeOf
  <2> QED BY <2>1, <2>2
<1>11. \A p \in P[i]..(P[i] + Size(i) - 1) : InstrOK(h, p)
  <2>1. \A p \in P[i]..(P[i] + Size(i) - 1) : p = P[i]
    BY <1>2
  <2>2. x.loc < MaxLocal
    BY <1>8, LineIs
  <2>3. k = "goto" => l \in ToSet(Chosen(i))
    BY <1>3, <1>4 DEF Chosen, ToSet
  <2>4. k \in Branches => k = "goto"
    BY DEF Branches
  <2>5. InstrOK(h, P[i])
    BY <1>8, <1>9, <2>2, <2>3, <2>4 DEF InstrOK
  <2> QED BY <2>1, <2>5
<1>12. Last(h.code).op = "return" => unit[i].k = "return"
  BY <1>8, <1>9
<1>13. unit[i].k \notin {"do", "if"} \cup Arms
  BY DEF Arms
<1>14. Where(h) = P[i] + Size(i)
  BY <1>2, <1>9
<1>15. Part(g, h, P, i, {})
  BY <1>1, <1>9, <1>10, <1>11, <1>12, <1>13, <1>14, PlainPart
<1> QED BY <1>7, <1>15

(* One branch is set.                                                        *)
Fixed(g, h, q, x) ==
  /\ h \in GenType /\ Len(h.code) = Len(g.code) /\ h.code \in Seq(InstrType) /\ g.code[q] \in InstrType
  /\ \A p \in 1..Len(g.code) : p # q => h.code[p] = g.code[p]
  /\ h.code[q] = [g.code[q] EXCEPT !.to = x] /\ Same(h.code[q], g.code[q]) /\ h.code[q].to = x
  /\ \A p \in 1..Len(g.code) : h.code[p].op = g.code[p].op
  /\ Where(h) = Where(g) /\ h.code # <<>> /\ Last(h.code).op = Last(g.code).op
  /\ h.labels = g.labels /\ h.loops = g.loops /\ h.blocks = g.blocks /\ h.next = g.next /\ h.max = g.max
  /\ h.line = g.line /\ h.range = g.range

(* Setting one branch.                                                      *)
LEMMA CodeFixed ==
  ASSUME NEW g \in GenType, NEW q \in 1..Len(g.code), NEW x \in Nat, NEW h, h = [g EXCEPT !.code[q].to = x]
  PROVE  Fixed(g, h, q, x)
<1>1. PICK c \in Seq(InstrType) : c = g.code
  BY DEF GenType
<1>2. PICK n \in Nat : n = Len(c) /\ q \in 1..n
  BY <1>1
<1>3. PICK d : d = [c EXCEPT ![q].to = x]
  OBVIOUS
<1>4. c[q] \in InstrType /\ DOMAIN c = 1..n
  BY <1>1, <1>2
<1>5. [c[q] EXCEPT !.to = x] \in InstrType
  BY <1>4, Changed, Zenon
<1>6. d \in Seq(InstrType) /\ Len(d) = n /\ d[q] = [c[q] EXCEPT !.to = x] /\ \A p \in 1..n : p # q => d[p] = c[p]
  BY <1>1, <1>2, <1>3, <1>4, <1>5
<1>7. h = [g EXCEPT !.code = d]
  BY <1>1, <1>3, <1>4 DEF GenType
<1>8. h \in GenType /\ h.code = d /\ h.labels = g.labels /\ h.loops = g.loops /\ h.blocks = g.blocks /\ h.next = g.next
      /\ h.max = g.max /\ h.line = g.line /\ h.range = g.range
  BY <1>6, <1>7 DEF GenType
<1>9. d[q].op = c[q].op /\ d[q].to = x /\ Same(d[q], c[q])
  BY <1>4, <1>6 DEF InstrType, Same
<1>10. \A p \in 1..n : d[p].op = c[p].op
  BY <1>6, <1>9
<1>11. d # <<>> /\ c # <<>> /\ Last(d).op = Last(c).op
  <2>1. n \in 1..n /\ d # <<>> /\ c # <<>>
    BY <1>2, <1>6
  <2> QED BY <1>2, <1>6, <1>10, <2>1 DEF Last
<1>12. Where(h) = Where(g)
  <2>1. CASE Last(c).op = "unused"
    <3>1. Where(h) = Len(d) /\ Where(g) = Len(c)
      BY <1>1, <1>8, <1>11, <2>1, CodeAt
    <3> QED BY <1>2, <1>6, <3>1
  <2>2. CASE Last(c).op # "unused"
    <3>1. Where(h) = Len(d) + 1 /\ Where(g) = Len(c) + 1
      BY <1>1, <1>8, <1>11, <2>2, CodeAt
    <3> QED BY <1>2, <1>6, <3>1
  <2> QED BY <2>1, <2>2
<1>13. h.code \in Seq(InstrType) /\ Len(h.code) = Len(g.code) /\ \A p \in 1..Len(g.code) : p # q => h.code[p] = g.code[p]
  BY <1>1, <1>2, <1>6, <1>8
<1>14. h.code[q] = [g.code[q] EXCEPT !.to = x]
  BY <1>1, <1>6, <1>8, Zenon
<1>15. \A p \in 1..Len(g.code) : h.code[p].op = g.code[p].op
  BY <1>1, <1>2, <1>8, <1>10
<1> QED BY <1>1, <1>4, <1>6, <1>8, <1>9, <1>11, <1>12, <1>13, <1>14, <1>15 DEF Fixed

(* A logical IF.                                                             *)
LEMMA LogicalIfPart ==
  ASSUME UnitInv, phase # "read", NEW i \in Lines, NEW g, NEW P, Translated(g, P, i),
         NEW k, k = unit[i].k, k \in {"lifwork", "lifgoto"}
  PROVE  Part(g, Statement(g, i), P, i, {})
<1>1. /\ Sound(g) /\ LinesCoded(g, P, i) /\ P[i] = Where(g) /\ g \in GenType /\ g.max <= MaxLocal /\ g.next <= g.max
  BY DEF Translated, Sound
<1>2. P[i] \in Nat \ {0} /\ Size(i) = 2
  BY <1>1, Places, SizeIs, UnitTypes DEF UnitInv
<1>3. PICK l : l = unit[i].to[1]
  OBVIOUS
<1>4. k = "lifgoto" => l \in Nat /\ Len(unit[i].to) = 1 /\ unit[i].to \in Seq(Nat)
  <2>1. LabelsOK(i)
    BY DEF UnitInv, Labelling
  <2>2. k = "lifgoto" => Len(unit[i].to) = 1
    BY <2>1 DEF LabelsOK
  <2>3. unit[i].to \in Seq(Nat)
    BY UnitTypes DEF UnitInv
  <2> QED BY <1>3, <2>2, <2>3
<1>5. PICK y : y = IF k = "lifgoto" THEN Goto(i, l) ELSE Instr("work", i)
  OBVIOUS
<1>6. PICK x, s, f : x = Instr("test", i) /\ s = <<x, y, Hole>> /\ f = Puts(g, s)
  OBVIOUS
<1>7. PICK w : w = P[i] /\ w = Where(g) /\ w \in Nat \ {0}
  BY <1>1, <1>2
<1>8. PICK h : h = [f EXCEPT !.code[w].to = Len(f.code)]
  OBVIOUS
<1>9. h = Statement(g, i)
  <2>1. h = LogicalIf(g, i, y)
    BY <1>6, <1>7, <1>8 DEF LogicalIf
  <2>2. CASE k = "lifgoto"
    BY <1>3, <1>5, <2>1, <2>2 DEF Statement
  <2>3. CASE k = "lifwork"
    BY <1>5, <2>1, <2>3 DEF Statement
  <2> QED BY <2>2, <2>3
<1>10. i \in Nat /\ x \in InstrType /\ x.op = "test" /\ x.line = i /\ x.lab = 0 /\ x.loc = 0 /\ ~ x.wide
  <2>1. i \in Nat /\ "test" \in Ops
    BY LineIs DEF Ops
  <2>2. x \in InstrType
    BY <1>6, <2>1, InstrTypes
  <2> QED BY <1>6, <2>1, <2>2 DEF Instr
<1>11. /\ y \in InstrType /\ y.op \in {"goto", "work"} /\ y.line = i /\ y.loc = 0 /\ ~ y.wide
       /\ y.op = "goto" => y.lab = l /\ k = "lifgoto"
  <2>1. CASE k = "lifgoto"
    <3>1. y = Goto(i, l) /\ l \in Nat
      BY <1>4, <1>5, <2>1
    <3>2. y \in InstrType
      BY <1>10, <3>1, InstrTypes
    <3> QED BY ONLY <2>1, <3>1, <3>2 DEF Goto, Instr
  <2>2. CASE k = "lifwork"
    <3>1. y = Instr("work", i) /\ "work" \in Ops
      BY <1>5, <2>2 DEF Ops
    <3>2. y \in InstrType
      BY <1>10, <3>1, InstrTypes
    <3> QED BY ONLY <2>2, <3>1, <3>2 DEF Instr
  <2> QED BY <2>1, <2>2
<1>12. /\ f \in GenType /\ Len(f.code) = w + 2 /\ Len(g.code) <= Len(f.code) /\ Where(f) = w + 2
       /\ \A q \in 1..(w - 1) : f.code[q] = g.code[q]
       /\ f.code[w] = x /\ f.code[w + 1] = y /\ f.code[w + 2] = Hole /\ Last(f.code) = Hole
       /\ f.labels = g.labels /\ f.loops = g.loops /\ f.blocks = g.blocks /\ f.next = g.next /\ f.max = g.max
  <2>1. s \in Seq(InstrType) /\ Len(s) = 3 /\ s[1] = x /\ s[2] = y /\ s[3] = Hole
    BY <1>6, <1>10, <1>11, HoleIs
  <2>2. PICK n \in Nat \ {0} : n = 3
    OBVIOUS
  <2>3. n = Len(s) /\ f = Puts(g, s) /\ w = Where(g)
    BY <1>6, <1>7, <2>1, <2>2
  <2>4. Appended(g, f, s, w, n)
    BY <1>1, <2>1, <2>3, CodePuts
  <2>5. w - 1 + n = w + 2 /\ w - 1 + 1 = w /\ w - 1 + 2 = w + 1 /\ w - 1 + 3 = w + 2 /\ 1 \in 1..n /\ 2 \in 1..n /\ 3 \in 1..n
    BY <1>7, <2>2
  <2>6. f.code[w] = x /\ f.code[w + 1] = y /\ f.code[w + 2] = Hole
    BY <2>1, <2>4, <2>5 DEF Appended
  <2> QED BY <2>1, <2>2, <2>4, <2>5, <2>6, HoleIs DEF Appended
<1>13. /\ h \in GenType /\ Len(h.code) = w + 2 /\ Where(h) = w + 2
       /\ \A q \in 1..(w + 2) : q # w => h.code[q] = f.code[q]
       /\ h.code[w] = [x EXCEPT !.to = w + 2] /\ h.code # <<>> /\ Last(h.code).op = "unused"
       /\ h.labels = g.labels /\ h.loops = g.loops /\ h.blocks = g.blocks /\ h.next = g.next /\ h.max = g.max
  <2>1. w \in 1..Len(f.code) /\ Len(f.code) \in Nat
    BY <1>7, <1>12
  <2>2. Fixed(f, h, w, Len(f.code))
    BY <1>8, <1>12, <2>1, CodeFixed
  <2>3. h.code[w] = [f.code[w] EXCEPT !.to = Len(f.code)]
    BY <2>2 DEF Fixed
  <2>4. h.code[w] = [x EXCEPT !.to = w + 2]
    BY <1>12, <2>3, Zenon
  <2> QED BY <1>12, <2>2, <2>4, HoleIs DEF Fixed
<1>14. h.code[w + 1] = y /\ \A q \in 1..(w - 1) : h.code[q] = g.code[q]
  <2>1. w + 1 \in 1..(w + 2) /\ w + 1 # w /\ \A q \in 1..(w - 1) : q \in 1..(w + 2) /\ q # w
    BY <1>7
  <2> QED BY <1>12, <1>13, <2>1
<1>15. StatementCode(h.code, i, P[i]) /\ LocalsOK(h.code, P, i)
  <2>1. LocalsOK(h.code, P, i)
    BY DEF LocalsOK
  <2>2. PICK c, kk, to : c = h.code /\ kk = unit[i].k /\ to = unit[i].to /\ kk \in {"lifwork", "lifgoto"} /\ kk = k
    OBVIOUS
  <2>3. /\ c[w] = [Instr("test", i) EXCEPT !.to = w + 2]
        /\ c[w + 1] = IF kk = "lifwork" THEN Instr("work", i) ELSE Goto(i, to[1])
    <3>1. c[w] = [Instr("test", i) EXCEPT !.to = w + 2]
      BY <1>6, <1>13, <2>2, Zenon
    <3>2. c[w + 1] = IF kk = "lifwork" THEN Instr("work", i) ELSE Goto(i, to[1])
      BY <1>3, <1>5, <1>14, <2>2
    <3> QED BY <3>1, <3>2
  <2>4. StatementCode(c, i, w)
    BY ONLY <2>2, <2>3, Zenon DEF StatementCode, CodeOf
  <2> QED BY <1>7, <2>1, <2>2, <2>4
<1>16. \A p \in P[i]..(P[i] + Size(i) - 1) : InstrOK(h, p)
  <2>1. \A p \in P[i]..(P[i] + Size(i) - 1) : p = w \/ p = w + 1
    BY <1>2, <1>7
  <2>2. 0 < MaxLocal
    BY LineIs
  <2>3. k = "lifgoto" => l \in ToSet(Chosen(i))
    BY <1>3, <1>4 DEF Chosen, ToSet
  <2>4. InstrOK(h, w)
    <3>1. PICK z : z = h.code[w]
      OBVIOUS
    <3>2. z.op = "test" /\ z.line = i /\ z.lab = 0 /\ z.loc = 0 /\ ~ z.wide /\ z.to = w + 2
      BY <1>10, <1>13, <3>1 DEF InstrType
    <3>3. w + 2 \in 1..Len(h.code)
      BY <1>7, <1>13
    <3> QED BY <2>2, <3>1, <3>2, <3>3 DEF InstrOK
  <2>5. InstrOK(h, w + 1)
    <3>1. "work" \notin Branches
      BY DEF Branches
    <3> QED BY <1>11, <1>14, <2>2, <2>3, <3>1 DEF InstrOK
  <2> QED BY <2>1, <2>4, <2>5
<1>17. unit[i].k \notin {"do", "if"} \cup Arms
  BY DEF Arms
<1>18. Where(h) = P[i] + Size(i) /\ Len(g.code) <= Len(h.code) /\ \A q \in 1..(P[i] - 1) : h.code[q] = g.code[q]
  BY <1>2, <1>7, <1>12, <1>13, <1>14
<1>19. Part(g, h, P, i, {})
  BY <1>1, <1>13, <1>15, <1>16, <1>17, <1>18, PlainPart
<1> QED BY <1>9, <1>19

(* There are locals enough.                                                  *)
LEMMA LoopsFit ==
  ASSUME UnitInv, phase # "read", NEW i \in Lines, NEW g \in GenType, NEW P, LoopStack(g, P, DoHeads(i))
  PROVE  g.next \in Nat /\ g.next <= i - 1 /\ g.next = Len(g.loops) /\ g.max \in Nat
<1>1. i \in Nat \ {0} /\ i \in 1..(Len(unit) + 1)
  BY LineIs
<1> PICK s \in Seq(LoopType) : s = g.loops
  BY DEF GenType
<1>2. PICK n \in Nat : n = Len(s) /\ g.next = n
  BY DEF LoopStack
<1>3. \A m \in 1..n : s[m].line \in 1..(i - 1) /\ \A q \in 1..(m - 1) : s[q].line < s[m].line
  <2>1. \A m \in 1..n : s[m].line \in DoHeads(i) /\ \A q \in 1..(m - 1) : s[q].line < s[m].line
    BY <1>2 DEF LoopStack
  <2> QED BY <1>1, <2>1, DoHeadsIs
<1>4. \A m \in 0..n : m = 0 \/ m <= s[m].line
  <2> DEFINE Q == {m \in Nat : m \in 1..n => m <= s[m].line}
  <2>1. 0 \in Q
    OBVIOUS
  <2>2. ASSUME NEW m \in 1..n, m - 1 \in Q PROVE m \in Q
    <3>1. CASE m = 1
      BY <1>3, <3>1
    <3>2. CASE m > 1
      <4>1. m - 1 \in 1..n /\ m - 1 \in 1..(m - 1)
        BY <1>2, <3>2
      <4>2. m - 1 <= s[m - 1].line
        BY <2>2, <4>1
      <4>3. s[m - 1].line < s[m].line /\ s[m - 1].line \in 1..(i - 1) /\ s[m].line \in 1..(i - 1)
        BY <1>3, <4>1
      <4>4. PICK x, y \in Nat : x = s[m - 1].line /\ y = s[m].line
        BY <1>1, <4>3
      <4>5. m \in Nat /\ m - 1 <= x /\ x < y
        BY <1>2, <4>2, <4>3, <4>4
      <4>6. m <= y
        BY ONLY <4>4, <4>5
      <4> QED BY <1>2, <4>4, <4>6
    <3> QED BY <1>2, <3>1, <3>2
  <2> HIDE DEF Q
  <2>3. \A m \in 0..n : m \in Q
    BY <1>2, <2>1, <2>2, UpTo
  <2>4. ASSUME NEW m \in 0..n PROVE m = 0 \/ m <= s[m].line
    BY <1>2, <2>3 DEF Q
  <2> QED BY <2>4
<1>5. n <= i - 1
  <2>1. n = 0 \/ n \in 1..n
    BY <1>2
  <2>2. n = 0 \/ (n <= s[n].line /\ s[n].line <= i - 1 /\ s[n].line \in Nat)
    BY <1>1, <1>2, <1>3, <1>4, <2>1
  <2> QED BY <1>1, <1>2, <2>2
<1>6. g.max \in Nat
  BY DEF GenType
<1> QED BY <1>2, <1>5, <1>6

(* A local is taken and given back.                                          *)
Widened(g, h, n) ==
  /\ h \in GenType /\ h.code = g.code /\ h.labels = g.labels /\ h.loops = g.loops /\ h.blocks = g.blocks
  /\ h.line = g.line /\ h.range = g.range /\ h.next = g.next + n /\ h.max >= g.max /\ h.max >= h.next
  /\ \A m \in Nat : g.max <= m /\ h.next <= m => h.max <= m
(* What bc_get_next_local does.                                             *)
LEMMA LocalIsGot ==
  ASSUME NEW g \in GenType, NEW wide \in BOOLEAN, NEW h, h = GetLocal(g, wide), g.next <= g.max
  PROVE  Widened(g, h, Width(wide)) /\ Width(wide) \in {1, 2} /\ (Width(wide) = 2 <=> wide)
<1>1. PICK n : n = Width(wide)
  OBVIOUS
<1>2. n \in {1, 2} /\ (n = 2 <=> wide)
  BY <1>1 DEF Width
<1>3. PICK a \in Nat, b \in Nat : a = g.next /\ b = g.max
  BY DEF GenType
<1>4. PICK m : m = IF b < a + n THEN a + n ELSE b
  OBVIOUS
<1>5. h = [g EXCEPT !.next = a + n, !.max = m]
  <2>1. [g EXCEPT !.next = @ + Width(wide), !.max = IF @ < g.next + Width(wide) THEN g.next + Width(wide) ELSE @]
          = [g EXCEPT !.next = a + n, !.max = m]
    BY <1>1, <1>3, <1>4 DEF GenType
  <2> QED BY <2>1 DEF GetLocal
<1>6. m \in Nat /\ a + n \in Nat /\ m >= b /\ m >= a + n /\ \A x \in Nat : b <= x /\ a + n <= x => m <= x
  BY <1>2, <1>4
<1>7. /\ h \in GenType /\ h.code = g.code /\ h.labels = g.labels /\ h.loops = g.loops /\ h.blocks = g.blocks
      /\ h.line = g.line /\ h.range = g.range /\ h.next = a + n /\ h.max = m
  BY <1>5, <1>6 DEF GenType
<1> QED BY <1>1, <1>2, <1>3, <1>6, <1>7 DEF Widened

Narrowed(g, h, n) ==
  /\ h \in GenType /\ h.code = g.code /\ h.labels = g.labels /\ h.loops = g.loops /\ h.blocks = g.blocks
  /\ h.line = g.line /\ h.range = g.range /\ h.next = g.next - n /\ h.max = g.max /\ Where(h) = Where(g)
(* What bc_release_local does.                                              *)
LEMMA LocalIsReleased ==
  ASSUME NEW g \in GenType, NEW wide \in BOOLEAN, NEW h, h = ReleaseLocal(g, wide), Width(wide) <= g.next
  PROVE  Narrowed(g, h, Width(wide))
<1>1. PICK n : n = Width(wide)
  OBVIOUS
<1>2. n \in {1, 2}
  BY <1>1 DEF Width
<1>3. PICK a \in Nat : a = g.next
  BY DEF GenType
<1>4. h = [g EXCEPT !.next = a - n] /\ a - n \in Nat
  <2>1. [g EXCEPT !.next = @ - Width(wide)] = [g EXCEPT !.next = a - n]
    BY <1>1, <1>3 DEF GenType
  <2> QED BY <1>1, <1>2, <1>3, <2>1 DEF ReleaseLocal
<1>5. /\ h \in GenType /\ h.code = g.code /\ h.labels = g.labels /\ h.loops = g.loops /\ h.blocks = g.blocks
      /\ h.line = g.line /\ h.range = g.range /\ h.next = a - n /\ h.max = g.max
  BY <1>4 DEF GenType
<1> QED BY <1>1, <1>3, <1>5 DEF Narrowed, Where

(* The arithmetic of pairs of instructions.                                 *)
LEMMA Halves ==
  ASSUME NEW m \in Nat
  PROVE  /\ (2 * m) % 2 = 0 /\ (2 * m) \div 2 = m
         /\ (2 * m - 1) % 2 # 0 /\ (2 * m - 1 + 1) \div 2 = m
<1>1. (2 * m) % 2 = 0 /\ (2 * m) \div 2 = m
  OBVIOUS
<1>2. (2 * m - 1) % 2 # 0
  OBVIOUS
<1>3. 2 * m - 1 + 1 = 2 * m
  OBVIOUS
<1> QED BY <1>1, <1>2, <1>3

(* The tests and gotos of a computed or assigned GOTO.                       *)
GotosAre(s, i, loc, labels, nums, L, at) ==
  /\ s \in Seq(InstrType) /\ Len(s) = 2 * L /\ L \in Nat
  /\ \A m \in 1..L : /\ s[2 * m - 1] = [Instr("ifne", i) EXCEPT !.loc = loc, !.num = nums[m], !.to = at + 2 * m + 1]
                     /\ s[2 * m] = Goto(i, labels[m])
  /\ \A k \in 1..(2 * L) : \E m \in 1..L : k = 2 * m - 1 \/ k = 2 * m
(* The pairs of a test and a goto, one by one.                              *)
LEMMA IfEqualGotosAre ==
  ASSUME NEW i \in Nat, NEW loc \in Nat, NEW labels \in Seq(Nat), NEW nums \in Seq(Nat), NEW L, L = Len(labels), L = Len(nums), NEW at \in Nat,
         NEW s, s = IfEqualGotos(i, loc, nums, labels, at)
  PROVE  GotosAre(s, i, loc, labels, nums, L, at)
<1>1. L \in Nat
  OBVIOUS
<1>2. \A k \in 1..(2 * L) : \E m \in 1..L : k = 2 * m - 1 \/ k = 2 * m
  <2>1. ASSUME NEW k \in 1..(2 * L) PROVE \E m \in 1..L : k = 2 * m - 1 \/ k = 2 * m
    <3>1. PICK m : m = (k + 1) \div 2
      OBVIOUS
    <3>2. m \in Int /\ 2 * m <= k + 1 /\ k + 1 < 2 * m + 2
      BY <1>1, <3>1
    <3>3. m \in 1..L /\ (k = 2 * m - 1 \/ k = 2 * m)
      BY <1>1, <3>2
    <3> QED BY <3>3
  <2> QED BY <2>1
<1>3. /\ s = [k \in 1..(2 * L) |-> IF k % 2 = 0 THEN Goto(i, labels[k \div 2])
                                  ELSE [Instr("ifne", i) EXCEPT !.loc = loc, !.num = nums[(k + 1) \div 2], !.to = at + k + 2]]
  BY Zenon DEF IfEqualGotos
<1>4. ASSUME NEW m \in 1..L
      PROVE  /\ s[2 * m - 1] = [Instr("ifne", i) EXCEPT !.loc = loc, !.num = nums[m], !.to = at + 2 * m + 1]
             /\ s[2 * m] = Goto(i, labels[m])
  <2>1. m \in Nat /\ 2 * m - 1 \in 1..(2 * L) /\ 2 * m \in 1..(2 * L) /\ at + (2 * m - 1) + 2 = at + 2 * m + 1
    BY <1>1
  <2>2. /\ (2 * m) % 2 = 0 /\ (2 * m) \div 2 = m
        /\ (2 * m - 1) % 2 # 0 /\ (2 * m - 1 + 1) \div 2 = m
    BY <2>1, Halves
  <2>3. s[2 * m] = Goto(i, labels[(2 * m) \div 2])
    BY <1>3, <2>1, <2>2, Zenon
  <2>4. s[2 * m - 1] = [Instr("ifne", i) EXCEPT !.loc = loc, !.num = nums[(2 * m - 1 + 1) \div 2], !.to = at + (2 * m - 1) + 2]
    BY <1>3, <2>1, <2>2, Zenon
  <2> QED BY <2>1, <2>2, <2>3, <2>4, Zenon
<1>5. ASSUME NEW k \in 1..(2 * L) PROVE s[k] \in InstrType
  <2>1. PICK m \in 1..L : k = 2 * m - 1 \/ k = 2 * m
    BY <1>2
  <2>2. labels[m] \in Nat /\ nums[m] \in Nat /\ at + 2 * m + 1 \in Nat
    <3>1. m \in 1..Len(labels) /\ m \in 1..Len(nums)
      OBVIOUS
    <3>2. labels[m] \in Nat /\ nums[m] \in Nat
      BY <3>1, Element
    <3>3. at + 2 * m + 1 \in Nat
      BY <1>1
    <3> QED BY <3>2, <3>3
  <2>3. CASE k = 2 * m
    <3>1. PICK l \in Nat : l = labels[m]
      BY <2>2
    <3>2. s[k] = Goto(i, l)
      BY <1>4, <2>3, <3>1, Zenon
    <3> QED BY <3>1, <3>2, InstrTypes
  <2>4. CASE k = 2 * m - 1
    <3>1. Instr("ifne", i) \in InstrType
      BY InstrTypes DEF Ops
    <3>2. s[k] = [Instr("ifne", i) EXCEPT !.loc = loc, !.num = nums[m], !.to = at + 2 * m + 1]
      BY <1>4, <2>4, Zenon
    <3>3. PICK z, x, t : z = Instr("ifne", i) /\ x = nums[m] /\ t = at + 2 * m + 1
      OBVIOUS
    <3>4. s[k] = [z EXCEPT !.loc = loc, !.num = x, !.to = t] /\ z \in InstrType /\ x \in Nat /\ t \in Nat
      BY <2>2, <3>1, <3>2, <3>3, Zenon
    <3>5. [z EXCEPT !.loc = loc, !.num = x, !.to = t] \in InstrType
      BY <3>4, Changed3, Zenon
    <3> QED BY <3>4, <3>5, Zenon
  <2> QED BY <2>1, <2>3, <2>4
<1>6. s \in Seq(InstrType) /\ Len(s) = 2 * L
  <2>1. PICK n \in Nat : n = 2 * L
    BY <1>1
  <2>2. s \in [1..n -> InstrType]
    <3>1. DOMAIN s = 1..n /\ s = [k \in DOMAIN s |-> s[k]]
      BY <1>3, <2>1, Zenon
    <3>2. \A k \in 1..n : s[k] \in InstrType
      BY <1>5, <2>1
    <3> QED BY <3>1, <3>2
  <2>3. s \in Seq(InstrType) /\ Len(s) = n
    BY <2>2
  <2> QED BY <2>1, <2>3
<1> QED BY <1>1, <1>2, <1>4, <1>6, Zenon DEF GotosAre

(* A computed or assigned GOTO.                                              *)
LEMMA SelectPart ==
  ASSUME UnitInv, phase # "read", NEW i \in Lines, NEW g, NEW P, Translated(g, P, i),
         NEW k, k = unit[i].k, k \in {"cgoto", "agoto"}
  PROVE  Part(g, Statement(g, i), P, i, {})
<1>1. /\ Sound(g) /\ LinesCoded(g, P, i) /\ P[i] = Where(g) /\ g \in GenType /\ g.max <= MaxLocal /\ g.next <= g.max
      /\ LoopStack(g, P, DoHeads(i))
  BY DEF Translated, Sound
<1>2. PICK labels \in Seq(Nat), L \in Nat : labels = Chosen(i) /\ L = Len(labels) /\ Size(i) = 1 + 2 * L
  BY SizeIs
<1>3. PICK nums : nums = IF k = "cgoto" THEN [m \in 1..L |-> m] ELSE labels
  OBVIOUS
<1>4. nums \in Seq(Nat) /\ Len(nums) = L /\ \A m \in 1..L : nums[m] = IF k = "cgoto" THEN m ELSE labels[m]
  BY <1>2, <1>3
<1>5. PICK w : w = P[i] /\ w = Where(g) /\ w \in Nat \ {0}
  BY <1>1, CodeAt
<1>6. i \in Nat \ {0} /\ MaxLocal \in Nat \ {0} /\ i <= MaxLocal
  BY LineIs
<1>7. PICK loc \in Nat : loc = g.next /\ loc <= i - 1
  BY <1>1, LoopsFit
<1>8. PICK g1 : g1 = GetLocal(g, FALSE)
  OBVIOUS
<1>9. Widened(g, g1, 1)
  <2>1. Width(FALSE) = 1
    BY DEF Width
  <2> QED BY <1>1, <1>8, <2>1, LocalIsGot
<1>10. PICK x, s1 : x = [Instr("eval", i) EXCEPT !.loc = loc] /\ s1 = <<x>>
  OBVIOUS
<1>11. x \in InstrType /\ x.op = "eval" /\ x.line = i /\ x.lab = 0 /\ x.loc = loc /\ ~ x.wide
  <2>1. Instr("eval", i) \in InstrType
    BY <1>6, InstrTypes DEF Ops
  <2>2. x \in InstrType
    BY <1>10, <2>1, Changed, Zenon
  <2> QED BY <1>10, <2>2 DEF Instr
<1>12. PICK h1 : h1 = Puts(g1, s1)
  OBVIOUS
<1>13. PICK one \in Nat \ {0} : one = 1
  OBVIOUS
<1>14. Where(g1) = w
  BY <1>5, <1>9 DEF Widened, Where
<1>15. s1 \in Seq(InstrType) /\ Len(s1) = one /\ s1[one] = x
  BY <1>10, <1>11, <1>13
<1>16. Appended(g1, h1, s1, w, one)
  BY <1>9, <1>12, <1>14, <1>15, CodePuts DEF Widened
<1>17. h1 \in GenType /\ Len(h1.code) = w /\ Where(h1) = w + 1 /\ h1.code[w] = x
  <2>1. w - 1 + one = w /\ w + one = w + 1 /\ one \in 1..one
    BY <1>5, <1>13
  <2>2. h1.code[w] = x /\ Len(h1.code) = w
    BY <1>15, <1>16, <2>1 DEF Appended
  <2> QED BY <1>11, <1>15, <1>16, <2>1, <2>2 DEF Appended
<1>18. PICK t : t = IfEqualGotos(i, loc, nums, labels, w)
  OBVIOUS
<1>19. /\ t \in Seq(InstrType) /\ Len(t) = 2 * L
       /\ \A m \in 1..L : /\ t[2 * m - 1] = [Instr("ifne", i) EXCEPT !.loc = loc, !.num = nums[m], !.to = w + 2 * m + 1]
                          /\ t[2 * m] = Goto(i, labels[m])
       /\ \A q \in 1..(2 * L) : \E m \in 1..L : q = 2 * m - 1 \/ q = 2 * m
  <2>1. i \in Nat /\ w \in Nat /\ L = Len(labels) /\ L = Len(nums)
    BY <1>2, <1>4, <1>5, <1>6
  <2>2. GotosAre(t, i, loc, labels, nums, L, w)
    BY <1>4, <1>18, <2>1, IfEqualGotosAre
  <2> QED BY <2>2, Zenon DEF GotosAre
<1>20. PICK n \in Nat \ {0} : n = 2 * L + 1
  OBVIOUS
<1>61. PICK s2, h2 : s2 = t \o <<Hole>> /\ h2 = Puts(h1, s2)
  OBVIOUS
<1>21. s2 \in Seq(InstrType) /\ Len(s2) = n /\ s2[n] = Hole /\ \A q \in 1..(2 * L) : s2[q] = t[q]
  <2>1. PICK u : u = Append(t, Hole)
    OBVIOUS
  <2>2. t \in Seq(InstrType) /\ Hole \in InstrType /\ s2 = t \o <<Hole>>
    BY <1>19, <1>61, HoleIs, Zenon
  <2>3. u \in Seq(InstrType) /\ Len(u) = Len(t) + 1 /\ u[Len(t) + 1] = Hole /\ (\A q \in 1..Len(t) : u[q] = t[q]) /\ u = s2
    BY ONLY <2>1, <2>2, Added
  <2>4. u \in Seq(InstrType) /\ Len(u) = 2 * L + 1 /\ u[2 * L + 1] = Hole /\ \A q \in 1..(2 * L) : u[q] = t[q]
    BY <1>19, <2>3, Zenon
  <2> QED BY <1>20, <2>3, <2>4
<1>22. PICK v \in Nat \ {0} : v = w + 1
  BY <1>5
<1>23. Appended(h1, h2, s2, v, n)
  BY <1>17, <1>20, <1>61, <1>21, <1>22, CodePuts
<1>24. PICK h : h = ReleaseLocal(h2, FALSE)
  OBVIOUS
<1>25. Narrowed(h2, h, 1)
  <2>1. Width(FALSE) = 1
    BY DEF Width
  <2>2. h2 \in GenType /\ h2.next = loc + 1
    BY <1>7, <1>9, <1>16, <1>23 DEF Appended, Widened
  <2>3. Width(FALSE) <= h2.next
    <3>1. 1 <= loc + 1
      OBVIOUS
    <3> QED BY <2>1, <2>2, <3>1, Zenon
  <2>4. Narrowed(h2, h, Width(FALSE))
    BY <1>24, <2>2, <2>3, LocalIsReleased
  <2> QED BY <2>1, <2>4
<1>26. h = Statement(g, i)
  <2>1. h = Select(g, i, nums, labels)
    <3>1. Len(h1.code) = w
      BY <1>17
    <3>2. h2 = Puts(h1, IfEqualGotos(i, loc, nums, labels, Len(h1.code)) \o <<Hole>>)
      BY <1>18, <1>61, <3>1
    <3>3. h1 = Puts(GetLocal(g, FALSE), <<[Instr("eval", i) EXCEPT !.loc = loc]>>)
      BY <1>8, <1>10, <1>12, Zenon
    <3> QED BY <1>7, <1>24, <3>2, <3>3, Zenon DEF Select
  <2>2. CASE k = "cgoto"
    <3>1. labels = unit[i].to /\ DOMAIN labels = 1..L /\ nums = [m \in DOMAIN unit[i].to |-> m]
      BY <1>2, <1>3, <2>2 DEF Chosen
    <3>2. h = ComputedGoto(g, i)
      BY <2>1, <3>1, Zenon DEF ComputedGoto
    <3> QED BY <2>2, <3>2 DEF Statement
  <2>3. CASE k = "agoto"
    <3>1. nums = labels /\ labels = IF unit[i].to # <<>> THEN unit[i].to ELSE assigned
      BY <1>2, <1>3, <2>3 DEF Chosen
    <3>2. h = AssignedGoto(g, i)
      BY <2>1, <3>1 DEF AssignedGoto
    <3> QED BY <2>3, <3>2 DEF Statement
  <2> QED BY <2>2, <2>3
<1>27. /\ h \in GenType /\ h.code = h2.code /\ h.labels = g.labels /\ h.loops = g.loops /\ h.blocks = g.blocks
       /\ h.next = g.next /\ h.max <= MaxLocal /\ h.next <= h.max
  <2>1. /\ h \in GenType /\ h.code = h2.code /\ h.labels = g.labels /\ h.loops = g.loops /\ h.blocks = g.blocks
        /\ h.next = h2.next - 1 /\ h2.next = g1.next /\ g1.next = loc + 1 /\ h.max = g1.max
    <3>1. /\ g1.labels = g.labels /\ g1.loops = g.loops /\ g1.blocks = g.blocks /\ g1.next = g.next + 1
      BY <1>9 DEF Widened
    <3>2. /\ h1.labels = g1.labels /\ h1.loops = g1.loops /\ h1.blocks = g1.blocks /\ h1.next = g1.next /\ h1.max = g1.max
      BY <1>16 DEF Appended
    <3>3. /\ h2.labels = h1.labels /\ h2.loops = h1.loops /\ h2.blocks = h1.blocks /\ h2.next = h1.next /\ h2.max = h1.max
      BY <1>23 DEF Appended
    <3>4. /\ h \in GenType /\ h.code = h2.code /\ h.labels = h2.labels /\ h.loops = h2.loops /\ h.blocks = h2.blocks
          /\ h.next = h2.next - 1 /\ h.max = h2.max
      BY <1>25 DEF Narrowed
    <3> QED BY <1>7, <3>1, <3>2, <3>3, <3>4
  <2>2. g1.max >= g1.next /\ g1.max \in Nat /\ g1.max <= MaxLocal
    <3>1. g1.max \in Nat /\ g.max \in Nat
      BY <1>1, <1>9 DEF GenType, Widened
    <3>2. loc + 1 <= MaxLocal
      BY <1>6, <1>7
    <3> QED BY <1>1, <1>6, <1>9, <2>1, <3>1, <3>2 DEF Widened
  <2> QED BY <1>7, <2>1, <2>2
<1>28. /\ Len(h.code) = w + 2 * L + 1 /\ Where(h) = w + 2 * L + 1 /\ Where(h) = P[i] + Size(i) /\ Last(h.code).op = "unused"
       /\ Len(g.code) <= Len(h.code)
       /\ \A q \in 1..(w - 1) : h.code[q] = g.code[q]
       /\ h.code[w] = x /\ \A q \in 1..(2 * L) : h.code[w + q] = t[q]
  <2>1. v - 1 + n = w + 2 * L + 1 /\ \A q \in 1..(2 * L) : v - 1 + q = w + q /\ q \in 1..n
    <3>1. PICK M \in Nat : M = 2 * L
      OBVIOUS
    <3>2. v = w + 1 /\ w \in Nat /\ n = M + 1
      BY <1>5, <1>20, <1>22, <3>1
    <3>3. v - 1 + n = w + M + 1 /\ \A q \in 1..M : v - 1 + q = w + q /\ q \in 1..n
      BY ONLY <3>1, <3>2
    <3> QED BY <3>1, <3>3
  <2>2. Len(h2.code) = w + 2 * L + 1 /\ Where(h2) = w + 2 * L + 1 /\ Last(h2.code).op = "unused"
    BY <1>21, <1>23, <2>1, HoleIs DEF Appended
  <2>3. Where(h) = Where(h2)
    BY <1>25 DEF Narrowed
  <2>4. \A q \in 1..(2 * L) : h2.code[w + q] = t[q]
    <3>1. \A q \in 1..n : h2.code[v - 1 + q] = s2[q]
      BY <1>23 DEF Appended
    <3> QED BY <1>21, <2>1, <3>1
  <2>5. \A q \in 1..(w - 1) : h2.code[q] = g.code[q]
    <3>1. \A q \in 1..(v - 1) : h2.code[q] = h1.code[q]
      BY <1>23 DEF Appended
    <3>2. \A q \in 1..(w - 1) : h1.code[q] = g1.code[q]
      BY <1>16 DEF Appended
    <3>3. \A q \in 1..(w - 1) : q \in 1..(v - 1)
      BY <1>5, <1>22
    <3> QED BY <1>9, <3>1, <3>2, <3>3 DEF Widened
  <2>6. h2.code[w] = x
    <3>1. w \in 1..(v - 1)
      BY <1>5, <1>22
    <3> QED BY <1>17, <1>23, <3>1 DEF Appended
  <2>7. Len(g.code) <= w
    BY <1>1, <1>5, CodeAt
  <2>8. Len(g.code) <= w + 2 * L + 1
    <3>1. Len(g.code) \in Nat
      BY <1>1, CodeAt
    <3> QED BY <1>2, <1>5, <2>7, <3>1
  <2>9. w + 2 * L + 1 = P[i] + Size(i)
    BY <1>2, <1>5
  <2> QED BY <1>27, <2>2, <2>3, <2>4, <2>5, <2>6, <2>8, <2>9
<1>29. \A m \in 1..L : /\ h.code[w + 2 * m - 1] = [Instr("ifne", i) EXCEPT !.loc = loc, !.num = nums[m], !.to = w + 2 * m + 1]
                       /\ h.code[w + 2 * m] = Goto(i, labels[m])
  <2> SUFFICES ASSUME NEW m \in 1..L
               PROVE  /\ h.code[w + 2 * m - 1] = [Instr("ifne", i) EXCEPT !.loc = loc, !.num = nums[m], !.to = w + 2 * m + 1]
                      /\ h.code[w + 2 * m] = Goto(i, labels[m])
    BY Zenon
  <2>1. 2 * m - 1 \in 1..(2 * L) /\ 2 * m \in 1..(2 * L) /\ w + (2 * m - 1) = w + 2 * m - 1
    BY <1>2, <1>5
  <2>2. h.code[w + 2 * m - 1] = t[2 * m - 1] /\ h.code[w + 2 * m] = t[2 * m]
    BY <1>28, <2>1
  <2> QED BY <1>19, <2>2, Zenon
<1>30. StatementCode(h.code, i, P[i])
  <2>1. PICK c : c = h.code
    OBVIOUS
  <2>2. c[w].loc = loc /\ c[w] = [Instr("eval", i) EXCEPT !.loc = loc]
    BY <1>10, <1>11, <1>28, <2>1, Zenon
  <2>3. DOMAIN Chosen(i) = 1..L
    BY <1>2
  <2>4. \A m \in 1..L : /\ c[w + 2 * m - 1] = [Instr("ifne", i) EXCEPT
                             !.loc = loc, !.num = IF k = "cgoto" THEN m ELSE Chosen(i)[m], !.to = w + 2 * m + 1]
                        /\ c[w + 2 * m] = Goto(i, Chosen(i)[m])
    BY <1>2, <1>4, <1>29, <2>1, Zenon
  <2>5. k \notin {"do", "work", "return", "stop", "goto", "assign", "lifwork", "lifgoto", "aif", "aifwide", "if", "elseif", "else"}
    OBVIOUS
  <2>6. PICK kk : kk = unit[i].k /\ kk = k
    OBVIOUS
  <2>7. StatementCode(c, i, w)
    BY ONLY <2>2, <2>3, <2>4, <2>5, <2>6, Zenon DEF StatementCode, CodeOf
  <2> QED BY <1>5, <2>1, <2>7
<1>31. LocalsOK(h.code, P, i)
  <2>1. k # "do"
    OBVIOUS
  <2>2. ASSUME NEW d \in DoHeads(i) PROVE h.code[P[d] + 1].loc < loc
    <3>1. PICK m \in 1..Len(g.loops) : g.loops[m].line = d
      BY <1>1 DEF LoopStack
    <3>2. g.code[P[d] + 1].loc = m - 1 /\ Len(g.loops) = loc
      BY <1>1, <1>7, <3>1 DEF LoopStack
    <3>3. P[d] + 1 \in 1..(w - 1)
      <4>1. d \in 1..(i - 1) /\ d \in Lines /\ unit[d].k = "do"
        <5>1. i \in 1..(Len(unit) + 1)
          BY <1>6, LineIs
        <5> QED BY <5>1, DoHeadsIs
      <4>2. Size(d) = 3
        BY <4>1, SizeIs
      <4>3. P[d] \in Nat \ {0} /\ P[d] + 3 <= w
        <5>1. /\ P \in [1..i -> Nat \ {0}]
              /\ \A j \in 1..(i - 1) : P[j] + Size(j) <= P[i]
          BY <1>1, Places
        <5>2. P[d] + Size(d) <= P[i]
          BY <4>1, <5>1
        <5>3. d \in 1..i
          BY <1>6, <4>1
        <5> QED BY <1>5, <4>2, <5>1, <5>2, <5>3
      <4> QED BY <1>5, <4>3
    <3>4. h.code[P[d] + 1] = g.code[P[d] + 1]
      BY <1>28, <3>3
    <3> QED BY <1>7, <3>2, <3>4
  <2>3. h.code[P[i]].loc = loc
    BY <1>5, <1>11, <1>28
  <2> QED BY <2>1, <2>2, <2>3 DEF LocalsOK
<1>32. \A p \in P[i]..(P[i] + Size(i) - 1) : InstrOK(h, p)
  <2>1. ASSUME NEW p \in P[i]..(P[i] + Size(i) - 1) PROVE p = w \/ \E m \in 1..L : p = w + 2 * m - 1 \/ p = w + 2 * m
    <3>1. PICK M \in Nat : M = 2 * L
      OBVIOUS
    <3> PICK q : q = p - w
      OBVIOUS
    <3>2. p \in w..(w + M)
      BY <1>2, <1>5, <3>1
    <3>3. p = w \/ (q \in 1..M /\ p = w + q)
      BY <1>5, <3>1, <3>2
    <3>4. p = w \/ \E m \in 1..L : (q = 2 * m - 1 \/ q = 2 * m) /\ p = w + q
      <4>1. \A y \in 1..M : \E m \in 1..L : y = 2 * m - 1 \/ y = 2 * m
        BY <1>19, <3>1, Zenon
      <4> QED BY <3>3, <4>1
    <3>5. \A m \in 1..L : w + (2 * m - 1) = w + 2 * m - 1
      BY <1>5
    <3> QED BY <3>4, <3>5
  <2>2. loc < MaxLocal
    BY <1>6, <1>7
  <2>3. InstrOK(h, w)
    <3>1. "eval" \notin Branches
      BY DEF Branches
    <3> QED BY <1>11, <1>28, <2>2, <3>1 DEF InstrOK
  <2>4. ASSUME NEW m \in 1..L PROVE InstrOK(h, w + 2 * m - 1) /\ InstrOK(h, w + 2 * m)
    <3>1. PICK y, z, l, a, b : y = h.code[w + 2 * m - 1] /\ z = h.code[w + 2 * m] /\ l = labels[m] /\ a = nums[m] /\ b = w + 2 * m + 1
      OBVIOUS
    <3>2. y = [Instr("ifne", i) EXCEPT !.loc = loc, !.num = a, !.to = b] /\ z = Goto(i, l)
      BY <1>29, <3>1, Zenon
    <3>3. y.op = "ifne" /\ y.line = i /\ y.lab = 0 /\ y.loc = loc /\ y.to = b /\ ~ y.wide
      BY ONLY <3>2 DEF Instr
    <3>4. z.op = "goto" /\ z.line = i /\ z.lab = l /\ z.loc = 0 /\ ~ z.wide
      BY ONLY <3>2 DEF Instr, Goto
    <3>5. b \in 1..Len(h.code)
      <4>1. w + 2 * m + 1 \in 1..(w + 2 * L + 1)
        BY <1>5
      <4> QED BY <1>28, <3>1, <4>1
    <3>6. l \in ToSet(Chosen(i))
      <4>1. m \in DOMAIN labels
        BY <1>2
      <4> QED BY <1>2, <3>1, <4>1 DEF ToSet
    <3>7. 0 < MaxLocal
      BY <1>6
    <3>8. InstrOK(h, w + 2 * m - 1)
      BY <2>2, <3>1, <3>3, <3>5 DEF InstrOK
    <3>9. InstrOK(h, w + 2 * m)
      BY <3>1, <3>4, <3>6, <3>7 DEF InstrOK
    <3> QED BY <3>8, <3>9
  <2> QED BY <2>1, <2>3, <2>4
<1>33. unit[i].k \notin {"do", "if"} \cup Arms
  BY DEF Arms
<1>34. \A q \in 1..(P[i] - 1) : h.code[q] = g.code[q]
  BY <1>5, <1>28
<1>35. ~ (Last(h.code).op = "return")
  BY <1>28
<1>36. Part(g, h, P, i, {})
  BY <1>1, <1>27, <1>28, <1>30, <1>31, <1>32, <1>33, <1>34, <1>35, PlainPart
<1> QED BY <1>26, <1>36

(* An arithmetic IF.                                                         *)
LEMMA ArithmeticIfPart ==
  ASSUME UnitInv, phase # "read", NEW i \in Lines, NEW g, NEW P, Translated(g, P, i),
         NEW k, k = unit[i].k, k \in {"aif", "aifwide"}
  PROVE  Part(g, Statement(g, i), P, i, {})
<1>1. /\ Sound(g) /\ LinesCoded(g, P, i) /\ P[i] = Where(g) /\ g \in GenType /\ g.max <= MaxLocal /\ g.next <= g.max
      /\ LoopStack(g, P, DoHeads(i))
  BY DEF Translated, Sound
<1>2. PICK l \in Seq(Nat) : l = unit[i].to /\ Len(l) = 3 /\ Size(i) = 6
  <2>1. LabelsOK(i)
    BY DEF UnitInv, Labelling
  <2>2. unit[i].to \in Seq(Nat) /\ Len(unit[i].to) = 3
    BY <2>1, UnitTypes DEF UnitInv, LabelsOK
  <2> QED BY <2>2, SizeIs
<1>3. PICK wide \in BOOLEAN : wide = (k = "aifwide")
  OBVIOUS
<1>4. PICK l1 \in Nat, l2 \in Nat, l3 \in Nat : l1 = l[1] /\ l2 = l[2] /\ l3 = l[3]
  <2>1. 1 \in 1..Len(l) /\ 2 \in 1..Len(l) /\ 3 \in 1..Len(l)
    BY <1>2
  <2>2. l[1] \in Nat /\ l[2] \in Nat /\ l[3] \in Nat
    BY <2>1, Element
  <2> QED BY <2>2
<1>5. PICK w : w = P[i] /\ w = Where(g) /\ w \in Nat \ {0}
  BY <1>1, CodeAt
<1>6. i \in Nat \ {0} /\ MaxLocal \in Nat \ {0} /\ i + 1 <= MaxLocal /\ i \in 1..(Len(unit) + 1)
  BY LineIs
<1>7. PICK loc \in Nat : loc = g.next /\ loc <= i - 1
  BY <1>1, LoopsFit
<1>8. PICK g1, d : g1 = GetLocal(g, wide) /\ d = Width(wide)
  OBVIOUS
<1>9. Widened(g, g1, d) /\ d \in {1, 2} /\ (wide => d = 2)
  BY <1>1, <1>8, LocalIsGot
<1>10. PICK x, s1 : x = [Instr("eval", i) EXCEPT !.loc = loc, !.wide = wide] /\ s1 = <<x>>
  OBVIOUS
<1>11. x \in InstrType /\ x.op = "eval" /\ x.line = i /\ x.lab = 0 /\ x.loc = loc /\ x.wide = wide
  <2>1. Instr("eval", i) \in InstrType
    BY <1>6, InstrTypes DEF Ops
  <2>2. x \in InstrType
    BY <1>10, <2>1, Changed, Zenon
  <2> QED BY <1>10, <2>2 DEF Instr
<1>12. PICK h1 : h1 = Puts(g1, s1)
  OBVIOUS
<1>13. PICK one \in Nat \ {0} : one = 1
  OBVIOUS
<1>14. Where(g1) = w
  BY <1>5, <1>9 DEF Widened, Where
<1>15. s1 \in Seq(InstrType) /\ Len(s1) = one /\ s1[one] = x
  BY <1>10, <1>11, <1>13
<1>16. Appended(g1, h1, s1, w, one)
  BY <1>9, <1>12, <1>14, <1>15, CodePuts DEF Widened
<1>17. h1 \in GenType /\ Len(h1.code) = w /\ Where(h1) = w + 1 /\ h1.code[w] = x
  <2>1. w - 1 + one = w /\ w + one = w + 1 /\ one \in 1..one
    BY <1>5, <1>13
  <2>2. h1.code[w] = x /\ Len(h1.code) = w
    BY <1>15, <1>16, <2>1 DEF Appended
  <2> QED BY <1>11, <1>15, <1>16, <2>1, <2>2 DEF Appended
<1>18. PICK v \in Nat \ {0} : v = w + 1
  BY <1>5
<1>19. PICK a, b, r2, r3, r5 :
         /\ a = [Instr("ifge", i) EXCEPT !.loc = loc, !.to = v + 2] /\ r2 = Goto(i, l1)
         /\ b = [Instr("ifne", i) EXCEPT !.loc = loc, !.to = v + 4] /\ r3 = Goto(i, l2)
         /\ r5 = Goto(i, l3)
  OBVIOUS
<1>20. /\ a \in InstrType /\ a.op = "ifge" /\ a.line = i /\ a.lab = 0 /\ a.loc = loc /\ ~ a.wide /\ a.to = v + 2
       /\ b \in InstrType /\ b.op = "ifne" /\ b.line = i /\ b.lab = 0 /\ b.loc = loc /\ ~ b.wide /\ b.to = v + 4
  <2>1. Instr("ifge", i) \in InstrType /\ Instr("ifne", i) \in InstrType
    BY <1>6, InstrTypes DEF Ops
  <2>2. v + 2 \in Nat /\ v + 4 \in Nat
    OBVIOUS
  <2>3. a \in InstrType /\ b \in InstrType
    BY <1>19, <2>1, <2>2, Changed, Zenon
  <2>4. a.op = "ifge" /\ a.line = i /\ a.lab = 0 /\ a.loc = loc /\ ~ a.wide /\ a.to = v + 2
    BY ONLY <1>19 DEF Instr
  <2>5. b.op = "ifne" /\ b.line = i /\ b.lab = 0 /\ b.loc = loc /\ ~ b.wide /\ b.to = v + 4
    BY ONLY <1>19 DEF Instr
  <2> QED BY <2>3, <2>4, <2>5
<1>21. /\ r2 \in InstrType /\ r2.op = "goto" /\ r2.line = i /\ r2.lab = l1 /\ r2.loc = 0 /\ ~ r2.wide
       /\ r3 \in InstrType /\ r3.op = "goto" /\ r3.line = i /\ r3.lab = l2 /\ r3.loc = 0 /\ ~ r3.wide
       /\ r5 \in InstrType /\ r5.op = "goto" /\ r5.line = i /\ r5.lab = l3 /\ r5.loc = 0 /\ ~ r5.wide
  <2>1. r2 \in InstrType /\ r3 \in InstrType /\ r5 \in InstrType
    BY <1>6, <1>19, InstrTypes
  <2>2. r2.op = "goto" /\ r2.line = i /\ r2.lab = l1 /\ r2.loc = 0 /\ ~ r2.wide
    BY ONLY <1>19 DEF Goto, Instr
  <2>3. r3.op = "goto" /\ r3.line = i /\ r3.lab = l2 /\ r3.loc = 0 /\ ~ r3.wide
    BY ONLY <1>19 DEF Goto, Instr
  <2>4. r5.op = "goto" /\ r5.line = i /\ r5.lab = l3 /\ r5.loc = 0 /\ ~ r5.wide
    BY ONLY <1>19 DEF Goto, Instr
  <2> QED BY <2>1, <2>2, <2>3, <2>4
<1>22. PICK s2, h2 : s2 = <<a, r2, b, r3, r5>> /\ h2 = Puts(h1, s2)
  OBVIOUS
<1>23. PICK n \in Nat \ {0} : n = 5
  OBVIOUS
<1>24. s2 \in Seq(InstrType) /\ Len(s2) = n /\ s2[1] = a /\ s2[2] = r2 /\ s2[3] = b /\ s2[4] = r3 /\ s2[n] = r5
  <2>1. a \in InstrType /\ r2 \in InstrType /\ b \in InstrType /\ r3 \in InstrType /\ r5 \in InstrType
    BY <1>20, <1>21
  <2> QED BY ONLY <1>22, <1>23, <2>1
<1>25. Appended(h1, h2, s2, v, n)
  BY <1>17, <1>18, <1>22, <1>24, CodePuts
<1>26. PICK h : h = ReleaseLocal(h2, wide)
  OBVIOUS
<1>27. Narrowed(h2, h, d)
  <2>1. h2 \in GenType /\ h2.next = loc + d
    <3>1. g1.next = g.next + d
      BY <1>9 DEF Widened
    <3>2. h1.next = g1.next
      BY <1>16 DEF Appended
    <3>3. h2 \in GenType /\ h2.next = h1.next
      BY <1>25 DEF Appended
    <3> QED BY <1>7, <3>1, <3>2, <3>3
  <2>2. d <= loc + d
    BY <1>9
  <2> QED BY <1>8, <1>26, <2>1, <2>2, LocalIsReleased
<1>28. h = Statement(g, i)
  <2>1. Where(h1) = v
    BY <1>17, <1>18
  <2>2. h = ArithmeticIf(g, i, wide)
    <3>1. h1 = Puts(GetLocal(g, wide), <<[Instr("eval", i) EXCEPT !.loc = loc, !.wide = wide]>>)
      BY <1>8, <1>10, <1>12, Zenon
    <3>2. PICK u : u = <<[Instr("ifge", i) EXCEPT !.loc = loc, !.to = v + 2], Goto(i, l[1]),
                         [Instr("ifne", i) EXCEPT !.loc = loc, !.to = v + 4], Goto(i, l[2]), Goto(i, l[3])>>
      OBVIOUS
    <3>3. u = s2
      BY <1>4, <1>19, <1>22, <3>2, Zenon
    <3>4. h = ReleaseLocal(Puts(h1, u), wide)
      BY <1>22, <1>26, <3>3
    <3> QED BY <1>2, <1>7, <2>1, <3>1, <3>2, <3>4, Zenon DEF ArithmeticIf
  <2>3. CASE k = "aif"
    <3>1. wide = FALSE
      BY <1>3, <2>3
    <3> QED BY <2>2, <2>3, <3>1 DEF Statement
  <2>4. CASE k = "aifwide"
    <3>1. wide = TRUE
      BY <1>3, <2>4
    <3> QED BY <2>2, <2>4, <3>1 DEF Statement
  <2> QED BY <2>3, <2>4
<1>29. /\ h \in GenType /\ h.code = h2.code /\ h.labels = g.labels /\ h.loops = g.loops /\ h.blocks = g.blocks
       /\ h.next = g.next /\ h.max <= MaxLocal /\ h.next <= h.max
  <2>1. /\ h \in GenType /\ h.code = h2.code /\ h.labels = g.labels /\ h.loops = g.loops /\ h.blocks = g.blocks
        /\ h.next = g1.next - d /\ g1.next = loc + d /\ h.max = g1.max
    <3>1. /\ g1.labels = g.labels /\ g1.loops = g.loops /\ g1.blocks = g.blocks /\ g1.next = g.next + d
      BY <1>9 DEF Widened
    <3>2. /\ h1.labels = g1.labels /\ h1.loops = g1.loops /\ h1.blocks = g1.blocks /\ h1.next = g1.next /\ h1.max = g1.max
      BY <1>16 DEF Appended
    <3>3. /\ h2.labels = h1.labels /\ h2.loops = h1.loops /\ h2.blocks = h1.blocks /\ h2.next = h1.next /\ h2.max = h1.max
      BY <1>25 DEF Appended
    <3>4. /\ h \in GenType /\ h.code = h2.code /\ h.labels = h2.labels /\ h.loops = h2.loops /\ h.blocks = h2.blocks
          /\ h.next = h2.next - d /\ h.max = h2.max
      BY <1>27 DEF Narrowed
    <3> QED BY <1>7, <3>1, <3>2, <3>3, <3>4
  <2>2. g1.max >= g1.next /\ g1.max \in Nat /\ g1.max <= MaxLocal
    <3>1. g1.max \in Nat /\ g.max \in Nat
      BY <1>1, <1>9 DEF GenType, Widened
    <3>2. loc + d <= MaxLocal
      <4>1. d \in {1, 2}
        BY <1>9
      <4> QED BY ONLY <1>6, <1>7, <4>1
    <3> QED BY <1>1, <1>6, <1>9, <2>1, <3>1, <3>2 DEF Widened
  <2>3. loc + d - d = loc /\ loc <= loc + d
    BY <1>9
  <2>4. loc <= g1.max
    BY <1>9, <2>1, <2>2
  <2>5. g1.next - d = loc
    <3>1. g1.next = loc + d
      BY <2>1
    <3>2. PICK y : y = g1.next
      OBVIOUS
    <3>3. y = loc + d /\ d \in {1, 2}
      BY <1>9, <3>1, <3>2
    <3>4. y - d = loc
      BY ONLY <1>7, <3>3
    <3> QED BY ONLY <3>2, <3>4
  <2>6. h.next = loc /\ h.max <= MaxLocal /\ h.next <= h.max
    BY <2>1, <2>2, <2>4, <2>5
  <2> QED BY <1>7, <2>1, <2>6
<1>30. /\ Len(h.code) = w + 5 /\ Where(h) = w + 6 /\ Last(h.code).op = "goto" /\ Len(g.code) <= Len(h.code)
       /\ \A q \in 1..(w - 1) : h.code[q] = g.code[q]
       /\ h.code[w] = x /\ h.code[w + 1] = a /\ h.code[w + 2] = r2 /\ h.code[w + 3] = b /\ h.code[w + 4] = r3 /\ h.code[w + 5] = r5
  <2>1. /\ v - 1 + n = w + 5 /\ v + n = w + 6
        /\ v - 1 + 1 = w + 1 /\ v - 1 + 2 = w + 2 /\ v - 1 + 3 = w + 3 /\ v - 1 + 4 = w + 4
        /\ 1 \in 1..n /\ 2 \in 1..n /\ 3 \in 1..n /\ 4 \in 1..n /\ n \in 1..n
    <3>1. w \in Nat \ {0} /\ v = w + 1 /\ n = 5
      BY <1>5, <1>18, <1>23
    <3> QED BY ONLY <3>1
  <2>2. Len(h2.code) = w + 5 /\ Where(h2) = w + 6 /\ Last(h2.code).op = "goto"
    BY <1>21, <1>24, <1>25, <2>1 DEF Appended
  <2>3. Where(h) = Where(h2)
    BY <1>27 DEF Narrowed
  <2>4. h2.code[w + 1] = a /\ h2.code[w + 2] = r2 /\ h2.code[w + 3] = b /\ h2.code[w + 4] = r3 /\ h2.code[w + 5] = r5
    <3>1. \A q \in 1..n : h2.code[v - 1 + q] = s2[q]
      BY <1>25 DEF Appended
    <3> QED BY <1>24, <2>1, <3>1
  <2>5. \A q \in 1..(w - 1) : h2.code[q] = g.code[q]
    <3>1. \A q \in 1..(v - 1) : h2.code[q] = h1.code[q]
      BY <1>25 DEF Appended
    <3>2. \A q \in 1..(w - 1) : h1.code[q] = g1.code[q]
      BY <1>16 DEF Appended
    <3>3. \A q \in 1..(w - 1) : q \in 1..(v - 1)
      BY <1>5, <1>18
    <3> QED BY <1>9, <3>1, <3>2, <3>3 DEF Widened
  <2>6. h2.code[w] = x
    <3>1. w \in 1..(v - 1)
      BY <1>5, <1>18
    <3> QED BY <1>17, <1>25, <3>1 DEF Appended
  <2>7. Len(g.code) <= w + 5
    <3>1. Len(g.code) \in Nat /\ Len(g.code) <= w
      BY <1>1, <1>5, CodeAt
    <3> QED BY <1>5, <3>1
  <2> QED BY <1>29, <2>2, <2>3, <2>4, <2>5, <2>6, <2>7
<1>31. StatementCode(h.code, i, P[i])
  <2>1. PICK c : c = h.code
    OBVIOUS
  <2>2. c[w].loc = loc /\ c[w] = [Instr("eval", i) EXCEPT !.loc = loc, !.wide = (k = "aifwide")]
    BY <1>3, <1>10, <1>11, <1>30, <2>1, Zenon
  <2>3. v + 2 = w + 3 /\ v + 4 = w + 5
    BY <1>5, <1>18
  <2>4. /\ c[w + 1] = [Instr("ifge", i) EXCEPT !.loc = loc, !.to = w + 3] /\ c[w + 2] = Goto(i, unit[i].to[1])
        /\ c[w + 3] = [Instr("ifne", i) EXCEPT !.loc = loc, !.to = w + 5] /\ c[w + 4] = Goto(i, unit[i].to[2])
        /\ c[w + 5] = Goto(i, unit[i].to[3])
    BY <1>2, <1>4, <1>19, <1>30, <2>1, <2>3, Zenon
  <2>5. k \notin {"do", "work", "return", "stop", "goto", "assign", "lifwork", "lifgoto", "cgoto", "agoto", "if", "elseif", "else"}
    OBVIOUS
  <2>6. PICK kk : kk = unit[i].k /\ kk = k
    OBVIOUS
  <2>7. StatementCode(c, i, w)
    BY ONLY <2>2, <2>4, <2>5, <2>6, Zenon DEF StatementCode, CodeOf
  <2> QED BY <1>5, <2>1, <2>7
<1>32. LocalsOK(h.code, P, i)
  <2>1. k # "do"
    OBVIOUS
  <2>2. ASSUME NEW e \in DoHeads(i) PROVE h.code[P[e] + 1].loc < loc
    <3>1. PICK m \in 1..Len(g.loops) : g.loops[m].line = e
      BY <1>1 DEF LoopStack
    <3>2. g.code[P[e] + 1].loc = m - 1 /\ Len(g.loops) = loc
      BY <1>1, <1>7, <3>1 DEF LoopStack
    <3>3. P[e] + 1 \in 1..(w - 1)
      <4>1. e \in 1..(i - 1) /\ e \in Lines /\ unit[e].k = "do"
        BY <1>6, DoHeadsIs
      <4>2. Size(e) = 3
        BY <4>1, SizeIs
      <4>3. P[e] \in Nat \ {0} /\ P[e] + 3 <= w
        <5>1. /\ P \in [1..i -> Nat \ {0}]
              /\ \A j \in 1..(i - 1) : P[j] + Size(j) <= P[i]
          BY <1>1, Places
        <5>2. P[e] + Size(e) <= P[i]
          BY <4>1, <5>1
        <5>3. e \in 1..i
          BY <1>6, <4>1
        <5> QED BY <1>5, <4>2, <5>1, <5>2, <5>3
      <4> QED BY <1>5, <4>3
    <3>4. h.code[P[e] + 1] = g.code[P[e] + 1]
      BY <1>30, <3>3
    <3> QED BY <1>7, <3>2, <3>4
  <2>3. h.code[P[i]].loc = loc
    BY <1>5, <1>11, <1>30
  <2> QED BY <2>1, <2>2, <2>3 DEF LocalsOK
<1>33. \A p \in P[i]..(P[i] + Size(i) - 1) : InstrOK(h, p)
  <2>1. \A p \in P[i]..(P[i] + Size(i) - 1) : p = w \/ p = w + 1 \/ p = w + 2 \/ p = w + 3 \/ p = w + 4 \/ p = w + 5
    <3>1. P[i] = w /\ Size(i) = 6 /\ w \in Nat \ {0}
      BY <1>2, <1>5
    <3> QED BY ONLY <3>1
  <2>2. 0 < MaxLocal /\ loc < MaxLocal /\ loc + 1 < MaxLocal
    BY <1>6, <1>7
  <2>3. \A m \in {l1, l2, l3} : m \in ToSet(Chosen(i))
    <3>1. Chosen(i) = l
      BY <1>2 DEF Chosen
    <3> QED BY <1>2, <1>4, <3>1 DEF ToSet
  <2>4. v + 2 \in 1..Len(h.code) /\ v + 4 \in 1..Len(h.code)
    <3>1. w \in Nat \ {0} /\ v = w + 1 /\ Len(h.code) = w + 5
      BY <1>5, <1>18, <1>30
    <3> QED BY ONLY <3>1
  <2>5. InstrOK(h, w)
    <3>1. "eval" \notin Branches
      BY DEF Branches
    <3> QED BY <1>11, <1>30, <2>2, <3>1 DEF InstrOK
  <2>6. InstrOK(h, w + 1) /\ InstrOK(h, w + 3)
    BY <1>20, <1>30, <2>2, <2>4 DEF InstrOK
  <2>7. InstrOK(h, w + 2) /\ InstrOK(h, w + 4) /\ InstrOK(h, w + 5)
    BY <1>21, <1>30, <2>2, <2>3 DEF InstrOK
  <2> QED BY <2>1, <2>5, <2>6, <2>7
<1>34. unit[i].k \notin {"do", "if"} \cup Arms
  BY DEF Arms
<1>35. Where(h) = P[i] + Size(i) /\ \A q \in 1..(P[i] - 1) : h.code[q] = g.code[q]
  BY <1>2, <1>5, <1>30
<1>36. ~ (Last(h.code).op = "return")
  BY <1>30
<1>37. Part(g, h, P, i, {})
  BY <1>1, <1>29, <1>30, <1>31, <1>32, <1>33, <1>34, <1>35, <1>36, PlainPart
<1> QED BY <1>28, <1>37

(* A DO.                                                                     *)
LEMMA DoPart ==
  ASSUME UnitInv, phase # "read", NEW i \in Lines, NEW g, NEW P, Translated(g, P, i), unit[i].k = "do"
  PROVE  Part(g, Statement(g, i), P, i, {})
<1>1. /\ Sound(g) /\ LinesCoded(g, P, i) /\ P[i] = Where(g) /\ g \in GenType /\ g.max <= MaxLocal /\ g.next <= g.max
      /\ LoopStack(g, P, DoHeads(i)) /\ BlockStack(g, P, i)
  BY DEF Translated, Sound
<1>2. PICK w : w = P[i] /\ w = Where(g) /\ w \in Nat \ {0}
  BY <1>1, CodeAt
<1>3. i \in Nat \ {0} /\ MaxLocal \in Nat \ {0} /\ i <= MaxLocal /\ i \in 1..(Len(unit) + 1) /\ Size(i) = 3
  BY LineIs, SizeIs
<1>4. PICK loc \in Nat : loc = g.next /\ loc <= i - 1 /\ loc = Len(g.loops)
  BY <1>1, LoopsFit
<1>5. PICK l \in Nat : l = unit[i].to[1]
  <2>1. LabelsOK(i)
    BY DEF UnitInv, Labelling
  <2>2. unit[i].to \in Seq(Nat) /\ Len(unit[i].to) = 1
    BY <2>1, UnitTypes DEF UnitInv, LabelsOK
  <2>3. 1 \in 1..Len(unit[i].to)
    BY <2>2
  <2>4. unit[i].to[1] \in Nat
    BY <2>2, <2>3, Element
  <2> QED BY <2>4
<1>6. PICK x, y, z : x = Instr("init", i) /\ y = [Instr("count", i) EXCEPT !.loc = loc] /\ z = Instr("goto", i)
  OBVIOUS
<1>7. PICK s : s = <<x, y, z>>
  OBVIOUS
<1>8. /\ x \in InstrType /\ y \in InstrType /\ z \in InstrType
      /\ x.op = "init" /\ x.line = i /\ x.loc = 0 /\ ~ x.wide
      /\ y.op = "count" /\ y.line = i /\ y.loc = loc /\ ~ y.wide
      /\ z.op = "goto" /\ z.line = i /\ z.loc = 0 /\ z.lab = 0 /\ ~ z.wide
  <2>1. x \in InstrType /\ Instr("count", i) \in InstrType /\ z \in InstrType
    BY <1>3, <1>6, InstrTypes DEF Ops
  <2>2. y \in InstrType
    BY <1>6, <2>1, Changed, Zenon
  <2> QED BY <1>6, <2>1, <2>2 DEF Instr
<1>9. PICK f : f = Puts(g, s)
  OBVIOUS
<1>10. PICK n \in Nat \ {0} : n = 3
  OBVIOUS
<1>11. Appended(g, f, s, w, n) /\ s[1] = x /\ s[2] = y /\ s[3] = z
  <2>1. s \in Seq(InstrType) /\ Len(s) = 3 /\ s[1] = x /\ s[2] = y /\ s[3] = z
    BY <1>7, <1>8
  <2> QED BY <1>1, <1>2, <1>9, <1>10, <2>1, CodePuts
<1>12. /\ f \in GenType /\ Len(f.code) = w + 2 /\ Where(f) = w + 3 /\ Len(g.code) <= Len(f.code)
       /\ \A q \in 1..(w - 1) : f.code[q] = g.code[q]
       /\ f.code[w] = x /\ f.code[w + 1] = y /\ f.code[w + 2] = z /\ f.code # <<>> /\ Last(f.code) = z
       /\ f.labels = g.labels /\ f.loops = g.loops /\ f.blocks = g.blocks /\ f.next = g.next /\ f.max = g.max
  <2>1. w - 1 + n = w + 2 /\ w + n = w + 3 /\ w - 1 + 1 = w /\ w - 1 + 2 = w + 1 /\ w - 1 + 3 = w + 2
        /\ 1 \in 1..n /\ 2 \in 1..n /\ 3 \in 1..n
    BY <1>2, <1>10
  <2>2. f.code[w] = x /\ f.code[w + 1] = y /\ f.code[w + 2] = z
    BY <1>11, <2>1 DEF Appended
  <2>3. s[n] = z /\ z.op # "unused"
    BY <1>8, <1>10, <1>11
  <2> QED BY <1>11, <2>1, <2>2, <2>3 DEF Appended
<1>13. PICK f1 : f1 = GetLocal(f, FALSE)
  OBVIOUS
<1>14. Widened(f, f1, 1)
  <2>1. Widened(f, f1, Width(FALSE))
    BY <1>1, <1>12, <1>13, LocalIsGot
  <2> QED BY <2>1 DEF Width
<1>15. PICK loop : loop = [label |-> l, line |-> i, loc |-> loc, goto |-> w + 2]
  OBVIOUS
<1>16. loop \in LoopType /\ loop.label = l /\ loop.line = i /\ loop.loc = loc /\ loop.goto = w + 2
  BY <1>2, <1>3, <1>15 DEF LoopType
<1>17. PICK h : h = [f1 EXCEPT !.loops = Append(g.loops, loop)]
  OBVIOUS
<1>18. h = Statement(g, i)
  <2>1. g.loops = f1.loops /\ Len(f.code) = w + 2
    BY <1>12, <1>14 DEF Widened
  <2>2. h = [f1 EXCEPT !.loops = Append(@, [label |-> unit[i].to[1], line |-> i, loc |-> g.next, goto |-> Len(f.code)])]
    BY <1>4, <1>5, <1>15, <1>17, <2>1
  <2>3. f = Puts(g, <<Instr("init", i), [Instr("count", i) EXCEPT !.loc = g.next], Instr("goto", i)>>)
    BY <1>4, <1>6, <1>7, <1>9
  <2>4. h = ForLoop(g, i)
    BY <1>13, <2>2, <2>3 DEF ForLoop
  <2> QED BY <2>4 DEF Statement
<1>19. /\ Append(g.loops, loop) \in Seq(LoopType) /\ Len(Append(g.loops, loop)) = loc + 1
       /\ \A m \in 1..loc : Append(g.loops, loop)[m] = g.loops[m]
       /\ Append(g.loops, loop)[loc + 1] = loop
  <2>1. g.loops \in Seq(LoopType)
    BY <1>1 DEF GenType
  <2> QED BY <1>4, <1>16, <2>1, Added
<1>20. /\ h \in GenType /\ h.code = f.code /\ h.labels = g.labels /\ h.loops = Append(g.loops, loop) /\ h.blocks = g.blocks
       /\ h.next = loc + 1 /\ h.max = f1.max
  <2>1. /\ f1 \in GenType /\ f1.code = f.code /\ f1.labels = f.labels /\ f1.blocks = f.blocks /\ f1.next = f.next + 1
    BY <1>14 DEF Widened
  <2>2. /\ h \in GenType /\ h.code = f1.code /\ h.labels = f1.labels /\ h.loops = Append(g.loops, loop) /\ h.blocks = f1.blocks
        /\ h.next = f1.next /\ h.max = f1.max
    BY <1>17, <1>19, <2>1 DEF GenType
  <2> QED BY <1>4, <1>12, <2>1, <2>2
<1>21. h.max <= MaxLocal /\ h.next <= h.max
  <2>1. f.max <= MaxLocal /\ f1.next <= MaxLocal
    <3>1. f1.next = loc + 1
      BY <1>4, <1>12, <1>14 DEF Widened
    <3>2. loc + 1 <= MaxLocal
      BY <1>3, <1>4
    <3> QED BY <1>1, <1>12, <3>1, <3>2
  <2>2. f1.max <= MaxLocal /\ f1.max >= f1.next
    BY <1>3, <1>14, <2>1 DEF Widened
  <2>3. f1.next = h.next
    BY <1>4, <1>12, <1>14, <1>20 DEF Widened
  <2>4. h.max \in Nat /\ h.next \in Nat
    BY <1>20 DEF GenType
  <2> QED BY <1>20, <2>2, <2>3, <2>4
<1>22. Where(h) = w + 3
  BY <1>12, <1>20 DEF Where
<1>23. \A p : Waits(g, p) => Waits(h, p)
  <2>1. ASSUME NEW p, NEW m \in 1..Len(g.loops), g.loops[m].goto = p PROVE Waits(h, p)
    <3>1. m \in 1..Len(h.loops) /\ h.loops[m] = g.loops[m]
      BY <1>4, <1>19, <1>20
    <3> QED BY <2>1, <3>1 DEF Waits
  <2> QED BY <1>20, <2>1 DEF Waits
<1>24. Waits(h, w + 2)
  <2>1. loc + 1 \in 1..Len(h.loops) /\ h.loops[loc + 1] = loop
    BY <1>19, <1>20
  <2> QED BY <1>16, <2>1 DEF Waits
<1>25. Sound(h)
  <2>1. \A p \in 1..(w - 1) : Same(h.code[p], g.code[p]) /\ h.code[p].to = g.code[p].to
    <3>1. \A e \in InstrType : Same(e, e)
      BY DEF Same, InstrType
    <3>2. \A p \in 1..(w - 1) : g.code[p] \in InstrType
      BY <1>1, <1>2, CodeAt
    <3> QED BY <1>12, <1>20, <3>1, <3>2
  <2>2. ASSUME NEW p \in w..(Where(h) - 1) PROVE InstrOK(h, p)
    <3>1. p = w \/ p = w + 1 \/ p = w + 2
      <4>1. PICK y1 : y1 = Where(h) /\ p \in w..(y1 - 1)
        OBVIOUS
      <4>2. y1 = w + 3 /\ w \in Nat
        BY <1>2, <1>22, <4>1
      <4> QED BY ONLY <4>1, <4>2
    <3>2. InstrOK(h, w)
      <4>1. "init" \notin Branches
        BY DEF Branches
      <4>2. h.code[w] = x /\ 0 < MaxLocal
        BY <1>3, <1>12, <1>20
      <4> QED BY <1>8, <4>1, <4>2 DEF InstrOK
    <3>3. InstrOK(h, w + 1)
      <4>1. "count" \notin Branches
        BY DEF Branches
      <4>2. loc < MaxLocal
        BY <1>3, <1>4
      <4> QED BY <1>3, <1>8, <1>12, <1>20, <4>1, <4>2 DEF InstrOK
    <3>4. InstrOK(h, w + 2)
      <4>1. h.code[w + 2] = z /\ 0 < MaxLocal
        BY <1>3, <1>12, <1>20
      <4> QED BY <1>8, <1>24, <4>1 DEF InstrOK
    <3> QED BY <3>1, <3>2, <3>3, <3>4
  <2>3. Len(g.code) <= Len(h.code)
    BY <1>12, <1>20
  <2> QED BY <1>1, <1>2, <1>20, <1>21, <1>23, <2>1, <2>2, <2>3, SoundAfter
<1>26. Fixes(i, g.code, h.code, w)
  <2>1. \A e \in InstrType : Same(e, e)
    BY DEF Same, InstrType
  <2>2. \A p \in 1..(w - 1) : g.code[p] \in InstrType
    BY <1>1, <1>2, CodeAt
  <2> QED BY <1>12, <1>20, <2>1, <2>2 DEF Fixes
<1>27. StatementCode(h.code, i, w)
  <2>1. PICK c, kk : c = h.code /\ kk = unit[i].k /\ kk = "do"
    OBVIOUS
  <2>2. c[w] = Instr("init", i) /\ c[w + 1] = [Instr("count", i) EXCEPT !.loc = c[w + 1].loc] /\ c[w + 2] = Instr("goto", i)
    <3>1. c[w] = x /\ c[w + 1] = y /\ c[w + 2] = z
      BY <1>12, <1>20, <2>1
    <3>2. y = [Instr("count", i) EXCEPT !.loc = y.loc]
      BY <1>6, <1>8
    <3> QED BY <1>6, <3>1, <3>2, Zenon
  <2>3. Same(c[w + 2], Instr("goto", i))
    <3>1. \A e \in InstrType : Same(e, e)
      BY DEF Same, InstrType
    <3>2. Instr("goto", i) \in InstrType
      BY <1>6, <1>8
    <3> QED BY <2>2, <3>1, <3>2
  <2>4. StatementCode(c, i, w)
    BY ONLY <2>1, <2>2, <2>3, Zenon DEF StatementCode, CodeOf
  <2> QED BY <2>1, <2>4
<1>28. \A d \in DoHeads(i) : P[d] + 1 \in 1..(w - 1) /\ d # i
  <2>1. \A d \in DoHeads(i) : d \in 1..(i - 1) /\ Size(d) = 3
    BY <1>3, DoHeadsIs, SizeIs
  <2>2. \A j \in 1..(i - 1) : P[j] \in Nat \ {0} /\ P[j] + Size(j) <= P[i]
    <3>1. \A j \in 1..(i - 1) : j \in 1..i
      BY <1>3
    <3> QED BY <1>1, <3>1, Places
  <2>3. ASSUME NEW d \in DoHeads(i) PROVE P[d] + 1 \in 1..(w - 1) /\ d # i
    <3>1. P[d] \in Nat \ {0} /\ P[d] + 3 <= w /\ d \in 1..(i - 1)
      BY <1>2, <2>1, <2>2
    <3>2. d # i
      BY ONLY <1>3, <3>1
    <3>3. P[d] + 1 \in 1..(w - 1)
      BY ONLY <1>2, <3>1
    <3> QED BY <3>2, <3>3
  <2> QED BY <2>3
<1>29. LoopStack(g, P, DoHeads(i)) /\ \A d \in DoHeads(i) : h.code[P[d] + 1] = g.code[P[d] + 1]
  BY <1>1, <1>12, <1>20, <1>28
<1>30. LocalsOK(h.code, P, i)
  <2>1. ASSUME NEW e \in DoHeads(i) PROVE h.code[P[e] + 1].loc < h.code[P[i] + 1].loc
    <3>1. PICK m \in 1..Len(g.loops) : g.loops[m].line = e
      BY <1>1 DEF LoopStack
    <3>2. g.code[P[e] + 1].loc = m - 1 /\ Len(g.loops) = loc
      BY <1>1, <1>4, <3>1 DEF LoopStack
    <3>3. h.code[P[e] + 1].loc = m - 1
      BY <1>29, <3>2
    <3>4. h.code[P[i] + 1].loc = loc
      BY <1>2, <1>8, <1>12, <1>20
    <3> QED BY <3>1, <3>2, <3>3, <3>4
  <2> QED BY <2>1 DEF LocalsOK
<1>31. LoopsAt(i) \ {} = DoHeads(i) \cup {i}
  BY DEF LoopsAt
<1>32. LoopStack(h, P, DoHeads(i) \cup {i})
  <2>1. PICK t : t = h.loops
    OBVIOUS
  <2>2. h.next = Len(t) /\ Len(t) = loc + 1 /\ t[loc + 1] = loop /\ \A m \in 1..loc : t[m] = g.loops[m]
    BY <1>19, <1>20, <2>1
  <2>3. \A d \in DoHeads(i) \cup {i} : \E m \in 1..(loc + 1) : t[m].line = d
    <3>1. ASSUME NEW d \in DoHeads(i) PROVE \E m \in 1..(loc + 1) : t[m].line = d
      <4>1. PICK m \in 1..Len(g.loops) : g.loops[m].line = d
        BY <1>1 DEF LoopStack
      <4>2. m \in 1..loc /\ m \in 1..(loc + 1)
        BY <1>4
      <4> QED BY <2>2, <4>1, <4>2
    <3>2. loc + 1 \in 1..(loc + 1) /\ t[loc + 1].line = i
      BY <1>16, <2>2
    <3> QED BY <3>1, <3>2
  <2>4. ASSUME NEW m \in 1..(loc + 1)
        PROVE  /\ t[m].line \in DoHeads(i) \cup {i} /\ \A q \in 1..(m - 1) : t[q].line < t[m].line
               /\ t[m].label = unit[t[m].line].to[1] /\ t[m].loc = m - 1 /\ t[m].goto = P[t[m].line] + 2
               /\ h.code[P[t[m].line] + 1].loc = m - 1
    <3>1. CASE m \in 1..loc
      <4>1. m \in 1..Len(g.loops) /\ t[m] = g.loops[m] /\ \A q \in 1..(m - 1) : q \in 1..loc /\ t[q] = g.loops[q]
        BY <1>4, <2>2, <3>1
      <4>2. /\ t[m].line \in DoHeads(i) /\ \A q \in 1..(m - 1) : g.loops[q].line < t[m].line
            /\ t[m].label = unit[t[m].line].to[1] /\ t[m].loc = m - 1 /\ t[m].goto = P[t[m].line] + 2
            /\ g.code[P[t[m].line] + 1].loc = m - 1
        BY <1>1, <4>1 DEF LoopStack
      <4> QED BY <1>29, <4>1, <4>2
    <3>2. CASE m = loc + 1
      <4>1. \A q \in 1..loc : t[q].line < i
        <5>1. \A q \in 1..loc : t[q].line \in DoHeads(i)
          BY <1>1, <1>4, <2>2 DEF LoopStack
        <5> QED BY <1>3, <5>1, DoHeadsIs
      <4>2. t[m] = loop /\ m - 1 = loc
        BY <2>2, <3>2
      <4>3. h.code[P[i] + 1].loc = loc
        BY <1>2, <1>8, <1>12, <1>20
      <4> QED BY <1>2, <1>5, <1>16, <4>1, <4>2, <4>3
    <3> QED BY <3>1, <3>2
  <2> QED BY <2>1, <2>2, <2>3, <2>4 DEF LoopStack
<1>33. BlockStack(h, P, i + 1)
  <2>1. unit[i].k \notin {"if"} \cup Arms
    BY DEF Arms
  <2> QED BY <1>1, <1>20, <2>1, BlocksStay
<1>34. ArmsClosed(h.code, P, i, Where(h))
  <2>1. unit[i].k \notin Arms
    BY DEF Arms
  <2> QED BY <2>1, NoArm
<1>35. Chained(h.code, P, i, {}, Where(h))
  BY <1>2, <1>3, <1>22 DEF Chained
<1>36. P[i] + Size(i) <= Where(h) /\ Len(g.code) <= Len(h.code) /\ ~ (Last(h.code).op = "return")
  <2>1. P[i] = w /\ Size(i) = 3 /\ Where(h) = w + 3 /\ w \in Nat \ {0}
    BY <1>2, <1>3, <1>22
  <2>2. P[i] + Size(i) <= Where(h)
    BY ONLY <2>1
  <2>3. "goto" # "return"
    OBVIOUS
  <2> QED BY <1>8, <1>12, <1>20, <2>2, <2>3
<1>37. Part(g, h, P, i, {})
  BY <1>2, <1>20, <1>25, <1>26, <1>27, <1>30, <1>31, <1>32, <1>33, <1>34, <1>35, <1>36 DEF Part
<1> QED BY <1>18, <1>37

(* The tests and gotos of the blocks that have been read are in the code.    *)
LEMMA ArmPlaces ==
  ASSUME UnitInv, NEW i \in Lines, NEW g, NEW P, Translated(g, P, i), NEW x \in Lines, x < i
  PROVE  /\ Jumps(x) => P[x] \in 1..(Where(g) - 1) /\ Same(g.code[P[x]], Instr("goto", x))
         /\ unit[x].k \in {"if", "elseif"} =>
              TestAt(P, x) \in 1..(Where(g) - 1) /\ Same(g.code[TestAt(P, x)], Instr("test", x))
<1>1. LinesCoded(g, P, i) /\ P[i] = Where(g) /\ Lines = 1..Len(unit) /\ Len(unit) \in Nat
  BY UnitTypes DEF Translated, UnitInv
<1>2. x \in 1..(i - 1) /\ StatementCode(g.code, x, P[x])
  <2>1. x \in 1..(i - 1)
    BY <1>1
  <2> QED BY <1>1, <2>1 DEF LinesCoded
<1>3. PICK p \in Nat \ {0}, w \in Nat \ {0} : p = P[x] /\ w = Where(g) /\ p + Size(x) <= w
  <2>1. P[x] \in Nat \ {0} /\ P[i] \in Nat \ {0} /\ P[x] + Size(x) <= P[i]
    <3>1. x \in 1..i /\ i \in 1..i
      BY <1>1, <1>2
    <3> QED BY <1>1, <1>2, <3>1, Places
  <2> QED BY <1>1, <2>1
<1>4. PICK c, k : c = g.code /\ k = unit[x].k
  OBVIOUS
<1>5. StatementCode(c, x, p)
  BY <1>2, <1>3, <1>4
<1>6. ASSUME k = "if" PROVE TestAt(P, x) \in 1..(w - 1) /\ Same(c[TestAt(P, x)], Instr("test", x))
  <2>1. Same(c[p], Instr("test", x))
    BY <1>4, <1>5, <1>6 DEF StatementCode, CodeOf
  <2>2. TestAt(P, x) = p /\ Size(x) = 1
    BY <1>3, <1>4, <1>6, SizeIs DEF TestAt
  <2>3. p \in 1..(w - 1)
    BY <1>3, <2>2
  <2> QED BY <2>1, <2>2, <2>3
<1>7. ASSUME k = "elseif"
      PROVE  /\ TestAt(P, x) \in 1..(w - 1) /\ Same(c[TestAt(P, x)], Instr("test", x))
             /\ p \in 1..(w - 1) /\ Same(c[p], Instr("goto", x))
  <2>1. Same(c[p], Instr("goto", x)) /\ Same(c[p + 1], Instr("test", x))
    BY <1>4, <1>5, <1>7 DEF StatementCode, CodeOf
  <2>2. TestAt(P, x) = p + 1 /\ Size(x) = 2
    BY <1>3, <1>4, <1>7, SizeIs DEF TestAt
  <2>3. p \in 1..(w - 1) /\ p + 1 \in 1..(w - 1)
    BY <1>3, <2>2
  <2> QED BY <2>1, <2>2, <2>3
<1>8. ASSUME k = "else", ~ Empty(x) PROVE p \in 1..(w - 1) /\ Same(c[p], Instr("goto", x))
  <2>1. Same(c[p], Instr("goto", x))
    BY <1>4, <1>5, <1>8 DEF StatementCode, CodeOf
  <2>2. Size(x) = 1
    BY <1>4, <1>8, SizeIs
  <2>3. p \in 1..(w - 1)
    BY <1>3, <2>2
  <2> QED BY <2>1, <2>3
<1> QED BY <1>3, <1>4, <1>6, <1>7, <1>8 DEF Jumps

(* A line of a block that comes right after an ELSE IF or ELSE belongs to    *)
(* the same block.                                                           *)
LEMMA NewestArm ==
  ASSUME UnitInv, NEW j \in Lines, j + 1 \in Lines, unit[j].k \in {"elseif", "else"}, unit[j + 1].k \in Arms
  PROVE  unit[j + 1].of = unit[j].of
<1>1. j \in Nat \ {0} /\ j + 1 \in 1..(Len(unit) + 1)
  BY UnitTypes DEF UnitInv
<1>2. PICK x : x = [head |-> unit[j].of, arm |-> j]
  OBVIOUS
<1>3. x \in IfEntries(j + 1)
  <2>1. unit[j].k \in Arms /\ unit[j].k # "endif"
    BY DEF Arms
  <2> QED BY <1>2, <2>1, IfsAfter
<1>4. PICK e \in IfEntries(j + 1) : e.head = unit[j + 1].of /\ \A f \in IfEntries(j + 1) : f # e => f.head < e.head
  BY IfsAfter
<1>5. x = e
  <2> SUFFICES ASSUME x # e PROVE FALSE
    OBVIOUS
  <2>1. x.head < e.head
    BY <1>3, <1>4
  <2>2. PICK s : s = Open(j + 1) /\ s \in Seq(Entry)
    BY <1>1, UnitTypes DEF UnitInv
  <2>3. PICK n \in 1..Len(s), m \in 1..Len(s) : x = s[n] /\ e = s[m]
    BY <1>3, <1>4, <2>2 DEF IfEntries
  <2>4. n < m
    <3>1. ~ (s[m].head < s[n].head)
      <4>1. s[n] \in Entry /\ s[m] \in Entry
        BY <2>2, Element
      <4> QED BY <2>1, <2>3, <4>1 DEF Entry
    <3>2. \A q \in 1..(n - 1) : s[q].head < s[n].head
      BY <1>1, <2>2, HeadsRise
    <3>3. n # m /\ n \in Nat /\ m \in Nat
      BY <2>2, <2>3
    <3> QED BY <3>1, <3>2, <3>3
  <2>5. s[n].arm < s[m].head
    <3>1. OpenOK(s, m)
      BY <1>1, <2>2 DEF UnitInv, Stacks, StackOK
    <3>2. n \in 1..(m - 1)
      BY <2>2, <2>4
    <3> QED BY <3>1, <3>2 DEF OpenOK
  <2>6. s[m].head \in 1..s[m].arm /\ s[m].arm \in 1..(j + 1 - 1)
    BY <1>1, <2>2, HeadsRise
  <2>7. s[n].arm = j
    BY <1>2, <2>3
  <2> QED BY <1>1, <2>5, <2>6, <2>7
<1> QED BY <1>2, <1>4, <1>5

(* The arm before a line of a block.                                         *)
ArmBefore(i, e) ==
  /\ e.arm \in 1..(i - 1) /\ e.arm \in Lines /\ e.head \in Lines /\ e.head < i /\ HeadOf(e.arm) = e.head
  /\ unit[e.arm].k \in {"if", "elseif", "else"} /\ i \in Nat /\ i - 1 \in Lines
  /\ \A a \in 1..(i - 1) : NextOne(a, i) => a = e.arm
  /\ Empty(i - 1) => e.arm = i - 1
  /\ Empty(e.arm) => e.arm = i - 1 /\ unit[i].k = "endif"
(* The arm before an arm: it is the one that is open.                       *)
LEMMA ArmBeforeIs ==
  ASSUME UnitInv, NEW i \in Lines, unit[i].k \in Arms, NEW e \in IfEntries(i), e.head = unit[i].of, NextOne(e.arm, i)
  PROVE  ArmBefore(i, e)
<1>1. Lines = 1..Len(unit) /\ Len(unit) \in Nat /\ i \in Nat \ {0} /\ i \in 1..(Len(unit) + 1)
  BY UnitTypes DEF UnitInv
<1>2. /\ e.head \in 1..e.arm /\ e.arm \in 1..(i - 1) /\ e.head \in Lines /\ e.arm \in Lines /\ e.head < i
      /\ e.head \in Nat /\ e.arm \in Nat
      /\ unit[e.head].k = "if" /\ HeadOf(e.arm) = e.head /\ unit[e.arm].k \in {"if", "elseif", "else"}
      /\ (unit[e.arm].k = "if" => e.arm = e.head) /\ (unit[e.arm].k # "if" => unit[e.arm].of = e.head)
      /\ Latest(e, i)
  <2>1. e \in Entries(i) /\ unit[e.head].k = "if"
    <3>1. IfEntries(i) = {f \in Entries(i) : unit[f.head].k = "if"}
      BY <1>1, EntriesAre
    <3> QED BY <3>1
  <2> QED BY <1>1, <2>1, EntriesAre
<1>3. i - 1 \in Lines /\ i - 1 + 1 = i
  BY <1>1, <1>2
<1>4. ASSUME NEW a \in 1..(i - 1), NextOne(a, i) PROVE a = e.arm
  <2>1. HeadOf(a) = e.head /\ \A m \in (a + 1)..(i - 1) : unit[m].of # e.head
    BY <1>4 DEF NextOne
  <2>2. \A m \in (e.arm + 1)..(i - 1) : unit[m].of # e.head
    BY <1>2 DEF NextOne
  <2>3. CASE a > e.arm
    <3>1. a \in (e.arm + 1)..(i - 1)
      BY <1>1, <1>2, <2>3
    <3>2. a = e.head
      BY <2>1, <2>2, <3>1 DEF HeadOf
    <3> QED BY <1>1, <1>2, <2>3, <3>2
  <2>4. CASE a < e.arm
    <3>1. e.arm \in (a + 1)..(i - 1)
      BY <1>1, <1>2, <2>4
    <3>2. e.arm = e.head
      BY <1>2, <2>1, <3>1
    <3>3. unit[a].of = e.head
      BY <2>1, <2>4, <3>2 DEF HeadOf
    <3>4. a \in Lines
      BY <1>1
    <3>5. unit[a].of = 0 \/ unit[a].of \in 1..(a - 1)
      BY <3>4, Continuing, OfBefore
    <3> QED BY <1>1, <1>2, <2>4, <3>2, <3>3, <3>5
  <2> QED BY <1>1, <1>2, <2>3, <2>4
<1>5. ASSUME Empty(i - 1) PROVE e.arm = i - 1
  <2>1. unit[i - 1].k \in {"elseif", "else"} /\ unit[i - 1 + 1].k \in Arms /\ i - 1 + 1 \in Lines
    BY <1>3, <1>5 DEF Empty
  <2>2. unit[i - 1 + 1].of = unit[i - 1].of
    BY <1>3, <2>1, NewestArm
  <2>3. unit[i - 1].of = e.head /\ i - 1 < i
    BY <1>1, <1>3, <2>2
  <2>4. i - 1 <= e.arm
    BY <1>2, <1>3, <2>3 DEF Latest
  <2> QED BY <1>1, <1>2, <2>4
<1>6. ASSUME Empty(e.arm) PROVE e.arm = i - 1 /\ unit[i].k = "endif"
  <2>1. unit[e.arm].k = "else" /\ unit[e.arm + 1].k = "endif" /\ e.arm + 1 \in Lines
    BY <1>1, <1>2, <1>6 DEF Empty
  <2>2. unit[e.arm + 1].of = unit[e.arm].of
    BY <1>2, <2>1, NewestArm DEF Arms
  <2>3. ~ (e.arm + 1 < i)
    BY <1>2, <2>1, <2>2 DEF Latest
  <2>4. e.arm + 1 = i /\ e.arm = i - 1
    BY <1>1, <1>2, <2>3
  <2> QED BY <2>1, <2>4
<1> QED BY <1>1, <1>2, <1>3, <1>4, <1>5, <1>6 DEF ArmBefore

(* The innermost block is on top of the stack.                               *)
LEMMA TopBlock ==
  ASSUME UnitInv, NEW i \in Lines, NEW g \in GenType, NEW P, BlockStack(g, P, i), NEW e \in IfEntries(i),
         \A f \in IfEntries(i) : f # e => f.head < e.head
  PROVE  /\ Len(g.blocks) \in Nat \ {0} /\ g.blocks \in Seq(BlockType) /\ g.blocks # <<>>
         /\ Last(g.blocks) = g.blocks[Len(g.blocks)] /\ Last(g.blocks) \in BlockType
         /\ BlockIs(P, i, e, Last(g.blocks))
         /\ \A m \in 1..(Len(g.blocks) - 1) : \E f \in IfEntries(i) : f # e /\ f.head < e.head /\ BlockIs(P, i, f, g.blocks[m])
         /\ \A f \in IfEntries(i) : f # e => \E m \in 1..(Len(g.blocks) - 1) : g.blocks[m].line = f.head
<1> PICK s \in Seq(BlockType) : s = g.blocks
  BY DEF GenType
<1>1. PICK n \in Nat : n = Len(s)
  OBVIOUS
<1>2. /\ \A m \in 1..n : /\ \E f \in IfEntries(i) : BlockIs(P, i, f, s[m])
                         /\ \A q \in 1..(m - 1) : s[q].line < s[m].line
      /\ \A f \in IfEntries(i) : \E m \in 1..n : s[m].line = f.head
  BY <1>1 DEF BlockStack
<1>3. \A f \in IfEntries(i) : f.head \in Nat
  <2>1. i \in 1..(Len(unit) + 1)
    BY UnitTypes DEF UnitInv
  <2>2. IfEntries(i) \subseteq Entries(i)
    BY <2>1, EntriesAre
  <2> QED BY <2>1, <2>2, EntriesAre
<1>4. PICK t \in 1..n : s[t].line = e.head
  BY <1>2
<1>5. t = n
  <2> SUFFICES ASSUME t # n PROVE FALSE
    OBVIOUS
  <2>1. n \in 1..n /\ t \in 1..(n - 1)
    BY <1>1, <1>4
  <2>2. s[t].line < s[n].line
    BY <1>2, <2>1
  <2>3. PICK f \in IfEntries(i) : s[n].line = f.head
    BY <1>2, <2>1 DEF BlockIs
  <2>4. f.head < e.head \/ f.head = e.head
    OBVIOUS
  <2> QED BY <1>3, <1>4, <2>2, <2>3, <2>4
<1>6. n \in 1..n /\ n \in Nat \ {0} /\ s # <<>> /\ Last(s) = s[n] /\ s[n] \in BlockType
  BY <1>1, <1>5, Element DEF Last
<1>7. BlockIs(P, i, e, s[n])
  <2>1. PICK f \in IfEntries(i) : BlockIs(P, i, f, s[n])
    BY <1>2, <1>6
  <2>2. f.head = e.head
    BY <1>4, <1>5, <2>1 DEF BlockIs
  <2>3. f = e
    BY <1>3, <2>2
  <2> QED BY <2>1, <2>3
<1>8. ASSUME NEW m \in 1..(n - 1) PROVE \E f \in IfEntries(i) : f # e /\ f.head < e.head /\ BlockIs(P, i, f, s[m])
  <2>1. m \in 1..n /\ m \in 1..(n - 1)
    BY <1>1
  <2>2. PICK f \in IfEntries(i) : BlockIs(P, i, f, s[m])
    BY <1>2, <2>1
  <2>3. s[m].line < s[n].line
    BY <1>2, <1>6
  <2>4. f # e
    BY <1>3, <1>4, <1>5, <2>2, <2>3 DEF BlockIs
  <2> QED BY <2>2, <2>4
<1>9. ASSUME NEW f \in IfEntries(i), f # e PROVE \E m \in 1..(n - 1) : s[m].line = f.head
  <2>1. PICK m \in 1..n : s[m].line = f.head
    BY <1>2
  <2>2. m # n
    BY <1>3, <1>4, <1>5, <1>9, <2>1
  <2> QED BY <1>1, <2>1, <2>2
<1> QED BY <1>1, <1>6, <1>7, <1>8, <1>9

(* The stack after a line of a block.                                        *)
LEMMA BlocksNext ==
  ASSUME UnitInv, NEW i \in Lines, NEW g \in GenType, NEW h \in GenType, NEW P, BlockStack(g, P, i), NEW e \in IfEntries(i),
         e.head = unit[i].of, \A f \in IfEntries(i) : f # e => f.head < e.head, NEW n, n = Len(g.blocks),
         \A m \in 1..(n - 1) : h.blocks[m] = g.blocks[m],
         \/ Len(h.blocks) = n - 1 /\ IfEntries(i + 1) = IfEntries(i) \ {e} /\ unit[i].k = "endif"
         \/ \E x : /\ Len(h.blocks) = n /\ IfEntries(i + 1) = (IfEntries(i) \ {e}) \cup {x}
                   /\ x.head = e.head /\ BlockIs(P, i + 1, x, h.blocks[n])
  PROVE  BlockStack(h, P, i + 1)
<1>1. /\ n \in Nat \ {0}
      /\ \A m \in 1..(n - 1) : \E f \in IfEntries(i) : f # e /\ f.head < e.head /\ BlockIs(P, i, f, g.blocks[m])
      /\ \A f \in IfEntries(i) : f # e => \E m \in 1..(n - 1) : g.blocks[m].line = f.head
  BY TopBlock
<1>2. ASSUME NEW f \in IfEntries(i), f.head < e.head, NEW b, BlockIs(P, i, f, b) PROVE BlockIs(P, i + 1, f, b)
  <2>1. \A y \in Lines : unit[y].of = f.head => (y < i + 1 <=> y < i)
    <3>1. f.head \in Nat /\ e.head \in Nat /\ i \in Nat /\ \A y \in Lines : y \in Nat
      <4>1. i \in 1..(Len(unit) + 1) /\ \A y \in Lines : y \in Nat
        BY UnitTypes DEF UnitInv
      <4>2. IfEntries(i) \subseteq Entries(i)
        BY <4>1, EntriesAre
      <4> QED BY <4>1, <4>2, EntriesAre
    <3>2. unit[i].of # f.head
      BY <1>2, <3>1
    <3> QED BY <3>1, <3>2
  <2>2. Leaves(f.head, i + 1) = Leaves(f.head, i)
    BY <2>1 DEF Leaves
  <2> QED BY <1>2, <2>2 DEF BlockIs
<1>3. \A m \in 1..(n - 1) : \E f \in IfEntries(i) : f # e /\ f.head < e.head /\ BlockIs(P, i + 1, f, h.blocks[m]) /\ h.blocks[m].line = f.head
  <2> TAKE m \in 1..(n - 1)
  <2>1. PICK f \in IfEntries(i) : f # e /\ f.head < e.head /\ BlockIs(P, i, f, g.blocks[m])
    BY <1>1
  <2>2. BlockIs(P, i + 1, f, h.blocks[m])
    BY <1>2, <2>1
  <2> QED BY <2>1, <2>2 DEF BlockIs
<1>4. \A m \in 1..(n - 1) : \A q \in 1..(m - 1) : h.blocks[q].line < h.blocks[m].line
  <2>1. ASSUME NEW m \in 1..(n - 1), NEW q \in 1..(m - 1) PROVE h.blocks[q].line < h.blocks[m].line
    <3>1. m \in 1..Len(g.blocks) /\ q \in 1..(n - 1)
      BY <1>1
    <3>2. g.blocks[q].line < g.blocks[m].line
      BY <3>1 DEF BlockStack
    <3> QED BY <3>1, <3>2
  <2> QED BY <2>1
<1>5. \A f \in IfEntries(i) : f # e => \E m \in 1..(n - 1) : h.blocks[m].line = f.head
  BY <1>1
<1>6. CASE Len(h.blocks) = n - 1 /\ IfEntries(i + 1) = IfEntries(i) \ {e}
  <2>1. \A m \in 1..(n - 1) : \E f \in IfEntries(i + 1) : BlockIs(P, i + 1, f, h.blocks[m])
    BY <1>3, <1>6
  <2>2. \A f \in IfEntries(i + 1) : \E m \in 1..(n - 1) : h.blocks[m].line = f.head
    BY <1>5, <1>6
  <2> QED BY <1>4, <1>6, <2>1, <2>2 DEF BlockStack
<1>7. ASSUME NEW x, Len(h.blocks) = n, IfEntries(i + 1) = (IfEntries(i) \ {e}) \cup {x},
             x.head = e.head, BlockIs(P, i + 1, x, h.blocks[n])
      PROVE  BlockStack(h, P, i + 1)
  <2>1. \A m \in 1..n : m \in 1..(n - 1) \/ m = n
    BY <1>1
  <2>2. \A m \in 1..(n - 1) : m \in 1..n
    BY <1>1
  <2>3. n \in 1..n
    BY <1>1
  <2>4. \A m \in 1..n : \E f \in IfEntries(i + 1) : BlockIs(P, i + 1, f, h.blocks[m])
    BY <1>3, <1>7, <2>1
  <2>5. h.blocks[n].line = e.head
    BY <1>7 DEF BlockIs
  <2>6. \A m \in 1..n : \A q \in 1..(m - 1) : h.blocks[q].line < h.blocks[m].line
    <3>1. \A q \in 1..(n - 1) : h.blocks[q].line < h.blocks[n].line
      BY <1>3, <2>5
    <3> QED BY <1>4, <2>1, <3>1
  <2>7. \A f \in IfEntries(i + 1) : \E m \in 1..n : h.blocks[m].line = f.head
    BY <1>5, <1>7, <2>2, <2>3, <2>5
  <2> QED BY <1>7, <2>4, <2>6, <2>7 DEF BlockStack
<1> QED BY <1>6, <1>7

(* A change of the block on top.                                             *)
Topped(g, h, n, b) ==
  /\ h \in GenType /\ h.code = g.code /\ h.labels = g.labels /\ h.loops = g.loops /\ h.next = g.next /\ h.max = g.max
  /\ h.line = g.line /\ h.range = g.range /\ Where(h) = Where(g)
  /\ Len(h.blocks) = n /\ h.blocks[n] = b /\ h.blocks # <<>> /\ Last(h.blocks) = b
  /\ \A m \in 1..(n - 1) : h.blocks[m] = g.blocks[m]
(* Replacing the innermost block.                                           *)
LEMMA TopIsSet ==
  ASSUME NEW g \in GenType, NEW n \in Nat \ {0}, n = Len(g.blocks), NEW b \in BlockType, NEW h, h = SetTop(g, b)
  PROVE  Topped(g, h, n, b)
<1> PICK s \in Seq(BlockType) : s = g.blocks
  BY DEF GenType
<1>1. PICK t : t = Append(Front(s), b)
  OBVIOUS
<1>2. Front(s) \in Seq(BlockType) /\ Len(Front(s)) = n - 1 /\ \A m \in 1..(n - 1) : Front(s)[m] = s[m]
  <2>1. n - 1 \in 0..Len(s)
    OBVIOUS
  <2>2. Front(s) = SubSeq(s, 1, n - 1)
    BY DEF Front
  <2> QED BY <2>1, <2>2, Prefix
<1>3. t \in Seq(BlockType) /\ Len(t) = n /\ t[n] = b /\ \A m \in 1..(n - 1) : t[m] = s[m]
  <2>1. n - 1 + 1 = n
    OBVIOUS
  <2> QED BY <1>1, <1>2, <2>1, Added
<1>4. t # <<>> /\ Last(t) = b
  BY <1>3 DEF Last
<1>5. h = [g EXCEPT !.blocks = t]
  BY <1>1 DEF SetTop
<1>6. /\ h \in GenType /\ h.code = g.code /\ h.labels = g.labels /\ h.loops = g.loops /\ h.next = g.next /\ h.max = g.max
      /\ h.line = g.line /\ h.range = g.range /\ h.blocks = t
  BY <1>3, <1>5 DEF GenType
<1> QED BY <1>3, <1>4, <1>6 DEF Topped, Where

(* The end of an arm.                                                        *)
ArmClosed(g, h, i, w, n, b) ==
  /\ h \in GenType /\ Len(h.code) = w + 1 /\ Where(h) = w + 1 /\ Len(g.code) <= Len(h.code)
  /\ h.code # <<>> /\ Last(h.code).op = "unused"
  /\ \A q \in 1..(w - 1) : q # b.test => h.code[q] = g.code[q]
  /\ Same(h.code[b.test], g.code[b.test]) /\ h.code[b.test].to = w + 1
  /\ h.code[w] = Instr("goto", i)
  /\ h.labels = g.labels /\ h.loops = g.loops /\ h.next = g.next /\ h.max = g.max
  /\ Len(h.blocks) = n /\ Last(h.blocks) = h.blocks[n] /\ h.blocks # <<>> /\ h.blocks[n] \in BlockType
  /\ h.blocks[n].line = b.line /\ h.blocks[n].test = 0 /\ h.blocks[n].gotos = b.gotos \cup {w}
  /\ \A m \in 1..(n - 1) : h.blocks[m] = g.blocks[m]
(* What closing an arm appends and fixes.                                   *)
LEMMA CloseArmIs ==
  ASSUME NEW i \in Nat, NEW g \in GenType, NEW w, w = Where(g), NEW n \in Nat \ {0}, n = Len(g.blocks),
         NEW b \in BlockType, b = Last(g.blocks), b.test \in 1..(w - 1), NEW h, h = CloseArm(g, i)
  PROVE  ArmClosed(g, h, i, w, n, b)
<1>1. w \in Nat \ {0} /\ Len(g.code) \in Nat
  BY CodeAt
<1>2. PICK y, s, f : y = Instr("goto", i) /\ s = <<y, Hole>> /\ f = Puts(g, s)
  OBVIOUS
<1>3. y \in InstrType /\ s \in Seq(InstrType) /\ Len(s) = 2 /\ s[1] = y /\ s[2] = Hole
  <2>1. y \in InstrType
    BY <1>2, InstrTypes DEF Ops
  <2> QED BY <1>2, <2>1, HoleIs
<1>4. PICK two \in Nat \ {0} : two = 2
  OBVIOUS
<1>5. Appended(g, f, s, w, two)
  BY <1>2, <1>3, <1>4, CodePuts
<1>6. /\ f \in GenType /\ Len(f.code) = w + 1 /\ Where(f) = w + 1 /\ Len(g.code) <= Len(f.code)
      /\ \A q \in 1..(w - 1) : f.code[q] = g.code[q]
      /\ f.code[w] = y /\ f.code # <<>> /\ Last(f.code) = Hole
      /\ f.labels = g.labels /\ f.loops = g.loops /\ f.blocks = g.blocks /\ f.next = g.next /\ f.max = g.max
  <2>1. w - 1 + two = w + 1 /\ w - 1 + 1 = w /\ 1 \in 1..two /\ w + 1 - 1 + 1 = w + 1
    BY ONLY <1>1, <1>4
  <2>2. f.code[w] = y
    BY <1>3, <1>5, <2>1 DEF Appended
  <2>3. s[two] = Hole
    BY <1>3, <1>4
  <2> QED BY <1>5, <2>1, <2>2, <2>3, HoleIs DEF Appended
<1>7. PICK t \in Nat : t = b.test /\ t \in 1..(w - 1)
  BY <1>1
<1>8. PICK f1 : f1 = [f EXCEPT !.code[t].to = w + 1]
  OBVIOUS
<1>9. t \in 1..Len(f.code) /\ w + 1 \in Nat /\ t # w /\ w \in 1..Len(f.code) /\ \A q \in 1..(w - 1) : q \in 1..Len(f.code)
  BY <1>1, <1>6, <1>7
<1>10. Fixed(f, f1, t, w + 1)
  BY <1>6, <1>8, <1>9, CodeFixed
<1>11. PICK u \in SUBSET Nat : u = b.gotos \cup {w}
  BY <1>1 DEF BlockType
<1>12. PICK c : c = [b EXCEPT !.test = 0, !.gotos = u]
  OBVIOUS
<1>25. c \in BlockType /\ c.line = b.line /\ c.test = 0 /\ c.gotos = b.gotos \cup {w}
  <2>1. c \in BlockType /\ c.line = b.line /\ c.test = 0 /\ c.gotos = u
    BY <1>12 DEF BlockType
  <2> QED BY <1>11, <2>1
<1>26. c = [b EXCEPT !.test = 0, !.gotos = @ \cup {w}]
  <2>1. [b EXCEPT !.test = 0, !.gotos = @ \cup {w}] = [b EXCEPT !.test = 0, !.gotos = b.gotos \cup {w}]
    BY DEF BlockType
  <2> QED BY <1>11, <1>12, <2>1, Zenon
<1>13. h = SetTop(f1, c)
  <2>1. f1 = [f EXCEPT !.code[b.test].to = Where(g) + 1]
    BY <1>7, <1>8
  <2>2. c = [b EXCEPT !.test = 0, !.gotos = @ \cup {Where(g)}]
    BY <1>26
  <2>3. f = Puts(g, <<Instr("goto", i), Hole>>)
    BY <1>2
  <2>4. CloseArm(g, i) = SetTop([f EXCEPT !.code[b.test].to = Where(g) + 1], [b EXCEPT !.test = 0, !.gotos = @ \cup {Where(g)}])
    BY <2>3 DEF CloseArm
  <2> QED BY <2>1, <2>2, <2>4
<1>14. f1 \in GenType /\ n = Len(f1.blocks) /\ f1.blocks = g.blocks
  BY <1>6, <1>10 DEF Fixed
<1>15. Topped(f1, h, n, c)
  BY <1>13, <1>14, <1>25, TopIsSet
<1>16. /\ h \in GenType /\ h.code = f1.code /\ h.labels = f1.labels /\ h.loops = f1.loops /\ h.next = f1.next /\ h.max = f1.max
       /\ Where(h) = Where(f1)
       /\ Len(h.blocks) = n /\ h.blocks[n] = c /\ h.blocks # <<>> /\ Last(h.blocks) = c
       /\ \A m \in 1..(n - 1) : h.blocks[m] = f1.blocks[m]
  BY <1>15 DEF Topped
<1>17. /\ Len(h.code) = w + 1 /\ Where(h) = w + 1 /\ h.code # <<>> /\ Last(h.code).op = "unused"
       /\ h.labels = g.labels /\ h.loops = g.loops /\ h.next = g.next /\ h.max = g.max /\ Len(g.code) <= Len(h.code)
  <2>1. /\ Len(f1.code) = Len(f.code) /\ Where(f1) = Where(f) /\ f1.code # <<>> /\ Last(f1.code).op = Last(f.code).op
        /\ f1.labels = f.labels /\ f1.loops = f.loops /\ f1.next = f.next /\ f1.max = f.max
    BY <1>10 DEF Fixed
  <2> QED BY <1>6, <1>16, <2>1, HoleIs
<1>18. \A q \in 1..(w - 1) : q # t => h.code[q] = g.code[q]
  <2>1. \A q \in 1..Len(f.code) : q # t => f1.code[q] = f.code[q]
    BY <1>10 DEF Fixed
  <2> QED BY <1>6, <1>9, <1>16, <2>1
<1>19. h.code[w] = y
  <2>1. \A q \in 1..Len(f.code) : q # t => f1.code[q] = f.code[q]
    BY <1>10 DEF Fixed
  <2> QED BY <1>6, <1>9, <1>16, <2>1
<1>20. Same(h.code[t], g.code[t]) /\ h.code[t].to = w + 1
  <2>1. Same(f1.code[t], f.code[t]) /\ f1.code[t].to = w + 1
    BY <1>10 DEF Fixed
  <2> QED BY <1>6, <1>7, <1>16, <2>1
<1>21. h.blocks[n].line = b.line /\ h.blocks[n].test = 0 /\ h.blocks[n].gotos = b.gotos \cup {w} /\ h.blocks[n] \in BlockType
  BY <1>16, <1>25
<1>22. /\ \A q \in 1..(w - 1) : q # b.test => h.code[q] = g.code[q]
       /\ Same(h.code[b.test], g.code[b.test]) /\ h.code[b.test].to = w + 1
  BY <1>7, <1>18, <1>20
<1>23. /\ Len(h.blocks) = n /\ Last(h.blocks) = h.blocks[n] /\ h.blocks # <<>> /\ h \in GenType
       /\ \A m \in 1..(n - 1) : h.blocks[m] = g.blocks[m]
  BY <1>14, <1>16
<1>24. h.code[w] = Instr("goto", i)
  BY <1>2, <1>19
<1> QED BY <1>17, <1>21, <1>22, <1>23, <1>24 DEF ArmClosed

(* A line of a block: what it appends, and the branches that it sets.        *)
LEMMA ArmPart ==
  ASSUME UnitInv, NEW i \in Lines, unit[i].k \in {"if"} \cup Arms, NEW g, NEW P, Translated(g, P, i),
         NEW h \in GenType, NEW w, w = Where(g), Len(g.code) <= Len(h.code),
         \A p \in 1..(w - 1) : /\ Same(h.code[p], g.code[p])
                               /\ h.code[p] = g.code[p] \/ (Fixable(i, g.code[p]) /\ g.code[p].lab = 0 /\ h.code[p].to \in 1..Len(h.code))
                               /\ Waits(g, p) => Waits(h, p) \/ h.code[p].to \in 1..Len(h.code),
         \A p \in w..(Where(h) - 1) : InstrOK(h, p),
         h.loops = g.loops, h.next = g.next, h.max = g.max, h.labels = g.labels,
         StatementCode(h.code, i, P[i]), P[i] + Size(i) <= Where(h),
         IF unit[i].k = "endif"
         THEN Where(h) = P[i] \/ (Where(h) = P[i] + 1 /\ h.code[P[i]] = [Instr("goto", i) EXCEPT !.to = Where(h)])
         ELSE Where(h) = P[i] + Size(i),
         BlockStack(h, P, i + 1), ArmsClosed(h.code, P, i, Where(h)),
         h.code # <<>> /\ Last(h.code).op = "return" => Empty(i)
  PROVE  Part(g, h, P, i, {})
<1>1. /\ Sound(g) /\ LinesCoded(g, P, i) /\ P[i] = w /\ LoopStack(g, P, DoHeads(i)) /\ g \in GenType
      /\ g.max <= MaxLocal /\ g.next <= g.max
  BY DEF Translated, Sound
<1>2. i \in Nat \ {0} /\ i \in 1..(Len(unit) + 1) /\ unit[i].k \notin {"do", "cgoto", "agoto", "aif", "aifwide"}
  BY UnitTypes DEF UnitInv, Arms
<1>3. Sound(h)
  <2>1. \A p \in 1..(w - 1) : /\ Same(h.code[p], g.code[p])
                              /\ h.code[p].to = g.code[p].to \/ (g.code[p].lab = 0 /\ h.code[p].to \in 1..Len(h.code))
                              /\ Waits(g, p) => Waits(h, p) \/ g.code[p].lab # 0 \/ h.code[p].to \in 1..Len(h.code)
    OBVIOUS
  <2> QED BY <1>1, <2>1, SoundAfter
<1>4. Fixes(i, g.code, h.code, P[i])
  BY <1>1 DEF Fixes
<1>5. LocalsOK(h.code, P, i)
  BY <1>2 DEF LocalsOK
<1>6. LoopStack(h, P, LoopsAt(i) \ {})
  <2>1. LoopsAt(i) \ {} = DoHeads(i)
    BY <1>2 DEF LoopsAt
  <2>2. ASSUME NEW d \in DoHeads(i) PROVE h.code[P[d] + 1].loc = g.code[P[d] + 1].loc
    <3>1. d \in 1..(i - 1) /\ Size(d) = 3
      BY <1>2, DoHeadsIs, SizeIs
    <3>2. d \in 1..i /\ P[d] + Size(d) <= P[i] /\ P[d] \in Nat \ {0} /\ P[i] \in Nat
      <4>1. /\ \A j \in 1..i : P[j] \in Nat \ {0}
            /\ \A j \in 1..(i - 1) : P[j] + Size(j) <= P[i]
        BY <1>1, Places
      <4>2. d \in 1..i /\ i \in 1..i
        BY <1>2, <3>1
      <4> QED BY <3>1, <4>1, <4>2
    <3>3. P[d] + 1 \in 1..(w - 1)
      <4>1. P[d] + 3 <= w /\ P[d] \in Nat \ {0} /\ w \in Nat
        BY <1>1, <3>1, <3>2
      <4> QED BY ONLY <4>1
    <3>4. g.code[P[d] + 1] \in InstrType
      BY <1>1, <3>3, CodeAt
    <3>5. Same(h.code[P[d] + 1], g.code[P[d] + 1])
      BY <3>3
    <3>6. PICK x, y : x = g.code[P[d] + 1] /\ y = h.code[P[d] + 1]
      OBVIOUS
    <3>7. y = [x EXCEPT !.to = y.to] /\ x \in InstrType
      BY <3>4, <3>5, <3>6 DEF Same
    <3>8. y.loc = x.loc
      BY ONLY <3>7 DEF InstrType
    <3> QED BY <3>6, <3>8
  <2> QED BY <1>1, <2>1, <2>2, LoopsStay
<1>7. unit[i].k # "endif" => Chained(h.code, P, i, {}, Where(h))
  BY DEF Chained
<1> QED BY <1>3, <1>4, <1>5, <1>6, <1>7 DEF Part

(* A block IF.                                                               *)
LEMMA IfPart ==
  ASSUME UnitInv, phase # "read", NEW i \in Lines, NEW g, NEW P, Translated(g, P, i), unit[i].k = "if"
  PROVE  Part(g, Statement(g, i), P, i, {})
<1>1. /\ Sound(g) /\ LinesCoded(g, P, i) /\ P[i] = Where(g) /\ g \in GenType /\ g.max <= MaxLocal /\ g.next <= g.max
      /\ BlockStack(g, P, i)
  BY DEF Translated, Sound
<1>2. PICK w : w = P[i] /\ w = Where(g) /\ w \in Nat \ {0}
  BY <1>1, CodeAt
<1>3. i \in Nat \ {0} /\ MaxLocal \in Nat \ {0} /\ i \in 1..(Len(unit) + 1) /\ Size(i) = 1 /\ i < i + 1
      /\ \A y \in Lines : y \in Nat
  BY LineIs, SizeIs
<1>30. PICK one \in Nat \ {0} : one = 1
  OBVIOUS
<1>4. PICK x, s, f : x = Instr("test", i) /\ s = <<x>> /\ f = Puts(g, s) /\ one = 1
  BY <1>30
<1>5. x \in InstrType /\ x.op = "test" /\ x.line = i /\ x.loc = 0 /\ x.lab = 0 /\ ~ x.wide
  <2>1. x \in InstrType
    BY <1>3, <1>4, InstrTypes DEF Ops
  <2> QED BY <1>4, <2>1 DEF Instr
<1>6. Appended(g, f, s, w, one) /\ s[one] = x /\ s[1] = x
  <2>1. s \in Seq(InstrType) /\ Len(s) = one /\ s[1] = x
    BY <1>4, <1>5
  <2> QED BY <1>1, <1>2, <1>4, <2>1, CodePuts
<1>7. /\ f \in GenType /\ Len(f.code) = w /\ Where(f) = w + 1 /\ Len(g.code) <= Len(f.code)
      /\ \A q \in 1..(w - 1) : f.code[q] = g.code[q]
      /\ f.code[w] = x /\ f.code # <<>> /\ Last(f.code) = x
      /\ f.labels = g.labels /\ f.loops = g.loops /\ f.blocks = g.blocks /\ f.next = g.next /\ f.max = g.max
  <2>1. w - 1 + one = w /\ w + one = w + 1 /\ w - 1 + 1 = w /\ 1 \in 1..one
    BY <1>2, <1>4
  <2>2. f.code[w] = x
    BY <1>6, <2>1 DEF Appended
  <2> QED BY <1>5, <1>6, <2>1, <2>2 DEF Appended
<1>8. PICK b : b = [line |-> i, test |-> w, gotos |-> {}]
  OBVIOUS
<1>9. b \in BlockType /\ b.line = i /\ b.test = w /\ b.gotos = {}
  BY <1>2, <1>3, <1>8 DEF BlockType
<1>10. PICK n \in Nat : n = Len(g.blocks) /\ g.blocks \in Seq(BlockType)
  BY <1>1 DEF GenType
<1>11. PICK t : t = Append(g.blocks, b)
  OBVIOUS
<1>12. t \in Seq(BlockType) /\ Len(t) = n + 1 /\ t[n + 1] = b /\ \A m \in 1..n : t[m] = g.blocks[m]
  BY <1>9, <1>10, <1>11, Added
<1>13. PICK h : h = [f EXCEPT !.blocks = t]
  OBVIOUS
<1>14. h = Statement(g, i)
  <2>1. h = [f EXCEPT !.blocks = Append(@, b)]
    BY <1>7, <1>11, <1>13
  <2>2. h = BlockIf(g, i)
    BY <1>2, <1>4, <1>8, <2>1 DEF BlockIf
  <2> QED BY <2>2 DEF Statement
<1>15. /\ h \in GenType /\ h.code = f.code /\ h.labels = g.labels /\ h.loops = g.loops /\ h.blocks = t
       /\ h.next = g.next /\ h.max = g.max /\ Where(h) = w + 1
  <2>1. /\ h \in GenType /\ h.code = f.code /\ h.labels = f.labels /\ h.loops = f.loops /\ h.blocks = t
        /\ h.next = f.next /\ h.max = f.max
    BY <1>7, <1>12, <1>13 DEF GenType
  <2> QED BY <1>7, <2>1 DEF Where
<1>16. \A p : Waits(g, p) => Waits(h, p)
  <2>1. \A m \in 1..n : m \in 1..Len(h.blocks) /\ h.blocks[m] = g.blocks[m]
    BY <1>12, <1>15
  <2> QED BY <1>10, <1>15, <2>1 DEF Waits
<1>17. InstrOK(h, w)
  <2>1. n + 1 \in 1..Len(h.blocks) /\ h.blocks[n + 1].test = w
    BY <1>9, <1>12, <1>15
  <2>2. Waits(h, w)
    BY <2>1 DEF Waits
  <2>3. h.code[w] = x /\ 0 < MaxLocal
    BY <1>3, <1>7, <1>15
  <2> QED BY <1>5, <2>2, <2>3 DEF InstrOK
<1>18. \A p \in w..(Where(h) - 1) : InstrOK(h, p)
  <2>1. \A p \in w..(w + 1 - 1) : p = w
    BY ONLY <1>2
  <2>2. PICK y : y = Where(h) /\ y = w + 1
    BY <1>15
  <2>3. \A p \in w..(y - 1) : p = w
    BY ONLY <1>2, <2>2
  <2>4. \A p \in w..(y - 1) : InstrOK(h, p)
    BY <1>17, <2>3
  <2> QED BY <2>2, <2>4
<1>19. \A p \in 1..(w - 1) : /\ Same(h.code[p], g.code[p]) /\ h.code[p] = g.code[p] /\ (Waits(g, p) => Waits(h, p))
  <2>1. \A y \in InstrType : Same(y, y)
    BY DEF Same, InstrType
  <2>2. \A p \in 1..(w - 1) : g.code[p] \in InstrType
    BY <1>1, <1>2, CodeAt
  <2> QED BY <1>7, <1>15, <1>16, <2>1, <2>2
<1>20. StatementCode(h.code, i, P[i])
  <2>1. PICK c, kk : c = h.code /\ kk = unit[i].k /\ kk = "if"
    OBVIOUS
  <2>2. Same(c[w], Instr("test", i))
    <3>1. Same(x, x)
      BY <1>5 DEF Same, InstrType
    <3> QED BY <1>4, <1>7, <1>15, <2>1, <3>1
  <2>3. StatementCode(c, i, w)
    BY ONLY <2>1, <2>2, Zenon DEF StatementCode, CodeOf
  <2> QED BY <1>2, <2>1, <2>3
<1>21. PICK e : e = [head |-> i, arm |-> i]
  OBVIOUS
<1>22. e.head = i /\ e.arm = i /\ IfEntries(i + 1) = IfEntries(i) \cup {e}
  BY <1>21, IfsAfter
<1>23. \A z \in IfEntries(i) : z.head < i /\ z.head \in Nat
  <2>1. IfEntries(i) \subseteq Entries(i)
    BY <1>3, EntriesAre
  <2> QED BY <1>3, <2>1, EntriesAre
<1>24. BlockIs(P, i + 1, e, b)
  <2>1. Tests(i) = {i}
    BY DEF Tests, Empty
  <2>2. TestAt(P, i) = w
    BY <1>2 DEF TestAt
  <2>3. Leaves(i, i + 1) = {}
    <3>1. ASSUME NEW y \in Lines, y < i + 1, unit[y].of = i PROVE FALSE
      <4>1. unit[y].of = 0 \/ unit[y].of \in 1..(y - 1)
        BY Continuing, OfBefore
      <4>2. y \in Nat /\ y < i + 1 /\ (i = 0 \/ i \in 1..(y - 1))
        BY <1>3, <3>1, <4>1
      <4> QED BY ONLY <1>3, <4>2
    <3> QED BY <3>1 DEF Leaves
  <2> QED BY <1>9, <1>22, <2>1, <2>2, <2>3 DEF BlockIs
<1>25. ASSUME NEW z \in IfEntries(i), NEW y, BlockIs(P, i, z, y) PROVE BlockIs(P, i + 1, z, y)
  <2>1. \A u \in Lines : Jumps(u) => (u < i + 1 <=> u < i)
    <3> SUFFICES ASSUME NEW u \in Lines, Jumps(u) PROVE u < i + 1 <=> u < i
      OBVIOUS
    <3>1. u # i
      BY DEF Jumps
    <3>2. u \in Nat
      BY <1>3
    <3> QED BY ONLY <1>3, <3>1, <3>2
  <2>2. Leaves(z.head, i + 1) = Leaves(z.head, i)
    BY <2>1 DEF Leaves
  <2> QED BY <1>25, <2>2 DEF BlockIs
<1>26. BlockStack(h, P, i + 1)
  <2>1. \A m \in 1..n : \E z \in IfEntries(i) : BlockIs(P, i, z, t[m])
    BY <1>1, <1>10, <1>12 DEF BlockStack
  <2>2. \A m \in 1..n : t[m].line < i /\ \A q \in 1..(m - 1) : t[q].line < t[m].line
    <3>1. \A m \in 1..n : t[m].line < i
      BY <1>23, <2>1 DEF BlockIs
    <3>2. \A m \in 1..n : \A q \in 1..(m - 1) : q \in 1..n
      BY <1>10
    <3>3. \A m \in 1..n : \A q \in 1..(m - 1) : g.blocks[q].line < g.blocks[m].line
      BY <1>1, <1>10 DEF BlockStack
    <3> QED BY <1>12, <3>1, <3>2, <3>3
  <2>3. \A m \in 1..(n + 1) : m \in 1..n \/ (m = n + 1 /\ m - 1 = n)
    BY <1>10
  <2>4. \A m \in 1..(n + 1) : \E z \in IfEntries(i + 1) : BlockIs(P, i + 1, z, t[m])
    BY <1>12, <1>22, <1>24, <1>25, <2>1, <2>3
  <2>5. \A m \in 1..(n + 1) : \A q \in 1..(m - 1) : t[q].line < t[m].line
    BY <1>9, <1>12, <2>2, <2>3
  <2>6. \A z \in IfEntries(i) : \E m \in 1..(n + 1) : t[m].line = z.head
    <3>1. \A z \in IfEntries(i) : \E m \in 1..n : g.blocks[m].line = z.head
      BY <1>1, <1>10 DEF BlockStack
    <3>2. \A m \in 1..n : m \in 1..(n + 1)
      BY <1>10
    <3> QED BY <1>12, <3>1, <3>2
  <2>7. n + 1 \in 1..(n + 1) /\ t[n + 1].line = i
    BY <1>9, <1>10, <1>12
  <2>8. \A z \in IfEntries(i + 1) : \E m \in 1..(n + 1) : t[m].line = z.head
    BY <1>22, <2>6, <2>7
  <2> QED BY <1>12, <1>15, <2>4, <2>5, <2>8 DEF BlockStack
<1>27. ArmsClosed(h.code, P, i, Where(h))
  <2>1. unit[i].k \notin Arms
    BY DEF Arms
  <2> QED BY <2>1, NoArm
<1>28. Where(h) = P[i] + Size(i) /\ P[i] + Size(i) <= Where(h) /\ Len(g.code) <= Len(h.code) /\ ~ (Last(h.code).op = "return")
  BY <1>2, <1>3, <1>5, <1>7, <1>15
<1>29. Part(g, h, P, i, {})
  BY <1>2, <1>15, <1>18, <1>19, <1>20, <1>26, <1>27, <1>28, ArmPart
<1> QED BY <1>14, <1>29

(* The arm before an ELSE IF, ELSE or ENDIF is closed: its test is set.      *)
Closing(g, h, P, i, w, e, n, b) ==
  /\ w \in Nat \ {0} /\ P[i] = w /\ g \in GenType /\ n \in Nat \ {0} /\ n = Len(g.blocks) /\ b \in BlockType /\ b = Last(g.blocks)
  /\ ArmClosed(g, h, i, w, n, b) /\ BlockIs(P, i, e, b)
  /\ b.test = TestAt(P, e.arm) /\ b.test \in 1..(w - 1)
  /\ \A p \in 1..(w - 1) :
       /\ Same(h.code[p], g.code[p])
       /\ h.code[p] = g.code[p] \/ (p = b.test /\ Fixable(i, g.code[p]) /\ g.code[p].lab = 0 /\ h.code[p].to = w + 1)
       /\ Waits(g, p) => Waits(h, p) \/ h.code[p].to = w + 1
  /\ Waits(h, w)
(* Closing an arm lets the test before it branch past its goto.             *)
LEMMA ClosingIs ==
  ASSUME UnitInv, NEW i \in Lines, unit[i].k \in Arms, NEW g, NEW P, Translated(g, P, i),
         NEW w, w = Where(g), NEW e \in IfEntries(i), e.head = unit[i].of, NextOne(e.arm, i),
         \A f \in IfEntries(i) : f # e => f.head < e.head, unit[e.arm].k \in {"if", "elseif"},
         NEW h, h = CloseArm(g, i)
  PROVE  \E n, b : Closing(g, h, P, i, w, e, n, b)
<1>1. /\ P[i] = w /\ g \in GenType /\ BlockStack(g, P, i)
  BY DEF Translated, Sound
<1>2. w \in Nat \ {0} /\ i \in Nat
  BY <1>1, CodeAt, UnitTypes DEF UnitInv
<1>3. PICK n, b : n = Len(g.blocks) /\ b = Last(g.blocks)
  OBVIOUS
<1>4. n \in Nat \ {0} /\ b \in BlockType /\ BlockIs(P, i, e, b) /\ b = g.blocks[n]
  BY <1>1, <1>3, TopBlock
<1>5. ArmBefore(i, e)
  BY ArmBeforeIs
<1>6. e.arm \in Lines /\ e.arm < i
  <2>1. e.arm \in Lines /\ e.arm \in 1..(i - 1)
    BY <1>5 DEF ArmBefore
  <2> QED BY <1>2, <2>1
<1>7. e.arm \in Tests(e.arm) /\ b.test = TestAt(P, e.arm)
  <2>1. e.arm \in Tests(e.arm)
    BY <1>6 DEF Tests
  <2> QED BY <1>4, <2>1 DEF BlockIs
<1>8. b.test \in 1..(w - 1) /\ Same(g.code[b.test], Instr("test", e.arm))
  BY <1>6, <1>7, ArmPlaces
<1>9. ArmClosed(g, h, i, w, n, b)
  BY <1>1, <1>2, <1>3, <1>4, <1>8, CloseArmIs
<1>10. g.code[b.test].op = "test" /\ g.code[b.test].line = e.arm /\ g.code[b.test].lab = 0
  BY <1>8, SameIs
<1>11. Fixable(i, g.code[b.test])
  BY <1>7, <1>10 DEF Fixable
<1>12. ASSUME NEW p \in 1..(w - 1)
       PROVE  /\ Same(h.code[p], g.code[p])
              /\ h.code[p] = g.code[p] \/ (p = b.test /\ Fixable(i, g.code[p]) /\ g.code[p].lab = 0 /\ h.code[p].to = w + 1)
  <2>1. CASE p = b.test
    BY <1>9, <1>10, <1>11, <2>1 DEF ArmClosed
  <2>2. CASE p # b.test
    <3>1. h.code[p] = g.code[p]
      BY <1>9, <2>2 DEF ArmClosed
    <3>2. g.code[p] \in InstrType
      BY <1>1, CodeAt
    <3>3. Same(g.code[p], g.code[p])
      BY <3>2 DEF Same, InstrType
    <3> QED BY <3>1, <3>3
  <2> QED BY <2>1, <2>2
<1>13. ASSUME NEW p \in 1..(w - 1), Waits(g, p) PROVE Waits(h, p) \/ h.code[p].to = w + 1
  <2>1. /\ h.loops = g.loops /\ Len(h.blocks) = n /\ h.blocks[n].gotos = b.gotos \cup {w} /\ h.code[b.test].to = w + 1
        /\ \A m \in 1..(n - 1) : h.blocks[m] = g.blocks[m]
    BY <1>9 DEF ArmClosed
  <2>2. CASE \E m \in 1..Len(g.loops) : g.loops[m].goto = p
    BY <2>1, <2>2 DEF Waits
  <2>3. CASE \E m \in 1..Len(g.blocks) : g.blocks[m].test = p \/ p \in g.blocks[m].gotos
    <3>1. PICK m \in 1..n : g.blocks[m].test = p \/ p \in g.blocks[m].gotos
      BY <1>3, <2>3
    <3>2. CASE m = n
      BY <1>4, <2>1, <3>1, <3>2 DEF Waits
    <3>3. CASE m \in 1..(n - 1)
      <4>1. m \in 1..Len(h.blocks) /\ (h.blocks[m].test = p \/ p \in h.blocks[m].gotos)
        BY <2>1, <3>1, <3>3
      <4> QED BY <4>1 DEF Waits
    <3>4. m = n \/ m \in 1..(n - 1)
      BY <1>4
    <3> QED BY <3>2, <3>3, <3>4
  <2> QED BY <1>13, <2>2, <2>3 DEF Waits
<1>14. Waits(h, w)
  <2>1. n \in 1..Len(h.blocks) /\ w \in h.blocks[n].gotos
    BY <1>4, <1>9 DEF ArmClosed
  <2> QED BY <2>1 DEF Waits
<1>15. Closing(g, h, P, i, w, e, n, b)
  BY <1>1, <1>2, <1>3, <1>4, <1>7, <1>8, <1>9, <1>12, <1>13, <1>14 DEF Closing
<1> QED BY <1>15

(* The gotos to the end of a block after one more line.                     *)
LEMMA LeavesNext ==
  ASSUME UnitInv, NEW i \in Lines
  PROVE  /\ Jumps(i) => Leaves(unit[i].of, i + 1) = Leaves(unit[i].of, i) \cup {i}
         /\ ~ Jumps(i) => \A h : Leaves(h, i + 1) = Leaves(h, i)
<1>1. ASSUME NEW y \in Lines PROVE y < i + 1 <=> (y < i \/ y = i)
  <2>1. y \in Nat /\ i \in Nat
    BY UnitTypes DEF UnitInv
  <2> QED BY ONLY <2>1
<1>2. i < i + 1 /\ ~ (i < i)
  BY UnitTypes DEF UnitInv
<1> QED BY <1>1, <1>2 DEF Leaves

(* The branches to an arm that follows are set.                             *)
LEMMA NextArmClosed ==
  ASSUME UnitInv, NEW i \in Lines, unit[i].k \in {"elseif", "else"}, NEW e, ArmBefore(i, e), NEW c, NEW P, NEW w,
         Jumps(i) => c[TestAt(P, e.arm)].to = P[i] + 1
  PROVE  ArmsClosed(c, P, i, w)
<1>1. unit[i].k # "endif" /\ ~ Empty(i - 1)
  <2>1. i - 1 + 1 = i
    BY UnitTypes DEF UnitInv
  <2> QED BY <2>1 DEF Empty
<1>2. \A a \in 1..(i - 1) : NextOne(a, i) => a = e.arm
  BY DEF ArmBefore
<1> QED BY <1>1, <1>2 DEF ArmsClosed

(* An ELSE IF.                                                               *)
LEMMA ElseIfPart ==
  ASSUME UnitInv, phase # "read", NEW i \in Lines, NEW g, NEW P, Translated(g, P, i), unit[i].k = "elseif"
  PROVE  Part(g, Statement(g, i), P, i, {})
<1>1. /\ P[i] = Where(g) /\ g \in GenType /\ BlockStack(g, P, i)
  BY DEF Translated, Sound
<1>2. PICK w : w = P[i] /\ w = Where(g) /\ w \in Nat \ {0}
  BY <1>1, CodeAt
<1>3. i \in Nat \ {0} /\ MaxLocal \in Nat \ {0} /\ Size(i) = 2 /\ unit[i].k \in Arms /\ Jumps(i)
  BY LineIs, SizeIs DEF Arms, Jumps
<1>4. PICK e \in IfEntries(i) :
        /\ e.head = unit[i].of /\ NextOne(e.arm, i) /\ unit[e.arm].k # "else"
        /\ \A f \in IfEntries(i) : f # e => f.head < e.head
        /\ IfEntries(i + 1) = (IfEntries(i) \ {e}) \cup {[head |-> unit[i].of, arm |-> i]}
  BY <1>3, IfsAfter
<1>5. ArmBefore(i, e) /\ unit[e.arm].k \in {"if", "elseif"}
  BY <1>3, <1>4, ArmBeforeIs DEF ArmBefore
<1>6. PICK h : h = CloseArm(g, i)
  OBVIOUS
<1>7. PICK n, b : Closing(g, h, P, i, w, e, n, b)
  BY <1>2, <1>3, <1>4, <1>5, <1>6, ClosingIs
<1>8. ArmClosed(g, h, i, w, n, b) /\ n \in Nat \ {0} /\ n = Len(g.blocks) /\ b = Last(g.blocks) /\ BlockIs(P, i, e, b)
      /\ b.test = TestAt(P, e.arm) /\ b.test \in 1..(w - 1)
  BY <1>7 DEF Closing
<1>9. PICK x, s, f : x = Instr("test", i) /\ s = <<x>> /\ f = Puts(h, s)
  OBVIOUS
<1>10. x \in InstrType /\ x.op = "test" /\ x.line = i /\ x.loc = 0 /\ x.lab = 0 /\ ~ x.wide
  <2>1. x \in InstrType
    BY <1>3, <1>9, InstrTypes DEF Ops
  <2> QED BY <1>9, <2>1 DEF Instr
<1>11. PICK one \in Nat \ {0}, v \in Nat \ {0} : one = 1 /\ v = w + 1
  BY <1>2
<1>12. h \in GenType /\ v = Where(h) /\ Len(h.code) = v /\ Len(g.code) <= Len(h.code)
  BY <1>8, <1>11 DEF ArmClosed
<1>13. Appended(h, f, s, v, one) /\ s[one] = x /\ s[1] = x
  <2>1. s \in Seq(InstrType) /\ Len(s) = one /\ s[1] = x
    BY <1>9, <1>10, <1>11
  <2> QED BY <1>9, <1>11, <1>12, <2>1, CodePuts
<1>14. /\ f \in GenType /\ Len(f.code) = v /\ Where(f) = v + 1
       /\ \A q \in 1..w : f.code[q] = h.code[q]
       /\ f.code[v] = x /\ f.code # <<>> /\ Last(f.code) = x
       /\ f.labels = h.labels /\ f.loops = h.loops /\ f.blocks = h.blocks /\ f.next = h.next /\ f.max = h.max
  <2>1. v - 1 + one = v /\ v + one = v + 1 /\ v - 1 + 1 = v /\ 1 \in 1..one /\ v - 1 = w
    BY <1>2, <1>11
  <2>2. f.code[v] = x
    BY <1>13, <2>1 DEF Appended
  <2> QED BY <1>10, <1>13, <2>1, <2>2 DEF Appended
<1>15. PICK t : t = h.blocks[n]
  OBVIOUS
<1>16. t \in BlockType /\ t = Last(h.blocks) /\ t.line = b.line /\ t.test = 0 /\ t.gotos = b.gotos \cup {w} /\ Len(h.blocks) = n
       /\ \A m \in 1..(n - 1) : h.blocks[m] = g.blocks[m]
  BY <1>8, <1>15 DEF ArmClosed
<1>17. PICK c : c = [t EXCEPT !.test = v]
  OBVIOUS
<1>18. c \in BlockType /\ c.line = b.line /\ c.test = v /\ c.gotos = b.gotos \cup {w}
  <2>1. c \in BlockType /\ c.line = t.line /\ c.test = v /\ c.gotos = t.gotos
    BY <1>16, <1>17 DEF BlockType
  <2> QED BY <1>16, <2>1
<1>19. PICK r : r = SetTop(f, c)
  OBVIOUS
<1>20. r = Statement(g, i)
  <2>1. r = SetTop(Puts(h, <<Instr("test", i)>>), [Last(h.blocks) EXCEPT !.test = Where(h)])
    BY <1>9, <1>12, <1>16, <1>17, <1>19
  <2>2. r = ElseIf(g, i)
    BY <1>6, <2>1 DEF ElseIf
  <2> QED BY <2>2 DEF Statement
<1>21. Topped(f, r, n, c)
  <2>1. n = Len(f.blocks)
    BY <1>14, <1>16
  <2> QED BY <1>8, <1>14, <1>18, <1>19, <2>1, TopIsSet
<1>22. /\ r \in GenType /\ r.code = f.code /\ Len(r.code) = v /\ Where(r) = v + 1 /\ Len(g.code) <= Len(r.code)
       /\ r.labels = g.labels /\ r.loops = g.loops /\ r.next = g.next /\ r.max = g.max /\ h.loops = g.loops
       /\ Len(r.blocks) = n /\ r.blocks[n] = c
       /\ \A m \in 1..(n - 1) : r.blocks[m] = g.blocks[m]
       /\ ~ (Last(r.code).op = "return")
  <2>1. h.labels = g.labels /\ h.loops = g.loops /\ h.next = g.next /\ h.max = g.max
    BY <1>8 DEF ArmClosed
  <2>2. /\ r \in GenType /\ r.code = f.code /\ Where(r) = Where(f)
        /\ r.labels = f.labels /\ r.loops = f.loops /\ r.next = f.next /\ r.max = f.max
        /\ Len(r.blocks) = n /\ r.blocks[n] = c /\ \A m \in 1..(n - 1) : r.blocks[m] = f.blocks[m]
    BY <1>21 DEF Topped
  <2> QED BY <1>10, <1>12, <1>14, <1>16, <2>1, <2>2
<1>23. \A p \in Nat \ {0} : Waits(h, p) => Waits(r, p)
  <2>1. ASSUME NEW p \in Nat \ {0}, NEW m \in 1..n, h.blocks[m].test = p \/ p \in h.blocks[m].gotos
        PROVE  r.blocks[m].test = p \/ p \in r.blocks[m].gotos
    <3>1. m \in 1..(n - 1) \/ m = n
      BY <1>8
    <3>2. CASE m = n
      BY <1>15, <1>16, <1>18, <1>22, <2>1, <3>2
    <3>3. CASE m \in 1..(n - 1)
      BY <1>16, <1>22, <2>1, <3>3
    <3> QED BY <3>1, <3>2, <3>3
  <2> QED BY <1>16, <1>22, <2>1 DEF Waits
<1>24. Waits(r, w) /\ Waits(r, v)
  <2>1. Waits(h, w)
    BY <1>7 DEF Closing
  <2>2. n \in 1..Len(r.blocks) /\ r.blocks[n].test = v
    BY <1>8, <1>18, <1>22
  <2> QED BY <1>2, <1>23, <2>1, <2>2 DEF Waits
<1>25. /\ r.code[w] = Instr("goto", i) /\ r.code[v] = x
       /\ \A q \in 1..(w - 1) : r.code[q] = h.code[q]
  <2>1. w \in 1..w /\ \A q \in 1..(w - 1) : q \in 1..w
    BY <1>2
  <2>2. h.code[w] = Instr("goto", i)
    BY <1>8 DEF ArmClosed
  <2> QED BY <1>14, <1>22, <2>1, <2>2
<1>26. ASSUME NEW p \in w..(Where(r) - 1) PROVE InstrOK(r, p)
  <2>1. PICK y : y = Where(r) /\ p \in w..(y - 1)
    OBVIOUS
  <2>2. y = v + 1
    BY <1>22, <2>1
  <2>3. p = w \/ p = v
    BY ONLY <1>2, <1>11, <2>1, <2>2
  <2>4. InstrOK(r, v)
    <3>1. 0 < MaxLocal
      BY <1>3
    <3> QED BY <1>10, <1>24, <1>25, <3>1 DEF InstrOK
  <2>5. InstrOK(r, w)
    <3>1. 0 < MaxLocal
      BY <1>3
    <3>2. PICK z : z = Instr("goto", i)
      OBVIOUS
    <3>3. z.op = "goto" /\ z.line = i /\ z.loc = 0 /\ z.lab = 0 /\ ~ z.wide
      BY <3>2 DEF Instr
    <3> QED BY <1>24, <1>25, <3>1, <3>2, <3>3 DEF InstrOK
  <2> QED BY <2>3, <2>4, <2>5
<1>27. \A p \in 1..(w - 1) :
         /\ Same(r.code[p], g.code[p])
         /\ r.code[p] = g.code[p] \/ (Fixable(i, g.code[p]) /\ g.code[p].lab = 0 /\ r.code[p].to \in 1..Len(r.code))
         /\ Waits(g, p) => Waits(r, p) \/ r.code[p].to \in 1..Len(r.code)
  <2>1. w + 1 \in 1..Len(r.code) /\ \A p \in 1..(w - 1) : p \in Nat \ {0}
    BY <1>2, <1>11, <1>22
  <2>2. \A p \in 1..(w - 1) :
         /\ Same(h.code[p], g.code[p])
         /\ h.code[p] = g.code[p] \/ (Fixable(i, g.code[p]) /\ g.code[p].lab = 0 /\ h.code[p].to = w + 1)
         /\ Waits(g, p) => Waits(h, p) \/ h.code[p].to = w + 1
    BY <1>7 DEF Closing
  <2> QED BY <1>23, <1>25, <2>1, <2>2
<1>28. StatementCode(r.code, i, P[i])
  <2>1. PICK d, kk : d = r.code /\ kk = unit[i].k /\ kk = "elseif"
    OBVIOUS
  <2>2. Same(d[w], Instr("goto", i)) /\ Same(d[w + 1], Instr("test", i))
    <3>1. \A z \in InstrType : Same(z, z)
      BY DEF Same, InstrType
    <3>2. Instr("goto", i) \in InstrType /\ Instr("test", i) \in InstrType
      BY <1>3, InstrTypes DEF Ops
    <3> QED BY <1>9, <1>11, <1>25, <2>1, <3>1, <3>2
  <2>3. StatementCode(d, i, w)
    BY ONLY <2>1, <2>2, Zenon DEF StatementCode, CodeOf
  <2> QED BY <1>2, <2>1, <2>3
<1>29. PICK z : z = [head |-> unit[i].of, arm |-> i]
  OBVIOUS
<1>30. BlockIs(P, i + 1, z, c)
  <2>1. Tests(i) = {i}
    BY DEF Tests, Empty
  <2>2. TestAt(P, i) = v
    BY <1>2, <1>11 DEF TestAt
  <2>3. z.head = unit[i].of /\ z.arm = i /\ b.line = e.head /\ b.gotos = {P[y] : y \in Leaves(e.head, i)}
    BY <1>8, <1>29 DEF BlockIs
  <2>4. Leaves(e.head, i + 1) = Leaves(e.head, i) \cup {i}
    BY <1>3, <1>4, LeavesNext
  <2>5. c.gotos = {P[y] : y \in Leaves(z.head, i + 1)}
    <3>1. PICK A : A = Leaves(e.head, i)
      OBVIOUS
    <3>2. {P[y] : y \in A \cup {i}} = {P[y] : y \in A} \cup {P[i]}
      OBVIOUS
    <3>3. Leaves(z.head, i + 1) = A \cup {i}
      BY <1>4, <2>3, <2>4, <3>1
    <3>4. c.gotos = {P[y] : y \in A} \cup {P[i]}
      BY <1>2, <1>18, <2>3, <3>1
    <3> QED BY <3>2, <3>3, <3>4
  <2> QED BY <1>4, <1>18, <2>1, <2>2, <2>3, <2>5 DEF BlockIs
<1>31. BlockStack(r, P, i + 1)
  <2>1. z.head = e.head /\ Len(r.blocks) = n /\ BlockIs(P, i + 1, z, r.blocks[n]) /\ IfEntries(i + 1) = (IfEntries(i) \ {e}) \cup {z}
    BY <1>4, <1>22, <1>29, <1>30
  <2> QED BY <1>1, <1>4, <1>8, <1>22, <2>1, BlocksNext
<1>32. ArmsClosed(r.code, P, i, Where(r))
  <2>1. h.code[b.test].to = w + 1
    BY <1>8 DEF ArmClosed
  <2>2. r.code[TestAt(P, e.arm)].to = P[i] + 1
    BY <1>2, <1>8, <1>25, <2>1
  <2> QED BY <1>5, <2>2, NextArmClosed
<1>33. Where(r) = P[i] + Size(i) /\ P[i] + Size(i) <= Where(r)
  BY <1>2, <1>3, <1>11, <1>22
<1>34. Part(g, r, P, i, {})
  BY <1>2, <1>3, <1>22, <1>26, <1>27, <1>28, <1>31, <1>32, <1>33, ArmPart
<1> QED BY <1>20, <1>34

(* An ELSE.                                                                  *)
LEMMA ElsePart ==
  ASSUME UnitInv, phase # "read", NEW i \in Lines, NEW g, NEW P, Translated(g, P, i), unit[i].k = "else"
  PROVE  Part(g, Statement(g, i), P, i, {})
<1>1. /\ P[i] = Where(g) /\ g \in GenType /\ BlockStack(g, P, i)
  BY DEF Translated, Sound
<1>2. PICK w : w = P[i] /\ w = Where(g) /\ w \in Nat \ {0}
  BY <1>1, CodeAt
<1>3. i \in Nat \ {0} /\ MaxLocal \in Nat \ {0} /\ Size(i) = (IF Empty(i) THEN 0 ELSE 1) /\ unit[i].k \in Arms
      /\ \A y \in Lines : y \in Nat \ {0}
  BY LineIs, SizeIs DEF Arms
<1>4. PICK e \in IfEntries(i) :
        /\ e.head = unit[i].of /\ NextOne(e.arm, i) /\ unit[e.arm].k # "else"
        /\ \A f \in IfEntries(i) : f # e => f.head < e.head
        /\ IfEntries(i + 1) = (IfEntries(i) \ {e}) \cup {[head |-> unit[i].of, arm |-> i]}
  BY <1>3, IfsAfter
<1>5. ArmBefore(i, e) /\ unit[e.arm].k \in {"if", "elseif"}
  BY <1>3, <1>4, ArmBeforeIs DEF ArmBefore
<1>6. PICK z : z = [head |-> unit[i].of, arm |-> i]
  OBVIOUS
<1>7. z.head = unit[i].of /\ z.head = e.head /\ z.arm = i /\ IfEntries(i + 1) = (IfEntries(i) \ {e}) \cup {z}
  BY <1>4, <1>6
<1>8. \A y \in InstrType : Same(y, y)
  BY DEF Same, InstrType
<1>9. CASE Empty(i)
  <2>1. g = Statement(g, i)
    <3>1. Else(g, i) = g
      BY <1>9 DEF Empty, Else
    <3> QED BY <3>1 DEF Statement
  <2>2. PICK n, b : n = Len(g.blocks) /\ b = Last(g.blocks)
    OBVIOUS
  <2>3. n \in Nat \ {0} /\ BlockIs(P, i, e, b) /\ b = g.blocks[n]
    BY <1>1, <1>4, <2>2, TopBlock
  <2>4. Tests(i) = {e.arm} /\ Tests(e.arm) = {e.arm}
    <3>1. Tests(e.arm) = {e.arm}
      BY <1>5 DEF Tests, Empty, ArmBefore
    <3>2. ASSUME NEW x \in Lines, NextOne(x, i) PROVE x = e.arm
      <4>1. x \in 1..(i - 1)
        <5>1. x < i /\ x \in Nat \ {0}
          BY <1>3, <3>2 DEF NextOne
        <5> QED BY ONLY <1>3, <5>1
      <4> QED BY <1>5, <3>2, <4>1 DEF ArmBefore
    <3>3. e.arm \in Lines
      BY <1>5 DEF ArmBefore
    <3>4. Tests(i) = {e.arm}
      BY <1>4, <1>5, <1>9, <3>2, <3>3 DEF Tests
    <3> QED BY <3>1, <3>4
  <2>5. BlockIs(P, i + 1, z, b)
    <3>1. ~ Jumps(i)
      BY <1>9 DEF Jumps
    <3>2. Leaves(e.head, i + 1) = Leaves(e.head, i)
      BY <3>1, LeavesNext
    <3>3. b.line = e.head /\ b.test = TestAt(P, e.arm) /\ b.gotos = {P[y] : y \in Leaves(e.head, i)}
      BY <2>3, <2>4 DEF BlockIs
    <3> QED BY <1>7, <2>4, <3>2, <3>3 DEF BlockIs
  <2>6. BlockStack(g, P, i + 1)
    <3>1. z.head = e.head /\ Len(g.blocks) = n /\ BlockIs(P, i + 1, z, g.blocks[n]) /\ \A m \in 1..(n - 1) : g.blocks[m] = g.blocks[m]
      BY <1>7, <2>2, <2>3, <2>5
    <3> QED BY <1>1, <1>4, <1>7, <2>2, <3>1, BlocksNext
  <2>7. ArmsClosed(g.code, P, i, Where(g))
    <3>1. ~ Jumps(i)
      BY <1>9 DEF Jumps
    <3> QED BY <1>5, <3>1, NextArmClosed
  <2>8. StatementCode(g.code, i, P[i])
    <3>1. PICK c, k : c = g.code /\ k = unit[i].k /\ k = "else" /\ Empty(i)
      BY <1>9
    <3>2. StatementCode(c, i, w)
      BY ONLY <3>1, Zenon DEF StatementCode, CodeOf
    <3> QED BY <1>2, <3>1, <3>2
  <2>9. \A p \in 1..(w - 1) : Same(g.code[p], g.code[p])
    BY <1>1, <1>2, <1>8, CodeAt
  <2>10. Where(g) = P[i] + Size(i) /\ P[i] + Size(i) <= Where(g) /\ Len(g.code) <= Len(g.code) /\ \A p \in w..(Where(g) - 1) : InstrOK(g, p)
    <3>1. Len(g.code) \in Nat
      BY <1>1, CodeAt
    <3>2. w + 0 = w /\ w <= w /\ \A p : p \notin w..(w - 1)
      BY ONLY <1>2
    <3> QED BY <1>2, <1>3, <1>9, <3>1, <3>2
  <2>11. Part(g, g, P, i, {})
    BY <1>1, <1>2, <1>3, <1>9, <2>6, <2>7, <2>8, <2>9, <2>10, ArmPart
  <2> QED BY <2>1, <2>11
<1>10. CASE ~ Empty(i)
  <2>1. PICK h : h = CloseArm(g, i)
    OBVIOUS
  <2>2. h = Statement(g, i)
    <3>1. h = Else(g, i)
      BY <1>10, <2>1 DEF Empty, Else
    <3> QED BY <3>1 DEF Statement
  <2>3. PICK n, b : Closing(g, h, P, i, w, e, n, b)
    BY <1>2, <1>3, <1>4, <1>5, <2>1, ClosingIs
  <2>4. ArmClosed(g, h, i, w, n, b) /\ n \in Nat \ {0} /\ n = Len(g.blocks) /\ b = Last(g.blocks) /\ BlockIs(P, i, e, b)
        /\ b.test = TestAt(P, e.arm) /\ b.test \in 1..(w - 1)
    BY <2>3 DEF Closing
  <2>5. /\ h \in GenType /\ Len(h.code) = w + 1 /\ Where(h) = w + 1 /\ Len(g.code) <= Len(h.code)
        /\ ~ (Last(h.code).op = "return")
        /\ h.code[b.test].to = w + 1 /\ h.code[w] = Instr("goto", i)
        /\ h.labels = g.labels /\ h.loops = g.loops /\ h.next = g.next /\ h.max = g.max
        /\ Len(h.blocks) = n
        /\ h.blocks[n].line = b.line /\ h.blocks[n].test = 0 /\ h.blocks[n].gotos = b.gotos \cup {w}
        /\ \A m \in 1..(n - 1) : h.blocks[m] = g.blocks[m]
    BY <2>4 DEF ArmClosed
  <2>6. ASSUME NEW p \in w..(Where(h) - 1) PROVE InstrOK(h, p)
    <3>1. PICK y : y = Where(h) /\ p \in w..(y - 1)
      OBVIOUS
    <3>2. y = w + 1
      BY <2>5, <3>1
    <3>3. p = w
      BY ONLY <1>2, <3>1, <3>2
    <3>4. 0 < MaxLocal /\ Waits(h, w)
      BY <1>3, <2>3 DEF Closing
    <3>5. PICK x : x = Instr("goto", i)
      OBVIOUS
    <3>6. x.op = "goto" /\ x.line = i /\ x.loc = 0 /\ x.lab = 0 /\ ~ x.wide
      BY <3>5 DEF Instr
    <3> QED BY <2>5, <3>3, <3>4, <3>5, <3>6 DEF InstrOK
  <2>7. \A p \in 1..(w - 1) :
          /\ Same(h.code[p], g.code[p])
          /\ h.code[p] = g.code[p] \/ (Fixable(i, g.code[p]) /\ g.code[p].lab = 0 /\ h.code[p].to \in 1..Len(h.code))
          /\ Waits(g, p) => Waits(h, p) \/ h.code[p].to \in 1..Len(h.code)
    <3>1. w + 1 \in 1..Len(h.code)
      BY <1>2, <2>5
    <3>2. \A p \in 1..(w - 1) :
           /\ Same(h.code[p], g.code[p])
           /\ h.code[p] = g.code[p] \/ (Fixable(i, g.code[p]) /\ g.code[p].lab = 0 /\ h.code[p].to = w + 1)
           /\ Waits(g, p) => Waits(h, p) \/ h.code[p].to = w + 1
      BY <2>3 DEF Closing
    <3> QED BY <3>1, <3>2
  <2>8. StatementCode(h.code, i, P[i])
    <3>1. PICK d, kk : d = h.code /\ kk = unit[i].k /\ kk = "else"
      OBVIOUS
    <3>2. Same(d[w], Instr("goto", i))
      <4>1. Instr("goto", i) \in InstrType
        BY <1>3, InstrTypes DEF Ops
      <4> QED BY <1>8, <2>5, <3>1, <4>1
    <3>3. StatementCode(d, i, w)
      BY ONLY <3>1, <3>2, Zenon DEF StatementCode, CodeOf
    <3> QED BY <1>2, <3>1, <3>3
  <2>9. BlockIs(P, i + 1, z, h.blocks[n])
    <3>1. Tests(i) = {}
      BY <1>10 DEF Tests
    <3>2. Jumps(i)
      BY <1>10 DEF Jumps
    <3>3. b.line = e.head /\ b.gotos = {P[y] : y \in Leaves(e.head, i)}
      BY <2>4 DEF BlockIs
    <3>4. Leaves(e.head, i + 1) = Leaves(e.head, i) \cup {i}
      BY <1>4, <3>2, LeavesNext
    <3>5. PICK A : A = Leaves(e.head, i)
      OBVIOUS
    <3>6. {P[y] : y \in A \cup {i}} = {P[y] : y \in A} \cup {P[i]}
      OBVIOUS
    <3>7. Leaves(z.head, i + 1) = A \cup {i}
      BY <1>7, <3>4, <3>5
    <3>8. h.blocks[n].gotos = {P[y] : y \in A} \cup {P[i]}
      BY <1>2, <2>5, <3>3, <3>5
    <3> QED BY <1>7, <2>5, <3>1, <3>3, <3>6, <3>7, <3>8 DEF BlockIs
  <2>10. BlockStack(h, P, i + 1)
    <3>1. z.head = e.head /\ Len(h.blocks) = n /\ BlockIs(P, i + 1, z, h.blocks[n]) /\ IfEntries(i + 1) = (IfEntries(i) \ {e}) \cup {z}
      BY <1>7, <2>5, <2>9
    <3>2. h \in GenType /\ \A m \in 1..(n - 1) : h.blocks[m] = g.blocks[m]
      BY <2>5
    <3> QED BY <1>1, <1>4, <2>4, <3>1, <3>2, BlocksNext
  <2>11. ArmsClosed(h.code, P, i, Where(h))
    <3>1. h.code[TestAt(P, e.arm)].to = P[i] + 1
      BY <1>2, <2>4, <2>5
    <3> QED BY <1>5, <3>1, NextArmClosed
  <2>12. Where(h) = P[i] + Size(i) /\ P[i] + Size(i) <= Where(h)
    BY <1>2, <1>3, <1>10, <2>5
  <2>13. Part(g, h, P, i, {})
    BY <1>2, <1>3, <2>5, <2>6, <2>7, <2>8, <2>10, <2>11, <2>12, ArmPart
  <2> QED BY <2>2, <2>13
<1> QED BY <1>9, <1>10

(* A set of branches is set, and a block is done.                            *)
FixEnds(h, ends, x) ==
  [h EXCEPT !.blocks = Front(@), !.code = [q \in DOMAIN @ |-> IF q \in ends THEN [@[q] EXCEPT !.to = x] ELSE @[q]]]
BlockEnded(h) ==
  LET c == Last(h.blocks) IN FixEnds(h, c.gotos \cup (IF c.test = 0 THEN {} ELSE {c.test}), Len(h.code))
EndsFixed(h, r, ends, x) ==
  /\ r \in GenType /\ Len(r.code) = Len(h.code) /\ Where(r) = Where(h) /\ r.code # <<>> /\ Last(r.code).op = Last(h.code).op
  /\ \A q \in 1..Len(h.code) : /\ Same(r.code[q], h.code[q])
                               /\ q \notin ends => r.code[q] = h.code[q]
                               /\ q \in ends => r.code[q].to = x /\ r.code[q] = [h.code[q] EXCEPT !.to = x]
  /\ r.labels = h.labels /\ r.loops = h.loops /\ r.next = h.next /\ r.max = h.max
  /\ r.blocks = Front(h.blocks)
(* Setting all branches to the end of a block.                              *)
LEMMA EndsAreFixed ==
  ASSUME NEW h \in GenType, h.code # <<>>, NEW ends, NEW x \in Nat, h.blocks # <<>>, NEW r,
         r = FixEnds(h, ends, x)
  PROVE  EndsFixed(h, r, ends, x)
<1>12. PICK s \in Seq(InstrType) : s = h.code /\ s # <<>>
  BY DEF GenType
<1>13. PICK n \in Nat \ {0} : n = Len(s)
  BY <1>12
<1>1. s = h.code /\ n = Len(s) /\ DOMAIN s = 1..n /\ s # <<>>
  BY <1>12, <1>13
<1>2. PICK t : t = [q \in 1..n |-> IF q \in ends THEN [s[q] EXCEPT !.to = x] ELSE s[q]]
  OBVIOUS
<1>3. \A q \in 1..n : s[q] \in InstrType
  BY <1>1, Element
<1>4. \A q \in 1..n : t[q] \in InstrType /\ Same(t[q], s[q])
                      /\ (q \notin ends => t[q] = s[q]) /\ (q \in ends => t[q].to = x /\ t[q] = [s[q] EXCEPT !.to = x])
  <2> TAKE q \in 1..n
  <2>1. CASE q \in ends
    <3>1. t[q] = [s[q] EXCEPT !.to = x]
      BY <1>2, <2>1
    <3>2. PICK z \in InstrType : z = s[q]
      BY <1>3
    <3>3. [z EXCEPT !.to = x] \in InstrType /\ [z EXCEPT !.to = x].to = x /\ Same([z EXCEPT !.to = x], z)
      BY DEF InstrType, Same
    <3> QED BY <2>1, <3>1, <3>2, <3>3
  <2>2. CASE q \notin ends
    <3>1. t[q] = s[q]
      BY <1>2, <2>2
    <3>2. Same(s[q], s[q])
      BY <1>3 DEF Same, InstrType
    <3> QED BY <1>3, <2>2, <3>1, <3>2
  <2> QED BY <2>1, <2>2
<1>5. t \in Seq(InstrType) /\ Len(t) = n /\ t # <<>>
  <2>1. t \in [1..n -> InstrType]
    BY <1>2, <1>4
  <2>2. t \in Seq(InstrType)
    BY <2>1
  <2>3. Len(t) = n
    BY <1>2, <2>1
  <2> QED BY <1>1, <2>2, <2>3
<1>6. PICK u : u = Front(h.blocks)
  OBVIOUS
<1>7. u \in Seq(BlockType)
  <2>1. h.blocks \in Seq(BlockType)
    BY DEF GenType
  <2> QED BY <1>6, <2>1 DEF Front
<1>8. r = [h EXCEPT !.blocks = u, !.code = t]
  <2>3. r = [h EXCEPT !.blocks = Front(@), !.code = [q \in DOMAIN @ |-> IF q \in ends THEN [@[q] EXCEPT !.to = x] ELSE @[q]]]
    BY DEF FixEnds
  <2>1. [h EXCEPT !.blocks = Front(@), !.code = [q \in DOMAIN @ |-> IF q \in ends THEN [@[q] EXCEPT !.to = x] ELSE @[q]]]
          = [h EXCEPT !.blocks = Front(h.blocks),
                      !.code = [q \in DOMAIN h.code |-> IF q \in ends THEN [h.code[q] EXCEPT !.to = x] ELSE h.code[q]]]
    BY DEF GenType
  <2>2. [q \in DOMAIN h.code |-> IF q \in ends THEN [h.code[q] EXCEPT !.to = x] ELSE h.code[q]] = t
    BY <1>1, <1>2, Zenon
  <2> QED BY <1>6, <2>1, <2>2, <2>3, Zenon
<1>9. /\ r \in GenType /\ r.code = t /\ r.blocks = u /\ r.labels = h.labels /\ r.loops = h.loops /\ r.next = h.next /\ r.max = h.max
  <2>1. t \in Seq(InstrType)
    BY <1>5
  <2>2. h \in GenType
    OBVIOUS
  <2> QED BY ONLY <1>7, <1>8, <2>1, <2>2 DEF GenType
<1>10. Last(t).op = Last(s).op
  <2>1. Last(t) = t[n] /\ Last(s) = s[n] /\ n \in 1..n
    BY <1>1, <1>5 DEF Last
  <2>2. Same(t[n], s[n]) /\ s[n] \in InstrType
    BY <1>3, <1>4, <2>1
  <2>3. PICK y, z : y = t[n] /\ z = s[n]
    OBVIOUS
  <2>4. y = [z EXCEPT !.to = y.to] /\ z \in InstrType
    BY <2>2, <2>3 DEF Same
  <2>5. y.op = z.op
    BY ONLY <2>4 DEF InstrType
  <2> QED BY <2>1, <2>3, <2>5
<1>11. Where(r) = Where(h)
  <2>1. Solid(t) = (IF Last(s).op = "unused" THEN Front(t) ELSE t) /\ Solid(s) = (IF Last(s).op = "unused" THEN Front(s) ELSE s)
    BY <1>1, <1>5, <1>10 DEF Solid
  <2>2. Len(Front(t)) = n - 1 /\ Len(Front(s)) = n - 1
    <3>1. n - 1 \in 0..n
      OBVIOUS
    <3>2. Front(t) = SubSeq(t, 1, n - 1) /\ Front(s) = SubSeq(s, 1, n - 1)
      BY <1>1, <1>5 DEF Front
    <3> QED BY <1>1, <1>5, <3>1, <3>2, Prefix
  <2>3. Len(Solid(t)) = Len(Solid(s))
    BY <1>1, <1>5, <2>1, <2>2
  <2> QED BY <1>1, <1>9, <2>3 DEF Where
<1> QED BY <1>1, <1>4, <1>5, <1>6, <1>9, <1>10, <1>11 DEF EndsFixed

(* What an ENDIF makes of the code when b is the block on top.               *)
Ended(g, r, i, w, W, n, b) ==
  /\ r \in GenType /\ Len(r.code) = W /\ Where(r) = W /\ Len(g.code) <= W /\ W \in Nat \ {0} /\ r.code # <<>> /\ Last(r.code).op = "unused"
  /\ W = w \/ (W = w + 1 /\ r.code[w] = [Instr("goto", i) EXCEPT !.to = W])
  /\ \A p \in 1..(w - 1) :
       /\ Same(r.code[p], g.code[p])
       /\ p \notin b.gotos /\ p # b.test => r.code[p] = g.code[p]
       /\ p \in b.gotos \/ p = b.test => r.code[p].to = W
  /\ r.labels = g.labels /\ r.loops = g.loops /\ r.next = g.next /\ r.max = g.max
  /\ Len(r.blocks) = n - 1 /\ \A m \in 1..(n - 1) : r.blocks[m] = g.blocks[m]
(* What the end of a block appends and fixes.                               *)
LEMMA EndedIs ==
  ASSUME NEW i \in Nat, NEW g \in GenType, NEW w, w = Where(g), NEW n \in Nat \ {0}, n = Len(g.blocks),
         NEW b \in BlockType, b = Last(g.blocks), b.test = 0 \/ b.test \in 1..(w - 1), b.gotos \subseteq 1..(w - 1),
         NEW r, r = EndIf(g, i)
  PROVE  \E W : Ended(g, r, i, w, W, n, b)
<1>1. w \in Nat \ {0} /\ Len(g.code) \in Nat /\ Len(g.code) <= w
  BY CodeAt
<1>2. PICK closing \in BOOLEAN : closing = (b.test # 0 /\ b.gotos # {})
  OBVIOUS
<1>3. PICK f : f = IF closing THEN CloseArm(g, i) ELSE g
  OBVIOUS
<1>4. closing => ArmClosed(g, f, i, w, n, b)
  BY <1>2, <1>3, CloseArmIs
<1>5. PICK W \in Nat \ {0} : W = IF closing THEN w + 1 ELSE w
  BY <1>1
<1>6. f \in GenType /\ Where(f) = W /\ Len(f.blocks) = n
  BY <1>3, <1>4, <1>5 DEF ArmClosed
<1>7. PICK one \in Nat \ {0} : one = 1
  OBVIOUS
<1>8. PICK s, h : s = <<Hole>> /\ h = Puts(f, s)
  OBVIOUS
<1>9. Appended(f, h, s, W, one) /\ s[one] = Hole
  <2>1. s \in Seq(InstrType) /\ Len(s) = one /\ s[1] = Hole
    BY <1>7, <1>8, HoleIs
  <2> QED BY <1>6, <1>7, <1>8, <2>1, CodePuts
<1>10. /\ h \in GenType /\ Len(h.code) = W /\ Where(h) = W /\ h.code # <<>> /\ Last(h.code).op = "unused" /\ Len(f.code) <= W
       /\ \A q \in 1..(W - 1) : h.code[q] = f.code[q]
       /\ h.labels = f.labels /\ h.loops = f.loops /\ h.blocks = f.blocks /\ h.next = f.next /\ h.max = f.max
  <2>1. W - 1 + one = W
    BY <1>7
  <2> QED BY <1>9, <2>1, HoleIs DEF Appended
<1>11. PICK c, ends : c = Last(h.blocks) /\ ends = c.gotos \cup (IF c.test = 0 THEN {} ELSE {c.test})
  OBVIOUS
<1>12. EndsFixed(h, r, ends, W)
  <2>1. h.blocks # <<>>
    <3>1. h.blocks = f.blocks /\ f.blocks \in Seq(BlockType) /\ Len(f.blocks) = n
      BY <1>6, <1>10 DEF GenType
    <3> QED BY <3>1
  <2>2. r = FixEnds(h, ends, W)
    <3>1. W = Len(h.code)
      BY <1>10
    <3>2. f = IF Last(g.blocks).test # 0 /\ Last(g.blocks).gotos # {} THEN CloseArm(g, i) ELSE g
      BY <1>2, <1>3
    <3>3. EndIf(g, i) = BlockEnded(Puts(IF Last(g.blocks).test # 0 /\ Last(g.blocks).gotos # {} THEN CloseArm(g, i) ELSE g, <<Hole>>))
      BY Zenon DEF EndIf, BlockEnded, FixEnds
    <3>4. r = BlockEnded(h)
      BY <1>8, <3>2, <3>3, Zenon
    <3>5. BlockEnded(h) = FixEnds(h, c.gotos \cup (IF c.test = 0 THEN {} ELSE {c.test}), W)
      BY <1>11, <3>1, Zenon DEF BlockEnded
    <3> QED BY <1>11, <3>4, <3>5, Zenon
  <2>3. h \in GenType /\ h.code # <<>> /\ W \in Nat
    BY <1>10
  <2> QED BY ONLY <2>1, <2>2, <2>3, EndsAreFixed
<1>13. /\ r \in GenType /\ Len(r.code) = W /\ Where(r) = W /\ r.code # <<>> /\ Last(r.code).op = "unused"
       /\ r.labels = f.labels /\ r.loops = f.loops /\ r.next = f.next /\ r.max = f.max /\ r.blocks = Front(f.blocks)
       /\ \A q \in 1..(W - 1) : /\ Same(r.code[q], f.code[q])
                                /\ q \notin ends => r.code[q] = f.code[q]
                                /\ q \in ends => r.code[q].to = W /\ r.code[q] = [f.code[q] EXCEPT !.to = W]
  <2>1. \A q \in 1..(W - 1) : q \in 1..Len(h.code)
    BY <1>10
  <2>2. \A q \in 1..Len(h.code) : /\ Same(r.code[q], h.code[q])
                                  /\ q \notin ends => r.code[q] = h.code[q]
                                  /\ q \in ends => r.code[q].to = W /\ r.code[q] = [h.code[q] EXCEPT !.to = W]
    BY <1>12 DEF EndsFixed
  <2>3. /\ Len(r.code) = Len(h.code) /\ Where(r) = Where(h) /\ r.code # <<>> /\ Last(r.code).op = Last(h.code).op /\ r \in GenType
        /\ r.labels = h.labels /\ r.loops = h.loops /\ r.next = h.next /\ r.max = h.max /\ r.blocks = Front(h.blocks)
    BY <1>12 DEF EndsFixed
  <2> QED BY <1>10, <2>1, <2>2, <2>3
<1>14. Len(r.blocks) = n - 1 /\ \A m \in 1..(n - 1) : r.blocks[m] = f.blocks[m]
  <2>1. n - 1 \in 0..Len(f.blocks) /\ f.blocks \in Seq(BlockType)
    <3>1. f.blocks \in Seq(BlockType)
      BY ONLY <1>6 DEF GenType
    <3>2. n - 1 \in 0..n
      OBVIOUS
    <3> QED BY <1>6, <3>1, <3>2
  <2>2. r.blocks = SubSeq(f.blocks, 1, n - 1)
    BY <1>6, <1>13 DEF Front
  <2> QED BY <2>1, <2>2, Prefix
<1>15. CASE ~ closing
  <2>1. f = g /\ W = w /\ c = b
    <3>1. f = g /\ W = w
      BY <1>3, <1>5, <1>15
    <3> QED BY <1>10, <1>11, <3>1
  <2>2. \A p \in 1..(w - 1) : p \in ends <=> (p \in b.gotos \/ p = b.test)
    BY <1>11, <2>1
  <2>3. Len(g.code) <= W
    BY <1>1, <2>1
  <2>4. Ended(g, r, i, w, W, n, b)
    BY <1>13, <1>14, <2>1, <2>2, <2>3 DEF Ended
  <2> QED BY <2>4
<1>16. CASE closing
  <2>1. /\ Len(g.code) <= Len(f.code)
        /\ \A q \in 1..(w - 1) : q # b.test => f.code[q] = g.code[q]
        /\ Same(f.code[b.test], g.code[b.test]) /\ f.code[b.test].to = w + 1
        /\ f.code[w] = Instr("goto", i)
        /\ f.labels = g.labels /\ f.loops = g.loops /\ f.next = g.next /\ f.max = g.max
        /\ Last(f.blocks) = f.blocks[n] /\ f.blocks[n].test = 0 /\ f.blocks[n].gotos = b.gotos \cup {w}
        /\ \A m \in 1..(n - 1) : f.blocks[m] = g.blocks[m]
    BY <1>4, <1>16 DEF ArmClosed
  <2>2. W = w + 1 /\ w \in 1..(W - 1) /\ \A p \in 1..(w - 1) : p \in 1..(W - 1) /\ p # w
    BY <1>1, <1>5, <1>16
  <2>3. ends = b.gotos \cup {w}
    BY <1>10, <1>11, <2>1
  <2>4. r.code[w] = [Instr("goto", i) EXCEPT !.to = W]
    <3>1. r.code[w] = [f.code[w] EXCEPT !.to = W]
      BY <1>13, <2>2, <2>3
    <3> QED BY <2>1, <3>1, Zenon
  <2>5. ASSUME NEW p \in 1..(w - 1)
        PROVE  /\ Same(r.code[p], g.code[p])
               /\ p \notin b.gotos /\ p # b.test => r.code[p] = g.code[p]
               /\ p \in b.gotos \/ p = b.test => r.code[p].to = W
    <3>1. Same(r.code[p], f.code[p]) /\ (p \notin b.gotos => r.code[p] = f.code[p]) /\ (p \in b.gotos => r.code[p].to = W)
      BY <1>13, <2>2, <2>3
    <3>2. p # b.test => f.code[p] = g.code[p]
      BY <2>1
    <3>3. p = b.test => Same(f.code[p], g.code[p]) /\ f.code[p].to = W
      BY <2>1, <2>2
    <3>4. g.code[p] \in InstrType
      BY CodeAt
    <3>9. PICK x, y : x = r.code[p] /\ y = f.code[p]
      OBVIOUS
    <3>10. PICK z \in InstrType : z = g.code[p]
      BY <3>4
    <3>5. x = r.code[p] /\ y = f.code[p] /\ z = g.code[p]
      BY <3>9, <3>10
    <3>6. Same(x, y) /\ (Same(y, z) \/ y = z) => Same(x, z)
      BY DEF Same, InstrType
    <3>7. Same(y, z) \/ y = z
      BY <3>2, <3>3, <3>5
    <3>8. Same(x, z)
      BY <3>1, <3>5, <3>6, <3>7
    <3> QED BY <3>1, <3>2, <3>3, <3>5, <3>8
  <2>6. Len(g.code) <= W
    BY <1>1, <2>2
  <2>7. Ended(g, r, i, w, W, n, b)
    <3>1. \A m \in 1..(n - 1) : r.blocks[m] = g.blocks[m]
      BY <1>14, <2>1
    <3> QED BY <1>13, <1>14, <2>1, <2>2, <2>4, <2>5, <2>6, <3>1 DEF Ended
  <2> QED BY <2>7
<1> QED BY <1>15, <1>16

(* An ENDIF.                                                                 *)
LEMMA EndIfPart ==
  ASSUME UnitInv, phase # "read", NEW i \in Lines, NEW g, NEW P, Translated(g, P, i), unit[i].k = "endif"
  PROVE  Part(g, Statement(g, i), P, i, {})
<1>1. /\ P[i] = Where(g) /\ g \in GenType /\ BlockStack(g, P, i)
  BY DEF Translated, Sound
<1>2. PICK w : w = P[i] /\ w = Where(g) /\ w \in Nat \ {0}
  BY <1>1, CodeAt
<1>3. i \in Nat \ {0} /\ MaxLocal \in Nat \ {0} /\ Size(i) = 0 /\ unit[i].k \in Arms
      /\ \A y \in Lines : y \in Nat \ {0}
  BY LineIs, SizeIs DEF Arms
<1>4. PICK e \in IfEntries(i) :
        /\ e.head = unit[i].of /\ NextOne(e.arm, i)
        /\ \A f \in IfEntries(i) : f # e => f.head < e.head
        /\ IfEntries(i + 1) = IfEntries(i) \ {e}
  <2>1. PICK e \in IfEntries(i) :
        /\ e.head = unit[i].of /\ NextOne(e.arm, i)
        /\ \A f \in IfEntries(i) : f # e => f.head < e.head
        /\ IfEntries(i + 1) = (IfEntries(i) \ {e}) \cup {x \in {[head |-> unit[i].of, arm |-> i]} : unit[i].k # "endif"}
    BY <1>3, IfsAfter
  <2>2. {x \in {[head |-> unit[i].of, arm |-> i]} : unit[i].k # "endif"} = {}
    OBVIOUS
  <2>3. IfEntries(i + 1) = IfEntries(i) \ {e}
    BY <2>1, <2>2
  <2> QED BY <2>1, <2>3
<1>5. ArmBefore(i, e)
  BY <1>3, <1>4, ArmBeforeIs
<1>6. PICK n, b : n = Len(g.blocks) /\ b = Last(g.blocks)
  OBVIOUS
<1>7. n \in Nat \ {0} /\ b \in BlockType /\ BlockIs(P, i, e, b) /\ b = g.blocks[n]
  BY <1>1, <1>4, <1>6, TopBlock
<1>8. /\ b.line = e.head
      /\ Tests(e.arm) = {} => b.test = 0
      /\ \A a \in Tests(e.arm) : b.test = TestAt(P, a)
      /\ b.gotos = {P[y] : y \in Leaves(e.head, i)}
  BY <1>7 DEF BlockIs
<1>9. \A a \in Tests(e.arm) : /\ TestAt(P, a) \in 1..(w - 1)
                              /\ Fixable(i, g.code[TestAt(P, a)]) /\ g.code[TestAt(P, a)].lab = 0
  <2> TAKE a \in Tests(e.arm)
  <2>1. a \in Lines /\ unit[a].k \in {"if", "elseif"} /\ (a = e.arm \/ a < e.arm)
    BY DEF Tests, NextOne
  <2>2. a < i
    <3>1. e.arm \in 1..(i - 1)
      BY <1>5 DEF ArmBefore
    <3>2. PICK m \in Nat : m = e.arm /\ m < i
      BY <1>3, <3>1
    <3> QED BY <1>3, <2>1, <3>2
  <2>3. TestAt(P, a) \in 1..(w - 1) /\ Same(g.code[TestAt(P, a)], Instr("test", a))
    BY <1>2, <2>1, <2>2, ArmPlaces
  <2>4. g.code[TestAt(P, a)].op = "test" /\ g.code[TestAt(P, a)].line = a /\ g.code[TestAt(P, a)].lab = 0
    BY <2>3, SameIs
  <2>5. Fixable(i, g.code[TestAt(P, a)])
    BY <2>4 DEF Fixable
  <2> QED BY <2>3, <2>4, <2>5
<1>10. \A p \in b.gotos : p \in 1..(w - 1) /\ Fixable(i, g.code[p]) /\ g.code[p].lab = 0
  <2> TAKE p \in b.gotos
  <2>1. PICK y \in Leaves(e.head, i) : p = P[y]
    BY <1>8
  <2>2. y \in Lines /\ y < i /\ Jumps(y) /\ unit[y].of = e.head
    BY <2>1 DEF Leaves
  <2>3. P[y] \in 1..(w - 1) /\ Same(g.code[P[y]], Instr("goto", y))
    BY <1>2, <2>2, ArmPlaces
  <2>4. g.code[p].op = "goto" /\ g.code[p].line = y /\ g.code[p].lab = 0
    BY <2>1, <2>3, SameIs
  <2>5. Fixable(i, g.code[p])
    BY <2>2, <2>4 DEF Fixable
  <2> QED BY <2>1, <2>3, <2>4, <2>5
<1>11. /\ b.test = 0 \/ b.test \in 1..(w - 1)
       /\ b.test # 0 => Fixable(i, g.code[b.test]) /\ g.code[b.test].lab = 0
  <2>1. CASE Tests(e.arm) = {}
    BY <1>8, <2>1
  <2>2. CASE Tests(e.arm) # {}
    <3>1. PICK a \in Tests(e.arm) : TRUE
      BY <2>2
    <3> QED BY <1>8, <1>9, <3>1
  <2> QED BY <2>1, <2>2
<1>12. PICK r : r = EndIf(g, i)
  OBVIOUS
<1>13. r = Statement(g, i)
  BY <1>12 DEF Statement
<1>14. PICK W : Ended(g, r, i, w, W, n, b)
  <2>1. b.gotos \subseteq 1..(w - 1) /\ i \in Nat
    BY <1>3, <1>10
  <2> QED BY <1>1, <1>2, <1>6, <1>7, <1>11, <1>12, <2>1, EndedIs
<1>15. /\ r \in GenType /\ Len(r.code) = W /\ Where(r) = W /\ Len(g.code) <= W /\ W \in Nat \ {0} /\ r.code # <<>>
       /\ ~ (Last(r.code).op = "return")
       /\ W = w \/ (W = w + 1 /\ r.code[w] = [Instr("goto", i) EXCEPT !.to = W])
       /\ \A p \in 1..(w - 1) :
            /\ Same(r.code[p], g.code[p])
            /\ p \notin b.gotos /\ p # b.test => r.code[p] = g.code[p]
            /\ p \in b.gotos \/ p = b.test => r.code[p].to = W
       /\ r.labels = g.labels /\ r.loops = g.loops /\ r.next = g.next /\ r.max = g.max
       /\ Len(r.blocks) = n - 1 /\ \A m \in 1..(n - 1) : r.blocks[m] = g.blocks[m]
  BY <1>14 DEF Ended
<1>16. W \in 1..Len(r.code)
  BY <1>15
<1>17. ASSUME NEW p \in 1..(w - 1)
       PROVE  /\ Same(r.code[p], g.code[p])
              /\ r.code[p] = g.code[p] \/ (Fixable(i, g.code[p]) /\ g.code[p].lab = 0 /\ r.code[p].to \in 1..Len(r.code))
              /\ Waits(g, p) => Waits(r, p) \/ r.code[p].to \in 1..Len(r.code)
  <2>1. p # 0
    BY <1>2
  <2>2. CASE p \in b.gotos \/ p = b.test
    BY <1>10, <1>11, <1>15, <1>16, <2>1, <2>2
  <2>3. CASE p \notin b.gotos /\ p # b.test
    <3>1. ASSUME NEW m \in 1..n, g.blocks[m].test = p \/ p \in g.blocks[m].gotos
          PROVE  m \in 1..Len(r.blocks) /\ (r.blocks[m].test = p \/ p \in r.blocks[m].gotos)
      <4>1. m # n
        BY <1>7, <2>3, <3>1
      <4>2. m \in 1..(n - 1)
        BY <1>7, <4>1
      <4> QED BY <1>15, <3>1, <4>2
    <3>2. Waits(g, p) => Waits(r, p)
      BY <1>6, <1>15, <3>1 DEF Waits
    <3> QED BY <1>15, <2>3, <3>2
  <2> QED BY <2>2, <2>3
<1>18. ASSUME NEW p \in w..(Where(r) - 1) PROVE InstrOK(r, p)
  <2>1. PICK y : y = Where(r) /\ p \in w..(y - 1)
    OBVIOUS
  <2>2. y = W
    BY <1>15, <2>1
  <2>3. p = w /\ W = w + 1
    BY ONLY <1>2, <1>15, <2>1, <2>2
  <2>4. r.code[w] = [Instr("goto", i) EXCEPT !.to = W]
    BY <1>2, <1>15, <2>3
  <2>5. PICK x : x = [Instr("goto", i) EXCEPT !.to = W]
    OBVIOUS
  <2>6. x.op = "goto" /\ x.line = i /\ x.loc = 0 /\ x.lab = 0 /\ ~ x.wide /\ x.to = W
    BY <2>5 DEF Instr
  <2>7. 0 < MaxLocal
    BY <1>3
  <2> QED BY <1>16, <2>3, <2>4, <2>5, <2>6, <2>7 DEF InstrOK
<1>19. StatementCode(r.code, i, P[i])
  <2>1. PICK d, kk : d = r.code /\ kk = unit[i].k /\ kk = "endif"
    OBVIOUS
  <2>2. StatementCode(d, i, w)
    BY ONLY <2>1, Zenon DEF StatementCode, CodeOf
  <2> QED BY <1>2, <2>1, <2>2
<1>20. BlockStack(r, P, i + 1)
  <2>1. Len(r.blocks) = n - 1 /\ IfEntries(i + 1) = IfEntries(i) \ {e} /\ unit[i].k = "endif"
    BY <1>4, <1>15
  <2>2. r \in GenType /\ \A m \in 1..(n - 1) : r.blocks[m] = g.blocks[m]
    BY <1>15
  <2> QED BY <1>1, <1>4, <1>6, <2>1, <2>2, BlocksNext
<1>21. ASSUME NEW a \in Tests(e.arm) PROVE r.code[TestAt(P, a)].to = W
  BY <1>8, <1>9, <1>15, <1>21
<1>22. ArmsClosed(r.code, P, i, W)
  <2>1. ASSUME NEW a \in 1..(i - 1), unit[a].k \in {"if", "elseif"}, NextOne(a, i) PROVE r.code[TestAt(P, a)].to = W
    <3>1. a = e.arm /\ e.arm \in Lines
      BY <1>5, <2>1 DEF ArmBefore
    <3>2. a \in Tests(e.arm)
      BY <2>1, <3>1 DEF Tests
    <3> QED BY <1>21, <3>2
  <2>2. ASSUME NEW a \in 1..(i - 1), unit[a].k \in {"if", "elseif"}, NextOne(a, i - 1), Empty(i - 1)
        PROVE  r.code[TestAt(P, a)].to = W
    <3>1. e.arm = i - 1
      BY <1>5, <2>2 DEF ArmBefore
    <3>2. a \in Lines
      <4>1. Lines = 1..Len(unit) /\ Len(unit) \in Nat
        BY UnitTypes DEF UnitInv
      <4> QED BY <1>3, <4>1
    <3>3. a \in Tests(e.arm)
      BY <2>2, <3>1, <3>2 DEF Tests
    <3> QED BY <1>21, <3>3
  <2>3. ASSUME NEW a \in 1..(i - 1), Jumps(a), unit[a].of = unit[i].of PROVE r.code[P[a]].to = W
    <3>1. a \in Lines /\ a < i
      <4>1. Lines = 1..Len(unit) /\ Len(unit) \in Nat
        BY UnitTypes DEF UnitInv
      <4> QED BY <1>3, <4>1
    <3>2. a \in Leaves(e.head, i)
      BY <1>4, <2>3, <3>1 DEF Leaves
    <3>3. P[a] \in b.gotos
      BY <1>8, <3>2
    <3> QED BY <1>10, <1>15, <3>3
  <2>4. ~ Jumps(i)
    BY DEF Jumps
  <2> QED BY <2>1, <2>2, <2>3, <2>4 DEF ArmsClosed
<1>23. Where(r) = P[i] \/ (Where(r) = P[i] + 1 /\ r.code[P[i]] = [Instr("goto", i) EXCEPT !.to = Where(r)])
  BY <1>2, <1>15
<1>24. P[i] + Size(i) <= Where(r) /\ Len(g.code) <= Len(r.code) /\ ArmsClosed(r.code, P, i, Where(r))
  BY <1>2, <1>3, <1>15, <1>22
<1>25. Part(g, r, P, i, {})
  BY <1>2, <1>3, <1>15, <1>17, <1>18, <1>19, <1>20, <1>23, <1>24, ArmPart
<1> QED BY <1>13, <1>25

(* What a later line does not change in the code of an earlier one.          *)
LEMMA ArmEndKept ==
  ASSUME UnitInv, NEW i \in Lines, NEW g, NEW P, Translated(g, P, i), NEW d, Fixes(i, g.code, d, P[i]), NEW a \in 1..(i - 1)
  PROVE  ArmEnd(d, P, i, a)
<1>1. LinesCoded(g, P, i) /\ P[i] = Where(g) /\ Lines = 1..Len(unit) /\ Len(unit) \in Nat /\ i \in Nat /\ i \in 1..(Len(unit) + 1)
  BY UnitTypes DEF Translated, UnitInv
<1>2. a \in Lines /\ a < i /\ a \in Nat /\ ArmEnd(g.code, P, i, a)
  <2>1. a \in Lines /\ a < i /\ a \in Nat
    BY <1>1
  <2> QED BY <1>1, <2>1 DEF LinesCoded
<1>3. \A e \in IfEntries(i) : /\ e.head \in Nat /\ e.arm \in 1..(i - 1) /\ e.arm \in Lines /\ HeadOf(e.arm) = e.head
                              /\ unit[e.head].k = "if" /\ Latest(e, i) /\ (unit[e.arm].k # "if" => unit[e.arm].of = e.head)
  <2>1. IfEntries(i) = {e \in Entries(i) : unit[e.head].k = "if"}
    BY <1>1, EntriesAre
  <2> QED BY <1>1, <2>1, EntriesAre
<1>4. \A q \in 1..(P[i] - 1) : d[q] # g.code[q] => Fixable(i, g.code[q])
  BY DEF Fixes
<1>5. ASSUME unit[a].k \in {"if", "elseif"}, NEW j \in 1..(i - 1), NextOne(a, j)
      PROVE  /\ Jumps(j) => d[TestAt(P, a)].to = P[j] + 1
             /\ unit[j].k = "endif" => d[TestAt(P, a)].to = P[j + 1]
             /\ Empty(j) /\ j + 1 < i => d[TestAt(P, a)].to = P[j + 2]
  <2>1. j \in Lines /\ j < i /\ j \in Nat /\ a < j /\ unit[j].of = HeadOf(a) /\ \A m \in (a + 1)..(j - 1) : unit[m].of # HeadOf(a)
    BY <1>1, <1>5 DEF NextOne
  <2>2. PICK t : t = TestAt(P, a)
    OBVIOUS
  <2>3. t \in 1..(P[i] - 1) /\ g.code[t].op = "test" /\ g.code[t].line = a
    <3>1. t \in 1..(Where(g) - 1) /\ Same(g.code[t], Instr("test", a))
      BY <1>2, <1>5, <2>2, ArmPlaces
    <3> QED BY <1>1, <3>1, SameIs
  <2>4. /\ Jumps(j) => g.code[t].to = P[j] + 1
        /\ unit[j].k = "endif" => g.code[t].to = P[j + 1]
        /\ Empty(j) /\ j + 1 < i => g.code[t].to = P[j + 2]
    BY <1>2, <1>5, <2>2 DEF ArmEnd
  <2>5. ASSUME Jumps(j) \/ unit[j].k = "endif" \/ (Empty(j) /\ j + 1 < i) PROVE ~ Fixable(i, g.code[t])
    <3> SUFFICES ASSUME NEW e \in IfEntries(i), a \in Tests(e.arm) PROVE FALSE
      BY <2>3 DEF Fixable
    <3>1. /\ e.head \in Nat /\ e.arm \in 1..(i - 1) /\ e.arm \in Lines /\ HeadOf(e.arm) = e.head /\ unit[e.head].k = "if" /\ Latest(e, i)
          /\ (unit[e.arm].k # "if" => unit[e.arm].of = e.head)
      BY <1>3
    <3>2. e.arm \in Nat
      BY <1>1, <3>1
    <3>3. CASE a = e.arm
      <4>1. j <= e.arm
        BY <2>1, <3>1, <3>3 DEF Latest
      <4> QED BY <1>2, <2>1, <3>3, <4>1
    <3>4. CASE Empty(e.arm) /\ NextOne(a, e.arm)
      <4>1. j = e.arm
        <5>1. a < e.arm /\ unit[e.arm].of = HeadOf(a) /\ \A m \in (a + 1)..(e.arm - 1) : unit[m].of # HeadOf(a)
          BY <3>4 DEF NextOne
        <5>2. ~ (j < e.arm)
          BY <1>2, <2>1, <3>2, <5>1
        <5>3. ~ (e.arm < j)
          BY <1>2, <2>1, <3>2, <5>1
        <5> QED BY <2>1, <3>2, <5>2, <5>3
      <4>2. Empty(j) /\ unit[j].k = "else" /\ unit[j + 1].k = "endif"
        BY <3>4, <4>1 DEF Empty
      <4>3. j + 1 < i
        BY <2>5, <4>2 DEF Jumps
      <4>4. j + 1 \in Lines
        BY <1>1, <2>1, <4>3
      <4>5. unit[j + 1].of = e.head
        BY <2>1, <3>1, <4>1, <4>2, <4>4, NewestArm DEF Arms
      <4> QED BY <3>1, <4>2, <4>3, <4>4, <4>5 DEF Latest
    <3> QED BY <3>3, <3>4 DEF Tests
  <2>6. Jumps(j) \/ unit[j].k = "endif" \/ (Empty(j) /\ j + 1 < i) => d[t] = g.code[t]
    BY <1>4, <2>3, <2>5
  <2> QED BY <2>2, <2>4, <2>6
<1>6. ASSUME Jumps(a), NEW j \in 1..(i - 1), unit[j].k = "endif", unit[j].of = unit[a].of
      PROVE  d[P[a]].to = P[j + 1]
  <2>1. j \in Lines /\ j < i
    BY <1>1
  <2>2. P[a] \in 1..(P[i] - 1) /\ g.code[P[a]].op = "goto" /\ g.code[P[a]].line = a
    <3>1. P[a] \in 1..(Where(g) - 1) /\ Same(g.code[P[a]], Instr("goto", a))
      BY <1>2, <1>6, ArmPlaces
    <3> QED BY <1>1, <3>1, SameIs
  <2>3. g.code[P[a]].to = P[j + 1]
    BY <1>2, <1>6 DEF ArmEnd
  <2>4. ~ Fixable(i, g.code[P[a]])
    <3> SUFFICES ASSUME NEW e \in IfEntries(i), unit[a].of = e.head PROVE FALSE
      BY <1>6, <2>2 DEF Fixable, Jumps, DoHeads
    <3>1. unit[e.head].k = "if" /\ Latest(e, i)
      BY <1>3
    <3> QED BY <1>6, <2>1, <3>1 DEF Latest
  <2> QED BY <1>4, <2>2, <2>3, <2>4
<1> QED BY <1>5, <1>6 DEF ArmEnd

(* Fixing branches leaves the code of all lines before.                     *)
LEMMA CodeKept ==
  ASSUME UnitInv, NEW i \in Lines, NEW g, NEW P, Translated(g, P, i), NEW d, Fixes(i, g.code, d, P[i]), NEW j \in 1..(i - 1)
  PROVE  StatementCode(d, j, P[j]) /\ LineEnd(d, P, j) /\ LocalsOK(d, P, j)
<1>1. /\ LinesCoded(g, P, i) /\ P[i] = Where(g) /\ Lines = 1..Len(unit) /\ Len(unit) \in Nat /\ i \in Nat /\ i \in 1..(Len(unit) + 1)
      /\ g \in GenType
  BY UnitTypes DEF Translated, Sound, UnitInv
<1>2. j \in Lines /\ j < i /\ j \in Nat /\ j \in 1..i /\ j \in 1..(Len(unit) + 1)
  BY <1>1
<1>3. PICK c \in Seq(InstrType), w \in Nat \ {0} : c = g.code /\ w = P[i] /\ w = Where(g) /\ w <= Len(c) + 1
  BY <1>1, CodeAt
<1>4. /\ P \in [1..i -> Nat \ {0}]
      /\ \A k \in 1..i : P[k] \in Nat \ {0} /\ k \in Lines /\ P[k] <= w /\ Size(k) \in Nat
      /\ \A k \in 1..(i - 1) : P[k] + Size(k) <= w /\ P[k] + Size(k) <= P[k + 1] /\ k + 1 \in 1..i /\ P[k + 1] <= w
      /\ \A k \in 1..(i - 1) : StatementCode(c, k, P[k]) /\ LineEnd(c, P, k) /\ LocalsOK(c, P, k)
  <2>1. \A k \in 1..(i - 1) : StatementCode(c, k, P[k]) /\ LineEnd(c, P, k) /\ LocalsOK(c, P, k)
    BY <1>1, <1>3, Zenon DEF LinesCoded
  <2>2. /\ P \in [1..i -> Nat \ {0}]
        /\ \A k \in 1..i : P[k] \in Nat \ {0} /\ k \in Lines /\ P[k] <= P[i] /\ Size(k) \in Nat
        /\ \A k \in 1..(i - 1) : P[k] + Size(k) <= P[i] /\ P[k] + Size(k) <= P[k + 1] /\ k + 1 \in 1..i /\ P[k + 1] <= P[i]
    BY <1>1, Places
  <2> QED BY <1>3, <2>1, <2>2
<1>5. Fixes(i, c, d, w)
  BY <1>3
<1>6. StatementCode(d, j, P[j])
  <2>1. P[j] \in Nat \ {0} /\ P[j] + Size(j) <= w /\ StatementCode(c, j, P[j])
    BY <1>2, <1>4
  <2> QED BY <1>2, <1>5, <2>1, StatementKept
<1>7. \A q \in 1..(w - 1) : Same(d[q], c[q]) /\ (d[q] # c[q] => Fixable(i, c[q])) /\ c[q] \in InstrType
  <2>1. \A q \in 1..(w - 1) : c[q] \in InstrType
    BY <1>1, <1>3, CodeAt
  <2> QED BY <1>5, <2>1 DEF Fixes
<1>8. ASSUME unit[j].k = "endif" PROVE LineEnd(d, P, j)
  <2>1. EndIfCode(c, P, j)
    BY <1>4, <1>8 DEF LineEnd
  <2>2. ASSUME P[j + 1] = P[j] PROVE EndIfCode(d, P, j)
    BY <2>2, Zenon DEF EndIfCode
  <2>3. ASSUME P[j + 1] = P[j] + 1 /\ c[P[j]] = [Instr("goto", j) EXCEPT !.to = P[j + 1]]
        PROVE  EndIfCode(d, P, j)
    <3>1. P[j] \in 1..(w - 1)
      <4>1. P[j] \in Nat \ {0} /\ P[j + 1] <= w
        BY <1>2, <1>4
      <4>2. P[j] + 1 <= w
        BY <2>3, <4>1
      <4> QED BY ONLY <1>3, <4>1, <4>2
    <3>2. c[P[j]].line = j
      BY <2>3, Fields
    <3>3. ~ Fixable(i, c[P[j]])
      BY <1>8, <3>2, FixableIs
    <3>4. d[P[j]] = c[P[j]]
      BY <1>7, <3>1, <3>3
    <3> QED BY <2>3, <3>4, Zenon DEF EndIfCode
  <2>4. EndIfCode(d, P, j)
    BY <2>1, <2>2, <2>3 DEF EndIfCode
  <2> QED BY <1>8, <2>4, Zenon DEF LineEnd
<1>9. ASSUME unit[j].k # "endif" PROVE LineEnd(d, P, j)
  <2>6. PICK v \in Nat : v = P[j + 1] /\ v <= w
    BY <1>2, <1>4
  <2>7. PICK R : R = Ends(j)
    OBVIOUS
  <2>1. v = P[j + 1] /\ v <= w /\ R = Ends(j)
    BY <2>6, <2>7
  <2>2. Chained(c, P, j, R, v)
    BY <1>4, <1>9, <2>1 DEF LineEnd
  <2>3. \A x \in R : x \in 1..i /\ unit[x].k = "do" /\ x \notin DoHeads(i) /\ P[x] + 3 <= w /\ StatementCode(c, x, P[x])
    <3> TAKE x \in R
    <3>1. x \notin DoHeads(i) /\ x \in 1..(j - 1) /\ x \in Lines /\ unit[x].k = "do"
      BY <1>1, <2>1, DoHeadsIs
    <3>2. x \in 1..(i - 1) /\ x \in 1..i
      BY <1>1, <1>2, <3>1
    <3>3. Size(x) = 3
      BY <3>1, SizeIs
    <3> QED BY <1>4, <3>1, <3>2, <3>3
  <2>4. P[j] \in Nat /\ Size(j) \in Nat
    BY <1>2, <1>4
  <2>5. Chained(d, P, j, R, v)
    BY <1>2, <1>3, <1>4, <1>5, <2>1, <2>2, <2>3, <2>4, LoopEndsKept
  <2> QED BY <1>9, <2>1, <2>5, Zenon DEF LineEnd
<1>10. ASSUME NEW q \in 1..(w - 1) PROVE d[q].loc = c[q].loc
  <2>1. PICK x, y : x = d[q] /\ y = c[q]
    OBVIOUS
  <2>2. x = [y EXCEPT !.to = x.to] /\ y \in InstrType
    BY <1>7, <2>1 DEF Same
  <2>3. x.loc = y.loc
    BY ONLY <2>2 DEF InstrType
  <2> QED BY <2>1, <2>3
<1>11. LocalsOK(d, P, j)
  <2>1. ASSUME NEW x \in 1..(i - 1), Size(x) > 0 PROVE d[P[x]].loc = c[P[x]].loc
    <3>1. P[x] \in Nat \ {0} /\ Size(x) \in Nat /\ P[x] + Size(x) <= w
      <4>1. x \in 1..i
        BY <1>1
      <4> QED BY <1>4, <4>1
    <3>2. P[x] \in 1..(w - 1)
      BY ONLY <1>3, <2>1, <3>1
    <3> QED BY <1>10, <3>2
  <2>2. ASSUME NEW x \in 1..(i - 1), Size(x) > 1 PROVE d[P[x] + 1].loc = c[P[x] + 1].loc
    <3>1. P[x] \in Nat \ {0} /\ Size(x) \in Nat /\ P[x] + Size(x) <= w
      <4>1. x \in 1..i
        BY <1>1
      <4> QED BY <1>4, <4>1
    <3>2. P[x] + 1 \in 1..(w - 1)
      BY ONLY <1>3, <2>2, <3>1
    <3> QED BY <1>10, <3>2
  <2>3. ASSUME NEW x \in DoHeads(j)
        PROVE  /\ unit[j].k = "do" => d[P[x] + 1].loc < d[P[j] + 1].loc
               /\ unit[j].k \in {"cgoto", "agoto", "aif", "aifwide"} => d[P[x] + 1].loc < d[P[j]].loc
    <3>1. x \in 1..(j - 1) /\ x \in Lines /\ unit[x].k = "do"
      BY <1>2, DoHeadsIs
    <3>2. x \in 1..(i - 1) /\ Size(x) = 3
      BY <1>1, <1>2, <3>1, SizeIs
    <3>3. d[P[x] + 1].loc = c[P[x] + 1].loc
      BY <2>2, <3>2
    <3>4. /\ unit[j].k = "do" => c[P[x] + 1].loc < c[P[j] + 1].loc
          /\ unit[j].k \in {"cgoto", "agoto", "aif", "aifwide"} => c[P[x] + 1].loc < c[P[j]].loc
      <4>1. LocalsOK(c, P, j)
        BY <1>4
      <4> QED BY <4>1 DEF LocalsOK
    <3>5. /\ unit[j].k = "do" => Size(j) = 3
          /\ unit[j].k \in {"cgoto", "agoto"} => Size(j) = 1 + 2 * Len(Chosen(j)) /\ Len(Chosen(j)) \in Nat
          /\ unit[j].k \in {"aif", "aifwide"} => Size(j) = 6
      BY <1>2, SizeIs
    <3>6. unit[j].k \in {"cgoto", "agoto", "aif", "aifwide"} => Size(j) > 0
      <4>1. \A n \in Nat : 1 + 2 * n > 0
        OBVIOUS
      <4> QED BY <3>5, <4>1
    <3> QED BY <2>1, <2>2, <3>3, <3>4, <3>5, <3>6
  <2> QED BY <2>3 DEF LocalsOK
<1> QED BY <1>6, <1>8, <1>9, <1>11

(* What is said of the places of lines depends on those of the lines so far. *)
LEMMA ChainedMoved ==
  ASSUME NEW c, NEW P, NEW Q, NEW t, Q[t] = P[t], NEW R, \A x \in R : Q[x] = P[x], NEW w, Chained(c, P, t, R, w)
  PROVE  Chained(c, Q, t, R, w)
<1> PICK E, q : E = [x \in R |-> EndAt(c, P, x)] /\ q = P[t] + Size(t)
  OBVIOUS
<1>1. \A x \in R : E[x] = EndAt(c, P, x) /\ E[x] = EndAt(c, Q, x)
  BY DEF EndAt
<1>2. /\ R = {} => w = q
      /\ \A x \in R : /\ q <= E[x] /\ E[x] + 3 <= w
                      /\ (\A e \in R : e <= x) => E[x] = q
                      /\ (\A e \in R : x <= e) => E[x] + 3 = w
                      /\ \A e \in R : e < x /\ (\A f \in R : f <= e \/ x <= f) => E[e] = E[x] + 3
  BY <1>1 DEF Chained
<1>3. ASSUME NEW x \in R PROVE LoopEnd(c, Q, x)
  <2>1. LoopEnd(c, P, x) /\ Q[x] = P[x]
    BY DEF Chained
  <2>2. EndAt(c, Q, x) = EndAt(c, P, x)
    BY <1>1
  <2> QED BY <2>1, <2>2, Zenon DEF LoopEnd
<1> QED BY <1>1, <1>2, <1>3 DEF Chained

(* What is said of earlier lines depends on their places only.              *)
LEMMA PlacesMoved ==
  ASSUME UnitInv, NEW i \in Lines, NEW P, NEW Q, \A j \in 1..i : Q[j] = P[j], NEW c
  PROVE  /\ \A j \in 1..(i - 1) : LineEnd(c, P, j) => LineEnd(c, Q, j)
         /\ \A w : Chained(c, P, i, Ends(i), w) => Chained(c, Q, i, Ends(i), w)
         /\ \A j \in 1..i : LocalsOK(c, P, j) => LocalsOK(c, Q, j)
<1>1. Lines = 1..Len(unit) /\ Len(unit) \in Nat /\ i \in Nat \ {0} /\ i + 1 \in 1..(Len(unit) + 1)
  BY UnitTypes DEF UnitInv
<1>2. ASSUME NEW j \in 1..i, NEW w, Chained(c, P, j, Ends(j), w) PROVE Chained(c, Q, j, Ends(j), w)
  <2>1. \A x \in Ends(j) : Q[x] = P[x]
    <3> TAKE x \in Ends(j)
    <3>1. j \in 1..(i + 1 - 1)
      BY <1>1
    <3>2. x \in 1..(j - 1)
      BY <1>1, <3>1, DoHeadsIs
    <3>3. x \in 1..i
      BY <1>1, <3>2
    <3> QED BY <3>3
  <2> QED BY <1>2, <2>1, ChainedMoved
<1>3. ASSUME NEW j \in 1..(i - 1), LineEnd(c, P, j) PROVE LineEnd(c, Q, j)
  <2>1. j \in 1..i /\ j + 1 \in 1..i
    BY <1>1
  <2>2. Q[j] = P[j] /\ Q[j + 1] = P[j + 1]
    BY <2>1
  <2>3. CASE unit[j].k = "endif"
    <3>1. EndIfCode(c, P, j)
      BY <1>3, <2>3, Zenon DEF LineEnd
    <3>2. EndIfCode(c, Q, j)
      BY <2>2, <3>1, Zenon DEF EndIfCode
    <3> QED BY <2>3, <3>2, Zenon DEF LineEnd
  <2>4. CASE unit[j].k # "endif"
    <3>1. Chained(c, P, j, Ends(j), P[j + 1])
      BY <1>3, <2>4, Zenon DEF LineEnd
    <3>2. Chained(c, Q, j, Ends(j), P[j + 1])
      BY <1>2, <2>1, <3>1
    <3>3. Chained(c, Q, j, Ends(j), Q[j + 1])
      BY <2>2, <3>2
    <3> QED BY <2>4, <3>3, Zenon DEF LineEnd
  <2> QED BY <2>3, <2>4
<1>4. ASSUME NEW j \in 1..i, LocalsOK(c, P, j) PROVE LocalsOK(c, Q, j)
  <2>1. \A x \in DoHeads(j) : Q[x] = P[x]
    <3> TAKE x \in DoHeads(j)
    <3>1. j \in 1..(Len(unit) + 1)
      BY <1>1
    <3>2. x \in 1..(j - 1)
      BY <3>1, DoHeadsIs
    <3>3. x \in 1..i
      BY <1>1, <3>2
    <3> QED BY <3>3
  <2>2. Q[j] = P[j]
    OBVIOUS
  <2> QED BY <1>4, <2>1, <2>2 DEF LocalsOK
<1>5. \A w : Chained(c, P, i, Ends(i), w) => Chained(c, Q, i, Ends(i), w)
  <2>1. i \in 1..i
    BY <1>1
  <2> QED BY <1>2, <2>1
<1> QED BY <1>3, <1>4, <1>5

(* So does what is said of the stacks.                                      *)
LEMMA StacksMoved ==
  ASSUME UnitInv, NEW i \in Lines, NEW P, NEW Q, \A j \in 1..i : Q[j] = P[j], NEW g, NEW h, h.loops = g.loops, h.blocks = g.blocks, h.next = g.next
  PROVE  /\ \A D : LoopStack(g, P, D) /\ (\A d \in D : d \in 1..i /\ h.code[P[d] + 1].loc = g.code[P[d] + 1].loc) => LoopStack(h, Q, D)
         /\ BlockStack(g, P, i + 1) => BlockStack(h, Q, i + 1)
<1>1. Lines = 1..Len(unit) /\ Len(unit) \in Nat /\ i \in Nat \ {0} /\ i + 1 \in 1..(Len(unit) + 1)
  BY UnitTypes DEF UnitInv
<1>2. ASSUME NEW D, LoopStack(g, P, D), \A d \in D : d \in 1..i /\ h.code[P[d] + 1].loc = g.code[P[d] + 1].loc
      PROVE  LoopStack(h, Q, D)
  <2> PICK s : s = g.loops
    OBVIOUS
  <2>1. /\ h.next = Len(s)
        /\ \A d \in D : \E m \in 1..Len(s) : s[m].line = d
        /\ \A m \in 1..Len(s) : /\ s[m].line \in D /\ \A q \in 1..(m - 1) : s[q].line < s[m].line
                                /\ s[m].label = unit[s[m].line].to[1] /\ s[m].loc = m - 1 /\ s[m].goto = P[s[m].line] + 2
    BY <1>2 DEF LoopStack
  <2>2. \A m \in 1..Len(s) : g.code[P[s[m].line] + 1].loc = m - 1
    BY <1>2 DEF LoopStack
  <2>3. \A m \in 1..Len(s) : Q[s[m].line] = P[s[m].line]
    BY <1>2, <2>1
  <2>4. \A m \in 1..Len(s) : h.code[Q[s[m].line] + 1].loc = m - 1 /\ s[m].goto = Q[s[m].line] + 2
    <3> TAKE m \in 1..Len(s)
    <3>1. PICK d \in D : d = s[m].line
      BY <2>1
    <3>2. Q[d] = P[d] /\ h.code[P[d] + 1].loc = g.code[P[d] + 1].loc /\ g.code[P[d] + 1].loc = m - 1 /\ s[m].goto = P[d] + 2
      BY <1>2, <2>1, <2>2, <2>3, <3>1
    <3> QED BY <3>1, <3>2
  <2> QED BY <2>1, <2>4 DEF LoopStack
<1>3. ASSUME NEW e \in IfEntries(i + 1), NEW b, BlockIs(P, i + 1, e, b) PROVE BlockIs(Q, i + 1, e, b)
  <2>1. e.arm \in 1..i
    <3>1. IfEntries(i + 1) \subseteq Entries(i + 1)
      BY <1>1, EntriesAre
    <3>2. e.arm \in 1..(i + 1 - 1)
      BY <1>1, <3>1, EntriesAre
    <3> QED BY <1>1, <3>2
  <2>2. \A a \in Tests(e.arm) : TestAt(Q, a) = TestAt(P, a)
    <3> TAKE a \in Tests(e.arm)
    <3>1. a \in Lines /\ (a = e.arm \/ a < e.arm)
      BY DEF Tests, NextOne
    <3>2. a \in 1..i
      BY <1>1, <2>1, <3>1
    <3> QED BY <3>2 DEF TestAt
  <2>3. \A y \in Leaves(e.head, i + 1) : Q[y] = P[y]
    <3> TAKE y \in Leaves(e.head, i + 1)
    <3>1. y \in Lines /\ y < i + 1
      BY DEF Leaves
    <3>2. y \in 1..i
      BY <1>1, <3>1
    <3> QED BY <3>2
  <2>4. {Q[y] : y \in Leaves(e.head, i + 1)} = {P[y] : y \in Leaves(e.head, i + 1)}
    BY <2>3
  <2>5. /\ b.line = e.head
        /\ Tests(e.arm) = {} => b.test = 0
        /\ \A a \in Tests(e.arm) : b.test = TestAt(P, a)
        /\ b.gotos = {P[y] : y \in Leaves(e.head, i + 1)}
    BY <1>3 DEF BlockIs
  <2> QED BY <2>2, <2>4, <2>5 DEF BlockIs
<1>4. BlockStack(g, P, i + 1) => BlockStack(h, Q, i + 1)
  BY <1>3 DEF BlockStack
<1> QED BY <1>2, <1>4

(* A placeholder and labels that are added change nothing else.              *)
Like(g, h) ==
  /\ h \in GenType /\ Where(h) = Where(g) /\ Len(g.code) <= Len(h.code)
  /\ \A q \in 1..(Where(g) - 1) : h.code[q] = g.code[q]
  /\ h.loops = g.loops /\ h.blocks = g.blocks /\ h.next = g.next /\ h.max = g.max
LabelsFit(h) == \A l \in DOMAIN h.labels : l # 0 /\ h.labels[l] \in 1..Len(h.code)
(* A placeholder at the end keeps the state sound.                          *)
LEMMA SoundLike ==
  ASSUME NEW g, NEW h, Sound(g), Like(g, h), LabelsFit(h)
  PROVE  Sound(h) /\ \A i : Fixes(i, g.code, h.code, Where(g))
<1>1. g \in GenType /\ \A p \in 1..(Where(g) - 1) : InstrOK(g, p)
  BY DEF Sound
<1>2. /\ h \in GenType /\ Where(h) = Where(g) /\ Len(g.code) <= Len(h.code)
      /\ \A q \in 1..(Where(g) - 1) : h.code[q] = g.code[q]
      /\ h.loops = g.loops /\ h.blocks = g.blocks /\ h.next = g.next /\ h.max = g.max
  BY DEF Like
<1>3. Len(g.code) \in Nat /\ Len(h.code) \in Nat
  BY <1>1, <1>2, CodeAt
<1>4. ASSUME NEW p \in 1..(Where(g) - 1) PROVE InstrOK(h, p)
  <2>1. PICK x : x = g.code[p] /\ x = h.code[p]
    BY <1>2
  <2>2. /\ x.op # "unused" /\ x.line \in Lines
        /\ x.op \in Branches => \/ Waits(g, p) /\ x.lab = 0
                                \/ x.lab = 0 /\ x.to \in 1..Len(g.code)
                                \/ x.op = "goto" /\ x.lab \in ToSet(Chosen(x.line)) /\ unit[x.line].k \notin {"do", "end"}
        /\ x.loc < MaxLocal /\ (x.wide => x.loc + 1 < MaxLocal)
    BY <1>1, <2>1 DEF InstrOK
  <2>3. x.to \in 1..Len(g.code) => x.to \in 1..Len(h.code)
    BY <1>2, <1>3
  <2>4. Waits(h, p) <=> Waits(g, p)
    BY <1>2 DEF Waits
  <2> QED BY <2>1, <2>2, <2>3, <2>4 DEF InstrOK
<1>5. Sound(h)
  BY <1>2, <1>4 DEF Sound, LabelsFit
<1>6. ASSUME NEW i PROVE Fixes(i, g.code, h.code, Where(g))
  <2>1. \A z \in InstrType : Same(z, z)
    BY DEF Same, InstrType
  <2>2. \A q \in 1..(Where(g) - 1) : g.code[q] \in InstrType
    BY <1>1, CodeAt
  <2>3. \A q \in 1..(Where(g) - 1) : Same(h.code[q], g.code[q]) /\ h.code[q] = g.code[q]
    BY <1>2, <2>1, <2>2
  <2> QED BY <2>3 DEF Fixes
<1> QED BY <1>5, <1>6

(* The labels of the lines before line i stay.                               *)
LabelsStay(g, h, i) ==
  \A j \in 1..(i - 1) : unit[j].lab # 0 /\ unit[j].lab \in DOMAIN g.labels =>
    unit[j].lab \in DOMAIN h.labels /\ h.labels[unit[j].lab] = g.labels[unit[j].lab]
(* And it keeps what has been translated.                                   *)
LEMMA TranslatedLike ==
  ASSUME UnitInv, NEW i \in Lines, NEW g, NEW P, Translated(g, P, i), NEW h, Like(g, h), LabelsFit(h), LabelsStay(g, h, i),
         ~ (h.code # <<>> /\ Last(h.code).op = "return")
  PROVE  Translated(h, P, i)
<1>1. /\ Sound(g) /\ LinesCoded(g, P, i) /\ P[i] = Where(g) /\ LoopStack(g, P, DoHeads(i)) /\ BlockStack(g, P, i) /\ g \in GenType
  BY DEF Translated, Sound
<1>2. /\ h \in GenType /\ Where(h) = Where(g) /\ \A q \in 1..(Where(g) - 1) : h.code[q] = g.code[q]
      /\ h.loops = g.loops /\ h.blocks = g.blocks /\ h.next = g.next /\ h.max = g.max
  BY DEF Like
<1>3. Sound(h) /\ Fixes(i, g.code, h.code, P[i])
  BY <1>1, SoundLike
<1>4. ASSUME NEW j \in 1..(i - 1)
      PROVE  StatementCode(h.code, j, P[j]) /\ LineEnd(h.code, P, j) /\ LocalsOK(h.code, P, j) /\ LabelAt(h, P, j) /\ ArmEnd(h.code, P, i, j)
  <2>1. StatementCode(h.code, j, P[j]) /\ LineEnd(h.code, P, j) /\ LocalsOK(h.code, P, j) /\ ArmEnd(h.code, P, i, j)
    BY <1>3, CodeKept, ArmEndKept
  <2>2. LabelAt(g, P, j)
    BY <1>1, Zenon DEF LinesCoded
  <2>3. LabelAt(h, P, j)
    BY <2>2 DEF LabelAt, LabelsStay
  <2> QED BY <2>1, <2>3
<1>5. LinesCoded(h, P, i)
  <2>1. P \in [1..i -> Nat \ {0}] /\ P[1] = 1 /\ \A j \in 1..i : \A k \in (j + 1)..i : P[j] + Size(j) <= P[k]
    BY <1>1 DEF LinesCoded
  <2> QED BY <1>4, <2>1, Zenon DEF LinesCoded
<1>6. LoopStack(h, P, DoHeads(i))
  <2>1. \A d \in DoHeads(i) : h.code[P[d] + 1].loc = g.code[P[d] + 1].loc
    <3> TAKE d \in DoHeads(i)
    <3>1. i \in 1..(Len(unit) + 1)
      BY UnitTypes DEF UnitInv
    <3>2. d \in 1..(i - 1) /\ d \in Lines /\ unit[d].k = "do"
      BY <3>1, DoHeadsIs
    <3>3. Size(d) = 3
      BY <3>2, SizeIs
    <3>4. \A j \in 1..i : P[j] \in Nat \ {0}
      BY <1>1, Places
    <3>5. \A j \in 1..(i - 1) : P[j] + Size(j) <= P[i]
      BY <1>1, Places
    <3>6. d \in 1..i /\ i \in 1..i
      BY <3>1, <3>2
    <3>7. P[d] \in Nat \ {0} /\ P[d] + 3 <= P[i] /\ P[i] \in Nat
      BY <3>2, <3>3, <3>4, <3>5, <3>6
    <3>8. P[d] + 1 \in 1..(P[i] - 1)
      BY ONLY <3>7
    <3> QED BY <1>1, <1>2, <3>8
  <2> QED BY <1>1, <1>2, <2>1, LoopsStay
<1>7. BlockStack(h, P, i)
  BY <1>1, <1>2, Zenon DEF BlockStack
<1> QED BY <1>1, <1>2, <1>3, <1>5, <1>6, <1>7 DEF Translated

(* A line has been translated: the next one starts at the end of the code.   *)
Longer(P, i, w) == [j \in 1..(i + 1) |-> IF j <= i THEN P[j] ELSE w]
Lengthened(Q, P, i, w) == Q \in [1..(i + 1) -> Nat \ {0}] /\ (\A j \in 1..i : Q[j] = P[j]) /\ Q[i + 1] = w
(* One more place.                                                          *)
LEMMA LongerIs ==
  ASSUME NEW i \in Nat \ {0}, NEW P \in [1..i -> Nat \ {0}], NEW w \in Nat \ {0}
  PROVE  Lengthened(Longer(P, i, w), P, i, w)
<1> PICK Q : Q = Longer(P, i, w)
  OBVIOUS
<1>1. \A j \in 1..(i + 1) : j \in 1..i \/ j = i + 1
  OBVIOUS
<1>2. i + 1 \in 1..(i + 1) /\ ~ (i + 1 <= i) /\ \A j \in 1..i : j \in 1..(i + 1) /\ j <= i
  OBVIOUS
<1>3. \A j \in 1..(i + 1) : Q[j] = IF j <= i THEN P[j] ELSE w
  BY DEF Longer
<1>4. (\A j \in 1..i : Q[j] = P[j]) /\ Q[i + 1] = w
  BY <1>2, <1>3
<1>5. \A j \in 1..(i + 1) : Q[j] \in Nat \ {0}
  BY <1>1, <1>4
<1>6. Q = [j \in 1..(i + 1) |-> Q[j]]
  BY DEF Longer
<1>7. Lengthened(Q, P, i, w)
  BY <1>4, <1>5, <1>6 DEF Lengthened
<1> QED BY <1>7

(* The arms of blocks when line i has been translated.                       *)
LEMMA ArmsAfter ==
  ASSUME UnitInv, NEW i \in Lines, NEW g, NEW P, Translated(g, P, i), NEW d, Fixes(i, g.code, d, P[i]),
         NEW Q, \A j \in 1..i : Q[j] = P[j], ArmsClosed(d, P, i, Q[i + 1]), NEW a \in 1..i
  PROVE  ArmEnd(d, Q, i + 1, a)
<1>1. Lines = 1..Len(unit) /\ Len(unit) \in Nat /\ i \in Nat \ {0} /\ i \in 1..(Len(unit) + 1)
  BY UnitTypes DEF UnitInv
<1>2. CASE a = i
  <2>1. \A j \in 1..((i + 1) - 1) : ~ NextOne(a, j)
    BY <1>1, <1>2 DEF NextOne
  <2>2. ASSUME Jumps(a), NEW e \in 1..((i + 1) - 1), unit[e].k = "endif", unit[e].of = unit[a].of PROVE FALSE
    <3>1. unit[i].k \in Arms
      BY <1>2, <2>2 DEF Jumps, Arms
    <3>2. PICK f \in IfEntries(i) : f.head = unit[i].of
      BY <3>1, IfsAfter
    <3>3. f \in Entries(i) /\ unit[f.head].k = "if"
      <4>1. IfEntries(i) = {x \in Entries(i) : unit[x.head].k = "if"}
        BY <1>1, EntriesAre
      <4> QED BY <4>1
    <3>4. Latest(f, i)
      BY <1>1, <3>3, EntriesAre
    <3>5. e = i \/ (e \in Lines /\ e < i)
      BY <1>1
    <3>6. e # i
      BY <1>2, <2>2 DEF Jumps
    <3> QED BY <1>2, <2>2, <3>2, <3>3, <3>4, <3>5, <3>6 DEF Latest
  <2>6. unit[a].k \in {"if", "elseif"} => \A j \in 1..((i + 1) - 1) : NextOne(a, j) =>
               /\ Jumps(j) => d[TestAt(Q, a)].to = Q[j] + 1
               /\ unit[j].k = "endif" => d[TestAt(Q, a)].to = Q[j + 1]
               /\ Empty(j) /\ j + 1 < i + 1 => d[TestAt(Q, a)].to = Q[j + 2]
    BY <2>1
  <2>7. Jumps(a) => \A e \in 1..((i + 1) - 1) : unit[e].k = "endif" /\ unit[e].of = unit[a].of => d[Q[a]].to = Q[e + 1]
    BY <2>2
  <2> QED BY <2>6, <2>7, Zenon DEF ArmEnd
<1>3. CASE a \in 1..(i - 1)
  <2>1. ArmEnd(d, P, i, a)
    BY <1>3, ArmEndKept
  <2>2. Q[a] = P[a] /\ TestAt(Q, a) = TestAt(P, a) /\ Q[i] = P[i]
    <3>1. i \in 1..i
      BY <1>1
    <3> QED BY <3>1 DEF TestAt
  <2>3. /\ unit[a].k \in {"if", "elseif"} /\ NextOne(a, i) =>
             /\ Jumps(i) => d[TestAt(P, a)].to = P[i] + 1
             /\ unit[i].k = "endif" => d[TestAt(P, a)].to = Q[i + 1]
        /\ unit[a].k \in {"if", "elseif"} /\ NextOne(a, i - 1) /\ Empty(i - 1) => d[TestAt(P, a)].to = Q[i + 1]
        /\ Jumps(a) /\ unit[i].k = "endif" /\ unit[a].of = unit[i].of => d[P[a]].to = Q[i + 1]
    BY <1>3 DEF ArmsClosed
  <2>4. ASSUME unit[a].k \in {"if", "elseif"}, NEW j \in 1..((i + 1) - 1), NextOne(a, j)
        PROVE  /\ Jumps(j) => d[TestAt(Q, a)].to = Q[j] + 1
               /\ unit[j].k = "endif" => d[TestAt(Q, a)].to = Q[j + 1]
               /\ Empty(j) /\ j + 1 < i + 1 => d[TestAt(Q, a)].to = Q[j + 2]
    <3>1. CASE j = i
      BY <1>1, <2>2, <2>3, <2>4, <3>1
    <3>2. CASE j \in 1..(i - 1)
      <4>1. /\ Jumps(j) => d[TestAt(P, a)].to = P[j] + 1
            /\ unit[j].k = "endif" => d[TestAt(P, a)].to = P[j + 1]
            /\ Empty(j) /\ j + 1 < i => d[TestAt(P, a)].to = P[j + 2]
        BY <2>1, <2>4, <3>2 DEF ArmEnd
      <4>2. j \in 1..i /\ j + 1 \in 1..i /\ (j + 1 < i => j + 2 \in 1..i) /\ (j + 1 < i \/ j = i - 1)
        BY <1>1, <3>2
      <4>3. j = i - 1 => j + 2 = i + 1
        BY <1>1
      <4>4. Q[j] = P[j] /\ Q[j + 1] = P[j + 1] /\ (j + 1 < i => Q[j + 2] = P[j + 2])
        BY <4>2
      <4>5. j = i - 1 /\ Empty(j) => d[TestAt(P, a)].to = Q[j + 2]
        BY <2>3, <2>4, <4>3
      <4> QED BY <2>2, <4>1, <4>2, <4>4, <4>5
    <3>3. j = i \/ j \in 1..(i - 1)
      BY <1>1
    <3> QED BY <3>1, <3>2, <3>3
  <2>5. ASSUME Jumps(a), NEW e \in 1..((i + 1) - 1), unit[e].k = "endif", unit[e].of = unit[a].of
        PROVE  d[Q[a]].to = Q[e + 1]
    <3>1. CASE e = i
      BY <2>2, <2>3, <2>5, <3>1
    <3>2. CASE e \in 1..(i - 1)
      <4>1. d[P[a]].to = P[e + 1]
        BY <2>1, <2>5, <3>2 DEF ArmEnd
      <4>2. e + 1 \in 1..i
        BY <1>1, <3>2
      <4> QED BY <2>2, <4>1, <4>2
    <3>3. e = i \/ e \in 1..(i - 1)
      BY <1>1
    <3> QED BY <3>1, <3>2, <3>3
  <2>6. unit[a].k \in {"if", "elseif"} => \A j \in 1..((i + 1) - 1) : NextOne(a, j) =>
               /\ Jumps(j) => d[TestAt(Q, a)].to = Q[j] + 1
               /\ unit[j].k = "endif" => d[TestAt(Q, a)].to = Q[j + 1]
               /\ Empty(j) /\ j + 1 < i + 1 => d[TestAt(Q, a)].to = Q[j + 2]
    BY <2>4
  <2>7. Jumps(a) => \A e \in 1..((i + 1) - 1) : unit[e].k = "endif" /\ unit[e].of = unit[a].of => d[Q[a]].to = Q[e + 1]
    BY <2>5
  <2> QED BY <2>6, <2>7, Zenon DEF ArmEnd
<1>4. a = i \/ a \in 1..(i - 1)
  BY <1>1
<1> QED BY <1>2, <1>3, <1>4

(* After the whole of a line the next one can be translated.                *)
LEMMA Advance ==
  ASSUME UnitInv, phase # "read", NEW i \in Lines, unit[i].k # "end", NEW g, NEW P, Translated(g, P, i),
         NEW h, Part(g, h, P, i, Ends(i)), NEW r, Like(h, r), LabelsFit(r), LabelsStay(g, r, i),
         unit[i].lab # 0 => unit[i].lab \in DOMAIN r.labels /\ r.labels[unit[i].lab] = (IF unit[i].k = "endif" THEN Where(h) ELSE P[i]),
         r.code # <<>> /\ Last(r.code).op = "return" => unit[i].k = "return" \/ Empty(i)
  PROVE  Translated(r, Longer(P, i, Where(h)), i + 1)
<1>1. /\ Sound(g) /\ LinesCoded(g, P, i) /\ P[i] = Where(g) /\ g \in GenType
      /\ Lines = 1..Len(unit) /\ Len(unit) \in Nat /\ i \in Nat \ {0} /\ i + 1 \in Lines /\ i + 1 \in 1..(Len(unit) + 1) /\ i \in 1..(Len(unit) + 1)
  BY LineIs DEF Translated, Sound
<1>2. /\ Sound(h) /\ Fixes(i, g.code, h.code, P[i])
      /\ StatementCode(h.code, i, P[i]) /\ LocalsOK(h.code, P, i) /\ P[i] + Size(i) <= Where(h)
      /\ LoopStack(h, P, LoopsAt(i) \ Ends(i)) /\ BlockStack(h, P, i + 1) /\ ArmsClosed(h.code, P, i, Where(h))
  BY DEF Part
<1>3. /\ unit[i].k = "endif" =>
           Where(h) = P[i] \/ (Where(h) = P[i] + 1 /\ h.code[P[i]] = [Instr("goto", i) EXCEPT !.to = Where(h)])
      /\ unit[i].k # "endif" => Chained(h.code, P, i, Ends(i), Where(h))
  BY DEF Part
<1>4. PICK v \in Nat \ {0} : v = Where(h) /\ h \in GenType
  BY <1>2, CodeAt DEF Sound
<1>5. PICK d \in Seq(InstrType), c \in Seq(InstrType) : d = r.code /\ c = h.code /\ v <= Len(c) + 1
  BY <1>4, CodeAt DEF Like
<1>6. /\ r \in GenType /\ Where(r) = v /\ r.loops = h.loops /\ r.blocks = h.blocks /\ r.next = h.next /\ r.max = h.max
      /\ \A q \in 1..(v - 1) : d[q] = c[q]
  BY <1>4, <1>5 DEF Like
<1>7. Sound(r) /\ Fixes(i, c, d, v) /\ Fixes(i + 1, c, d, v)
  BY <1>2, <1>4, <1>5, SoundLike
<1>8. /\ P \in [1..i -> Nat \ {0}] /\ P[1] = 1
      /\ \A j \in 1..i : \A k \in (j + 1)..i : P[j] + Size(j) <= P[k]
      /\ \A j \in 1..(i - 1) : LabelAt(g, P, j)
  BY <1>1, Zenon DEF LinesCoded
<1>9. PICK Q : Q = Longer(P, i, v)
  OBVIOUS
<1>10. Q \in [1..(i + 1) -> Nat \ {0}] /\ (\A j \in 1..i : Q[j] = P[j]) /\ Q[i + 1] = v
  <2>1. i \in Nat \ {0} /\ P \in [1..i -> Nat \ {0}] /\ v \in Nat \ {0}
    BY <1>1, <1>8
  <2>2. Lengthened(Longer(P, i, v), P, i, v)
    BY ONLY <2>1, LongerIs
  <2> QED BY <1>9, <2>2 DEF Lengthened
<1>11. /\ \A j \in 1..i : P[j] \in Nat \ {0} /\ j \in Lines /\ P[j] <= P[i] /\ Size(j) \in Nat
       /\ \A j \in 1..(i - 1) : P[j] + Size(j) <= P[i]
       /\ i \in 1..i /\ Q[i] = P[i] /\ P[i] + Size(i) <= v /\ P[i] <= v
  <2>1. /\ \A j \in 1..i : P[j] \in Nat \ {0} /\ j \in Lines /\ P[j] <= P[i] /\ Size(j) \in Nat
        /\ \A j \in 1..(i - 1) : P[j] + Size(j) <= P[i]
    BY <1>1, Places
  <2>2. i \in 1..i
    BY <1>1
  <2>3. P[i] \in Nat /\ Size(i) \in Nat /\ P[i] + Size(i) <= v
    BY <1>2, <1>4, <2>1, <2>2
  <2>4. P[i] <= v
    BY ONLY <1>4, <2>3
  <2> QED BY <1>10, <2>1, <2>2, <2>3, <2>4
<1>12. \A j \in 1..(i + 1) : \A k \in (j + 1)..(i + 1) : Q[j] + Size(j) <= Q[k]
  <2> TAKE j \in 1..(i + 1)
  <2> TAKE k \in (j + 1)..(i + 1)
  <2>1. j \in 1..i /\ (k \in (j + 1)..i \/ k = i + 1) /\ (j = i \/ j \in 1..(i - 1))
    BY <1>1
  <2>2. CASE k \in (j + 1)..i
    <3>1. k \in 1..i
      BY <1>1, <2>1, <2>2
    <3> QED BY <1>8, <1>10, <2>1, <2>2, <3>1
  <2>3. CASE k = i + 1
    <3>1. P[j] \in Nat /\ Size(j) \in Nat /\ P[i] \in Nat /\ P[i] <= v
      BY <1>11, <2>1
    <3>2. P[j] + Size(j) <= P[i] \/ P[j] + Size(j) <= v
      BY <1>11, <2>1
    <3>3. P[j] + Size(j) <= v
      BY ONLY <1>4, <3>1, <3>2
    <3> QED BY <1>10, <2>1, <2>3, <3>3
  <2> QED BY <2>1, <2>2, <2>3
<1>13. Fixes(i, g.code, d, P[i])
  <2>1. \A q \in 1..(P[i] - 1) : q \in 1..(v - 1)
    <3>1. P[i] \in Nat /\ P[i] <= v
      BY <1>11
    <3> QED BY ONLY <1>4, <3>1
  <2>2. \A q \in 1..(P[i] - 1) : d[q] = c[q]
    BY <1>6, <2>1
  <2> QED BY <1>2, <1>5, <2>2 DEF Fixes
<1>14. \A j \in 1..i : ArmEnd(d, Q, i + 1, j)
  <2>1. ArmsClosed(d, P, i, Q[i + 1])
    <3>1. ASSUME NEW a \in 1..(i - 1)
          PROVE  /\ unit[a].k \in {"if", "elseif"} => d[TestAt(P, a)] = c[TestAt(P, a)]
                 /\ Jumps(a) => d[P[a]] = c[P[a]]
      <4>1. a \in Lines /\ a < i
        BY <1>1
      <4>2. \A q \in 1..(Where(g) - 1) : d[q] = c[q]
        <5>1. P[i] \in Nat /\ P[i] <= v
          BY <1>11
        <5>2. \A q \in 1..(P[i] - 1) : q \in 1..(v - 1)
          BY ONLY <1>4, <5>1
        <5> QED BY <1>1, <1>6, <5>2
      <4> QED BY <4>1, <4>2, ArmPlaces
    <3>2. ArmsClosed(c, P, i, Q[i + 1])
      BY <1>2, <1>4, <1>5, <1>10
    <3> QED BY <3>1, <3>2 DEF ArmsClosed
  <2> QED BY <1>10, <1>13, <2>1, ArmsAfter
<1>15. ASSUME NEW j \in 1..(i - 1)
       PROVE  StatementCode(d, j, Q[j]) /\ LineEnd(d, Q, j) /\ LocalsOK(d, Q, j) /\ LabelAt(r, Q, j)
  <2>1. StatementCode(d, j, P[j]) /\ LineEnd(d, P, j) /\ LocalsOK(d, P, j)
    BY <1>13, CodeKept
  <2>2. j \in 1..i /\ j + 1 \in 1..i
    <3>1. i \in Nat \ {0} /\ j \in 1..(i - 1)
      BY <1>1
    <3> QED BY ONLY <3>1
  <2>3. StatementCode(d, j, Q[j]) /\ LineEnd(d, Q, j) /\ LocalsOK(d, Q, j)
    BY <1>10, <2>1, <2>2, PlacesMoved
  <2>4. LabelAt(g, P, j)
    BY <1>8
  <2>5. LabelAt(r, Q, j)
    BY <1>10, <2>2, <2>4 DEF LabelAt, LabelsStay
  <2> QED BY <2>3, <2>5
<1>16. StatementCode(d, i, Q[i])
  <2>1. P[i] \in Nat \ {0} /\ P[i] + Size(i) <= v /\ StatementCode(c, i, P[i])
    BY <1>2, <1>5, <1>11
  <2>2. StatementCode(d, i, P[i])
    BY <1>4, <1>7, <2>1, StatementKept
  <2> QED BY <1>11, <2>2
<1>17. LineEnd(d, Q, i)
  <2>1. CASE unit[i].k = "endif"
    <3>1. v = P[i] \/ (v = P[i] + 1 /\ c[P[i]] = [Instr("goto", i) EXCEPT !.to = v])
      BY <1>3, <1>4, <1>5, <2>1
    <3>2. v = P[i] + 1 => d[P[i]] = c[P[i]]
      <4>1. P[i] \in Nat \ {0}
        BY <1>11
      <4>2. v = P[i] + 1 => P[i] \in 1..(v - 1)
        BY ONLY <1>4, <4>1
      <4> QED BY <1>6, <4>2
    <3>3. EndIfCode(d, Q, i)
      BY <1>10, <1>11, <3>1, <3>2, Zenon DEF EndIfCode
    <3> QED BY <2>1, <3>3, Zenon DEF LineEnd
  <2>2. CASE unit[i].k # "endif"
    <3>1. Chained(c, P, i, Ends(i), v)
      BY <1>3, <1>4, <1>5, <2>2
    <3>2. Chained(c, Q, i, Ends(i), v)
      BY <1>10, <3>1, PlacesMoved
    <3>3. PICK R : R = Ends(i)
      OBVIOUS
    <3>4. \A x \in R : x \in 1..(i + 1) /\ unit[x].k = "do" /\ x \notin DoHeads(i + 1) /\ Q[x] + 3 <= v /\ StatementCode(c, x, Q[x])
      <4> TAKE x \in R
      <4>1. i \in 1..((i + 1) - 1)
        <5>1. i \in Nat \ {0}
          BY <1>1
        <5> QED BY ONLY <5>1
      <4>2. x \notin DoHeads(i + 1) /\ x \in 1..(i - 1) /\ x \in Lines /\ unit[x].k = "do"
        BY <1>1, <3>3, <4>1, DoHeadsIs
      <4>3. x \in 1..(i + 1) /\ x \in 1..i /\ Size(x) = 3
        BY <1>1, <4>2, SizeIs
      <4>4. P[x] \in Nat /\ P[x] + 3 <= P[i] /\ P[i] \in Nat /\ P[i] <= v
        BY <1>11, <4>2, <4>3
      <4>5. P[x] + 3 <= v
        BY ONLY <1>4, <4>4
      <4>6. StatementCode(c, x, P[x])
        BY <1>2, <1>5, <4>2, CodeKept
      <4> QED BY <1>10, <4>2, <4>3, <4>5, <4>6
    <3>5. i \in 1..(i + 1) /\ v <= v /\ Q[i] \in Nat /\ Size(i) \in Nat
      <4>1. i \in Nat \ {0} /\ v \in Nat
        BY <1>1
      <4>2. i \in 1..(i + 1) /\ v <= v
        BY ONLY <4>1
      <4>3. Q[i] \in Nat /\ Size(i) \in Nat
        BY <1>11
      <4> QED BY <4>2, <4>3
    <3>6. Chained(d, Q, i, R, v)
      BY <1>1, <1>4, <1>5, <1>7, <1>10, <3>2, <3>3, <3>4, <3>5, LoopEndsKept
    <3> QED BY <1>10, <2>2, <3>3, <3>6, Zenon DEF LineEnd
  <2> QED BY <2>1, <2>2
<1>18. \A q \in 1..(v - 1) : d[q].loc = c[q].loc
  BY <1>6
<1>19. ASSUME NEW x \in 1..i, unit[x].k = "do" PROVE P[x] + 1 \in 1..(v - 1)
  <2>1. x \in Lines /\ Size(x) = 3 /\ (x = i \/ x \in 1..(i - 1))
    BY <1>1, <1>19, SizeIs
  <2>2. P[x] \in Nat \ {0} /\ P[i] \in Nat /\ P[i] <= v /\ (P[x] + 3 <= P[i] \/ P[x] + 3 <= v)
    BY <1>11, <2>1
  <2>3. PICK p, q : p = P[x] /\ q = P[i]
    OBVIOUS
  <2>4. p \in Nat \ {0} /\ q \in Nat /\ q <= v /\ (p + 3 <= q \/ p + 3 <= v) /\ v \in Nat
    BY <2>2, <2>3
  <2>5. p + 1 \in 1..(v - 1)
    BY ONLY <2>4
  <2> QED BY <2>3, <2>5
<1>20. LocalsOK(d, Q, i)
  <2>1. ASSUME NEW x \in DoHeads(i)
        PROVE  /\ unit[i].k = "do" => d[P[x] + 1].loc < d[P[i] + 1].loc
               /\ unit[i].k \in {"cgoto", "agoto", "aif", "aifwide"} => d[P[x] + 1].loc < d[P[i]].loc
    <3>1. x \in 1..(i - 1) /\ unit[x].k = "do" /\ x \in 1..i
      BY <1>1, DoHeadsIs
    <3>2. d[P[x] + 1].loc = c[P[x] + 1].loc
      BY <1>18, <1>19, <3>1
    <3>3. unit[i].k = "do" => d[P[i] + 1].loc = c[P[i] + 1].loc
      BY <1>11, <1>18, <1>19
    <3>4. unit[i].k \in {"cgoto", "agoto", "aif", "aifwide"} => d[P[i]].loc = c[P[i]].loc
      <4>1. unit[i].k \in {"cgoto", "agoto", "aif", "aifwide"} => Size(i) > 0
        <5>1. \A n \in Nat : 1 + 2 * n > 0
          OBVIOUS
        <5> QED BY <5>1, SizeIs
      <4>2. P[i] \in Nat \ {0} /\ Size(i) \in Nat /\ P[i] + Size(i) <= v
        BY <1>11
      <4>3. Size(i) > 0 => P[i] \in 1..(v - 1)
        BY ONLY <1>4, <4>2
      <4> QED BY <1>18, <4>1, <4>3
    <3>5. LocalsOK(c, P, i)
      BY <1>2, <1>5
    <3> QED BY <3>2, <3>3, <3>4, <3>5 DEF LocalsOK
  <2>2. LocalsOK(d, P, i)
    BY <2>1 DEF LocalsOK
  <2> QED BY <1>10, <1>11, <2>2, PlacesMoved
<1>21. LabelAt(r, Q, i)
  BY <1>4, <1>10, <1>11 DEF LabelAt
<1>22. LinesCoded(r, Q, i + 1)
  <2>1. \A j \in 1..((i + 1) - 1) : j = i \/ j \in 1..(i - 1)
    BY <1>1
  <2>2. \A j \in 1..((i + 1) - 1) : j \in 1..i
    BY <1>1
  <2>3. Q[1] = 1
    <3>1. 1 \in 1..i
      BY <1>1
    <3> QED BY <1>8, <1>10, <3>1
  <2>4. \A j \in 1..((i + 1) - 1) : /\ StatementCode(r.code, j, Q[j]) /\ LineEnd(r.code, Q, j)
                                    /\ LocalsOK(r.code, Q, j) /\ LabelAt(r, Q, j) /\ ArmEnd(r.code, Q, i + 1, j)
    BY <1>5, <1>14, <1>15, <1>16, <1>17, <1>20, <1>21, <2>1, <2>2
  <2> QED BY <1>10, <1>12, <2>3, <2>4, Zenon DEF LinesCoded
<1>23. LoopStack(r, Q, DoHeads(i + 1)) /\ BlockStack(r, Q, i + 1)
  <2>1. DoHeads(i + 1) = LoopsAt(i) \ Ends(i)
    BY HeadsAfter
  <2>2. \A x \in DoHeads(i + 1) : x \in 1..i /\ r.code[P[x] + 1].loc = h.code[P[x] + 1].loc
    <3> TAKE x \in DoHeads(i + 1)
    <3>1. x \in 1..((i + 1) - 1) /\ unit[x].k = "do"
      BY <1>1, DoHeadsIs
    <3>2. x \in 1..i
      BY <1>1, <3>1
    <3> QED BY <1>5, <1>18, <1>19, <3>1, <3>2
  <2>3. LoopStack(h, P, DoHeads(i + 1)) /\ BlockStack(h, P, i + 1)
    BY <1>2, <2>1
  <2>4. /\ \A D : LoopStack(h, P, D) /\ (\A x \in D : x \in 1..i /\ r.code[P[x] + 1].loc = h.code[P[x] + 1].loc) => LoopStack(r, Q, D)
        /\ BlockStack(h, P, i + 1) => BlockStack(r, Q, i + 1)
    <3>1. r.loops = h.loops /\ r.blocks = h.blocks /\ r.next = h.next
      BY <1>6
    <3>2. \A j \in 1..i : Q[j] = P[j]
      BY <1>10
    <3> QED BY ONLY <3>1, <3>2, StacksMoved, UnitInv, i \in Lines
  <2> QED BY <2>2, <2>3, <2>4
<1>24. r.code # <<>> /\ Last(r.code).op = "return" => i + 1 > 1 /\ (unit[(i + 1) - 1].k = "return" \/ Empty((i + 1) - 1))
  <2>1. (i + 1) - 1 = i /\ i + 1 > 1
    BY <1>1
  <2> QED BY <2>1
<1>25. Translated(r, Q, i + 1)
  BY <1>6, <1>7, <1>10, <1>22, <1>23, <1>24 DEF Translated
<1> QED BY <1>4, <1>9, <1>25

(* The end of the innermost loop.                                            *)
LoopEnded(h, f, W, n, loop) ==
  /\ f \in GenType /\ Len(f.code) = W + 2 /\ Where(f) = W + 3 /\ Len(h.code) <= Len(f.code)
  /\ \A q \in 1..(W - 1) : q # loop.goto => f.code[q] = h.code[q]
  /\ Same(f.code[loop.goto], h.code[loop.goto]) /\ f.code[loop.goto].to = W + 2
  /\ f.code[W] = Instr("incr", loop.line)
  /\ f.code[W + 1] = [Instr("dec", loop.line) EXCEPT !.loc = loop.loc]
  /\ f.code[W + 2] = [Instr("ifgt", loop.line) EXCEPT !.loc = loop.loc, !.to = loop.goto + 1]
  /\ f.labels = h.labels /\ f.blocks = h.blocks /\ f.max = h.max /\ f.next = h.next - 1
  /\ Len(f.loops) = n - 1 /\ \A m \in 1..(n - 1) : f.loops[m] = h.loops[m]
(* What forloop_end_bytecode appends and fixes.                             *)
LEMMA LoopEndIs ==
  ASSUME NEW h \in GenType, NEW W, W = Where(h), NEW n \in Nat \ {0}, n = Len(h.loops), NEW loop \in LoopType, loop = Last(h.loops),
         loop.goto \in 1..(W - 1), h.next > 0, NEW f, f = ForLoopEnd(h)
  PROVE  LoopEnded(h, f, W, n, loop)
<1>1. W \in Nat \ {0} /\ Len(h.code) \in Nat
  BY CodeAt
<1>2. PICK i, loc, t : i = loop.line /\ loc = loop.loc /\ t = loop.goto
  OBVIOUS
<1>3. i \in Nat /\ loc \in Nat /\ t \in Nat /\ t \in 1..(W - 1) /\ t + 1 \in Nat
  BY <1>2 DEF LoopType
<1>4. PICK x, y, z : x = Instr("incr", i) /\ y = [Instr("dec", i) EXCEPT !.loc = loc] /\ z = [Instr("ifgt", i) EXCEPT !.loc = loc, !.to = t + 1]
  OBVIOUS
<1>5. x \in InstrType /\ y \in InstrType /\ z \in InstrType /\ z.op = "ifgt"
  <2>1. x \in InstrType /\ Instr("dec", i) \in InstrType /\ Instr("ifgt", i) \in InstrType
    BY <1>3, <1>4, InstrTypes DEF Ops
  <2>2. y \in InstrType
    BY <1>3, <1>4, <2>1, Changed, Zenon
  <2>3. z \in InstrType
    BY <1>3, <1>4, <2>1, Changed, Zenon
  <2>4. z.op = "ifgt"
    <3>1. PICK w : w = Instr("ifgt", i)
      OBVIOUS
    <3>2. w \in InstrType /\ w.op = "ifgt" /\ z = [w EXCEPT !.loc = loc, !.to = t + 1]
      BY <1>4, <2>1, <3>1 DEF Instr
    <3> QED BY ONLY <3>2 DEF InstrType
  <2> QED BY <2>1, <2>2, <2>3, <2>4
<1>6. PICK s : s = <<x, y, z>>
  OBVIOUS
<1>7. s \in Seq(InstrType) /\ Len(s) = 3 /\ s[1] = x /\ s[2] = y /\ s[3] = z
  BY <1>5, <1>6
<1>8. PICK f0 : f0 = Puts(h, s)
  OBVIOUS
<1>9. PICK three \in Nat \ {0} : three = 3
  OBVIOUS
<1>10. Appended(h, f0, s, W, three)
  BY <1>7, <1>8, <1>9, CodePuts
<1>11. /\ f0 \in GenType /\ Len(f0.code) = W + 2 /\ Where(f0) = W + 3 /\ Len(h.code) <= Len(f0.code)
       /\ \A q \in 1..(W - 1) : f0.code[q] = h.code[q]
       /\ f0.code[W] = x /\ f0.code[W + 1] = y /\ f0.code[W + 2] = z
       /\ f0.labels = h.labels /\ f0.loops = h.loops /\ f0.blocks = h.blocks /\ f0.next = h.next /\ f0.max = h.max
  <2>1. W - 1 + three = W + 2 /\ W + three = W + 3 /\ W - 1 + 1 = W /\ W - 1 + 2 = W + 1 /\ W - 1 + 3 = W + 2
        /\ 1 \in 1..three /\ 2 \in 1..three /\ 3 \in 1..three
    BY <1>1, <1>9
  <2>2. f0.code[W] = x /\ f0.code[W + 1] = y /\ f0.code[W + 2] = z
    BY <1>7, <1>10, <2>1 DEF Appended
  <2>3. s[three] = z /\ z.op # "unused"
    BY <1>5, <1>7, <1>9
  <2> QED BY <1>10, <2>1, <2>2, <2>3 DEF Appended
<1>12. PICK f1 : f1 = [f0 EXCEPT !.code[t].to = W + 2]
  OBVIOUS
<1>67. Len(f0.code) = W + 2
  BY <1>11
<1>13. t \in 1..Len(f0.code) /\ W + 2 \in Nat /\ \A q \in 1..(W - 1) : q \in 1..Len(f0.code)
  BY ONLY <1>1, <1>3, <1>67
<1>14. W # t /\ W + 1 # t /\ W + 2 # t /\ W \in 1..Len(f0.code) /\ W + 1 \in 1..Len(f0.code) /\ W + 2 \in 1..Len(f0.code)
  BY ONLY <1>1, <1>3, <1>67
<1>15. Fixed(f0, f1, t, W + 2)
  BY <1>11, <1>12, <1>13, CodeFixed
<1>16. /\ f1 \in GenType /\ Len(f1.code) = W + 2 /\ Where(f1) = W + 3
       /\ \A q \in 1..(W - 1) : q # t => f1.code[q] = h.code[q]
       /\ f1.code[W] = x /\ f1.code[W + 1] = y /\ f1.code[W + 2] = z
       /\ f1.labels = h.labels /\ f1.loops = h.loops /\ f1.blocks = h.blocks /\ f1.next = h.next /\ f1.max = h.max
       /\ Same(f1.code[t], h.code[t]) /\ f1.code[t].to = W + 2
  <2>1. /\ f1 \in GenType /\ Len(f1.code) = Len(f0.code) /\ Where(f1) = Where(f0)
        /\ \A q \in 1..Len(f0.code) : q # t => f1.code[q] = f0.code[q]
        /\ f1.labels = f0.labels /\ f1.loops = f0.loops /\ f1.blocks = f0.blocks /\ f1.next = f0.next /\ f1.max = f0.max
        /\ Same(f1.code[t], f0.code[t]) /\ f1.code[t].to = W + 2
    BY <1>15 DEF Fixed
  <2> QED BY <1>3, <1>11, <1>13, <1>14, <2>1
<1>17. PICK u : u = Front(h.loops)
  OBVIOUS
<1>18. u \in Seq(LoopType) /\ Len(u) = n - 1 /\ \A m \in 1..(n - 1) : u[m] = h.loops[m]
  <2>1. h.loops \in Seq(LoopType) /\ n - 1 \in 0..Len(h.loops)
    BY DEF GenType
  <2>2. u = SubSeq(h.loops, 1, n - 1)
    BY <1>17 DEF Front
  <2> QED BY <2>1, <2>2, Prefix
<1>19. PICK f2 : f2 = [f1 EXCEPT !.loops = u]
  OBVIOUS
<1>20. /\ f2 \in GenType /\ f2.code = f1.code /\ f2.labels = f1.labels /\ f2.loops = u /\ f2.blocks = f1.blocks
       /\ f2.next = f1.next /\ f2.max = f1.max
  BY <1>16, <1>18, <1>19 DEF GenType
<1>21. f = ReleaseLocal(f2, FALSE)
  <2>1. Len(f0.code) = W + 2
    BY <1>11
  <2>2. f0 = Puts(h, <<Instr("incr", loop.line), [Instr("dec", loop.line) EXCEPT !.loc = loop.loc],
                       [Instr("ifgt", loop.line) EXCEPT !.loc = loop.loc, !.to = loop.goto + 1]>>)
    BY <1>2, <1>4, <1>6, <1>8, Zenon
  <2>3. f2 = [f0 EXCEPT !.code[loop.goto].to = Len(f0.code), !.loops = Front(@)]
    <3>1. [f0 EXCEPT !.code[t].to = W + 2, !.loops = Front(@)] = [[f0 EXCEPT !.code[t].to = W + 2] EXCEPT !.loops = Front(f0.loops)]
      BY <1>11, Zenon DEF GenType
    <3>2. f2 = [[f0 EXCEPT !.code[t].to = W + 2] EXCEPT !.loops = Front(f0.loops)]
      BY <1>11, <1>12, <1>17, <1>19, Zenon
    <3> QED BY <1>2, <2>1, <3>1, <3>2, Zenon
  <2> QED BY <2>2, <2>3, Zenon DEF ForLoopEnd
<1>22. Narrowed(f2, f, 1)
  <2>1. Width(FALSE) = 1
    BY DEF Width
  <2>2. 1 <= f2.next
    <3>1. h.next \in Nat
      BY DEF GenType
    <3> QED BY <1>16, <1>20, <3>1
  <2>3. Narrowed(f2, f, Width(FALSE))
    BY <1>20, <1>21, <2>1, <2>2, LocalIsReleased
  <2> QED BY <2>1, <2>3
<1>23. /\ f \in GenType /\ f.code = f1.code /\ f.labels = f1.labels /\ f.loops = u /\ f.blocks = f1.blocks
       /\ f.next = f1.next - 1 /\ f.max = f1.max /\ Where(f) = Where(f1)
  <2>1. /\ f \in GenType /\ f.code = f2.code /\ f.labels = f2.labels /\ f.loops = f2.loops /\ f.blocks = f2.blocks
        /\ f.next = f2.next - 1 /\ f.max = f2.max
    BY <1>22 DEF Narrowed
  <2> QED BY <1>20, <2>1 DEF Where
<1>24. Len(h.code) <= Len(f.code)
  BY <1>11, <1>16, <1>23
<1>25. /\ f.code[W] = Instr("incr", loop.line)
       /\ f.code[W + 1] = [Instr("dec", loop.line) EXCEPT !.loc = loop.loc]
       /\ f.code[W + 2] = [Instr("ifgt", loop.line) EXCEPT !.loc = loop.loc, !.to = loop.goto + 1]
  BY <1>2, <1>4, <1>16, <1>23, Zenon
<1>26. /\ f \in GenType /\ Len(f.code) = W + 2 /\ Where(f) = W + 3
       /\ \A q \in 1..(W - 1) : q # loop.goto => f.code[q] = h.code[q]
       /\ Same(f.code[loop.goto], h.code[loop.goto]) /\ f.code[loop.goto].to = W + 2
       /\ f.labels = h.labels /\ f.blocks = h.blocks /\ f.max = h.max /\ f.next = h.next - 1
       /\ Len(f.loops) = n - 1 /\ \A m \in 1..(n - 1) : f.loops[m] = h.loops[m]
  BY <1>2, <1>16, <1>18, <1>23
<1> QED BY <1>24, <1>25, <1>26, Zenon DEF LoopEnded

OneEnded(g, h, f, P, i, R) ==
  /\ Part(g, f, P, i, R)
  /\ Len(h.loops) \in Nat \ {0} /\ Len(f.loops) = Len(h.loops) - 1
  /\ \A m \in 1..(Len(h.loops) - 1) : f.loops[m] = h.loops[m]
(* It ends the innermost loop that has to end at the line.                  *)
LEMMA LoopEndPart ==
  ASSUME UnitInv, phase # "read", NEW i \in Lines, NEW g, NEW P, Translated(g, P, i), NEW h, NEW R, Part(g, h, P, i, R),
         R \subseteq Ends(i), NEW x \in Ends(i) \ R, \A y \in Ends(i) \ R : y <= x, \A y \in R : x < y
  PROVE  OneEnded(g, h, ForLoopEnd(h), P, i, R \cup {x})
<1>1. /\ Sound(h) /\ Fixes(i, g.code, h.code, P[i]) /\ Len(g.code) <= Len(h.code) /\ h \in GenType
      /\ StatementCode(h.code, i, P[i]) /\ P[i] + Size(i) <= Where(h)
      /\ LoopStack(h, P, LoopsAt(i) \ R) /\ BlockStack(h, P, i + 1) /\ h.labels = g.labels
      /\ h.max <= MaxLocal /\ h.next <= h.max
  BY DEF Part, Sound
<1>2. /\ unit[i].k \notin Openers \cup {"endif"} /\ unit[i].k \in Closers /\ unit[i].k \notin Arms
      /\ Ends(i) \subseteq DoHeads(i) /\ LoopsAt(i) = DoHeads(i)
      /\ \A d \in Ends(i) : \A e \in DoHeads(i) : e >= d => e \in Ends(i)
  <2>1. Ends(i) # {}
    OBVIOUS
  <2>2. Follows(i)
    BY DEF UnitInv, Openings
  <2>3. unit[i].k \in Closers /\ unit[i].k \notin Openers \cup {"endif"}
    BY <2>1, <2>2 DEF Follows
  <2>4. LoopsAt(i) = DoHeads(i)
    BY <2>3 DEF LoopsAt, Openers
  <2>5. unit[i].k \notin Arms
    BY <2>3 DEF Arms, Closers
  <2> QED BY <2>3, <2>4, <2>5, HeadsAfter
<1>3. Chained(h.code, P, i, R, Where(h))
  BY <1>2 DEF Part
<1>4. LinesCoded(g, P, i) /\ g \in GenType
  BY DEF Translated, Sound
<1>5. PICK w, W : w = P[i] /\ W = Where(h) /\ w \in Nat \ {0} /\ W \in Nat \ {0} /\ w + Size(i) <= W /\ Size(i) \in Nat /\ w <= W
  <2>1. P[i] \in Nat \ {0} /\ Size(i) \in Nat /\ i \in 1..i
    <3>1. i \in 1..i
      BY LineIs
    <3> QED BY <1>4, <3>1, Places
  <2>2. Where(h) \in Nat \ {0}
    BY <1>1, CodeAt
  <2>3. P[i] <= Where(h)
    BY <1>1, <2>1, <2>2
  <2> QED BY <1>1, <2>1, <2>2, <2>3
<1>43. w \in Nat \ {0} /\ W \in Nat \ {0} /\ w <= W
  BY <1>5
<1>6. ASSUME NEW d \in DoHeads(i)
      PROVE  /\ d \in Lines /\ d \in Nat /\ d \in 1..(i - 1) /\ unit[d].k = "do" /\ Size(d) = 3 /\ P[d] \in Nat \ {0} /\ P[d] + 3 <= w
             /\ StatementCode(h.code, d, P[d]) /\ StatementCode(g.code, d, P[d])
             /\ \A e \in DoHeads(i) : d < e => P[d] + 3 <= P[e]
  <2>1. d \in Lines /\ d \in 1..(i - 1) /\ unit[d].k = "do" /\ Size(d) = 3 /\ d \in Nat
    <3>1. i \in 1..(Len(unit) + 1)
      BY LineIs
    <3>2. d \in Lines /\ d \in 1..(i - 1) /\ unit[d].k = "do"
      BY <3>1, DoHeadsIs
    <3> QED BY <3>2, SizeIs
  <2>2. P[d] \in Nat \ {0} /\ P[d] + Size(d) <= P[i]
    <3>1. d \in 1..i
      BY <2>1, LineIs
    <3> QED BY <1>4, <2>1, <3>1, Places
  <2>3. StatementCode(g.code, d, P[d])
    BY <1>4, <2>1 DEF LinesCoded
  <2>4. StatementCode(h.code, d, P[d])
    BY <1>1, <1>5, <2>1, <2>2, <2>3, StatementKept
  <2>5. ASSUME NEW e \in DoHeads(i), d < e PROVE P[d] + 3 <= P[e]
    <3>1. e \in 1..(i - 1)
      <4>1. i \in 1..(Len(unit) + 1)
        BY LineIs
      <4> QED BY <4>1, DoHeadsIs
    <3>2. d \in 1..i /\ e \in (d + 1)..i
      BY <2>1, <2>5, <3>1, LineIs
    <3> QED BY <1>4, <2>1, <3>2 DEF LinesCoded
  <2> QED BY <1>5, <2>1, <2>2, <2>3, <2>4, <2>5
<1>7. x \in DoHeads(i) /\ R \subseteq DoHeads(i)
  BY <1>2
<1>8. PICK n : n = Len(h.loops)
  OBVIOUS
<1>9. PICK s \in Seq(LoopType) : s = h.loops
  BY <1>1 DEF GenType
<1>10. n = Len(s) /\ n \in Nat
  BY <1>8, <1>9
<1>11. /\ h.next = n
       /\ \A d \in DoHeads(i) \ R : \E m \in 1..n : s[m].line = d
       /\ \A m \in 1..n : /\ s[m].line \in DoHeads(i) \ R /\ \A q \in 1..(m - 1) : s[q].line < s[m].line
                          /\ s[m].label = unit[s[m].line].to[1] /\ s[m].loc = m - 1 /\ s[m].goto = P[s[m].line] + 2
                          /\ h.code[P[s[m].line] + 1].loc = m - 1
  BY <1>1, <1>2, <1>8, <1>9 DEF LoopStack
<1>12. n \in Nat \ {0} /\ s[n].line = x
  <2>1. PICK m \in 1..n : s[m].line = x
    BY <1>7, <1>11
  <2>2. n \in 1..n /\ n \in Nat \ {0} /\ (m = n \/ m \in 1..(n - 1))
    BY <1>10, <2>1
  <2>3. s[n].line \in DoHeads(i) /\ s[n].line \notin R /\ (m = n \/ x < s[n].line)
    BY <1>11, <2>1, <2>2
  <2>4. s[n].line \in Nat /\ x \in Nat
    BY <1>6, <1>7, <2>3
  <2>5. CASE m = n
    BY <2>1, <2>2, <2>5
  <2>6. CASE x < s[n].line
    <3>1. s[n].line >= x
      BY <2>4, <2>6
    <3>2. s[n].line \in Ends(i) \ R
      BY <1>2, <2>3, <3>1
    <3> QED BY <2>4, <2>6, <3>2
  <2> QED BY <2>3, <2>5, <2>6
<1>13. PICK loop \in LoopType : loop = s[n]
  BY <1>10, <1>12
<1>14. loop.line = x /\ loop.loc = n - 1 /\ loop.goto = P[x] + 2 /\ h.code[P[x] + 1].loc = n - 1 /\ loop = Last(h.loops)
  <2>1. n \in 1..n
    BY <1>12
  <2>2. loop = Last(h.loops)
    BY <1>9, <1>10, <1>13 DEF Last
  <2> QED BY <1>11, <1>12, <1>13, <2>1, <2>2
<1>15. PICK p, t : p = P[x] /\ t = P[x] + 2
  OBVIOUS
<1>16. p \in Nat \ {0} /\ t = p + 2 /\ p + 3 <= w /\ t \in 1..(w - 1) /\ t \in 1..(W - 1) /\ x \in Lines /\ loop.goto = t
  <2>1. p \in Nat \ {0} /\ p + 3 <= w /\ x \in Lines /\ t = p + 2 /\ loop.goto = t
    BY <1>6, <1>7, <1>14, <1>15
  <2> QED BY ONLY <1>5, <2>1
<1>17. PICK f : f = ForLoopEnd(h)
  OBVIOUS
<1>18. LoopEnded(h, f, W, n, loop)
  <2>1. h.next > 0
    BY <1>11, <1>12
  <2> QED BY <1>1, <1>5, <1>8, <1>12, <1>14, <1>16, <1>17, <2>1, LoopEndIs
<1>19. /\ f \in GenType /\ Len(f.code) = W + 2 /\ Where(f) = W + 3 /\ Len(h.code) <= Len(f.code)
       /\ \A q \in 1..(W - 1) : q # t => f.code[q] = h.code[q]
       /\ Same(f.code[t], h.code[t]) /\ f.code[t].to = W + 2
       /\ f.code[W] = Instr("incr", x)
       /\ f.code[W + 1] = [Instr("dec", x) EXCEPT !.loc = n - 1]
       /\ f.code[W + 2] = [Instr("ifgt", x) EXCEPT !.loc = n - 1, !.to = t + 1]
       /\ f.labels = h.labels /\ f.blocks = h.blocks /\ f.max = h.max /\ f.next = h.next - 1
       /\ Len(f.loops) = n - 1 /\ \A m \in 1..(n - 1) : f.loops[m] = s[m]
  <2>1. /\ f \in GenType /\ Len(f.code) = W + 2 /\ Where(f) = W + 3 /\ Len(h.code) <= Len(f.code)
        /\ \A q \in 1..(W - 1) : q # loop.goto => f.code[q] = h.code[q]
        /\ Same(f.code[loop.goto], h.code[loop.goto]) /\ f.code[loop.goto].to = W + 2
        /\ f.labels = h.labels /\ f.blocks = h.blocks /\ f.max = h.max /\ f.next = h.next - 1
        /\ Len(f.loops) = n - 1 /\ \A m \in 1..(n - 1) : f.loops[m] = h.loops[m]
    BY <1>18 DEF LoopEnded
  <2>2. /\ f.code[W] = Instr("incr", loop.line)
        /\ f.code[W + 1] = [Instr("dec", loop.line) EXCEPT !.loc = loop.loc]
        /\ f.code[W + 2] = [Instr("ifgt", loop.line) EXCEPT !.loc = loop.loc, !.to = loop.goto + 1]
    BY <1>18, Zenon DEF LoopEnded
  <2>3. /\ f.code[W] = Instr("incr", x)
        /\ f.code[W + 1] = [Instr("dec", x) EXCEPT !.loc = n - 1]
        /\ f.code[W + 2] = [Instr("ifgt", x) EXCEPT !.loc = n - 1, !.to = t + 1]
    BY <1>14, <1>16, <2>2, Zenon
  <2> QED BY <1>9, <1>16, <2>1, <2>3
<1>20. /\ h.code[t].op = "goto" /\ h.code[t].line = x /\ h.code[t].lab = 0
       /\ g.code[t].op = "goto" /\ g.code[t].line = x
  <2>1. StatementCode(h.code, x, p) /\ StatementCode(g.code, x, p) /\ unit[x].k = "do"
    BY <1>6, <1>7, <1>15
  <2>2. Same(h.code[p + 2], Instr("goto", x)) /\ Same(g.code[p + 2], Instr("goto", x))
    BY ONLY <2>1, Zenon DEF StatementCode, CodeOf
  <2> QED BY <1>16, <2>2, SameIs
<1>21. Fixable(i, h.code[t]) /\ Fixable(i, g.code[t])
  BY <1>7, <1>20 DEF Fixable
<1>22. \A q \in 1..(W - 1) : h.code[q] \in InstrType
  BY <1>1, <1>5, CodeAt
<1>23. \A z \in InstrType : Same(z, z)
  BY DEF Same, InstrType
<1>24. \A q \in 1..(W - 1) : Same(f.code[q], h.code[q])
  BY <1>19, <1>22, <1>23
<1>25. Fixes(i, h.code, f.code, W)
  BY <1>19, <1>21, <1>24 DEF Fixes
<1>26. Fixes(i, g.code, f.code, w)
  <2> SUFFICES ASSUME NEW q \in 1..(w - 1)
               PROVE  Same(f.code[q], g.code[q]) /\ (f.code[q] # g.code[q] => Fixable(i, g.code[q]))
    BY DEF Fixes
  <2>1. q \in 1..(W - 1)
    BY ONLY <1>43, q \in 1..(w - 1)
  <2>2. Same(h.code[q], g.code[q]) /\ (h.code[q] # g.code[q] => Fixable(i, g.code[q]))
    BY <1>1, <1>5 DEF Fixes
  <2>3. CASE q # t
    <3>1. f.code[q] = h.code[q]
      BY <1>19, <2>1, <2>3
    <3> QED BY <2>2, <3>1, Zenon
  <2>4. CASE q = t
    <3>1. PICK a, b, c : a = f.code[t] /\ b = h.code[t] /\ c = g.code[t]
      OBVIOUS
    <3>2. Same(a, b) /\ Same(b, c)
      BY <1>19, <2>2, <2>4, <3>1
    <3>3. a = [b EXCEPT !.to = a.to] /\ b = [c EXCEPT !.to = b.to]
      BY ONLY <3>2, Zenon DEF Same
    <3>4. b \in InstrType /\ c \in InstrType
      <4>1. b \in InstrType
        BY <1>16, <1>22, <3>1
      <4>2. t \in 1..(Where(g) - 1)
        BY <1>5, <1>16 DEF Translated
      <4> QED BY <1>4, <3>1, <4>1, <4>2, CodeAt
    <3>5. a = [c EXCEPT !.to = a.to]
      BY ONLY <3>3, <3>4 DEF InstrType
    <3>6. Same(a, c)
      BY ONLY <3>5, Zenon DEF Same
    <3> QED BY <1>21, <2>4, <3>1, <3>6
  <2> QED BY <2>3, <2>4
<1>27. EndAt(f.code, P, x) = W
  <2>1. P[x] + 2 = t /\ f.code[t].to = W + 2
    BY <1>15, <1>19
  <2>2. EndAt(f.code, P, x) = f.code[t].to - 2
    BY <2>1 DEF EndAt
  <2> QED BY <1>5, <2>1, <2>2
<1>28. LoopEnd(f.code, P, x)
  <2>1. PICK c : c = f.code
    OBVIOUS
  <2>2. p + 1 \in 1..(W - 1) /\ p + 1 # t
    BY <1>5, <1>16
  <2>3. c[p + 1].loc = n - 1 /\ t + 1 = p + 3
    <3>1. f.code[p + 1] = h.code[p + 1] /\ h.code[p + 1].loc = n - 1
      BY <1>14, <1>15, <1>19, <2>2
    <3> QED BY <1>16, <2>1, <3>1
  <2>4. /\ EndAt(c, P, x) = W /\ p = P[x]
        /\ c[W] = Instr("incr", x)
        /\ c[W + 1] = [Instr("dec", x) EXCEPT !.loc = n - 1]
        /\ c[W + 2] = [Instr("ifgt", x) EXCEPT !.loc = n - 1, !.to = p + 3]
    BY <1>15, <1>19, <1>27, <2>1, <2>3, Zenon
  <2>5. LoopEnd(c, P, x)
    BY ONLY <2>3, <2>4, Zenon DEF LoopEnd
  <2> QED BY <2>1, <2>5
<1>29. ASSUME NEW y \in R PROVE EndAt(f.code, P, y) = EndAt(h.code, P, y) /\ LoopEnd(f.code, P, y)
  <2>1. P[y] \in Nat \ {0} /\ p + 3 <= P[y] /\ P[y] + 3 <= w
    BY <1>6, <1>7, <1>15
  <2>2. P[y] + 1 \in 1..(W - 1) /\ P[y] + 1 # t /\ P[y] + 2 \in 1..(W - 1) /\ P[y] + 2 # t
    <3>1. PICK u : u = P[y]
      OBVIOUS
    <3>2. u \in Nat \ {0} /\ p + 3 <= u /\ u + 3 <= w /\ p \in Nat /\ t = p + 2
      BY <1>16, <2>1, <3>1
    <3>3. u + 1 \in 1..(W - 1) /\ u + 1 # t /\ u + 2 \in 1..(W - 1) /\ u + 2 # t
      BY ONLY <1>43, <3>2
    <3> QED BY <3>1, <3>3
  <2>3. f.code[P[y] + 1] = h.code[P[y] + 1] /\ f.code[P[y] + 2] = h.code[P[y] + 2]
    BY <1>19, <2>2
  <2>4. EndAt(f.code, P, y) = EndAt(h.code, P, y)
    BY <2>3 DEF EndAt
  <2>5. PICK z : z = EndAt(h.code, P, y)
    OBVIOUS
  <2>6. LoopEnd(h.code, P, y) /\ w + Size(i) <= z /\ z + 3 <= W
    BY <1>3, <1>5, <2>5 DEF Chained
  <2>7. z \in Nat
    <3>1. h.code[P[y] + 2] \in InstrType
      BY <1>22, <2>2
    <3>2. h.code[P[y] + 2].to \in Nat
      BY <3>1 DEF InstrType
    <3>3. z \in Int
      BY <2>5, <3>2 DEF EndAt
    <3> QED BY ONLY <1>5, <2>6, <3>3
  <2>8. z \in 1..(W - 1) /\ z + 1 \in 1..(W - 1) /\ z + 2 \in 1..(W - 1) /\ z # t /\ z + 1 # t /\ z + 2 # t
    <3>1. w <= z /\ z + 3 <= W
      <4>1. PICK v \in Nat : v = Size(i)
        BY <1>5
      <4>2. w + v <= z /\ z + 3 <= W
        BY <2>6, <4>1
      <4> QED BY ONLY <1>43, <2>7, <4>1, <4>2
    <3>2. t < w /\ t \in Nat
      BY ONLY <1>43, <1>16
    <3> QED BY ONLY <1>43, <2>7, <3>1, <3>2
  <2>9. f.code[z] = h.code[z] /\ f.code[z + 1] = h.code[z + 1] /\ f.code[z + 2] = h.code[z + 2]
    BY <1>19, <2>8
  <2>10. PICK c, d : c = f.code /\ d = h.code
    OBVIOUS
  <2>11. /\ c[z] = d[z] /\ c[z + 1] = d[z + 1] /\ c[z + 2] = d[z + 2] /\ c[P[y] + 1] = d[P[y] + 1]
         /\ EndAt(c, P, y) = z /\ EndAt(d, P, y) = z /\ LoopEnd(d, P, y)
    BY <2>3, <2>4, <2>5, <2>6, <2>9, <2>10
  <2>12. LoopEnd(c, P, y)
    BY ONLY <2>11, Zenon DEF LoopEnd
  <2> QED BY <2>4, <2>10, <2>12
<1>30. Chained(f.code, P, i, R \cup {x}, Where(f))
  <2>1. PICK E : E = [y \in R \cup {x} |-> EndAt(f.code, P, y)]
    OBVIOUS
  <2>2. PICK q, v, V : q = P[i] + Size(i) /\ V = Where(f) /\ v = Where(h)
    OBVIOUS
  <2>3. q \in Nat /\ v \in Nat /\ q <= v /\ V = v + 3
    <3>1. q = w + Size(i) /\ v = W /\ V = W + 3
      BY <1>5, <1>19, <2>2
    <3>2. PICK u \in Nat : u = Size(i)
      BY <1>5
    <3>3. w + u <= W
      BY <1>5, <3>2
    <3> QED BY ONLY <1>43, <3>1, <3>2, <3>3
  <2>4. E[x] = v
    BY <1>5, <1>27, <2>1, <2>2
  <2>5. /\ R = {} => v = q
        /\ \A y \in R : /\ q <= E[y] /\ E[y] + 3 <= v
                        /\ (\A e \in R : e <= y) => E[y] = q
                        /\ (\A e \in R : y <= e) => E[y] + 3 = v
                        /\ \A e \in R : e < y /\ (\A b \in R : b <= e \/ y <= b) => E[e] = E[y] + 3
    <3>1. \A y \in R : E[y] = EndAt(h.code, P, y)
      BY <1>29, <2>1
    <3> QED BY <1>3, <2>2, <3>1 DEF Chained
  <2>6. \A y \in R : E[y] \in Int
    <3> TAKE y \in R
    <3>1. P[y] + 2 \in 1..(W - 1)
      <4>1. P[y] \in Nat \ {0} /\ P[y] + 3 <= w
        BY <1>6, <1>7
      <4>2. PICK u : u = P[y]
        OBVIOUS
      <4>4. u \in Nat \ {0} /\ u + 3 <= w
        BY <4>1, <4>2
      <4>3. u + 2 \in 1..(W - 1)
        BY ONLY <1>43, <4>4
      <4> QED BY <4>2, <4>3
    <3>2. h.code[P[y] + 2].to \in Nat
      BY <1>22, <3>1 DEF InstrType
    <3>3. EndAt(h.code, P, y) \in Int
      BY <3>2 DEF EndAt
    <3> QED BY <1>29, <2>1, <3>3
  <2>7. x \in Nat /\ \A y \in R : y \in Nat /\ x < y
    BY <1>6, <1>7
  <2>8. ASSUME NEW y \in R \cup {x}
        PROVE  /\ q <= E[y] /\ E[y] + 3 <= V
               /\ (\A e \in R \cup {x} : e <= y) => E[y] = q
               /\ (\A e \in R \cup {x} : y <= e) => E[y] + 3 = V
               /\ \A e \in R \cup {x} : e < y /\ (\A b \in R \cup {x} : b <= e \/ y <= b) => E[e] = E[y] + 3
    <3>1. CASE y = x
      <4>1. (\A e \in R \cup {x} : e <= y) => R = {}
        BY <2>7, <3>1
      <4>2. \A e \in R \cup {x} : ~ (e < y)
        BY <2>7, <3>1
      <4> QED BY <2>3, <2>4, <2>5, <3>1, <4>1, <4>2
    <3>2. CASE y \in R
      <4>1. ~ (\A e \in R \cup {x} : y <= e)
        BY <2>7, <3>2
      <4>2. q <= E[y] /\ E[y] + 3 <= V
        BY <2>3, <2>5, <2>6, <3>2
      <4>3. ASSUME NEW e \in R \cup {x}, e < y, \A b \in R \cup {x} : b <= e \/ y <= b PROVE E[e] = E[y] + 3
        <5>1. CASE e \in R
          BY <2>5, <3>2, <4>3, <5>1
        <5>2. CASE e = x
          <6>1. \A b \in R : y <= b
            BY <2>7, <4>3, <5>2
          <6> QED BY <2>4, <2>5, <3>2, <5>2, <6>1
        <5> QED BY <5>1, <5>2
      <4> QED BY <2>5, <3>2, <4>1, <4>2, <4>3
    <3> QED BY <3>1, <3>2
  <2>9. \A y \in R \cup {x} : LoopEnd(f.code, P, y) /\ E[y] = EndAt(f.code, P, y)
    BY <1>28, <1>29, <2>1
  <2>10. R \cup {x} # {}
    OBVIOUS
  <2>11. PICK B : B = R \cup {x}
    OBVIOUS
  <2>12. PICK c : c = f.code
    OBVIOUS
  <2>13. /\ \A y \in B : LoopEnd(c, P, y) /\ E[y] = EndAt(c, P, y)
         /\ B # {} /\ q = P[i] + Size(i)
    BY <2>2, <2>9, <2>11, <2>12
  <2>14. \A y \in B : /\ q <= E[y] /\ E[y] + 3 <= V
                      /\ (\A e \in B : e <= y) => E[y] = q
                      /\ (\A e \in B : y <= e) => E[y] + 3 = V
                      /\ \A e \in B : e < y /\ (\A b \in B : b <= e \/ y <= b) => E[e] = E[y] + 3
    BY <2>8, <2>11
  <2>15. Chained(c, P, i, B, V)
    BY ONLY <2>13, <2>14 DEF Chained
  <2> QED BY <2>2, <2>11, <2>12, <2>15
<1>31. StatementCode(f.code, i, P[i])
  BY <1>1, <1>5, <1>25, StatementKept
<1>32. LocalsOK(f.code, P, i)
  BY <1>2 DEF LocalsOK, Closers
<1>33. \A q \in 1..(W - 1) : f.code[q].loc = h.code[q].loc
  BY <1>22, <1>24 DEF Same, InstrType
<1>34. LoopStack(f, P, LoopsAt(i) \ (R \cup {x}))
  <2>1. LoopsAt(i) \ (R \cup {x}) = (DoHeads(i) \ R) \ {x}
    BY <1>2
  <2>2. f.next = n - 1 /\ Len(f.loops) = n - 1 /\ n \in 1..n
    <3>1. h.next = n
      BY <1>11
    <3>2. f.next = h.next - 1 /\ Len(f.loops) = n - 1
      BY <1>19
    <3>3. n \in Nat \ {0}
      BY <1>12
    <3> QED BY ONLY <3>1, <3>2, <3>3
  <2>3. ASSUME NEW m \in 1..(n - 1)
        PROVE  /\ s[m].line \in (DoHeads(i) \ R) \ {x} /\ \A q \in 1..(m - 1) : s[q].line < s[m].line
               /\ s[m].label = unit[s[m].line].to[1] /\ s[m].loc = m - 1 /\ s[m].goto = P[s[m].line] + 2
               /\ f.code[P[s[m].line] + 1].loc = m - 1
    <3>1. m \in 1..n /\ n \in 1..n
      BY <1>12
    <3>2. s[m].line \in DoHeads(i) \ R /\ s[m].line < s[n].line /\ s[n].line = x
      BY <1>11, <1>12, <3>1
    <3>3. s[m].line # x
      BY <1>6, <1>7, <3>2
    <3>4. P[s[m].line] + 1 \in 1..(W - 1)
      <4>1. PICK v : v = P[s[m].line]
        OBVIOUS
      <4>2. v \in Nat \ {0} /\ v + 3 <= w
        BY <1>6, <3>2, <4>1
      <4>3. v + 1 \in 1..(W - 1)
        BY ONLY <1>5, <4>2
      <4> QED BY <4>1, <4>3
    <3> QED BY <1>11, <1>33, <3>1, <3>2, <3>3, <3>4
  <2>4. ASSUME NEW d \in (DoHeads(i) \ R) \ {x} PROVE \E m \in 1..(n - 1) : s[m].line = d
    <3>1. PICK m \in 1..n : s[m].line = d
      BY <1>11
    <3>2. m # n
      BY <1>12, <3>1
    <3>3. m \in 1..(n - 1)
      BY <1>12, <3>2
    <3> QED BY <3>1, <3>3
  <2>5. PICK D : D = (DoHeads(i) \ R) \ {x}
    OBVIOUS
  <2>6. PICK N, r, c : N = n - 1 /\ r = f.loops /\ c = f.code
    OBVIOUS
  <2>7. /\ f.next = N /\ Len(r) = N /\ r = f.loops
        /\ \A d \in D : \E m \in 1..N : s[m].line = d
        /\ \A m \in 1..N :
              /\ r[m] = s[m]
              /\ s[m].line \in D /\ \A q \in 1..(m - 1) : s[q].line < s[m].line
              /\ s[m].label = unit[s[m].line].to[1] /\ s[m].loc = m - 1 /\ s[m].goto = P[s[m].line] + 2
              /\ c[P[s[m].line] + 1].loc = m - 1
    BY <1>19, <2>2, <2>3, <2>4, <2>5, <2>6
  <2>8. \A m \in 1..N : \A q \in 1..(m - 1) : r[q] = s[q]
    <3>1. N \in Nat
      BY <1>12, <2>6
    <3>2. \A m \in 1..N : \A q \in 1..(m - 1) : q \in 1..N
      BY ONLY <3>1
    <3> QED BY <2>7, <3>2
  <2>10. /\ \A d \in D : \E m \in 1..N : r[m].line = d
         /\ \A m \in 1..N :
              /\ r[m].line \in D /\ \A q \in 1..(m - 1) : r[q].line < r[m].line
              /\ r[m].label = unit[r[m].line].to[1] /\ r[m].loc = m - 1 /\ r[m].goto = P[r[m].line] + 2
              /\ c[P[r[m].line] + 1].loc = m - 1
    <3>1. \A d \in D : \E m \in 1..N : r[m].line = d
      BY ONLY <2>7
    <3>2. ASSUME NEW m \in 1..N
          PROVE  /\ r[m].line \in D /\ \A q \in 1..(m - 1) : r[q].line < r[m].line
                 /\ r[m].label = unit[r[m].line].to[1] /\ r[m].loc = m - 1 /\ r[m].goto = P[r[m].line] + 2
                 /\ c[P[r[m].line] + 1].loc = m - 1
      BY ONLY <2>7, <2>8, m \in 1..N
    <3> QED BY ONLY <3>1, <3>2
  <2>9. LoopStack(f, P, D)
    BY ONLY <2>6, <2>7, <2>10 DEF LoopStack
  <2> QED BY <2>1, <2>5, <2>9
<1>35. BlockStack(f, P, i + 1)
  <2>1. PICK b : b = f.blocks /\ b = h.blocks
    BY <1>19
  <2> QED BY <1>1, <2>1 DEF BlockStack
<1>36. ArmsClosed(f.code, P, i, Where(f))
  BY <1>2, NoArm
<1>37. f.code # <<>> /\ Last(f.code) = f.code[W + 2] /\ f.code[W + 2].op = "ifgt"
  <2>1. f.code \in Seq(InstrType) /\ Len(f.code) = W + 2 /\ W + 2 # 0
    BY <1>5, <1>19 DEF GenType
  <2>2. f.code # <<>> /\ Last(f.code) = f.code[W + 2]
    BY <2>1 DEF Last
  <2>3. f.code[W + 2].op = "ifgt"
    BY <1>19, Fields
  <2> QED BY <2>2, <2>3
<1>38. ASSUME NEW q \in 1..(W - 1)
       PROVE  /\ Same(f.code[q], h.code[q])
              /\ f.code[q].to = h.code[q].to \/ (h.code[q].lab = 0 /\ f.code[q].to \in 1..Len(f.code))
              /\ Waits(h, q) => Waits(f, q) \/ h.code[q].lab # 0 \/ f.code[q].to \in 1..Len(f.code)
  <2>1. CASE q = t
    <3>1. f.code[q].to \in 1..Len(f.code)
      <4>1. W + 2 \in 1..(W + 2)
        BY ONLY <1>43
      <4> QED BY <1>19, <2>1, <4>1
    <3> QED BY <1>20, <1>24, <2>1, <3>1
  <2>2. CASE q # t
    <3>1. ASSUME NEW m \in 1..n, s[m].goto = q PROVE m \in 1..(n - 1) /\ f.loops[m].goto = q
      <4>1. m # n
        BY <1>13, <1>16, <2>2, <3>1
      <4>2. m \in 1..(n - 1)
        BY <1>12, <4>1
      <4> QED BY <1>19, <3>1, <4>2
    <3>2. Waits(h, q) => Waits(f, q)
      BY <1>8, <1>9, <1>19, <3>1 DEF Waits
    <3>3. f.code[q] = h.code[q]
      BY <1>19, <2>2
    <3> QED BY <1>24, <3>2, <3>3
  <2> QED BY <2>1, <2>2
<1>39. ASSUME NEW q \in W..(Where(f) - 1) PROVE InstrOK(f, q)
  <2>1. PICK y : y = Where(f) /\ q \in W..(y - 1)
    OBVIOUS
  <2>2. y = W + 3
    BY <1>19, <2>1
  <2>3. q = W \/ q = W + 1 \/ q = W + 2
    BY ONLY <1>43, <2>1, <2>2
  <2>4. n - 1 \in Nat /\ n - 1 < MaxLocal /\ 0 < MaxLocal
    <3>1. MaxLocal \in Nat /\ h.max \in Nat /\ n \in Nat \ {0} /\ n <= h.max /\ h.max <= MaxLocal
      BY <1>1, <1>11, <1>12, LineIs DEF GenType
    <3> QED BY ONLY <3>1
  <2>5. t + 1 \in 1..Len(f.code)
    <3>1. Len(f.code) = W + 2
      BY <1>19
    <3> QED BY ONLY <1>43, <1>16, <3>1
  <2>6. CASE q = W
    <3>1. PICK z : z = Instr("incr", x)
      OBVIOUS
    <3>2. z.op = "incr" /\ z.line = x /\ z.loc = 0 /\ ~ z.wide
      BY <3>1 DEF Instr
    <3>3. f.code[q] = z
      BY <1>19, <2>6, <3>1
    <3>4. x \in Lines
      BY <1>16
    <3> QED BY ONLY <2>4, <3>2, <3>3, <3>4 DEF InstrOK, Branches
  <2>7. CASE q = W + 1
    <3>1. PICK z : z = [Instr("dec", x) EXCEPT !.loc = n - 1]
      OBVIOUS
    <3>2. z.op = "dec" /\ z.line = x /\ z.loc = n - 1 /\ ~ z.wide
      BY <3>1 DEF Instr
    <3> QED BY <1>16, <1>19, <2>4, <2>7, <3>1, <3>2 DEF InstrOK, Branches
  <2>8. CASE q = W + 2
    <3>1. PICK z : z = [Instr("ifgt", x) EXCEPT !.loc = n - 1, !.to = t + 1]
      OBVIOUS
    <3>2. z.op = "ifgt" /\ z.line = x /\ z.loc = n - 1 /\ ~ z.wide /\ z.lab = 0 /\ z.to = t + 1
      BY <3>1 DEF Instr
    <3> QED BY <1>16, <1>19, <2>4, <2>5, <2>8, <3>1, <3>2 DEF InstrOK
  <2> QED BY <2>3, <2>6, <2>7, <2>8
<1>40. Sound(f)
  <2>1. f.max <= MaxLocal /\ f.next <= f.max /\ f.labels = h.labels /\ Len(h.code) <= Len(f.code) /\ f \in GenType
    <3>1. f.max <= MaxLocal
      BY <1>1, <1>19
    <3>2. h.next \in Nat /\ h.max \in Nat /\ f.next = h.next - 1 /\ f.max = h.max /\ h.next <= h.max
      BY <1>1, <1>19 DEF GenType
    <3>3. f.next <= f.max
      BY ONLY <3>2
    <3> QED BY <1>19, <3>1, <3>3
  <2> QED BY <1>1, <1>5, <1>38, <1>39, <2>1, SoundAfter
<1>41. P[i] + Size(i) <= Where(f) /\ Len(g.code) <= Len(f.code) /\ f.labels = g.labels
  <2>1. Where(f) = W + 3 /\ P[i] + Size(i) = w + Size(i) /\ Len(h.code) <= Len(f.code) /\ Len(g.code) <= Len(h.code)
    BY <1>1, <1>5, <1>19
  <2>2. Len(g.code) \in Nat /\ Len(h.code) \in Nat /\ Len(f.code) \in Nat
    BY <1>1, <1>4, <1>19, CodeAt
  <2>4. PICK a, b, c, u : a = Len(g.code) /\ b = Len(h.code) /\ c = Len(f.code) /\ u = Size(i) /\ u \in Nat /\ w + u <= W
    BY <1>5
  <2>6. a \in Nat /\ b \in Nat /\ c \in Nat /\ a <= b /\ b <= c /\ u \in Nat /\ w + u <= W
    BY <2>1, <2>2, <2>4
  <2>5. a <= c /\ w + u <= W + 3
    BY ONLY <1>43, <2>6
  <2>3. P[i] + Size(i) <= Where(f) /\ Len(g.code) <= Len(f.code)
    BY <2>1, <2>4, <2>5
  <2> QED BY <1>1, <1>19, <2>3
<1>42. Part(g, f, P, i, R \cup {x})
  BY <1>2, <1>5, <1>26, <1>30, <1>31, <1>32, <1>34, <1>35, <1>36, <1>37, <1>40, <1>41 DEF Part
<1> QED BY <1>8, <1>9, <1>12, <1>17, <1>19, <1>42 DEF OneEnded

(* The statement of a line other than the END.                               *)
LEMMA StatementPart ==
  ASSUME UnitInv, phase # "read", NEW i \in Lines, unit[i].k # "end", NEW g, NEW P, Translated(g, P, i),
         unit[i].k \in {"continue", "enddo"} => ~ (g.code # <<>> /\ Last(g.code).op = "return")
  PROVE  Part(g, Statement(g, i), P, i, {})
<1>1. PICK k : k = unit[i].k
  OBVIOUS
<1>2. k \in Kinds \ {"end"}
  BY <1>1, UnitTypes DEF UnitInv
<1>3. CASE k \in {"continue", "enddo"}
  <2>1. Statement(g, i) = g
    BY <1>1, <1>3 DEF Statement
  <2>2. Part(g, g, P, i, {})
    BY <1>1, <1>3, NothingPart
  <2> QED BY <2>1, <2>2
<1>4. CASE k \in {"work", "return", "stop", "goto", "assign"}
  BY <1>1, <1>4, OnePart
<1>5. CASE k \in {"lifwork", "lifgoto"}
  BY <1>1, <1>5, LogicalIfPart
<1>6. CASE k \in {"cgoto", "agoto"}
  BY <1>1, <1>6, SelectPart
<1>7. CASE k \in {"aif", "aifwide"}
  BY <1>1, <1>7, ArithmeticIfPart
<1>8. CASE k \in {"do", "if", "elseif", "else", "endif"}
  BY <1>1, <1>8, DoPart, IfPart, ElseIfPart, ElsePart, EndIfPart
<1> QED BY <1>2, <1>3, <1>4, <1>5, <1>6, <1>7, <1>8 DEF Kinds

(* How many loops a label ends.                                              *)
LastLabels(s, l, k) == k \in 0..Len(s) /\ \A m \in 1..Len(s) : s[m].label = l <=> m > Len(s) - k
(* What the loop of label_emit counts.                                      *)
LEMMA EndingIs ==
  ASSUME NEW s, Len(s) \in Nat, NEW l, NEW k, LastLabels(s, l, k)
  PROVE  Ending(s, l) = k
<1> PICK N \in Nat : N = Len(s)
  OBVIOUS
<1>0. k \in 0..N /\ \A m \in 1..N : s[m].label = l <=> m > N - k
  BY DEF LastLabels
<1> DEFINE Q(n) == /\ \A m \in (N - n + 1)..N : s[m].label = l
                   /\ n < N => s[N - n].label # l
<1>1. Q(k)
  <2>1. \A m \in (N - k + 1)..N : m \in 1..N /\ m > N - k
    BY <1>0
  <2>2. k < N => N - k \in 1..N /\ ~ (N - k > N - k)
    BY <1>0
  <2> QED BY <1>0, <2>1, <2>2
<1>2. ASSUME NEW n \in 0..N, Q(n) PROVE n = k
  <2>1. CASE n < k
    <3>1. N - n \in 1..N /\ N - n > N - k /\ n < N
      BY <1>0, <2>1
    <3> QED BY <1>0, <1>2, <3>1
  <2>2. CASE k < n
    <3>1. N - k \in (N - n + 1)..N /\ N - k \in 1..N /\ ~ (N - k > N - k)
      BY <1>0, <2>2
    <3> QED BY <1>0, <1>2, <3>1
  <2> QED BY <1>0, <2>1, <2>2
<1>3. Ending(s, l) = CHOOSE n \in 0..N : Q(n)
  BY DEF Ending
<1> HIDE DEF Q
<1> QED BY <1>0, <1>1, <1>2, <1>3

(* The recursion of Labelled.                                                *)
ClosedFrom(f, N, c) == c = [n \in 0..N |-> IF n = 0 THEN f ELSE ForLoopEnd(c[n - 1])]
(* The recursive function exists.                                           *)
LEMMA ClosedIs ==
  ASSUME NEW N \in Nat, NEW f
  PROVE  \E c : ClosedFrom(f, N, c)
<1> DEFINE Q(k, c) == c = [n \in 0..k |-> IF n = 0 THEN f ELSE ForLoopEnd(c[n - 1])]
           B == {k \in Nat : \E c : Q(k, c)}
<1>1. 0 \in B
  <2>1. PICK c : c = [n \in 0..0 |-> f]
    OBVIOUS
  <2>2. Q(0, c)
    BY <2>1
  <2> QED BY <2>2
<1>2. ASSUME NEW k \in 1..N, k - 1 \in B PROVE k \in B
  <2>1. PICK b : Q(k - 1, b)
    BY <1>2
  <2>2. PICK c : c = [n \in 0..k |-> IF n <= k - 1 THEN b[n] ELSE ForLoopEnd(b[k - 1])]
    OBVIOUS
  <2>3. \A n \in 0..(k - 1) : c[n] = b[n] /\ b[n] = IF n = 0 THEN f ELSE ForLoopEnd(b[n - 1])
    BY <2>1, <2>2
  <2>4. ASSUME NEW n \in 0..k PROVE c[n] = IF n = 0 THEN f ELSE ForLoopEnd(c[n - 1])
    <3>1. CASE n <= k - 1
      <4>1. n \in 0..(k - 1) /\ (n # 0 => n - 1 \in 0..(k - 1))
        BY <3>1
      <4> QED BY <2>3, <4>1
    <3>2. CASE n = k
      <4>1. n # 0 /\ n - 1 = k - 1 /\ k - 1 \in 0..(k - 1) /\ ~ (n <= k - 1)
        BY <3>2
      <4> QED BY <2>2, <2>3, <4>1
    <3> QED BY <3>1, <3>2
  <2>5. Q(k, c)
    BY <2>2, <2>4
  <2> QED BY <2>5
<1> HIDE DEF B
<1>3. \A k \in 0..N : k \in B
  BY <1>1, <1>2, UpTo
<1>4. N \in B
  BY <1>3
<1>5. PICK c : Q(N, c)
  BY <1>4 DEF B
<1>6. ClosedFrom(f, N, c)
  BY <1>5, Zenon DEF ClosedFrom
<1> QED BY <1>6

LabelledBy(g, l, i, h, f, N, c) ==
  /\ c[0] = f /\ \A n \in 1..N : c[n] = ForLoopEnd(c[n - 1])
  /\ Labelled(g, l, i) = [c[Ending(f.loops, l)] EXCEPT !.labels = Placed(@, l, Len(h.code))]
(* What label_emit does, turn by turn.                                      *)
LEMMA LabelledIs ==
  ASSUME NEW g, NEW l, NEW i, NEW h, h = Puts(g, <<Hole>>), NEW f, f = IF i = 0 THEN h ELSE Statement(h, i), NEW N \in Nat, N = Len(f.loops)
  PROVE  \E c : LabelledBy(g, l, i, h, f, N, c)
<1> DEFINE Q(c) == c = [n \in 0..N |-> IF n = 0 THEN f ELSE ForLoopEnd(c[n - 1])]
<1>1. PICK c : c = CHOOSE x : Q(x)
  OBVIOUS
<1>2. Q(c)
  <2>1. PICK x : ClosedFrom(f, N, x)
    BY ClosedIs
  <2>2. Q(x)
    BY <2>1, Zenon DEF ClosedFrom
  <2> HIDE DEF Q
  <2> QED BY <1>1, <2>2
<1>3. Labelled(g, l, i) = [c[Ending(f.loops, l)] EXCEPT !.labels = Placed(@, l, Len(h.code))]
  BY <1>1 DEF Labelled
<1>4. \A n \in 0..N : c[n] = IF n = 0 THEN f ELSE ForLoopEnd(c[n - 1])
  <2>1. PICK d : d = [n \in 0..N |-> IF n = 0 THEN f ELSE ForLoopEnd(c[n - 1])]
    OBVIOUS
  <2>2. \A n \in 0..N : d[n] = IF n = 0 THEN f ELSE ForLoopEnd(c[n - 1])
    BY <2>1
  <2>3. c = d
    BY <1>2, <2>1, Zenon
  <2> QED BY <2>2, <2>3
<1>5. c[0] = f /\ \A n \in 1..N : c[n] = ForLoopEnd(c[n - 1])
  BY <1>4
<1>6. LabelledBy(g, l, i, h, f, N, c)
  BY <1>3, <1>5, Zenon DEF LabelledBy
<1> QED BY <1>6

(* The loops that a line ends are the innermost ones of the generator.       *)
InnerLoops(i, s, N) ==
  /\ \E k \in 0..N : \A m \in 1..N : s[m].line \in Ends(i) <=> m > N - k
  /\ \A m \in 1..N : /\ s[m].line \in LoopsAt(i) /\ s[m].line \in Lines /\ s[m].line \in Nat /\ unit[s[m].line].k = "do"
                     /\ s[m].label = unit[s[m].line].to[1]
                     /\ \A q \in 1..(m - 1) : s[q].line < s[m].line
  /\ \A d \in LoopsAt(i) : \E m \in 1..N : s[m].line = d
  /\ Ends(i) \subseteq LoopsAt(i)
(* The loops that end at a line are the innermost on the stack.             *)
LEMMA EndsInnermost ==
  ASSUME UnitInv, phase # "read", NEW i \in Lines, NEW P, NEW h, LoopStack(h, P, LoopsAt(i)), NEW s, s = h.loops, NEW N \in Nat, N = Len(s)
  PROVE  InnerLoops(i, s, N)
<1>1. /\ \A d \in LoopsAt(i) : \E m \in 1..N : s[m].line = d
      /\ \A m \in 1..N : /\ s[m].line \in LoopsAt(i) /\ s[m].label = unit[s[m].line].to[1]
                         /\ \A q \in 1..(m - 1) : s[q].line < s[m].line
  BY DEF LoopStack
<1>2. \A d \in LoopsAt(i) : d \in Lines /\ d \in Nat /\ unit[d].k = "do"
  <2>1. i \in 1..(Len(unit) + 1) /\ \A d \in Lines : d \in Nat
    BY LineIs
  <2> QED BY <2>1, DoHeadsIs DEF LoopsAt
<1>3. Ends(i) \subseteq LoopsAt(i) /\ (\A d \in Ends(i) : \A e \in LoopsAt(i) : e >= d => e \in Ends(i))
  <2>1. CASE unit[i].k = "do"
    BY <2>1, HeadsAfter DEF Openers
  <2>2. CASE unit[i].k # "do"
    <3>1. LoopsAt(i) = DoHeads(i)
      BY <2>2 DEF LoopsAt
    <3> QED BY <3>1, HeadsAfter
  <2> QED BY <2>1, <2>2
<1>4. PICK t \in {m \in 1..(N + 1) : m \in 1..N => s[m].line \in Ends(i)} : \A u \in {m \in 1..(N + 1) : m \in 1..N => s[m].line \in Ends(i)} : t <= u
  <2>1. PICK S : S = {m \in 1..(N + 1) : m \in 1..N => s[m].line \in Ends(i)}
    OBVIOUS
  <2>2. S \in SUBSET Nat /\ N + 1 \in S
    BY <2>1
  <2>3. \E t \in S : \A u \in S : t <= u
    BY <2>2, Least
  <2> QED BY <2>1, <2>3
<1>5. t \in 1..(N + 1) /\ N + 1 - t \in 0..N /\ N - (N + 1 - t) = t - 1
  OBVIOUS
<1>6. ASSUME NEW m \in 1..N PROVE s[m].line \in Ends(i) <=> m > t - 1
  <2>1. CASE m < t
    <3>1. s[m].line \notin Ends(i)
      <4>1. ~ (t <= m) /\ m \in 1..(N + 1)
        BY <1>5, <2>1
      <4> QED BY <1>4, <4>1
    <3>2. ~ (m > t - 1)
      BY ONLY <1>5, <2>1, m \in 1..N
    <3> QED BY <3>1, <3>2
  <2>2. CASE m >= t
    <3>1. t \in 1..N /\ m > t - 1 /\ (t = m \/ t \in 1..(m - 1))
      BY <1>5, <2>2
    <3>2. s[t].line \in Ends(i)
      BY <1>4, <3>1
    <3>3. s[t].line \in Nat /\ s[m].line \in Nat /\ (s[t].line = s[m].line \/ s[t].line < s[m].line)
      BY <1>1, <1>2, <3>1
    <3>4. s[m].line >= s[t].line
      BY <3>3
    <3> QED BY <1>1, <1>3, <3>1, <3>2, <3>4
  <2> QED BY <1>5, <2>1, <2>2
<1>7. \E k \in 0..N : \A m \in 1..N : s[m].line \in Ends(i) <=> m > N - k
  BY <1>5, <1>6
<1> QED BY <1>1, <1>2, <1>3, <1>7 DEF InnerLoops

(* The loops whose ends label_emit adds for a label of line i.               *)
LEMMA EndingHere ==
  ASSUME UnitInv, phase # "read", NEW i \in Lines, NEW P, NEW h, LoopStack(h, P, LoopsAt(i)), NEW N \in Nat, N = Len(h.loops),
         NEW l, l # 0,
         \/ l = unit[i].lab /\ unit[i].k # "enddo"
         \/ unit[i].k = "enddo" /\ l = unit[unit[i].of].to[1]
  PROVE  Ending(h.loops, l) \in 0..N /\ \A m \in 1..N : h.loops[m].line \in Ends(i) <=> m > N - Ending(h.loops, l)
<1>1. PICK s : s = h.loops /\ N = Len(s)
  OBVIOUS
<1>2. PICK k \in 0..N : \A m \in 1..N : s[m].line \in Ends(i) <=> m > N - k
  BY <1>1, EndsInnermost DEF InnerLoops
<1>3. \A m \in 1..N : s[m].line \in LoopsAt(i) /\ s[m].line \in Lines /\ s[m].line \in Nat /\ unit[s[m].line].k = "do"
                      /\ s[m].label = unit[s[m].line].to[1]
  BY <1>1, EndsInnermost DEF InnerLoops
<1>4. ASSUME NEW d \in Lines, unit[d].k = "do" PROVE d \in Ends(i) <=> unit[d].to[1] = l
  <2>1. CASE l = unit[i].lab /\ unit[i].k # "enddo"
    BY <1>4, <2>1 DEF Ends
  <2>2. CASE unit[i].k = "enddo" /\ l = unit[unit[i].of].to[1]
    <3>1. Ends(i) = {unit[i].of} /\ l >= FirstLoopLabel
      BY <2>2, Continuing
    <3>2. unit[i].of \in Lines /\ unit[unit[i].of].k = "do"
      BY <3>1 DEF Ends
    <3>3. \A x \in Lines : unit[x].k = "do" /\ unit[x].to[1] = l => l = FirstLoopLabel + x - 1
      BY <3>1 DEF UnitInv, Labelling, LabelsOK
    <3>4. d \in Nat /\ unit[i].of \in Nat /\ FirstLoopLabel \in Nat
      BY <3>2, LineIs, LabelNumbers
    <3>5. unit[d].to[1] = l => d = unit[i].of
      <4>1. PICK x, F : x = unit[i].of /\ F = FirstLoopLabel
        OBVIOUS
      <4>2. unit[d].to[1] = l => l = F + d - 1 /\ l = F + x - 1 /\ d \in Nat /\ x \in Nat /\ F \in Nat
        BY <1>4, <2>2, <3>2, <3>3, <3>4, <4>1
      <4>3. unit[d].to[1] = l => d = x
        BY ONLY <4>2
      <4> QED BY <4>1, <4>3
    <3> QED BY <2>2, <3>1, <3>5
  <2> QED BY <2>1, <2>2
<1>5. \A m \in 1..N : s[m].label = l <=> m > N - k
  BY <1>2, <1>3, <1>4
<1>6. Ending(s, l) = k
  BY <1>1, <1>5, EndingIs DEF LastLabels
<1> QED BY <1>1, <1>2, <1>6

(* The label of an ENDDO ends no loop.                                       *)
LEMMA EndingNone ==
  ASSUME UnitInv, phase # "read", NEW i \in Lines, unit[i].k = "enddo", unit[i].lab # 0,
         NEW P, NEW h, LoopStack(h, P, DoHeads(i)), NEW N \in Nat, N = Len(h.loops)
  PROVE  Ending(h.loops, unit[i].lab) = 0
<1>1. PICK s, l : s = h.loops /\ l = unit[i].lab
  OBVIOUS
<1>2. Ends(i) = {unit[i].of} /\ unit[unit[i].of].to[1] >= FirstLoopLabel
  BY Continuing
<1>3. ~ (l >= FirstLoopLabel)
  BY <1>1, UnitTypes, LabelNumbers DEF UnitInv
<1>4. \A d \in Lines : unit[d].k = "do" => unit[d].to[1] # l
  <2> SUFFICES ASSUME NEW d \in Lines, unit[d].k = "do", unit[d].to[1] = l PROVE FALSE
    OBVIOUS
  <2>1. d \in Ends(i)
    BY <1>1 DEF Ends
  <2> QED BY <1>2, <1>3, <2>1
<1>5. LoopsAt(i) = DoHeads(i)
  BY DEF LoopsAt
<1>6. \A m \in 1..N : s[m].label # l
  <2>1. \A m \in 1..N : s[m].line \in Lines /\ unit[s[m].line].k = "do" /\ s[m].label = unit[s[m].line].to[1]
    BY <1>1, <1>5, EndsInnermost DEF InnerLoops
  <2> QED BY <1>4, <2>1
<1>7. 0 \in 0..N /\ \A m \in 1..N : s[m].label = l <=> m > N - 0
  BY <1>6
<1> QED BY <1>1, <1>7, EndingIs DEF LastLabels

(* Ending them one after the other translates the whole line.               *)
LEMMA LoopsClosed ==
  ASSUME UnitInv, phase # "read", NEW i \in Lines, NEW g, NEW P, Translated(g, P, i), NEW h, Part(g, h, P, i, {}),
         NEW s, s = h.loops, NEW N \in Nat, N = Len(s), NEW k \in 0..N, \A m \in 1..N : s[m].line \in Ends(i) <=> m > N - k,
         NEW c, c[0] = h, \A n \in 1..N : c[n] = ForLoopEnd(c[n - 1])
  PROVE  Part(g, c[k], P, i, Ends(i))
<1> DEFINE R(n) == {s[m].line : m \in (N - n + 1)..N}
           B == {n \in 0..k : /\ Part(g, c[n], P, i, R(n)) /\ Len(c[n].loops) = N - n
                              /\ \A m \in 1..(N - n) : c[n].loops[m] = s[m]}
<1>1. LoopStack(h, P, LoopsAt(i))
  <2>1. LoopsAt(i) \ {} = LoopsAt(i)
    OBVIOUS
  <2> QED BY <2>1 DEF Part
<1>2. /\ \A m \in 1..N : s[m].line \in Nat /\ \A q \in 1..(m - 1) : s[q].line < s[m].line
      /\ \A d \in LoopsAt(i) : \E m \in 1..N : s[m].line = d
      /\ Ends(i) \subseteq LoopsAt(i)
  <2>1. InnerLoops(i, s, N)
    BY <1>1, EndsInnermost
  <2> QED BY <2>1 DEF InnerLoops
<1>3. R(0) = {}
  OBVIOUS
<1>4. 0 \in B
  <2>1. Part(g, c[0], P, i, R(0))
    BY <1>3
  <2>2. N - 0 = N /\ 0 \in 0..k
    OBVIOUS
  <2> HIDE DEF R
  <2> QED BY <2>1, <2>2
<1>5. ASSUME NEW n \in 1..k, n - 1 \in B PROVE n \in B
  <2>1. PICK p, b : p = N - n + 1 /\ b = n - 1
    OBVIOUS
  <2>2. n \in 0..k /\ b \in 0..k /\ p \in 1..N /\ p \in Nat \ {0} /\ p > N - k /\ N - b = p /\ N - n = p - 1 /\ N - b + 1 = p + 1 /\ n \in 1..N
    BY ONLY <2>1, n \in 1..k, k \in 0..N, N \in Nat
  <2>3. PICK f : f = c[b]
    OBVIOUS
  <2>4. Part(g, f, P, i, R(b)) /\ Len(f.loops) = p /\ \A m \in 1..p : f.loops[m] = s[m]
    <3>1. b \in B
      BY <1>5, <2>1
    <3> HIDE DEF R
    <3>2. /\ Part(g, c[b], P, i, R(b)) /\ Len(c[b].loops) = N - b
          /\ \A m \in 1..(N - b) : c[b].loops[m] = s[m]
      BY <3>1
    <3> HIDE DEF B
    <3> QED BY <2>2, <2>3, <3>2
  <2>5. R(b) = {s[m].line : m \in (p + 1)..N}
    BY <2>2
  <2>6. R(n) = {s[m].line : m \in p..N}
    BY <2>1
  <2>7. PICK x : x = s[p].line
    OBVIOUS
  <2>8. PICK Q : Q = R(b)
    OBVIOUS
  <2>9. \A y \in Q : \E m \in (p + 1)..N : y = s[m].line
    BY <2>5, <2>8
  <2>10. \A m \in (p + 1)..N : s[m].line \in Q
    BY <2>5, <2>8
  <2>11. R(n) = Q \cup {x}
    <3>1. \A m \in p..N : m = p \/ m \in (p + 1)..N
      BY <2>2
    <3>2. \A m \in (p + 1)..N : m \in p..N
      BY <2>2
    <3>3. p \in p..N
      BY <2>2
    <3>4. \A y : y \in R(n) <=> \E m \in p..N : y = s[m].line
      BY <2>6
    <3> HIDE DEF R
    <3>5. \A y : y \in R(n) => y \in Q \cup {x}
      BY <2>7, <2>10, <3>1, <3>4
    <3>6. \A y : y \in Q \cup {x} => y \in R(n)
      BY <2>7, <2>9, <3>2, <3>3, <3>4
    <3> QED BY <3>5, <3>6
  <2> HIDE DEF R, B
  <2>12. \A m \in (p + 1)..N : m \in 1..N /\ m > N - k /\ p \in 1..(m - 1)
    BY <2>2
  <2>13. Q \subseteq Ends(i) /\ x \in Ends(i) /\ \A y \in Q : x < y
    <3>1. ASSUME NEW y \in Q PROVE y \in Ends(i) /\ x < y
      <4>1. PICK m \in (p + 1)..N : y = s[m].line
        BY <2>9
      <4>2. m \in 1..N /\ m > N - k /\ p \in 1..(m - 1)
        BY <2>12
      <4> QED BY <1>2, <2>7, <4>1, <4>2
    <3> QED BY <2>2, <2>7, <3>1
  <2>14. x \in Nat /\ x \notin Q
    <3>1. x \in Nat
      BY <1>2, <2>2, <2>7
    <3> QED BY <2>13, <3>1
  <2>15. ASSUME NEW y \in Ends(i) \ Q PROVE y <= x
    <3>1. PICK m \in 1..N : s[m].line = y
      BY <1>2
    <3>2. m \notin (p + 1)..N
      BY <2>10, <3>1
    <3>3. m = p \/ m \in 1..(p - 1)
      BY ONLY <2>2, <3>2, m \in 1..N
    <3>4. y = x \/ y < x
      BY <1>2, <2>2, <2>7, <3>1, <3>3
    <3>5. y \in Nat
      BY <1>2, <3>1
    <3> QED BY <2>14, <3>4, <3>5
  <2>16. /\ Part(g, ForLoopEnd(f), P, i, Q \cup {x})
         /\ Len(ForLoopEnd(f).loops) = p - 1
         /\ \A m \in 1..(p - 1) : ForLoopEnd(f).loops[m] = f.loops[m]
    <3>1. x \in Ends(i) \ Q /\ Part(g, f, P, i, Q)
      BY <2>4, <2>8, <2>13, <2>14
    <3>2. OneEnded(g, f, ForLoopEnd(f), P, i, Q \cup {x})
      BY <2>13, <2>15, <3>1, LoopEndPart
    <3> QED BY <2>4, <3>2 DEF OneEnded
  <2>17. c[n] = ForLoopEnd(f)
    BY <2>1, <2>2, <2>3
  <2>18. \A m \in 1..(p - 1) : m \in 1..p
    BY <2>2
  <2>19. Part(g, c[n], P, i, R(n)) /\ Len(c[n].loops) = N - n /\ \A m \in 1..(N - n) : c[n].loops[m] = s[m]
    BY <2>2, <2>4, <2>11, <2>16, <2>17, <2>18
  <2> QED BY <2>2, <2>19 DEF B
<1> HIDE DEF B
<1>6. \A n \in 0..k : n \in B
  <2>1. k \in Nat
    OBVIOUS
  <2> QED BY <1>4, <1>5, <2>1, UpTo
<1>7. k \in B
  BY <1>6
<1>8. R(k) = Ends(i)
  <2>1. \A m \in (N - k + 1)..N : m \in 1..N /\ m > N - k
    OBVIOUS
  <2>2. \A m \in 1..N : m > N - k => m \in (N - k + 1)..N
    OBVIOUS
  <2>3. \A d \in R(k) : d \in Ends(i)
    BY <2>1
  <2>4. ASSUME NEW d \in Ends(i) PROVE d \in R(k)
    <3>1. PICK m \in 1..N : s[m].line = d
      BY <1>2
    <3>2. m \in (N - k + 1)..N
      BY <2>2, <2>4, <3>1
    <3> QED BY <3>1, <3>2
  <2> HIDE DEF R
  <2> QED BY <2>3, <2>4
<1> HIDE DEF R
<1> QED BY <1>7, <1>8 DEF B

(* A placeholder.                                                            *)
HoleAdded(g, h) ==
  /\ h \in GenType /\ Like(g, h) /\ h.labels = g.labels /\ Len(h.code) = Where(g) /\ Where(g) \in Nat \ {0}
  /\ ~ (h.code # <<>> /\ Last(h.code).op = "return")
(* The placeholder of a label.                                              *)
LEMMA HoleIsAdded ==
  ASSUME NEW g \in GenType
  PROVE  HoleAdded(g, Puts(g, <<Hole>>))
<1>1. PICK h, w, s : h = Puts(g, <<Hole>>) /\ w = Where(g) /\ s = <<Hole>>
  OBVIOUS
<1>2. s \in Seq(InstrType) /\ Len(s) = 1 /\ s[1] = Hole /\ Hole.op = "unused"
  BY <1>1, HoleIs
<1>3. PICK one \in Nat \ {0} : one = 1
  OBVIOUS
<1>4. Appended(g, h, s, w, one)
  BY <1>1, <1>2, <1>3, CodePuts
<1>5. /\ h \in GenType /\ Len(h.code) = w - 1 + one /\ w \in Nat \ {0} /\ Len(g.code) <= Len(h.code)
      /\ \A q \in 1..(w - 1) : h.code[q] = g.code[q]
      /\ Last(h.code).op = "unused" /\ Where(h) = w - 1 + one
      /\ h.labels = g.labels /\ h.loops = g.loops /\ h.blocks = g.blocks /\ h.next = g.next /\ h.max = g.max
  BY <1>2, <1>3, <1>4 DEF Appended
<1>6. w - 1 + one = w
  BY <1>3, <1>5
<1> QED BY <1>1, <1>5, <1>6 DEF HoleAdded, Like

(* A label.                                                                  *)
LabelSet(d, r, l, w) ==
  /\ r \in GenType /\ Like(d, r) /\ r.code = d.code /\ r.range = d.range
  /\ DOMAIN r.labels = DOMAIN d.labels \cup {l} /\ r.labels[l] = w
  /\ \A x \in DOMAIN d.labels : x # l => r.labels[x] = d.labels[x]
(* Noting where a label is.                                                 *)
LEMMA LabelIsSet ==
  ASSUME NEW d \in GenType, NEW l \in Nat, NEW w \in Nat, NEW j \in Nat
  PROVE  /\ LabelSet(d, [d EXCEPT !.labels = Placed(@, l, w)], l, w)
         /\ LabelSet(d, [[d EXCEPT !.labels = Placed(@, l, w)] EXCEPT !.line = j], l, w)
<1>1. PICK L : L = d.labels
  OBVIOUS
<1>2. PICK D \in SUBSET Nat : L \in [D -> Nat]
  BY <1>1 DEF GenType
<1>3. PICK M : M = Placed(L, l, w)
  OBVIOUS
<1>4. /\ M \in [D \cup {l} -> Nat] /\ M[l] = w /\ \A x \in D : x # l => M[x] = L[x]
  <2>1. M = [x \in D \cup {l} |-> IF x = l THEN w ELSE L[x]]
    BY <1>2, <1>3 DEF Placed
  <2>2. \A x \in D \cup {l} : M[x] = IF x = l THEN w ELSE L[x]
    BY <2>1
  <2>3. DOMAIN M = D \cup {l} /\ M = [x \in D \cup {l} |-> M[x]]
    BY <2>1
  <2>4. \A x \in D \cup {l} : M[x] \in Nat
    BY <1>2, <2>2
  <2> QED BY <2>2, <2>3, <2>4
<1>5. PICK e : e = [d EXCEPT !.labels = M]
  OBVIOUS
<1>6. /\ e \in GenType /\ e.code = d.code /\ e.loops = d.loops /\ e.blocks = d.blocks /\ e.next = d.next /\ e.max = d.max
      /\ e.labels = M /\ e.range = d.range
  <2>1. M \in UNION {[E -> Nat] : E \in SUBSET Nat}
    BY <1>4
  <2> QED BY <1>5, <2>1 DEF GenType
<1>7. PICK r : r = [e EXCEPT !.line = j]
  OBVIOUS
<1>8. /\ r \in GenType /\ r.code = e.code /\ r.loops = e.loops /\ r.blocks = e.blocks /\ r.next = e.next /\ r.max = e.max
      /\ r.labels = e.labels /\ r.range = e.range
  BY <1>6, <1>7 DEF GenType
<1>9. Where(e) = Where(d) /\ Where(r) = Where(d) /\ Len(d.code) <= Len(d.code)
  BY <1>6, <1>8, CodeAt DEF Where
<1>10. DOMAIN M = D \cup {l} /\ DOMAIN L = D
  BY <1>2, <1>4
<1>11. LabelSet(d, e, l, w) /\ LabelSet(d, r, l, w)
  BY <1>1, <1>4, <1>6, <1>8, <1>9, <1>10 DEF LabelSet, Like
<1>12. e = [d EXCEPT !.labels = Placed(@, l, w)]
  BY <1>1, <1>3, <1>5, Zenon
<1> QED BY <1>7, <1>11, <1>12

(* A line whose label comes before its statement.                            *)
LEMMA LabelledLine ==
  ASSUME UnitInv, phase # "read", NEW i \in Lines, unit[i].k # "end", NEW g, NEW P, Translated(g, P, i),
         NEW l \in Nat \ {0}, NEW x,
         \/ x = i /\ l = unit[i].lab /\ unit[i].k # "enddo"
         \/ x = 0 /\ unit[i].k = "enddo" /\ l = unit[unit[i].of].to[1],
         unit[i].k # "endif",
         unit[i].k = "enddo" /\ unit[i].lab # 0 => unit[i].lab \in DOMAIN g.labels /\ g.labels[unit[i].lab] = P[i]
  PROVE  \E Q : Translated([Labelled(g, l, x) EXCEPT !.line = i + 1], Q, i + 1)
<1>1. Sound(g) /\ g \in GenType /\ P[i] = Where(g) /\ i \in Nat \ {0}
  BY LineIs DEF Translated, Sound
<1>2. PICK h : h = Puts(g, <<Hole>>)
  OBVIOUS
<1>3. HoleAdded(g, h)
  BY <1>1, <1>2, HoleIsAdded
<1>4. /\ h \in GenType /\ Like(g, h) /\ h.labels = g.labels /\ Len(h.code) = P[i] /\ P[i] \in Nat \ {0}
      /\ ~ (h.code # <<>> /\ Last(h.code).op = "return")
  BY <1>1, <1>3 DEF HoleAdded
<1>5. Translated(h, P, i)
  <2>1. Len(g.code) <= Len(h.code) /\ Len(g.code) \in Nat /\ Len(h.code) \in Nat
    BY <1>1, <1>4, CodeAt DEF Like
  <2>2. LabelsFit(h)
    <3>1. \A y \in DOMAIN g.labels : y # 0 /\ g.labels[y] \in 1..Len(g.code)
      BY <1>1 DEF Sound
    <3>2. \A y \in 1..Len(g.code) : y \in 1..Len(h.code)
      BY <2>1
    <3> QED BY <1>4, <3>1, <3>2 DEF LabelsFit
  <2>3. LabelsStay(g, h, i)
    BY <1>4 DEF LabelsStay
  <2> QED BY <1>4, <2>2, <2>3, TranslatedLike
<1>6. PICK f : f = IF x = 0 THEN h ELSE Statement(h, i)
  OBVIOUS
<1>7. Part(h, f, P, i, {})
  <2>1. CASE x = i
    <3>1. f = Statement(h, i)
      BY <1>1, <1>6, <2>1
    <3> QED BY <1>4, <1>5, <3>1, StatementPart
  <2>2. CASE x = 0
    <3>1. f = h /\ unit[i].k = "enddo"
      BY <1>1, <1>6, <2>2
    <3>2. Part(h, h, P, i, {})
      BY <1>4, <1>5, <3>1, NothingPart
    <3> QED BY <3>1, <3>2
  <2> QED BY <2>1, <2>2
<1>8. PICK N \in Nat : N = Len(f.loops)
  BY <1>7 DEF Part, Sound, GenType
<1>22. PICK c : LabelledBy(g, l, x, h, f, N, c)
  BY <1>2, <1>6, <1>8, LabelledIs
<1>9. /\ c[0] = f /\ \A n \in 1..N : c[n] = ForLoopEnd(c[n - 1])
      /\ Labelled(g, l, x) = [c[Ending(f.loops, l)] EXCEPT !.labels = Placed(@, l, Len(h.code))]
  BY <1>22, Zenon DEF LabelledBy
<1>10. PICK k : k = Ending(f.loops, l)
  OBVIOUS
<1>11. k \in 0..N /\ \A m \in 1..N : f.loops[m].line \in Ends(i) <=> m > N - k
  <2>1. LoopsAt(i) \ {} = LoopsAt(i)
    OBVIOUS
  <2>2. LoopStack(f, P, LoopsAt(i))
    BY <1>7, <2>1 DEF Part
  <2> QED BY <1>8, <1>10, <2>2, EndingHere
<1>12. Part(h, c[k], P, i, Ends(i))
  <2>1. PICK s : s = f.loops
    OBVIOUS
  <2>2. \A m \in 1..N : s[m].line \in Ends(i) <=> m > N - k
    BY <1>11, <2>1
  <2>3. c[0] = f /\ \A n \in 1..N : c[n] = ForLoopEnd(c[n - 1])
    BY <1>9
  <2>4. N = Len(s) /\ k \in 0..N
    BY <1>8, <1>11, <2>1
  <2> QED BY <1>5, <1>7, <2>1, <2>2, <2>3, <2>4, LoopsClosed, Zenon
<1>13. PICK d, w : d = c[k] /\ w = P[i]
  OBVIOUS
<1>14. PICK r : r = [Labelled(g, l, x) EXCEPT !.line = i + 1]
  OBVIOUS
<1>15. d \in GenType /\ Sound(d) /\ Len(h.code) <= Len(d.code) /\ d.labels = g.labels
       /\ (d.code # <<>> /\ Last(d.code).op = "return" => unit[i].k = "return" \/ Empty(i))
  BY <1>4, <1>12, <1>13 DEF Part, Sound
<1>16. LabelSet(d, r, l, w)
  <2>1. r = [[d EXCEPT !.labels = Placed(@, l, w)] EXCEPT !.line = i + 1]
    BY <1>4, <1>9, <1>10, <1>13, <1>14
  <2>2. l \in Nat /\ w \in Nat /\ i + 1 \in Nat
    BY <1>1, <1>4, <1>13
  <2> QED BY <1>15, <2>1, <2>2, LabelIsSet, Zenon
<1>17. LabelsFit(r)
  <2>1. w \in 1..Len(d.code)
    <3>1. Len(d.code) \in Nat
      BY <1>15, CodeAt
    <3> QED BY <1>4, <1>13, <1>15, <3>1
  <2>2. \A y \in DOMAIN d.labels : y # 0 /\ d.labels[y] \in 1..Len(d.code)
    BY <1>15 DEF Sound
  <2> QED BY <1>16, <2>1, <2>2 DEF LabelSet, LabelsFit
<1>18. \A j \in 1..(i - 1) : unit[j].lab # 0 => unit[j].lab # l
  <2>1. \A j \in 1..(i - 1) : j \in Lines /\ j # i
    BY LineIs
  <2>2. CASE l = unit[i].lab
    BY <2>1, <2>2 DEF UnitInv, Labelling, LabelsOK
  <2>3. CASE unit[i].k = "enddo" /\ l = unit[unit[i].of].to[1]
    <3>1. l >= FirstLoopLabel
      BY <2>3, Continuing
    <3> QED BY <2>1, <3>1, UnitTypes, LabelNumbers DEF UnitInv
  <2> QED BY <2>2, <2>3
<1>19. LabelsStay(h, r, i)
  BY <1>4, <1>15, <1>16, <1>18 DEF LabelsStay, LabelSet
<1>20. unit[i].lab # 0 => unit[i].lab \in DOMAIN r.labels /\ r.labels[unit[i].lab] = P[i]
  <2>1. CASE l = unit[i].lab
    BY <1>13, <1>16, <2>1 DEF LabelSet
  <2>2. CASE unit[i].k = "enddo" /\ l = unit[unit[i].of].to[1]
    <3>1. l >= FirstLoopLabel
      BY <2>2, Continuing
    <3>2. unit[i].lab # l
      BY <3>1, UnitTypes, LabelNumbers DEF UnitInv
    <3> QED BY <1>15, <1>16, <2>2, <3>2 DEF LabelSet
  <2> QED BY <2>1, <2>2
<1>21. Translated(r, Longer(P, i, Where(d)), i + 1)
  <2>1. Like(d, r) /\ r.code = d.code
    BY <1>16 DEF LabelSet
  <2>2. Part(h, d, P, i, Ends(i))
    BY <1>12, <1>13
  <2>3. unit[i].lab # 0 => unit[i].lab \in DOMAIN r.labels /\ r.labels[unit[i].lab] = (IF unit[i].k = "endif" THEN Where(d) ELSE P[i])
    BY <1>20
  <2>4. r.code # <<>> /\ Last(r.code).op = "return" => unit[i].k = "return" \/ Empty(i)
    BY <1>15, <2>1
  <2> QED BY <1>5, <1>17, <1>19, <2>1, <2>2, <2>3, <2>4, Advance
<1> QED BY <1>14, <1>21

(* Going on to another line changes nothing else.                           *)
LEMMA Moved ==
  ASSUME NEW d \in GenType, NEW j \in Nat
  PROVE  /\ [d EXCEPT !.line = j] \in GenType /\ Like(d, [d EXCEPT !.line = j]) /\ [d EXCEPT !.line = j].labels = d.labels
         /\ [d EXCEPT !.line = j].code = d.code /\ [d EXCEPT !.line = j].range = d.range
<1>1. PICK r : r = [d EXCEPT !.line = j]
  OBVIOUS
<1>2. /\ r \in GenType /\ r.code = d.code /\ r.loops = d.loops /\ r.blocks = d.blocks /\ r.next = d.next /\ r.max = d.max
      /\ r.labels = d.labels /\ r.range = d.range
  BY <1>1 DEF GenType
<1>3. Where(r) = Where(d) /\ Len(d.code) <= Len(d.code)
  BY <1>2, CodeAt DEF Where
<1>4. Like(d, r)
  BY <1>2, <1>3 DEF Like
<1> QED BY <1>1, <1>2, <1>4

(* A line without a label, or an ENDIF with one.                             *)
LEMMA UnlabelledLine ==
  ASSUME UnitInv, phase # "read", NEW i \in Lines, unit[i].k \notin {"end", "enddo"}, NEW g, NEW P, Translated(g, P, i), unit[i].lab = 0
  PROVE  \E Q : Translated([Statement(g, i) EXCEPT !.line = i + 1], Q, i + 1)
<1>1. i \in Nat \ {0} /\ Sound(g) /\ g \in GenType
  BY LineIs DEF Translated, Sound
<1>2. unit[i].k = "continue" => ~ (g.code # <<>> /\ Last(g.code).op = "return")
  <2> SUFFICES ASSUME unit[i].k = "continue", g.code # <<>>, Last(g.code).op = "return" PROVE FALSE
    OBVIOUS
  <2>1. i > 1 /\ (unit[i - 1].k = "return" \/ Empty(i - 1))
    BY DEF Translated
  <2>2. PICK j : j = i - 1
    OBVIOUS
  <2>3. j \in Lines /\ j + 1 = i
    BY <1>1, <2>1, <2>2, LineIs
  <2>4. CASE unit[j].k = "return"
    BY <2>3, <2>4 DEF UnitInv, AfterReturn
  <2>5. CASE Empty(j)
    BY <2>3, <2>5 DEF Empty
  <2> QED BY <2>1, <2>2, <2>4, <2>5
<1>3. PICK h, r : h = Statement(g, i) /\ r = [h EXCEPT !.line = i + 1]
  OBVIOUS
<1>4. Ends(i) = {}
  BY DEF Ends, UnitInv, Labelling, LabelsOK
<1>5. Part(g, h, P, i, Ends(i))
  BY <1>2, <1>3, <1>4, StatementPart
<1>6. h \in GenType /\ Sound(h) /\ h.labels = g.labels /\ (h.code # <<>> /\ Last(h.code).op = "return" => unit[i].k = "return" \/ Empty(i))
  BY <1>5 DEF Part, Sound
<1>7. r \in GenType /\ Like(h, r) /\ r.labels = h.labels /\ r.code = h.code
  BY <1>1, <1>3, <1>6, Moved
<1>8. LabelsFit(r) /\ LabelsStay(g, r, i)
  BY <1>6, <1>7 DEF LabelsFit, LabelsStay, Sound
<1>9. Translated(r, Longer(P, i, Where(h)), i + 1)
  BY <1>5, <1>6, <1>7, <1>8, Advance
<1> QED BY <1>3, <1>9

(* An ENDIF with a label.                                                   *)
LEMMA LabelledEndIf ==
  ASSUME UnitInv, phase # "read", NEW i \in Lines, unit[i].k = "endif", NEW g, NEW P, Translated(g, P, i), unit[i].lab # 0
  PROVE  \E Q : Translated([Labelled(Statement(g, i), unit[i].lab, 0) EXCEPT !.line = i + 1], Q, i + 1)
<1>1. i \in Nat \ {0} /\ Sound(g) /\ g \in GenType /\ unit[i].lab \in Nat
  BY LineIs, UnitTypes, LabelNumbers DEF Translated, Sound, UnitInv
<1>2. PICK s, h, l : s = Statement(g, i) /\ h = Puts(s, <<Hole>>) /\ l = unit[i].lab
  OBVIOUS
<1>3. Ends(i) = {} /\ LoopsAt(i) \ {} = LoopsAt(i)
  BY HeadsAfter
<1>4. Part(g, s, P, i, Ends(i))
  BY <1>2, <1>3, StatementPart
<1>5. s \in GenType /\ Sound(s) /\ s.labels = g.labels /\ LoopStack(s, P, LoopsAt(i))
  BY <1>3, <1>4 DEF Part, Sound
<1>6. HoleAdded(s, h)
  BY <1>2, <1>5, HoleIsAdded
<1>7. /\ h \in GenType /\ Like(s, h) /\ h.labels = s.labels /\ Len(h.code) = Where(s) /\ Where(s) \in Nat \ {0}
      /\ ~ (h.code # <<>> /\ Last(h.code).op = "return") /\ h.loops = s.loops
  BY <1>6 DEF HoleAdded, Like
<1>8. PICK N \in Nat : N = Len(h.loops)
  <2>1. h.loops \in Seq(LoopType)
    BY ONLY <1>7 DEF GenType
  <2> QED BY <2>1
<1>9. PICK f : f = IF 0 = 0 THEN h ELSE Statement(h, 0)
  OBVIOUS
<1>10. f = h
  BY <1>9
<1>11. PICK c : LabelledBy(s, l, 0, h, f, N, c)
  <2>1. N = Len(f.loops)
    BY <1>8, <1>10
  <2> QED BY <1>2, <1>9, <2>1, LabelledIs
<1>12. /\ c[0] = h
       /\ Labelled(s, l, 0) = [c[Ending(h.loops, l)] EXCEPT !.labels = Placed(@, l, Len(h.code))]
  BY <1>10, <1>11, Zenon DEF LabelledBy
<1>13. Ending(h.loops, l) = 0
  <2>1. Ending(s.loops, l) \in 0..N /\ \A m \in 1..N : s.loops[m].line \in Ends(i) <=> m > N - Ending(s.loops, l)
    BY <1>2, <1>5, <1>7, <1>8, EndingHere
  <2>2. PICK k \in 0..N : k = Ending(s.loops, l)
    BY <2>1
  <2>3. k = 0 \/ (N \in 1..N /\ N > N - k)
    OBVIOUS
  <2> QED BY <1>3, <1>7, <2>1, <2>2, <2>3
<1>14. PICK w, r : w = Where(s) /\ r = [Labelled(s, l, 0) EXCEPT !.line = i + 1]
  OBVIOUS
<1>15. LabelSet(h, r, l, w)
  <2>1. r = [[h EXCEPT !.labels = Placed(@, l, w)] EXCEPT !.line = i + 1]
    BY <1>7, <1>12, <1>13, <1>14
  <2>2. l \in Nat /\ w \in Nat /\ i + 1 \in Nat
    BY <1>1, <1>2, <1>7, <1>14
  <2> QED BY <1>7, <2>1, <2>2, LabelIsSet, Zenon
<1>16. LabelsFit(r)
  <2>1. \A y \in DOMAIN s.labels : y # 0 /\ s.labels[y] \in 1..Len(s.code)
    BY <1>5 DEF Sound
  <2>2. Len(s.code) <= Len(h.code) /\ Len(s.code) \in Nat /\ Len(h.code) \in Nat
    BY <1>5, <1>7, CodeAt DEF Like
  <2>3. \A y \in 1..Len(s.code) : y \in 1..Len(h.code)
    BY <2>2
  <2>4. w \in 1..Len(h.code)
    BY <1>7, <1>14, <2>2
  <2> QED BY <1>2, <1>7, <1>15, <2>1, <2>3, <2>4 DEF LabelSet, LabelsFit
<1>17. LabelsStay(g, r, i)
  <2>1. \A j \in 1..(i - 1) : unit[j].lab # 0 => unit[j].lab # l
    <3>1. \A j \in 1..(i - 1) : j \in Lines /\ j # i
      BY LineIs
    <3> QED BY <1>2, <3>1 DEF UnitInv, Labelling, LabelsOK
  <2> QED BY <1>5, <1>7, <1>15, <2>1 DEF LabelsStay, LabelSet
<1>18. Like(s, r)
  <2>1. Like(h, r) /\ r \in GenType
    BY <1>15 DEF LabelSet
  <2>2. Where(h) = Where(s) /\ Len(s.code) <= Len(h.code) /\ Len(h.code) <= Len(r.code) /\ Where(r) = Where(h)
    BY <1>7, <2>1 DEF Like
  <2>3. Len(s.code) \in Nat /\ Len(h.code) \in Nat /\ Len(r.code) \in Nat
    BY <1>5, <1>7, <2>1, CodeAt
  <2>4. Len(s.code) <= Len(r.code)
    BY <2>2, <2>3
  <2> QED BY <1>7, <2>1, <2>2, <2>4 DEF Like
<1>19. r.code = h.code
  BY <1>15 DEF LabelSet
<1>20. unit[i].lab # 0 => unit[i].lab \in DOMAIN r.labels /\ r.labels[unit[i].lab] = (IF unit[i].k = "endif" THEN Where(s) ELSE P[i])
  BY <1>2, <1>14, <1>15 DEF LabelSet
<1>21. Translated(r, Longer(P, i, Where(s)), i + 1)
  BY <1>4, <1>7, <1>16, <1>17, <1>18, <1>19, <1>20, Advance
<1> QED BY <1>2, <1>14, <1>21

(* The label of an ENDDO comes before the ends of its loops.                 *)
LEMMA LabelledEndDo ==
  ASSUME UnitInv, phase # "read", NEW i \in Lines, unit[i].k = "enddo", NEW g, NEW P, Translated(g, P, i), unit[i].lab # 0
  PROVE  \E Q : Translated([Labelled(Labelled(g, unit[i].lab, 0), unit[unit[i].of].to[1], 0) EXCEPT !.line = i + 1], Q, i + 1)
<1>1. i \in Nat \ {0} /\ Sound(g) /\ g \in GenType /\ unit[i].lab \in Nat /\ P[i] = Where(g)
  BY LineIs, UnitTypes, LabelNumbers DEF Translated, Sound, UnitInv
<1>2. PICK h, l : h = Puts(g, <<Hole>>) /\ l = unit[i].lab
  OBVIOUS
<1>3. LoopStack(g, P, DoHeads(i))
  BY DEF Translated
<1>4. HoleAdded(g, h)
  BY <1>1, <1>2, HoleIsAdded
<1>5. /\ h \in GenType /\ Like(g, h) /\ h.labels = g.labels /\ Len(h.code) = Where(g) /\ Where(g) \in Nat \ {0}
      /\ ~ (h.code # <<>> /\ Last(h.code).op = "return") /\ h.loops = g.loops
  BY <1>4 DEF HoleAdded, Like
<1>6. PICK N \in Nat : N = Len(h.loops)
  <2>1. h.loops \in Seq(LoopType)
    BY ONLY <1>5 DEF GenType
  <2> QED BY <2>1
<1>7. PICK f : f = IF 0 = 0 THEN h ELSE Statement(h, 0)
  OBVIOUS
<1>8. f = h
  BY <1>7
<1>9. PICK c : LabelledBy(g, l, 0, h, f, N, c)
  <2>1. N = Len(f.loops)
    BY <1>6, <1>8
  <2> QED BY <1>2, <1>7, <2>1, LabelledIs
<1>10. c[0] = h /\ Labelled(g, l, 0) = [c[Ending(h.loops, l)] EXCEPT !.labels = Placed(@, l, Len(h.code))]
  BY <1>8, <1>9, Zenon DEF LabelledBy
<1>11. Ending(h.loops, l) = 0
  BY <1>2, <1>3, <1>5, <1>6, EndingNone
<1>12. PICK w, r : w = Where(g) /\ r = Labelled(g, l, 0)
  OBVIOUS
<1>13. LabelSet(h, r, l, w)
  <2>1. r = [h EXCEPT !.labels = Placed(@, l, w)]
    BY <1>5, <1>10, <1>11, <1>12
  <2>2. l \in Nat /\ w \in Nat
    BY <1>1, <1>2, <1>5, <1>12
  <2>3. 0 \in Nat
    OBVIOUS
  <2> QED BY <1>5, <2>1, <2>2, <2>3, LabelIsSet, Zenon
<1>14. LabelsFit(r)
  <2>1. \A y \in DOMAIN g.labels : y # 0 /\ g.labels[y] \in 1..Len(g.code)
    BY <1>1 DEF Sound
  <2>2. Len(g.code) <= Len(h.code) /\ Len(g.code) \in Nat /\ Len(h.code) \in Nat
    BY <1>1, <1>5, CodeAt DEF Like
  <2>3. \A y \in 1..Len(g.code) : y \in 1..Len(h.code)
    BY <2>2
  <2>4. w \in 1..Len(h.code)
    BY <1>5, <1>12, <2>2
  <2> QED BY <1>2, <1>5, <1>13, <2>1, <2>3, <2>4 DEF LabelSet, LabelsFit
<1>15. LabelsStay(g, r, i)
  <2>1. \A j \in 1..(i - 1) : unit[j].lab # 0 => unit[j].lab # l
    <3>1. \A j \in 1..(i - 1) : j \in Lines /\ j # i
      BY LineIs
    <3> QED BY <1>2, <3>1 DEF UnitInv, Labelling, LabelsOK
  <2> QED BY <1>5, <1>13, <2>1 DEF LabelsStay, LabelSet
<1>16. r.code = h.code /\ Like(h, r) /\ r \in GenType
  BY <1>13 DEF LabelSet
<1>17. Like(g, r)
  <2>1. Where(h) = Where(g) /\ Len(g.code) <= Len(h.code) /\ Len(h.code) <= Len(r.code) /\ Where(r) = Where(h)
    BY <1>5, <1>16 DEF Like
  <2>2. Len(g.code) \in Nat /\ Len(h.code) \in Nat /\ Len(r.code) \in Nat
    BY <1>1, <1>5, <1>16, CodeAt
  <2>3. Len(g.code) <= Len(r.code)
    BY <2>1, <2>2
  <2> QED BY <1>5, <1>16, <2>1, <2>3 DEF Like
<1>18. Translated(r, P, i)
  BY <1>5, <1>14, <1>15, <1>16, <1>17, TranslatedLike
<1>19. unit[i].lab \in DOMAIN r.labels /\ r.labels[unit[i].lab] = P[i]
  BY <1>1, <1>2, <1>12, <1>13 DEF LabelSet
<1>20. PICK m : m = unit[unit[i].of].to[1]
  OBVIOUS
<1>21. m \in Nat \ {0}
  <2>1. m >= FirstLoopLabel /\ Ends(i) = {unit[i].of}
    BY <1>20, Continuing
  <2>2. unit[i].of \in Lines /\ unit[unit[i].of].k = "do"
    BY <2>1 DEF Ends
  <2>3. m = FirstLoopLabel + unit[i].of - 1 /\ unit[i].of \in Nat /\ FirstLoopLabel \in Nat \ {0}
    BY <1>20, <2>1, <2>2, LabelNumbers, LineIs DEF UnitInv, Labelling, LabelsOK
  <2> QED BY <2>1, <2>3
<1>22. \E Q : Translated([Labelled(r, m, 0) EXCEPT !.line = i + 1], Q, i + 1)
  BY <1>18, <1>19, <1>20, <1>21, LabelledLine
<1> QED BY <1>2, <1>12, <1>20, <1>22

(* What end_emit appends at w, for the END on line i.                        *)
Handled(c, i, w) ==
  /\ c[w] = [Instr("goto", i) EXCEPT !.to = w + 4] /\ c[w + 1] = Instr("catch", i)
  /\ c[w + 2] = [Instr("goto", i) EXCEPT !.to = w + 4] /\ c[w + 3] = Instr("catch", i)
EndCode(h, i, w) ==
  \/ ~ reflect /\ Len(h.code) = w - 1
  \/ ~ reflect /\ Len(h.code) = w /\ h.code[w] = Instr("return", i)
  \/ /\ reflect /\ Len(h.code) = w + 4 /\ Handled(h.code, i, w) /\ h.code[w + 4] = Instr("return", i)
     /\ h.range = [from |-> 1, to |-> w, at |-> {w + 1, w + 3}]
UnitEnded(g, h, i, w) ==
  /\ h \in GenType /\ w \in Nat \ {0} /\ \A q \in 1..(w - 1) : h.code[q] = g.code[q]
  /\ h.code # <<>> /\ Last(h.code).op = "return" /\ EndCode(h, i, w)
  /\ h.labels = g.labels /\ h.loops = g.loops /\ h.blocks = g.blocks /\ h.next = g.next /\ h.max = g.max

(* The handlers of reflective calls.                                         *)
HandlersAre(g, h, i, w) ==
  /\ h \in GenType /\ Len(h.code) = w + 4 /\ Where(h) = w + 4 /\ h.code # <<>> /\ Last(h.code).op = "unused"
  /\ \A q \in 1..(w - 1) : h.code[q] = g.code[q]
  /\ Handled(h.code, i, w) /\ h.range = [from |-> 1, to |-> w, at |-> {w + 1, w + 3}]
  /\ h.labels = g.labels /\ h.loops = g.loops /\ h.blocks = g.blocks /\ h.next = g.next /\ h.max = g.max
(* What invocation_exception_handler_emit appends.                          *)
LEMMA HandlersEmitted ==
  ASSUME NEW g \in GenType, NEW i \in Nat, NEW w \in Nat \ {0}, w = Where(g)
  PROVE  HandlersAre(g, Handlers(g, i), i, w)
<1>1. PICK x, y, s, a : x = Instr("goto", i) /\ y = Instr("catch", i) /\ s = <<x, y, x, y, Hole>> /\ a = Puts(g, s)
  OBVIOUS
<1>2. x \in InstrType /\ y \in InstrType /\ x.op = "goto"
  <2>1. "goto" \in Ops /\ "catch" \in Ops
    BY DEF Ops
  <2>2. x \in InstrType /\ y \in InstrType
    BY <1>1, <2>1, InstrTypes
  <2> QED BY <1>1, <2>2 DEF Instr
<1>3. /\ a \in GenType /\ Len(a.code) = w + 4 /\ Where(a) = w + 4 /\ \A q \in 1..(w - 1) : a.code[q] = g.code[q]
      /\ a.code[w] = x /\ a.code[w + 1] = y /\ a.code[w + 2] = x /\ a.code[w + 3] = y
      /\ a.code # <<>> /\ Last(a.code).op = "unused"
      /\ a.labels = g.labels /\ a.loops = g.loops /\ a.blocks = g.blocks /\ a.next = g.next /\ a.max = g.max
  <2>1. s \in Seq(InstrType) /\ Len(s) = 5 /\ s[1] = x /\ s[2] = y /\ s[3] = x /\ s[4] = y /\ s[5] = Hole
    BY <1>1, <1>2, HoleIs
  <2>2. PICK n \in Nat \ {0} : n = 5
    OBVIOUS
  <2>3. Appended(g, a, s, w, n)
    BY <1>1, <2>1, <2>2, CodePuts
  <2>4. /\ w - 1 + n = w + 4 /\ w - 1 + 1 = w /\ w - 1 + 2 = w + 1 /\ w - 1 + 3 = w + 2 /\ w - 1 + 4 = w + 3
        /\ 1 \in 1..n /\ 2 \in 1..n /\ 3 \in 1..n /\ 4 \in 1..n
    BY <2>2
  <2>5. a.code[w] = x /\ a.code[w + 1] = y /\ a.code[w + 2] = x /\ a.code[w + 3] = y
    <3>1. \A k \in 1..n : a.code[w - 1 + k] = s[k]
      BY ONLY <2>3 DEF Appended
    <3>2. a.code[w - 1 + 1] = s[1] /\ a.code[w - 1 + 2] = s[2] /\ a.code[w - 1 + 3] = s[3] /\ a.code[w - 1 + 4] = s[4]
      BY ONLY <2>4, <3>1
    <3> QED BY ONLY <2>1, <2>4, <3>2
  <2> QED BY <2>1, <2>2, <2>3, <2>4, <2>5, HoleIs DEF Appended
<1>4. PICK b, d, e : /\ b = [a EXCEPT !.code[w].to = w + 4] /\ d = [b EXCEPT !.code[w + 2].to = w + 4]
                     /\ e = [d EXCEPT !.range = [from |-> 1, to |-> w, at |-> {w + 1, w + 3}]]
  OBVIOUS
<1>5. w \in 1..(w + 4) /\ w + 1 \in 1..(w + 4) /\ w + 2 \in 1..(w + 4) /\ w + 3 \in 1..(w + 4) /\ w + 4 \in Nat
      /\ w # w + 2 /\ w + 1 # w /\ w + 1 # w + 2 /\ w + 3 # w /\ w + 3 # w + 2
      /\ \A q \in 1..(w - 1) : q \in 1..(w + 4) /\ q # w /\ q # w + 2
  OBVIOUS
<1>6. Fixed(a, b, w, w + 4)
  BY <1>3, <1>4, <1>5, CodeFixed
<1>7. b \in GenType /\ Len(b.code) = w + 4
  BY <1>3, <1>6 DEF Fixed
<1>8. Fixed(b, d, w + 2, w + 4)
  BY <1>4, <1>5, <1>7, CodeFixed
<1>9. /\ d \in GenType /\ Len(d.code) = w + 4 /\ Where(d) = w + 4 /\ \A q \in 1..(w - 1) : d.code[q] = g.code[q]
      /\ d.code # <<>> /\ Last(d.code).op = "unused"
      /\ d.labels = g.labels /\ d.loops = g.loops /\ d.blocks = g.blocks /\ d.next = g.next /\ d.max = g.max
  BY <1>3, <1>5, <1>6, <1>7, <1>8 DEF Fixed
<1>10. Handled(d.code, i, w)
  <2>1. b.code[w] = [x EXCEPT !.to = w + 4] /\ b.code[w + 1] = y /\ b.code[w + 2] = x /\ b.code[w + 3] = y
    <3>1. b.code[w] = [a.code[w] EXCEPT !.to = w + 4]
      BY <1>6, Zenon DEF Fixed
    <3>2. b.code[w] = [x EXCEPT !.to = w + 4]
      BY <1>3, <3>1, Zenon
    <3>3. b.code[w + 1] = y /\ b.code[w + 2] = x /\ b.code[w + 3] = y
      <4>1. \A q \in 1..(w + 4) : q # w => b.code[q] = a.code[q]
        BY <1>3, <1>6 DEF Fixed
      <4>2. b.code[w + 1] = a.code[w + 1] /\ b.code[w + 2] = a.code[w + 2] /\ b.code[w + 3] = a.code[w + 3]
        BY ONLY <1>5, <4>1
      <4> QED BY <1>3, <4>2
    <3> QED BY <3>2, <3>3
  <2>2. d.code[w + 2] = [b.code[w + 2] EXCEPT !.to = w + 4]
    BY <1>8, Zenon DEF Fixed
  <2>3. d.code[w + 2] = [x EXCEPT !.to = w + 4]
    BY <2>1, <2>2, Zenon
  <2>4. d.code[w] = b.code[w] /\ d.code[w + 1] = b.code[w + 1] /\ d.code[w + 3] = b.code[w + 3]
    BY <1>5, <1>7, <1>8 DEF Fixed
  <2>5. d.code[w] = [x EXCEPT !.to = w + 4]
    BY <2>1, <2>4, Zenon
  <2> QED BY <1>1, <2>1, <2>3, <2>4, <2>5, Zenon DEF Handled
<1>11. PICK R : R = [from |-> 1, to |-> w, at |-> {w + 1, w + 3}]
  OBVIOUS
<1>12. R \in [from : Nat, to : Nat, at : SUBSET Nat]
  BY <1>5, <1>11
<1>13. /\ e \in GenType /\ e.code = d.code /\ e.range = R
       /\ e.labels = d.labels /\ e.loops = d.loops /\ e.blocks = d.blocks /\ e.next = d.next /\ e.max = d.max
  <2>1. e = [d EXCEPT !.range = R] /\ R \in [from : Nat, to : Nat, at : SUBSET Nat] /\ d \in GenType
    BY <1>4, <1>9, <1>11, <1>12, Zenon
  <2> QED BY ONLY <2>1 DEF GenType
<1>14. Where(e) = Where(d)
  BY <1>13 DEF Where
<1>15. e = Handlers(g, i)
  <2>1. [a EXCEPT !.code[w].to = w + 4, !.code[w + 2].to = w + 4,
                  !.range = [from |-> 1, to |-> w, at |-> {w + 1, w + 3}]] = Handlers(g, i)
    BY <1>1, Zenon DEF Handlers
  <2> QED BY <1>4, <2>1, Zenon
<1> QED BY <1>9, <1>10, <1>11, <1>13, <1>14, <1>15 DEF HandlersAre

(* What end_emit appends.                                                   *)
LEMMA EndIs ==
  ASSUME reflect \in BOOLEAN, NEW g \in GenType, NEW i \in Nat, NEW w \in Nat \ {0}, w = Where(g)
  PROVE  UnitEnded(g, End(g, i), i, w) /\ (Len(End(g, i).code) = w - 1 => End(g, i) = g /\ g.code # <<>> /\ Last(g.code).op = "return")
<1>1. PICK h, r, s, e : /\ h = (IF reflect THEN Handlers(g, i) ELSE g) /\ r = Instr("return", i) /\ s = <<r>>
                        /\ e = (IF h.code # <<>> /\ Last(h.code).op = "return" THEN h ELSE Puts(h, <<r>>))
  OBVIOUS
<1>2. e = End(g, i)
  BY <1>1, Zenon DEF End
<1>3. r \in InstrType /\ r.op = "return"
  <2>1. "return" \in Ops
    BY DEF Ops
  <2>2. r \in InstrType
    BY <1>1, <2>1, InstrTypes
  <2> QED BY <1>1, <2>2 DEF Instr
<1>4. PICK one \in Nat \ {0} : one = 1
  OBVIOUS
<1>5. s \in Seq(InstrType) /\ one = Len(s) /\ s[one] = r
  BY <1>1, <1>3, <1>4
<1>6. CASE ~ reflect /\ g.code # <<>> /\ Last(g.code).op = "return"
  <2>1. h = g /\ e = g
    BY <1>1, <1>6
  <2>2. w = Len(g.code) + 1 /\ Len(g.code) \in Nat
    BY <1>6, CodeAt
  <2>3. Len(e.code) = w - 1
    BY <2>1, <2>2
  <2> QED BY <1>2, <1>6, <2>1, <2>3 DEF UnitEnded, EndCode
<1>7. CASE ~ reflect /\ ~ (g.code # <<>> /\ Last(g.code).op = "return")
  <2>1. h = g /\ e = Puts(g, s)
    BY <1>1, <1>7
  <2>2. Appended(g, e, s, w, one)
    BY <1>5, <2>1, CodePuts
  <2>3. w - 1 + one = w /\ w # w - 1 /\ one \in 1..one
    BY <1>4
  <2>4. Len(e.code) = w /\ e.code[w] = r /\ e.code # <<>> /\ Last(e.code) = r
    BY <1>5, <2>2, <2>3 DEF Appended
  <2>5. EndCode(e, i, w)
    BY <1>1, <1>7, <2>4 DEF EndCode
  <2> QED BY <1>2, <1>3, <2>2, <2>3, <2>4, <2>5 DEF UnitEnded, Appended
<1>8. CASE reflect
  <2>1. HandlersAre(g, h, i, w)
    BY <1>1, <1>8, HandlersEmitted
  <2>2. e = Puts(h, s) /\ h \in GenType /\ w + 4 = Where(h)
    BY <1>1, <2>1 DEF HandlersAre
  <2>3. PICK v \in Nat \ {0} : v = w + 4
    OBVIOUS
  <2>4. Appended(h, e, s, v, one)
    BY <1>5, <2>2, <2>3, CodePuts
  <2>5. /\ v - 1 + one = w + 4 /\ one \in 1..one /\ w + 4 # w - 1
        /\ \A q \in 1..(w - 1) : q \in 1..(v - 1)
        /\ w \in 1..(v - 1) /\ w + 1 \in 1..(v - 1) /\ w + 2 \in 1..(v - 1) /\ w + 3 \in 1..(v - 1)
    BY <1>4, <2>3
  <2>6. Len(e.code) = w + 4 /\ e.code[w + 4] = r /\ e.code # <<>> /\ Last(e.code) = r
    BY <1>5, <2>4, <2>5 DEF Appended
  <2>7. \A q \in 1..(v - 1) : e.code[q] = h.code[q]
    BY <2>4 DEF Appended
  <2>8. Handled(e.code, i, w)
    <3>1. /\ e.code[w] = h.code[w] /\ e.code[w + 1] = h.code[w + 1] /\ e.code[w + 2] = h.code[w + 2]
          /\ e.code[w + 3] = h.code[w + 3]
      BY <2>5, <2>7
    <3>2. Handled(h.code, i, w)
      BY <2>1 DEF HandlersAre
    <3> QED BY <3>1, <3>2, Zenon DEF Handled
  <2>9. e.range = h.range
    BY <2>4 DEF Appended
  <2>10. EndCode(e, i, w)
    BY <1>1, <1>8, <2>1, <2>6, <2>8, <2>9 DEF EndCode, HandlersAre
  <2>11. \A q \in 1..(w - 1) : e.code[q] = g.code[q]
    BY <2>1, <2>5, <2>7 DEF HandlersAre
  <2> QED BY <1>2, <1>3, <2>1, <2>4, <2>5, <2>6, <2>10, <2>11 DEF UnitEnded, Appended, HandlersAre
<1> QED BY <1>6, <1>7, <1>8

(* The unit has been translated: every instruction is one of its lines and   *)
(* branches into the code.                                                   *)
Ready(g, p) ==
  LET ins == g.code[p] IN
  /\ ins.op # "unused" /\ ins.line \in Lines
  /\ ins.op \in Branches => (ins.lab = 0 /\ ins.to \in 1..Len(g.code)) \/ ins.lab \in DOMAIN g.labels
  /\ ins.loc < MaxLocal /\ (ins.wide => ins.loc + 1 < MaxLocal)
Done(g, P, i) ==
  /\ g \in GenType /\ g.max <= MaxLocal /\ g.next = 0 /\ g.loops = <<>> /\ g.blocks = <<>>
  /\ i = Len(unit) /\ LinesCoded(g, P, i) /\ LabelAt(g, P, i)
  /\ \A p \in 1..Len(g.code) : Ready(g, p)
  /\ \A l \in DOMAIN g.labels : l # 0 /\ g.labels[l] \in 1..Len(g.code)
  /\ g.code # <<>> /\ Last(g.code).op = "return" /\ EndCode(g, i, P[i])
  /\ Len(g.code) = P[i] - 1 => i > 1 /\ unit[i - 1].k = "return" /\ unit[i].lab = 0

(* Nothing is open at the END.                                               *)
NoneOpen(g) == g.loops = <<>> /\ g.blocks = <<>> /\ g.next = 0
(* At the END line no loop, block or local is left.                         *)
LEMMA EndOpens ==
  ASSUME UnitInv, phase # "read", NEW i \in Lines, unit[i].k = "end", NEW g, NEW P, Translated(g, P, i)
  PROVE  NoneOpen(g) /\ Ends(i) = {} /\ Open(i) = <<>>
<1>1. i = Len(unit) /\ Len(unit) \in Nat /\ nest = <<>> /\ i + 1 \in 1..(Len(unit) + 1) /\ i \in 1..(Len(unit) + 1) /\ Lines = 1..Len(unit)
  BY LineIs DEF UnitInv, Complete
<1>2. Open(i + 1) = <<>>
  BY <1>1 DEF Open
<1>3. PICK s \in Seq(Entry) : s = Open(i) /\ Len(s) \in Nat
  BY <1>1, UnitTypes DEF UnitInv
<1>4. Ends(i) = {} /\ \E n \in 0..Len(s) : Open(i + 1) = SubSeq(s, 1, n) /\ Ends(i) = {s[m].head : m \in (n + 1)..Len(s)}
  <2>1. Follows(i)
    BY DEF UnitInv, Openings
  <2>2. unit[i].k \notin Openers \cup {"endif"} /\ unit[i].k \notin Closers
    BY DEF Openers, Closers
  <2>3. /\ unit[i].k \notin Openers \cup {"endif"} =>
             \E n \in 0..Len(Open(i)) : /\ Open(i + 1) = SubSeq(Open(i), 1, n)
                                        /\ Ends(i) = {Open(i)[m].head : m \in (n + 1)..Len(Open(i))}
        /\ unit[i].k \notin Closers => Ends(i) = {}
    BY ONLY <2>1, Zenon DEF Follows
  <2> QED BY ONLY <1>3, <2>2, <2>3
<1>5. PICK n \in 0..Len(s) : Open(i + 1) = SubSeq(s, 1, n) /\ Ends(i) = {s[m].head : m \in (n + 1)..Len(s)}
  BY <1>4
<1>6. n = 0
  <2>1. Len(SubSeq(s, 1, n)) = n
    BY <1>3
  <2> QED BY <1>2, <1>5, <2>1
<1>7. Len(s) = 0
  <2>1. Len(s) \notin (n + 1)..Len(s)
    BY <1>4, <1>5
  <2> QED BY <1>3, <1>6, <2>1
<1>8. s = <<>>
  BY <1>3, <1>7
<1>9. DoHeads(i) = {}
  <2>1. \A m \in 1..Len(Open(i)) : FALSE
    BY <1>3, <1>7
  <2> QED BY <2>1 DEF DoHeads
<1>10. IfEntries(i) = {}
  <2>1. \A m \in 1..Len(Open(i)) : FALSE
    BY <1>3, <1>7
  <2> QED BY <2>1 DEF IfEntries
<1>11. PICK u, v, z : u = g.loops /\ v = g.blocks /\ z = g.next /\ u \in Seq(LoopType) /\ v \in Seq(BlockType)
  BY DEF Translated, Sound, GenType
<1>12. z = Len(u) /\ \A m \in 1..Len(u) : FALSE
  BY <1>9, <1>11 DEF Translated, LoopStack
<1>13. \A m \in 1..Len(v) : FALSE
  BY <1>10, <1>11 DEF Translated, BlockStack
<1>14. u = <<>> /\ z = 0
  <2>1. Len(u) \in Nat
    BY <1>11
  <2>2. Len(u) = 0
    BY <1>12, <2>1
  <2> QED BY <1>11, <1>12, <2>2
<1>15. v = <<>>
  <2>1. Len(v) \in Nat
    BY <1>11
  <2>2. Len(v) = 0
    BY <1>13, <2>1
  <2> QED BY <1>11, <2>2
<1> QED BY <1>3, <1>4, <1>8, <1>11, <1>14, <1>15 DEF NoneOpen

(* The labels that a line selects from are labels of lines.                  *)
LEMMA TargetIs ==
  ASSUME UnitInv, phase # "read", NEW j \in Lines, unit[j].k \notin {"do", "end"}, NEW l \in ToSet(Chosen(j))
  PROVE  l # 0 /\ \E t \in Lines : unit[t].lab = l
<1>1. Complete
  BY DEF UnitInv
<1>2. CASE Chosen(j) = unit[j].to
  <2>1. PICK x \in DOMAIN unit[j].to : l = unit[j].to[x]
    BY <1>2 DEF ToSet
  <2>2. \E t \in Lines : unit[t].lab = l
    BY <1>1, <2>1 DEF Complete
  <2>3. l # 0
    BY <2>1 DEF UnitInv, Labelling, LabelsOK
  <2> QED BY <2>2, <2>3
<1>3. CASE Chosen(j) = assigned
  <2>1. PICK x \in DOMAIN assigned : l = assigned[x]
    BY <1>3 DEF ToSet
  <2>2. PICK k \in Lines : unit[k].k = "assign" /\ unit[k].to[1] = l
    BY <2>1 DEF UnitInv, Assigned
  <2>3. 1 \in DOMAIN unit[k].to
    <3>1. Len(unit[k].to) = 1 /\ unit[k].to \in Seq(Nat)
      BY <2>2, UnitTypes DEF UnitInv, Labelling, LabelsOK
    <3> QED BY <3>1
  <2>4. \E t \in Lines : unit[t].lab = l
    BY <1>1, <2>2, <2>3 DEF Complete
  <2>5. l # 0
    BY <2>2, <2>3 DEF UnitInv, Labelling, LabelsOK
  <2> QED BY <2>4, <2>5
<1> QED BY <1>2, <1>3 DEF Chosen

(* The END on line i: b is g with a placeholder for the label, if there is   *)
(* one; e has the code of the END, r the label.                              *)
EndFrom(g, P, i, b, e, r) ==
  /\ b \in GenType /\ Like(g, b) /\ b.labels = g.labels
  /\ IF unit[i].lab = 0 THEN b = g /\ r.labels = g.labels
     ELSE /\ Len(b.code) = Where(g) /\ ~ (b.code # <<>> /\ Last(b.code).op = "return")
          /\ DOMAIN r.labels = DOMAIN g.labels \cup {unit[i].lab} /\ r.labels[unit[i].lab] = P[i]
          /\ \A x \in DOMAIN g.labels : x # unit[i].lab => r.labels[x] = g.labels[x]
  /\ e = End(b, i) /\ r \in GenType /\ Like(e, r) /\ r.code = e.code /\ r.range = e.range
(* After the END the unit is translated.                                    *)
LEMMA EndDone ==
  ASSUME UnitInv, phase # "read", NEW i \in Lines, unit[i].k = "end", NEW g, NEW P, Translated(g, P, i),
         NEW b, NEW e, NEW r, EndFrom(g, P, i, b, e, r)
  PROVE  Done(r, P, i)
<1>1. /\ Sound(g) /\ LinesCoded(g, P, i) /\ P[i] = Where(g) /\ g \in GenType /\ g.max <= MaxLocal
      /\ reflect \in BOOLEAN /\ i \in Nat \ {0} /\ i = Len(unit) /\ Lines = 1..Len(unit) /\ MaxLocal \in Nat \ {0}
  BY LineIs DEF Translated, Sound, UnitInv, UnitType
<1>2. PICK w \in Nat \ {0} : w = Where(g)
  BY <1>1, CodeAt
<1>3. /\ b \in GenType /\ b.loops = g.loops /\ b.blocks = g.blocks /\ b.next = g.next /\ b.max = g.max
      /\ Where(b) = w /\ \A q \in 1..(w - 1) : b.code[q] = g.code[q]
  BY <1>2 DEF EndFrom, Like
<1>4. /\ e = End(b, i) /\ r \in GenType /\ r.code = e.code /\ r.range = e.range
      /\ r.loops = e.loops /\ r.blocks = e.blocks /\ r.next = e.next /\ r.max = e.max
  BY DEF EndFrom, Like
<1>5. UnitEnded(b, e, i, w) /\ (Len(e.code) = w - 1 => e = b /\ b.code # <<>> /\ Last(b.code).op = "return")
  BY <1>1, <1>3, <1>4, EndIs
<1>6. /\ \A q \in 1..(w - 1) : r.code[q] = g.code[q]
      /\ r.code # <<>> /\ Last(r.code).op = "return"
      /\ r.loops = g.loops /\ r.blocks = g.blocks /\ r.next = g.next /\ r.max = g.max
      /\ EndCode(r, i, w)
  <2>1. EndCode(e, i, w)
    BY <1>5 DEF UnitEnded
  <2>2. EndCode(r, i, w)
    BY <1>4, <2>1, Zenon DEF EndCode
  <2> QED BY <1>3, <1>4, <1>5, <2>2 DEF UnitEnded
<1>7. NoneOpen(g)
  BY EndOpens
<1>8. Len(r.code) = w - 1 => unit[i].lab = 0 /\ b = g /\ g.code # <<>> /\ Last(g.code).op = "return"
  <2>1. Len(r.code) = w - 1 => b.code # <<>> /\ Last(b.code).op = "return"
    BY <1>4, <1>5
  <2>2. unit[i].lab # 0 => ~ (b.code # <<>> /\ Last(b.code).op = "return")
    BY DEF EndFrom
  <2>3. unit[i].lab = 0 => b = g
    BY DEF EndFrom
  <2> QED BY <2>1, <2>2, <2>3
<1>9. Len(r.code) = w - 1 => i > 1 /\ unit[i - 1].k = "return" /\ unit[i].lab = 0
  <2> SUFFICES ASSUME Len(r.code) = w - 1 PROVE i > 1 /\ unit[i - 1].k = "return"
    BY <1>8
  <2>1. i > 1 /\ (unit[i - 1].k = "return" \/ Empty(i - 1))
    BY <1>8 DEF Translated
  <2>2. PICK j : j = i - 1
    OBVIOUS
  <2>3. j + 1 = i
    BY <1>1, <2>2
  <2>4. ~ Empty(j)
    BY <2>3 DEF Empty
  <2> QED BY <2>1, <2>2, <2>4
<1>10. Len(r.code) \in Nat /\ Len(g.code) \in Nat /\ Len(g.code) <= Len(r.code) /\ (Len(r.code) = w - 1 \/ w <= Len(r.code))
  <2>1. Len(r.code) \in Nat /\ Len(g.code) \in Nat /\ Len(g.code) <= w
    BY <1>1, <1>2, <1>4, CodeAt
  <2>2. Len(r.code) = w - 1 \/ Len(r.code) = w \/ Len(r.code) = w + 4
    BY <1>6 DEF EndCode
  <2>3. Len(r.code) = w - 1 => r.code = g.code
    BY <1>4, <1>5, <1>8
  <2> QED BY <1>2, <2>1, <2>2, <2>3
<1>11. Fixes(i, g.code, r.code, P[i])
  <2>1. \A z \in InstrType : Same(z, z)
    BY DEF Same, InstrType
  <2>2. \A q \in 1..(w - 1) : g.code[q] \in InstrType
    BY <1>1, <1>2, CodeAt
  <2>3. \A q \in 1..(w - 1) : Same(r.code[q], g.code[q]) /\ r.code[q] = g.code[q]
    BY <1>6, <2>1, <2>2
  <2> QED BY <1>1, <1>2, <2>3 DEF Fixes
<1>12. /\ DOMAIN g.labels \subseteq DOMAIN r.labels
       /\ \A x \in DOMAIN g.labels : x # unit[i].lab \/ unit[i].lab = 0 => r.labels[x] = g.labels[x]
       /\ unit[i].lab # 0 => unit[i].lab \in DOMAIN r.labels /\ r.labels[unit[i].lab] = P[i]
       /\ \A x \in DOMAIN r.labels : x \in DOMAIN g.labels \/ (x = unit[i].lab /\ x # 0)
  BY DEF EndFrom
<1>13. \A j \in 1..(i - 1) : unit[j].lab # 0 => unit[j].lab # unit[i].lab
  <2>1. \A j \in 1..(i - 1) : j \in Lines /\ j # i
    BY LineIs
  <2> QED BY <2>1 DEF UnitInv, Labelling, LabelsOK
<1>14. LinesCoded(r, P, i)
  <2>1. P \in [1..i -> Nat \ {0}] /\ P[1] = 1 /\ \A j \in 1..i : \A k \in (j + 1)..i : P[j] + Size(j) <= P[k]
    BY <1>1 DEF LinesCoded
  <2>2. ASSUME NEW j \in 1..(i - 1)
        PROVE  StatementCode(r.code, j, P[j]) /\ LineEnd(r.code, P, j) /\ LocalsOK(r.code, P, j) /\ LabelAt(r, P, j) /\ ArmEnd(r.code, P, i, j)
    <3>1. StatementCode(r.code, j, P[j]) /\ LineEnd(r.code, P, j) /\ LocalsOK(r.code, P, j) /\ ArmEnd(r.code, P, i, j)
      BY <1>11, CodeKept, ArmEndKept
    <3>2. LabelAt(g, P, j)
      BY <1>1, Zenon DEF LinesCoded
    <3>3. LabelAt(r, P, j)
      BY <1>12, <1>13, <3>2 DEF LabelAt
    <3> QED BY <3>1, <3>3
  <2> QED BY <2>1, <2>2, Zenon DEF LinesCoded
<1>15. LabelAt(r, P, i)
  BY <1>12 DEF LabelAt
<1>16. \A l \in DOMAIN r.labels : l # 0 /\ r.labels[l] \in 1..Len(r.code)
  <2> TAKE l \in DOMAIN r.labels
  <2>1. CASE l = unit[i].lab /\ l # 0
    <3>1. w \in 1..Len(r.code)
      <4>1. Len(r.code) # w - 1
        BY <1>8, <2>1
      <4> QED BY <1>2, <1>10, <4>1
    <3> QED BY <1>1, <1>2, <1>12, <2>1, <3>1
  <2>2. CASE ~ (l = unit[i].lab /\ l # 0)
    <3>1. l \in DOMAIN g.labels /\ r.labels[l] = g.labels[l]
      BY <1>1, <1>12, <2>2 DEF Sound
    <3>2. l # 0 /\ g.labels[l] \in 1..Len(g.code)
      BY <1>1, <3>1 DEF Sound
    <3>3. \A y \in 1..Len(g.code) : y \in 1..Len(r.code)
      BY <1>10
    <3> QED BY <3>1, <3>2, <3>3
  <2> QED BY <2>1, <2>2
<1>17. ASSUME NEW j \in Lines, unit[j].k \notin {"do", "end"}, NEW l \in ToSet(Chosen(j)) PROVE l \in DOMAIN r.labels
  <2>1. PICK t \in Lines : unit[t].lab = l /\ l # 0
    BY <1>17, TargetIs
  <2>2. CASE t = i
    BY <1>12, <2>1, <2>2
  <2>3. CASE t # i
    <3>1. t \in 1..(i - 1)
      BY <1>1, <2>3
    <3>2. LabelAt(r, P, t)
      BY <1>14, <3>1, Zenon DEF LinesCoded
    <3> QED BY <2>1, <3>2 DEF LabelAt
  <2> QED BY <2>2, <2>3
<1>18. ASSUME NEW p \in 1..(w - 1) PROVE Ready(r, p)
  <2>1. InstrOK(g, p) /\ ~ Waits(g, p)
    <3>1. \A m \in 1..Len(<<>>) : FALSE
      OBVIOUS
    <3> QED BY <1>1, <1>2, <1>7, <3>1 DEF Sound, Waits, NoneOpen
  <2>2. PICK x : x = g.code[p] /\ x = r.code[p]
    BY <1>6
  <2>3. /\ x.op # "unused" /\ x.line \in Lines
        /\ x.op \in Branches => \/ x.lab = 0 /\ x.to \in 1..Len(g.code)
                                \/ x.lab \in ToSet(Chosen(x.line)) /\ unit[x.line].k \notin {"do", "end"}
        /\ x.loc < MaxLocal /\ (x.wide => x.loc + 1 < MaxLocal)
    BY <2>1, <2>2 DEF InstrOK
  <2>4. \A y \in 1..Len(g.code) : y \in 1..Len(r.code)
    BY <1>10
  <2>5. x.lab \in ToSet(Chosen(x.line)) /\ unit[x.line].k \notin {"do", "end"} => x.lab \in DOMAIN r.labels
    BY <1>17, <2>3
  <2> QED BY <2>2, <2>3, <2>4, <2>5 DEF Ready
<1>19. \A op \in {"return", "catch"} : op \notin Branches /\ op # "unused"
  BY DEF Branches
<1>20. ASSUME NEW p \in 1..Len(r.code), w <= p PROVE Ready(r, p)
  <2>1. \A x : (\E op \in {"return", "catch"} : x = Instr(op, i)) => x.op # "unused" /\ x.op \notin Branches /\ x.line = i /\ x.loc = 0 /\ ~ x.wide
    BY <1>19 DEF Instr
  <2>2. 0 < MaxLocal
    BY <1>1
  <2>3. CASE ~ reflect
    <3>1. Len(r.code) = w - 1 \/ (Len(r.code) = w /\ r.code[w] = Instr("return", i))
      BY <1>6, <2>3 DEF EndCode
    <3>2. p = w /\ r.code[w] = Instr("return", i)
      <4>1. PICK n \in Nat : n = Len(r.code) /\ p \in 1..n /\ w <= p
        BY <1>10, <1>20
      <4>2. n # w - 1
        BY ONLY <1>2, <4>1
      <4>3. n = w /\ r.code[w] = Instr("return", i)
        BY <3>1, <4>1, <4>2
      <4>4. p = w
        BY ONLY <1>2, <4>1, <4>3
      <4> QED BY <4>3, <4>4
    <3> QED BY <2>1, <2>2, <3>2 DEF Ready
  <2>4. CASE reflect
    <3>1. Len(r.code) = w + 4 /\ Handled(r.code, i, w) /\ r.code[w + 4] = Instr("return", i)
      BY <1>6, <2>4 DEF EndCode
    <3>2. p = w \/ p = w + 1 \/ p = w + 2 \/ p = w + 3 \/ p = w + 4
      BY <1>2, <1>20, <3>1
    <3>3. CASE p = w \/ p = w + 2
      <4>1. PICK y \in InstrType : y = Instr("goto", i) /\ y.op = "goto" /\ y.line = i /\ y.loc = 0 /\ ~ y.wide /\ y.lab = 0
        <5>1. "goto" \in Ops /\ i \in Nat
          BY <1>1 DEF Ops
        <5>2. Instr("goto", i) \in InstrType
          BY <5>1, InstrTypes
        <5> QED BY <5>2 DEF Instr
      <4>2. PICK z : z = r.code[p] /\ z = [y EXCEPT !.to = w + 4]
        BY <3>1, <3>3, <4>1, Zenon DEF Handled
      <4>3. z.op = "goto" /\ z.line = i /\ z.loc = 0 /\ ~ z.wide /\ z.lab = 0 /\ z.to = w + 4
        BY <4>1, <4>2 DEF InstrType
      <4>4. w + 4 \in 1..Len(r.code)
        BY <1>2, <3>1
      <4> QED BY <2>2, <4>2, <4>3, <4>4 DEF Ready
    <3>4. CASE p = w + 1 \/ p = w + 3
      BY <2>1, <2>2, <3>1, <3>4 DEF Ready, Handled
    <3>5. CASE p = w + 4
      BY <2>1, <2>2, <3>1, <3>5 DEF Ready
    <3> QED BY <3>2, <3>3, <3>4, <3>5
  <2> QED BY <1>1, <2>3, <2>4
<1>21. \A p \in 1..Len(r.code) : Ready(r, p)
  <2> TAKE p \in 1..Len(r.code)
  <2>1. p \in 1..(w - 1) \/ w <= p
    BY <1>2, <1>10
  <2> QED BY <1>18, <1>20, <2>1
<1>22. EndCode(r, i, P[i])
  BY <1>1, <1>2, <1>6
<1>23. r.next = 0 /\ r.loops = <<>> /\ r.blocks = <<>> /\ r.max <= MaxLocal
  BY <1>1, <1>6, <1>7 DEF NoneOpen
<1>24. Len(r.code) = P[i] - 1 => i > 1 /\ unit[i - 1].k = "return" /\ unit[i].lab = 0
  BY <1>1, <1>2, <1>9
<1> QED BY <1>1, <1>4, <1>6, <1>14, <1>15, <1>16, <1>21, <1>22, <1>23, <1>24, Zenon DEF Done

(* So it is when EmitLine has translated the END line.                      *)
LEMMA EndLine ==
  ASSUME UnitInv, phase # "read", NEW i \in Lines, unit[i].k = "end", NEW g, NEW P, Translated(g, P, i)
  PROVE  /\ unit[i].lab = 0 => Done([Statement(g, i) EXCEPT !.line = i + 1], P, i)
         /\ unit[i].lab # 0 => Done([Labelled(g, unit[i].lab, i) EXCEPT !.line = i + 1], P, i)
<1>1. /\ g \in GenType /\ P[i] = Where(g) /\ i \in Nat \ {0} /\ i + 1 \in Nat /\ reflect \in BOOLEAN /\ Where(g) \in Nat \ {0}
      /\ \A b : End(b, i) = Statement(b, i)
  <2>1. g \in GenType
    BY DEF Translated, Sound
  <2>2. Where(g) \in Nat \ {0}
    BY <2>1, CodeAt
  <2>3. \A b : End(b, i) = Statement(b, i)
    BY DEF Statement
  <2> QED BY <2>1, <2>2, <2>3, LineIs DEF Translated, UnitInv, UnitType
<1>2. CASE unit[i].lab = 0
  <2>1. PICK e, r : e = End(g, i) /\ r = [e EXCEPT !.line = i + 1]
    OBVIOUS
  <2>2. e \in GenType
    <3>1. UnitEnded(g, e, i, Where(g))
      BY <1>1, <2>1, EndIs
    <3> QED BY <3>1 DEF UnitEnded
  <2>3. r \in GenType /\ Like(e, r) /\ r.labels = e.labels /\ r.code = e.code /\ r.range = e.range
    BY <1>1, <2>1, <2>2, Moved
  <2>4. Like(g, g)
    BY <1>1, CodeAt DEF Like
  <2>5. e.labels = g.labels
    <3>1. UnitEnded(g, e, i, Where(g))
      BY <1>1, <2>1, EndIs
    <3> QED BY <3>1 DEF UnitEnded
  <2>6. EndFrom(g, P, i, g, e, r)
    BY <1>1, <1>2, <2>1, <2>3, <2>4, <2>5 DEF EndFrom
  <2>7. Done(r, P, i)
    BY <2>6, EndDone
  <2> QED BY <1>1, <1>2, <2>1, <2>7
<1>3. CASE unit[i].lab # 0
  <2>1. PICK b, e, l : b = Puts(g, <<Hole>>) /\ e = End(b, i) /\ l = unit[i].lab
    OBVIOUS
  <2>2. HoleAdded(g, b)
    BY <1>1, <2>1, HoleIsAdded
  <2>3. /\ b \in GenType /\ Like(g, b) /\ b.labels = g.labels /\ Len(b.code) = Where(g)
        /\ ~ (b.code # <<>> /\ Last(b.code).op = "return") /\ b.loops = g.loops /\ Where(b) = Where(g)
    BY <2>2 DEF HoleAdded, Like
  <2>4. UnitEnded(b, e, i, Where(g))
    BY <1>1, <2>1, <2>3, EndIs
  <2>5. e \in GenType /\ e.labels = g.labels /\ e.loops = <<>>
    <3>1. g.loops = <<>>
      BY EndOpens DEF NoneOpen
    <3> QED BY <2>3, <2>4, <3>1 DEF UnitEnded
  <2>6. PICK N \in Nat : N = 0
    OBVIOUS
  <2>7. N = Len(e.loops) /\ Len(e.loops) \in Nat
    BY <2>5, <2>6
  <2>8. e = IF i = 0 THEN b ELSE Statement(b, i)
    BY <1>1, <2>1
  <2>9. PICK c : LabelledBy(g, l, i, b, e, N, c)
    BY <2>1, <2>7, <2>8, LabelledIs
  <2>10. c[0] = e /\ Labelled(g, l, i) = [c[Ending(e.loops, l)] EXCEPT !.labels = Placed(@, l, Len(b.code))]
    BY <2>9, Zenon DEF LabelledBy
  <2>11. Ending(e.loops, l) = 0
    <3>1. LastLabels(e.loops, l, 0)
      BY <2>6, <2>7 DEF LastLabels
    <3> QED BY <2>7, <3>1, EndingIs
  <2>12. PICK w, r : w = Where(g) /\ r = [Labelled(g, l, i) EXCEPT !.line = i + 1]
    OBVIOUS
  <2>13. LabelSet(e, r, l, w)
    <3>1. r = [[e EXCEPT !.labels = Placed(@, l, w)] EXCEPT !.line = i + 1]
      BY <2>3, <2>10, <2>11, <2>12
    <3>2. l \in Nat /\ w \in Nat /\ i + 1 \in Nat
      BY <1>1, <2>1, <2>12, UnitTypes, LabelNumbers DEF UnitInv
    <3> QED BY <2>5, <3>1, <3>2, LabelIsSet, Zenon
  <2>14. EndFrom(g, P, i, b, e, r)
    BY <1>1, <1>3, <2>1, <2>3, <2>5, <2>12, <2>13 DEF EndFrom, LabelSet
  <2>15. Done(r, P, i)
    BY <2>14, EndDone
  <2> QED BY <1>3, <2>1, <2>12, <2>15
<1> QED BY <1>2, <1>3

-----------------------------------------------------------------------------
(* The generator's invariant.                                                *)

GenInv ==
  /\ phase = "read" => gen = StartGen
  /\ phase = "emit" => gen.line \in Lines /\ \E P : Translated(gen, P, gen.line)
  /\ phase = "run"  => \E P : Done(gen, P, Len(unit))

(* Before the first line everything is in order.                            *)
LEMMA StartTranslated ==
  ASSUME UnitInv, phase # "read", NEW P, P = [j \in 1..1 |-> 1]
  PROVE  Translated(StartGen, P, 1) /\ 1 \in Lines /\ StartGen.line = 1
<1>1. PICK g : g = StartGen
  OBVIOUS
<1>2. Hole \in InstrType /\ Hole.op = "unused"
  BY HoleIs
<1>3. /\ g.line = 1 /\ g.labels = [l \in {} |-> 0] /\ g.loops = <<>> /\ g.blocks = <<>> /\ g.next = 0 /\ g.max = 0
      /\ g.range = [from |-> 1, to |-> 1, at |-> {}] /\ g.code = (IF reflect THEN <<Hole>> ELSE <<>>)
  BY <1>1 DEF StartGen
<1>4. g \in GenType
  <2>1. [l \in {} |-> 0] \in UNION {[D -> Nat] : D \in SUBSET Nat}
    <3>1. [l \in {} |-> 0] \in [{} -> Nat] /\ {} \in SUBSET Nat
      OBVIOUS
    <3> QED BY <3>1
  <2>2. <<Hole>> \in Seq(InstrType) /\ <<>> \in Seq(InstrType) /\ <<>> \in Seq(LoopType) /\ <<>> \in Seq(BlockType)
    BY <1>2
  <2>3. (IF reflect THEN <<Hole>> ELSE <<>>) \in Seq(InstrType)
    BY <2>2
  <2>4. [from |-> 1, to |-> 1, at |-> {}] \in [from : Nat, to : Nat, at : SUBSET Nat]
    OBVIOUS
  <2> QED BY <1>1, <2>1, <2>2, <2>3, <2>4 DEF StartGen, GenType
<1>5. Where(g) = 1 /\ ~ (g.code # <<>> /\ Last(g.code).op = "return")
  <2>1. CASE reflect
    <3>1. g.code = <<Hole>> /\ <<Hole>> # <<>> /\ Last(<<Hole>>) = Hole /\ Len(<<Hole>>) = 1
      BY <1>3, <2>1 DEF Last
    <3>2. Where(g) = Len(g.code)
      BY <1>2, <1>4, <3>1, CodeAt
    <3> QED BY <1>2, <3>1, <3>2
  <2>2. CASE ~ reflect
    <3>1. g.code = <<>> /\ Len(<<>>) = 0
      BY <1>3, <2>2
    <3>2. Solid(g.code) = <<>>
      BY <3>1 DEF Solid
    <3> QED BY <3>1, <3>2 DEF Where
  <2> QED BY <2>1, <2>2
<1>6. 1 \in Lines /\ 1 \in 1..(Len(unit) + 1) /\ Lines = 1..Len(unit) /\ MaxLocal \in Nat
  <2>1. Len(unit) \in Lines /\ Lines = 1..Len(unit) /\ Len(unit) \in Nat
    BY LineIs, UnitTypes DEF UnitInv, Complete
  <2> QED BY <2>1, LineIs
<1>7. Sound(g)
  <2>1. \A p \in 1..(Where(g) - 1) : FALSE
    BY <1>5
  <2>2. DOMAIN g.labels = {}
    BY <1>3
  <2> QED BY <1>3, <1>4, <1>6, <2>1, <2>2 DEF Sound
<1>8. LinesCoded(g, P, 1)
  <2>1. P \in [1..1 -> Nat \ {0}] /\ P[1] = 1
    OBVIOUS
  <2>2. \A j \in 1..1 : \A k \in (j + 1)..1 : FALSE
    OBVIOUS
  <2>3. \A j \in 1..(1 - 1) : FALSE
    OBVIOUS
  <2> QED BY <2>1, <2>2, <2>3, Zenon DEF LinesCoded
<1>9. Len(Open(1)) = 0
  <2>1. \A m \in 1..Len(Open(1)) : Open(1)[m].arm < 1 /\ Open(1)[m].arm \in Lines
    BY <1>6 DEF UnitInv, Stacks, StackOK, OpenOK
  <2>2. Len(Open(1)) \in Nat
    BY <1>6, UnitTypes DEF UnitInv
  <2>3. \A m \in 1..Len(Open(1)) : FALSE
    BY <1>6, <2>1
  <2> QED BY <2>2, <2>3
<1>10. DoHeads(1) = {} /\ IfEntries(1) = {}
  <2>1. \A m \in 1..Len(Open(1)) : FALSE
    BY <1>9
  <2> QED BY <2>1 DEF DoHeads, IfEntries
<1>11. LoopStack(g, P, DoHeads(1)) /\ BlockStack(g, P, 1)
  <2>1. Len(<<>>) = 0 /\ \A m \in 1..Len(<<>>) : FALSE
    OBVIOUS
  <2> QED BY <1>3, <1>10, <2>1 DEF LoopStack, BlockStack
<1>12. P[1] = Where(g)
  BY <1>5
<1>13. Translated(g, P, 1)
  BY <1>5, <1>7, <1>8, <1>11, <1>12, Zenon DEF Translated
<1> QED BY <1>1, <1>3, <1>6, <1>13

(* What has been translated depends on the unit alone.                       *)
LEMMA TranslationKept ==
  ASSUME unit' = unit, nest' = nest, assigned' = assigned, reflect' = reflect, NEW g, NEW P, NEW i
  PROVE  /\ Translated(g, P, i) => Translated(g, P, i)'
         /\ Done(g, P, i) => Done(g, P, i)'
<1>1. Lines' = Lines
  BY DEF Lines
<1>2. \A j : Open(j)' = Open(j) /\ Ends(j)' = Ends(j) /\ (Empty(j)' <=> Empty(j)) /\ Chosen(j)' = Chosen(j) /\ HeadOf(j)' = HeadOf(j)
  BY <1>1 DEF Open, Ends, Empty, Chosen, HeadOf
<1>3. \A j : Size(j)' = Size(j) /\ (Jumps(j)' <=> Jumps(j)) /\ TestAt(P, j)' = TestAt(P, j)
  BY <1>2 DEF Size, Jumps, TestAt
<1>4. \A a, j : NextOne(a, j)' <=> NextOne(a, j)
  BY <1>2 DEF NextOne
<1>5. \A j : DoHeads(j)' = DoHeads(j) /\ IfEntries(j)' = IfEntries(j)
  BY <1>1, <1>2 DEF DoHeads, IfEntries
<1>6. \A a, j : Tests(a)' = Tests(a) /\ Leaves(a, j)' = Leaves(a, j)
  BY <1>1, <1>2, <1>3, <1>4 DEF Tests, Leaves
<1>7. \A p : (InstrOK(g, p)' <=> InstrOK(g, p)) /\ (Ready(g, p)' <=> Ready(g, p))
  BY <1>1, <1>2 DEF InstrOK, Ready, Waits
<1>8. Sound(g)' <=> Sound(g)
  BY <1>7 DEF Sound, Where
<1>9. \A j : LabelAt(g, P, j)' <=> LabelAt(g, P, j)
  BY DEF LabelAt
<1>10. \A c, j, p : StatementCode(c, j, p)' <=> StatementCode(c, j, p)
  <2>1. TAKE c, j, p
  <2>3. (Empty(j)' <=> Empty(j)) /\ unit'[j] = unit[j] /\ Chosen(j)' = Chosen(j)
    BY <1>2
  <2>4. StatementCode(c, j, p)' <=> StatementCode(c, j, p)
    BY ONLY <2>3 DEF StatementCode
  <2> QED BY <2>4
<1>11. \A c, j : LocalsOK(c, P, j)' <=> LocalsOK(c, P, j)
  BY <1>5 DEF LocalsOK
<1>12. \A c, j, a : ArmEnd(c, P, j, a)' <=> ArmEnd(c, P, j, a)
  BY <1>2, <1>3, <1>4 DEF ArmEnd
<1>13. \A c, t, R, w : Chained(c, P, t, R, w)' <=> Chained(c, P, t, R, w)
  <2>1. TAKE c, t, R, w
  <2>2. \A d : (LoopEnd(c, P, d)' <=> LoopEnd(c, P, d)) /\ EndAt(c, P, d)' = EndAt(c, P, d)
    BY DEF LoopEnd, EndAt
  <2>3. PICK q : q = P[t] + Size(t) /\ q = P[t] + Size(t)'
    BY <1>3
  <2> QED BY <2>2, <2>3 DEF Chained
<1>14. \A c, j : LineEnd(c, P, j)' <=> LineEnd(c, P, j)
  BY <1>2, <1>13 DEF LineEnd, EndIfCode
<1>15. \A j : LinesCoded(g, P, j)' <=> LinesCoded(g, P, j)
  BY <1>3, <1>9, <1>10, <1>11, <1>12, <1>14 DEF LinesCoded
<1>16. LoopStack(g, P, DoHeads(i))' <=> LoopStack(g, P, DoHeads(i))
  BY <1>5 DEF LoopStack
<1>17. \A j, e, b : BlockIs(P, j, e, b)' <=> BlockIs(P, j, e, b)
  BY <1>3, <1>6 DEF BlockIs
<1>18. BlockStack(g, P, i)' <=> BlockStack(g, P, i)
  BY <1>5, <1>17 DEF BlockStack
<1>19. Translated(g, P, i) => Translated(g, P, i)'
  BY <1>2, <1>8, <1>15, <1>16, <1>18 DEF Translated, Where
<1>20. EndCode(g, i, P[i])' <=> EndCode(g, i, P[i])
  BY DEF EndCode, Handled, Instr
<1>21. Done(g, P, i) => Done(g, P, i)'
  BY <1>7, <1>9, <1>15, <1>20 DEF Done
<1> QED BY <1>19, <1>21

(* A line other than the END is translated.                                  *)
LEMMA LineTranslated ==
  ASSUME UnitInv, EmitLine, NEW i \in Lines, i = gen.line, unit[i].k # "end", NEW P, Translated(gen, P, i)
  PROVE  gen'.line = i + 1 /\ i + 1 \in Lines /\ \E Q : Translated(gen', Q, i + 1)
<1>1. phase # "read" /\ phase = "emit" /\ i \in Nat /\ i + 1 \in Lines /\ unit[i].lab \in Nat
  BY LineIs, UnitTypes, LabelNumbers DEF EmitLine, UnitInv
<1>2. PICK d : /\ d = (IF unit[i].lab = 0 THEN EmitStatement(gen, i)
                    ELSE CASE unit[i].k = "endif" -> Labelled(Statement(gen, i), unit[i].lab, 0)
                           [] unit[i].k = "enddo" -> EmitStatement(Labelled(gen, unit[i].lab, 0), i)
                           [] OTHER               -> Labelled(gen, unit[i].lab, i))
               /\ gen' = [d EXCEPT !.line = i + 1]
  BY Zenon DEF EmitLine
<1>3. \A g : EmitStatement(g, i) = IF unit[i].k = "enddo" THEN Labelled(g, unit[unit[i].of].to[1], 0) ELSE Statement(g, i)
  BY Zenon DEF EmitStatement
<1>4. \E Q : Translated(gen', Q, i + 1)
  <2>1. CASE unit[i].lab = 0 /\ unit[i].k # "enddo"
    <3>1. d = Statement(gen, i)
      BY <1>2, <1>3, <2>1
    <3> QED BY <1>1, <1>2, <2>1, <3>1, UnlabelledLine
  <2>2. CASE unit[i].lab = 0 /\ unit[i].k = "enddo"
    <3>1. PICK l : l = unit[unit[i].of].to[1]
      OBVIOUS
    <3>2. d = Labelled(gen, l, 0)
      BY <1>2, <1>3, <2>2, <3>1
    <3>3. l \in Nat \ {0}
      <4>1. l >= FirstLoopLabel /\ Ends(i) = {unit[i].of}
        BY <2>2, <3>1, Continuing
      <4>2. unit[i].of \in Lines /\ unit[unit[i].of].k = "do"
        BY <4>1 DEF Ends
      <4>3. l = FirstLoopLabel + unit[i].of - 1 /\ unit[i].of \in Nat /\ FirstLoopLabel \in Nat \ {0}
        BY <3>1, <4>1, <4>2, LabelNumbers, LineIs, <1>1 DEF UnitInv, Labelling, LabelsOK
      <4> QED BY <4>1, <4>3
    <3>4. unit[i].k # "end" /\ unit[i].k # "endif"
      BY <2>2
    <3> QED BY <1>1, <1>2, <2>2, <3>1, <3>2, <3>3, <3>4, LabelledLine
  <2>3. CASE unit[i].lab # 0 /\ unit[i].k = "endif"
    <3>1. d = Labelled(Statement(gen, i), unit[i].lab, 0)
      BY <1>2, <2>3
    <3> QED BY <1>1, <1>2, <2>3, <3>1, LabelledEndIf
  <2>4. CASE unit[i].lab # 0 /\ unit[i].k = "enddo"
    <3>1. d = EmitStatement(Labelled(gen, unit[i].lab, 0), i)
      BY <1>2, <2>4
    <3>2. d = Labelled(Labelled(gen, unit[i].lab, 0), unit[unit[i].of].to[1], 0)
      BY <1>3, <2>4, <3>1
    <3> QED BY <1>1, <1>2, <2>4, <3>2, LabelledEndDo
  <2>5. CASE unit[i].lab # 0 /\ unit[i].k \notin {"endif", "enddo"}
    <3>1. PICK l : l = unit[i].lab
      OBVIOUS
    <3>2. d = Labelled(gen, l, i) /\ l \in Nat \ {0}
      BY <1>1, <1>2, <2>5, <3>1
    <3> QED BY <1>1, <1>2, <2>5, <3>1, <3>2, LabelledLine
  <2> QED BY <2>1, <2>2, <2>3, <2>4, <2>5
<1>5. gen'.line = i + 1
  <2>1. PICK r : r = gen' /\ r = [d EXCEPT !.line = i + 1]
    BY <1>2
  <2>2. r \in GenType
    BY <1>4, <2>1 DEF Translated, Sound
  <2>3. "line" \in DOMAIN r
    BY <2>2 DEF GenType
  <2>4. "line" \in DOMAIN d
    BY <2>1, <2>3
  <2> QED BY <2>1, <2>4
<1> QED BY <1>1, <1>4, <1>5

(* So is the END.                                                            *)
LEMMA EndTranslated ==
  ASSUME UnitInv, EmitLine, NEW i \in Lines, i = gen.line, unit[i].k = "end", NEW P, Translated(gen, P, i)
  PROVE  Done(gen', P, Len(unit))
<1>1. phase # "read" /\ i = Len(unit)
  BY LineIs DEF EmitLine
<1>2. PICK d : /\ d = (IF unit[i].lab = 0 THEN EmitStatement(gen, i)
                    ELSE CASE unit[i].k = "endif" -> Labelled(Statement(gen, i), unit[i].lab, 0)
                           [] unit[i].k = "enddo" -> EmitStatement(Labelled(gen, unit[i].lab, 0), i)
                           [] OTHER               -> Labelled(gen, unit[i].lab, i))
               /\ gen' = [d EXCEPT !.line = i + 1]
  BY Zenon DEF EmitLine
<1>3. EmitStatement(gen, i) = Statement(gen, i)
  BY DEF EmitStatement
<1>4. CASE unit[i].lab = 0
  <2>1. d = Statement(gen, i)
    BY <1>2, <1>3, <1>4
  <2> QED BY <1>1, <1>2, <1>4, <2>1, EndLine
<1>5. CASE unit[i].lab # 0
  <2>1. d = Labelled(gen, unit[i].lab, i)
    BY <1>2, <1>5
  <2> QED BY <1>1, <1>2, <1>5, <2>1, EndLine
<1> QED BY <1>4, <1>5

(* The generator has not started at first.                                  *)
LEMMA GenInit == Init => GenInv
BY DEF Init, GenInv

(* It starts in order.                                                      *)
LEMMA StartIs == UnitInv /\ phase # "read" => 1 \in Lines /\ StartGen.line = 1 /\ \E P : Translated(StartGen, P, 1)
<1>1. PICK P : P = [j \in 1..1 |-> 1]
  OBVIOUS
<1> QED BY <1>1, StartTranslated
(* The same after a step.                                                   *)
LEMMA StartNext == (UnitInv /\ phase # "read" => 1 \in Lines /\ StartGen.line = 1 /\ \E P : Translated(StartGen, P, 1))'
BY StartIs, PTL

(* Every step keeps the invariant.                                          *)
LEMMA GenStep == UnitInv /\ UnitInv' /\ GenInv /\ [Next]_vars => GenInv'
<1> SUFFICES ASSUME UnitInv, UnitInv', GenInv, [Next]_vars PROVE GenInv'
  OBVIOUS
<1>1. CASE Reading
  <2>1. PICK s \in Families[family].lines :
          ReadSimple(s) \/ ReadDo(s) \/ ReadEndDo(s) \/ ReadIf(s) \/ ReadArm(s) \/ ReadEndIf(s) \/ ReadEnd(s)
    BY <1>1 DEF Reading
  <2>2. phase = "read" /\ gen' = gen /\ reflect' = reflect /\ phase' \in {"read", "emit"}
    BY <2>1 DEF ReadSimple, ReadDo, ReadEndDo, ReadIf, ReadArm, ReadEndIf, ReadEnd, Read
  <2>3. gen' = StartGen /\ StartGen' = StartGen
    BY <2>2 DEF GenInv, StartGen, Hole, Instr
  <2>4. CASE phase' = "read"
    BY <2>3, <2>4 DEF GenInv
  <2>5. CASE phase' = "emit"
    <3>1. /\ 1 \in Lines' /\ StartGen'.line = 1 /\ (\E P : Translated(StartGen, P, 1))'
      BY <2>5, StartNext
    <3>2. PICK P : Translated(StartGen, P, 1)'
      BY <3>1
    <3>3. gen'.line = 1 /\ Translated(gen, P, gen.line)'
      BY <2>3, <3>1, <3>2 DEF Translated, Sound, LinesCoded
    <3> QED BY <2>5, <3>1, <3>3 DEF GenInv
  <2> QED BY <2>2, <2>4, <2>5
<1>2. CASE EmitLine
  <2>1. phase = "emit" /\ unit' = unit /\ nest' = nest /\ assigned' = assigned /\ reflect' = reflect
    BY <1>2 DEF EmitLine
  <2>2. PICK i, P : i = gen.line /\ i \in Lines /\ Translated(gen, P, i)
    BY <2>1 DEF GenInv
  <2>3. CASE unit[i].k # "end"
    <3>1. gen'.line = i + 1 /\ i + 1 \in Lines /\ \E Q : Translated(gen', Q, i + 1)
      BY <1>2, <2>2, <2>3, LineTranslated
    <3>2. PICK G, Q : G = gen' /\ Translated(G, Q, i + 1)
      BY <3>1
    <3>3. Translated(G, Q, i + 1)'
      BY <2>1, <3>2, TranslationKept
    <3>4. Lines' = Lines
      BY <2>1 DEF Lines
    <3>5. phase' = "emit"
      BY <1>2, <2>2, <2>3 DEF EmitLine
    <3>6. Translated(gen, Q, gen.line)'
      BY <3>1, <3>2, <3>3
    <3> QED BY <3>1, <3>4, <3>5, <3>6 DEF GenInv
  <2>4. CASE unit[i].k = "end"
    <3>1. Done(gen', P, Len(unit))
      BY <1>2, <2>2, <2>4, EndTranslated
    <3>2. PICK G, n : G = gen' /\ n = Len(unit) /\ n = Len(unit') /\ Done(G, P, n)
      BY <2>1, <3>1
    <3>3. Done(G, P, n)'
      BY <2>1, <3>2, TranslationKept
    <3>4. phase' = "run"
      BY <1>2, <2>2, <2>4 DEF EmitLine
    <3>5. Done(gen, P, Len(unit))'
      BY <3>2, <3>3
    <3> QED BY <3>4, <3>5 DEF GenInv
  <2> QED BY <2>3, <2>4
<1>3. CASE Run \/ Rest \/ UNCHANGED vars
  <2>1. UNCHANGED <<unit, nest, assigned, reflect, phase, gen>>
    <3>1. CASE Run
      BY <3>1 DEF Run, CodeStep, FtnStep, Work, Throw, Test, Initialise, AssignLabel, Eval, Evaluate, Leave, Both
    <3>2. CASE Rest \/ UNCHANGED vars
      BY <3>2 DEF Rest, vars
    <3> QED BY <1>3, <3>1, <3>2
  <2>2. CASE phase = "read"
    <3>1. StartGen' = StartGen
      BY <2>1 DEF StartGen, Hole, Instr
    <3> QED BY <2>1, <2>2, <3>1 DEF GenInv
  <2>3. CASE phase = "emit"
    <3>1. PICK G, P, n : G = gen /\ G = gen' /\ n = gen.line /\ n = gen'.line /\ n \in Lines /\ Translated(G, P, n)
      BY <2>1, <2>3 DEF GenInv
    <3>2. Translated(G, P, n)'
      BY <2>1, <3>1, TranslationKept
    <3>3. Translated(gen, P, gen.line)'
      BY <3>1, <3>2
    <3> QED BY <2>1, <2>3, <3>1, <3>3 DEF GenInv, Lines
  <2>4. CASE phase = "run"
    <3>1. PICK G, P, n : G = gen /\ G = gen' /\ n = Len(unit) /\ n = Len(unit') /\ Done(G, P, n)
      BY <2>1, <2>4 DEF GenInv
    <3>2. Done(G, P, n)'
      BY <2>1, <3>1, TranslationKept
    <3>3. Done(gen, P, Len(unit))'
      BY <3>1, <3>2
    <3> QED BY <2>1, <2>4, <3>3 DEF GenInv
  <2>5. phase \in {"read", "emit", "run"}
    BY DEF UnitInv, UnitType
  <2> QED BY <2>2, <2>3, <2>4, <2>5
<1> QED BY <1>1, <1>2, <1>3 DEF Next

(* What the generator has translated is the code of the lines it has read.   *)
THEOREM UnitIsTranslated == Spec => []GenInv
BY GenInit, GenStep, UnitIsLegal, PTL DEF Spec

(* A unit that is translated completely has complete code.                   *)
LEMMA DoneIsComplete == UnitInv /\ GenInv => CodeComplete
<1> SUFFICES ASSUME UnitInv, GenInv, phase = "run" PROVE CodeComplete
  BY DEF CodeComplete
<1>1. PICK P : Done(gen, P, Len(unit))
  BY DEF GenInv
<1>2. /\ \A p \in 1..Len(gen.code) : Ready(gen, p)
      /\ \A l \in DOMAIN gen.labels : l # 0 /\ gen.labels[l] \in 1..Len(gen.code)
      /\ gen.code # <<>> /\ Last(gen.code).op = "return"
      /\ gen.loops = <<>> /\ gen.blocks = <<>> /\ gen.next = 0 /\ gen \in GenType
  BY <1>1 DEF Done
<1>3. DOMAIN gen.code = 1..Len(gen.code) /\ Len(gen.code) \in Nat
  BY <1>2, CodeAt
<1>4. ASSUME NEW p \in DOMAIN gen.code, gen.code[p].op \in Branches
      PROVE  /\ gen.code[p].to # 0 \/ gen.code[p].lab \in DOMAIN gen.labels
             /\ Target(gen.code[p]) \in DOMAIN gen.code
  <2>1. PICK x : x = gen.code[p]
    OBVIOUS
  <2>2. (x.lab = 0 /\ x.to \in 1..Len(gen.code)) \/ x.lab \in DOMAIN gen.labels
    BY <1>2, <1>3, <1>4, <2>1 DEF Ready
  <2>3. CASE x.lab \in DOMAIN gen.labels
    BY <1>2, <1>3, <2>1, <2>3 DEF Target
  <2>4. CASE x.lab \notin DOMAIN gen.labels
    <3>1. x.to \in 1..Len(gen.code) /\ x.to # 0
      BY <1>3, <2>2, <2>4
    <3> QED BY <1>3, <2>1, <2>4, <3>1 DEF Target
  <2> QED BY <2>1, <2>3, <2>4
<1>5. Targets \subseteq DOMAIN gen.code
  BY <1>4 DEF Targets
<1> QED BY <1>2, <1>4, <1>5 DEF CodeComplete

(* Every branch of a translated unit has a target in the code, the code      *)
(* ends in a return, and no loop, block or local is left open.               *)
THEOREM CodeIsComplete == Spec => []CodeComplete
BY UnitIsLegal, UnitIsTranslated, DoneIsComplete, PTL

=============================================================================
