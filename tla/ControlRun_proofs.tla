-------------------------- MODULE ControlRun_proofs --------------------------
(***************************************************************************)
(* Proofs about the part of ControlCode that runs: the types of the state,  *)
(* and that the bytecode does what the Fortran unit does.                   *)
(***************************************************************************)
EXTENDS ControlCode_proofs

USE LimitAssumption

-----------------------------------------------------------------------------
(* The Fortran machine. *)

CodeType == [pc : Nat, local : [0..(MaxLocal - 1) -> Int], val : [1..MaxLines -> Int], asg : Nat, on : BOOLEAN]
FtnType  == [at : 1..(MaxLines + 1), stage : {"stmt", "arm", "then", "close"}, loop : Nat,
             left : [1..MaxLines -> Int], val : [1..MaxLines -> Int], asg : Nat, on : BOOLEAN]
FtnOK(f) == f \in FtnType /\ (f.stage = "close" => f.at \in Lines /\ f.loop \in Ends(f.at))

\* Where it stands, and what moving leaves alone.
Stands(f, i, stage) == f.at = i /\ f.stage = stage /\ f.loop = 0
Closes(f, i, ds) == IF ds = {} THEN Stands(f, i + 1, "stmt")
                    ELSE f.at = i /\ f.stage = "close" /\ f.loop \in ds /\ \A e \in ds : e <= f.loop
Carries(f, h) == h.left = f.left /\ h.val = f.val /\ h.asg = f.asg /\ h.on = f.on

(* A set of lines that is not empty has a last one.                         *)
LEMMA Largest ==
  ASSUME NEW n \in Nat, NEW S \in SUBSET (1..n), S # {}
  PROVE  \E d \in S : \A e \in S : e <= d
<1> DEFINE T == {m \in Nat : \A e \in S : e <= m}
<1>1. n \in T
  OBVIOUS
<1>2. PICK m \in T : \A k \in T : m <= k
  <2>1. T \in SUBSET Nat
    OBVIOUS
  <2> QED BY <1>1, <2>1, Least
<1>3. m \in Nat /\ \A e \in S : e <= m /\ e \in Nat \ {0}
  BY <1>2
<1>4. CASE m \in S
  BY <1>3, <1>4
<1>5. CASE m \notin S
  <2>1. PICK e \in S : TRUE
    OBVIOUS
  <2>2. m - 1 \in Nat
    BY <1>3, <2>1
  <2>3. \A d \in S : d <= m - 1
    BY <1>3, <1>5
  <2>4. m - 1 \in T
    BY <2>2, <2>3
  <2>5. m <= m - 1
    BY <1>2, <2>4
  <2> QED BY <1>3, <2>5
<1> QED BY <1>4, <1>5

(* Moving to a line.                                                        *)
LEMMA AtIs ==
  ASSUME NEW f \in FtnType, NEW i \in 1..(MaxLines + 1), NEW stage \in {"stmt", "arm", "then"}
  PROVE  FtnOK(At(f, i, stage)) /\ Stands(At(f, i, stage), i, stage) /\ Carries(f, At(f, i, stage))
<1>1. PICK h : h = [f EXCEPT !.at = i, !.stage = stage, !.loop = 0]
  OBVIOUS
<1>2. h \in FtnType /\ h.at = i /\ h.stage = stage /\ h.loop = 0 /\ stage # "close"
  BY <1>1 DEF FtnType
<1>3. h.left = f.left /\ h.val = f.val /\ h.asg = f.asg /\ h.on = f.on
  BY <1>1 DEF FtnType
<1> QED BY <1>1, <1>2, <1>3 DEF At, FtnOK, Stands, Carries

(* The lines of a unit are lines of the machine.                            *)
LEMMA LinesAre ==
  ASSUME UnitInv
  PROVE  /\ Lines = 1..Len(unit) /\ Len(unit) \in Nat /\ Lines \subseteq 1..MaxLines /\ Lines \subseteq 1..(MaxLines + 1)
         /\ \A i \in Lines : i + 1 \in 1..(MaxLines + 1) /\ i \in Nat \ {0}
<1>1. Lines = 1..Len(unit) /\ Len(unit) \in Nat /\ Len(unit) <= MaxLines
  BY UnitTypes DEF UnitInv, UnitType
<1> QED BY ONLY <1>1, LimitAssumption

(* The end of a line where the loops ds end.                                *)
LEMMA CloseIs ==
  ASSUME UnitInv, NEW f \in FtnType, NEW i \in Lines, NEW ds \in SUBSET Ends(i)
  PROVE  FtnOK(Close(f, i, ds)) /\ Closes(Close(f, i, ds), i, ds) /\ Carries(f, Close(f, i, ds))
<1>1. i + 1 \in 1..(MaxLines + 1) /\ i \in 1..(MaxLines + 1) /\ Lines = 1..Len(unit) /\ Len(unit) \in Nat
  BY LinesAre
<1>2. CASE ds = {}
  BY <1>1, <1>2, AtIs DEF Close, Closes
<1>3. CASE ds # {}
  <2>1. ds \in SUBSET (1..Len(unit))
    BY <1>1 DEF Ends
  <2>2. \E d \in ds : \A e \in ds : e <= d
    BY <1>1, <1>3, <2>1, Largest
  <2>3. PICK d : d = (CHOOSE x \in ds : \A e \in ds : e <= x)
    OBVIOUS
  <2>4. d \in ds /\ \A e \in ds : e <= d
    BY <2>2, <2>3
  <2>5. d \in Nat
    BY <1>1, <2>1, <2>4
  <2>6. PICK h : h = [f EXCEPT !.at = i, !.stage = "close", !.loop = d]
    OBVIOUS
  <2>7. h \in FtnType /\ h.at = i /\ h.stage = "close" /\ h.loop = d
    BY <1>1, <2>5, <2>6 DEF FtnType
  <2>8. h.left = f.left /\ h.val = f.val /\ h.asg = f.asg /\ h.on = f.on
    BY <2>6 DEF FtnType
  <2>9. Close(f, i, ds) = h
    BY <1>3, <2>3, <2>6 DEF Close
  <2>10. FtnOK(h)
    BY <2>4, <2>7 DEF FtnOK
  <2>11. Closes(h, i, ds)
    BY <1>3, <2>4, <2>7 DEF Closes
  <2> QED BY <2>8, <2>9, <2>10, <2>11 DEF Carries
<1> QED BY <1>2, <1>3

(* Where a loop ends.                                                       *)
LEMMA TerminalIs ==
  ASSUME UnitInv, phase = "run", NEW d \in Lines, unit[d].k = "do"
  PROVE  /\ Terminal(d) \in Lines /\ d \in Ends(Terminal(d)) /\ d < Terminal(d)
         /\ \A t \in Lines : d \in Ends(t) => t = Terminal(d)
<1>1. nest = <<>> /\ \A m \in 1..Len(nest) : FALSE
  BY DEF UnitInv, Complete
<1>2. LoopOK(d)
  BY DEF UnitInv, LoopsEnd
<1>3. ~ IsOpen(d)
  BY <1>1 DEF IsOpen
<1>4. PICK t \in Lines : d < t /\ \A i \in Lines : d \in Ends(i) <=> i = t
  BY <1>2, <1>3 DEF LoopOK
<1>5. Terminal(d) = t
  BY <1>4 DEF Terminal
<1> QED BY <1>4, <1>5

(* Where a block ends.                                                      *)
LEMMA EndOfIs ==
  ASSUME UnitInv, phase = "run", NEW i \in Lines, unit[i].k \in {"elseif", "else"}
  PROVE  EndOf(i) \in Lines /\ unit[EndOf(i)].k = "endif" /\ unit[EndOf(i)].of = unit[i].of /\ i < EndOf(i)
<1>1. nest = <<>> /\ \A m \in 1..Len(nest) : FALSE
  BY DEF UnitInv, Complete
<1>2. Continues(i, "if")
  BY Continuing DEF Arms
<1>3. PICK h : h = unit[i].of /\ h \in Lines /\ unit[h].k = "if"
  BY <1>2, OfBefore
<1>4. BlockOK(h)
  BY <1>3 DEF UnitInv, BlocksEnd
<1>5. ~ IsOpen(h)
  BY <1>1 DEF IsOpen
<1>6. PICK e \in Lines : unit[e].k = "endif" /\ unit[e].of = h
  BY <1>4, <1>5 DEF BlockOK
<1>7. PICK j : j = EndOf(i) /\ j \in Lines /\ unit[j].k = "endif" /\ unit[j].of = h
  BY <1>3, <1>6 DEF EndOf
<1>8. i < j
  <2>1. Lines = 1..Len(unit) /\ Len(unit) \in Nat /\ i \in 1..(Len(unit) + 1)
    BY LinesAre
  <2>2. StackOK(i)
    BY <2>1 DEF UnitInv, Stacks
  <2>3. PICK m : m = Len(Open(i)) /\ m \in 1..Len(Open(i)) /\ Open(i)[m].head = h
    BY <1>2, <1>3, OfBefore
  <2>4. Latest(Open(i)[m], i)
    BY <2>2, <2>3 DEF StackOK
  <2>5. ~ (j < i)
    BY <1>3, <1>7, <2>3, <2>4 DEF Latest
  <2>6. i # j
    BY <1>7
  <2>7. i \in Nat /\ j \in Nat
    BY <1>7, <2>1
  <2> QED BY ONLY <2>5, <2>6, <2>7
<1> QED BY <1>3, <1>7, <1>8

(* The arm that follows a test.                                             *)
LEMMA NextArmIs ==
  ASSUME UnitInv, phase = "run", NEW i \in Lines, unit[i].k \in {"if", "elseif"}
  PROVE  NextArm(i) \in Lines /\ unit[NextArm(i)].k \in Arms /\ NextOne(i, NextArm(i))
<1>1. nest = <<>> /\ \A m \in 1..Len(nest) : FALSE
  BY DEF UnitInv, Complete
<1>2. ArmOK(i)
  BY DEF UnitInv, ArmsEnd
<1>3. PICK j \in Lines : /\ i < j /\ unit[j].of = HeadOf(i) /\ unit[j].k \in Arms
                         /\ \A m \in (i + 1)..(j - 1) : unit[m].of # HeadOf(i)
  BY <1>1, <1>2 DEF ArmOK
<1>4. PICK a : a = NextArm(i)
  OBVIOUS
<1>5. a \in Lines /\ a > i /\ unit[a].of = HeadOf(i) /\ \A m \in (i + 1)..(a - 1) : unit[m].of # HeadOf(i)
  BY <1>3, <1>4, Zenon DEF NextArm, HeadOf
<1>6. a = j
  <2>1. a \in Nat /\ j \in Nat /\ i \in Nat
    BY <1>5, LinesAre
  <2>2. a \notin (i + 1)..(j - 1) /\ j \notin (i + 1)..(a - 1)
    BY <1>3, <1>5
  <2>3. a > i /\ i < j
    BY <1>3, <1>5
  <2> QED BY ONLY <2>1, <2>2, <2>3
<1> QED BY <1>3, <1>4, <1>6 DEF NextOne

(* The line of a label.                                                     *)
LEMMA LineOfIs ==
  ASSUME UnitInv, NEW t \in Lines, unit[t].lab # 0
  PROVE  LineOf(unit[t].lab) = t
<1>1. \A i \in Lines : unit[i].lab = unit[t].lab => i = t
  BY DEF UnitInv, Labelling, LabelsOK
<1> QED BY <1>1 DEF LineOf

(* The parameters of a DO.                                                  *)
LEMMA DoIs ==
  ASSUME UnitInv, NEW d \in Lines
  PROVE  /\ unit[d].do.own \in BOOLEAN /\ unit[d].do.start \in Int /\ unit[d].do.stop \in Int
         /\ unit[d].do.incr \in Int /\ unit[d].do.incr # 0
         /\ \E f \in ToSet(Families) : \E line \in f.lines : unit[d].do = line.do
<1>1. unit[d] \in LineType
  BY UnitTypes DEF UnitInv
<1>2. PICK line \in AllLines : unit[d].do = line.do
  BY <1>1 DEF LineType
<1>3. PICK f \in ToSet(Families) : line \in f.lines
  BY <1>2 DEF AllLines
<1>4. line.do.own \in BOOLEAN /\ line.do.start \in Int /\ line.do.stop \in Int /\ line.do.incr \in Int \ {0}
  BY <1>3, FamiliesAssumption
<1> QED BY <1>2, <1>3, <1>4

(* Iteration counts are numbers.                                            *)
LEMMA IterationsAre ==
  ASSUME UnitInv, NEW d \in Lines, NEW v \in Int
  PROVE  Iterations(unit[d].do, v) \in Int /\ StartOf(unit[d].do, v) \in Int
<1>1. PICK own, start, stop, incr : /\ own = unit[d].do.own /\ start = unit[d].do.start /\ stop = unit[d].do.stop
                                    /\ incr = unit[d].do.incr
  OBVIOUS
<1>2. start \in Int /\ stop \in Int /\ incr \in Int /\ incr # 0 /\ own \in BOOLEAN
  BY <1>1, DoIs
<1>3. PICK a : a = StartOf(unit[d].do, v)
  OBVIOUS
<1>4. a \in Int
  BY <1>1, <1>2, <1>3 DEF StartOf
<1>5. PICK x : x = stop - a + incr
  OBVIOUS
<1>6. x \in Int
  BY <1>2, <1>4, <1>5
<1>7. Quot(x, incr) \in Int
  <2>1. PICK m : m = IF x < 0 THEN -x ELSE x
    OBVIOUS
  <2>2. PICK n : n = IF incr < 0 THEN -incr ELSE incr
    OBVIOUS
  <2>3. m \in Nat
    BY ONLY <1>6, <2>1
  <2>4. n \in Nat /\ n > 0
    BY ONLY <1>2, <2>2
  <2>5. m \div n \in Int
    BY ONLY <2>3, <2>4
  <2>6. PICK q : q = m \div n
    OBVIOUS
  <2>7. q \in Int /\ -q \in Int
    BY ONLY <2>5, <2>6
  <2>8. Quot(x, incr) = IF (x < 0) = (incr < 0) THEN q ELSE -q
    BY ONLY <2>1, <2>2, <2>6, Zenon DEF Quot
  <2> QED BY ONLY <2>7, <2>8
<1>8. Iterations(unit[d].do, v) = Quot(x, incr)
  BY ONLY <1>1, <1>3, <1>5, Zenon DEF Iterations
<1> QED BY <1>3, <1>4, <1>7, <1>8

(* A loop's incrementation.                                                 *)
Incremented(f, h, d, t) ==
  /\ FtnOK(h) /\ h.asg = f.asg /\ h.on = f.on
  /\ h.val = [f.val EXCEPT ![d] = @ + unit[d].do.incr] /\ h.left = [f.left EXCEPT ![d] = @ - 1]
  /\ IF f.left[d] - 1 > 0 THEN Stands(h, d + 1, "stmt") ELSE Closes(h, t, {e \in Ends(t) : e < d})
Counted(f)    == [f EXCEPT !.val[f.loop] = @ + unit[f.loop].do.incr, !.left[f.loop] = @ - 1]
Resumed(f, g) == IF g.left[f.loop] > 0 THEN At(g, f.loop + 1, "stmt")
                                       ELSE Close(g, f.at, {e \in Ends(f.at) : e < f.loop})
(* What an incrementation does.                                             *)
LEMMA IncrementIs ==
  ASSUME UnitInv, NEW f, FtnOK(f), f.stage = "close", NEW d, d = f.loop, NEW t, t = f.at
  PROVE  Incremented(f, Increment(f), d, t) /\ d \in Ends(t) /\ t \in Lines /\ d \in Lines /\ unit[d].k = "do"
<1>1. f \in FtnType /\ t \in Lines /\ d \in Ends(t)
  BY DEF FtnOK
<1>2. d \in Lines /\ unit[d].k = "do" /\ d \in 1..MaxLines /\ d + 1 \in 1..(MaxLines + 1)
  BY <1>1, LinesAre DEF Ends
<1>3. PICK n : n = unit[d].do.incr
  OBVIOUS
<1>4. n \in Int
  BY <1>2, <1>3, DoIs
<1>5. PICK g : g = [f EXCEPT !.val[d] = @ + n, !.left[d] = @ - 1]
  OBVIOUS
<1>6. /\ g \in FtnType /\ g.val = [f.val EXCEPT ![d] = @ + n] /\ g.left = [f.left EXCEPT ![d] = @ - 1]
      /\ g.asg = f.asg /\ g.on = f.on /\ g.at = t
  <2>1. PICK u, v : u = [f.val EXCEPT ![d] = @ + n] /\ v = [f.left EXCEPT ![d] = @ - 1]
    OBVIOUS
  <2>2. u \in [1..MaxLines -> Int] /\ v \in [1..MaxLines -> Int]
    BY <1>1, <1>2, <1>4, <2>1 DEF FtnType
  <2>3. g = [f EXCEPT !.val = u, !.left = v]
    BY <1>1, <1>5, <2>1 DEF FtnType
  <2> QED BY <1>1, <2>1, <2>2, <2>3 DEF FtnType
<1>7. g.left[d] = f.left[d] - 1
  BY <1>1, <1>2, <1>6 DEF FtnType
<1>8. PICK h : h = Increment(f)
  OBVIOUS
<1>9. h = IF g.left[d] > 0 THEN At(g, d + 1, "stmt") ELSE Close(g, t, {e \in Ends(t) : e < d})
  <2>1. g = [f EXCEPT !.val[f.loop] = @ + unit[f.loop].do.incr, !.left[f.loop] = @ - 1]
    BY <1>3, <1>5, Zenon
  <2>2. h = IF g.left[f.loop] > 0 THEN At(g, f.loop + 1, "stmt") ELSE Close(g, f.at, {e \in Ends(f.at) : e < f.loop})
    <3>1. Increment(f) = Resumed(f, Counted(f))
      BY ONLY Zenon DEF Increment, Resumed, Counted
    <3>2. Counted(f) = g
      BY ONLY <2>1, Zenon DEF Counted
    <3>3. h = Resumed(f, g)
      BY ONLY <1>8, <3>1, <3>2, Zenon
    <3> QED BY ONLY <3>3, Zenon DEF Resumed
  <2> QED BY <2>2
<1>10. CASE g.left[d] > 0
  <2>1. FtnOK(h) /\ Stands(h, d + 1, "stmt") /\ Carries(g, h)
    BY <1>2, <1>6, <1>9, <1>10, AtIs
  <2> QED BY <1>1, <1>2, <1>3, <1>6, <1>7, <1>8, <1>10, <2>1 DEF Incremented, Carries
<1>11. CASE ~ (g.left[d] > 0)
  <2>1. PICK ds : ds = {e \in Ends(t) : e < d}
    OBVIOUS
  <2>2. ds \in SUBSET Ends(t) /\ h = Close(g, t, ds)
    BY <1>9, <1>11, <2>1
  <2>3. FtnOK(h) /\ Closes(h, t, ds) /\ Carries(g, h)
    BY <1>1, <1>6, <2>2, CloseIs
  <2> QED BY <1>1, <1>2, <1>3, <1>6, <1>7, <1>8, <1>11, <2>1, <2>3 DEF Incremented, Carries
<1> QED BY <1>10, <1>11

(* The steps that it makes alone.                                           *)
Quiet(f) == f.on /\ f.at \in Lines /\ FtnSilent(f)
Moves(f, h, i, stage) == FtnOK(h) /\ Stands(h, i, stage) /\ Carries(f, h)
(* Which steps are silent, and what they do.                                *)
LEMMA SilentIs ==
  ASSUME UnitInv, phase = "run", NEW f, FtnOK(f), NEW i \in Lines, f.at = i, NEW k, k = unit[i].k
  PROVE  /\ f.stage = "close" => FtnSilent(f) /\ FtnSteps(f) = Increment(f)
         /\ f.stage = "arm" => /\ FtnSilent(f) <=> k \in {"else", "endif"}
                               /\ Moves(f, FtnSteps(f), i + 1, "stmt")
         /\ f.stage = "then" => /\ FtnSilent(f) <=> k = "lifgoto"
                                /\ FtnSteps(f) = JumpTo(f, unit[i].to[1])
         /\ f.stage = "stmt" =>
              /\ FtnSilent(f) <=> k \in {"goto", "continue", "enddo", "elseif", "else", "endif"}
              /\ k = "goto" => FtnSteps(f) = JumpTo(f, unit[i].to[1])
              /\ k \in {"elseif", "else"} => Moves(f, FtnSteps(f), EndOf(i), "stmt")
              /\ k \in {"continue", "enddo", "endif"} => FtnSteps(f) = Finish(f, i)
<1>1. f \in FtnType /\ f.stage \in {"stmt", "arm", "then", "close"}
  BY DEF FtnOK, FtnType
<1>2. CASE f.stage = "close"
  BY <1>2 DEF FtnSilent, FtnSteps
<1>3. CASE f.stage = "arm"
  <2>1. FtnSteps(f) = At(f, i + 1, "stmt")
    BY <1>3 DEF FtnSteps
  <2>2. Moves(f, FtnSteps(f), i + 1, "stmt")
    BY <1>1, <2>1, AtIs, LinesAre DEF Moves
  <2> QED BY <1>3, <2>2 DEF FtnSilent
<1>4. CASE f.stage = "then"
  BY <1>4 DEF FtnSilent, FtnSteps
<1>5. CASE f.stage = "stmt"
  <2>1. k = "goto" => FtnSteps(f) = JumpTo(f, unit[i].to[1])
    BY <1>5 DEF FtnSteps
  <2>2. ASSUME k \in {"elseif", "else"} PROVE Moves(f, FtnSteps(f), EndOf(i), "stmt")
    <3>1. FtnSteps(f) = At(f, EndOf(i), "stmt")
      BY <1>5, <2>2 DEF FtnSteps
    <3>2. EndOf(i) \in 1..(MaxLines + 1)
      BY <2>2, EndOfIs, LinesAre
    <3> QED BY <1>1, <3>1, <3>2, AtIs DEF Moves
  <2>3. k \in {"continue", "enddo", "endif"} => FtnSteps(f) = Finish(f, i)
    BY <1>5 DEF FtnSteps
  <2> QED BY <1>5, <2>1, <2>2, <2>3 DEF FtnSilent
<1> QED BY <1>1, <1>2, <1>3, <1>4, <1>5

(* A jump to a label of those that a line selects from.                      *)
LEMMA JumpIs ==
  ASSUME UnitInv, phase = "run", NEW f \in FtnType, NEW j \in Lines, unit[j].k \notin {"do", "end"},
         NEW l \in ToSet(Chosen(j))
  PROVE  /\ LineOf(l) \in Lines /\ unit[LineOf(l)].lab = l /\ l # 0 /\ Moves(f, JumpTo(f, l), LineOf(l), "stmt")
         /\ l \in ToSet(unit[j].to) => In(LineOf(l)) \subseteq In(j)
<1>1. PICK t \in Lines : unit[t].lab = l /\ l # 0
  BY TargetIs
<1>2. LineOf(l) = t
  BY <1>1, LineOfIs
<1>3. JumpTo(f, l) = At(f, t, "stmt")
  BY <1>2 DEF JumpTo
<1>4. Moves(f, JumpTo(f, l), t, "stmt")
  <2>1. t \in 1..(MaxLines + 1)
    BY LinesAre
  <2> QED BY <1>3, <2>1, AtIs DEF Moves
<1>5. ASSUME l \in ToSet(unit[j].to) PROVE In(t) \subseteq In(j)
  <2>1. PICK x \in DOMAIN unit[j].to : l = unit[j].to[x]
    BY <1>5 DEF ToSet
  <2>2. PICK y \in Lines : unit[y].lab = l /\ In(y) \subseteq In(j)
    BY <2>1 DEF UnitInv, Complete
  <2>3. LineOf(l) = y
    BY <1>1, <2>2, LineOfIs
  <2> QED BY <1>2, <2>2, <2>3
<1> QED BY <1>1, <1>2, <1>4, <1>5

(* The labels of jumps.                                                     *)
LEMMA LabelsAre ==
  ASSUME UnitInv, NEW j \in Lines
  PROVE  /\ unit[j].k \in {"goto", "lifgoto", "assign"} =>
              Chosen(j) = unit[j].to /\ unit[j].to[1] \in ToSet(unit[j].to) /\ unit[j].to[1] \in Nat \ {0}
         /\ unit[j].k \in {"aif", "aifwide"} =>
              /\ Chosen(j) = unit[j].to
              /\ \A m \in 1..3 : unit[j].to[m] \in ToSet(unit[j].to) /\ unit[j].to[m] \in Nat \ {0}
         /\ unit[j].k = "cgoto" => Chosen(j) = unit[j].to
<1>1. unit[j].to \in Seq(Nat) /\ DOMAIN unit[j].to = 1..Len(unit[j].to)
  BY UnitTypes DEF UnitInv
<1>2. LabelsOK(j)
  BY DEF UnitInv, Labelling
<1>3. ASSUME unit[j].k \in {"goto", "lifgoto", "assign"} PROVE unit[j].to[1] \in ToSet(unit[j].to) /\ unit[j].to[1] \in Nat \ {0}
  <2>1. 1 \in DOMAIN unit[j].to
    <3>1. Len(unit[j].to) = 1
      BY <1>2, <1>3 DEF LabelsOK
    <3> QED BY ONLY <1>1, <3>1
  <2>2. unit[j].to[1] \in Labels \ {0}
    BY <1>2, <1>3, <2>1 DEF LabelsOK
  <2> QED BY <2>1, <2>2, LabelNumbers DEF ToSet
<1>4. ASSUME unit[j].k \in {"aif", "aifwide"}, NEW m \in 1..3 PROVE unit[j].to[m] \in ToSet(unit[j].to) /\ unit[j].to[m] \in Nat \ {0}
  <2>1. m \in DOMAIN unit[j].to
    <3>1. Len(unit[j].to) = 3
      BY <1>2, <1>4 DEF LabelsOK
    <3>2. m \in 1..3
      BY <1>4
    <3> QED BY ONLY <1>1, <3>1, <3>2
  <2>2. unit[j].to[m] \in Labels \ {0}
    BY <1>2, <1>4, <2>1 DEF LabelsOK
  <2> QED BY <2>1, <2>2, LabelNumbers DEF ToSet
<1> QED BY <1>3, <1>4 DEF Chosen

(* The machine keeps its types when it moves alone.                         *)
LEMMA FtnMoves ==
  ASSUME UnitInv, phase = "run", NEW f, FtnOK(f), Quiet(f)
  PROVE  FtnOK(FtnSteps(f)) /\ FtnSteps(f).asg = f.asg /\ FtnSteps(f).on = f.on
<1>1. PICK i, k : i = f.at /\ k = unit[i].k /\ i \in Lines
  BY DEF Quiet
<1>2. f \in FtnType /\ f.stage \in {"stmt", "arm", "then", "close"}
  BY DEF FtnOK, FtnType
<1>3. ASSUME NEW s, Moves(f, FtnSteps(f), s, "stmt") PROVE FtnOK(FtnSteps(f)) /\ FtnSteps(f).asg = f.asg /\ FtnSteps(f).on = f.on
  BY <1>3 DEF Moves, Carries
<1>4. CASE f.stage = "close"
  <2>1. FtnSteps(f) = Increment(f)
    BY <1>1, <1>4, SilentIs
  <2>2. Incremented(f, Increment(f), f.loop, f.at)
    BY <1>4, IncrementIs
  <2> QED BY <2>1, <2>2 DEF Incremented
<1>5. CASE f.stage = "arm"
  <2>1. Moves(f, FtnSteps(f), i + 1, "stmt")
    BY <1>1, <1>5, SilentIs
  <2> QED BY <1>3, <2>1
<1>6. CASE (f.stage = "then" /\ k = "lifgoto") \/ (f.stage = "stmt" /\ k = "goto")
  <2>1. FtnSteps(f) = JumpTo(f, unit[i].to[1])
    BY <1>1, <1>6, SilentIs
  <2>2. unit[i].to[1] \in ToSet(Chosen(i)) /\ unit[i].k \notin {"do", "end"}
    BY <1>1, <1>6, LabelsAre
  <2>3. Moves(f, JumpTo(f, unit[i].to[1]), LineOf(unit[i].to[1]), "stmt")
    BY <1>1, <1>2, <2>2, JumpIs
  <2> QED BY <1>3, <2>1, <2>3
<1>7. CASE f.stage = "stmt" /\ k \in {"elseif", "else"}
  <2>1. Moves(f, FtnSteps(f), EndOf(i), "stmt")
    BY <1>1, <1>7, SilentIs
  <2> QED BY <1>3, <2>1
<1>8. CASE f.stage = "stmt" /\ k \in {"continue", "enddo", "endif"}
  <2>1. FtnSteps(f) = Close(f, i, Ends(i))
    BY <1>1, <1>8, SilentIs DEF Finish
  <2>2. FtnOK(FtnSteps(f)) /\ Carries(f, FtnSteps(f))
    BY <1>1, <1>2, <2>1, CloseIs
  <2> QED BY <2>2 DEF Carries
<1>9. FtnSilent(f)
  BY DEF Quiet
<1>10. (f.stage = "then" => k = "lifgoto") /\ (f.stage = "stmt" => k \in {"goto", "continue", "enddo", "elseif", "else", "endif"})
  BY <1>1, <1>9, SilentIs
<1> QED BY <1>2, <1>4, <1>5, <1>6, <1>7, <1>8, <1>10

-----------------------------------------------------------------------------
(* The bytecode. *)

(* What an instruction that nothing is seen of does: c is the code before    *)
(* it, h the code after it.                                                  *)
Branch(ins, c, b) == IF b THEN c.pc + 1 ELSE Target(ins)
Stepped(c, ins, h) ==
  /\ h \in CodeType /\ h.asg = c.asg /\ h.on = c.on
  /\ ins.op = "incr" => h.val = [c.val EXCEPT ![ins.line] = @ + unit[ins.line].do.incr]
  /\ ins.op # "incr" => h.val = c.val
  /\ ins.op = "count" => h.local = [c.local EXCEPT ![ins.loc] = Iterations(unit[ins.line].do, c.val[ins.line])]
  /\ ins.op = "dec" => h.local = [c.local EXCEPT ![ins.loc] = @ - 1]
  /\ ins.op \notin {"count", "dec"} => h.local = c.local
  /\ ins.op = "goto" => h.pc = Target(ins)
  /\ ins.op = "ifne" => h.pc = Branch(ins, c, c.local[ins.loc] = ins.num)
  /\ ins.op = "ifge" => h.pc = Branch(ins, c, c.local[ins.loc] < 0)
  /\ ins.op = "ifgt" => h.pc = Branch(ins, c, c.local[ins.loc] <= 0)
  /\ ins.op \notin {"goto", "ifne", "ifge", "ifgt"} => h.pc = c.pc + 1

(* The instructions of a translated unit.                                   *)
LEMMA InstrIs ==
  ASSUME UnitInv, phase = "run", NEW P, Done(gen, P, Len(unit)), NEW p \in DOMAIN gen.code, NEW ins, ins = gen.code[p]
  PROVE  /\ p \in Nat \ {0} /\ p + 1 \in Nat /\ DOMAIN gen.code = 1..Len(gen.code) /\ Len(gen.code) \in Nat
         /\ ins \in InstrType /\ ins.op \in Ops /\ ins.line \in Lines /\ ins.line \in 1..MaxLines
         /\ ins.to \in Nat /\ ins.num \in Nat /\ ins.lab \in Nat /\ ins.wide \in BOOLEAN
         /\ ins.loc \in 0..(MaxLocal - 1) /\ ins.loc \in Nat /\ ins.loc < MaxLocal
         /\ ins.op \in Branches => Target(ins) \in Nat
         /\ ins.lab = 0 => Target(ins) = ins.to
<1>1. gen \in GenType /\ Ready(gen, p)
  <2>1. gen \in GenType /\ \A q \in 1..Len(gen.code) : Ready(gen, q)
    BY DEF Done
  <2>2. DOMAIN gen.code = 1..Len(gen.code)
    BY <2>1, CodeAt
  <2> QED BY <2>1, <2>2
<1>2. gen.code \in Seq(InstrType) /\ Len(gen.code) \in Nat /\ DOMAIN gen.code = 1..Len(gen.code)
  BY <1>1, CodeAt
<1>3. ins \in InstrType /\ p \in Nat \ {0}
  <2>1. p \in 1..Len(gen.code)
    BY <1>2
  <2>2. ins \in InstrType
    BY <1>2, <2>1, Element
  <2> QED BY <1>2, <2>1, <2>2
<1>4. ins.op \in Ops /\ ins.line \in Nat /\ ins.to \in Nat /\ ins.num \in Nat /\ ins.lab \in Nat /\ ins.loc \in Nat /\ ins.wide \in BOOLEAN
  BY <1>3 DEF InstrType
<1>5. ins.line \in Lines /\ ins.loc < MaxLocal /\ (ins.op \in Branches => (ins.lab = 0 /\ ins.to \in 1..Len(gen.code)) \/ ins.lab \in DOMAIN gen.labels)
  BY <1>1 DEF Ready
<1>6. \A l \in DOMAIN gen.labels : l # 0 /\ gen.labels[l] \in 1..Len(gen.code)
  BY DEF Done
<1>7. ins.lab = 0 => Target(ins) = ins.to
  BY <1>6 DEF Target
<1>8. ins.op \in Branches => Target(ins) \in Nat
  <2>1. CASE ins.lab \in DOMAIN gen.labels
    BY <1>2, <1>6, <2>1 DEF Target
  <2>2. CASE ins.lab \notin DOMAIN gen.labels
    BY <1>4, <2>2 DEF Target
  <2> QED BY <2>1, <2>2
<1>9. ins.loc \in 0..(MaxLocal - 1)
  BY <1>4, <1>5
<1>10. ins.line \in 1..MaxLines
  BY <1>5, LinesAre
<1> QED BY <1>2, <1>3, <1>4, <1>5, <1>7, <1>8, <1>9, <1>10

(* What a silent instruction does.                                          *)
LEMMA CodeStepsAre ==
  ASSUME UnitInv, phase = "run", NEW P, Done(gen, P, Len(unit)), NEW c \in CodeType, c = code, c.pc \in DOMAIN gen.code,
         NEW ins, ins = gen.code[c.pc], ins.op \in Silent
  PROVE  Stepped(c, ins, CodeSteps)
<1>1. PICK h : h = CodeSteps
  OBVIOUS
<1>2. /\ ins.loc \in 0..(MaxLocal - 1) /\ ins.line \in 1..MaxLines /\ ins.line \in Lines /\ c.pc + 1 \in Nat
      /\ ins.op \in Branches => Target(ins) \in Nat
  BY InstrIs
<1>3. Now = ins
  BY DEF Now
<1>4. /\ c.local \in [0..(MaxLocal - 1) -> Int] /\ c.val \in [1..MaxLines -> Int]
  BY DEF CodeType
<1>5. \A pc \in Nat : /\ Go(c, pc) \in CodeType /\ Go(c, pc).pc = pc /\ Go(c, pc).local = c.local /\ Go(c, pc).val = c.val
                      /\ Go(c, pc).asg = c.asg /\ Go(c, pc).on = c.on
  BY DEF Go, CodeType
<1>6. CASE ins.op \in {"goto", "ifne", "ifge", "ifgt"}
  <2>1. h = Go(c, IF ins.op = "goto" THEN Target(ins) ELSE
                  IF ins.op = "ifne" THEN Branch(ins, c, c.local[ins.loc] = ins.num) ELSE
                  IF ins.op = "ifge" THEN Branch(ins, c, c.local[ins.loc] < 0)
                  ELSE Branch(ins, c, c.local[ins.loc] <= 0))
    BY <1>1, <1>3, <1>6 DEF CodeSteps, Branch
  <2>2. PICK pc : /\ ins.op = "goto" => pc = Target(ins)
                  /\ ins.op = "ifne" => pc = Branch(ins, c, c.local[ins.loc] = ins.num)
                  /\ ins.op = "ifge" => pc = Branch(ins, c, c.local[ins.loc] < 0)
                  /\ ins.op = "ifgt" => pc = Branch(ins, c, c.local[ins.loc] <= 0)
                  /\ h = Go(c, pc)
    BY <1>6, <2>1
  <2>3. pc \in Nat
    <3>1. Target(ins) \in Nat
      BY <1>2, <1>6 DEF Branches
    <3> QED BY <1>2, <1>6, <2>2, <3>1 DEF Branch
  <2> QED BY <1>1, <1>5, <1>6, <2>2, <2>3 DEF Stepped
<1>7. CASE ins.op \in {"catch", "unused"}
  <2>1. h = Go(c, c.pc + 1)
    BY <1>1, <1>3, <1>7 DEF CodeSteps
  <2> QED BY <1>1, <1>2, <1>5, <1>7, <2>1 DEF Stepped
<1>8. CASE ins.op \in {"count", "dec"}
  <2>1. PICK x : x = IF ins.op = "count" THEN Iterations(unit[ins.line].do, c.val[ins.line]) ELSE c.local[ins.loc] - 1
    OBVIOUS
  <2>2. x \in Int
    <3>1. c.val[ins.line] \in Int /\ c.local[ins.loc] \in Int
      BY <1>2, <1>4
    <3>2. Iterations(unit[ins.line].do, c.val[ins.line]) \in Int
      BY <1>2, <3>1, IterationsAre
    <3>3. c.local[ins.loc] - 1 \in Int
      BY <3>1
    <3> QED BY ONLY <2>1, <3>2, <3>3
  <2>3. PICK loc : loc = [c.local EXCEPT ![ins.loc] = x]
    OBVIOUS
  <2>4. loc \in [0..(MaxLocal - 1) -> Int]
    BY <1>2, <1>4, <2>2, <2>3
  <2>5. h = Go([c EXCEPT !.local = loc], c.pc + 1)
    BY <1>1, <1>3, <1>8, <2>1, <2>3 DEF CodeSteps
  <2>6. h = [[c EXCEPT !.local = loc] EXCEPT !.pc = c.pc + 1]
    BY <2>5 DEF Go
  <2>7. h \in CodeType /\ h.pc = c.pc + 1 /\ h.local = loc /\ h.val = c.val /\ h.asg = c.asg /\ h.on = c.on
    BY <1>2, <2>4, <2>6 DEF CodeType
  <2> QED BY <1>1, <1>8, <2>1, <2>3, <2>7 DEF Stepped
<1>9. CASE ins.op = "incr"
  <2>1. PICK n : n = unit[ins.line].do.incr
    OBVIOUS
  <2>2. n \in Int
    BY <1>2, <2>1, DoIs
  <2>3. PICK v : v = [c.val EXCEPT ![ins.line] = @ + n]
    OBVIOUS
  <2>4. v \in [1..MaxLines -> Int]
    BY <1>2, <1>4, <2>2, <2>3
  <2>5. h = Go([c EXCEPT !.val = v], c.pc + 1)
    BY <1>1, <1>3, <1>9, <2>1, <2>3 DEF CodeSteps
  <2>6. h = [[c EXCEPT !.val = v] EXCEPT !.pc = c.pc + 1]
    BY <2>5 DEF Go
  <2>7. h \in CodeType /\ h.pc = c.pc + 1 /\ h.local = c.local /\ h.val = v /\ h.asg = c.asg /\ h.on = c.on
    BY <1>2, <2>4, <2>6 DEF CodeType
  <2> QED BY <1>1, <1>9, <2>1, <2>3, <2>7 DEF Stepped
<1> QED BY <1>6, <1>7, <1>8, <1>9 DEF Silent

(* Going somewhere, and storing the value that a statement selects by.      *)
LEMMA GoIs ==
  ASSUME NEW c \in CodeType, NEW pc \in Nat
  PROVE  /\ Go(c, pc) \in CodeType /\ Go(c, pc).pc = pc /\ Go(c, pc).local = c.local /\ Go(c, pc).val = c.val
         /\ Go(c, pc).asg = c.asg /\ Go(c, pc).on = c.on
BY DEF Go, CodeType

Stored(c, h, ins, x, pc) ==
  /\ h \in CodeType /\ h.pc = pc /\ h.val = c.val /\ h.asg = c.asg /\ h.on = c.on
  /\ h.local[ins.loc] = x /\ \A n \in 0..(MaxLocal - 1) : n < ins.loc => h.local[n] = c.local[n]
(* A store leaves the locals below its own alone.                           *)
LEMMA StoreIs ==
  ASSUME NEW c \in CodeType, NEW pc \in Nat, NEW ins, ins.loc \in 0..(MaxLocal - 1), NEW x \in Int
  PROVE  Stored(c, Store(Go(c, pc), ins, x), ins, x, pc)
<1>1. PICK d : d = Go(c, pc)
  OBVIOUS
<1>2. /\ d \in CodeType /\ d.pc = pc /\ d.local = c.local /\ d.val = c.val /\ d.asg = c.asg /\ d.on = c.on
  BY <1>1, GoIs
<1>3. d.local \in [0..(MaxLocal - 1) -> Int]
  BY <1>2 DEF CodeType
<1>4. Top \in Int
  BY DEF Top
<1>5. PICK loc : loc = [n \in 0..(MaxLocal - 1) |-> IF n = ins.loc THEN x
                                                   ELSE IF ins.wide /\ n = ins.loc + 1 THEN Top ELSE d.local[n]]
  OBVIOUS
<1>6. loc \in [0..(MaxLocal - 1) -> Int]
  <2>1. \A n \in 0..(MaxLocal - 1) : loc[n] \in Int
    BY <1>3, <1>4, <1>5
  <2> QED BY <1>5, <2>1
<1>7. PICK h : h = Store(d, ins, x)
  OBVIOUS
<1>8. h = [d EXCEPT !.local = loc]
  <2>1. DOMAIN d.local = 0..(MaxLocal - 1)
    BY <1>3
  <2> QED BY <1>5, <1>7, <2>1 DEF Store
<1>9. h \in CodeType /\ h.local = loc /\ h.pc = pc /\ h.val = c.val /\ h.asg = c.asg /\ h.on = c.on
  BY <1>2, <1>6, <1>8 DEF CodeType
<1>10. loc[ins.loc] = x
  BY <1>5
<1>11. ASSUME NEW n \in 0..(MaxLocal - 1), n < ins.loc PROVE loc[n] = c.local[n]
  <2>1. n # ins.loc /\ n # ins.loc + 1
    BY <1>11
  <2> QED BY <1>2, <1>5, <2>1
<1> QED BY <1>1, <1>7, <1>9, <1>10, <1>11 DEF Stored

(* What the machine is about to do, kind by kind.                           *)
LEMMA FtnOpIs ==
  ASSUME UnitInv, ftn.at \in Lines, NEW k, k = unit[ftn.at].k
  PROVE  /\ k \in Kinds /\ Cur = unit[ftn.at]
         /\ k \in {"if", "elseif"} => FtnOp = "test"
         /\ k \in {"lifwork", "lifgoto"} => FtnOp = IF ftn.stage = "then" THEN "work" ELSE "test"
         /\ k \in {"cgoto", "agoto", "aif", "aifwide"} => FtnOp = "eval"
         /\ k = "do" => FtnOp = "init"
         /\ k = "end" => FtnOp = "return"
         /\ k \notin {"if", "elseif", "lifwork", "lifgoto", "cgoto", "agoto", "aif", "aifwide", "do", "end"} => FtnOp = k
<1>1. k \in Kinds /\ Cur = unit[ftn.at]
  BY UnitTypes DEF UnitInv, Cur
<1> QED BY <1>1 DEF FtnOp

(* Which statement is about to be seen.                                     *)
LEMMA OpKinds ==
  ASSUME UnitInv, ftn.at \in Lines, NEW k, k = unit[ftn.at].k
  PROVE  /\ FtnOp = "init" => k = "do"
         /\ FtnOp = "assign" => k = "assign"
         /\ FtnOp = "eval" => k \in {"cgoto", "agoto", "aif", "aifwide"}
         /\ FtnOp = "test" => k \in {"if", "elseif", "lifwork", "lifgoto"}
         /\ FtnOp = "work" => k \in {"work", "lifwork", "lifgoto"}
         /\ FtnOp = "stop" => k = "stop"
         /\ FtnOp = "return" => k \in {"return", "end"}
BY FtnOpIs DEF Kinds

-----------------------------------------------------------------------------
(* The actions that both take. *)

Runs(P) == UnitInv /\ phase = "run" /\ Done(gen, P, Len(unit)) /\ code \in CodeType /\ FtnOK(ftn)
Goes(c, h, pc) == h \in CodeType /\ h.pc = pc /\ h.local = c.local /\ h.val = c.val /\ h.asg = c.asg /\ h.on = c.on
Finishes(f, h, i) == FtnOK(h) /\ Closes(h, i, Ends(i)) /\ Carries(f, h)

(* What all steps of both machines have in common.                          *)
LEMMA BothIs ==
  ASSUME NEW P, Runs(P), NEW op, NEW c, NEW f, Both(op, c, f)
  PROVE  /\ Meeting /\ Now.op = op /\ FtnOp = op /\ code' = c /\ ftn' = f
         /\ UnitInv /\ phase = "run" /\ Done(gen, P, Len(unit)) /\ code \in CodeType /\ FtnOK(ftn) /\ ftn \in FtnType
         /\ code.pc \in DOMAIN gen.code /\ code.pc \in Nat \ {0} /\ code.pc + 1 \in Nat /\ ftn.at \in Lines /\ code.on /\ ftn.on
         /\ Now = gen.code[code.pc] /\ Now.to \in Nat /\ Now.loc \in 0..(MaxLocal - 1) /\ Now.num \in Nat /\ Now.line \in Lines /\ Now.line \in 1..MaxLines
         /\ Goes(code, Past, code.pc + 1) /\ \A pc \in Nat : Goes(code, Go(code, pc), pc)
<1>1. /\ Meeting /\ Now.op = op /\ FtnOp = op /\ code' = c /\ ftn' = f
      /\ UnitInv /\ phase = "run" /\ Done(gen, P, Len(unit)) /\ code \in CodeType /\ FtnOK(ftn) /\ ftn \in FtnType
      /\ code.pc \in DOMAIN gen.code /\ ftn.at \in Lines /\ code.on /\ ftn.on
  BY DEF Both, Runs, Meeting, Running, FtnOn, FtnOK
<1>2. PICK p, ins : p = code.pc /\ ins = gen.code[p] /\ Now = ins /\ p \in DOMAIN gen.code
  BY <1>1 DEF Now
<1>3. /\ p \in Nat \ {0} /\ p + 1 \in Nat /\ ins.to \in Nat /\ ins.loc \in 0..(MaxLocal - 1) /\ ins.num \in Nat /\ ins.line \in Lines
      /\ ins.line \in 1..MaxLines
  BY <1>1, <1>2, InstrIs
<1>4. \A pc \in Nat : Goes(code, Go(code, pc), pc)
  BY <1>1, GoIs DEF Goes
<1>5. Goes(code, Past, code.pc + 1)
  BY <1>2, <1>3, <1>4 DEF Past
<1> QED BY <1>1, <1>2, <1>3, <1>4, <1>5

(* What each step of both machines does.                                    *)
LEMMA WorkIs ==
  ASSUME NEW P, Runs(P), Work
  PROVE  Goes(code, code', code.pc + 1) /\ Finishes(ftn, ftn', ftn.at) /\ FtnOp = "work" /\ Now.op = "work" /\ Meeting
<1>1. Both("work", Past, Finish(ftn, ftn.at))
  BY DEF Work
<1>2. /\ ftn.at \in Lines /\ ftn \in FtnType /\ ftn' = Finish(ftn, ftn.at) /\ code' = Past /\ Goes(code, Past, code.pc + 1) /\ UnitInv
      /\ FtnOp = "work" /\ Now.op = "work" /\ Meeting
  BY <1>1, BothIs
<1>3. Finishes(ftn, Finish(ftn, ftn.at), ftn.at)
  BY <1>2, CloseIs DEF Finish, Finishes
<1> QED BY <1>2, <1>3

(* A reflective call that fails.                                            *)
LEMMA ThrowIs ==
  ASSUME NEW P, Runs(P), Throw
  PROVE  /\ Meeting /\ Now.op = "work" /\ reflect
         /\ code.pc \in gen.range.from..(gen.range.to - 1)
         /\ \E h \in gen.range.at : h \in Nat /\ Goes(code, code', h)
         /\ Moves(ftn, ftn', Len(unit), "stmt")
<1>1. PICK h \in gen.range.at : /\ reflect /\ code.pc \in gen.range.from..(gen.range.to - 1)
                                /\ Both("work", Go(code, h), At(ftn, Len(unit), "stmt"))
  BY DEF Throw
<1>2. /\ Meeting /\ Now.op = "work" /\ ftn \in FtnType /\ ftn' = At(ftn, Len(unit), "stmt") /\ code' = Go(code, h) /\ UnitInv
      /\ ftn.at \in Lines /\ Done(gen, P, Len(unit)) /\ \A pc \in Nat : Goes(code, Go(code, pc), pc)
  BY <1>1, BothIs
<1>3. h \in Nat
  BY <1>2 DEF Done, GenType
<1>4. Len(unit) \in 1..(MaxLines + 1)
  BY <1>2, LinesAre
<1>5. Moves(ftn, At(ftn, Len(unit), "stmt"), Len(unit), "stmt")
  BY <1>2, <1>4, AtIs DEF Moves
<1> QED BY <1>1, <1>2, <1>3, <1>5

Thens(f, h) == FtnOK(h) /\ h.at = f.at /\ h.stage = "then" /\ h.loop = f.loop /\ Carries(f, h)
Tested(b, i, k) ==
  /\ Goes(code, code', IF b THEN code.pc + 1 ELSE Now.to)
  /\ k \in {"if", "elseif"} => IF b THEN Moves(ftn, ftn', i + 1, "stmt") ELSE Moves(ftn, ftn', NextArm(i), "arm")
  /\ k \in {"lifwork", "lifgoto"} => IF b THEN Thens(ftn, ftn') ELSE Finishes(ftn, ftn', i)
(* A test.                                                                  *)
LEMMA TestIs ==
  ASSUME NEW P, Runs(P), Test, NEW i, i = ftn.at, NEW k, k = unit[i].k
  PROVE  Meeting /\ Now.op = "test" /\ FtnOp = "test" /\ k \in {"if", "elseif", "lifwork", "lifgoto"} /\ \E b \in BOOLEAN : Tested(b, i, k)
<1>1. PICK b \in BOOLEAN :
        Both("test", IF b THEN Past ELSE Go(code, Now.to),
             IF Cur.k \in {"if", "elseif"}
             THEN IF b THEN At(ftn, ftn.at + 1, "stmt") ELSE At(ftn, NextArm(ftn.at), "arm")
             ELSE IF b THEN [ftn EXCEPT !.stage = "then"] ELSE Finish(ftn, ftn.at))
  BY DEF Test
<1>2. PICK c, f : /\ c = IF b THEN Past ELSE Go(code, Now.to)
                  /\ f = IF Cur.k \in {"if", "elseif"}
                         THEN IF b THEN At(ftn, ftn.at + 1, "stmt") ELSE At(ftn, NextArm(ftn.at), "arm")
                         ELSE IF b THEN [ftn EXCEPT !.stage = "then"] ELSE Finish(ftn, ftn.at)
  OBVIOUS
<1>3. Both("test", c, f)
  BY <1>1, <1>2
<1>4. /\ Meeting /\ Now.op = "test" /\ FtnOp = "test" /\ ftn \in FtnType /\ ftn' = f /\ code' = c /\ UnitInv /\ phase = "run"
      /\ ftn.at \in Lines /\ Goes(code, Past, code.pc + 1) /\ Now.to \in Nat /\ FtnOK(ftn)
      /\ \A pc \in Nat : Goes(code, Go(code, pc), pc)
  BY <1>3, BothIs
<1>5. k \in {"if", "elseif", "lifwork", "lifgoto"} /\ Cur.k = k /\ i \in Lines
  BY <1>4, OpKinds, FtnOpIs
<1>6. Goes(code, code', IF b THEN code.pc + 1 ELSE Now.to)
  BY <1>2, <1>4
<1>7. ASSUME k \in {"if", "elseif"} PROVE IF b THEN Moves(ftn, ftn', i + 1, "stmt") ELSE Moves(ftn, ftn', NextArm(i), "arm")
  <2>1. f = IF b THEN At(ftn, i + 1, "stmt") ELSE At(ftn, NextArm(i), "arm")
    BY <1>2, <1>5, <1>7
  <2>2. i + 1 \in 1..(MaxLines + 1) /\ NextArm(i) \in 1..(MaxLines + 1)
    BY <1>4, <1>5, <1>7, NextArmIs, LinesAre
  <2> QED BY <1>4, <2>1, <2>2, AtIs DEF Moves
<1>8. ASSUME k \in {"lifwork", "lifgoto"} PROVE IF b THEN Thens(ftn, ftn') ELSE Finishes(ftn, ftn', i)
  <2>1. f = IF b THEN [ftn EXCEPT !.stage = "then"] ELSE Finish(ftn, i)
    BY <1>2, <1>5, <1>8
  <2>2. CASE b
    <3>1. f = [ftn EXCEPT !.stage = "then"]
      BY <2>1, <2>2
    <3>2. /\ f \in FtnType /\ f.stage = "then" /\ f.at = ftn.at /\ f.loop = ftn.loop /\ f.left = ftn.left /\ f.val = ftn.val
          /\ f.asg = ftn.asg /\ f.on = ftn.on
      BY <1>4, <3>1 DEF FtnType
    <3>3. Thens(ftn, f)
      BY <3>2 DEF Thens, FtnOK, Carries
    <3> QED BY <1>4, <2>2, <3>3
  <2>3. CASE ~ b
    <3>1. Finishes(ftn, Finish(ftn, i), i)
      BY <1>4, <1>5, CloseIs DEF Finish, Finishes
    <3> QED BY <1>4, <2>1, <2>3, <3>1
  <2> QED BY <2>2, <2>3
<1> QED BY <1>4, <1>5, <1>6, <1>7, <1>8 DEF Tested

(* A DO sets its variable, counts its iterations and enters or skips.       *)
Initialised(i, ins) ==
  LET n == Iterations(unit[i].do, ftn.val[i])
  IN /\ code' \in CodeType /\ code'.pc = code.pc + 1 /\ code'.local = code.local /\ code'.asg = code.asg /\ code'.on = code.on
     /\ code'.val = [code.val EXCEPT ![ins.line] = StartOf(unit[ins.line].do, code.val[ins.line])]
     /\ FtnOK(ftn') /\ ftn'.asg = ftn.asg /\ ftn'.on = ftn.on
     /\ ftn'.val = [ftn.val EXCEPT ![i] = StartOf(unit[i].do, ftn.val[i])]
     /\ ftn'.left = [ftn.left EXCEPT ![i] = IF n > 0 THEN n ELSE 0]
     /\ IF n > 0 THEN Stands(ftn', i + 1, "stmt")
                 ELSE Closes(ftn', Terminal(i), {e \in Ends(Terminal(i)) : e < i})
(* The start of a loop.                                                     *)
LEMMA InitialiseIs ==
  ASSUME NEW P, Runs(P), Initialise, NEW i, i = ftn.at
  PROVE  Meeting /\ Now.op = "init" /\ FtnOp = "init" /\ unit[i].k = "do" /\ Initialised(i, Now)
<1>1. PICK do, v, n, f, t, w, ins, h, c :
        /\ do = Cur.do /\ v = ftn.val[i] /\ n = Iterations(do, v)
        /\ f = [ftn EXCEPT !.val[i] = StartOf(do, v), !.left[i] = IF n > 0 THEN n ELSE 0]
        /\ t = Terminal(i) /\ ins = Now /\ w = code.val[ins.line]
        /\ c = [Past EXCEPT !.val[ins.line] = StartOf(unit[ins.line].do, w)]
        /\ h = IF n > 0 THEN At(f, i + 1, "stmt") ELSE Close(f, t, {e \in Ends(t) : e < i})
  OBVIOUS
<1>2. Both("init", c, h)
  BY <1>1, Zenon DEF Initialise
<1>3. /\ Meeting /\ Now.op = "init" /\ FtnOp = "init" /\ ftn \in FtnType /\ ftn' = h /\ code' = c /\ UnitInv /\ phase = "run"
      /\ i \in Lines /\ Goes(code, Past, code.pc + 1) /\ ins.line \in 1..MaxLines /\ ins.line \in Lines /\ code \in CodeType
  BY <1>1, <1>2, BothIs
<1>4. unit[i].k = "do" /\ do = unit[i].do
  BY <1>1, <1>3, OpKinds DEF Cur
<1>5. i \in 1..MaxLines /\ i + 1 \in 1..(MaxLines + 1)
  BY <1>3, LinesAre
<1>6. v \in Int /\ w \in Int
  BY <1>1, <1>3, <1>5 DEF FtnType, CodeType
<1>7. n \in Int /\ StartOf(do, v) \in Int /\ StartOf(unit[ins.line].do, w) \in Int
  BY <1>1, <1>3, <1>4, <1>6, IterationsAre
<1>8. PICK a, b : a = StartOf(do, v) /\ b = StartOf(unit[ins.line].do, w) /\ a \in Int /\ b \in Int
  BY <1>7
<1>9. PICK x : x = (IF n > 0 THEN n ELSE 0) /\ x \in Int
  BY <1>7
<1>10. PICK va, le, vb : va = [ftn.val EXCEPT ![i] = a] /\ le = [ftn.left EXCEPT ![i] = x] /\ vb = [code.val EXCEPT ![ins.line] = b]
  OBVIOUS
<1>11. va \in [1..MaxLines -> Int] /\ le \in [1..MaxLines -> Int] /\ vb \in [1..MaxLines -> Int]
  BY <1>3, <1>5, <1>8, <1>9, <1>10 DEF FtnType, CodeType
<1>12. f = [ftn EXCEPT !.val = va, !.left = le]
  <2>1. f = [ftn EXCEPT !.val[i] = a, !.left[i] = x]
    BY <1>1, <1>8, <1>9
  <2> QED BY <1>3, <1>10, <2>1 DEF FtnType
<1>13. f \in FtnType /\ f.val = va /\ f.left = le /\ f.asg = ftn.asg /\ f.on = ftn.on
  BY <1>3, <1>11, <1>12 DEF FtnType
<1>14. c \in CodeType /\ c.pc = code.pc + 1 /\ c.local = code.local /\ c.asg = code.asg /\ c.on = code.on /\ c.val = vb
  <2>1. PICK d : d = Past
    OBVIOUS
  <2>2. d \in CodeType /\ d.pc = code.pc + 1 /\ d.local = code.local /\ d.val = code.val /\ d.asg = code.asg /\ d.on = code.on
    BY <1>3, <2>1 DEF Goes
  <2>3. c = [d EXCEPT !.val = [d.val EXCEPT ![ins.line] = b]]
    BY <1>1, <1>8, <2>1
  <2>4. c = [d EXCEPT !.val = vb]
    BY <1>10, <2>2, <2>3
  <2> QED BY <1>11, <2>2, <2>4 DEF CodeType
<1>15. FtnOK(h) /\ Carries(f, h) /\ IF n > 0 THEN Stands(h, i + 1, "stmt") ELSE Closes(h, t, {e \in Ends(t) : e < i})
  <2>1. CASE n > 0
    <3>1. h = At(f, i + 1, "stmt")
      BY <1>1, <2>1
    <3> QED BY <1>5, <1>13, <2>1, <3>1, AtIs
  <2>2. CASE ~ (n > 0)
    <3>1. PICK ds : ds = {e \in Ends(t) : e < i}
      OBVIOUS
    <3>2. ds \in SUBSET Ends(t) /\ h = Close(f, t, ds)
      BY <1>1, <2>2, <3>1
    <3>3. t \in Lines
      BY <1>1, <1>3, <1>4, TerminalIs
    <3>4. FtnOK(h) /\ Carries(f, h) /\ Closes(h, t, ds)
      BY <1>3, <1>13, <3>2, <3>3, CloseIs
    <3> QED BY <2>2, <3>1, <3>4
  <2> QED BY <2>1, <2>2
<1>16. ftn'.val = va /\ ftn'.left = le /\ ftn'.asg = ftn.asg /\ ftn'.on = ftn.on /\ FtnOK(ftn')
  BY <1>3, <1>13, <1>15 DEF Carries
<1>17. n = Iterations(unit[i].do, ftn.val[i]) /\ a = StartOf(unit[i].do, ftn.val[i]) /\ b = StartOf(unit[ins.line].do, code.val[ins.line])
  BY <1>1, <1>4, <1>8
<1>18. IF n > 0 THEN Stands(ftn', i + 1, "stmt") ELSE Closes(ftn', Terminal(i), {e \in Ends(Terminal(i)) : e < i})
  BY <1>1, <1>3, <1>15
<1>19. Initialised(i, ins)
  BY <1>3, <1>9, <1>10, <1>14, <1>16, <1>17, <1>18, Zenon DEF Initialised
<1> QED BY <1>1, <1>3, <1>4, <1>19

(* An ASSIGN. *)
LEMMA AssignIs ==
  ASSUME NEW P, Runs(P), AssignLabel, NEW i, i = ftn.at
  PROVE  /\ Meeting /\ Now.op = "assign" /\ FtnOp = "assign" /\ unit[i].k = "assign"
         /\ code' \in CodeType /\ code'.pc = code.pc + 1 /\ code'.local = code.local /\ code'.val = code.val
         /\ code'.asg = Now.num /\ code'.on = code.on
         /\ FtnOK(ftn') /\ Closes(ftn', i, Ends(i)) /\ ftn'.left = ftn.left /\ ftn'.val = ftn.val
         /\ ftn'.asg = unit[i].to[1] /\ ftn'.on = ftn.on
<1>1. PICK c, f, h : c = [Past EXCEPT !.asg = Now.num] /\ f = [ftn EXCEPT !.asg = Cur.to[1]] /\ h = Finish(f, i)
  OBVIOUS
<1>2. Both("assign", c, h)
  BY <1>1 DEF AssignLabel
<1>3. /\ Meeting /\ Now.op = "assign" /\ FtnOp = "assign" /\ ftn \in FtnType /\ ftn' = h /\ code' = c /\ UnitInv
      /\ i \in Lines /\ Goes(code, Past, code.pc + 1) /\ Now.num \in Nat
  BY <1>2, BothIs
<1>4. unit[i].k = "assign" /\ Cur = unit[i]
  BY <1>3, OpKinds DEF Cur
<1>5. unit[i].to[1] \in Nat
  BY <1>3, <1>4, LabelsAre
<1>6. PICK d, m : d = Past /\ m = Now.num
  OBVIOUS
<1>7. d \in CodeType /\ d.pc = code.pc + 1 /\ d.local = code.local /\ d.val = code.val /\ d.asg = code.asg /\ d.on = code.on
  BY <1>3, <1>6 DEF Goes
<1>8. c = [d EXCEPT !.asg = m] /\ m \in Nat
  BY <1>1, <1>3, <1>6
<1>9. c \in CodeType /\ c.pc = code.pc + 1 /\ c.local = code.local /\ c.val = code.val /\ c.asg = m /\ c.on = code.on
  BY <1>7, <1>8 DEF CodeType
<1>10. PICK l : l = unit[i].to[1]
  OBVIOUS
<1>11. f = [ftn EXCEPT !.asg = l] /\ l \in Nat
  BY <1>1, <1>4, <1>5, <1>10
<1>12. f \in FtnType /\ f.left = ftn.left /\ f.val = ftn.val /\ f.asg = l /\ f.on = ftn.on
  BY <1>3, <1>11 DEF FtnType
<1>13. FtnOK(h) /\ Closes(h, i, Ends(i)) /\ Carries(f, h)
  BY <1>1, <1>3, <1>12, CloseIs DEF Finish
<1> QED BY <1>3, <1>4, <1>6, <1>9, <1>10, <1>12, <1>13 DEF Carries

(* A selection: x is the value, j the label that it selects, or 0.          *)
Selects(i, x, j) ==
  LET l == unit[i].to
      k == unit[i].k
  IN /\ k = "cgoto" => j = IF x \in DOMAIN l THEN l[x] ELSE 0
     /\ k = "agoto" => j = x
     /\ k \in {"aif", "aifwide"} => j = IF x < 0 THEN l[1] ELSE IF x = 0 THEN l[2] ELSE l[3]
ValueOf(i, x) ==
  LET l == unit[i].to
      k == unit[i].k
  IN /\ x \in Int
     /\ k = "cgoto" => x \in 0..(Len(l) + 1)
     /\ k = "agoto" => x \in ToSet(Chosen(i)) /\ In(LineOf(x)) \subseteq In(i)
Selected(i, ins, x, j) ==
  /\ ValueOf(i, x) /\ Selects(i, x, j) /\ Stored(code, code', ins, x, code.pc + 1)
  /\ j # 0 => j \in ToSet(Chosen(i)) /\ In(LineOf(j)) \subseteq In(i) /\ Moves(ftn, ftn', LineOf(j), "stmt")
  /\ j = 0 => unit[i].k = "cgoto" /\ Finishes(ftn, ftn', i)
(* A selection.                                                             *)
LEMMA EvalIs ==
  ASSUME NEW P, Runs(P), Eval, NEW i, i = ftn.at
  PROVE  /\ Meeting /\ Now.op = "eval" /\ FtnOp = "eval" /\ unit[i].k \in {"cgoto", "agoto", "aif", "aifwide"}
         /\ \E x, j : Selected(i, Now, x, j)
<1>1. PICK x \in Values : Evaluate(x)
  BY DEF Eval
<1>2. PICK l, j, k : /\ l = Cur.to /\ k = Cur.k
                     /\ j = CASE k = "cgoto" -> IF x \in DOMAIN l THEN l[x] ELSE 0
                              [] k = "agoto" -> x
                              [] OTHER -> IF x < 0 THEN l[1] ELSE IF x = 0 THEN l[2] ELSE l[3]
  OBVIOUS
<1>3. PICK c, f : c = Store(Past, Now, x) /\ f = IF j = 0 THEN Finish(ftn, i) ELSE JumpTo(ftn, j)
  OBVIOUS
<1>4. Both("eval", c, f)
  BY <1>1, <1>2, <1>3, Zenon DEF Evaluate
<1>5. /\ Meeting /\ Now.op = "eval" /\ FtnOp = "eval" /\ ftn \in FtnType /\ ftn' = f /\ code' = c /\ UnitInv /\ phase = "run"
      /\ i \in Lines /\ code.pc + 1 \in Nat /\ Now.loc \in 0..(MaxLocal - 1) /\ code \in CodeType
  BY <1>4, BothIs
<1>6. k \in {"cgoto", "agoto", "aif", "aifwide"} /\ k = unit[i].k /\ l = unit[i].to
  BY <1>2, <1>5, OpKinds DEF Cur
<1>7. l \in Seq(Nat) /\ DOMAIN l = 1..Len(l) /\ Len(l) \in Nat
  BY <1>5, <1>6, UnitTypes DEF UnitInv
<1>8. Selects(i, x, j)
  BY <1>2, <1>6 DEF Selects
<1>9. ValueOf(i, x)
  <2>1. CASE k = "cgoto"
    <3>1. Values = 0..(Len(l) + 1)
      BY <1>2, <2>1 DEF Values
    <3> QED BY <1>1, <1>6, <1>7, <2>1, <3>1 DEF ValueOf
  <2>2. CASE k = "agoto"
    <3>1. x = ftn.asg /\ x \in ToSet(IF l = <<>> THEN assigned ELSE l) /\ In(LineOf(x)) \subseteq In(i)
      BY <1>1, <1>2, <2>2 DEF Values
    <3>2. x \in Int
      BY <1>5, <3>1 DEF FtnType
    <3> QED BY <1>6, <2>2, <3>1, <3>2 DEF ValueOf, Chosen
  <2>3. CASE k \in {"aif", "aifwide"}
    <3>1. x \in {-1, 0, 1}
      BY <1>1, <1>2, <2>3 DEF Values
    <3> QED BY <1>6, <2>3, <3>1 DEF ValueOf
  <2> QED BY <1>6, <2>1, <2>2, <2>3
<1>10. Stored(code, code', Now, x, code.pc + 1)
  BY <1>3, <1>5, <1>9, StoreIs DEF Past, ValueOf
<1>11. j # 0 => j \in ToSet(Chosen(i)) /\ In(LineOf(j)) \subseteq In(i)
  <2>1. CASE k = "cgoto" /\ x \in DOMAIN l
    <3>1. j = l[x] /\ Chosen(i) = l /\ j \in ToSet(l)
      BY <1>2, <1>6, <2>1 DEF Chosen, ToSet
    <3> QED BY <1>5, <1>6, <2>1, <3>1, JumpIs
  <2>2. CASE k = "cgoto" /\ x \notin DOMAIN l
    BY <1>2, <2>2
  <2>3. CASE k = "agoto"
    BY <1>2, <1>6, <1>9, <2>3 DEF ValueOf
  <2>4. CASE k \in {"aif", "aifwide"}
    <3>1. j \in {l[1], l[2], l[3]}
      BY <1>2, <2>4
    <3>2. j \in ToSet(l) /\ Chosen(i) = l
      BY <1>5, <1>6, <2>4, <3>1, LabelsAre
    <3> QED BY <1>5, <1>6, <2>4, <3>2, JumpIs
  <2> QED BY <1>6, <2>1, <2>2, <2>3, <2>4
<1>12. ASSUME j # 0 PROVE Moves(ftn, ftn', LineOf(j), "stmt")
  <2>1. f = JumpTo(ftn, j)
    BY <1>3, <1>12
  <2>2. unit[i].k \notin {"do", "end"}
    BY <1>6
  <2> QED BY <1>5, <1>11, <1>12, <2>1, <2>2, JumpIs
<1>13. ASSUME j = 0 PROVE unit[i].k = "cgoto" /\ Finishes(ftn, ftn', i)
  <2>1. f = Finish(ftn, i)
    BY <1>3, <1>13
  <2>2. Finishes(ftn, f, i)
    BY <1>5, <2>1, CloseIs DEF Finish, Finishes
  <2>3. k # "agoto"
    <3> SUFFICES ASSUME k = "agoto" PROVE FALSE
      OBVIOUS
    <3>1. x \in ToSet(Chosen(i)) /\ j = x
      BY <1>2, <1>6, <1>9 DEF ValueOf
    <3>2. x # 0
      BY <1>5, <1>6, <3>1, TargetIs
    <3> QED BY <1>13, <3>1, <3>2
  <2>4. k \notin {"aif", "aifwide"}
    <3> SUFFICES ASSUME k \in {"aif", "aifwide"} PROVE FALSE
      OBVIOUS
    <3>1. j \in {l[1], l[2], l[3]}
      BY <1>2
    <3>2. l[1] # 0 /\ l[2] # 0 /\ l[3] # 0
      BY <1>5, <1>6, LabelsAre
    <3> QED BY <1>13, <3>1, <3>2
  <2> QED BY <1>5, <1>6, <2>2, <2>3, <2>4
<1>14. Selected(i, Now, x, j)
  BY <1>8, <1>9, <1>10, <1>11, <1>12, <1>13 DEF Selected
<1> QED BY <1>5, <1>6, <1>14

(* The end.                                                                 *)
LEMMA LeaveIs ==
  ASSUME NEW P, Runs(P), Leave
  PROVE  /\ Meeting /\ code' \in CodeType /\ code'.pc = code.pc /\ code'.val = code.val /\ code'.asg = code.asg /\ code'.on = FALSE
         /\ FtnOK(ftn') /\ ftn'.at = ftn.at /\ ftn'.val = ftn.val /\ ftn'.asg = ftn.asg /\ ftn'.on = FALSE
<1>1. PICK op, c, f : c = [code EXCEPT !.on = FALSE] /\ f = [ftn EXCEPT !.on = FALSE] /\ Both(op, c, f)
  BY DEF Leave
<1>2. Meeting /\ ftn \in FtnType /\ FtnOK(ftn) /\ ftn' = f /\ code' = c /\ code \in CodeType
  BY <1>1, BothIs
<1>3. c \in CodeType /\ c.pc = code.pc /\ c.val = code.val /\ c.asg = code.asg /\ c.on = FALSE
  BY <1>1, <1>2 DEF CodeType
<1>4. /\ f \in FtnType /\ f.at = ftn.at /\ f.stage = ftn.stage /\ f.loop = ftn.loop /\ f.val = ftn.val /\ f.asg = ftn.asg /\ f.on = FALSE
  BY <1>1, <1>2 DEF FtnType
<1> QED BY <1>2, <1>3, <1>4 DEF FtnOK

-----------------------------------------------------------------------------
(* The types of the state. *)

RunInv == /\ code \in CodeType /\ ftn \in FtnType
          /\ IF phase = "run" THEN FtnOK(ftn) ELSE code = StartCode /\ ftn = StartFtn

(* The machines start well typed.                                           *)
LEMMA StartsAre == StartCode \in CodeType /\ StartFtn \in FtnType /\ StartFtn.stage = "stmt"
<1>1. StartCode \in CodeType
  BY DEF StartCode, CodeType
<1>2. StartFtn \in FtnType /\ StartFtn.stage = "stmt"
  BY DEF StartFtn, FtnType
<1> QED BY <1>1, <1>2

(* They have not started at first.                                          *)
LEMMA RunInit == Init => RunInv
BY StartsAre DEF Init, RunInv

(* Moving keeps the types.                                                  *)
LEMMA Typed ==
  ASSUME NEW P, Runs(P), Run
  PROVE  code' \in CodeType /\ FtnOK(ftn')
<1>1. UnitInv /\ phase = "run" /\ Done(gen, P, Len(unit)) /\ code \in CodeType /\ FtnOK(ftn)
  BY DEF Runs
<1>2. CASE CodeStep
  <2>1. code.pc \in DOMAIN gen.code /\ Now.op \in Silent /\ code' = CodeSteps /\ ftn' = ftn
    BY <1>2 DEF CodeStep, Running
  <2>2. PICK c, ins : c = code /\ ins = gen.code[c.pc] /\ ins.op \in Silent
    BY <2>1 DEF Now
  <2>3. Stepped(c, ins, CodeSteps)
    BY <1>1, <2>1, <2>2, CodeStepsAre
  <2> QED BY <1>1, <2>1, <2>3 DEF Stepped
<1>3. CASE FtnStep
  <2>1. Quiet(ftn) /\ ftn' = FtnSteps(ftn) /\ code' = code
    BY <1>3 DEF FtnStep, FtnOn, Quiet
  <2> QED BY <1>1, <2>1, FtnMoves
<1>4. CASE Work
  BY <1>4, WorkIs DEF Goes, Finishes
<1>5. CASE Throw
  BY <1>5, ThrowIs DEF Goes, Moves
<1>6. CASE Test
  <2>1. PICK i, k : i = ftn.at /\ k = unit[i].k
    OBVIOUS
  <2>2. PICK b \in BOOLEAN : Tested(b, i, k) /\ k \in {"if", "elseif", "lifwork", "lifgoto"}
    BY <1>6, <2>1, TestIs
  <2> QED BY <2>2 DEF Tested, Goes, Moves, Thens, Finishes
<1>7. CASE Initialise
  <2>1. PICK i : i = ftn.at
    OBVIOUS
  <2>2. Initialised(i, Now)
    BY <1>7, <2>1, InitialiseIs
  <2> QED BY <2>2 DEF Initialised
<1>8. CASE AssignLabel
  BY <1>8, AssignIs
<1>9. CASE Eval
  <2>1. PICK i : i = ftn.at
    OBVIOUS
  <2>2. PICK x, j : Selected(i, Now, x, j)
    BY <1>9, <2>1, EvalIs
  <2> QED BY <2>2 DEF Selected, Stored, Moves, Finishes
<1>10. CASE Leave
  BY <1>10, LeaveIs
<1> QED BY <1>2, <1>3, <1>4, <1>5, <1>6, <1>7, <1>8, <1>9, <1>10 DEF Run

(* What is kept where nothing is read or translated.                        *)
LEMMA OKKept ==
  ASSUME unit' = unit, NEW f
  PROVE  FtnOK(f)' <=> FtnOK(f)
<1>1. Lines' = Lines
  BY DEF Lines
<1>2. \A i : Ends(i)' = Ends(i)
  BY <1>1 DEF Ends
<1> QED BY <1>1, <1>2 DEF FtnOK

(* Running changes nothing but the machines.                                *)
LEMMA RunKeeps ==
  ASSUME Run
  PROVE  UNCHANGED <<family, unit, nest, assigned, reflect, phase, gen>> /\ phase = "run"
BY DEF Run, CodeStep, FtnStep, Work, Throw, Test, Initialise, AssignLabel, Eval, Evaluate, Leave, Both, Meeting, Running

(* Every step keeps them well typed.                                        *)
LEMMA RunStep == UnitInv /\ GenInv /\ RunInv /\ [Next]_vars => RunInv'
<1> SUFFICES ASSUME UnitInv, GenInv, RunInv, [Next]_vars PROVE RunInv'
  OBVIOUS
<1>1. CASE Reading \/ EmitLine
  <2>1. phase \in {"read", "emit"} /\ code' = code /\ ftn' = ftn
    <3>1. CASE EmitLine
      BY <3>1 DEF EmitLine
    <3>2. CASE Reading
      <4>1. PICK s \in Families[family].lines :
              ReadSimple(s) \/ ReadDo(s) \/ ReadEndDo(s) \/ ReadIf(s) \/ ReadArm(s) \/ ReadEndIf(s) \/ ReadEnd(s)
        BY <3>2 DEF Reading
      <4> QED BY <4>1 DEF ReadSimple, ReadDo, ReadEndDo, ReadIf, ReadArm, ReadEndIf, ReadEnd, Read
    <3> QED BY <1>1, <3>1, <3>2
  <2>2. code = StartCode /\ ftn = StartFtn /\ phase # "run"
    BY <2>1 DEF RunInv
  <2>3. StartCode' = StartCode /\ StartFtn' = StartFtn /\ CodeType' = CodeType /\ FtnType' = FtnType
    BY DEF StartCode, StartFtn, CodeType, FtnType
  <2>4. code' \in CodeType' /\ ftn' \in FtnType' /\ ftn'.stage = "stmt"
    BY <2>1, <2>2, <2>3, StartsAre
  <2>5. FtnOK(ftn)'
    BY <2>4 DEF FtnOK
  <2> QED BY <2>1, <2>2, <2>3, <2>4, <2>5 DEF RunInv
<1>2. CASE Run
  <2>1. UNCHANGED <<family, unit, nest, assigned, reflect, phase, gen>> /\ phase = "run"
    BY <1>2, RunKeeps
  <2>2. PICK P : Runs(P)
    BY <2>1 DEF GenInv, RunInv, Runs
  <2>3. PICK c, f : c = code' /\ f = ftn' /\ c \in CodeType /\ FtnOK(f)
    BY <1>2, <2>2, Typed
  <2>4. FtnOK(f)'
    BY <2>1, <2>3, OKKept
  <2>5. code' \in CodeType' /\ FtnOK(ftn)' /\ ftn' \in FtnType'
    BY <2>3, <2>4 DEF CodeType, FtnOK
  <2> QED BY <2>1, <2>5 DEF RunInv
<1>3. CASE Rest \/ UNCHANGED vars
  <2>1. UNCHANGED <<unit, phase, code, ftn>>
    BY <1>3 DEF Rest, vars
  <2>2. PICK f : f = ftn /\ f = ftn'
    BY <2>1
  <2>3. FtnOK(f)' <=> FtnOK(f)
    BY <2>1, OKKept
  <2>4. FtnOK(ftn)' <=> FtnOK(ftn)
    BY <2>2, <2>3
  <2>5. StartCode' = StartCode /\ StartFtn' = StartFtn /\ CodeType' = CodeType /\ FtnType' = FtnType
    BY DEF StartCode, StartFtn, CodeType, FtnType
  <2> QED BY <2>1, <2>4, <2>5 DEF RunInv
<1> QED BY <1>1, <1>2, <1>3 DEF Next

(* The machines are typed, and the Fortran one is at a line or at its end.   *)
THEOREM MachinesAreTyped == Spec => []RunInv
BY RunInit, RunStep, UnitIsLegal, UnitIsTranslated, PTL DEF Spec

(* What the invariants say of the types.                                    *)
LEMMA InvIsTypeOK == UnitInv /\ GenInv /\ RunInv => TypeOK
<1> SUFFICES ASSUME UnitInv, GenInv, RunInv PROVE TypeOK
  OBVIOUS
<1>1. phase \in {"read", "emit", "run"} /\ reflect \in BOOLEAN
  BY DEF UnitInv, UnitType
<1>2. ASSUME NEW i \in Lines PROVE unit[i].k \in Kinds /\ In(i) \subseteq Lines
  <2>1. unit[i].k \in Kinds /\ unit[i].open \in Seq(Entry) /\ i \in 1..(Len(unit) + 1)
    BY UnitTypes, LinesAre DEF UnitInv
  <2>2. PICK s : s = unit[i].open /\ s \in Seq(Entry)
    BY <2>1
  <2>3. \A m \in 1..Len(s) : s[m].arm \in Lines
    BY <2>1, <2>2 DEF UnitInv, Stacks, StackOK, OpenOK, Open
  <2>4. unit[i].k \in Arms => Len(s) - 1 \in 0..Len(s) /\ Len(s) \in Nat
    <3> SUFFICES ASSUME unit[i].k \in Arms PROVE Len(s) - 1 \in 0..Len(s) /\ Len(s) \in Nat
      OBVIOUS
    <3>1. Continues(i, "if")
      BY Continuing
    <3>2. Len(s) \in Nat \ {0}
      BY <2>2, <3>1, OfBefore DEF Open
    <3> QED BY <3>2
  <2>5. PICK r : r = Around(i)
    OBVIOUS
  <2>6. \A n \in ToSet(r) : n.arm \in Lines
    <3>1. CASE unit[i].k \in Arms
      <4>1. PICK n : n = Len(s) - 1 /\ n \in 0..Len(s)
        BY <2>4, <3>1
      <4>2. r = SubSeq(s, 1, n)
        BY <2>2, <2>5, <3>1, <4>1 DEF Around, Arms, Front
      <4>3. r \in Seq(Entry) /\ Len(r) = n /\ \A m \in 1..n : r[m] = s[m]
        BY <2>2, <4>1, <4>2, Prefix
      <4>4. \A m \in 1..n : m \in 1..Len(s)
        BY <2>2, <4>1
      <4> QED BY <2>3, <4>3, <4>4 DEF ToSet
    <3>2. CASE unit[i].k \notin Arms
      <4>1. r = s
        BY <2>2, <2>5, <3>2 DEF Around, Arms
      <4> QED BY <2>2, <2>3, <4>1 DEF ToSet
    <3> QED BY <3>1, <3>2
  <2> QED BY <2>1, <2>5, <2>6 DEF In
<1>3. gen.next \in 0..gen.max /\ gen.max <= MaxLocal /\ \A p \in DOMAIN gen.code : gen.code[p].line \in 0..Len(unit)
  <2>1. Len(unit) \in Nat /\ Lines = 1..Len(unit)
    BY LinesAre
  <2>2. CASE phase = "read"
    <3>1. gen = StartGen
      BY <2>2 DEF GenInv
    <3>2. gen.next = 0 /\ gen.max = 0 /\ gen.code = IF reflect THEN <<Hole>> ELSE <<>>
      BY <3>1 DEF StartGen
    <3>3. \A p \in DOMAIN gen.code : gen.code[p].line = 0
      BY <1>1, <3>2 DEF Hole, Instr
    <3> QED BY <2>1, <3>2, <3>3
  <2>3. CASE phase = "emit"
    <3>1. Sound(gen)
      BY <2>3 DEF GenInv, Translated
    <3>2. gen \in GenType /\ gen.max <= MaxLocal /\ gen.next <= gen.max /\ \A p \in 1..(Where(gen) - 1) : InstrOK(gen, p)
      BY <3>1 DEF Sound
    <3>3. gen.next \in 0..gen.max
      BY <3>2 DEF GenType
    <3>4. ASSUME NEW p \in DOMAIN gen.code PROVE gen.code[p].line \in 0..Len(unit)
      <4>1. PICK w : w = Where(gen)
        OBVIOUS
      <4>2. /\ w \in Nat \ {0} /\ gen.code \in Seq(InstrType) /\ Len(gen.code) \in Nat /\ Len(gen.code) <= w
            /\ w = Len(gen.code) => gen.code # <<>> /\ Last(gen.code).op = "unused"
        BY <3>2, <4>1, CodeAt
      <4>3. p \in 1..Len(gen.code)
        BY <4>2
      <4>4. CASE p \in 1..(w - 1)
        BY <2>1, <3>2, <4>1, <4>4 DEF InstrOK
      <4>5. CASE p \notin 1..(w - 1)
        <5>1. p = Len(gen.code) /\ w = Len(gen.code)
          BY ONLY <4>2, <4>3, <4>5
        <5>2. gen.code[p].op = "unused" /\ gen.code[p] \in InstrType
          BY <4>2, <4>3, <5>1 DEF Last
        <5>3. gen.code[p].line = 0
          BY <5>2 DEF InstrType
        <5> QED BY <2>1, <5>3
      <4> QED BY <4>4, <4>5
    <3> QED BY <3>2, <3>3, <3>4
  <2>4. CASE phase = "run"
    <3>1. PICK P : Done(gen, P, Len(unit))
      BY <2>4 DEF GenInv
    <3>2. gen \in GenType /\ gen.max <= MaxLocal /\ gen.next = 0
      BY <3>1 DEF Done
    <3>3. gen.next \in 0..gen.max
      BY <3>2 DEF GenType
    <3>4. \A p \in DOMAIN gen.code : gen.code[p].line \in Lines
      BY <2>4, <3>1, InstrIs
    <3> QED BY <2>1, <3>2, <3>3, <3>4
  <2> QED BY <1>1, <2>2, <2>3, <2>4
<1>4. /\ code.pc \in Nat /\ code.on \in BOOLEAN
      /\ ftn.at \in 1..(MaxLines + 1) /\ ftn.stage \in {"stmt", "arm", "then", "close"}
  BY DEF RunInv, CodeType, FtnType
<1> QED BY <1>1, <1>2, <1>3, <1>4 DEF TypeOK

(* The state is typed and the locals of the method suffice.                 *)
THEOREM TypeCorrect == Spec => []TypeOK
BY UnitIsLegal, UnitIsTranslated, MachinesAreTyped, InvIsTypeOK, PTL

-----------------------------------------------------------------------------
(* The loops that lines lie in. *)

(* The loops around a loop are the ones opened before it of those around    *)
(* any line in it.                                                          *)
LEMMA HeadsNest ==
  ASSUME UnitInv, NEW i \in 1..(Len(unit) + 1), NEW d \in DoHeads(i)
  PROVE  DoHeads(d) \subseteq DoHeads(i) /\ \A e \in DoHeads(i) : e < d => e \in DoHeads(d)
<1>1. PICK m \in 1..Len(Open(i)) : Open(i)[m].head = d
  BY DEF DoHeads
<1>2. d \in Lines /\ Open(d) = unit[d].open /\ Open(i) \in Seq(Entry) /\ Len(Open(i)) \in Nat
  BY UnitTypes DEF DoHeads, Open, UnitInv
<1>3. unit[d].open = SubSeq(Open(i), 1, m - 1)
  BY <1>1 DEF UnitInv, Stacks, StackOK, OpenOK
<1>4. m - 1 \in 0..Len(Open(i)) /\ m \in Nat
  BY <1>2
<1>5. Len(Open(d)) = m - 1 /\ \A k \in 1..(m - 1) : Open(d)[k] = Open(i)[k]
  BY ONLY <1>2, <1>3, <1>4, Prefix
<1>6. \A k \in 1..(m - 1) : k \in 1..Len(Open(i))
  BY <1>2
<1>7. DoHeads(d) \subseteq DoHeads(i)
  BY <1>5, <1>6 DEF DoHeads
<1>8. ASSUME NEW e \in DoHeads(i), e < d PROVE e \in DoHeads(d)
  <2>1. PICK q \in 1..Len(Open(i)) : Open(i)[q].head = e
    BY DEF DoHeads
  <2>2. /\ \A a \in 1..Len(Open(i)) : \A b \in 1..(a - 1) : Open(i)[b].head < Open(i)[a].head
    BY HeadsRise
  <2>3. d \in Nat /\ e \in Nat
    BY <1>8, <1>2, DoHeadsIs
  <2>4. ~ (m < q) /\ m # q
    <3>1. m < q => Open(i)[m].head < Open(i)[q].head
      BY <2>2, <1>4, <2>1
    <3> QED BY <3>1, <1>1, <2>1, <2>3, <1>8
  <2>5. q \in 1..(m - 1)
    BY <2>4, <1>2
  <2>6. Open(d)[q].head = e /\ q \in 1..Len(Open(d))
    BY <2>5, <1>5, <2>1
  <2> QED BY <2>6, <1>8 DEF DoHeads
<1> QED BY <1>7, <1>8

(* All arms of a block, and the line that ends it, lie in the same loops.   *)
LEMMA ArmHeads ==
  ASSUME UnitInv, NEW i \in Lines, unit[i].k \in {"if"} \cup Arms
  PROVE  HeadOf(i) \in Lines /\ unit[HeadOf(i)].k = "if" /\ DoHeads(i) = DoHeads(HeadOf(i))
<1>1. CASE unit[i].k = "if"
  BY <1>1 DEF HeadOf
<1>2. CASE unit[i].k \in Arms
  <2>1. Continues(i, "if") /\ HeadOf(i) = unit[i].of
    BY <1>2, Continuing DEF HeadOf, Arms
  <2>2. PICK L : L = Len(Open(i))
    OBVIOUS
  <2>3. PICK h : h = unit[i].of
    OBVIOUS
  <2>4. L \in Nat \ {0} /\ h = Open(i)[L].head /\ h \in Lines /\ unit[h].k = "if" /\ i \in 1..(Len(unit) + 1) /\ Open(i) \in Seq(Entry)
    BY <2>1, <2>2, <2>3, OfBefore, UnitTypes DEF UnitInv
  <2>12. L \in 1..Len(Open(i))
    BY <2>2, <2>4
  <2>11. OpenOK(Open(i), L)
    BY <2>4, <2>12 DEF UnitInv, Stacks, StackOK
  <2>5. unit[h].open = SubSeq(Open(i), 1, L - 1) /\ Open(h) = unit[h].open
    BY <2>4, <2>11 DEF OpenOK, Open
  <2>6. L - 1 \in 0..Len(Open(i))
    BY <2>2, <2>4
  <2>7. Len(Open(h)) = L - 1 /\ \A k \in 1..(L - 1) : Open(h)[k] = Open(i)[k]
    BY ONLY <2>4, <2>5, <2>6, Prefix
  <2>8. \A k \in 1..L : k # L => k \in 1..(L - 1)
    BY <2>4
  <2>9. \A k \in 1..(L - 1) : k \in 1..L
    BY <2>4
  <2>10. DoHeads(i) = DoHeads(h)
    BY <2>2, <2>4, <2>7, <2>8, <2>9 DEF DoHeads
  <2> QED BY <2>1, <2>3, <2>4, <2>10
<1> QED BY <1>1, <1>2

(* Where control may jump to lies in no loop that it comes from outside.    *)
LEMMA JumpHeads ==
  ASSUME UnitInv, NEW t \in Lines, NEW j \in Lines, In(t) \subseteq In(j)
  PROVE  DoHeads(t) \subseteq DoHeads(j)
<1> SUFFICES ASSUME NEW d \in DoHeads(t) PROVE d \in DoHeads(j)
  OBVIOUS
<1>0. t \in 1..(Len(unit) + 1) /\ j \in 1..(Len(unit) + 1) /\ Open(t) = unit[t].open /\ Open(j) = unit[j].open
      /\ Open(t) \in Seq(Entry) /\ Open(j) \in Seq(Entry)
  BY UnitTypes DEF UnitInv, Open
<1>1. PICK m \in 1..Len(Open(t)) : Open(t)[m].head = d
  BY DEF DoHeads
<1>2. d \in Lines /\ unit[d].k = "do"
  BY DEF DoHeads
<1>3. Open(t)[m].arm = d
  BY <1>0, <1>1, <1>2 DEF UnitInv, Stacks, StackOK, OpenOK
<1>4. Len(Open(t)) \in Nat /\ Len(Open(t)) # 0
  BY <1>0, <1>1
<1>5. d \in In(t)
  <2>1. CASE unit[t].k \in Arms
    <3>1. unit[Open(t)[Len(Open(t))].head].k = "if"
      BY <2>1, Continuing, OfBefore
    <3>2. m # Len(Open(t))
      BY <3>1, <1>1, <1>2
    <3>3. m \in 1..(Len(Open(t)) - 1)
      BY <3>2, <1>4
    <3>4. Front(Open(t)) = SubSeq(Open(t), 1, Len(Open(t)) - 1)
      BY DEF Front
    <3>5. Len(Open(t)) - 1 \in 0..Len(Open(t))
      BY <1>4
    <3>6. Front(Open(t))[m] = Open(t)[m] /\ Len(Front(Open(t))) = Len(Open(t)) - 1 /\ Front(Open(t)) \in Seq(Entry)
      BY ONLY <1>0, <3>3, <3>4, <3>5, Prefix
    <3>7. Open(t)[m] \in ToSet(Front(Open(t)))
      BY ONLY <3>6, <3>3 DEF ToSet
    <3>8. Around(t) = Front(Open(t))
      BY <2>1, <1>0 DEF Around, Arms
    <3> QED BY <3>7, <3>8, <1>3 DEF In
  <2>2. CASE unit[t].k \notin Arms
    <3>1. Around(t) = Open(t)
      BY <2>2, <1>0 DEF Around, Arms
    <3>2. Open(t)[m] \in ToSet(Open(t))
      BY <1>0, <1>1 DEF ToSet
    <3> QED BY <3>1, <3>2, <1>3 DEF In
  <2> QED BY <2>1, <2>2
<1>6. PICK n \in ToSet(Around(j)) : n.arm = d
  BY <1>5 DEF In
<1>7. \E q \in 1..Len(Open(j)) : Open(j)[q] = n
  <2>1. CASE unit[j].k \in Arms
    <3>1. Len(Open(j)) \in Nat \ {0}
      BY <2>1, Continuing, OfBefore
    <3>4. Front(Open(j)) = SubSeq(Open(j), 1, Len(Open(j)) - 1)
      BY DEF Front
    <3>5. Len(Open(j)) - 1 \in 0..Len(Open(j))
      BY <3>1
    <3>6. (\A k \in 1..(Len(Open(j)) - 1) : Front(Open(j))[k] = Open(j)[k]) /\ Len(Front(Open(j))) = Len(Open(j)) - 1 /\ Front(Open(j)) \in Seq(Entry)
      BY ONLY <1>0, <3>4, <3>5, Prefix
    <3>8. Around(j) = Front(Open(j))
      BY <2>1, <1>0 DEF Around, Arms
    <3>9. PICK k \in 1..(Len(Open(j)) - 1) : n = Front(Open(j))[k]
      BY ONLY <1>6, <3>6, <3>8 DEF ToSet
    <3> QED BY <3>9, <3>6, <3>1
  <2>2. CASE unit[j].k \notin Arms
    <3>1. Around(j) = Open(j)
      BY <2>2, <1>0 DEF Around, Arms
    <3> QED BY <3>1, <1>6, <1>0 DEF ToSet
  <2> QED BY <2>1, <2>2
<1>8. PICK q \in 1..Len(Open(j)) : Open(j)[q] = n
  BY <1>7
<1>9. Open(j)[q].head = d
  BY <1>0, <1>2, <1>6, <1>8 DEF UnitInv, Stacks, StackOK, OpenOK
<1> QED BY <1>2, <1>8, <1>9 DEF DoHeads

(* The line that ends a block is the only one.                              *)
LEMMA OneEndIf ==
  ASSUME UnitInv, NEW e \in Lines, NEW x \in Lines, unit[e].k = "endif", unit[x].k = "endif", unit[e].of = unit[x].of
  PROVE  e = x
<1>1. ASSUME NEW a \in Lines, NEW b \in Lines, unit[a].k = "endif", unit[b].k = "endif", unit[a].of = unit[b].of
      PROVE  ~ (a < b)
  <2>1. Continues(b, "if")
    BY <1>1, Continuing DEF Arms
  <2>2. PICK L : L = Len(Open(b))
    OBVIOUS
  <2>3. L \in 1..Len(Open(b)) /\ b \in 1..(Len(unit) + 1) /\ unit[b].of = Open(b)[L].head /\ unit[unit[b].of].k = "if"
    BY <2>1, <2>2, OfBefore, UnitTypes DEF UnitInv
  <2>4. Latest(Open(b)[L], b)
    BY <2>3 DEF UnitInv, Stacks, StackOK
  <2> QED BY <2>3, <2>4, <1>1 DEF Latest
<1>2. ~ (e < x) /\ ~ (x < e)
  BY <1>1
<1> QED BY <1>2, UnitTypes DEF UnitInv

(* An ELSE part without statements is ended by the line after it.           *)
LEMMA EmptyIs ==
  ASSUME UnitInv, phase = "run", NEW j \in Lines, Empty(j)
  PROVE  /\ j + 1 \in Lines /\ unit[j].k = "else" /\ unit[j + 1].k = "endif" /\ unit[j + 1].of = unit[j].of
         /\ EndOf(j) = j + 1
<1>1. unit[j].k = "else" /\ unit[j + 1].k = "endif"
  BY DEF Empty
<1>2. j + 1 \in Lines /\ j \in Nat
  BY <1>1, LineIs
<1>3. Follows(j) /\ Open(j + 1) = Append(Front(Open(j)), [head |-> unit[j].of, arm |-> j])
  BY <1>1 DEF UnitInv, Openings, Follows
<1>4. Continues(j + 1, "if") /\ Continues(j, "if")
  BY <1>1, <1>2, Continuing DEF Arms
<1>5. Front(Open(j)) \in Seq(Entry)
  <2>1. j \in 1..(Len(unit) + 1) /\ Len(Open(j)) \in Nat \ {0} /\ Open(j) \in Seq(Entry)
    BY <1>4, <1>2, OfBefore, UnitTypes DEF UnitInv
  <2>2. Len(Open(j)) - 1 \in 0..Len(Open(j)) /\ Front(Open(j)) = SubSeq(Open(j), 1, Len(Open(j)) - 1)
    BY <2>1 DEF Front
  <2> QED BY ONLY <2>1, <2>2, Prefix
<1>6. [head |-> unit[j].of, arm |-> j] \in Entry
  BY <1>2, UnitTypes DEF UnitInv, Entry
<1>7. Last(Open(j + 1)).head = unit[j].of
  <2>1. PICK s, x : s = Front(Open(j)) /\ x = [head |-> unit[j].of, arm |-> j]
    OBVIOUS
  <2>2. s \in Seq(Entry) /\ x \in Entry /\ Open(j + 1) = Append(s, x) /\ x.head = unit[j].of
    BY <2>1, <1>3, <1>5, <1>6
  <2>3. Append(s, x)[Len(s) + 1] = x /\ Len(Append(s, x)) = Len(s) + 1
    BY ONLY <2>2, Added
  <2> QED BY <2>2, <2>3 DEF Last
<1>8. unit[j + 1].of = unit[j].of
  BY <1>4, <1>7 DEF Continues
<1>9. EndOf(j) \in Lines /\ unit[EndOf(j)].k = "endif" /\ unit[EndOf(j)].of = unit[j].of
  BY <1>1, EndOfIs
<1>10. EndOf(j) = j + 1
  BY ONLY <1>1, <1>2, <1>8, <1>9, OneEndIf, UnitInv
<1> QED BY <1>1, <1>2, <1>8, <1>10

-----------------------------------------------------------------------------
(* What the two machines have to do with each other. *)

(* The DO parameters read no DO variable.                                   *)
NoneOwn == \A f \in ToSet(Families) : \A line \in f.lines : ~ line.do.own

(* The Fortran machine gets from f to s by steps that cannot be seen.       *)
Leads(f, s) == \A Z : f \in Z /\ (\A z \in Z : Quiet(z) => FtnSteps(z) \in Z) => s \in Z

(* Leads is reflexive and transitive, and follows the silent steps.         *)
LEMMA LeadsItself == ASSUME NEW f PROVE Leads(f, f)
BY DEF Leads
(* One state leads where any state that it leads to leads.                  *)
LEMMA LeadsOn ==
  ASSUME NEW f, NEW h, NEW s, Leads(f, h), Leads(h, s)
  PROVE  Leads(f, s)
BY DEF Leads
(* A quiet machine leads where it is after its step.                        *)
LEMMA LeadsBy ==
  ASSUME NEW f, NEW s, Quiet(f), Leads(FtnSteps(f), s)
  PROVE  Leads(f, s)
BY DEF Leads
(* A machine that leads elsewhere is quiet, and its step leads there.       *)
LEMMA LeadsFrom ==
  ASSUME NEW f, NEW s, Leads(f, s), s # f
  PROVE  Quiet(f) /\ Leads(FtnSteps(f), s)
<1>1. Quiet(f)
  <2>1. SUFFICES ASSUME ~ Quiet(f) PROVE FALSE
    OBVIOUS
  <2>2. f \in {f} /\ \A z \in {f} : Quiet(z) => FtnSteps(z) \in {f}
    BY <2>1
  <2>3. s \in {f}
    BY ONLY <2>2, Leads(f, s) DEF Leads
  <2> QED BY <2>3
<1>2. ASSUME NEW Z, FtnSteps(f) \in Z, \A z \in Z : Quiet(z) => FtnSteps(z) \in Z
      PROVE  s \in Z
  <2>1. f \in Z \cup {f} /\ \A z \in Z \cup {f} : Quiet(z) => FtnSteps(z) \in Z \cup {f}
    BY <1>2
  <2>2. s \in Z \cup {f}
    BY ONLY <2>1, Leads(f, s) DEF Leads
  <2> QED BY <2>2
<1> QED BY <1>1, <1>2 DEF Leads

(* The locals of the loops D hold the iterations that are left.             *)
LocalOf(P, d) == gen.code[P[d] + 1].loc
EndPlace(P, d) == EndAt(gen.code, P, d)
Lives(P, c, f, D) == \A d \in D : c.local[LocalOf(P, d)] = f.left[d]
Agree(c, f) == c.val = f.val /\ c.asg = f.asg /\ c.on = f.on

(* Before a statement, before the test of an ELSE IF, between the test and  *)
(* the statement of a logical IF.                                           *)
Visible == {"work", "return", "stop", "assign", "if", "lifwork", "lifgoto", "cgoto", "agoto", "aif", "aifwide", "do"}
AtStatement(P, c, f, j) ==
  unit[j].k \in Visible /\ c.pc = P[j] /\ Stands(f, j, "stmt") /\ Lives(P, c, f, DoHeads(j))
AtArm(P, c, f, j) ==
  unit[j].k = "elseif" /\ c.pc = P[j] + 1 /\ Stands(f, j, "arm") /\ Lives(P, c, f, DoHeads(j))
AtThen(P, c, f, j) ==
  unit[j].k = "lifwork" /\ c.pc = P[j] + 1 /\ Stands(f, j, "then") /\ Lives(P, c, f, DoHeads(j))

(* At the end of loop d, and where the code has yet to find out what the    *)
(* Fortran machine has decided: whether another iteration comes.            *)
AtClose(P, c, f, d) ==
  /\ unit[d].k = "do" /\ c.pc = EndPlace(P, d) /\ f.stage = "close" /\ f.loop = d
  /\ Lives(P, c, f, DoHeads(d) \cup {d})
Decided(f, d, x) ==
  \E t \in Lines : /\ d \in Ends(t)
                   /\ x > 0 => f.left[d] = x /\ Stands(f, d + 1, "stmt")
                   /\ ~ (x > 0) => Closes(f, t, {e \in Ends(t) : e < d})
AtDecision(P, c, f, d) ==
  /\ unit[d].k = "do" /\ Lives(P, c, f, DoHeads(d))
  /\ \/ c.pc = P[d] + 1 /\ Decided(f, d, Iterations(unit[d].do, c.val[d]))
     \/ c.pc = P[d] + 2 /\ Decided(f, d, c.local[LocalOf(P, d)])
     \/ c.pc = EndPlace(P, d) + 1 /\ Decided(f, d, c.local[LocalOf(P, d)] - 1)
     \/ c.pc = EndPlace(P, d) + 2 /\ Decided(f, d, c.local[LocalOf(P, d)])

(* On the way to a label that the Fortran machine has gone to already.      *)
Gone(f, j, l) == l \in ToSet(Chosen(j)) /\ In(LineOf(l)) \subseteq In(j) /\ Stands(f, LineOf(l), "stmt")
AtJump(P, c, f, j) ==
  /\ unit[j].k \notin {"do", "end"} /\ Lives(P, c, f, DoHeads(j))
  /\ c.pc \in DOMAIN gen.code /\ gen.code[c.pc].op = "goto" /\ gen.code[c.pc].lab # 0
  /\ Gone(f, j, gen.code[c.pc].lab)
Number(j, m) == IF unit[j].k = "cgoto" THEN m ELSE Chosen(j)[m]
Selecting(P, c, f, j, m, x) ==
  /\ c.pc = P[j] + 2 * m - 1
  /\ \A n \in m..Len(Chosen(j)) : Number(j, n) = x => Gone(f, j, Chosen(j)[n])
  /\ (\A n \in m..Len(Chosen(j)) : Number(j, n) # x) => Closes(f, j, Ends(j))
AtSelect(P, c, f, j) ==
  /\ unit[j].k \in {"cgoto", "agoto"} /\ Lives(P, c, f, DoHeads(j))
  /\ \E m \in 1..Len(Chosen(j)) : Selecting(P, c, f, j, m, c.local[gen.code[P[j]].loc])
Signed(f, j, x) ==
  Gone(f, j, IF x < 0 THEN unit[j].to[1] ELSE IF x = 0 THEN unit[j].to[2] ELSE unit[j].to[3])
AtSign(P, c, f, j) ==
  /\ unit[j].k \in {"aif", "aifwide"} /\ Lives(P, c, f, DoHeads(j))
  /\ c.pc = P[j] + 1 \/ (c.pc = P[j] + 3 /\ ~ (c.local[gen.code[P[j]].loc] < 0))
  /\ Signed(f, j, c.local[gen.code[P[j]].loc])

(* At the goto out of a block, and past the last statement.                 *)
CanFollow(j) == j = Len(unit) => j = 1 \/ unit[j - 1].k # "return" \/ unit[j].lab # 0
AtLeave(P, c, f, j) ==
  /\ CanFollow(j) /\ Stands(f, j, "stmt") /\ Lives(P, c, f, DoHeads(j))
  /\ c.pc \in DOMAIN gen.code /\ gen.code[c.pc].op = "goto" /\ gen.code[c.pc].lab = 0 /\ gen.code[c.pc].to = P[j]
AtEnd(P, c, f) == c.pc \in P[Len(unit)]..Len(gen.code) /\ Stands(f, Len(unit), "stmt")

Seen(P, c, f, j)   == AtStatement(P, c, f, j) \/ AtArm(P, c, f, j) \/ AtThen(P, c, f, j)
Unseen(P, c, f, j) == \/ AtClose(P, c, f, j) \/ AtDecision(P, c, f, j) \/ AtJump(P, c, f, j)
                      \/ AtSelect(P, c, f, j) \/ AtSign(P, c, f, j) \/ AtLeave(P, c, f, j)
Over(c, f) == ~ c.on /\ c.pc \in DOMAIN gen.code /\ f.at \in Lines
Match(P, c, f) ==
  /\ Agree(c, f)
  /\ \/ \E j \in Lines : Seen(P, c, f, j) \/ Unseen(P, c, f, j)
     \/ AtEnd(P, c, f)
     \/ Over(c, f)

(* The machines match after steps of the Fortran machine that cannot be     *)
(* seen.                                                                    *)
Sim(P, c, f) == \E s : FtnOK(s) /\ Leads(f, s) /\ Match(P, c, s)
Settled(P) == UnitInv /\ phase = "run" /\ Done(gen, P, Len(unit))
-----------------------------------------------------------------------------
(* The code of a line, once the unit is translated. *)

LineCode(P, j, p, n, q) ==
  /\ p = P[j] /\ n = Size(j) /\ q = P[j + 1] /\ p \in Nat \ {0} /\ n \in Nat /\ q \in Nat \ {0} /\ p + n <= q
  /\ q <= Len(gen.code) + 1 /\ Len(gen.code) \in Nat /\ DOMAIN gen.code = 1..Len(gen.code)
  /\ j \in Nat \ {0} /\ j + 1 \in Lines /\ CodeOf(unit[j].k, unit[j].to, Chosen(j), gen.code, j, p)
  /\ unit[j].k = "else" /\ ~ Empty(j) => Same(gen.code[p], Instr("goto", j))
  /\ LineEnd(gen.code, P, j) /\ LocalsOK(gen.code, P, j)
(* Every line but the END has its code.                                     *)
LEMMA LineCodeIs ==
  ASSUME NEW P, Settled(P), NEW j \in Lines, unit[j].k # "end"
  PROVE  \E p, n, q : LineCode(P, j, p, n, q)
<1>1. UnitInv /\ phase = "run" /\ phase # "read"
  BY DEF Settled
<1>2. PICK N : N = Len(unit)
  OBVIOUS
<1>3. j \in Nat \ {0} /\ N \in Lines /\ j < N /\ j + 1 \in Lines /\ Lines = 1..N /\ N \in Nat
  BY <1>1, <1>2, LineIs
<1>4. j \in 1..(N - 1) /\ j \in 1..N /\ j + 1 \in 1..N
  BY <1>3
<1>5. LinesCoded(gen, P, N) /\ gen \in GenType /\ EndCode(gen, N, P[N])
  BY <1>2 DEF Settled, Done
<1>6. PICK p, n, q, r : p = P[j] /\ n = Size(j) /\ q = P[j + 1] /\ r = P[N]
  OBVIOUS
<1>7. p \in Nat \ {0} /\ n \in Nat /\ q \in Nat \ {0} /\ r \in Nat \ {0} /\ p + n <= q /\ q <= r
  BY <1>1, <1>3, <1>4, <1>5, <1>6, Places
<1>8. gen.code \in Seq(InstrType) /\ Len(gen.code) \in Nat /\ DOMAIN gen.code = 1..Len(gen.code)
  BY <1>5, CodeAt
<1>9. r <= Len(gen.code) + 1
  <2>1. Len(gen.code) = r - 1 \/ Len(gen.code) = r \/ Len(gen.code) = r + 4
    BY <1>5, <1>6 DEF EndCode
  <2> QED BY <2>1, <1>7
<1>10. StatementCode(gen.code, j, p) /\ LineEnd(gen.code, P, j) /\ LocalsOK(gen.code, P, j)
  BY <1>4, <1>5, <1>6 DEF LinesCoded
<1>11. q <= Len(gen.code) + 1
  BY ONLY <1>7, <1>8, <1>9
<1> QED BY <1>3, <1>6, <1>7, <1>8, <1>10, <1>11 DEF LineCode, StatementCode

(* The instructions of a line of each kind.                                 *)
Holds(p, op, j) == p \in DOMAIN gen.code /\ gen.code[p].op = op /\ gen.code[p].line = j
HoldsGoto(p, l) == p \in DOMAIN gen.code /\ gen.code[p].op = "goto" /\ gen.code[p].lab = l
HoldsTest(p, op, j, loc, num, to) ==
  /\ Holds(p, op, j) /\ gen.code[p].loc = loc /\ gen.code[p].num = num /\ gen.code[p].lab = 0 /\ gen.code[p].to = to
PlainLine(j, p, n, k, l) ==
  /\ k \in {"work", "return", "stop"} => n = 1 /\ Holds(p, k, j)
  /\ k = "assign" => n = 1 /\ Holds(p, "assign", j) /\ gen.code[p].num = l[1]
  /\ k = "goto" => n = 1 /\ HoldsGoto(p, l[1])
  /\ k = "lifwork" => n = 2 /\ Holds(p, "test", j) /\ gen.code[p].to = p + 2 /\ Holds(p + 1, "work", j)
  /\ k = "lifgoto" => n = 2 /\ Holds(p, "test", j) /\ gen.code[p].to = p + 2 /\ HoldsGoto(p + 1, l[1])
  /\ k = "if" => n = 1 /\ Holds(p, "test", j)
  /\ k = "elseif" => n = 2 /\ HoldsGoto(p, 0) /\ Holds(p + 1, "test", j)
  /\ k = "else" /\ ~ Empty(j) => n = 1 /\ HoldsGoto(p, 0)
  /\ k = "else" /\ Empty(j) => n = 0
  /\ k = "do" => n = 3 /\ Holds(p, "init", j) /\ Holds(p + 1, "count", j) /\ Holds(p + 2, "goto", j) /\ HoldsGoto(p + 2, 0)
(* The code of statements that select nothing.                              *)
LEMMA PlainCode ==
  ASSUME UnitInv, NEW P, NEW j \in Lines, NEW p, NEW n, NEW q, LineCode(P, j, p, n, q), NEW k, k = unit[j].k, NEW l, l = unit[j].to
  PROVE  PlainLine(j, p, n, k, l)
<1> DEFINE c == gen.code
<1>1. /\ p \in Nat \ {0} /\ n \in Nat /\ n = Size(j) /\ DOMAIN c = 1..Len(c) /\ CodeOf(k, l, Chosen(j), c, j, p)
      /\ (k = "else" /\ ~ Empty(j) => Same(c[p], Instr("goto", j))) /\ Len(c) \in Nat /\ q \in Nat /\ p + n <= q /\ q <= Len(c) + 1
  BY DEF LineCode
<1>2. (n > 0 => p \in DOMAIN c) /\ (n > 1 => p + 1 \in DOMAIN c) /\ (n > 2 => p + 2 \in DOMAIN c)
  BY ONLY <1>1
<1>3. /\ k \in {"work", "return", "stop", "goto", "assign", "if"} => n = 1
      /\ k \in {"lifwork", "lifgoto", "elseif"} => n = 2
      /\ k = "do" => n = 3
      /\ k = "else" => n = IF Empty(j) THEN 0 ELSE 1
  BY <1>1, SizeIs
<1>4. /\ 1 > 0 /\ 2 > 0 /\ 2 > 1 /\ 3 > 0 /\ 3 > 1 /\ 3 > 2
  OBVIOUS
<1> HIDE DEF c
<1>5. ASSUME k \in {"work", "return", "stop"} PROVE Holds(p, k, j)
  <2>1. c[p] = Instr(k, j) /\ p \in DOMAIN c
    BY ONLY <1>1, <1>2, <1>3, <1>4, <1>5 DEF CodeOf
  <2> QED BY <2>1, Fields DEF Holds, c
<1>6. ASSUME k = "assign" PROVE Holds(p, "assign", j) /\ c[p].num = l[1]
  <2>1. c[p] = [Instr("assign", j) EXCEPT !.num = l[1]] /\ p \in DOMAIN c
    BY ONLY <1>1, <1>2, <1>3, <1>4, <1>6 DEF CodeOf
  <2>2. \A x : [Instr("assign", j) EXCEPT !.num = x].num = x
    BY DEF Instr
  <2> QED BY <2>1, <2>2, Fields DEF Holds, c
<1>7. ASSUME k = "goto" PROVE HoldsGoto(p, l[1])
  <2>1. c[p] = Goto(j, l[1]) /\ p \in DOMAIN c
    BY ONLY <1>1, <1>2, <1>3, <1>4, <1>7 DEF CodeOf
  <2> QED BY <2>1, Fields DEF HoldsGoto, c
<1>8. ASSUME k \in {"lifwork", "lifgoto"}
      PROVE  /\ Holds(p, "test", j) /\ c[p].to = p + 2
             /\ k = "lifwork" => Holds(p + 1, "work", j)
             /\ k = "lifgoto" => HoldsGoto(p + 1, l[1])
  <2>1. c[p] = [Instr("test", j) EXCEPT !.to = p + 2] /\ p \in DOMAIN c /\ p + 1 \in DOMAIN c
        /\ c[p + 1] = IF k = "lifwork" THEN Instr("work", j) ELSE Goto(j, l[1])
    BY ONLY <1>1, <1>2, <1>3, <1>4, <1>8 DEF CodeOf
  <2>2. \A x : [Instr("test", j) EXCEPT !.to = x].to = x
    BY DEF Instr
  <2> QED BY <2>1, <2>2, <1>8, Fields DEF Holds, HoldsGoto, c
<1>9. ASSUME k = "if" PROVE Holds(p, "test", j)
  <2>1. Same(c[p], Instr("test", j)) /\ p \in DOMAIN c
    BY ONLY <1>1, <1>2, <1>3, <1>4, <1>9 DEF CodeOf
  <2> QED BY <2>1, SameIs DEF Holds, c
<1>10. ASSUME k = "elseif" PROVE HoldsGoto(p, 0) /\ Holds(p + 1, "test", j)
  <2>1. Same(c[p], Instr("goto", j)) /\ Same(c[p + 1], Instr("test", j)) /\ p \in DOMAIN c /\ p + 1 \in DOMAIN c
    BY ONLY <1>1, <1>2, <1>3, <1>4, <1>10 DEF CodeOf
  <2> QED BY <2>1, SameIs DEF Holds, HoldsGoto, c
<1>11. ASSUME k = "else", ~ Empty(j) PROVE HoldsGoto(p, 0)
  <2>1. Same(c[p], Instr("goto", j)) /\ p \in DOMAIN c
    BY ONLY <1>1, <1>2, <1>3, <1>4, <1>11
  <2> QED BY <2>1, SameIs DEF HoldsGoto, c
<1>12. ASSUME k = "do"
       PROVE  Holds(p, "init", j) /\ Holds(p + 1, "count", j) /\ Holds(p + 2, "goto", j) /\ HoldsGoto(p + 2, 0)
  <2>1. c[p] = Instr("init", j) /\ p \in DOMAIN c /\ p + 1 \in DOMAIN c /\ p + 2 \in DOMAIN c
        /\ c[p + 1] = [Instr("count", j) EXCEPT !.loc = c[p + 1].loc] /\ Same(c[p + 2], Instr("goto", j))
    BY ONLY <1>1, <1>2, <1>3, <1>4, <1>12 DEF CodeOf
  <2>2. PICK x : c[p + 1] = [Instr("count", j) EXCEPT !.loc = x]
    BY <2>1
  <2>3. c[p + 1].op = "count" /\ c[p + 1].line = j
    BY ONLY <2>2, Fields
  <2>4. c[p + 2].op = "goto" /\ c[p + 2].line = j /\ c[p + 2].lab = 0
    BY ONLY <2>1, SameIs
  <2>5. c[p].op = "init" /\ c[p].line = j
    BY ONLY <2>1, Fields
  <2> QED BY ONLY <2>1, <2>3, <2>4, <2>5 DEF Holds, HoldsGoto, c
<1> QED BY ONLY <1>3, <1>5, <1>6, <1>7, <1>8, <1>9, <1>10, <1>11, <1>12 DEF c, PlainLine

(* A jump to a label.                                                        *)
LEMMA GotoHolds ==
  ASSUME NEW p \in DOMAIN gen.code, NEW j, NEW l, gen.code[p] = Goto(j, l)
  PROVE  HoldsGoto(p, l)
<1>1. Goto(j, l).op = "goto" /\ Goto(j, l).lab = l
  BY ONLY DEF Goto, Instr
<1> QED BY ONLY <1>1, p \in DOMAIN gen.code, gen.code[p] = Goto(j, l) DEF HoldsGoto

(* The fields of the tests of a selection.                                  *)
LEMMA TestFields ==
  ASSUME NEW op, NEW j, NEW x, NEW y, NEW z
  PROVE  /\ [Instr(op, j) EXCEPT !.loc = x, !.num = y, !.to = z].loc = x
         /\ [Instr(op, j) EXCEPT !.loc = x, !.num = y, !.to = z].num = y
         /\ [Instr(op, j) EXCEPT !.loc = x, !.num = y, !.to = z].to = z
         /\ [Instr(op, j) EXCEPT !.loc = x, !.num = y, !.to = z].lab = 0
         /\ [Instr(op, j) EXCEPT !.loc = x, !.to = z].loc = x
         /\ [Instr(op, j) EXCEPT !.loc = x, !.to = z].num = 0
         /\ [Instr(op, j) EXCEPT !.loc = x, !.to = z].to = z
         /\ [Instr(op, j) EXCEPT !.loc = x, !.to = z].lab = 0
         /\ [Instr(op, j) EXCEPT !.loc = x].loc = x
BY DEF Instr

(* The tests and gotos of a computed or assigned GOTO.                      *)
Tries(P, j, p, m, loc) ==
  /\ HoldsTest(p + 2 * m - 1, "ifne", j, loc, Number(j, m), p + 2 * m + 1)
  /\ HoldsGoto(p + 2 * m, Chosen(j)[m])
(* The code of a computed or assigned GOTO: an evaluation, then a test and  *)
(* a goto per label.                                                        *)
LEMMA SelectCode ==
  ASSUME UnitInv, NEW P, NEW j \in Lines, NEW p, NEW n, NEW q, LineCode(P, j, p, n, q), NEW k, k = unit[j].k, k \in {"cgoto", "agoto"},
         NEW loc, loc = gen.code[p].loc
  PROVE  /\ n = 1 + 2 * Len(Chosen(j)) /\ Len(Chosen(j)) \in Nat /\ Holds(p, "eval", j)
         /\ \A m \in 1..Len(Chosen(j)) : Tries(P, j, p, m, loc)
<1> DEFINE c == gen.code
<1>1. /\ p \in Nat \ {0} /\ n \in Nat /\ n = Size(j) /\ DOMAIN c = 1..Len(c) /\ CodeOf(k, unit[j].to, Chosen(j), c, j, p)
      /\ Len(c) \in Nat /\ q \in Nat /\ p + n <= q /\ q <= Len(c) + 1
  BY DEF LineCode
<1>2. PICK s, L : s = Chosen(j) /\ L = Len(s)
  OBVIOUS
<1>3. L \in Nat /\ n = 1 + 2 * L /\ DOMAIN s = 1..L
  <2>1. Chosen(j) \in Seq(Nat) /\ Len(Chosen(j)) \in Nat /\ Size(j) = 1 + 2 * Len(Chosen(j))
    BY SizeIs
  <2>2. s \in Seq(Nat) /\ L \in Nat /\ n = 1 + 2 * L
    BY ONLY <1>1, <1>2, <2>1
  <2> QED BY ONLY <2>2, <1>2
<1> HIDE DEF c
<1>4. c[p] = [Instr("eval", j) EXCEPT !.loc = loc] /\ p \in DOMAIN c
  <2>1. p \in DOMAIN c
    BY ONLY <1>1, <1>3
  <2>2. k \in {"cgoto", "agoto"} /\ loc = c[p].loc
    BY DEF c
  <2> QED BY ONLY <1>1, <2>1, <2>2 DEF CodeOf
<1>5. Holds(p, "eval", j)
  BY <1>4, Fields DEF Holds, c
<1>6. ASSUME NEW m \in 1..L PROVE Tries(P, j, p, m, loc)
  <2>1. p + 2 * m - 1 \in DOMAIN c /\ p + 2 * m \in DOMAIN c
    BY ONLY <1>1, <1>3, <1>6
  <2>2. m \in DOMAIN Chosen(j)
    BY <1>2, <1>3
  <2>3. k \in {"cgoto", "agoto"} /\ loc = c[p].loc
    BY DEF c
  <2>4. /\ c[p + 2 * m - 1] = [Instr("ifne", j) EXCEPT
             !.loc = loc, !.num = IF k = "cgoto" THEN m ELSE Chosen(j)[m], !.to = p + 2 * m + 1]
        /\ c[p + 2 * m] = Goto(j, Chosen(j)[m])
    BY ONLY <1>1, <2>2, <2>3 DEF CodeOf
  <2>5. Number(j, m) = IF k = "cgoto" THEN m ELSE Chosen(j)[m]
    BY DEF Number
  <2>6. PICK a, b, x, y : a = p + 2 * m - 1 /\ b = p + 2 * m + 1 /\ x = Number(j, m) /\ y = p + 2 * m
    OBVIOUS
  <2>7. c[a] = [Instr("ifne", j) EXCEPT !.loc = loc, !.num = x, !.to = b] /\ c[y] = Goto(j, Chosen(j)[m])
    BY ONLY <2>4, <2>5, <2>6
  <2>8. HoldsTest(a, "ifne", j, loc, x, b)
    BY <2>1, <2>6, <2>7, TestFields, Fields DEF HoldsTest, Holds, c
  <2>9. HoldsGoto(y, Chosen(j)[m])
    <3>1. y \in DOMAIN gen.code /\ gen.code[y] = Goto(j, Chosen(j)[m])
      BY <2>1, <2>6, <2>7 DEF c
    <3> QED BY ONLY <3>1, GotoHolds
  <2> QED BY ONLY <2>6, <2>8, <2>9 DEF Tries
<1> QED BY ONLY <1>2, <1>3, <1>5, <1>6

(* The tests and gotos of an arithmetic IF.                                 *)
LEMMA SignCode ==
  ASSUME UnitInv, NEW P, NEW j \in Lines, NEW p, NEW n, NEW q, LineCode(P, j, p, n, q), NEW k, k = unit[j].k, k \in {"aif", "aifwide"},
         NEW loc, loc = gen.code[p].loc, NEW l, l = unit[j].to
  PROVE  /\ n = 6 /\ Holds(p, "eval", j)
         /\ HoldsTest(p + 1, "ifge", j, loc, 0, p + 3) /\ HoldsGoto(p + 2, l[1])
         /\ HoldsTest(p + 3, "ifne", j, loc, 0, p + 5) /\ HoldsGoto(p + 4, l[2])
         /\ HoldsGoto(p + 5, l[3])
<1> DEFINE c == gen.code
<1>1. /\ p \in Nat \ {0} /\ n \in Nat /\ n = Size(j) /\ DOMAIN c = 1..Len(c) /\ CodeOf(k, l, Chosen(j), c, j, p)
      /\ Len(c) \in Nat /\ q \in Nat /\ p + n <= q /\ q <= Len(c) + 1
  BY DEF LineCode
<1>2. n = 6
  BY <1>1, SizeIs
<1> HIDE DEF c
<1>3. p \in DOMAIN c /\ p + 1 \in DOMAIN c /\ p + 2 \in DOMAIN c /\ p + 3 \in DOMAIN c /\ p + 4 \in DOMAIN c /\ p + 5 \in DOMAIN c
  BY ONLY <1>1, <1>2
<1>4. k \in {"aif", "aifwide"} /\ loc = c[p].loc
  BY DEF c
<1>5. /\ c[p] = [Instr("eval", j) EXCEPT !.loc = loc, !.wide = (k = "aifwide")]
      /\ c[p + 1] = [Instr("ifge", j) EXCEPT !.loc = loc, !.to = p + 3] /\ c[p + 2] = Goto(j, l[1])
      /\ c[p + 3] = [Instr("ifne", j) EXCEPT !.loc = loc, !.to = p + 5] /\ c[p + 4] = Goto(j, l[2])
      /\ c[p + 5] = Goto(j, l[3])
  BY ONLY <1>1, <1>4 DEF CodeOf
<1>6. PICK p1, p2, p3, p4, p5 : p1 = p + 1 /\ p2 = p + 2 /\ p3 = p + 3 /\ p4 = p + 4 /\ p5 = p + 5
  OBVIOUS
<1>7. Holds(p, "eval", j)
  <2>1. PICK w : w = (k = "aifwide")
    OBVIOUS
  <2>2. c[p] = [Instr("eval", j) EXCEPT !.loc = loc, !.wide = w]
    BY ONLY <1>5, <2>1
  <2> QED BY <1>3, <2>2, Fields DEF Holds, c
<1>8. HoldsTest(p1, "ifge", j, loc, 0, p3)
  <2>1. c[p1] = [Instr("ifge", j) EXCEPT !.loc = loc, !.to = p3] /\ p1 \in DOMAIN c
    BY ONLY <1>3, <1>5, <1>6
  <2> QED BY <2>1, TestFields, Fields DEF HoldsTest, Holds, c
<1>9. HoldsTest(p3, "ifne", j, loc, 0, p5)
  <2>1. c[p3] = [Instr("ifne", j) EXCEPT !.loc = loc, !.to = p5] /\ p3 \in DOMAIN c
    BY ONLY <1>3, <1>5, <1>6
  <2> QED BY <2>1, TestFields, Fields DEF HoldsTest, Holds, c
<1>10. HoldsGoto(p2, l[1]) /\ HoldsGoto(p4, l[2]) /\ HoldsGoto(p5, l[3])
  <2>1. /\ c[p2] = Goto(j, l[1]) /\ c[p4] = Goto(j, l[2]) /\ c[p5] = Goto(j, l[3])
        /\ p2 \in DOMAIN c /\ p4 \in DOMAIN c /\ p5 \in DOMAIN c
    BY ONLY <1>3, <1>5, <1>6
  <2>2. /\ gen.code[p2] = Goto(j, l[1]) /\ gen.code[p4] = Goto(j, l[2]) /\ gen.code[p5] = Goto(j, l[3])
        /\ p2 \in DOMAIN gen.code /\ p4 \in DOMAIN gen.code /\ p5 \in DOMAIN gen.code
    BY ONLY <2>1 DEF c
  <2> QED BY ONLY <2>2, GotoHolds
<1> QED BY ONLY <1>2, <1>6, <1>7, <1>8, <1>9, <1>10

(* The code at the end of loop d, which ends at line t.                     *)
LoopCode(P, d, t, x) ==
  /\ x = EndPlace(P, d) /\ x \in Nat \ {0} /\ x + 2 \in DOMAIN gen.code /\ x + 2 <= Len(gen.code) /\ Len(gen.code) \in Nat
  /\ gen.code[P[d] + 2].to = x + 2
  /\ Holds(x, "incr", d)
  /\ Holds(x + 1, "dec", d) /\ gen.code[x + 1].loc = LocalOf(P, d)
  /\ Holds(x + 2, "ifgt", d) /\ gen.code[x + 2].loc = LocalOf(P, d) /\ gen.code[x + 2].lab = 0
  /\ gen.code[x + 2].to = P[d] + 3
  /\ (\A e \in Ends(t) : e <= d) => x = P[t] + Size(t)
  /\ (\A e \in Ends(t) : d <= e) => x + 3 = P[t + 1]
  /\ \A e \in Ends(t) : e < d /\ (\A f \in Ends(t) : f <= e \/ d <= f) => EndPlace(P, e) = x + 3
(* The code at the end of a loop, and what follows it.                      *)
LEMMA LoopCodeIs ==
  ASSUME NEW P, Settled(P), NEW t \in Lines, NEW d \in Ends(t)
  PROVE  /\ d \in Lines /\ unit[d].k = "do" /\ unit[t].k \notin {"end", "endif", "return", "do"} /\ d < t
         /\ t \in Nat \ {0} /\ t + 1 \in Lines /\ d \in Nat \ {0} /\ d + 1 \in Lines
         /\ \E x : LoopCode(P, d, t, x)
<1>1. UnitInv /\ phase = "run" /\ phase # "read"
  BY DEF Settled
<1>2. d \in Lines /\ unit[d].k = "do" /\ d \in DoHeads(t)
  BY <1>1, HeadsAfter DEF Ends
<1>3. unit[t].k \notin {"end", "endif", "return", "do"}
  BY <1>1 DEF UnitInv, Openings, Follows, Openers, Closers
<1>4. t \in Nat \ {0} /\ t + 1 \in Lines /\ d \in Nat \ {0} /\ d + 1 \in Lines
  BY <1>1, <1>2, <1>3, LineIs
<1>5. d < t
  <2>1. t \in 1..(Len(unit) + 1)
    BY <1>1, UnitTypes DEF UnitInv
  <2>2. d \in 1..(t - 1)
    BY ONLY <1>1, <1>2, <2>1, DoHeadsIs
  <2> QED BY <2>2, <1>4
<1>6. PICK p, n, q : LineCode(P, t, p, n, q)
  BY <1>3, LineCodeIs
<1>7. PICK u, v, w : LineCode(P, d, u, v, w)
  BY <1>2, LineCodeIs
<1>8. Chained(gen.code, P, t, Ends(t), P[t + 1])
  BY <1>3, <1>6 DEF LineCode, LineEnd
<1>9. PICK x : x = EndPlace(P, d)
  OBVIOUS
<1>10. /\ LoopEnd(gen.code, P, d) /\ p + n <= x /\ x + 3 <= q
       /\ (\A e \in Ends(t) : e <= d) => x = P[t] + Size(t)
       /\ (\A e \in Ends(t) : d <= e) => x + 3 = P[t + 1]
       /\ \A e \in Ends(t) : e < d /\ (\A f \in Ends(t) : f <= e \/ d <= f) => EndPlace(P, e) = x + 3
  BY <1>6, <1>8, <1>9 DEF Chained, EndPlace, LineCode
<1>11. u = P[d] /\ Holds(u + 2, "goto", d)
  BY <1>1, <1>2, <1>7, PlainCode DEF LineCode, PlainLine
<1>12. PICK y : y = gen.code[u + 2].to
  OBVIOUS
<1>13. y \in Nat /\ x = y - 2
  <2>1. gen.code[u + 2].to \in Nat
    <3>1. u + 2 \in DOMAIN gen.code /\ Done(gen, P, Len(unit))
      BY <1>11 DEF Holds, Settled
    <3>2. PICK z, ins : z = u + 2 /\ ins = gen.code[z]
      OBVIOUS
    <3> QED BY <1>1, <3>1, <3>2, InstrIs
  <2> QED BY <2>1, <1>9, <1>11, <1>12 DEF EndPlace, EndAt
<1>14. p \in Nat \ {0} /\ n \in Nat /\ q \in Nat /\ q <= Len(gen.code) + 1 /\ Len(gen.code) \in Nat /\ DOMAIN gen.code = 1..Len(gen.code)
  BY <1>6 DEF LineCode
<1>15. x \in Nat \ {0} /\ x + 2 <= Len(gen.code) /\ x \in DOMAIN gen.code /\ x + 1 \in DOMAIN gen.code /\ x + 2 \in DOMAIN gen.code
  BY ONLY <1>10, <1>13, <1>14
<1>16. gen.code[P[d] + 2].to = x + 2
  BY ONLY <1>11, <1>12, <1>13
<1>17. PICK loc, c, x1, x2, h : loc = LocalOf(P, d) /\ c = gen.code /\ x1 = x + 1 /\ x2 = x + 2 /\ h = P[d] + 3
  OBVIOUS
<1>18. /\ c[x] = Instr("incr", d) /\ c[x1] = [Instr("dec", d) EXCEPT !.loc = loc]
       /\ c[x2] = [Instr("ifgt", d) EXCEPT !.loc = loc, !.to = h]
  BY <1>9, <1>10, <1>17 DEF LoopEnd, EndPlace, LocalOf
<1>19. /\ c[x].op = "incr" /\ c[x].line = d /\ c[x1].op = "dec" /\ c[x1].line = d /\ c[x1].loc = loc
       /\ c[x2].op = "ifgt" /\ c[x2].line = d /\ c[x2].loc = loc /\ c[x2].lab = 0 /\ c[x2].to = h
  BY ONLY <1>18, Fields, TestFields
<1>20. Holds(x, "incr", d) /\ Holds(x1, "dec", d) /\ Holds(x2, "ifgt", d)
  BY ONLY <1>15, <1>17, <1>19 DEF Holds
<1>21. LoopCode(P, d, t, x)
  BY ONLY <1>9, <1>10, <1>14, <1>15, <1>16, <1>17, <1>19, <1>20 DEF LoopCode
<1> QED BY <1>2, <1>3, <1>4, <1>5, <1>21

-----------------------------------------------------------------------------
(* Where the machines come to when control reaches a line. *)

Lands(P, j) == \A c, f :
  /\ c.pc = P[j] /\ FtnOK(f) /\ f.on /\ Stands(f, j, "stmt") /\ CanFollow(j)
  /\ Lives(P, c, f, DoHeads(j)) /\ Agree(c, f)
  => Sim(P, c, f)

(* Machines that match need no step to do so.                               *)
LEMMA SimAt ==
  ASSUME NEW P, NEW c, NEW f, FtnOK(f), Match(P, c, f)
  PROVE  Sim(P, c, f)
BY LeadsItself DEF Sim
(* Machines that match after a silent Fortran step match before it.         *)
LEMMA SimAfter ==
  ASSUME NEW P, NEW c, NEW f, NEW h, Quiet(f), h = FtnSteps(f), Sim(P, c, h)
  PROVE  Sim(P, c, f)
BY LeadsBy DEF Sim

(* After a line that is not a RETURN control may come to the next one.      *)
LEMMA NextFollows ==
  ASSUME NEW P, Settled(P), NEW t \in Lines, unit[t].k \notin {"end", "return"}
  PROVE  t + 1 \in Lines /\ CanFollow(t + 1)
<1>1. t \in Nat /\ t + 1 \in Lines
  BY LineIs DEF Settled
<1>2. t + 1 - 1 = t
  BY <1>1
<1> QED BY <1>1, <1>2 DEF CanFollow

(* Control has reached the end of line t, where the loops ds end.           *)
LEMMA ClosesLand ==
  ASSUME NEW P, Settled(P), NEW t \in Lines, unit[t].k \notin {"end", "return"}, Lands(P, t + 1),
         NEW c, NEW f, FtnOK(f), f.on, Agree(c, f), NEW ds \in SUBSET Ends(t), Closes(f, t, ds),
         ds = {} => c.pc = P[t + 1] /\ Lives(P, c, f, DoHeads(t + 1)),
         \A d \in ds : (\A e \in ds : e <= d) => c.pc = EndPlace(P, d) /\ Lives(P, c, f, DoHeads(d) \cup {d})
  PROVE  Sim(P, c, f)
<1>1. CASE ds = {}
  <2>1. Stands(f, t + 1, "stmt") /\ CanFollow(t + 1)
    BY <1>1, NextFollows DEF Closes
  <2> QED BY <1>1, <2>1 DEF Lands
<1>2. CASE ds # {}
  <2>1. f.stage = "close" /\ f.loop \in ds /\ \A e \in ds : e <= f.loop
    BY <1>2 DEF Closes
  <2>2. PICK d \in ds : d = f.loop
    BY <2>1
  <2>3. d \in Lines /\ unit[d].k = "do"
    BY <2>2 DEF Ends
  <2>4. AtClose(P, c, f, d)
    BY <2>1, <2>2, <2>3 DEF AtClose
  <2>5. Match(P, c, f)
    BY <2>3, <2>4 DEF Match, Unseen
  <2> QED BY <2>5, SimAt
<1> QED BY <1>1, <1>2

(* Control has reached the end of a statement.                              *)
LEMMA FinishLand ==
  ASSUME NEW P, Settled(P), NEW t \in Lines, unit[t].k \notin {"end", "return", "endif", "do"}, Lands(P, t + 1),
         NEW c, NEW f, FtnOK(f), f.on, Agree(c, f), Closes(f, t, Ends(t)), c.pc = P[t] + Size(t), Lives(P, c, f, DoHeads(t))
  PROVE  Sim(P, c, f)
<1>1. UnitInv /\ phase = "run" /\ t \in 1..(Len(unit) + 1)
  BY UnitTypes DEF Settled, UnitInv
<1>2. PICK p, n, q : LineCode(P, t, p, n, q)
  BY LineCodeIs
<1>3. Chained(gen.code, P, t, Ends(t), P[t + 1])
  BY <1>2 DEF LineCode, LineEnd
<1>4. DoHeads(t + 1) = DoHeads(t) \ Ends(t) /\ Ends(t) \subseteq DoHeads(t)
  BY <1>1, HeadsAfter DEF LoopsAt
<1>5. Ends(t) = {} => c.pc = P[t + 1] /\ Lives(P, c, f, DoHeads(t + 1))
  BY <1>3, <1>4 DEF Chained, Lives
<1>6. ASSUME NEW d \in Ends(t), \A e \in Ends(t) : e <= d
      PROVE  c.pc = EndPlace(P, d) /\ Lives(P, c, f, DoHeads(d) \cup {d})
  <2>1. c.pc = EndPlace(P, d)
    BY <1>3, <1>6 DEF Chained, EndPlace
  <2>2. d \in DoHeads(t)
    BY <1>4
  <2>3. DoHeads(d) \subseteq DoHeads(t)
    BY ONLY <1>1, <2>2, HeadsNest
  <2> QED BY <2>1, <2>2, <2>3 DEF Lives
<1> QED BY <1>5, <1>6, ClosesLand

(* Loop d, which ends at line t, has run out.                               *)
LEMMA ExitLand ==
  ASSUME NEW P, Settled(P), NEW t \in Lines, NEW d \in Ends(t), Lands(P, t + 1),
         NEW c, NEW f, FtnOK(f), f.on, Agree(c, f), Closes(f, t, {e \in Ends(t) : e < d}), c.pc = EndPlace(P, d) + 3,
         Lives(P, c, f, DoHeads(d))
  PROVE  Sim(P, c, f)
<1>1. UnitInv /\ phase = "run" /\ t \in 1..(Len(unit) + 1)
  BY UnitTypes DEF Settled, UnitInv
<1>2. /\ unit[t].k \notin {"end", "return", "do"} /\ d \in Lines /\ d \in Nat /\ \E x : LoopCode(P, d, t, x)
  BY LoopCodeIs
<1>3. PICK x : LoopCode(P, d, t, x)
  BY <1>2
<1>4. /\ DoHeads(t + 1) = DoHeads(t) \ Ends(t) /\ Ends(t) \subseteq DoHeads(t)
      /\ \A e \in DoHeads(t) : e >= d => e \in Ends(t)
  BY <1>1, <1>2, HeadsAfter DEF LoopsAt
<1>5. \A e \in DoHeads(t) : e \in Nat
  BY <1>1, DoHeadsIs
<1>6. DoHeads(d) \subseteq DoHeads(t) /\ \A e \in DoHeads(t) : e < d => e \in DoHeads(d)
  <2>1. d \in DoHeads(t)
    BY <1>4
  <2> QED BY ONLY <1>1, <2>1, HeadsNest
<1> DEFINE ds == {e \in Ends(t) : e < d}
<1>7. ASSUME ds = {} PROVE c.pc = P[t + 1] /\ Lives(P, c, f, DoHeads(t + 1))
  <2>1. \A e \in Ends(t) : d <= e
    BY <1>2, <1>4, <1>5, <1>7
  <2>2. c.pc = P[t + 1]
    BY <1>3, <2>1 DEF LoopCode
  <2>3. ASSUME NEW e \in DoHeads(t + 1) PROVE e \in DoHeads(d)
    BY ONLY <1>2, <1>4, <1>5, <1>6, <2>3
  <2> QED BY <2>2, <2>3 DEF Lives
<1>8. ASSUME NEW e \in ds, \A y \in ds : y <= e
      PROVE  c.pc = EndPlace(P, e) /\ Lives(P, c, f, DoHeads(e) \cup {e})
  <2>1. e \in Ends(t) /\ e < d /\ e \in DoHeads(t)
    BY <1>4
  <2>2. \A y \in Ends(t) : y <= e \/ d <= y
    BY <1>8, <1>2, <1>4, <1>5
  <2>3. EndPlace(P, e) = x + 3 /\ x = EndPlace(P, d)
    BY <1>3, <2>1, <2>2 DEF LoopCode
  <2>4. e \in DoHeads(d) /\ d \in 1..(Len(unit) + 1)
    BY <1>1, <1>2, <1>6, <2>1, UnitTypes DEF UnitInv
  <2>5. DoHeads(e) \subseteq DoHeads(d)
    BY ONLY <1>1, <2>4, HeadsNest
  <2> QED BY <2>3, <2>4, <2>5 DEF Lives
<1>9. ds \in SUBSET Ends(t)
  OBVIOUS
<1>10. Closes(f, t, ds)
  OBVIOUS
<1> HIDE DEF ds
<1> QED BY <1>2, <1>7, <1>8, <1>9, <1>10, ClosesLand

(* The Fortran machine passes the end of a block.                           *)
LEMMA PassEndIf ==
  ASSUME NEW P, Settled(P), NEW e \in Lines, unit[e].k = "endif", NEW f, FtnOK(f), f.on,
         Stands(f, e, "stmt") \/ Stands(f, e, "arm")
  PROVE  Quiet(f) /\ Moves(f, FtnSteps(f), e + 1, "stmt")
<1>1. UnitInv /\ phase = "run" /\ f.at = e /\ f \in FtnType
  BY DEF Settled, Stands, FtnOK
<1>2. Ends(e) = {}
  BY <1>1 DEF UnitInv, Openings, Follows
<1>3. CASE Stands(f, e, "stmt")
  <2>1. FtnSilent(f) /\ FtnSteps(f) = Finish(f, e)
    BY <1>1, <1>3, SilentIs DEF Stands
  <2>2. FtnOK(Close(f, e, {})) /\ Closes(Close(f, e, {}), e, {}) /\ Carries(f, Close(f, e, {}))
    BY <1>1, CloseIs
  <2>3. Finish(f, e) = Close(f, e, {})
    BY <1>2 DEF Finish
  <2> QED BY <1>1, <2>1, <2>2, <2>3 DEF Quiet, Moves, Closes
<1>4. CASE Stands(f, e, "arm")
  <2>1. FtnSilent(f) /\ Moves(f, FtnSteps(f), e + 1, "stmt")
    BY <1>1, <1>4, SilentIs DEF Stands
  <2> QED BY <1>1, <2>1 DEF Quiet
<1> QED BY <1>3, <1>4

(* Control passes the end of block e, where the code may have a goto.       *)
LEMMA EndIfLand ==
  ASSUME NEW P, Settled(P), NEW e \in Lines, unit[e].k = "endif", Lands(P, e + 1),
         NEW c, NEW f, FtnOK(f), f.on, Agree(c, f), Stands(f, e + 1, "stmt"), c.pc = P[e], Lives(P, c, f, DoHeads(e + 1))
  PROVE  Sim(P, c, f)
<1>1. PICK p, n, q : LineCode(P, e, p, n, q)
  BY LineCodeIs
<1>2. EndIfCode(gen.code, P, e) /\ e + 1 \in Lines /\ CanFollow(e + 1)
  BY <1>1, NextFollows DEF LineCode, LineEnd
<1>3. CASE P[e + 1] = P[e]
  BY <1>2, <1>3 DEF Lands
<1>4. CASE P[e + 1] = P[e] + 1 /\ gen.code[P[e]] = [Instr("goto", e) EXCEPT !.to = P[e + 1]]
  <2>1. p \in DOMAIN gen.code /\ p = P[e]
    BY <1>1, <1>4 DEF LineCode
  <2>2. gen.code[p] = [Instr("goto", e) EXCEPT !.to = P[e + 1]]
    BY ONLY <1>4, <2>1
  <2>3. gen.code[p].op = "goto" /\ gen.code[p].lab = 0 /\ gen.code[p].to = P[e + 1]
    <3>1. PICK g, x : g = gen.code[p] /\ x = P[e + 1]
      OBVIOUS
    <3>2. g = [Instr("goto", e) EXCEPT !.to = x]
      BY ONLY <2>2, <3>1, Zenon
    <3>3. g.op = "goto" /\ g.lab = 0 /\ g.to = x
      BY ONLY <3>2 DEF Instr
    <3> QED BY ONLY <3>1, <3>3, Zenon
  <2>4. AtLeave(P, c, f, e + 1)
    BY <1>2, <2>1, <2>3 DEF AtLeave
  <2>5. Match(P, c, f)
    BY <1>2, <2>4 DEF Match, Unseen
  <2> QED BY <2>5, SimAt
<1> QED BY <1>2, <1>3, <1>4 DEF EndIfCode

(* The lines of a block lie in the same loops.                              *)
LEMMA BlockHeads ==
  ASSUME UnitInv, NEW i \in Lines, NEW e \in Lines, unit[i].k \in {"if"} \cup Arms, unit[e].k \in Arms, unit[e].of = HeadOf(i)
  PROVE  DoHeads(e) = DoHeads(i) /\ DoHeads(e + 1) = DoHeads(i)
<1>1. HeadOf(e) = HeadOf(i)
  BY DEF HeadOf, Arms
<1>2. DoHeads(e) = DoHeads(HeadOf(e)) /\ DoHeads(i) = DoHeads(HeadOf(i))
  BY ArmHeads
<1>3. DoHeads(e + 1) = LoopsAt(e) \ Ends(e) /\ Ends(e) = {}
  BY HeadsAfter DEF Arms, Openers
<1>4. LoopsAt(e) = DoHeads(e)
  BY DEF LoopsAt, Arms
<1> QED BY <1>1, <1>2, <1>3, <1>4

(* Control goes on to a line label, from line j.                            *)
LEMMA GotoLand ==
  ASSUME NEW P, Settled(P), NEW j \in Lines, unit[j].k \notin {"do", "end"}, NEW l \in ToSet(Chosen(j)), In(LineOf(l)) \subseteq In(j),
         NEW c, NEW f, FtnOK(f), Agree(c, f), Stands(f, LineOf(l), "stmt"), HoldsGoto(c.pc, l), Lives(P, c, f, DoHeads(j))
  PROVE  Sim(P, c, f)
<1>1. l # 0
  BY JumpIs DEF Settled, FtnOK
<1>2. AtJump(P, c, f, j)
  BY <1>1 DEF AtJump, Gone, HoldsGoto
<1>3. Match(P, c, f)
  BY <1>2 DEF Match, Unseen
<1> QED BY <1>3, SimAt

(* The same values stay when only the place of the Fortran machine moves.   *)
LEMMA MovedAgree ==
  ASSUME NEW P, NEW c, NEW f, NEW h, Carries(f, h)
  PROVE  (Agree(c, f) => Agree(c, h)) /\ (f.on => h.on) /\ \A D : Lives(P, c, f, D) => Lives(P, c, h, D)
BY DEF Carries, Agree, Lives

(* The parts of a block IF open and end no loop.                            *)
LEMMA HeadsStay ==
  ASSUME UnitInv, NEW j \in Lines, unit[j].k \in {"if"} \cup Arms
  PROVE  DoHeads(j + 1) = DoHeads(j) /\ Ends(j) = {}
<1>1. unit[j].k # "do" /\ unit[j].k \in Openers \cup {"endif"}
  BY DEF Openers, Arms
<1>2. DoHeads(j + 1) = LoopsAt(j) \ Ends(j) /\ Ends(j) = {}
  BY <1>1, HeadsAfter
<1>3. LoopsAt(j) = DoHeads(j)
  BY <1>1 DEF LoopsAt
<1> QED BY <1>2, <1>3

(* Control comes to a line.                                                 *)
LEMMA LandStep ==
  ASSUME NEW P, Settled(P), NEW j \in Lines, unit[j].k # "end", Lands(P, j + 1)
  PROVE  Lands(P, j)
<1> SUFFICES ASSUME NEW c, NEW f, c.pc = P[j], FtnOK(f), f.on, Stands(f, j, "stmt"), CanFollow(j),
                    Lives(P, c, f, DoHeads(j)), Agree(c, f)
             PROVE  Sim(P, c, f)
  BY DEF Lands
<1>1. UnitInv /\ phase = "run" /\ f \in FtnType /\ f.at = j /\ f.stage = "stmt"
  BY DEF Settled, FtnOK, Stands
<1>2. PICK k : k = unit[j].k
  OBVIOUS
<1>3. k \in Kinds \ {"end"}
  BY <1>1, <1>2, UnitTypes DEF UnitInv
<1>4. PICK p, n, q : LineCode(P, j, p, n, q)
  BY LineCodeIs
<1>5. p = P[j] /\ n = Size(j) /\ q = P[j + 1] /\ p \in Nat /\ j + 1 \in Lines /\ LineEnd(gen.code, P, j)
  BY <1>4 DEF LineCode
<1>6. CASE k \in Visible
  <2>1. AtStatement(P, c, f, j)
    BY <1>2, <1>6 DEF AtStatement
  <2>2. Match(P, c, f)
    BY <2>1 DEF Match, Seen
  <2> QED BY <2>2, SimAt
<1>7. CASE k = "goto"
  <2>1. PICK l : l = unit[j].to[1]
    OBVIOUS
  <2>2. l \in ToSet(unit[j].to) /\ l \in ToSet(Chosen(j))
    BY <1>1, <1>2, <1>7, <2>1, LabelsAre
  <2>3. FtnSilent(f) /\ FtnSteps(f) = JumpTo(f, l)
    BY <1>1, <1>2, <1>7, <2>1, SilentIs
  <2>4. Moves(f, JumpTo(f, l), LineOf(l), "stmt") /\ In(LineOf(l)) \subseteq In(j)
    BY <1>1, <1>2, <1>7, <2>2, JumpIs
  <2>5. PICK h : h = FtnSteps(f)
    OBVIOUS
  <2>6. FtnOK(h) /\ Stands(h, LineOf(l), "stmt") /\ Agree(c, h) /\ Lives(P, c, h, DoHeads(j))
    BY <2>3, <2>4, <2>5, MovedAgree DEF Moves
  <2>7. HoldsGoto(c.pc, l)
    <3>1. PICK to : to = unit[j].to
      OBVIOUS
    <3>2. PlainLine(j, p, n, k, to)
      BY <1>1, <1>2, <1>4, <3>1, PlainCode
    <3>3. HoldsGoto(p, to[1])
      BY <3>2, <1>7 DEF PlainLine
    <3> QED BY <1>5, <2>1, <3>1, <3>3
  <2>8. Sim(P, c, h)
    BY <1>2, <1>7, <2>2, <2>4, <2>6, <2>7, GotoLand
  <2> QED BY <1>1, <2>3, <2>5, <2>8, SimAfter DEF Quiet
<1>8. CASE k = "elseif" \/ (k = "else" /\ ~ Empty(j))
  <2>1. PICK e : e = EndOf(j)
    OBVIOUS
  <2>2. e \in Lines /\ unit[e].k = "endif" /\ unit[e].of = unit[j].of /\ j < e
    BY <1>1, <1>2, <1>8, <2>1, EndOfIs
  <2>3. PICK h : h = FtnSteps(f)
    OBVIOUS
  <2>4. FtnSilent(f) /\ Moves(f, h, e, "stmt")
    BY <1>1, <1>2, <1>8, <2>1, <2>3, SilentIs
  <2>5. FtnOK(h) /\ h.on /\ Stands(h, e, "stmt")
    BY <2>4, MovedAgree DEF Moves
  <2>6. PICK r : r = FtnSteps(h)
    OBVIOUS
  <2>7. Quiet(h) /\ Moves(h, r, e + 1, "stmt")
    BY <2>2, <2>5, <2>6, PassEndIf
  <2>8. HeadOf(j) = unit[j].of
    BY <1>2, <1>8 DEF HeadOf
  <2>9. DoHeads(e + 1) = DoHeads(j)
    BY <1>1, <1>2, <1>8, <2>2, <2>8, BlockHeads DEF Arms
  <2>10. HoldsGoto(p, 0)
    BY <1>1, <1>2, <1>4, <1>8, PlainCode DEF PlainLine
  <2>11. gen.code[p].to = P[e + 1]
    <3>1. PICK N : N = Len(unit)
      OBVIOUS
    <3>2. e < N /\ Lines = 1..N /\ N \in Nat /\ j < N
      BY <1>1, <1>2, <1>3, <2>2, <3>1, LineIs
    <3>3. e \in 1..(N - 1) /\ j \in 1..(N - 1)
      BY <2>2, <3>2
    <3>4. ArmEnd(gen.code, P, N, j)
      BY <3>1, <3>3 DEF Settled, Done, LinesCoded
    <3>5. Jumps(j)
      BY <1>2, <1>8 DEF Jumps
    <3> QED BY <1>5, <2>2, <3>3, <3>4, <3>5 DEF ArmEnd
  <2>12. FtnOK(r) /\ Stands(r, e + 1, "stmt") /\ Agree(c, r) /\ Lives(P, c, r, DoHeads(e + 1))
    BY <2>4, <2>7, <2>9, MovedAgree DEF Moves
  <2>13. e + 1 \in Lines /\ CanFollow(e + 1)
    BY <2>2, NextFollows
  <2>14. AtLeave(P, c, r, e + 1)
    BY <1>5, <2>10, <2>11, <2>12, <2>13 DEF AtLeave, HoldsGoto
  <2>15. Match(P, c, r)
    BY <2>12, <2>13, <2>14 DEF Match, Unseen
  <2>16. Sim(P, c, r)
    BY <2>12, <2>15, SimAt
  <2>17. Sim(P, c, h)
    BY <2>6, <2>7, <2>16, SimAfter
  <2> QED BY <1>1, <2>3, <2>4, <2>17, SimAfter DEF Quiet
<1>9. CASE k = "else" /\ Empty(j)
  <2>1. EndOf(j) = j + 1
    BY <1>1, <1>9, EmptyIs
  <2>2. PICK h : h = FtnSteps(f)
    OBVIOUS
  <2>3. FtnSilent(f) /\ Moves(f, h, j + 1, "stmt")
    BY <1>1, <1>2, <1>9, <2>1, <2>2, SilentIs
  <2>4. DoHeads(j + 1) = DoHeads(j) /\ Ends(j) = {}
    BY <1>1, <1>2, <1>9, HeadsStay DEF Arms
  <2>5. n = 0
    <3>1. unit[j].k = "else"
      BY <1>2, <1>9
    <3>2. Size(j) = IF Empty(j) THEN 0 ELSE 1
      BY ONLY <1>1, <3>1, j \in Lines, SizeIs
    <3> QED BY ONLY <1>5, <1>9, <3>2
  <2>6. q = p
    BY <1>2, <1>5, <1>9, <2>4, <2>5 DEF LineEnd, Chained
  <2>7. FtnOK(h) /\ h.on /\ Stands(h, j + 1, "stmt") /\ Agree(c, h) /\ Lives(P, c, h, DoHeads(j + 1))
    BY <2>3, <2>4, MovedAgree DEF Moves
  <2>8. CanFollow(j + 1)
    BY <1>2, <1>9, NextFollows
  <2>9. Sim(P, c, h)
    BY <1>5, <2>6, <2>7, <2>8 DEF Lands
  <2> QED BY <1>1, <2>2, <2>3, <2>9, SimAfter DEF Quiet
<1>10. CASE k = "endif"
  <2>1. PICK h : h = FtnSteps(f)
    OBVIOUS
  <2>2. Quiet(f) /\ Moves(f, h, j + 1, "stmt")
    BY <1>2, <1>10, <2>1, PassEndIf
  <2>3. DoHeads(j + 1) = DoHeads(j)
    BY <1>1, <1>2, <1>10, HeadsStay DEF Arms
  <2>4. FtnOK(h) /\ h.on /\ Stands(h, j + 1, "stmt") /\ Agree(c, h) /\ Lives(P, c, h, DoHeads(j + 1))
    BY <2>2, <2>3, MovedAgree DEF Moves
  <2>5. Sim(P, c, h)
    BY <1>2, <1>10, <2>4, EndIfLand
  <2> QED BY <2>1, <2>2, <2>5, SimAfter
<1>11. CASE k \in {"continue", "enddo"}
  <2>1. PICK h : h = FtnSteps(f)
    OBVIOUS
  <2>2. FtnSilent(f) /\ h = Close(f, j, Ends(j))
    BY <1>1, <1>2, <1>11, <2>1, SilentIs DEF Finish
  <2>3. FtnOK(h) /\ Closes(h, j, Ends(j)) /\ Carries(f, h)
    BY <1>1, <2>2, CloseIs
  <2>4. h.on /\ Agree(c, h) /\ Lives(P, c, h, DoHeads(j))
    BY <2>3, MovedAgree
  <2>5. c.pc = P[j] + Size(j)
    <3>1. Size(j) = 0
      BY <1>1, <1>2, <1>11, SizeIs
    <3> QED BY <3>1, <1>5
  <2>6. Sim(P, c, h)
    BY <1>2, <1>11, <2>3, <2>4, <2>5, FinishLand
  <2> QED BY <1>1, <2>1, <2>2, <2>6, SimAfter DEF Quiet
<1> QED BY <1>3, <1>6, <1>7, <1>8, <1>9, <1>10, <1>11 DEF Kinds, Visible

(* Control comes to END.                                                    *)
LEMMA LandEnd ==
  ASSUME NEW P, Settled(P)
  PROVE  Lands(P, Len(unit))
<1>1. PICK N : N = Len(unit)
  OBVIOUS
<1>2. N \in Nat \ {0} /\ N \in Lines
  BY <1>1, StartIs, LineIs DEF Settled
<1>3. PICK w : w = P[N]
  OBVIOUS
<1>4. EndCode(gen, N, w) /\ (Len(gen.code) = w - 1 => N > 1 /\ unit[N - 1].k = "return" /\ unit[N].lab = 0) /\ gen \in GenType
  BY <1>1, <1>3 DEF Settled, Done
<1>5. w \in Nat
  BY <1>1, <1>2, <1>3 DEF Settled, Done, LinesCoded
<1>6. ASSUME CanFollow(N) PROVE w <= Len(gen.code)
  <2>1. Len(gen.code) = w - 1 \/ Len(gen.code) = w \/ Len(gen.code) = w + 4
    BY <1>4 DEF EndCode
  <2>2. Len(gen.code) # w - 1
    BY <1>1, <1>2, <1>4, <1>6 DEF CanFollow
  <2> QED BY <1>5, <2>1, <2>2
<1>7. ASSUME NEW c, NEW f, c.pc = w, FtnOK(f), Stands(f, N, "stmt"), CanFollow(N), Agree(c, f)
      PROVE  Sim(P, c, f)
  <2>1. Len(gen.code) \in Nat
    BY <1>4, CodeAt
  <2>2. c.pc \in w..Len(gen.code)
    BY <1>5, <1>6, <1>7, <2>1
  <2>3. Match(P, c, f)
    BY <1>1, <1>3, <1>7, <2>2 DEF Match, AtEnd
  <2> QED BY <1>7, <2>3, SimAt
<1>8. Lands(P, N)
  BY <1>3, <1>7 DEF Lands
<1> QED BY <1>1, <1>8

(* Machines that reach a line together match there.                         *)
LEMMA LandAll ==
  ASSUME NEW P, Settled(P)
  PROVE  \A j \in Lines : Lands(P, j)
<1>1. PICK N : N = Len(unit)
  OBVIOUS
<1>2. N \in Nat \ {0} /\ Lines = 1..N /\ \A j \in Lines : unit[j].k = "end" <=> j = N
  BY <1>1, StartIs, LineIs DEF Settled
<1>3. Lands(P, N)
  BY <1>1, LandEnd
<1> DEFINE S == {k \in Nat : Lands(P, N - k)}
<1>4. 0 \in S
  BY <1>2, <1>3
<1>5. ASSUME NEW k \in 1..(N - 1), k - 1 \in S PROVE k \in S
  <2>1. PICK j, i : j = N - k /\ i = j + 1
    OBVIOUS
  <2>2. j \in Lines /\ j # N /\ i = N - (k - 1) /\ k \in Nat
    BY <1>2, <1>5, <2>1
  <2>3. Lands(P, i)
    BY <1>5, <2>2
  <2>4. Lands(P, j)
    BY <1>2, <2>1, <2>2, <2>3, LandStep
  <2> QED BY <2>1, <2>2, <2>4
<1>6. N - 1 \in Nat
  BY <1>2
<1> HIDE DEF S
<1>7. \A k \in 0..(N - 1) : k \in S
  BY ONLY <1>4, <1>5, <1>6, UpTo
<1>8. ASSUME NEW j \in Lines PROVE Lands(P, j)
  <2>1. N - j \in 0..(N - 1) /\ N - (N - j) = j
    BY <1>2
  <2>2. Lands(P, N - (N - j))
    BY <1>7, <2>1 DEF S
  <2> QED BY <2>1, <2>2
<1> QED BY <1>8

-----------------------------------------------------------------------------
(* The steps that the code makes alone. *)

(* The count of a loop is in a local variable of the method.                *)
LEMMA LocalIs ==
  ASSUME NEW P, Settled(P), NEW d \in Lines, unit[d].k = "do"
  PROVE  LocalOf(P, d) \in 0..(MaxLocal - 1)
<1>1. UnitInv /\ phase = "run" /\ Done(gen, P, Len(unit))
  BY DEF Settled
<1>2. PICK p, n, q : LineCode(P, d, p, n, q)
  BY LineCodeIs
<1>3. PICK x : x = p + 1
  OBVIOUS
<1>4. PICK k, l : k = unit[d].k /\ l = unit[d].to
  OBVIOUS
<1>5. PlainLine(d, p, n, k, l) /\ p = P[d]
  BY <1>1, <1>2, <1>4, PlainCode DEF LineCode
<1>6. x \in DOMAIN gen.code
  BY <1>3, <1>4, <1>5 DEF PlainLine, Holds
<1>7. PICK ins : ins = gen.code[x]
  OBVIOUS
<1>8. ins.loc \in 0..(MaxLocal - 1)
  BY <1>1, <1>6, <1>7, InstrIs
<1> QED BY <1>3, <1>5, <1>7, <1>8 DEF LocalOf

(* The locals of the loops around loop d are others than its own.           *)
LEMMA OuterLocals ==
  ASSUME NEW P, Settled(P), NEW j \in Lines, unit[j].k # "end", NEW loc,
         \/ unit[j].k = "do" /\ loc = LocalOf(P, j)
         \/ unit[j].k \in {"cgoto", "agoto", "aif", "aifwide"} /\ loc = gen.code[P[j]].loc
  PROVE  \A d \in DoHeads(j) : LocalOf(P, d) \in 0..(MaxLocal - 1) /\ LocalOf(P, d) < loc /\ d # j /\ d \in 1..MaxLines
<1>1. UnitInv /\ phase = "run" /\ j \in 1..(Len(unit) + 1)
  BY UnitTypes DEF Settled, UnitInv
<1>2. PICK p, n, q : LineCode(P, j, p, n, q)
  BY LineCodeIs
<1>3. LocalsOK(gen.code, P, j)
  BY <1>2 DEF LineCode
<1>4. \A d \in DoHeads(j) : d \in Lines /\ unit[d].k = "do" /\ d \in 1..(j - 1)
  BY <1>1, DoHeadsIs
<1>5. j \in Nat /\ Lines \subseteq 1..MaxLines
  BY <1>1, LinesAre
<1>6. ASSUME NEW d \in DoHeads(j) PROVE LocalOf(P, d) < loc
  BY <1>3, <1>6 DEF LocalsOK, LocalOf
<1>7. ASSUME NEW d \in DoHeads(j) PROVE LocalOf(P, d) \in 0..(MaxLocal - 1)
  BY <1>4, LocalIs
<1>8. ASSUME NEW d \in DoHeads(j) PROVE d # j /\ d \in 1..MaxLines
  BY <1>4, <1>5
<1> QED BY <1>6, <1>7, <1>8

(* A store to another local leaves the counts of the loops alone.           *)
LEMMA LivesKept ==
  ASSUME NEW P, NEW c \in CodeType, NEW h, NEW f, NEW D, Lives(P, c, f, D), NEW loc, NEW v,
         h.local = [c.local EXCEPT ![loc] = v],
         \A d \in D : LocalOf(P, d) \in 0..(MaxLocal - 1) /\ LocalOf(P, d) # loc
  PROVE  Lives(P, h, f, D)
<1>1. DOMAIN c.local = 0..(MaxLocal - 1)
  BY DEF CodeType
<1>2. ASSUME NEW d \in D PROVE h.local[LocalOf(P, d)] = c.local[LocalOf(P, d)]
  <2>1. PICK x : x = LocalOf(P, d)
    OBVIOUS
  <2>2. x \in 0..(MaxLocal - 1) /\ x # loc
    BY <2>1
  <2> QED BY <1>1, <2>1, <2>2
<1> QED BY <1>2 DEF Lives

(* The end of a loop: the DO variable is incremented.                       *)
LEMMA CloseStep ==
  ASSUME NEW P, Settled(P), NEW c \in CodeType, NEW f, FtnOK(f), f.on, Agree(c, f), NEW d, AtClose(P, c, f, d),
         NEW ins, ins = gen.code[c.pc], NEW h, Stepped(c, ins, h)
  PROVE  Sim(P, h, f)
<1>1. UnitInv /\ phase = "run" /\ f \in FtnType
  BY DEF Settled, FtnOK
<1>2. PICK t : t = f.at
  OBVIOUS
<1>3. PICK r : r = FtnSteps(f)
  OBVIOUS
<1>4. t \in Lines /\ d \in Ends(t) /\ d \in Lines /\ unit[d].k = "do" /\ f.stage = "close" /\ f.loop = d
      /\ Lives(P, c, f, DoHeads(d)) /\ c.local[LocalOf(P, d)] = f.left[d] /\ c.pc = EndPlace(P, d)
  BY <1>2 DEF FtnOK, Ends, AtClose, Lives
<1>5. FtnSilent(f) /\ r = Increment(f)
  BY <1>1, <1>2, <1>3, <1>4, SilentIs
<1>6. Incremented(f, r, d, t)
  BY <1>1, <1>2, <1>4, <1>5, IncrementIs
<1>7. PICK x : LoopCode(P, d, t, x)
  BY <1>4, LoopCodeIs
<1>8. ins.op = "incr" /\ ins.line = d /\ c.pc = x
  BY <1>4, <1>7 DEF LoopCode, Holds
<1>9. /\ h \in CodeType /\ h.asg = c.asg /\ h.on = c.on /\ h.local = c.local /\ h.pc = x + 1
      /\ h.val = [c.val EXCEPT ![d] = @ + unit[d].do.incr]
  BY <1>8 DEF Stepped
<1>10. \A e \in DoHeads(d) : e # d /\ e \in 1..MaxLines
  BY <1>4, OuterLocals
<1>11. d \in 1..MaxLines /\ DOMAIN f.left = 1..MaxLines
  BY <1>1, <1>4, LinesAre DEF FtnType
<1>12. r.left[d] = f.left[d] - 1 /\ \A e \in DoHeads(d) : r.left[e] = f.left[e]
  BY <1>6, <1>10, <1>11 DEF Incremented
<1>13. Agree(h, r)
  BY <1>6, <1>9 DEF Agree, Incremented
<1>14. Lives(P, h, r, DoHeads(d))
  BY <1>4, <1>9, <1>12 DEF Lives
<1>15. Decided(r, d, h.local[LocalOf(P, d)] - 1)
  <2>1. PICK y : y = f.left[d] - 1
    OBVIOUS
  <2>2. Decided(r, d, y)
    BY <1>4, <1>6, <1>12, <2>1 DEF Decided, Incremented
  <2> QED BY <1>4, <1>9, <2>1, <2>2
<1>16. AtDecision(P, h, r, d)
  BY <1>4, <1>7, <1>9, <1>14, <1>15 DEF AtDecision, LoopCode
<1>17. Match(P, h, r)
  BY <1>4, <1>13, <1>16 DEF Match, Unseen
<1>18. Sim(P, h, r)
  BY <1>6, <1>17, SimAt DEF Incremented
<1>19. Quiet(f)
  BY <1>2, <1>4, <1>5 DEF Quiet
<1> QED BY <1>3, <1>18, <1>19, SimAfter

(* Another iteration of loop d.                                             *)
LEMMA EnterLand ==
  ASSUME NEW P, Settled(P), NEW d \in Lines, unit[d].k = "do",
         NEW c, NEW f, FtnOK(f), f.on, Agree(c, f), Stands(f, d + 1, "stmt"), c.pc = P[d] + 3,
         Lives(P, c, f, DoHeads(d)), c.local[LocalOf(P, d)] = f.left[d]
  PROVE  Sim(P, c, f)
<1>1. UnitInv /\ phase = "run"
  BY DEF Settled
<1>2. PICK p, n, q : LineCode(P, d, p, n, q)
  BY LineCodeIs
<1>3. Ends(d) = {} /\ DoHeads(d + 1) = LoopsAt(d) \ Ends(d)
  BY <1>1, HeadsAfter DEF Openers
<1>4. DoHeads(d + 1) = DoHeads(d) \cup {d}
  BY <1>3 DEF LoopsAt
<1>5. Size(d) = 3
  BY <1>1, SizeIs
<1>6. P[d + 1] = P[d] + 3
  BY <1>2, <1>3, <1>5 DEF LineCode, LineEnd, Chained
<1>7. Lands(P, d + 1) /\ CanFollow(d + 1)
  BY NextFollows, LandAll
<1>8. Lives(P, c, f, DoHeads(d + 1))
  BY <1>4 DEF Lives
<1> QED BY <1>6, <1>7, <1>8 DEF Lands

(* The code finds out what the Fortran machine has decided.                 *)
LEMMA DecisionStep ==
  ASSUME NEW P, Settled(P), NEW c \in CodeType, NEW f, FtnOK(f), f.on, Agree(c, f), NEW d \in Lines, AtDecision(P, c, f, d),
         NEW ins, ins = gen.code[c.pc], NEW h, Stepped(c, ins, h)
  PROVE  Sim(P, h, f)
<1>1. UnitInv /\ phase = "run" /\ f \in FtnType
  BY DEF Settled, FtnOK
<1>2. PICK loc : loc = LocalOf(P, d)
  OBVIOUS
<1>3. unit[d].k = "do" /\ Lives(P, c, f, DoHeads(d))
  BY DEF AtDecision
<1>4. PICK p, n, q : LineCode(P, d, p, n, q)
  BY <1>3, LineCodeIs
<1>5. PICK l : l = unit[d].to
  OBVIOUS
<1>6. PlainLine(d, p, n, "do", l) /\ p = P[d] /\ p \in Nat
  BY <1>1, <1>3, <1>4, <1>5, PlainCode DEF LineCode
<1>7. Holds(p + 1, "count", d) /\ HoldsGoto(p + 2, 0)
  BY <1>6 DEF PlainLine
<1>8. \A e \in DoHeads(d) : LocalOf(P, e) \in 0..(MaxLocal - 1) /\ LocalOf(P, e) # loc
  <2>1. \A e \in DoHeads(d) : LocalOf(P, e) \in 0..(MaxLocal - 1) /\ LocalOf(P, e) < loc
    BY <1>2, <1>3, OuterLocals
  <2> QED BY <2>1
<1>9. loc \in 0..(MaxLocal - 1) /\ DOMAIN c.local = 0..(MaxLocal - 1) /\ \A x \in 0..(MaxLocal - 1) : c.local[x] \in Int
  BY <1>2, <1>3, LocalIs DEF CodeType
<1>10. PICK t : t = Terminal(d)
  OBVIOUS
<1>11. t \in Lines /\ d \in Ends(t) /\ \A y \in Lines : d \in Ends(y) => y = t
  BY <1>1, <1>3, <1>10, TerminalIs
<1>12. PICK x : LoopCode(P, d, t, x)
  BY <1>11, LoopCodeIs
<1>13. x = EndPlace(P, d) /\ x \in Nat /\ Holds(x + 1, "dec", d) /\ gen.code[x + 1].loc = loc /\ gen.code[p + 2].to = x + 2
       /\ Holds(x + 2, "ifgt", d) /\ gen.code[x + 2].loc = loc /\ gen.code[x + 2].lab = 0 /\ gen.code[x + 2].to = p + 3
  BY <1>2, <1>6, <1>12 DEF LoopCode
<1>14. h \in CodeType /\ h.asg = c.asg /\ h.on = c.on
  BY DEF Stepped
<1>15. ASSUME NEW pc, pc = p + 1 \/ pc = p + 2 \/ pc = x + 1 \/ pc = x + 2, pc = c.pc PROVE ins.lab = 0 => Target(ins) = ins.to
  <2>1. c.pc \in DOMAIN gen.code /\ Done(gen, P, Len(unit))
    BY <1>7, <1>13, <1>15 DEF Holds, HoldsGoto, Settled
  <2> QED BY ONLY <1>1, <2>1, ins = gen.code[c.pc], InstrIs
<1>16. CASE c.pc = p + 1 /\ Decided(f, d, Iterations(unit[d].do, c.val[d]))
  <2>1. ins.op = "count" /\ ins.line = d /\ ins.loc = loc
    BY <1>2, <1>6, <1>7, <1>16 DEF Holds, LocalOf
  <2>2. PICK v : v = Iterations(unit[d].do, c.val[d])
    OBVIOUS
  <2>3. h.local = [c.local EXCEPT ![loc] = v] /\ h.val = c.val /\ h.pc = c.pc + 1
    BY <2>1, <2>2 DEF Stepped
  <2>4. h.local[loc] = v
    BY <1>9, <2>3
  <2>5. Lives(P, h, f, DoHeads(d))
    BY <1>3, <1>8, <2>3, LivesKept
  <2>6. h.pc = P[d] + 2
    BY <1>6, <1>16, <2>3
  <2>7. AtDecision(P, h, f, d)
    BY <1>2, <1>3, <1>16, <2>2, <2>4, <2>5, <2>6 DEF AtDecision
  <2>8. Agree(h, f)
    BY <1>14, <2>3 DEF Agree
  <2>9. Match(P, h, f)
    BY <2>7, <2>8 DEF Match, Unseen
  <2> QED BY <2>9, SimAt
<1>17. CASE c.pc = p + 2 /\ Decided(f, d, c.local[loc])
  <2>1. ins.op = "goto" /\ ins.lab = 0 /\ ins.to = x + 2
    BY <1>7, <1>13, <1>17 DEF HoldsGoto
  <2>2. h.local = c.local /\ h.val = c.val /\ h.pc = x + 2
    BY <1>15, <1>17, <2>1 DEF Stepped
  <2>3. Lives(P, h, f, DoHeads(d))
    BY <1>3, <2>2 DEF Lives
  <2>4. AtDecision(P, h, f, d)
    BY <1>2, <1>3, <1>13, <1>17, <2>2, <2>3 DEF AtDecision
  <2>5. Agree(h, f)
    BY <1>14, <2>2 DEF Agree
  <2>6. Match(P, h, f)
    BY <2>4, <2>5 DEF Match, Unseen
  <2> QED BY <2>6, SimAt
<1>18. CASE c.pc = x + 1 /\ Decided(f, d, c.local[loc] - 1)
  <2>1. ins.op = "dec" /\ ins.line = d /\ ins.loc = loc
    BY <1>13, <1>18 DEF Holds
  <2>2. PICK v : v = c.local[loc] - 1
    OBVIOUS
  <2>3. h.local = [c.local EXCEPT ![loc] = v] /\ h.val = c.val /\ h.pc = c.pc + 1
    BY <2>1, <2>2 DEF Stepped
  <2>4. h.local[loc] = v
    BY <1>9, <2>3
  <2>5. Lives(P, h, f, DoHeads(d))
    BY <1>3, <1>8, <2>3, LivesKept
  <2>6. h.pc = EndPlace(P, d) + 2
    BY <1>13, <1>18, <2>3
  <2>7. AtDecision(P, h, f, d)
    BY <1>2, <1>3, <1>18, <2>2, <2>4, <2>5, <2>6 DEF AtDecision
  <2>8. Agree(h, f)
    BY <1>14, <2>3 DEF Agree
  <2>9. Match(P, h, f)
    BY <2>7, <2>8 DEF Match, Unseen
  <2> QED BY <2>9, SimAt
<1>19. CASE c.pc = x + 2 /\ Decided(f, d, c.local[loc])
  <2>1. PICK v : v = c.local[loc]
    OBVIOUS
  <2>2. ins.op = "ifgt" /\ ins.lab = 0 /\ ins.to = p + 3 /\ ins.loc = loc /\ Target(ins) = p + 3
    BY <1>13, <1>15, <1>19 DEF Holds
  <2>3. h.local = c.local /\ h.val = c.val /\ h.pc = Branch(ins, c, v <= 0) /\ v \in Int
    BY <1>9, <2>1, <2>2 DEF Stepped
  <2>4. Agree(h, f) /\ Lives(P, h, f, DoHeads(d))
    BY <1>3, <1>14, <2>3 DEF Agree, Lives
  <2>5. (v > 0 => f.left[d] = v /\ Stands(f, d + 1, "stmt")) /\ (~ (v > 0) => Closes(f, t, {e \in Ends(t) : e < d}))
    BY <1>11, <1>19, <2>1 DEF Decided
  <2>6. CASE v > 0
    <3>1. h.pc = P[d] + 3
      BY <1>6, <2>2, <2>3, <2>6 DEF Branch
    <3>2. h.local[LocalOf(P, d)] = f.left[d]
      BY <1>2, <2>1, <2>3, <2>5, <2>6
    <3> QED BY <1>3, <2>4, <2>5, <2>6, <3>1, <3>2, EnterLand
  <2>7. CASE ~ (v > 0)
    <3>1. h.pc = EndPlace(P, d) + 3
      <4>1. h.pc = c.pc + 1
        BY <2>3, <2>7 DEF Branch
      <4> QED BY <1>13, <1>19, <4>1
    <3>2. t + 1 \in Lines
      BY <1>11, LoopCodeIs
    <3>3. Lands(P, t + 1)
      BY <3>2, LandAll
    <3> QED BY <1>11, <2>4, <2>5, <2>7, <3>1, <3>3, ExitLand
  <2> QED BY <2>6, <2>7
<1> QED BY <1>2, <1>6, <1>13, <1>16, <1>17, <1>18, <1>19 DEF AtDecision

(* The code goes to the label that the Fortran machine has gone to.         *)
LEMMA JumpStep ==
  ASSUME NEW P, Settled(P), NEW c \in CodeType, NEW f, FtnOK(f), f.on, Agree(c, f), NEW j \in Lines, AtJump(P, c, f, j),
         NEW ins, ins = gen.code[c.pc], NEW h, Stepped(c, ins, h)
  PROVE  Sim(P, h, f)
<1>1. UnitInv /\ phase = "run" /\ phase # "read" /\ f \in FtnType
  BY DEF Settled, FtnOK
<1>2. PICK l : l = ins.lab
  OBVIOUS
<1>3. PICK t : t = LineOf(l)
  OBVIOUS
<1>4. /\ unit[j].k \notin {"do", "end"} /\ Lives(P, c, f, DoHeads(j)) /\ ins.op = "goto" /\ l # 0 /\ l \in ToSet(Chosen(j))
      /\ In(t) \subseteq In(j) /\ Stands(f, t, "stmt")
  BY <1>2, <1>3 DEF AtJump, Gone
<1>5. t \in Lines /\ unit[t].lab = l
  BY <1>1, <1>3, <1>4, JumpIs
<1>6. PICK N : N = Len(unit)
  OBVIOUS
<1>7. N \in Nat /\ Lines = 1..N /\ t \in Nat
  BY <1>1, <1>5, <1>6, LineIs
<1>8. LabelAt(gen, P, t)
  <2>1. LabelAt(gen, P, N) /\ \A i \in 1..(N - 1) : LabelAt(gen, P, i)
    BY <1>6 DEF Settled, Done, LinesCoded
  <2>2. t = N \/ t \in 1..(N - 1)
    BY <1>5, <1>7
  <2> QED BY <2>1, <2>2
<1>9. l \in DOMAIN gen.labels /\ gen.labels[l] = IF unit[t].k = "endif" THEN P[t + 1] ELSE P[t]
  BY <1>4, <1>5, <1>8 DEF LabelAt
<1>10. h.asg = c.asg /\ h.on = c.on /\ h.local = c.local /\ h.val = c.val /\ h.pc = gen.labels[l]
  BY <1>2, <1>4, <1>9 DEF Stepped, Target
<1>11. DoHeads(t) \subseteq DoHeads(j)
  BY <1>1, <1>4, <1>5, JumpHeads
<1>12. Lives(P, h, f, DoHeads(t)) /\ Agree(h, f)
  BY <1>4, <1>10, <1>11 DEF Lives, Agree
<1>13. CASE unit[t].k # "endif"
  <2>1. CanFollow(t)
    BY <1>4, <1>5 DEF CanFollow
  <2>2. Lands(P, t) /\ h.pc = P[t]
    BY <1>5, <1>9, <1>10, <1>13, LandAll
  <2> QED BY <1>4, <1>12, <2>1, <2>2 DEF Lands
<1>14. CASE unit[t].k = "endif"
  <2>1. PICK r : r = FtnSteps(f)
    OBVIOUS
  <2>2. Quiet(f) /\ Moves(f, r, t + 1, "stmt")
    BY <1>4, <1>5, <1>14, <2>1, PassEndIf
  <2>3. DoHeads(t + 1) = DoHeads(t)
    BY <1>1, <1>5, <1>14, HeadsStay DEF Arms
  <2>4. FtnOK(r) /\ r.on /\ Stands(r, t + 1, "stmt") /\ Agree(h, r) /\ Lives(P, h, r, DoHeads(t + 1))
    BY <1>12, <2>2, <2>3, MovedAgree DEF Moves
  <2>5. t + 1 \in Lines /\ CanFollow(t + 1)
    BY <1>5, <1>14, NextFollows
  <2>6. Lands(P, t + 1) /\ h.pc = P[t + 1]
    BY <2>5, <1>9, <1>10, <1>14, LandAll
  <2>7. Sim(P, h, r)
    BY <2>4, <2>5, <2>6 DEF Lands
  <2> QED BY <2>1, <2>2, <2>7, SimAfter
<1> QED BY <1>13, <1>14

(* A computed or assigned GOTO: the code tries the labels one by one.       *)
LEMMA SelectStep ==
  ASSUME NEW P, Settled(P), NEW c \in CodeType, NEW f, FtnOK(f), f.on, Agree(c, f), NEW j \in Lines, AtSelect(P, c, f, j),
         NEW ins, ins = gen.code[c.pc], NEW h, Stepped(c, ins, h)
  PROVE  Sim(P, h, f)
<1>1. UnitInv /\ phase = "run"
  BY DEF Settled
<1>2. PICK k, s, L, loc, x : k = unit[j].k /\ s = Chosen(j) /\ L = Len(s) /\ loc = gen.code[P[j]].loc /\ x = c.local[loc]
  OBVIOUS
<1>3. k \in {"cgoto", "agoto"} /\ Lives(P, c, f, DoHeads(j))
  BY <1>2 DEF AtSelect
<1>4. PICK m \in 1..L : Selecting(P, c, f, j, m, x)
  BY <1>2 DEF AtSelect
<1>5. PICK p, n, q : LineCode(P, j, p, n, q)
  BY <1>2, <1>3, LineCodeIs
<1>6. n = 1 + 2 * L /\ L \in Nat /\ Tries(P, j, p, m, loc) /\ p = P[j] /\ p \in Nat /\ n = Size(j)
  <2>1. p = P[j] /\ p \in Nat /\ n = Size(j)
    BY <1>5 DEF LineCode
  <2>2. loc = gen.code[p].loc
    BY <1>2, <2>1
  <2> QED BY <1>1, <1>2, <1>3, <1>5, <2>1, <2>2, SelectCode
<1>7. m \in Nat /\ m \in m..L
  BY <1>6
<1>8. PICK num, b : num = Number(j, m) /\ b = p + 2 * m + 1
  OBVIOUS
<1>9. c.pc = p + 2 * m - 1
  BY <1>4, <1>6 DEF Selecting
<1>10. ins.op = "ifne" /\ ins.loc = loc /\ ins.num = num /\ ins.to = b /\ ins.lab = 0 /\ c.pc \in DOMAIN gen.code
       /\ HoldsGoto(p + 2 * m, s[m])
  BY <1>2, <1>6, <1>8, <1>9 DEF Tries, HoldsTest, Holds
<1>11. Target(ins) = b
  <2>1. Done(gen, P, Len(unit))
    BY DEF Settled
  <2>2. ins.lab = 0 => Target(ins) = ins.to
    BY ONLY <1>1, <1>10, <2>1, ins = gen.code[c.pc], InstrIs
  <2> QED BY <1>10, <2>2
<1>12. /\ h.asg = c.asg /\ h.on = c.on /\ h.local = c.local /\ h.val = c.val
       /\ h.pc = Branch(ins, c, x = num)
  BY <1>2, <1>10 DEF Stepped
<1>13. Lives(P, h, f, DoHeads(j)) /\ Agree(h, f)
  BY <1>3, <1>12 DEF Lives, Agree
<1>14. CASE x = num
  <2>1. Gone(f, j, s[m])
    BY <1>2, <1>4, <1>7, <1>8, <1>14 DEF Selecting
  <2>2. h.pc = p + 2 * m
    <3>1. h.pc = c.pc + 1
      BY <1>12, <1>14 DEF Branch
    <3> QED BY <1>6, <1>7, <1>9, <3>1
  <2>3. HoldsGoto(h.pc, s[m])
    BY <1>10, <2>2
  <2> QED BY <1>2, <1>3, <1>13, <2>1, <2>3, GotoLand DEF Gone
<1>15. CASE x # num
  <2>1. h.pc = b
    BY <1>11, <1>12, <1>15 DEF Branch
  <2>2. CASE m = L
    <3>1. \A y \in m..L : Number(j, y) # x
      BY <1>6, <1>7, <1>8, <1>15, <2>2
    <3>2. Closes(f, j, Ends(j))
      BY <1>2, <1>4, <3>1 DEF Selecting
    <3>3. h.pc = P[j] + Size(j)
      BY <1>6, <1>8, <2>1, <2>2
    <3>4. j + 1 \in Lines /\ Lands(P, j + 1)
      BY <1>5, LandAll DEF LineCode
    <3> QED BY <1>2, <1>3, <1>13, <3>2, <3>3, <3>4, FinishLand
  <2>3. CASE m # L
    <3>1. PICK o : o = m + 1
      OBVIOUS
    <3>2. o \in 1..L /\ h.pc = P[j] + 2 * o - 1 /\ \A y \in m..L : y = m \/ y \in o..L
      BY <1>6, <1>7, <1>8, <2>1, <2>3, <3>1
    <3>3. \A y \in o..L : y \in m..L
      BY <1>7, <3>1
    <3>4. Selecting(P, h, f, j, o, x)
      <4>1. \A y \in o..L : Number(j, y) = x => Gone(f, j, s[y])
        BY <1>2, <1>4, <3>3 DEF Selecting
      <4>2. (\A y \in o..L : Number(j, y) # x) => Closes(f, j, Ends(j))
        BY <1>2, <1>4, <1>8, <1>15, <3>2 DEF Selecting
      <4> QED BY <1>2, <3>2, <4>1, <4>2 DEF Selecting
    <3>5. AtSelect(P, h, f, j)
      BY <1>2, <1>3, <1>12, <1>13, <3>2, <3>4 DEF AtSelect
    <3>6. Match(P, h, f)
      BY <1>13, <3>5 DEF Match, Unseen
    <3> QED BY <3>6, SimAt
  <2> QED BY <2>2, <2>3
<1> QED BY <1>14, <1>15

(* A step that leaves the locals and values alone keeps what they hold.     *)
LEMMA StillHolds ==
  ASSUME NEW P, NEW c, NEW f, NEW D, Lives(P, c, f, D), Agree(c, f),
         NEW ins, NEW h, Stepped(c, ins, h), h.local = c.local, h.val = c.val
  PROVE  Lives(P, h, f, D) /\ Agree(h, f)
<1>1. h.asg = c.asg /\ h.on = c.on
  BY ONLY Stepped(c, ins, h) DEF Stepped
<1>2. Agree(h, f)
  BY ONLY <1>1, Agree(c, f), h.val = c.val DEF Agree
<1>3. Lives(P, h, f, D)
  BY ONLY Lives(P, c, f, D), h.local = c.local DEF Lives
<1> QED BY ONLY <1>2, <1>3

(* An arithmetic IF: the code tests the sign, and then for zero.            *)
LEMMA SignStep ==
  ASSUME NEW P, Settled(P), NEW c \in CodeType, NEW f, FtnOK(f), f.on, Agree(c, f), NEW j \in Lines, AtSign(P, c, f, j),
         NEW ins, ins = gen.code[c.pc], NEW h, Stepped(c, ins, h)
  PROVE  Sim(P, h, f)
<1>1. UnitInv /\ phase = "run"
  BY DEF Settled
<1>2. PICK k, l, loc, x : k = unit[j].k /\ l = unit[j].to /\ loc = gen.code[P[j]].loc /\ x = c.local[loc]
  OBVIOUS
<1>3. k \in {"aif", "aifwide"} /\ Lives(P, c, f, DoHeads(j)) /\ (c.pc = P[j] + 1 \/ (c.pc = P[j] + 3 /\ ~ (x < 0)))
      /\ Gone(f, j, IF x < 0 THEN l[1] ELSE IF x = 0 THEN l[2] ELSE l[3])
  BY <1>2 DEF AtSign, Signed
<1>4. PICK p, n, q : LineCode(P, j, p, n, q)
  BY <1>2, <1>3, LineCodeIs
<1>5. p = P[j] /\ p \in Nat
  BY <1>4 DEF LineCode
<1>6. /\ HoldsTest(p + 1, "ifge", j, loc, 0, p + 3) /\ HoldsGoto(p + 2, l[1])
      /\ HoldsTest(p + 3, "ifne", j, loc, 0, p + 5) /\ HoldsGoto(p + 4, l[2])
      /\ HoldsGoto(p + 5, l[3])
  <2>1. loc = gen.code[p].loc
    BY <1>2, <1>5
  <2> QED BY <1>1, <1>2, <1>3, <1>4, <2>1, SignCode
<1>7. unit[j].k \notin {"do", "end"}
  BY <1>2, <1>3
<1>8. ASSUME ins.lab = 0, c.pc \in DOMAIN gen.code PROVE Target(ins) = ins.to
  <2>1. Done(gen, P, Len(unit))
    BY DEF Settled
  <2> QED BY ONLY <1>1, <1>8, <2>1, ins = gen.code[c.pc], InstrIs
<1>9. ASSUME NEW y, HoldsGoto(h.pc, y), Gone(f, j, y), h.local = c.local, h.val = c.val PROVE Sim(P, h, f)
  <2>1. Lives(P, h, f, DoHeads(j)) /\ Agree(h, f)
    BY ONLY <1>3, <1>9, Agree(c, f), Stepped(c, ins, h), StillHolds
  <2> QED BY <1>7, <1>9, <2>1, GotoLand DEF Gone
<1>10. CASE c.pc = p + 1
  <2>1. ins.op = "ifge" /\ ins.loc = loc /\ ins.to = p + 3 /\ ins.lab = 0 /\ c.pc \in DOMAIN gen.code
    BY <1>6, <1>10 DEF HoldsTest, Holds
  <2>2. h.local = c.local /\ h.val = c.val /\ h.pc = Branch(ins, c, x < 0)
    BY <1>2, <2>1 DEF Stepped
  <2>3. CASE x < 0
    <3>1. h.pc = p + 2
      <4>1. h.pc = c.pc + 1
        BY <2>2, <2>3 DEF Branch
      <4> QED BY <1>5, <1>10, <4>1
    <3>2. HoldsGoto(h.pc, l[1]) /\ Gone(f, j, l[1])
      BY <1>3, <1>6, <2>3, <3>1
    <3> QED BY <1>9, <2>2, <3>2
  <2>4. CASE ~ (x < 0)
    <3>1. h.pc = P[j] + 3
      BY <1>5, <1>8, <2>1, <2>2, <2>4 DEF Branch
    <3>2. Lives(P, h, f, DoHeads(j)) /\ Agree(h, f) /\ h.local[loc] = x
      <4>1. Lives(P, h, f, DoHeads(j)) /\ Agree(h, f)
        BY ONLY <1>3, <2>2, Agree(c, f), Stepped(c, ins, h), StillHolds
      <4> QED BY ONLY <1>2, <2>2, <4>1
    <3>3. AtSign(P, h, f, j)
      BY <1>2, <1>3, <2>4, <3>1, <3>2 DEF AtSign, Signed
    <3>4. Match(P, h, f)
      BY <3>2, <3>3 DEF Match, Unseen
    <3> QED BY <3>4, SimAt
  <2> QED BY <2>3, <2>4
<1>11. CASE c.pc = p + 3 /\ ~ (x < 0)
  <2>1. ins.op = "ifne" /\ ins.loc = loc /\ ins.to = p + 5 /\ ins.num = 0 /\ ins.lab = 0 /\ c.pc \in DOMAIN gen.code
    BY <1>6, <1>11 DEF HoldsTest, Holds
  <2>2. h.local = c.local /\ h.val = c.val /\ h.pc = Branch(ins, c, x = 0)
    BY <1>2, <2>1 DEF Stepped
  <2>3. CASE x = 0
    <3>1. h.pc = p + 4
      <4>1. h.pc = c.pc + 1
        BY <2>2, <2>3 DEF Branch
      <4> QED BY <1>5, <1>11, <4>1
    <3>2. HoldsGoto(h.pc, l[2]) /\ Gone(f, j, l[2])
      BY <1>3, <1>6, <1>11, <2>3, <3>1
    <3> QED BY <1>9, <2>2, <3>2
  <2>4. CASE x # 0
    <3>1. h.pc = p + 5
      BY <1>8, <2>1, <2>2, <2>4 DEF Branch
    <3>2. HoldsGoto(h.pc, l[3]) /\ Gone(f, j, l[3])
      BY <1>3, <1>6, <1>11, <2>4, <3>1
    <3> QED BY <1>9, <2>2, <3>2
  <2> QED BY <2>3, <2>4
<1> QED BY <1>3, <1>5, <1>10, <1>11

(* The goto out of a block.                                                 *)
LEMMA LeaveStep ==
  ASSUME NEW P, Settled(P), NEW c \in CodeType, NEW f, FtnOK(f), f.on, Agree(c, f), NEW j \in Lines, AtLeave(P, c, f, j),
         NEW ins, ins = gen.code[c.pc], NEW h, Stepped(c, ins, h)
  PROVE  Sim(P, h, f)
<1>1. UnitInv /\ phase = "run" /\ Done(gen, P, Len(unit))
  BY DEF Settled
<1>2. ins.op = "goto" /\ ins.lab = 0 /\ ins.to = P[j] /\ c.pc \in DOMAIN gen.code
  BY DEF AtLeave
<1>3. Target(ins) = P[j]
  <2>1. ins.lab = 0 => Target(ins) = ins.to
    BY ONLY <1>1, <1>2, ins = gen.code[c.pc], InstrIs
  <2> QED BY <1>2, <2>1
<1>4. h.pc = P[j] /\ h.local = c.local /\ h.val = c.val /\ h.asg = c.asg /\ h.on = c.on
  BY <1>2, <1>3 DEF Stepped
<1>5. Lives(P, h, f, DoHeads(j)) /\ Agree(h, f)
  BY <1>4 DEF AtLeave, Lives, Agree
<1>6. Lands(P, j)
  BY LandAll
<1> QED BY <1>4, <1>5, <1>6 DEF AtLeave, Lands

(* The end of the unit: past the handlers, to the return.                   *)
LEMMA EndStep ==
  ASSUME NEW P, Settled(P), NEW c \in CodeType, NEW f, FtnOK(f), f.on, Agree(c, f), AtEnd(P, c, f),
         NEW ins, ins = gen.code[c.pc], ins.op \in Silent, NEW h, Stepped(c, ins, h)
  PROVE  Sim(P, h, f)
<1>1. UnitInv /\ phase = "run" /\ Done(gen, P, Len(unit))
  BY DEF Settled
<1>2. PICK N, w, L, y : N = Len(unit) /\ w = P[N] /\ L = Len(gen.code) /\ y = c.pc
  OBVIOUS
<1>3. EndCode(gen, N, w) /\ N \in Nat \ {0} /\ w \in Nat \ {0} /\ L \in Nat
  <2>1. N \in Nat \ {0} /\ EndCode(gen, N, w) /\ LinesCoded(gen, P, N) /\ gen \in GenType
    BY <1>1, <1>2, StartIs, LineIs DEF Done
  <2>2. N \in 1..N
    BY <2>1
  <2> QED BY <1>2, <2>1, <2>2, CodeAt DEF LinesCoded
<1>4. y \in w..L /\ Stands(f, N, "stmt") /\ y \in Nat
  BY <1>2, <1>3 DEF AtEnd
<1>5. y \in DOMAIN gen.code
  <2>1. DOMAIN gen.code = 1..L
    BY <1>1, <1>2, CodeAt DEF Done
  <2> QED BY <1>3, <1>4, <2>1
<1>6. /\ L = w + 4 /\ Handled(gen.code, N, w) /\ y # w + 4
  <2>1. Instr("return", N).op = "return"
    BY Fields
  <2>2. gen.code[w].op = "return" => y # w
    BY <1>2 DEF Silent
  <2>3. gen.code[w + 4].op = "return" => y # w + 4
    BY <1>2 DEF Silent
  <2>4. ~ (L = w - 1)
    BY <1>3, <1>4
  <2>5. ~ (L = w /\ gen.code[w] = Instr("return", N))
    BY <1>3, <1>4, <2>1, <2>2
  <2> QED BY <1>2, <1>3, <2>1, <2>3, <2>4, <2>5 DEF EndCode
<1>7. ins.lab = 0 /\ (ins.op = "goto" => ins.to = w + 4) /\ ins.op \in {"goto", "catch"}
  <2>1. \/ ins = [Instr("goto", N) EXCEPT !.to = w + 4]
        \/ ins = Instr("catch", N)
    <3>1. y = w \/ y = w + 1 \/ y = w + 2 \/ y = w + 3
      BY ONLY <1>3, <1>4, <1>6
    <3>2. ins = gen.code[y]
      BY <1>2
    <3> QED BY ONLY <1>6, <3>1, <3>2 DEF Handled
  <2>2. \A x : [Instr("goto", N) EXCEPT !.to = x].op = "goto" /\ [Instr("goto", N) EXCEPT !.to = x].lab = 0
               /\ [Instr("goto", N) EXCEPT !.to = x].to = x
    BY DEF Instr
  <2>3. Instr("catch", N).op = "catch" /\ Instr("catch", N).lab = 0
    BY DEF Instr
  <2> QED BY ONLY <2>1, <2>2, <2>3
<1>8. Target(ins) = ins.to
  <2>1. ins.lab = 0 => Target(ins) = ins.to
    BY ONLY <1>1, <1>2, <1>5, ins = gen.code[c.pc], InstrIs
  <2> QED BY <1>7, <2>1
<1>9. h.pc \in w..L
  <2>1. h.pc = w + 4 \/ h.pc = y + 1
    BY <1>2, <1>7, <1>8 DEF Stepped
  <2> QED BY <1>3, <1>4, <1>6, <2>1
<1>10. Agree(h, f)
  BY <1>7 DEF Agree, Stepped
<1>11. AtEnd(P, h, f)
  BY <1>2, <1>4, <1>9 DEF AtEnd
<1>12. Match(P, h, f)
  BY <1>10, <1>11 DEF Match
<1> QED BY <1>12, SimAt

-----------------------------------------------------------------------------
(* Which instruction comes next where the machines match. *)

SeenOp(k, stage, op) ==
  /\ k \in Visible \cup {"elseif"}
  /\ k \in {"if", "elseif"} => op = "test"
  /\ k \in {"lifwork", "lifgoto"} => op = IF stage = "then" THEN "work" ELSE "test"
  /\ k \in {"cgoto", "agoto", "aif", "aifwide"} => op = "eval"
  /\ k = "do" => op = "init"
  /\ k \in {"work", "return", "stop", "assign"} => op = k
(* Where a statement is about to be seen the bytecode is at the instruction *)
(* that shows it.                                                           *)
LEMMA SeenIs ==
  ASSUME NEW P, Settled(P), NEW c, NEW f, NEW j \in Lines, Seen(P, c, f, j), NEW k, k = unit[j].k,
         NEW ins, ins = gen.code[c.pc]
  PROVE  /\ c.pc \in DOMAIN gen.code /\ ins.line = j /\ f.at = j /\ SeenOp(k, f.stage, ins.op) /\ ins.op \notin Silent
<1>1. UnitInv /\ phase = "run"
  BY DEF Settled
<1>2. f.at = j /\ k \in Visible \cup {"elseif"} /\ unit[j].k # "end"
  BY DEF Seen, AtStatement, AtArm, AtThen, Visible, Stands
<1>3. PICK p, n, q : LineCode(P, j, p, n, q)
  BY <1>2, LineCodeIs
<1>4. PICK l : l = unit[j].to
  OBVIOUS
<1>5. PlainLine(j, p, n, k, l) /\ p = P[j]
  BY <1>1, <1>3, <1>4, PlainCode DEF LineCode
<1>6. k \in {"cgoto", "agoto"} => Holds(p, "eval", j)
  <2>1. PICK loc : loc = gen.code[p].loc
    OBVIOUS
  <2> QED BY <1>1, <1>3, <2>1, SelectCode
<1>7. k \in {"aif", "aifwide"} => Holds(p, "eval", j)
  <2>1. PICK loc : loc = gen.code[p].loc
    OBVIOUS
  <2> QED BY <1>1, <1>3, <1>4, <2>1, SignCode
<1>8. \A op : Holds(c.pc, op, j) => c.pc \in DOMAIN gen.code /\ ins.line = j /\ ins.op = op
  BY DEF Holds
<1>9. CASE AtStatement(P, c, f, j)
  <2>1. f.stage = "stmt" /\ c.pc = p /\ k \in Visible
    BY <1>5, <1>9 DEF AtStatement, Stands
  <2>2. CASE k \in {"work", "return", "stop", "assign"}
    <3>1. Holds(c.pc, k, j)
      BY <1>5, <2>1, <2>2 DEF PlainLine
    <3> QED BY <1>2, <1>8, <2>2, <3>1 DEF SeenOp, Silent
  <2>3. CASE k \in {"if", "lifwork", "lifgoto"}
    <3>1. Holds(c.pc, "test", j)
      BY <1>5, <2>1, <2>3 DEF PlainLine
    <3> QED BY <1>2, <1>8, <2>1, <2>3, <3>1 DEF SeenOp, Silent
  <2>4. CASE k = "do"
    <3>1. Holds(c.pc, "init", j)
      BY <1>5, <2>1, <2>4 DEF PlainLine
    <3> QED BY <1>2, <1>8, <2>4, <3>1 DEF SeenOp, Silent
  <2>5. CASE k \in {"cgoto", "agoto", "aif", "aifwide"}
    <3>1. Holds(c.pc, "eval", j)
      BY <1>6, <1>7, <2>1, <2>5
    <3> QED BY <1>2, <1>8, <2>5, <3>1 DEF SeenOp, Silent
  <2> QED BY <2>1, <2>2, <2>3, <2>4, <2>5 DEF Visible
<1>10. CASE AtArm(P, c, f, j)
  <2>1. k = "elseif" /\ Holds(c.pc, "test", j)
    BY <1>5, <1>10 DEF AtArm, PlainLine
  <2> QED BY <1>2, <1>8, <2>1 DEF SeenOp, Silent
<1>11. CASE AtThen(P, c, f, j)
  <2>1. k = "lifwork" /\ Holds(c.pc, "work", j) /\ f.stage = "then"
    BY <1>5, <1>11 DEF AtThen, PlainLine, Stands
  <2> QED BY <1>2, <1>8, <2>1 DEF SeenOp, Silent
<1> QED BY <1>9, <1>10, <1>11 DEF Seen

(* Everywhere else the bytecode is at a silent instruction.                 *)
LEMMA UnseenIs ==
  ASSUME NEW P, Settled(P), NEW c, NEW f, NEW j \in Lines, Unseen(P, c, f, j), NEW ins, ins = gen.code[c.pc]
  PROVE  c.pc \in DOMAIN gen.code /\ ins.op \in Silent
<1>1. UnitInv /\ phase = "run"
  BY DEF Settled
<1>2. PICK k, l, p, loc : k = unit[j].k /\ l = unit[j].to /\ p = P[j] /\ loc = gen.code[p].loc
  OBVIOUS
<1>3. \A y, op : Holds(y, op, j) /\ y = c.pc /\ op \in Silent => c.pc \in DOMAIN gen.code /\ ins.op \in Silent
  BY DEF Holds
<1>4. CASE AtJump(P, c, f, j) \/ AtLeave(P, c, f, j)
  BY <1>4 DEF AtJump, AtLeave, Silent
<1>5. CASE AtClose(P, c, f, j) \/ AtDecision(P, c, f, j)
  <2>1. k = "do"
    BY <1>2, <1>5 DEF AtClose, AtDecision
  <2>2. PICK n, q : LineCode(P, j, p, n, q)
    <3>1. PICK a, n, q : LineCode(P, j, a, n, q)
      BY <1>2, <2>1, LineCodeIs
    <3> QED BY <1>2, <3>1 DEF LineCode
  <2>3. PlainLine(j, p, n, k, l)
    BY <1>1, <1>2, <2>2, PlainCode
  <2>4. PICK t : t = Terminal(j)
    OBVIOUS
  <2>5. t \in Lines /\ j \in Ends(t)
    BY <1>1, <1>2, <2>1, <2>4, TerminalIs
  <2>6. PICK x : LoopCode(P, j, t, x)
    BY <2>5, LoopCodeIs
  <2>7. /\ Holds(p + 1, "count", j) /\ Holds(p + 2, "goto", j) /\ Holds(x, "incr", j) /\ Holds(x + 1, "dec", j)
        /\ Holds(x + 2, "ifgt", j) /\ x = EndPlace(P, j)
    BY <2>1, <2>3, <2>6 DEF PlainLine, LoopCode
  <2>8. c.pc = p + 1 \/ c.pc = p + 2 \/ c.pc = x \/ c.pc = x + 1 \/ c.pc = x + 2
    BY <1>2, <1>5, <2>7 DEF AtClose, AtDecision
  <2> QED BY <1>3, <2>7, <2>8 DEF Silent
<1>6. CASE AtSelect(P, c, f, j)
  <2>1. k \in {"cgoto", "agoto"}
    BY <1>2, <1>6 DEF AtSelect
  <2>2. PICK n, q : LineCode(P, j, p, n, q)
    <3>1. PICK a, n, q : LineCode(P, j, a, n, q)
      BY <1>2, <2>1, LineCodeIs
    <3> QED BY <1>2, <3>1 DEF LineCode
  <2>3. PICK m \in 1..Len(Chosen(j)) : c.pc = p + 2 * m - 1
    BY <1>2, <1>6 DEF AtSelect, Selecting
  <2>4. Tries(P, j, p, m, loc)
    BY <1>1, <1>2, <2>1, <2>2, SelectCode
  <2>5. Holds(c.pc, "ifne", j)
    BY <2>3, <2>4 DEF Tries, HoldsTest
  <2> QED BY <1>3, <2>5 DEF Silent
<1>7. CASE AtSign(P, c, f, j)
  <2>1. k \in {"aif", "aifwide"}
    BY <1>2, <1>7 DEF AtSign
  <2>2. PICK n, q : LineCode(P, j, p, n, q)
    <3>1. PICK a, n, q : LineCode(P, j, a, n, q)
      BY <1>2, <2>1, LineCodeIs
    <3> QED BY <1>2, <3>1 DEF LineCode
  <2>3. HoldsTest(p + 1, "ifge", j, loc, 0, p + 3) /\ HoldsTest(p + 3, "ifne", j, loc, 0, p + 5)
    BY <1>1, <1>2, <2>1, <2>2, SignCode
  <2>4. Holds(p + 1, "ifge", j) /\ Holds(p + 3, "ifne", j) /\ (c.pc = p + 1 \/ c.pc = p + 3)
    BY <1>2, <1>7, <2>3 DEF HoldsTest, AtSign
  <2> QED BY <1>3, <2>4 DEF Silent
<1> QED BY <1>4, <1>5, <1>6, <1>7 DEF Unseen

(* At the end of the unit only handlers and a return are left.              *)
LEMMA AtEndIs ==
  ASSUME NEW P, Settled(P), NEW c, NEW f, AtEnd(P, c, f), NEW ins, ins = gen.code[c.pc]
  PROVE  /\ c.pc \in DOMAIN gen.code /\ f.at = Len(unit) /\ Len(unit) \in Lines /\ unit[Len(unit)].k = "end"
         /\ ins.op \notin Silent => ins.op = "return"
<1>1. UnitInv /\ phase = "run" /\ Done(gen, P, Len(unit))
  BY DEF Settled
<1>2. PICK N, w, L, y : N = Len(unit) /\ w = P[N] /\ L = Len(gen.code) /\ y = c.pc
  OBVIOUS
<1>3. EndCode(gen, N, w) /\ N \in Nat \ {0} /\ w \in Nat \ {0} /\ L \in Nat /\ DOMAIN gen.code = 1..L /\ N \in Lines /\ unit[N].k = "end"
  <2>1. N \in Nat \ {0} /\ EndCode(gen, N, w) /\ LinesCoded(gen, P, N) /\ gen \in GenType /\ N \in Lines /\ unit[N].k = "end"
    BY <1>1, <1>2, StartIs, LineIs DEF Done
  <2>2. N \in 1..N
    BY <2>1
  <2> QED BY <1>2, <2>1, <2>2, CodeAt DEF LinesCoded
<1>4. y \in w..L /\ f.at = N /\ y \in Nat /\ y \in 1..L
  BY <1>2, <1>3 DEF AtEnd, Stands
<1>5. ASSUME ins.op \notin Silent PROVE ins.op = "return"
  <2>1. ins = gen.code[y]
    BY <1>2
  <2>2. Instr("return", N).op = "return" /\ Instr("catch", N).op = "catch" /\ \A x : [Instr("goto", N) EXCEPT !.to = x].op = "goto"
    BY DEF Instr
  <2>3. CASE L = w - 1
    BY <1>3, <1>4, <2>3
  <2>4. CASE L = w /\ gen.code[w] = Instr("return", N)
    BY <1>3, <1>4, <2>1, <2>2, <2>4
  <2>5. CASE L = w + 4 /\ Handled(gen.code, N, w) /\ gen.code[w + 4] = Instr("return", N)
    <3>1. y = w \/ y = w + 1 \/ y = w + 2 \/ y = w + 3 \/ y = w + 4
      BY ONLY <1>3, <1>4, <2>5
    <3>2. ins.op \in {"goto", "catch", "return"}
      BY ONLY <2>1, <2>2, <2>5, <3>1 DEF Handled
    <3> QED BY <1>5, <3>2 DEF Silent
  <2> QED BY <1>2, <1>3, <2>3, <2>4, <2>5 DEF EndCode
<1>6. c.pc \in DOMAIN gen.code
  BY ONLY <1>2, <1>3, <1>4
<1>7. f.at = Len(unit) /\ Len(unit) \in Lines /\ unit[Len(unit)].k = "end"
  BY ONLY <1>2, <1>3, <1>4
<1> QED BY ONLY <1>5, <1>6, <1>7

-----------------------------------------------------------------------------
(* The steps that one machine makes alone keep the match. *)

Matches(P) == Settled(P) /\ code \in CodeType /\ FtnOK(ftn) /\ Sim(P, code, ftn)

(* A silent step of the bytecode keeps the machines together.               *)
LEMMA CodeStepMatches ==
  ASSUME NEW P, Matches(P), CodeStep, NEW H, H = code', NEW F, F = ftn
  PROVE  Sim(P, H, F)
<1>1. UnitInv /\ phase = "run" /\ Done(gen, P, Len(unit)) /\ Settled(P)
  BY DEF Matches, Settled
<1>2. PICK c, ins : c = code /\ ins = gen.code[c.pc]
  OBVIOUS
<1>3. c.pc \in DOMAIN gen.code /\ ins.op \in Silent /\ c \in CodeType /\ c.on
  BY <1>2 DEF CodeStep, Running, Now, Matches
<1>4. Stepped(c, ins, H)
  <2>1. H = CodeSteps
    BY DEF CodeStep
  <2>2. Stepped(c, ins, CodeSteps)
    BY ONLY <1>1, <1>2, <1>3, CodeStepsAre
  <2> QED BY <2>1, <2>2
<1>5. PICK s : FtnOK(s) /\ Leads(F, s) /\ Match(P, c, s)
  BY <1>2 DEF Matches, Sim
<1>6. Agree(c, s) /\ s.on
  BY <1>3, <1>5 DEF Match, Agree
<1>7. Sim(P, H, s)
  <2>1. CASE \E j \in Lines : Seen(P, c, s, j)
    <3>1. PICK j \in Lines : Seen(P, c, s, j)
      BY <2>1
    <3>2. PICK k : k = unit[j].k
      OBVIOUS
    <3>3. ins.op \notin Silent
      BY ONLY <1>1, <1>2, <3>1, <3>2, SeenIs
    <3> QED BY <1>3, <3>3
  <2>2. CASE \E j \in Lines : Unseen(P, c, s, j)
    <3>1. PICK j \in Lines : Unseen(P, c, s, j)
      BY <2>2
    <3>2. CASE AtClose(P, c, s, j)
      BY ONLY <1>1, <1>2, <1>3, <1>4, <1>5, <1>6, <3>1, <3>2, CloseStep
    <3>3. CASE AtDecision(P, c, s, j)
      BY ONLY <1>1, <1>2, <1>3, <1>4, <1>5, <1>6, <3>1, <3>3, DecisionStep
    <3>4. CASE AtJump(P, c, s, j)
      BY ONLY <1>1, <1>2, <1>3, <1>4, <1>5, <1>6, <3>1, <3>4, JumpStep
    <3>5. CASE AtSelect(P, c, s, j)
      BY ONLY <1>1, <1>2, <1>3, <1>4, <1>5, <1>6, <3>1, <3>5, SelectStep
    <3>6. CASE AtSign(P, c, s, j)
      BY ONLY <1>1, <1>2, <1>3, <1>4, <1>5, <1>6, <3>1, <3>6, SignStep
    <3>7. CASE AtLeave(P, c, s, j)
      BY ONLY <1>1, <1>2, <1>3, <1>4, <1>5, <1>6, <3>1, <3>7, LeaveStep
    <3> QED BY <3>1, <3>2, <3>3, <3>4, <3>5, <3>6, <3>7 DEF Unseen
  <2>3. CASE AtEnd(P, c, s)
    BY ONLY <1>1, <1>2, <1>3, <1>4, <1>5, <1>6, <2>3, EndStep
  <2>4. CASE Over(c, s)
    BY <1>3, <2>4 DEF Over
  <2> QED BY <1>5, <2>1, <2>2, <2>3, <2>4 DEF Match
<1>8. PICK r : FtnOK(r) /\ Leads(s, r) /\ Match(P, H, r)
  BY <1>7 DEF Sim
<1>9. Leads(F, r)
  BY ONLY <1>5, <1>8, LeadsOn
<1> QED BY <1>8, <1>9 DEF Sim

(* The code has come to an instruction that can be seen: the Fortran        *)
(* machine has still to get to where they match.                            *)
LEMMA MatchIsVisible ==
  ASSUME NEW P, Settled(P), NEW c, NEW s, Match(P, c, s), FtnOK(s), c.on, NEW ins, ins = gen.code[c.pc], ins.op \notin Silent
  PROVE  /\ Agree(c, s) /\ s.on /\ s.at \in Lines /\ ~ FtnSilent(s)
         /\ Seen(P, c, s, s.at) \/ (AtEnd(P, c, s) /\ ins.op = "return" /\ s.at = Len(unit) /\ unit[s.at].k = "end")
<1>1. UnitInv /\ phase = "run" /\ Agree(c, s) /\ s.on
  BY DEF Settled, Match, Agree
<1>2. CASE \E j \in Lines : Seen(P, c, s, j)
  <2>1. PICK j \in Lines : Seen(P, c, s, j)
    BY <1>2
  <2>2. PICK k : k = unit[j].k
    OBVIOUS
  <2>3. s.at = j /\ k \in Visible \cup {"elseif"}
    BY <2>1, <2>2, SeenIs DEF SeenOp
  <2>4. ~ FtnSilent(s)
    <3>1. CASE AtStatement(P, c, s, j)
      <4>1. s.stage = "stmt" /\ k \in Visible
        BY <2>2, <3>1 DEF AtStatement, Stands
      <4>2. FtnSilent(s) <=> k \in {"goto", "continue", "enddo", "elseif", "else", "endif"}
        BY ONLY <1>1, FtnOK(s), <2>1, <2>2, <2>3, <4>1, SilentIs
      <4> QED BY <4>1, <4>2 DEF Visible
    <3>2. CASE AtArm(P, c, s, j)
      <4>1. s.stage = "arm" /\ k = "elseif"
        BY <2>2, <3>2 DEF AtArm, Stands
      <4>2. FtnSilent(s) <=> k \in {"else", "endif"}
        BY ONLY <1>1, FtnOK(s), <2>1, <2>2, <2>3, <4>1, SilentIs
      <4> QED BY <4>1, <4>2
    <3>3. CASE AtThen(P, c, s, j)
      <4>1. s.stage = "then" /\ k = "lifwork"
        BY <2>2, <3>3 DEF AtThen, Stands
      <4>2. FtnSilent(s) <=> k = "lifgoto"
        BY ONLY <1>1, FtnOK(s), <2>1, <2>2, <2>3, <4>1, SilentIs
      <4> QED BY <4>1, <4>2
    <3> QED BY <2>1, <3>1, <3>2, <3>3 DEF Seen
  <2> QED BY <1>1, <2>1, <2>3, <2>4
<1>3. CASE \E j \in Lines : Unseen(P, c, s, j)
  BY <1>3, UnseenIs
<1>4. CASE AtEnd(P, c, s)
  <2>1. ins.op = "return" /\ s.at = Len(unit) /\ s.at \in Lines /\ unit[s.at].k = "end"
    BY <1>4, AtEndIs
  <2>2. PICK j \in Lines : j = s.at
    BY <2>1
  <2>3. s.stage = "stmt" /\ unit[j].k = "end"
    BY <1>4, <2>1, <2>2 DEF AtEnd, Stands
  <2>4. FtnSilent(s) <=> unit[j].k \in {"goto", "continue", "enddo", "elseif", "else", "endif"}
    BY ONLY <1>1, FtnOK(s), <2>2, <2>3, SilentIs
  <2> QED BY <1>1, <1>4, <2>1, <2>3, <2>4
<1>5. CASE Over(c, s)
  BY <1>5 DEF Over
<1> QED BY <1>2, <1>3, <1>4, <1>5 DEF Match

(* So does a silent step of the Fortran machine.                            *)
LEMMA FtnStepMatches ==
  ASSUME NEW P, Matches(P), FtnStep, NEW H, H = code, NEW F, F = ftn'
  PROVE  Sim(P, H, F)
<1>1. Settled(P)
  BY DEF Matches
<1>2. PICK f, ins : f = ftn /\ ins = gen.code[H.pc]
  OBVIOUS
<1>3. F = FtnSteps(f) /\ Quiet(f) /\ H.on /\ ins.op \notin Silent
  BY <1>2 DEF FtnStep, Running, Now, FtnOn, Quiet
<1>4. PICK s : FtnOK(s) /\ Leads(f, s) /\ Match(P, H, s)
  BY <1>2 DEF Matches, Sim
<1>5. ~ FtnSilent(s)
  BY <1>1, <1>2, <1>3, <1>4, MatchIsVisible
<1>6. s # f
  BY <1>3, <1>5 DEF Quiet
<1>7. Leads(F, s)
  BY ONLY <1>3, <1>4, <1>6, LeadsFrom
<1> QED BY <1>4, <1>7 DEF Sim

(* Where both rest, they match.                                             *)
Together(P, c, f, i) ==
  /\ c = code /\ f = ftn /\ i = f.at /\ i \in Lines /\ Settled(P) /\ FtnOK(f) /\ f.on /\ c \in CodeType /\ Agree(c, f)
  /\ Seen(P, c, f, i) \/ (AtEnd(P, c, f) /\ Now.op = "return" /\ i = Len(unit) /\ unit[i].k = "end")
(* Where both rest they are at the same statement, or at the end.           *)
LEMMA MeetingMatches ==
  ASSUME NEW P, Matches(P), Meeting
  PROVE  \E c, f, i : Together(P, c, f, i)
<1>1. PICK c, f, i, ins : c = code /\ f = ftn /\ i = f.at /\ ins = gen.code[c.pc]
  OBVIOUS
<1>2. /\ Settled(P) /\ c.on /\ f.on /\ i \in Lines /\ ~ Quiet(f) /\ ins.op \notin Silent /\ Now = ins /\ FtnOK(f) /\ c \in CodeType
  BY <1>1 DEF Meeting, Running, FtnOn, Now, Matches, Quiet
<1>3. PICK s : FtnOK(s) /\ Leads(f, s) /\ Match(P, c, s)
  BY <1>1 DEF Matches, Sim
<1>4. s = f
  BY ONLY <1>2, <1>3, LeadsFrom
<1>5. Agree(c, f) /\ (Seen(P, c, f, i) \/ (AtEnd(P, c, f) /\ ins.op = "return" /\ i = Len(unit) /\ unit[i].k = "end"))
  <2>1. Agree(c, s) /\ (Seen(P, c, s, s.at) \/ (AtEnd(P, c, s) /\ ins.op = "return" /\ s.at = Len(unit) /\ unit[s.at].k = "end"))
    BY ONLY <1>1, <1>2, <1>3, MatchIsVisible
  <2> QED BY <1>1, <1>4, <2>1
<1> QED BY <1>1, <1>2, <1>5 DEF Together

-----------------------------------------------------------------------------
(* The steps that both machines make keep the match. *)

(* Machines that match are running machines.                                *)
LEMMA MatchesRuns ==
  ASSUME NEW P, Matches(P)
  PROVE  Runs(P) /\ Settled(P) /\ UnitInv /\ phase = "run" /\ phase # "read" /\ Done(gen, P, Len(unit))
BY DEF Matches, Runs, Settled

(* What is known of a meeting that is not at the END line.                  *)
LEMMA TogetherIs ==
  ASSUME NEW P, NEW c, NEW f, NEW i, Together(P, c, f, i), NEW k, k = unit[i].k, Now.op # "return" \/ k # "end"
  PROVE  /\ Now = gen.code[c.pc] /\ Now.line = i /\ Seen(P, c, f, i) /\ SeenOp(k, f.stage, Now.op) /\ i \in Lines /\ i + 1 \in Lines /\ k # "end"
         /\ Settled(P) /\ UnitInv /\ phase = "run" /\ FtnOK(f) /\ f.on /\ c \in CodeType /\ Agree(c, f) /\ f = ftn /\ c = code /\ f.at = i
<1>1. Settled(P) /\ FtnOK(f) /\ f.on /\ c \in CodeType /\ Agree(c, f) /\ f = ftn /\ c = code /\ i \in Lines /\ Seen(P, c, f, i) /\ f.at = i
  BY DEF Together
<1>2. UnitInv /\ phase = "run" /\ phase # "read"
  BY <1>1 DEF Settled
<1>3. PICK ins : ins = gen.code[c.pc]
  OBVIOUS
<1>4. Now = ins
  BY <1>1, <1>3 DEF Now
<1>5. ins.line = i /\ SeenOp(k, f.stage, ins.op)
  BY ONLY <1>1, <1>3, k = unit[i].k, SeenIs
<1>6. k # "end"
  BY <1>5 DEF SeenOp, Visible
<1>7. i + 1 \in Lines
  BY <1>1, <1>2, <1>6, LineIs
<1> QED BY <1>1, <1>2, <1>3, <1>4, <1>5, <1>6, <1>7

(* A statement has done what it does, and control goes on after it.         *)
LEMMA FinishMatches ==
  ASSUME NEW P, Settled(P), NEW i \in Lines, unit[i].k \notin {"end", "return", "endif", "do"}, i + 1 \in Lines,
         NEW c, NEW f, Agree(c, f), f.on, Lives(P, c, f, DoHeads(i)),
         NEW H, NEW F, Goes(c, H, P[i] + Size(i)), Finishes(f, F, i)
  PROVE  Sim(P, H, F)
<1>1. FtnOK(F) /\ Closes(F, i, Ends(i)) /\ F.on /\ H.pc = P[i] + Size(i)
  BY DEF Goes, Finishes, Carries
<1>2. Agree(H, F) /\ Lives(P, H, F, DoHeads(i))
  BY DEF Goes, Finishes, Carries, Agree, Lives
<1>3. Lands(P, i + 1)
  BY LandAll
<1> QED BY ONLY <1>1, <1>2, <1>3, Settled(P), i \in Lines, unit[i].k \notin {"end", "return", "endif", "do"}, FinishLand

(* A statement works.                                                       *)
LEMMA WorkMatches ==
  ASSUME NEW P, Matches(P), Work, NEW H, H = code', NEW F, F = ftn'
  PROVE  Sim(P, H, F)
<1>1. /\ Runs(P) /\ Settled(P) /\ UnitInv /\ phase = "run"
  BY MatchesRuns
<1>2. Goes(code, H, code.pc + 1) /\ Finishes(ftn, F, ftn.at) /\ FtnOp = "work" /\ Now.op = "work" /\ Meeting
  BY <1>1, WorkIs
<1>3. PICK c, f, i : Together(P, c, f, i)
  BY <1>2, MeetingMatches
<1>4. PICK k : k = unit[i].k
  OBVIOUS
<1>5. /\ Now = gen.code[c.pc] /\ Seen(P, c, f, i) /\ SeenOp(k, f.stage, "work") /\ i \in Lines /\ i + 1 \in Lines
      /\ f.on /\ Agree(c, f) /\ f = ftn /\ c = code /\ f.at = i
  BY <1>2, <1>3, <1>4, TogetherIs
<1>6. k \in {"work", "lifwork"} /\ c.pc + 1 = P[i] + Size(i) /\ Lives(P, c, f, DoHeads(i))
  <2>1. PICK p, n, q : LineCode(P, i, p, n, q)
    <3>1. k # "end"
      BY <1>5 DEF SeenOp, Visible
    <3> QED BY <1>1, <1>4, <1>5, <3>1, LineCodeIs
  <2>2. p = P[i] /\ p \in Nat /\ n = Size(i) /\ (k = "work" => n = 1) /\ (k = "lifwork" => n = 2)
    <3>1. PICK l : l = unit[i].to
      OBVIOUS
    <3>2. PlainLine(i, p, n, k, l)
      BY <1>1, <1>4, <1>5, <2>1, <3>1, PlainCode
    <3> QED BY <2>1, <3>2 DEF LineCode, PlainLine
  <2>3. CASE AtStatement(P, c, f, i)
    <3>1. f.stage = "stmt" /\ k \in Visible /\ c.pc = P[i] /\ Lives(P, c, f, DoHeads(i))
      BY <1>4, <2>3 DEF AtStatement, Stands
    <3>2. k = "work"
      BY <1>5, <3>1 DEF SeenOp, Visible
    <3> QED BY <2>2, <3>1, <3>2
  <2>4. CASE AtArm(P, c, f, i)
    BY <1>4, <1>5, <2>4 DEF AtArm, SeenOp
  <2>5. CASE AtThen(P, c, f, i)
    <3>1. k = "lifwork" /\ c.pc = P[i] + 1 /\ Lives(P, c, f, DoHeads(i))
      BY <1>4, <2>5 DEF AtThen
    <3> QED BY <2>2, <3>1
  <2> QED BY <1>5, <2>3, <2>4, <2>5 DEF Seen
<1>7. Goes(c, H, P[i] + Size(i)) /\ Finishes(f, F, i)
  BY <1>2, <1>5, <1>6
<1>8. unit[i].k \notin {"end", "return", "endif", "do"}
  BY <1>4, <1>6
<1> QED BY <1>1, <1>5, <1>6, <1>7, <1>8, FinishMatches

(* A reflective call fails: both machines go to the end of the unit.        *)
LEMMA ThrowMatches ==
  ASSUME NEW P, Matches(P), Throw, NEW H, H = code', NEW F, F = ftn'
  PROVE  Sim(P, H, F)
<1>1. /\ Runs(P) /\ Settled(P) /\ UnitInv /\ phase = "run" /\ Done(gen, P, Len(unit))
  BY MatchesRuns
<1>2. /\ Meeting /\ Now.op = "work" /\ reflect /\ Moves(ftn, F, Len(unit), "stmt")
      /\ \E h \in gen.range.at : h \in Nat /\ Goes(code, H, h)
  BY <1>1, ThrowIs
<1>3. PICK h \in gen.range.at : h \in Nat /\ Goes(code, H, h)
  BY <1>2
<1>4. PICK c, f, i : Together(P, c, f, i)
  BY <1>2, MeetingMatches
<1>5. Agree(c, f) /\ c = code /\ f = ftn
  BY <1>4 DEF Together
<1>6. PICK N, w, L : N = Len(unit) /\ w = P[N] /\ L = Len(gen.code)
  OBVIOUS
<1>7. EndCode(gen, N, w) /\ N \in Nat \ {0} /\ w \in Nat \ {0} /\ L \in Nat
  <2>1. N \in Nat \ {0} /\ EndCode(gen, N, w) /\ LinesCoded(gen, P, N) /\ gen \in GenType
    BY <1>1, <1>6, StartIs, LineIs DEF Done
  <2>2. N \in 1..N
    BY <2>1
  <2> QED BY <1>6, <2>1, <2>2, CodeAt DEF LinesCoded
<1>8. L = w + 4 /\ gen.range.at = {w + 1, w + 3}
  <2>1. gen.range = [from |-> 1, to |-> w, at |-> {w + 1, w + 3}] /\ L = w + 4
    BY <1>2, <1>6, <1>7 DEF EndCode
  <2> QED BY <2>1
<1>9. H.pc \in w..L
  <2>1. H.pc = w + 1 \/ H.pc = w + 3
    BY <1>3, <1>8 DEF Goes
  <2> QED BY <1>7, <1>8, <2>1
<1>10. AtEnd(P, H, F) /\ FtnOK(F)
  BY <1>2, <1>6, <1>9 DEF AtEnd, Moves
<1>11. Agree(H, F)
  BY <1>2, <1>3, <1>5 DEF Agree, Goes, Moves, Carries
<1>12. Match(P, H, F)
  BY <1>10, <1>11 DEF Match
<1> QED BY <1>10, <1>12, SimAt

(* An ASSIGN stores its label.                                              *)
LEMMA AssignMatches ==
  ASSUME NEW P, Matches(P), AssignLabel, NEW H, H = code', NEW F, F = ftn'
  PROVE  Sim(P, H, F)
<1>1. /\ Runs(P) /\ Settled(P) /\ UnitInv /\ phase = "run"
  BY MatchesRuns
<1>2. PICK i : i = ftn.at
  OBVIOUS
<1>3. /\ Meeting /\ Now.op = "assign" /\ unit[i].k = "assign"
      /\ H.pc = code.pc + 1 /\ H.local = code.local /\ H.val = code.val /\ H.asg = Now.num /\ H.on = code.on
      /\ FtnOK(F) /\ Closes(F, i, Ends(i)) /\ F.left = ftn.left /\ F.val = ftn.val /\ F.asg = unit[i].to[1] /\ F.on = ftn.on
  BY <1>1, <1>2, AssignIs
<1>4. PICK c, f : Together(P, c, f, i)
  BY <1>2, <1>3, MeetingMatches DEF Together
<1>5. PICK k, l : k = unit[i].k /\ l = unit[i].to
  OBVIOUS
<1>6. /\ Now = gen.code[c.pc] /\ Seen(P, c, f, i) /\ i \in Lines /\ i + 1 \in Lines
      /\ f.on /\ Agree(c, f) /\ f = ftn /\ c = code
  BY <1>3, <1>4, <1>5, TogetherIs
<1>7. c.pc = P[i] /\ Lives(P, c, f, DoHeads(i))
  BY <1>3, <1>6 DEF Seen, AtStatement, AtArm, AtThen
<1>8. PICK p, n, q : LineCode(P, i, p, n, q)
  BY <1>1, <1>3, <1>6, LineCodeIs
<1>9. PlainLine(i, p, n, k, l) /\ p = P[i] /\ n = Size(i)
  BY <1>1, <1>5, <1>6, <1>8, PlainCode DEF LineCode
<1>10. n = 1 /\ Now.num = l[1]
  BY <1>3, <1>5, <1>6, <1>7, <1>9 DEF PlainLine
<1>11. Agree(H, F) /\ Lives(P, H, F, DoHeads(i)) /\ F.on
  BY <1>3, <1>5, <1>6, <1>7, <1>10 DEF Agree, Lives
<1>12. H.pc = P[i] + Size(i) /\ Lands(P, i + 1)
  BY <1>1, <1>3, <1>6, <1>7, <1>9, <1>10, LandAll
<1>13. unit[i].k \notin {"end", "return", "endif", "do"}
  BY <1>3
<1> QED BY <1>1, <1>3, <1>6, <1>11, <1>12, <1>13, FinishLand

(* The unit returns or stops.                                               *)
LEMMA LeaveMatches ==
  ASSUME NEW P, Matches(P), Leave, NEW H, H = code', NEW F, F = ftn'
  PROVE  Sim(P, H, F)
<1>1. Runs(P)
  BY MatchesRuns
<1>2. /\ Meeting /\ H.pc = code.pc /\ H.val = code.val /\ H.asg = code.asg /\ H.on = FALSE
      /\ FtnOK(F) /\ F.at = ftn.at /\ F.val = ftn.val /\ F.asg = ftn.asg /\ F.on = FALSE
  BY <1>1, LeaveIs
<1>3. PICK c, f, i : Together(P, c, f, i)
  BY <1>2, MeetingMatches
<1>4. Agree(c, f) /\ c = code /\ f = ftn
  BY <1>3 DEF Together
<1>5. H.pc \in DOMAIN gen.code /\ F.at \in Lines
  BY <1>2 DEF Meeting, Running, FtnOn
<1>6. Agree(H, F) /\ Over(H, F)
  BY <1>2, <1>4, <1>5 DEF Agree, Over
<1>7. Match(P, H, F)
  BY <1>6 DEF Match
<1> QED BY <1>2, <1>7, SimAt

(* The DO statement: the code has yet to work out the number of iterations, *)
(* which by then is what it was, since no parameter reads the DO variable.  *)
LEMMA InitialiseMatches ==
  ASSUME NoneOwn, NEW P, Matches(P), Initialise, NEW H, H = code', NEW F, F = ftn'
  PROVE  Sim(P, H, F)
<1>1. /\ Runs(P) /\ Settled(P) /\ UnitInv /\ phase = "run"
  BY MatchesRuns
<1>2. PICK i, n, t : i = ftn.at /\ n = Iterations(unit[i].do, ftn.val[i]) /\ t = Terminal(i)
  OBVIOUS
<1>3. Meeting /\ Now.op = "init" /\ unit[i].k = "do" /\ Initialised(i, Now)
  BY <1>1, <1>2, InitialiseIs
<1>4. PICK c, f : Together(P, c, f, i)
  BY <1>2, <1>3, MeetingMatches DEF Together
<1>5. PICK k : k = unit[i].k
  OBVIOUS
<1>6. Now.line = i /\ Seen(P, c, f, i) /\ i \in Lines /\ Agree(c, f) /\ f = ftn /\ c = code /\ FtnOK(f)
  BY <1>3, <1>4, <1>5, TogetherIs
<1>7. c.pc = P[i] /\ Lives(P, c, f, DoHeads(i))
  BY <1>3, <1>6 DEF Seen, AtStatement, AtArm, AtThen
<1>8. /\ H.pc = c.pc + 1 /\ H.local = c.local /\ H.asg = c.asg /\ H.on = c.on
      /\ H.val = [c.val EXCEPT ![i] = StartOf(unit[i].do, c.val[i])]
      /\ FtnOK(F) /\ F.asg = f.asg /\ F.on = f.on
      /\ F.val = [f.val EXCEPT ![i] = StartOf(unit[i].do, f.val[i])]
      /\ F.left = [f.left EXCEPT ![i] = IF n > 0 THEN n ELSE 0]
      /\ n > 0 => Stands(F, i + 1, "stmt")
      /\ ~ (n > 0) => Closes(F, t, {e \in Ends(t) : e < i})
  BY <1>2, <1>3, <1>6 DEF Initialised
<1>9. Agree(H, F)
  BY <1>6, <1>8 DEF Agree
<1>10. i \in 1..MaxLines /\ DOMAIN f.left = 1..MaxLines /\ \A d \in DoHeads(i) : d # i /\ d \in 1..MaxLines
  <2>1. \A d \in DoHeads(i) : d # i /\ d \in 1..MaxLines
    <3>1. PICK loc : loc = LocalOf(P, i)
      OBVIOUS
    <3>2. unit[i].k = "do" /\ unit[i].k # "end"
      BY <1>3
    <3> QED BY ONLY <1>1, <1>6, <3>1, <3>2, OuterLocals
  <2> QED BY <1>1, <1>6, <2>1, LinesAre DEF FtnOK, FtnType
<1>11. Lives(P, H, F, DoHeads(i))
  <2>1. \A d \in DoHeads(i) : F.left[d] = f.left[d]
    BY <1>8, <1>10
  <2> QED BY <1>7, <1>8, <2>1 DEF Lives
<1>12. n > 0 => F.left[i] = n
  BY <1>8, <1>10
<1>13. ~ unit[i].do.own
  <2>1. \E g \in ToSet(Families) : \E line \in g.lines : unit[i].do = line.do
    BY <1>1, <1>6, DoIs
  <2> QED BY <2>1 DEF NoneOwn
<1>14. Iterations(unit[i].do, H.val[i]) = n
  BY <1>2, <1>13 DEF Iterations, StartOf
<1>15. t \in Lines /\ i \in Ends(t)
  BY <1>1, <1>2, <1>3, <1>6, TerminalIs
<1>16. Decided(F, i, n)
  BY <1>8, <1>12, <1>15 DEF Decided
<1>17. AtDecision(P, H, F, i)
  BY <1>3, <1>7, <1>8, <1>11, <1>14, <1>16 DEF AtDecision
<1>18. Match(P, H, F)
  BY <1>6, <1>9, <1>17 DEF Match, Unseen
<1> QED BY <1>8, <1>18, SimAt

(* A selection jumps to the line of the label selected, or goes on.         *)
LEMMA EvalMatches ==
  ASSUME NEW P, Matches(P), Eval, NEW H, H = code', NEW F, F = ftn'
  PROVE  Sim(P, H, F)
<1>1. /\ Runs(P) /\ Settled(P) /\ UnitInv /\ phase = "run"
  BY MatchesRuns
<1>2. PICK i : i = ftn.at
  OBVIOUS
<1>3. PICK k, l, s, L : k = unit[i].k /\ l = unit[i].to /\ s = Chosen(i) /\ L = Len(s)
  OBVIOUS
<1>4. Meeting /\ Now.op = "eval" /\ k \in {"cgoto", "agoto", "aif", "aifwide"} /\ \E x, j : Selected(i, Now, x, j)
  BY <1>1, <1>2, <1>3, EvalIs
<1>5. PICK x, j : Selected(i, Now, x, j)
  BY <1>4
<1>6. PICK c, f : Together(P, c, f, i)
  BY <1>2, <1>4, MeetingMatches DEF Together
<1>7. /\ Now = gen.code[c.pc] /\ Seen(P, c, f, i) /\ i \in Lines /\ i + 1 \in Lines /\ Agree(c, f) /\ f = ftn /\ c = code /\ FtnOK(f) /\ f.on
      /\ k # "end"
  BY <1>3, <1>4, <1>6, TogetherIs
<1>8. c.pc = P[i] /\ Lives(P, c, f, DoHeads(i))
  BY <1>3, <1>4, <1>7 DEF Seen, AtStatement, AtArm, AtThen
<1>9. PICK ins, loc : ins = Now /\ loc = gen.code[P[i]].loc
  OBVIOUS
<1>10. ins.loc = loc
  BY <1>7, <1>8, <1>9
<1>11. /\ ValueOf(i, x) /\ Selects(i, x, j) /\ Stored(c, H, ins, x, c.pc + 1)
       /\ j # 0 => j \in ToSet(s) /\ In(LineOf(j)) \subseteq In(i) /\ Moves(f, F, LineOf(j), "stmt")
       /\ j = 0 => k = "cgoto" /\ Finishes(f, F, i)
  BY <1>3, <1>5, <1>7, <1>9 DEF Selected
<1>12. H.pc = P[i] + 1 /\ H.val = c.val /\ H.asg = c.asg /\ H.on = c.on /\ H.local[loc] = x
       /\ \A n \in 0..(MaxLocal - 1) : n < loc => H.local[n] = c.local[n]
  BY <1>8, <1>10, <1>11 DEF Stored
<1>13. FtnOK(F) /\ Carries(f, F)
  BY <1>11 DEF Moves, Finishes
<1>14. Agree(H, F) /\ F.on
  BY <1>7, <1>12, <1>13 DEF Agree, Carries
<1>15. Lives(P, H, F, DoHeads(i))
  <2>1. \A d \in DoHeads(i) : LocalOf(P, d) \in 0..(MaxLocal - 1) /\ LocalOf(P, d) < loc
    BY <1>1, <1>3, <1>4, <1>7, <1>9, OuterLocals
  <2>2. \A d \in DoHeads(i) : H.local[LocalOf(P, d)] = c.local[LocalOf(P, d)]
    BY <1>12, <2>1
  <2> QED BY <1>8, <1>13, <2>2 DEF Lives, Carries
<1>16. j # 0 => Gone(F, i, j)
  BY <1>3, <1>11 DEF Gone, Moves
<1>17. unit[i].k \notin {"end", "return", "endif", "do"}
  BY <1>3, <1>4
<1>18. \A y \in ToSet(s) : y # 0
  <2>1. f \in FtnType /\ unit[i].k \notin {"do", "end"}
    BY <1>7, <1>17 DEF FtnOK
  <2> QED BY ONLY <1>1, <1>3, <1>7, <2>1, JumpIs
<1>19. CASE k \in {"aif", "aifwide"}
  <2>1. j = IF x < 0 THEN l[1] ELSE IF x = 0 THEN l[2] ELSE l[3]
    BY <1>3, <1>11, <1>19 DEF Selects
  <2>2. Gone(F, i, j)
    BY <1>11, <1>16, <1>19
  <2>3. AtSign(P, H, F, i)
    BY <1>3, <1>9, <1>12, <1>15, <1>19, <2>1, <2>2 DEF AtSign, Signed
  <2>4. Match(P, H, F)
    BY <1>7, <1>14, <2>3 DEF Match, Unseen
  <2> QED BY <1>13, <2>4, SimAt
<1>20. CASE k \in {"cgoto", "agoto"}
  <2>1. s \in Seq(Nat) /\ L \in Nat /\ Size(i) = 1 + 2 * L /\ DOMAIN s = 1..L
    <3>1. Chosen(i) \in Seq(Nat) /\ Len(Chosen(i)) \in Nat /\ Size(i) = 1 + 2 * Len(Chosen(i))
      BY <1>1, <1>3, <1>7, <1>20, SizeIs
    <3> QED BY <1>3, <3>1
  <2>2. k = "cgoto" => s = l
    BY <1>1, <1>3, <1>7, LabelsAre
  <2>3. x \in Int
    BY <1>11 DEF ValueOf
  <2>4. \A n \in 1..L : Number(i, n) = (IF k = "cgoto" THEN n ELSE s[n]) /\ s[n] \in ToSet(s)
    BY <1>3, <2>1 DEF Number, ToSet
  <2>5. \A n \in 1..L : Number(i, n) = x => j = s[n] /\ j # 0
    <3>1. CASE k = "cgoto"
      <4>1. j = IF x \in DOMAIN l THEN l[x] ELSE 0
        BY <1>3, <1>11, <3>1 DEF Selects
      <4> QED BY <1>18, <2>1, <2>2, <2>4, <3>1, <4>1
    <3>2. CASE k = "agoto"
      <4>1. j = x
        BY <1>3, <1>11, <3>2 DEF Selects
      <4> QED BY <1>18, <2>4, <3>2, <4>1
    <3> QED BY <1>20, <3>1, <3>2
  <2>6. (\A n \in 1..L : Number(i, n) # x) => j = 0
    <3>1. CASE k = "cgoto"
      <4>1. j = IF x \in DOMAIN l THEN l[x] ELSE 0
        BY <1>3, <1>11, <3>1 DEF Selects
      <4> QED BY <2>1, <2>2, <2>4, <3>1, <4>1
    <3>2. CASE k = "agoto"
      <4>1. x \in ToSet(s)
        BY <1>3, <1>11, <3>2 DEF ValueOf
      <4>2. \E n \in 1..L : s[n] = x
        BY <2>1, <4>1 DEF ToSet
      <4> QED BY <2>4, <3>2, <4>2
    <3> QED BY <1>20, <3>1, <3>2
  <2>7. CASE L = 0
    <3>1. j = 0
      BY <2>6, <2>7
    <3>2. Closes(F, i, Ends(i)) /\ H.pc = P[i] + Size(i) /\ Lands(P, i + 1)
      BY <1>1, <1>7, <1>11, <1>12, <2>1, <2>7, <3>1, LandAll DEF Finishes
    <3> QED BY <1>1, <1>7, <1>13, <1>14, <1>15, <1>17, <3>2, FinishLand
  <2>8. CASE L # 0
    <3>1. 1 \in 1..L
      BY <2>1, <2>8
    <3>2. H.pc = P[i] + 2 * 1 - 1
      <4>1. P[i] \in Nat
        <5>1. PICK p, n, q : LineCode(P, i, p, n, q)
          BY <1>1, <1>3, <1>7, LineCodeIs
        <5> QED BY <5>1 DEF LineCode
      <4> QED BY <1>12, <4>1
    <3>3. Selecting(P, H, F, i, 1, x)
      <4>1. \A n \in 1..L : Number(i, n) = x => Gone(F, i, s[n])
        BY <1>16, <2>5
      <4>2. (\A n \in 1..L : Number(i, n) # x) => Closes(F, i, Ends(i))
        BY <1>11, <2>6 DEF Finishes
      <4> QED BY <1>3, <3>2, <4>1, <4>2 DEF Selecting
    <3>4. AtSelect(P, H, F, i)
      BY <1>3, <1>9, <1>12, <1>15, <1>20, <3>1, <3>3 DEF AtSelect
    <3>5. Match(P, H, F)
      BY <1>7, <1>14, <3>4 DEF Match, Unseen
    <3> QED BY <1>13, <3>5, SimAt
  <2> QED BY <2>7, <2>8
<1> QED BY <1>4, <1>19, <1>20

(* A test of a block is false: both come to the next arm, or past the end   *)
(* of the block.                                                            *)
LEMMA NextArmLand ==
  ASSUME NEW P, Settled(P), NEW i \in Lines, unit[i].k \in {"if", "elseif"}, NEW m, m = NextArm(i),
         NEW H, NEW F, H.pc = gen.code[TestAt(P, i)].to, Moves(F, F, m, "arm"), F.on, Agree(H, F), Lives(P, H, F, DoHeads(i))
  PROVE  Sim(P, H, F)
<1>1. UnitInv /\ phase = "run" /\ phase # "read"
  BY DEF Settled
<1>2. m \in Lines /\ unit[m].k \in Arms /\ NextOne(i, m) /\ unit[m].of = HeadOf(i)
  <2>1. NextArm(i) \in Lines /\ unit[NextArm(i)].k \in Arms /\ NextOne(i, NextArm(i))
    BY <1>1, NextArmIs
  <2> QED BY <2>1 DEF NextOne
<1>3. FtnOK(F) /\ Stands(F, m, "arm") /\ F.at = m /\ F.stage = "arm"
  BY DEF Moves, Stands
<1>4. PICK k : k = unit[m].k
  OBVIOUS
<1>5. k \in Arms /\ k # "end" /\ unit[m].k \notin {"end", "return"} /\ unit[i].k # "end"
  BY <1>2, <1>4 DEF Arms
<1>6. PICK N : N = Len(unit)
  OBVIOUS
<1>7. N \in Nat /\ Lines = 1..N /\ i \in 1..(N - 1) /\ m \in 1..(N - 1) /\ m \in Nat
  <2>1. N \in Nat /\ Lines = 1..N /\ i < N /\ m < N
    BY <1>1, <1>2, <1>4, <1>5, <1>6, LineIs
  <2> QED BY <1>2, <2>1
<1>8. /\ Jumps(m) => H.pc = P[m] + 1
      /\ unit[m].k = "endif" => H.pc = P[m + 1]
      /\ Empty(m) /\ m + 1 < N => H.pc = P[m + 2]
  <2>1. ArmEnd(gen.code, P, N, i)
    BY <1>6, <1>7 DEF Settled, Done, LinesCoded
  <2> QED BY ONLY <1>2, <1>7, <2>1, unit[i].k \in {"if", "elseif"}, H.pc = gen.code[TestAt(P, i)].to DEF ArmEnd
<1>9. DoHeads(m) = DoHeads(i) /\ DoHeads(m + 1) = DoHeads(i)
  BY <1>1, <1>2, BlockHeads DEF Arms
<1>10. m + 1 \in Lines /\ CanFollow(m + 1) /\ Lands(P, m + 1)
  BY <1>2, <1>5, NextFollows, LandAll
<1>11. PICK h : h = FtnSteps(F)
  OBVIOUS
<1>12. CASE k = "elseif"
  <2>1. H.pc = P[m] + 1
    BY <1>4, <1>8, <1>12 DEF Jumps
  <2>2. AtArm(P, H, F, m)
    BY <1>3, <1>4, <1>9, <1>12, <2>1 DEF AtArm
  <2>3. Match(P, H, F)
    BY <1>2, <2>2 DEF Match, Seen
  <2> QED BY <1>3, <2>3, SimAt
<1>13. ASSUME k = "else" PROVE Quiet(F) /\ Moves(F, h, m + 1, "stmt") /\ h.on /\ Agree(H, h) /\ Lives(P, H, h, DoHeads(i))
  <2>1. FtnSilent(F) /\ Moves(F, h, m + 1, "stmt")
    BY <1>1, <1>2, <1>3, <1>4, <1>11, <1>13, SilentIs
  <2> QED BY <1>2, <1>3, <2>1, MovedAgree DEF Quiet, Moves
<1>14. CASE k = "else" /\ ~ Empty(m)
  <2>1. H.pc = P[m] + 1
    BY <1>4, <1>8, <1>14 DEF Jumps
  <2>2. P[m + 1] = P[m] + 1
    <3>1. PICK p, n, q : LineCode(P, m, p, n, q)
      BY <1>2, <1>4, <1>5, LineCodeIs
    <3>2. Ends(m) = {}
      BY <1>1, <1>2, HeadsStay
    <3>3. Size(m) = 1
      BY <1>1, <1>2, <1>4, <1>14, SizeIs
    <3> QED BY <1>4, <1>14, <3>1, <3>2, <3>3 DEF LineCode, LineEnd, Chained
  <2>3. Sim(P, H, h)
    BY <1>9, <1>10, <1>13, <1>14, <2>1, <2>2 DEF Lands, Moves
  <2> QED BY <1>11, <1>13, <1>14, <2>3, SimAfter
<1>15. CASE k = "else" /\ Empty(m)
  <2>1. PICK e : e = m + 1
    OBVIOUS
  <2>2. e \in Lines /\ unit[e].k = "endif" /\ unit[e].of = HeadOf(i) /\ e + 1 = m + 2
    BY <1>1, <1>2, <1>7, <1>15, <2>1, EmptyIs
  <2>3. e < N
    BY <1>1, <1>6, <2>2, LineIs
  <2>4. H.pc = P[e + 1]
    BY <1>8, <1>15, <2>1, <2>2, <2>3
  <2>5. DoHeads(e + 1) = DoHeads(i)
    BY <1>1, <2>2, BlockHeads DEF Arms
  <2>6. PICK r : r = FtnSteps(h)
    OBVIOUS
  <2>7. FtnOK(h) /\ Stands(h, e, "stmt") /\ h.on /\ Agree(H, h) /\ Lives(P, H, h, DoHeads(i))
    BY <1>13, <1>15, <2>1 DEF Moves
  <2>8. Quiet(h) /\ Moves(h, r, e + 1, "stmt")
    BY <2>2, <2>6, <2>7, PassEndIf
  <2>9. FtnOK(r) /\ Stands(r, e + 1, "stmt") /\ r.on /\ Agree(H, r) /\ Lives(P, H, r, DoHeads(e + 1))
    BY <2>5, <2>7, <2>8, MovedAgree DEF Moves
  <2>10. e + 1 \in Lines /\ CanFollow(e + 1)
    BY <2>2, NextFollows
  <2>11. Lands(P, e + 1)
    BY <2>10, LandAll
  <2>12. Sim(P, H, r)
    BY <2>4, <2>9, <2>10, <2>11 DEF Lands
  <2>13. Sim(P, H, h)
    BY <2>6, <2>8, <2>12, SimAfter
  <2> QED BY <1>11, <1>13, <1>15, <2>13, SimAfter
<1>16. CASE k = "endif"
  <2>1. Quiet(F) /\ Moves(F, h, m + 1, "stmt")
    BY <1>2, <1>3, <1>4, <1>11, <1>16, PassEndIf
  <2>2. FtnOK(h) /\ Stands(h, m + 1, "stmt") /\ h.on /\ Agree(H, h) /\ Lives(P, H, h, DoHeads(m + 1))
    BY <1>9, <2>1, MovedAgree DEF Moves
  <2>3. H.pc = P[m + 1]
    BY <1>4, <1>8, <1>16
  <2>4. Sim(P, H, h)
    BY <1>10, <2>2, <2>3 DEF Lands
  <2> QED BY <1>11, <2>1, <2>4, SimAfter
<1> QED BY <1>5, <1>12, <1>14, <1>15, <1>16 DEF Arms

(* A test enters an arm, or goes to the next one, or on.                    *)
LEMMA TestMatches ==
  ASSUME NEW P, Matches(P), Test, NEW H, H = code', NEW F, F = ftn'
  PROVE  Sim(P, H, F)
<1>1. /\ Runs(P) /\ Settled(P) /\ UnitInv /\ phase = "run"
  BY MatchesRuns
<1>2. PICK i : i = ftn.at
  OBVIOUS
<1>3. PICK k, l : k = unit[i].k /\ l = unit[i].to
  OBVIOUS
<1>4. Meeting /\ Now.op = "test" /\ k \in {"if", "elseif", "lifwork", "lifgoto"} /\ \E b \in BOOLEAN : Tested(b, i, k)
  BY <1>1, <1>2, <1>3, TestIs
<1>5. PICK b \in BOOLEAN : Tested(b, i, k)
  BY <1>4
<1>6. PICK c, f : Together(P, c, f, i)
  BY <1>2, <1>4, MeetingMatches DEF Together
<1>7. /\ Now = gen.code[c.pc] /\ Seen(P, c, f, i) /\ i \in Lines /\ i + 1 \in Lines /\ Agree(c, f) /\ f = ftn /\ c = code /\ FtnOK(f) /\ f.on
      /\ k # "end" /\ SeenOp(k, f.stage, "test")
  BY <1>3, <1>4, <1>6, TogetherIs
<1>8. PICK p, n, q : LineCode(P, i, p, n, q)
  BY <1>1, <1>3, <1>7, LineCodeIs
<1>9. PlainLine(i, p, n, k, l) /\ p = P[i] /\ n = Size(i) /\ p \in Nat
  BY <1>1, <1>3, <1>7, <1>8, PlainCode DEF LineCode
<1>10. /\ Lives(P, c, f, DoHeads(i)) /\ f.loop = 0
       /\ c.pc = IF k = "elseif" THEN P[i] + 1 ELSE P[i]
  <2>1. ~ AtThen(P, c, f, i)
    BY <1>3, <1>7 DEF AtThen, SeenOp, Stands
  <2> QED BY <1>3, <1>7, <2>1 DEF Seen, AtStatement, AtArm, Stands, Visible
<1>11. Goes(c, H, IF b THEN c.pc + 1 ELSE Now.to)
  BY <1>5, <1>7 DEF Tested
<1>12. \A h : Carries(f, h) => Agree(H, h) /\ h.on /\ Lives(P, H, h, DoHeads(i))
  BY <1>7, <1>10, <1>11 DEF Goes, Carries, Agree, Lives
<1>13. unit[i].k \notin {"end", "return", "endif", "do"}
  BY <1>3, <1>4
<1>14. CASE k \in {"if", "elseif"} /\ b
  <2>1. Moves(f, F, i + 1, "stmt")
    BY <1>5, <1>7, <1>14 DEF Tested
  <2>2. Ends(i) = {}
    BY <1>1, <1>3, <1>7, <1>14, HeadsStay DEF Arms
  <2>3. Finishes(f, F, i)
    BY <2>1, <2>2 DEF Finishes, Moves, Closes
  <2>4. Size(i) = IF k = "if" THEN 1 ELSE 2
    BY <1>1, <1>3, <1>7, <1>14, SizeIs
  <2>5. c.pc + 1 = P[i] + Size(i)
    BY <1>9, <1>10, <1>14, <2>4
  <2>6. Goes(c, H, P[i] + Size(i))
    BY <1>11, <1>14, <2>5
  <2> QED BY <1>1, <1>7, <1>10, <1>13, <2>3, <2>6, FinishMatches
<1>15. CASE k \in {"if", "elseif"} /\ ~ b
  <2>1. PICK m : m = NextArm(i)
    OBVIOUS
  <2>2. Moves(f, F, m, "arm")
    BY <1>5, <1>7, <1>15, <2>1 DEF Tested
  <2>3. Agree(H, F) /\ F.on /\ Lives(P, H, F, DoHeads(i)) /\ Moves(F, F, m, "arm")
    BY <1>12, <2>2 DEF Moves, Carries
  <2>4. H.pc = gen.code[TestAt(P, i)].to
    BY <1>3, <1>7, <1>10, <1>11, <1>15 DEF Goes, TestAt
  <2> QED BY <1>1, <1>3, <1>7, <1>15, <2>1, <2>3, <2>4, NextArmLand
<1>16. ASSUME k \in {"lifwork", "lifgoto"}
       PROVE  c.pc = P[i] /\ n = 2 /\ Now.to = p + 2
  BY <1>7, <1>9, <1>10, <1>16 DEF PlainLine
<1>17. CASE k \in {"lifwork", "lifgoto"} /\ b
  <2>1. FtnOK(F) /\ Stands(F, i, "then") /\ Carries(f, F) /\ F.at = i /\ F.stage = "then"
    BY <1>2, <1>5, <1>7, <1>10, <1>17 DEF Tested, Thens, Stands
  <2>2. H.pc = P[i] + 1
    BY <1>11, <1>16, <1>17 DEF Goes
  <2>3. Agree(H, F) /\ F.on /\ Lives(P, H, F, DoHeads(i))
    BY <1>12, <2>1
  <2>4. CASE k = "lifwork"
    <3>1. AtThen(P, H, F, i)
      BY <1>3, <2>1, <2>2, <2>3, <2>4 DEF AtThen
    <3>2. Match(P, H, F)
      BY <1>7, <2>3, <3>1 DEF Match, Seen
    <3> QED BY <2>1, <3>2, SimAt
  <2>5. CASE k = "lifgoto"
    <3>1. PICK y, h : y = l[1] /\ h = FtnSteps(F)
      OBVIOUS
    <3>2. y \in ToSet(unit[i].to) /\ y \in ToSet(Chosen(i))
      BY <1>1, <1>3, <1>7, <2>5, <3>1, LabelsAre
    <3>3. FtnSilent(F) /\ h = JumpTo(F, y)
      BY <1>1, <1>3, <1>7, <2>1, <2>5, <3>1, SilentIs
    <3>4. F \in FtnType /\ unit[i].k \notin {"do", "end"}
      BY <1>13, <2>1 DEF FtnOK
    <3>5. Moves(F, h, LineOf(y), "stmt") /\ In(LineOf(y)) \subseteq In(i)
      BY <1>1, <1>7, <3>2, <3>3, <3>4, JumpIs
    <3>6. FtnOK(h) /\ Stands(h, LineOf(y), "stmt") /\ Agree(H, h) /\ Lives(P, H, h, DoHeads(i))
      BY <2>3, <3>5, MovedAgree DEF Moves
    <3>7. HoldsGoto(H.pc, y)
      BY <1>9, <2>2, <2>5, <3>1 DEF PlainLine
    <3>8. Sim(P, H, h)
      BY <1>1, <1>7, <3>2, <3>4, <3>5, <3>6, <3>7, GotoLand
    <3>9. Quiet(F)
      BY <1>7, <2>1, <2>3, <3>3 DEF Quiet
    <3> QED BY <3>1, <3>8, <3>9, SimAfter
  <2> QED BY <1>17, <2>4, <2>5
<1>18. CASE k \in {"lifwork", "lifgoto"} /\ ~ b
  <2>1. Finishes(f, F, i)
    BY <1>5, <1>7, <1>18 DEF Tested
  <2>2. Goes(c, H, P[i] + Size(i))
    BY <1>9, <1>11, <1>16, <1>18
  <2> QED BY <1>1, <1>7, <1>10, <1>13, <2>1, <2>2, FinishMatches
<1> QED BY <1>4, <1>14, <1>15, <1>17, <1>18

-----------------------------------------------------------------------------
(* Whether the machines match depends on the unit and its code alone. *)

(* The Fortran machine is a function of the unit.                           *)
LEMMA FtnKept ==
  ASSUME unit' = unit, assigned' = assigned, NEW z
  PROVE  (Quiet(z)' <=> Quiet(z)) /\ FtnSteps(z)' = FtnSteps(z)
<1>1. Lines' = Lines
  BY DEF Lines
<1>2. \A i : Ends(i)' = Ends(i)
  BY <1>1 DEF Ends
<1>3. \A i : EndOf(i)' = EndOf(i)
  BY <1>1 DEF EndOf
<1>4. \A l : LineOf(l)' = LineOf(l)
  BY <1>1 DEF LineOf
<1>5. \A i : Finish(z, i)' = Finish(z, i)
  BY <1>2 DEF Finish
<1>6. \A l : JumpTo(z, l)' = JumpTo(z, l)
  BY <1>4 DEF JumpTo
<1>7. FtnSilent(z)' <=> FtnSilent(z)
  BY DEF FtnSilent
<1>8. Quiet(z)' <=> Quiet(z)
  BY <1>1, <1>7 DEF Quiet
<1>9. Increment(z)' = Increment(z)
  BY <1>2 DEF Increment
<1>10. FtnSteps(z)' = FtnSteps(z)
  BY <1>3, <1>5, <1>6, <1>9 DEF FtnSteps
<1> QED BY <1>8, <1>10

(* What Sim says depends on the unit and its code only.                     *)
LEMMA MatchKept ==
  ASSUME UNCHANGED <<unit, nest, assigned, reflect, gen>>, NEW P, NEW H, NEW F
  PROVE  Sim(P, H, F) => Sim(P, H, F)'
<1>1. Lines' = Lines
  BY DEF Lines
<1>2. \A j : /\ Open(j)' = Open(j) /\ Ends(j)' = Ends(j) /\ Chosen(j)' = Chosen(j) /\ In(j)' = In(j)
  BY <1>1 DEF Open, Ends, Chosen, In, Around
<1>3. \A j : DoHeads(j)' = DoHeads(j)
  BY <1>1, <1>2 DEF DoHeads
<1>4. \A l : LineOf(l)' = LineOf(l)
  BY <1>1 DEF LineOf
<1>5. \A d : LocalOf(P, d)' = LocalOf(P, d) /\ EndPlace(P, d)' = EndPlace(P, d)
  BY DEF LocalOf, EndPlace
<1>6. \A f, D : Lives(P, H, f, D)' <=> Lives(P, H, f, D)
  BY <1>5 DEF Lives
<1>7. \A f, j, l : Gone(f, j, l)' <=> Gone(f, j, l)
  BY <1>2, <1>4 DEF Gone
<1>8. \A f, j : AtClose(P, H, f, j)' <=> AtClose(P, H, f, j)
  BY <1>3, <1>5, <1>6 DEF AtClose
<1>9. \A f, j, x : Decided(f, j, x)' <=> Decided(f, j, x)
  BY <1>1, <1>2 DEF Decided
<1>10. \A f, j : AtDecision(P, H, f, j)' <=> AtDecision(P, H, f, j)
  BY <1>3, <1>5, <1>6, <1>9 DEF AtDecision
<1>11. \A f, j : AtJump(P, H, f, j)' <=> AtJump(P, H, f, j)
  BY <1>3, <1>6, <1>7 DEF AtJump
<1>12. \A f, j : AtSelect(P, H, f, j)' <=> AtSelect(P, H, f, j)
  <2>1. \A j, m : Number(j, m)' = Number(j, m)
    BY <1>2 DEF Number
  <2>2. \A f, j, m, x : Selecting(P, H, f, j, m, x)' <=> Selecting(P, H, f, j, m, x)
    BY <1>2, <1>7, <2>1 DEF Selecting
  <2> QED BY <1>2, <1>3, <1>6, <2>2 DEF AtSelect
<1>13. \A f, j : AtSign(P, H, f, j)' <=> AtSign(P, H, f, j)
  <2>1. \A f, j, x : Signed(f, j, x)' <=> Signed(f, j, x)
    BY <1>7 DEF Signed
  <2> QED BY <1>3, <1>6, <2>1 DEF AtSign
<1>14. \A f, j : AtLeave(P, H, f, j)' <=> AtLeave(P, H, f, j)
  <2>1. \A j : CanFollow(j)' <=> CanFollow(j)
    BY DEF CanFollow
  <2> QED BY <1>3, <1>6, <2>1 DEF AtLeave
<1>15. \A f, j : Seen(P, H, f, j)' <=> Seen(P, H, f, j)
  BY <1>3, <1>6 DEF Seen, AtStatement, AtArm, AtThen
<1>16. \A f, j : Unseen(P, H, f, j)' <=> Unseen(P, H, f, j)
  BY <1>8, <1>10, <1>11, <1>12, <1>13, <1>14 DEF Unseen
<1>17. \A f : Match(P, H, f)' <=> Match(P, H, f)
  <2>1. \A f : (AtEnd(P, H, f)' <=> AtEnd(P, H, f)) /\ (Over(H, f)' <=> Over(H, f))
    BY <1>1 DEF AtEnd, Over
  <2> QED BY <1>1, <1>15, <1>16, <2>1 DEF Match
<1>18. \A f : FtnOK(f)' <=> FtnOK(f)
  BY OKKept
<1>19. \A s : Leads(F, s)' <=> Leads(F, s)
  <2>1. \A z : (Quiet(z)' <=> Quiet(z)) /\ FtnSteps(z)' = FtnSteps(z)
    BY FtnKept
  <2> QED BY <2>1 DEF Leads
<1> QED BY <1>17, <1>18, <1>19 DEF Sim

(* The bytecode and the Fortran machine keep up with each other.            *)
SimInv == phase = "run" => \E P : Done(gen, P, Len(unit)) /\ Sim(P, code, ftn)

(* They start together.                                                     *)
LEMMA StartMatches ==
  UnitInv /\ phase = "run" /\ (\E P : Done(gen, P, Len(unit)))
    => \E P : Done(gen, P, Len(unit)) /\ Sim(P, StartCode, StartFtn)
<1> SUFFICES ASSUME UnitInv, phase = "run", NEW P, Done(gen, P, Len(unit))
             PROVE  Sim(P, StartCode, StartFtn)
  OBVIOUS
<1>1. PICK c, f : c = StartCode /\ f = StartFtn
  OBVIOUS
<1>2. Settled(P) /\ 1 \in Lines /\ phase # "read"
  BY StartIs DEF Settled
<1>3. Lands(P, 1)
  BY <1>2, LandAll
<1>4. P[1] = 1
  BY DEF Done, LinesCoded
<1>5. c.pc = 1 /\ Stands(f, 1, "stmt") /\ f.on /\ Agree(c, f) /\ FtnOK(f)
  <2>1. f \in FtnType /\ f.stage = "stmt"
    BY <1>1, StartsAre
  <2> QED BY <1>1, <2>1 DEF StartCode, StartFtn, Stands, Agree, FtnOK
<1>6. DoHeads(1) = {}
  <2>1. 1 \in 1..(Len(unit) + 1)
    BY <1>2, LinesAre
  <2>2. \A d \in DoHeads(1) : d \in 1..(1 - 1)
    BY ONLY UnitInv, <2>1, DoHeadsIs
  <2> QED BY <2>2
<1>7. Lives(P, c, f, DoHeads(1)) /\ CanFollow(1)
  BY <1>6 DEF Lives, CanFollow
<1>8. Sim(P, c, f)
  BY <1>3, <1>4, <1>5, <1>7 DEF Lands
<1> QED BY <1>1, <1>8
(* The same after a step.                                                   *)
LEMMA StartMatchesNext ==
  (UnitInv /\ phase = "run" /\ (\E P : Done(gen, P, Len(unit)))
    => \E P : Done(gen, P, Len(unit)) /\ Sim(P, StartCode, StartFtn))'
BY StartMatches, PTL

(* Nothing runs at first.                                                   *)
LEMMA SimInit == Init => SimInv
BY DEF Init, SimInv

(* Every step of a machine keeps them together.                             *)
LEMMA RunMatches ==
  ASSUME NoneOwn, NEW P, Matches(P), Run, NEW H, H = code', NEW F, F = ftn'
  PROVE  Sim(P, H, F)
<1>1. CASE CodeStep
  <2>1. F = ftn
    BY <1>1 DEF CodeStep
  <2> QED BY <1>1, <2>1, CodeStepMatches
<1>2. CASE FtnStep
  <2>1. H = code
    BY <1>2 DEF FtnStep
  <2> QED BY <1>2, <2>1, FtnStepMatches
<1>3. CASE Work
  BY <1>3, WorkMatches
<1>4. CASE Throw
  BY <1>4, ThrowMatches
<1>5. CASE Test
  BY <1>5, TestMatches
<1>6. CASE Initialise
  BY <1>6, InitialiseMatches
<1>7. CASE AssignLabel
  BY <1>7, AssignMatches
<1>8. CASE Eval
  BY <1>8, EvalMatches
<1>9. CASE Leave
  BY <1>9, LeaveMatches
<1> QED BY <1>1, <1>2, <1>3, <1>4, <1>5, <1>6, <1>7, <1>8, <1>9 DEF Run

(* Every step of the specification keeps them together.                     *)
LEMMA SimStep == NoneOwn /\ UnitInv /\ UnitInv' /\ GenInv /\ GenInv' /\ RunInv /\ RunInv' /\ SimInv /\ [Next]_vars => SimInv'
<1> SUFFICES ASSUME NoneOwn, UnitInv, UnitInv', GenInv, GenInv', RunInv, RunInv', SimInv, [Next]_vars PROVE SimInv'
  OBVIOUS
<1>1. CASE Reading
  <2>1. PICK s \in Families[family].lines :
          ReadSimple(s) \/ ReadDo(s) \/ ReadEndDo(s) \/ ReadIf(s) \/ ReadArm(s) \/ ReadEndIf(s) \/ ReadEnd(s)
    BY <1>1 DEF Reading
  <2>2. phase' \in {"read", "emit"}
    BY <2>1 DEF ReadSimple, ReadDo, ReadEndDo, ReadIf, ReadArm, ReadEndIf, ReadEnd, Read
  <2> QED BY <2>2 DEF SimInv
<1>2. CASE EmitLine
  <2>1. phase = "emit" /\ code' = code /\ ftn' = ftn
    BY <1>2 DEF EmitLine
  <2>2. code = StartCode /\ ftn = StartFtn
    BY <2>1 DEF RunInv
  <2>3. StartCode' = StartCode /\ StartFtn' = StartFtn
    BY DEF StartCode, StartFtn
  <2>4. ASSUME phase' = "run" PROVE (\E P : Done(gen, P, Len(unit)) /\ Sim(P, code, ftn))'
    <3>1. (\E P : Done(gen, P, Len(unit)))'
      BY <2>4 DEF GenInv
    <3>2. (\E P : Done(gen, P, Len(unit)) /\ Sim(P, StartCode, StartFtn))'
      BY <2>4, <3>1, StartMatchesNext
    <3>3. PICK P : Done(gen, P, Len(unit))' /\ Sim(P, StartCode, StartFtn)'
      BY <3>2
    <3>4. Sim(P, code, ftn)'
      BY <2>1, <2>2, <2>3, <3>3
    <3> QED BY <3>3, <3>4
  <2> QED BY <2>4 DEF SimInv
<1>3. CASE Run
  <2>1. UNCHANGED <<family, unit, nest, assigned, reflect, phase, gen>> /\ phase = "run"
    BY <1>3, RunKeeps
  <2>2. PICK P : Done(gen, P, Len(unit)) /\ Sim(P, code, ftn)
    BY <2>1 DEF SimInv
  <2>3. Matches(P)
    BY <2>1, <2>2 DEF Matches, Settled, RunInv
  <2>4. PICK H, F : H = code' /\ F = ftn'
    OBVIOUS
  <2>5. Sim(P, H, F)
    BY <1>3, <2>3, <2>4, RunMatches
  <2>6. Sim(P, H, F)'
    BY <2>1, <2>5, MatchKept
  <2>7. Done(gen, P, Len(unit))'
    <3>1. PICK G, n : G = gen /\ G = gen' /\ n = Len(unit) /\ n = Len(unit') /\ Done(G, P, n)
      BY <2>1, <2>2
    <3>2. Done(G, P, n)'
      BY <2>1, <3>1, TranslationKept
    <3> QED BY <3>1, <3>2
  <2>8. Sim(P, code, ftn)'
    BY <2>4, <2>6
  <2> QED BY <2>7, <2>8 DEF SimInv
<1>4. CASE Rest \/ UNCHANGED vars
  <2>1. UNCHANGED vars
    BY <1>4 DEF Rest
  <2>2. ASSUME phase = "run" PROVE (\E P : Done(gen, P, Len(unit)) /\ Sim(P, code, ftn))'
    <3>1. PICK P : Done(gen, P, Len(unit)) /\ Sim(P, code, ftn)
      BY <2>2 DEF SimInv
    <3>2. PICK G, n, H, F : G = gen /\ G = gen' /\ n = Len(unit) /\ n = Len(unit') /\ H = code /\ H = code' /\ F = ftn /\ F = ftn'
      BY <2>1 DEF vars
    <3>3. Done(G, P, n)'
      BY <2>1, <3>1, <3>2, TranslationKept DEF vars
    <3>4. Sim(P, H, F)
      BY <3>1, <3>2
    <3>5. Sim(P, H, F)'
      BY <2>1, <3>4, MatchKept DEF vars
    <3>6. Done(gen, P, Len(unit))' /\ Sim(P, code, ftn)'
      BY <3>2, <3>3, <3>5
    <3> QED BY <3>6
  <2>3. phase' = phase
    BY <2>1 DEF vars
  <2> QED BY <2>2, <2>3 DEF SimInv
<1> QED BY <1>1, <1>2, <1>3, <1>4 DEF Next

(* Where the bytecode is to decide, jump or go on, the Fortran machine is at *)
(* a line.                                                                  *)
LEMMA UnseenStands ==
  ASSUME NEW P, Settled(P), NEW c, NEW f, FtnOK(f), NEW j \in Lines, Unseen(P, c, f, j)
  PROVE  f.at \in Lines
<1>1. UnitInv /\ phase = "run" /\ phase # "read" /\ f \in FtnType
  BY DEF Settled, FtnOK
<1>2. \A l : unit[j].k \notin {"do", "end"} /\ Gone(f, j, l) => f.at \in Lines
  <2>1. SUFFICES ASSUME NEW l, unit[j].k \notin {"do", "end"}, Gone(f, j, l)
                 PROVE  f.at \in Lines
    OBVIOUS
  <2>2. l \in ToSet(Chosen(j)) /\ f.at = LineOf(l)
    BY <2>1 DEF Gone, Stands
  <2>3. LineOf(l) \in Lines
    BY ONLY <1>1, <2>1, <2>2, j \in Lines, JumpIs
  <2> QED BY <2>2, <2>3
<1>3. CASE AtClose(P, c, f, j)
  BY <1>3 DEF AtClose, FtnOK
<1>4. CASE AtDecision(P, c, f, j)
  <2>1. PICK x : Decided(f, j, x)
    BY <1>4 DEF AtDecision
  <2>2. PICK t \in Lines : /\ j \in Ends(t)
                           /\ Stands(f, j + 1, "stmt") \/ Closes(f, t, {e \in Ends(t) : e < j})
    BY <2>1 DEF Decided
  <2>3. t + 1 \in Lines /\ j + 1 \in Lines
    BY <2>2, LoopCodeIs
  <2> QED BY <2>2, <2>3 DEF Stands, Closes
<1>5. CASE AtJump(P, c, f, j)
  BY <1>2, <1>5 DEF AtJump
<1>6. CASE AtSelect(P, c, f, j)
  <2>0. PICK x : x = c.local[gen.code[P[j]].loc]
    OBVIOUS
  <2>1. PICK m \in 1..Len(Chosen(j)) : unit[j].k \in {"cgoto", "agoto"} /\ Selecting(P, c, f, j, m, x)
    BY <1>6, <2>0 DEF AtSelect
  <2>2. CASE \E n \in m..Len(Chosen(j)) : Number(j, n) = x
    BY <1>2, <2>1, <2>2 DEF Selecting
  <2>3. CASE \A n \in m..Len(Chosen(j)) : Number(j, n) # x
    <3>1. Closes(f, j, Ends(j))
      BY <2>1, <2>3 DEF Selecting
    <3>2. j + 1 \in Lines
      BY <1>1, <2>1, LineIs
    <3> QED BY <3>1, <3>2 DEF Closes, Stands
  <2> QED BY <2>2, <2>3
<1>7. CASE AtSign(P, c, f, j)
  BY <1>2, <1>7 DEF AtSign, Signed
<1>8. CASE AtLeave(P, c, f, j)
  BY <1>8 DEF AtLeave, Stands
<1> QED BY <1>3, <1>4, <1>5, <1>6, <1>7, <1>8 DEF Unseen

(* Neither machine leaves its program.                                      *)
LEMMA SimStands ==
  ASSUME NEW P, Settled(P), NEW c, NEW f, FtnOK(f), Sim(P, c, f)
  PROVE  c.pc \in DOMAIN gen.code /\ f.at \in Lines
<1>1. PICK s : FtnOK(s) /\ Leads(f, s) /\ Match(P, c, s)
  BY DEF Sim
<1>2. PICK ins : ins = gen.code[c.pc]
  OBVIOUS
<1>3. c.pc \in DOMAIN gen.code /\ s.at \in Lines
  <2>1. CASE \E j \in Lines : Seen(P, c, s, j)
    <3>1. PICK j \in Lines : Seen(P, c, s, j)
      BY <2>1
    <3>2. PICK k : k = unit[j].k
      OBVIOUS
    <3> QED BY ONLY Settled(P), <1>2, <3>1, <3>2, SeenIs
  <2>2. CASE \E j \in Lines : Unseen(P, c, s, j)
    <3>1. PICK j \in Lines : Unseen(P, c, s, j)
      BY <2>2
    <3>2. c.pc \in DOMAIN gen.code
      BY ONLY Settled(P), <1>2, <3>1, UnseenIs
    <3>3. s.at \in Lines
      BY ONLY Settled(P), <1>1, <3>1, UnseenStands
    <3> QED BY <3>2, <3>3
  <2>3. CASE AtEnd(P, c, s)
    BY ONLY Settled(P), <1>2, <2>3, AtEndIs
  <2>4. CASE Over(c, s)
    BY <2>4 DEF Over
  <2> QED BY <1>1, <2>1, <2>2, <2>3, <2>4 DEF Match
<1>4. f.at \in Lines
  BY <1>1, <1>3, LeadsFrom DEF Quiet
<1> QED BY <1>3, <1>4

(* Where the machines meet they are about to do the same.                   *)
LEMMA TogetherSame ==
  ASSUME NEW P, NEW c, NEW f, NEW i, Together(P, c, f, i)
  PROVE  Now.op = FtnOp /\ (Now.op # "return" => Now.line = ftn.at) /\ code.val = ftn.val /\ code.asg = ftn.asg
<1>1. PICK k, ins : k = unit[i].k /\ ins = Now
  OBVIOUS
<1>2. UnitInv /\ ftn = f /\ ftn.at = i /\ i \in Lines /\ code.val = ftn.val /\ code.asg = ftn.asg
  BY DEF Together, Settled, Agree
<1>3. ftn.at \in Lines /\ k = unit[ftn.at].k
  BY <1>1, <1>2
<1>4. CASE ins.op # "return" \/ k # "end"
  <2>1. ins.line = i /\ SeenOp(k, f.stage, ins.op)
    BY <1>1, <1>4, TogetherIs
  <2>2. ins.op = FtnOp
    <3>1. PICK op, stage, fop : op = ins.op /\ stage = f.stage /\ stage = ftn.stage /\ fop = FtnOp
      BY <1>2
    <3>2. /\ k \in {"if", "elseif"} => fop = "test"
          /\ k \in {"lifwork", "lifgoto"} => fop = IF stage = "then" THEN "work" ELSE "test"
          /\ k \in {"cgoto", "agoto", "aif", "aifwide"} => fop = "eval"
          /\ k = "do" => fop = "init"
          /\ k \notin {"if", "elseif", "lifwork", "lifgoto", "cgoto", "agoto", "aif", "aifwide", "do", "end"} => fop = k
      BY <1>2, <1>3, <3>1, FtnOpIs
    <3>3. SeenOp(k, stage, op)
      BY <2>1, <3>1
    <3>4. op = fop
      BY ONLY <3>2, <3>3 DEF SeenOp, Visible
    <3> QED BY <3>1, <3>4
  <2> QED BY <1>1, <1>2, <2>1, <2>2
<1>5. CASE ins.op = "return" /\ k = "end"
  <2>1. FtnOp = "return"
    BY <1>2, <1>3, <1>5, FtnOpIs
  <2> QED BY <1>1, <1>2, <1>5, <2>1
<1> QED BY <1>4, <1>5

(* What the invariants say of both machines.                                *)
LEMMA SimIsSameStatement == UnitInv /\ GenInv /\ RunInv /\ SimInv => SameStatement
<1> SUFFICES ASSUME UnitInv, GenInv, RunInv, SimInv PROVE SameStatement
  OBVIOUS
<1>1. ASSUME phase = "run" PROVE \E P : Matches(P)
  <2>1. PICK P : Done(gen, P, Len(unit)) /\ Sim(P, code, ftn)
    BY <1>1 DEF SimInv
  <2> QED BY <1>1, <2>1 DEF Matches, Settled, RunInv
<1>2. ASSUME phase = "run" PROVE code.pc \in DOMAIN gen.code /\ ftn.at \in Lines
  <2>1. PICK P : Matches(P)
    BY <1>1, <1>2
  <2> QED BY <2>1, SimStands DEF Matches
<1>3. ASSUME Meeting
      PROVE  Now.op = FtnOp /\ (Now.op # "return" => Now.line = ftn.at) /\ code.val = ftn.val /\ code.asg = ftn.asg
  <2>1. PICK P : Matches(P)
    BY <1>1, <1>3 DEF Meeting, Running
  <2>2. PICK c, f, i : Together(P, c, f, i)
    BY <1>3, <2>1, MeetingMatches
  <2> QED BY <2>2, TogetherSame
<1> QED BY <1>2, <1>3 DEF SameStatement

(* The two machines keep up with each other.                                *)
THEOREM MachinesMatch == NoneOwn => (Spec => []SimInv)
<1> SUFFICES ASSUME NoneOwn PROVE Spec => []SimInv
  OBVIOUS
<1>1. UnitInv /\ UnitInv' /\ GenInv /\ GenInv' /\ RunInv /\ RunInv' /\ SimInv /\ [Next]_vars => SimInv'
  BY SimStep
<1> QED BY <1>1, SimInit, UnitIsLegal, UnitIsTranslated, MachinesAreTyped, PTL DEF Spec

(* The bytecode does what the Fortran unit does: it never leaves its code,  *)
(* and where both come to rest they are at the same line, about to do the   *)
(* same, with the same values, if no DO statement reads its own variable.   *)
THEOREM SameStatementCorrect == NoneOwn => (Spec => []SameStatement)
BY MachinesMatch, UnitIsLegal, UnitIsTranslated, MachinesAreTyped, SimIsSameStatement, PTL
=============================================================================
