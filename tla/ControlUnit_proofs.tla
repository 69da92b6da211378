-------------------------- MODULE ControlUnit_proofs --------------------------
(***************************************************************************)
(* Proofs about the part of ControlCode that reads a unit: what is read is   *)
(* a legal unit, whose loops and blocks are properly nested.                 *)
(***************************************************************************)
EXTENDS ControlCode, Induction, TLAPS

USE LimitAssumption

-----------------------------------------------------------------------------
(* Sequences. *)

(* The elements and the length of two sequences joined.                     *)
LEMMA Joined ==
  ASSUME NEW S, NEW s \in Seq(S), NEW t \in Seq(S)
  PROVE  /\ s \o t \in Seq(S) /\ Len(s \o t) = Len(s) + Len(t) /\ Len(s) \in Nat /\ Len(t) \in Nat
         /\ \A k \in 1..Len(s) : (s \o t)[k] = s[k]
         /\ \A k \in 1..Len(t) : (s \o t)[Len(s) + k] = t[k]
<1>1. s \o t \in Seq(S) /\ Len(s \o t) = Len(s) + Len(t) /\ Len(s) \in Nat /\ Len(t) \in Nat
  OBVIOUS
<1>2. \A k \in 1..Len(s) : (s \o t)[k] = s[k]
  OBVIOUS
<1>3. \A k \in 1..Len(t) : (s \o t)[Len(s) + k] = t[k]
  OBVIOUS
<1> QED BY <1>1, <1>2, <1>3

(* An element of a sequence over S.                                         *)
LEMMA Element ==
  ASSUME NEW S, NEW s \in Seq(S), NEW k \in 1..Len(s)
  PROVE  s[k] \in S
OBVIOUS

(* The elements, the length and the prefixes of a prefix.                   *)
LEMMA Prefix ==
  ASSUME NEW S, NEW s \in Seq(S), NEW n \in 0..Len(s)
  PROVE  /\ SubSeq(s, 1, n) \in Seq(S) /\ Len(SubSeq(s, 1, n)) = n
         /\ \A k \in 1..n : SubSeq(s, 1, n)[k] = s[k]
         /\ \A m \in 0..n : SubSeq(SubSeq(s, 1, n), 1, m) = SubSeq(s, 1, m)
         /\ n = Len(s) => SubSeq(s, 1, n) = s
<1>1. /\ SubSeq(s, 1, n) \in Seq(S) /\ Len(SubSeq(s, 1, n)) = n
      /\ \A k \in 1..n : SubSeq(s, 1, n)[k] = s[k]
  OBVIOUS
<1>2. ASSUME NEW m \in 0..n PROVE SubSeq(SubSeq(s, 1, n), 1, m) = SubSeq(s, 1, m)
  BY <1>1
<1>3. n = Len(s) => SubSeq(s, 1, n) = s
  OBVIOUS
<1> QED BY <1>1, <1>2, <1>3

(* A sequence with one more element.                                        *)
LEMMA Added ==
  ASSUME NEW S, NEW s \in Seq(S), NEW x \in S
  PROVE  /\ Append(s, x) \in Seq(S) /\ Len(Append(s, x)) = Len(s) + 1
         /\ \A k \in 1..Len(s) : Append(s, x)[k] = s[k]
         /\ Append(s, x)[Len(s) + 1] = x
         /\ \A m \in 0..Len(s) : SubSeq(Append(s, x), 1, m) = SubSeq(s, 1, m)
         /\ s \o <<x>> = Append(s, x)
<1>1. /\ Append(s, x) \in Seq(S) /\ Len(Append(s, x)) = Len(s) + 1
      /\ \A k \in 1..Len(s) : Append(s, x)[k] = s[k]
      /\ Append(s, x)[Len(s) + 1] = x
  OBVIOUS
<1>2. ASSUME NEW m \in 0..Len(s) PROVE SubSeq(Append(s, x), 1, m) = SubSeq(s, 1, m)
  BY <1>1
<1>3. s \o <<x>> = Append(s, x)
  OBVIOUS
<1> QED BY <1>1, <1>2, <1>3

-----------------------------------------------------------------------------
(* The unit as it is read. *)

Labels   == 0..(FirstLoopLabel - 1)
Entry    == [head : Nat, arm : Nat]
AllLines == UNION {f.lines : f \in ToSet(Families)}
LineType == [k : Kinds, lab : Labels, to : Seq(Nat), do : {line.do : line \in AllLines},
             of : Nat, open : Seq(Entry)]
Arms     == {"elseif", "else", "endif"}
Openers  == {"do", "if", "elseif", "else"}
Closers  == {"work", "continue", "lifwork", "lifgoto", "enddo"}

(* Labels of the source are smaller than those that Do_incr makes up.       *)
LEMMA LabelNumbers ==
  /\ FirstLoopLabel \in Nat \ {0} /\ Labels \subseteq Nat
  /\ \A l \in Labels : ~ (l >= FirstLoopLabel)
<1>1. FirstLoopLabel \in Nat \ {0}
  BY DEF FirstLoopLabel
<1> QED BY <1>1 DEF Labels

\* The loops and blocks that are open before line i, and after the last one.
Open(i) == IF i \in Lines THEN unit[i].open ELSE nest

(* One that is open: the arm that is being read is its head or continues it. *)
OpenOK(s, m) ==
  LET h == s[m].head
      a == s[m].arm
  IN /\ h \in Lines /\ a \in Lines /\ h <= a
     /\ \/ unit[h].k = "do" /\ a = h
        \/ unit[h].k = "if" /\ a = h
        \/ unit[h].k = "if" /\ unit[a].k \in {"elseif", "else"} /\ unit[a].of = h
     /\ \A n \in 1..(m - 1) : s[n].arm < h
     /\ unit[h].open = SubSeq(s, 1, m - 1)
(* It has not ended, and no later line belongs to the block.                 *)
Latest(e, i) ==
  \A j \in Lines : j < i =>
    /\ e.head \notin Ends(j)
    /\ unit[j].of = e.head /\ unit[e.head].k = "if" => j <= e.arm /\ unit[j].k # "endif"
StackOK(i) == \A m \in 1..Len(Open(i)) : Open(i)[m].arm < i /\ OpenOK(Open(i), m) /\ Latest(Open(i)[m], i)

(* What a line opens and closes.                                             *)
Continues(i, k) ==
  /\ Open(i) # <<>> /\ unit[i].of = Last(Open(i)).head /\ unit[unit[i].of].k = k
Follows(i) ==
  LET s == Open(i)
      t == Open(i + 1)
      k == unit[i].k
  IN /\ k \in Openers \cup {"endif"} => Ends(i) = {}
     /\ k \in {"do", "if"} => t = Append(s, [head |-> i, arm |-> i])
     /\ k \in {"elseif", "else"} => t = Append(Front(s), [head |-> unit[i].of, arm |-> i])
     /\ k \in Arms => Continues(i, "if")
     /\ k \in {"elseif", "else"} => unit[Last(s).arm].k # "else"
     /\ k = "endif" => t = Front(s)
     /\ k = "enddo" => Continues(i, "do") /\ unit[unit[i].of].to[1] >= FirstLoopLabel /\ Ends(i) = {unit[i].of}
     /\ k \notin Arms \cup {"enddo"} => unit[i].of = 0
     /\ k \notin Openers \cup {"endif"} =>
          \E n \in 0..Len(s) : /\ t = SubSeq(s, 1, n)
                               /\ Ends(i) = {s[m].head : m \in (n + 1)..Len(s)}
     /\ k \notin Closers => Ends(i) = {}

(* Labels, and what lines need of them.                                      *)
LabelsOK(i) ==
  /\ \A j \in Lines : i # j /\ unit[i].lab # 0 => unit[j].lab # unit[i].lab
  /\ unit[i].k \in {"goto", "lifgoto", "assign"} => Len(unit[i].to) = 1
  /\ unit[i].k \in {"aif", "aifwide"} => Len(unit[i].to) = 3
  /\ unit[i].k # "do" => \A j \in DOMAIN unit[i].to : unit[i].to[j] \in Labels \ {0}
  /\ unit[i].k = "do" =>
       /\ Len(unit[i].to) = 1 /\ unit[i].to[1] # 0
       /\ \A j \in 1..i : unit[j].lab # unit[i].to[1]
       /\ unit[i].to[1] >= FirstLoopLabel => unit[i].to[1] = FirstLoopLabel + i - 1

(* A loop is open, or one line ends it.                                      *)
IsOpen(h) == \E m \in 1..Len(nest) : nest[m].head = h
LoopOK(d) ==
  \/ IsOpen(d) /\ \A i \in Lines : d \notin Ends(i)
  \/ ~ IsOpen(d) /\ \E t \in Lines : d < t /\ \A i \in Lines : d \in Ends(i) <=> i = t

(* A block is open, or one line ends it; an arm is the one that is being     *)
(* read, or another line of the block comes next.                            *)
HeadOf(a) == IF unit[a].k = "if" THEN a ELSE unit[a].of
BlockOK(h) ==
  \/ IsOpen(h) /\ \A i \in Lines : unit[i].of = h => unit[i].k # "endif"
  \/ ~ IsOpen(h) /\ \E e \in Lines : /\ unit[e].k = "endif" /\ unit[e].of = h
                                     /\ \A i \in Lines : unit[i].of = h => i <= e
ArmOK(a) ==
  \/ /\ \E m \in 1..Len(nest) : nest[m] = [head |-> HeadOf(a), arm |-> a]
     /\ \A j \in Lines : unit[j].of = HeadOf(a) => j <= a
  \/ \E j \in Lines : /\ a < j /\ unit[j].of = HeadOf(a) /\ unit[j].k \in Arms
                      /\ \A m \in (a + 1)..(j - 1) : unit[m].of # HeadOf(a)
                      /\ unit[a].k = "else" => unit[j].k = "endif"

(* What is legal of a unit that has been read.                               *)
Complete ==
  /\ nest = <<>> /\ unit # <<>> /\ unit[Len(unit)].k = "end"
  /\ \A i \in Lines : unit[i].k \notin {"do", "end"} =>
       \A j \in DOMAIN unit[i].to : \E t \in Lines : unit[t].lab = unit[i].to[j] /\ In(t) \subseteq In(i)
  /\ (\E i \in Lines : unit[i].k = "agoto") => assigned # <<>>

UnitType ==
  /\ unit \in Seq(LineType) /\ nest \in Seq(Entry) /\ assigned \in Seq(Nat)
  /\ family \in DOMAIN Families /\ reflect \in BOOLEAN /\ phase \in {"read", "emit", "run"}
  /\ Len(unit) <= MaxLines

Stacks    == \A i \in 1..(Len(unit) + 1) : StackOK(i)
Openings  == \A i \in Lines : Follows(i)
Labelling == \A i \in Lines : LabelsOK(i)
OneEnd    == \A i \in Lines : unit[i].k = "end" => i = Len(unit) /\ phase # "read"
LoopsEnd  == \A i \in Lines : unit[i].k = "do" => LoopOK(i)
BlocksEnd == \A i \in Lines : unit[i].k = "if" => BlockOK(i)
ArmsEnd   == \A i \in Lines : unit[i].k \in {"if", "elseif", "else"} => ArmOK(i)
AfterReturn == \A i \in Lines : i + 1 \in Lines /\ unit[i].k = "return" =>
                 unit[i + 1].lab # 0 \/ unit[i + 1].k \in {"elseif", "else", "endif", "enddo", "end"}
Assigned == \A j \in DOMAIN assigned : \E i \in Lines : unit[i].k = "assign" /\ unit[i].to[1] = assigned[j]

UnitInv ==
  /\ UnitType /\ Stacks /\ Openings /\ Labelling /\ OneEnd /\ LoopsEnd /\ BlocksEnd /\ ArmsEnd
  /\ AfterReturn /\ Assigned
  /\ phase # "read" => Complete

-----------------------------------------------------------------------------
(* Reading. *)

(* What UnitInv says of the parts of the state.                              *)
LEMMA UnitTypes ==
  ASSUME UnitType
  PROVE  /\ Lines = 1..Len(unit) /\ Len(unit) \in Nat
         /\ \A i \in Lines : /\ unit[i] \in LineType /\ unit[i].k \in Kinds /\ unit[i].lab \in Labels
                             /\ unit[i].to \in Seq(Nat) /\ unit[i].of \in Nat /\ unit[i].open \in Seq(Entry)
         /\ \A i \in 1..(Len(unit) + 1) : Open(i) \in Seq(Entry) /\ Len(Open(i)) \in Nat
         /\ Open(Len(unit) + 1) = nest
<1>1. Lines = 1..Len(unit) /\ Len(unit) \in Nat
  BY DEF UnitType, Lines
<1>2. \A i \in Lines : unit[i] \in LineType
  BY DEF UnitType, Lines
<1>3. \A i \in Lines : /\ unit[i].k \in Kinds /\ unit[i].lab \in Labels
                       /\ unit[i].to \in Seq(Nat) /\ unit[i].of \in Nat /\ unit[i].open \in Seq(Entry)
  BY <1>2 DEF LineType
<1>4. \A i \in 1..(Len(unit) + 1) : Open(i) \in Seq(Entry) /\ Len(Open(i)) \in Nat
  BY <1>1, <1>3 DEF Open, UnitType
<1>5. Open(Len(unit) + 1) = nest
  BY <1>1 DEF Open
<1> QED BY <1>1, <1>2, <1>3, <1>4, <1>5

(* A line that is read comes after the N others, which keep what they have.  *)
Grows(N, line) ==
  /\ unit' \in Seq(LineType) /\ Len(unit') = N + 1 /\ N + 1 <= MaxLines /\ N = Len(unit)
  /\ Lines' = 1..(N + 1)
  /\ \A i \in 1..N : unit'[i] = unit[i]
  /\ unit'[N + 1] = line /\ line.open = nest
  /\ nest' \in Seq(Entry)
  /\ \A i \in 1..(N + 1) : Open(i)' = Open(i)
  /\ Open(N + 2)' = nest'
  /\ family' = family /\ reflect' = reflect
  /\ \A i \in 1..N : line.lab # 0 => unit[i].lab # line.lab
  /\ Reachable(line)
(* Read appends a line and leaves the others alone.                         *)
LEMMA ReadNew ==
  ASSUME UnitType, phase = "read", NEW N, N = Len(unit),
         NEW line \in LineType, NEW push \in Seq(Entry), NEW drop \in 0..Len(nest),
         Read(line, push, drop), line.open = nest
  PROVE  /\ Grows(N, line)
         /\ nest' = SubSeq(nest, 1, Len(nest) - drop) \o push
<1>1. Families[family].max \in 1..MaxLines
  BY FamiliesAssumption DEF UnitType, ToSet
<1>2. unit' = Append(unit, line) /\ Len(unit) < Families[family].max /\ family' = family /\ reflect' = reflect
      /\ nest' = SubSeq(nest, 1, Len(nest) - drop) \o push /\ Reachable(line)
      /\ \A i \in Lines : line.lab # 0 => unit[i].lab # line.lab
  BY DEF Read
<1>3. unit' \in Seq(LineType) /\ Len(unit') = N + 1 /\ unit'[N + 1] = line
      /\ \A i \in 1..N : unit'[i] = unit[i]
  BY <1>2 DEF UnitType
<1>4. Lines = 1..N /\ Lines' = 1..(N + 1) /\ N \in Nat
  BY <1>3 DEF UnitType, Lines
<1> DEFINE kept == SubSeq(nest, 1, Len(nest) - drop)
<1>5. kept \in Seq(Entry) /\ Len(kept) = Len(nest) - drop /\ nest' = kept \o push
  BY <1>2 DEF UnitType
<1> HIDE DEF kept
<1>6. nest' \in Seq(Entry) /\ Len(nest') = Len(nest) - drop + Len(push)
  <2>1. kept \o push \in Seq(Entry)
    BY <1>5
  <2>2. Len(kept \o push) = Len(kept) + Len(push)
    BY <1>5, Joined
  <2> QED BY <1>5, <2>1, <2>2
<1>7. ASSUME NEW i \in 1..(N + 1) PROVE Open(i)' = Open(i)
  <2>1. CASE i \in 1..N
    BY <1>3, <1>4, <2>1 DEF Open
  <2>2. CASE i = N + 1
    <3>1. Open(i) = nest
      BY <1>4, <2>2 DEF Open
    <3>2. Open(i)' = unit'[i].open
      BY <1>4 DEF Open
    <3> QED BY <1>3, <2>2, <3>1, <3>2
  <2> QED BY <1>4, <2>1, <2>2
<1>8. Open(N + 2)' = nest'
  <2>1. N + 2 \notin Lines'
    BY <1>4
  <2> QED BY <2>1 DEF Open
<1>9. N + 1 <= MaxLines
  BY <1>1, <1>2, <1>3, <1>4
<1> QED BY <1>2, <1>3, <1>4, <1>6, <1>7, <1>8, <1>9 DEF Grows

(* The line that a line continues or ends comes before it.                   *)
LEMMA OfBefore ==
  ASSUME UnitInv, NEW i \in Lines, NEW k, Continues(i, k)
  PROVE  /\ Len(Open(i)) \in Nat \ {0} /\ unit[i].of = Open(i)[Len(Open(i))].head
         /\ Open(i)[Len(Open(i))].arm \in unit[i].of..(i - 1)
         /\ unit[i].of \in 1..(i - 1) /\ unit[i].of \in Lines /\ unit[unit[i].of].k = k
<1> DEFINE s == Open(i)
           L == Len(s)
<1>1. Lines = 1..Len(unit) /\ Len(unit) \in Nat /\ s \in Seq(Entry) /\ L \in Nat
  BY UnitTypes DEF UnitInv
<1>2. StackOK(i)
  BY <1>1 DEF UnitInv, Stacks
<1>3. s # <<>> /\ unit[i].of = s[L].head /\ unit[unit[i].of].k = k
  BY <1>1 DEF Continues, Last
<1>4. L \in 1..L
  BY <1>1, <1>3
<1>5. s[L].arm < i /\ s[L].head \in Lines /\ s[L].arm \in Lines /\ s[L].head <= s[L].arm
  BY <1>2, <1>4 DEF StackOK, OpenOK
<1> HIDE DEF s, L
<1>6. L \in Nat \ {0} /\ s[L].arm \in s[L].head..(i - 1) /\ s[L].head \in 1..(i - 1)
  BY <1>1, <1>4, <1>5
<1> QED BY <1>3, <1>5, <1>6 DEF s, L

(* The line that began what a line continues or ends.                       *)
LEMMA Continuing ==
  ASSUME UnitInv, NEW i \in Lines
  PROVE  /\ unit[i].k \in Arms => Continues(i, "if")
         /\ unit[i].k = "enddo" => Continues(i, "do") /\ unit[unit[i].of].to[1] >= FirstLoopLabel /\ Ends(i) = {unit[i].of}
         /\ unit[i].k \notin Arms \cup {"enddo"} => unit[i].of = 0
BY DEF UnitInv, Openings, Follows

(* No earlier line ends a new loop.                                          *)
LEMMA EndsKept ==
  ASSUME UnitInv, NEW N, NEW line \in LineType, Grows(N, line),
         line.k = "do" => \A i \in 1..N : unit[i].lab # line.to[1]
  PROVE  \A i \in 1..N : Ends(i)' = Ends(i) /\ unit[i].of # N + 1
<1>1. Lines = 1..N /\ N \in Nat /\ N = Len(unit)
  BY UnitTypes DEF Grows, UnitInv
<1> SUFFICES ASSUME NEW i \in 1..N PROVE Ends(i)' = Ends(i) /\ unit[i].of # N + 1
  OBVIOUS
<1>2. unit[i].of # N + 1
  <2>1. CASE unit[i].k \in Arms \cup {"enddo"}
    BY <1>1, <2>1, Continuing, OfBefore
  <2>2. CASE unit[i].k \notin Arms \cup {"enddo"}
    BY <1>1, <2>2, Continuing
  <2> QED BY <2>1, <2>2
<1>3. /\ unit'[i] = unit[i] /\ unit'[N + 1] = line /\ Lines' = Lines \cup {N + 1}
      /\ \A d \in Lines : unit'[d] = unit[d]
  BY <1>1 DEF Grows
<1>4. \A d \in Lines' : d \in Ends(i)' <=> d \in Ends(i)
  <2> SUFFICES ASSUME NEW d \in Lines' PROVE d \in Ends(i)' <=> d \in Ends(i)
    OBVIOUS
  <2>1. CASE d \in Lines
    BY <1>3, <2>1 DEF Ends
  <2>2. CASE d = N + 1
    <3>1. d \notin Ends(i)
      BY <1>1, <2>2 DEF Ends
    <3>2. d \notin Ends(i)'
      BY <1>2, <1>3, <2>2 DEF Ends
    <3> QED BY <3>1, <3>2
  <2> QED BY <1>3, <2>1, <2>2
<1>5. Ends(i) \subseteq Lines /\ Ends(i)' \subseteq Lines' /\ Lines \subseteq Lines'
  BY <1>3 DEF Ends
<1> QED BY <1>2, <1>4, <1>5

(* What holds of the earlier lines still does.                               *)
LEMMA LinesKept ==
  ASSUME UnitInv, NEW N, NEW line \in LineType, Grows(N, line),
         line.k = "do" => \A i \in 1..N : unit[i].lab # line.to[1]
  PROVE  /\ \A i \in 1..(N + 1) : StackOK(i)'
         /\ \A i \in 1..N : Follows(i)' /\ LabelsOK(i)'
<1>1. Lines = 1..N /\ N \in Nat /\ N = Len(unit)
  BY UnitTypes DEF Grows, UnitInv
<1>2. /\ \A i \in Lines : unit'[i] = unit[i] /\ Ends(i)' = Ends(i) /\ i \in Lines' /\ i # N + 1
      /\ \A i \in 1..(N + 1) : Open(i)' = Open(i)
      /\ unit'[N + 1] = line /\ Lines' = 1..(N + 1)
      /\ \A i \in 1..N : line.lab # 0 => unit[i].lab # line.lab
  <2>0. \A i \in 1..N : Ends(i)' = Ends(i)
    BY EndsKept
  <2>1. \A i \in 1..N : unit'[i] = unit[i] /\ Ends(i)' = Ends(i) /\ i \in 1..(N + 1) /\ i # N + 1
    <3>1. \A i \in 1..N : unit'[i] = unit[i]
      BY DEF Grows
    <3> QED BY <1>1, <2>0, <3>1
  <2>2. Lines' = 1..(N + 1)
    BY DEF Grows
  <2> QED BY <1>1, <2>1, <2>2 DEF Grows
<1>3. ASSUME NEW i \in 1..(N + 1) PROVE StackOK(i)'
  <2>1. StackOK(i)
    BY <1>1 DEF UnitInv, Stacks
  <2> SUFFICES ASSUME NEW m \in 1..Len(Open(i)), OpenOK(Open(i), m), Open(i)[m].arm < i, Latest(Open(i)[m], i)
               PROVE  (Open(i)[m].arm < i /\ OpenOK(Open(i), m) /\ Latest(Open(i)[m], i))'
    BY <1>2, <2>1 DEF StackOK
  <2>2. Open(i)' = Open(i)
    BY <1>2
  <2> DEFINE h == Open(i)[m].head
             a == Open(i)[m].arm
  <2>3. h \in Lines /\ a \in Lines
    BY DEF OpenOK
  <2>4. unit'[h] = unit[h] /\ unit'[a] = unit[a] /\ h \in Lines' /\ a \in Lines'
    BY <1>2, <2>3
  <2>5. OpenOK(Open(i), m)'
    BY <2>2, <2>4 DEF OpenOK
  <2>6. \A j \in Lines' : j < i => j \in Lines /\ unit'[j] = unit[j] /\ Ends(j)' = Ends(j)
    BY <1>1, <1>2
  <2>7. PICK e : e = Open(i)[m]
    OBVIOUS
  <2>8. Latest(e, i)'
    BY <2>4, <2>6, <2>7 DEF Latest
  <2> QED BY <2>2, <2>5, <2>7, <2>8
<1>4. ASSUME NEW i \in 1..N PROVE Follows(i)'
  <2>1. Follows(i) /\ unit'[i] = unit[i] /\ Open(i)' = Open(i) /\ Open(i + 1)' = Open(i + 1) /\ Ends(i)' = Ends(i)
    BY <1>1, <1>2 DEF UnitInv, Openings
  <2>2. ASSUME NEW k, Continues(i, k)
        PROVE  Continues(i, k)' /\ unit'[unit[i].of] = unit[unit[i].of] /\ unit'[Last(Open(i)).arm] = unit[Last(Open(i)).arm]
    <3>1. unit[i].of \in Lines /\ Open(i)[Len(Open(i))].arm \in Lines
      BY <1>1, <2>2, OfBefore
    <3> QED BY <1>2, <2>1, <2>2, <3>1 DEF Continues, Last
  <2>3. /\ Continues(i, "do") => Continues(i, "do")' /\ unit'[unit[i].of] = unit[unit[i].of]
        /\ Continues(i, "if") => Continues(i, "if")' /\ unit'[Last(Open(i)).arm] = unit[Last(Open(i)).arm]
    BY <2>2
  <2>4. PICK s, t, E, l : s = Open(i) /\ t = Open(i + 1) /\ E = Ends(i) /\ l = unit[i]
    OBVIOUS
  <2>5. s = Open(i)' /\ t = Open(i + 1)' /\ E = Ends(i)' /\ l = unit'[i]
    BY <2>1, <2>4
  <2>6. /\ l.k \in {"elseif", "else"} => unit[Last(s).arm].k # "else" /\ Continues(i, "if")
        /\ l.k = "enddo" => Continues(i, "do") /\ unit[l.of].to[1] >= FirstLoopLabel
        /\ l.k \in Arms => Continues(i, "if")
    BY <2>1, <2>4 DEF Follows, Arms
  <2>7. /\ l.k \in {"elseif", "else"} => unit'[Last(s).arm].k # "else"
        /\ l.k = "enddo" => Continues(i, "do")' /\ unit'[l.of].to[1] >= FirstLoopLabel
        /\ l.k \in Arms => Continues(i, "if")'
    BY <2>3, <2>4, <2>6, <2>2
  <2>8. /\ l.k \in Openers \cup {"endif"} => E = {}
        /\ l.k \in {"do", "if"} => t = Append(s, [head |-> i, arm |-> i])
        /\ l.k \in {"elseif", "else"} => t = Append(Front(s), [head |-> l.of, arm |-> i])
        /\ l.k = "endif" => t = Front(s)
        /\ l.k \notin Arms \cup {"enddo"} => l.of = 0
        /\ l.k \notin Openers \cup {"endif"} =>
             \E n \in 0..Len(s) : t = SubSeq(s, 1, n) /\ E = {s[m].head : m \in (n + 1)..Len(s)}
        /\ l.k \notin Closers => E = {}
        /\ l.k = "enddo" => E = {l.of}
    BY <2>1, <2>4 DEF Follows
  <2> QED BY ONLY <2>5, <2>7, <2>8 DEF Follows
<1>5. ASSUME NEW i \in 1..N PROVE LabelsOK(i)'
  <2>1. LabelsOK(i) /\ unit'[i] = unit[i]
    BY <1>1, <1>2 DEF UnitInv, Labelling
  <2>2. \A j \in Lines' : i # j /\ unit[i].lab # 0 => unit'[j].lab # unit[i].lab
    BY <1>1, <1>2, <2>1 DEF LabelsOK
  <2>3. \A j \in 1..i : unit'[j] = unit[j]
    BY <1>1, <1>2
  <2> QED BY <2>1, <2>2, <2>3 DEF LabelsOK
<1> QED BY <1>3, <1>4, <1>5

(* What a new line, if it follows the others, makes of the open loops and    *)
(* blocks.                                                                   *)
NewLine(N, line) ==
  LET k == line.k
      L == Len(nest)
      E == Ends(N + 1)'
  IN /\ k \in Openers \cup {"endif"} => E = {}
     /\ k \in {"do", "if"} => nest' = Append(nest, [head |-> N + 1, arm |-> N + 1])
     /\ k \in {"elseif", "else"} => /\ nest' = Append(SubSeq(nest, 1, L - 1), [head |-> line.of, arm |-> N + 1])
                                    /\ unit[nest[L].arm].k # "else"
     /\ k \in Arms => L \in Nat \ {0} /\ line.of = nest[L].head /\ line.of \in Lines /\ unit[line.of].k = "if"
     /\ k = "endif" => nest' = SubSeq(nest, 1, L - 1)
     /\ k = "enddo" => L \in Nat \ {0} /\ line.of = nest[L].head /\ line.of \in Lines /\ unit[line.of].k = "do"
     /\ k \notin Arms \cup {"enddo"} => line.of = 0
     /\ k \notin Openers \cup {"endif"} =>
          \E n \in 0..L : nest' = SubSeq(nest, 1, n) /\ E = {nest[m].head : m \in (n + 1)..L}
(* What Follows says of the line that was read last.                        *)
LEMMA NewLineIs ==
  ASSUME UnitInv, NEW N, NEW line \in LineType, Grows(N, line), Follows(N + 1)'
  PROVE  NewLine(N, line)
<1>1. /\ N \in Nat /\ Lines = 1..N /\ nest \in Seq(Entry) /\ Len(nest) \in Nat
      /\ Open(N + 1)' = nest /\ Open(N + 1 + 1)' = nest' /\ unit'[N + 1] = line
      /\ \A i \in Lines : unit'[i] = unit[i]
  <2>1. N \in Nat /\ Lines = 1..N /\ Open(N + 1) = nest /\ N + 1 + 1 = N + 2 /\ nest \in Seq(Entry)
    BY UnitTypes DEF UnitInv, UnitType, Grows
  <2> QED BY <2>1 DEF Grows
<1> DEFINE L == Len(nest)
<1>2. StackOK(N + 1) /\ Open(N + 1) = nest
  BY <1>1, UnitTypes DEF UnitInv, Stacks, Grows
<1>3. \A m \in 1..L : nest[m].head \in Lines /\ nest[m].arm \in Lines
  BY <1>2 DEF StackOK, OpenOK
<1>4. nest # <<>> => L \in 1..L /\ L # 0 /\ Last(nest) = nest[L] /\ Front(nest) = SubSeq(nest, 1, L - 1)
  BY <1>1 DEF Last, Front
<1>5. PICK u, v, E : u = Open(N + 1)' /\ v = Open(N + 1 + 1)' /\ E = Ends(N + 1)'
  OBVIOUS
<1>6. u = nest /\ v = nest'
  BY <1>1, <1>5
<1>7. ASSUME NEW k, Continues(N + 1, k)'
      PROVE  L \in Nat \ {0} /\ nest # <<>> /\ line.of = nest[L].head /\ line.of \in Lines /\ unit[line.of].k = k
  <2>1. nest # <<>> /\ line.of = Last(nest).head /\ unit'[line.of].k = k
    BY <1>1, <1>7 DEF Continues
  <2>2. line.of \in Lines
    BY <1>3, <1>4, <2>1
  <2> QED BY <1>1, <1>4, <2>1, <2>2
<1>8. line.k \in Arms => Continues(N + 1, "if")'
  BY <1>1 DEF Follows
<1>9. line.k = "enddo" => Continues(N + 1, "do")'
  BY <1>1 DEF Follows
<1>10. /\ line.k \in Openers \cup {"endif"} => E = {}
       /\ line.k \in {"do", "if"} => v = Append(u, [head |-> N + 1, arm |-> N + 1])
       /\ line.k \in {"elseif", "else"} => v = Append(Front(u), [head |-> line.of, arm |-> N + 1])
       /\ line.k \in {"elseif", "else"} => unit'[Last(u).arm].k # "else"
       /\ line.k = "endif" => v = Front(u)
       /\ line.k \notin Arms \cup {"enddo"} => line.of = 0
       /\ line.k \notin Openers \cup {"endif"} =>
            \E n \in 0..Len(u) : v = SubSeq(u, 1, n) /\ E = {u[m].head : m \in (n + 1)..Len(u)}
  BY <1>1, <1>5 DEF Follows
<1>11. line.k \in Arms => /\ L \in Nat \ {0} /\ nest # <<>> /\ line.of = nest[L].head
                          /\ line.of \in Lines /\ unit[line.of].k = "if"
  BY <1>7, <1>8
<1>12. line.k = "enddo" => L \in Nat \ {0} /\ line.of = nest[L].head /\ line.of \in Lines /\ unit[line.of].k = "do"
  BY <1>7, <1>9
<1>13. line.k \in {"elseif", "else"} =>
         /\ nest' = Append(SubSeq(nest, 1, L - 1), [head |-> line.of, arm |-> N + 1])
         /\ unit[nest[L].arm].k # "else"
  <2> SUFFICES ASSUME line.k \in {"elseif", "else"}
               PROVE  /\ nest' = Append(SubSeq(nest, 1, L - 1), [head |-> line.of, arm |-> N + 1])
                      /\ unit[nest[L].arm].k # "else"
    OBVIOUS
  <2>1. nest # <<>>
    BY <1>11 DEF Arms
  <2>2. Last(nest) = nest[L] /\ Front(nest) = SubSeq(nest, 1, L - 1) /\ nest[L].arm \in Lines
    BY <1>3, <1>4, <2>1
  <2> QED BY <1>1, <1>6, <1>10, <2>2
<1>14. line.k = "endif" => nest' = SubSeq(nest, 1, L - 1)
  BY <1>4, <1>6, <1>10, <1>11 DEF Arms
<1> QED BY <1>5, <1>6, <1>10, <1>11, <1>12, <1>13, <1>14 DEF NewLine

(* The open loops and blocks lie in each other.                              *)
LEMMA HeadsRise ==
  ASSUME UnitInv, NEW i \in 1..(Len(unit) + 1)
  PROVE  /\ \A m \in 1..Len(Open(i)) : /\ Open(i)[m].head \in 1..Open(i)[m].arm /\ Open(i)[m].arm \in 1..(i - 1)
                                       /\ unit[Open(i)[m].head].k \in {"do", "if"}
         /\ \A m \in 1..Len(Open(i)) : \A n \in 1..(m - 1) : Open(i)[n].head < Open(i)[m].head
         /\ \A m, n \in 1..Len(Open(i)) : Open(i)[n].head = Open(i)[m].head => m = n
<1>1. Lines = 1..Len(unit) /\ Len(unit) \in Nat /\ Open(i) \in Seq(Entry) /\ Len(Open(i)) \in Nat
  BY UnitTypes DEF UnitInv
<1> DEFINE s == Open(i)
<1>2. \A m \in 1..Len(s) : s[m].arm < i /\ OpenOK(s, m)
  BY DEF UnitInv, Stacks, StackOK
<1> HIDE DEF s
<1>3. \A m \in 1..Len(s) : s[m].arm < i /\ s[m].head \in 1..Len(unit) /\ s[m].arm \in 1..Len(unit) /\ s[m].head <= s[m].arm
                           /\ unit[s[m].head].k \in {"do", "if"}
  BY <1>1, <1>2 DEF OpenOK
<1>4. \A m \in 1..Len(s) : \A n \in 1..(m - 1) : s[n].arm < s[m].head
  BY <1>2 DEF OpenOK
<1>5. Len(s) \in Nat /\ i \in Nat
  BY <1>1 DEF s
<1>6. ASSUME NEW m \in 1..Len(s), NEW n \in 1..(m - 1) PROVE s[n].head < s[m].head
  <2>1. n \in 1..Len(s)
    BY <1>5
  <2>2. s[n].arm < s[m].head /\ s[n].head <= s[n].arm /\ s[n].head \in Nat /\ s[n].arm \in Nat /\ s[m].head \in Nat
    BY <1>1, <1>3, <1>4, <2>1
  <2> QED BY <2>2
<1>7. ASSUME NEW m \in 1..Len(s), NEW n \in 1..Len(s), s[n].head = s[m].head PROVE m = n
  <2>1. n \in 1..(m - 1) \/ m \in 1..(n - 1) \/ m = n
    BY <1>5
  <2>2. s[n].head \in Nat /\ s[m].head \in Nat
    BY <1>1, <1>3
  <2> QED BY <1>6, <1>7, <2>1, <2>2
<1>8. \A m \in 1..Len(s) : s[m].head \in 1..s[m].arm /\ s[m].arm \in 1..(i - 1) /\ unit[s[m].head].k \in {"do", "if"}
  <2> SUFFICES ASSUME NEW m \in 1..Len(s)
               PROVE  s[m].head \in 1..s[m].arm /\ s[m].arm \in 1..(i - 1) /\ unit[s[m].head].k \in {"do", "if"}
    OBVIOUS
  <2>1. s[m].arm < i /\ s[m].head \in 1..Len(unit) /\ s[m].arm \in 1..Len(unit) /\ s[m].head <= s[m].arm
        /\ unit[s[m].head].k \in {"do", "if"}
    BY <1>3
  <2> QED BY <1>1, <2>1, <1>5
<1> QED BY <1>6, <1>7, <1>8 DEF s

(* The innermost n stay open.                                                *)
Keeps(N, line, n) ==
  LET L == Len(nest) IN
  /\ n \in 0..L /\ L \in Nat /\ Len(nest') \in Nat
  /\ \A m \in 1..n : nest'[m] = nest[m] /\ SubSeq(nest', 1, m - 1) = SubSeq(nest, 1, m - 1)
  /\ SubSeq(nest', 1, n) = SubSeq(nest, 1, n)
  /\ line.k \in Openers => Len(nest') = n + 1 /\ nest'[n + 1].arm = N + 1
  /\ line.k \notin Openers => Len(nest') = n
  /\ line.k \in {"do", "if"} => n = L /\ nest'[n + 1].head = N + 1
  /\ line.k \in {"elseif", "else"} => nest'[n + 1].head = line.of /\ unit[nest[L].arm].k # "else"
  /\ line.k \in Arms => n = L - 1 /\ L > 0 /\ line.of = nest[L].head
  /\ line.k \notin Openers \cup {"endif"} => Ends(N + 1)' = {nest[m].head : m \in (n + 1)..L}
(* A new line leaves the outermost loops and blocks open.                   *)
LEMMA KeepsSome ==
  ASSUME UnitInv, NEW N, NEW line \in LineType, Grows(N, line), NewLine(N, line)
  PROVE  \E n : Keeps(N, line, n)
<1> DEFINE L == Len(nest)
<1>1. nest \in Seq(Entry) /\ L \in Nat /\ nest' \in Seq(Entry) /\ Len(nest') \in Nat /\ N \in Nat
  BY UnitTypes DEF UnitInv, UnitType, Grows
<1>2. ASSUME NEW n \in 0..L, NEW e \in Entry, nest' = Append(SubSeq(nest, 1, n), e)
      PROVE  /\ \A m \in 1..n : nest'[m] = nest[m] /\ SubSeq(nest', 1, m - 1) = SubSeq(nest, 1, m - 1)
             /\ SubSeq(nest', 1, n) = SubSeq(nest, 1, n)
             /\ Len(nest') = n + 1 /\ nest'[n + 1] = e
  <2> DEFINE p == SubSeq(nest, 1, n)
  <2>1. /\ p \in Seq(Entry) /\ Len(p) = n /\ SubSeq(p, 1, n) = p
        /\ \A k \in 1..n : p[k] = nest[k]
        /\ \A m \in 0..n : SubSeq(p, 1, m) = SubSeq(nest, 1, m)
    <3>1. p \in Seq(Entry) /\ Len(p) = n /\ (\A k \in 1..n : p[k] = nest[k])
          /\ (\A m \in 0..n : SubSeq(p, 1, m) = SubSeq(nest, 1, m))
      BY <1>1, Prefix
    <3> QED BY <1>1, <3>1
  <2> HIDE DEF p
  <2>2. nest' = Append(p, e)
    BY <1>2 DEF p
  <2>3. /\ Len(Append(p, e)) = n + 1 /\ Append(p, e)[n + 1] = e
        /\ \A k \in 1..n : Append(p, e)[k] = p[k]
        /\ \A m \in 0..n : SubSeq(Append(p, e), 1, m) = SubSeq(p, 1, m)
    BY <2>1, Added
  <2>4. SubSeq(nest', 1, n) = p
    BY <1>1, <2>1, <2>2, <2>3
  <2>5. ASSUME NEW m \in 1..n PROVE nest'[m] = nest[m] /\ SubSeq(nest', 1, m - 1) = SubSeq(nest, 1, m - 1)
    <3>1. m - 1 \in 0..n
      BY <1>1
    <3> QED BY <2>1, <2>2, <2>3, <3>1
  <2> QED BY <2>2, <2>3, <2>4, <2>5 DEF p
<1>3. ASSUME NEW n \in 0..L, nest' = SubSeq(nest, 1, n)
      PROVE  /\ \A m \in 1..n : nest'[m] = nest[m] /\ SubSeq(nest', 1, m - 1) = SubSeq(nest, 1, m - 1)
             /\ SubSeq(nest', 1, n) = SubSeq(nest, 1, n)
             /\ Len(nest') = n
  <2>1. Len(nest') = n /\ (\A k \in 1..n : nest'[k] = nest[k])
        /\ \A m \in 0..n : SubSeq(nest', 1, m) = SubSeq(nest, 1, m)
    BY <1>1, <1>3, Prefix
  <2>2. \A m \in 1..n : m - 1 \in 0..n
    BY <1>1
  <2>3. n \in 0..n
    BY <1>1
  <2> QED BY <2>1, <2>2, <2>3
<1>4. CASE line.k \in {"do", "if"}
  <2>1. nest' = Append(nest, [head |-> N + 1, arm |-> N + 1]) /\ SubSeq(nest, 1, L) = nest
    BY <1>1, <1>4 DEF NewLine
  <2>2. nest' = Append(SubSeq(nest, 1, L), [head |-> N + 1, arm |-> N + 1]) /\ L \in 0..L
        /\ [head |-> N + 1, arm |-> N + 1] \in Entry
    BY <1>1, <2>1 DEF Entry
  <2>3. Keeps(N, line, L)
    BY <1>1, <1>2, <1>4, <2>2 DEF Keeps, Openers, Arms
  <2> QED BY <2>3
<1>5. CASE line.k \in {"elseif", "else"}
  <2>1. /\ nest' = Append(SubSeq(nest, 1, L - 1), [head |-> line.of, arm |-> N + 1])
        /\ L \in Nat \ {0} /\ line.of = nest[L].head /\ unit[nest[L].arm].k # "else"
    BY <1>5 DEF NewLine, Arms
  <2>2. L - 1 \in 0..L /\ L > 0 /\ L - 1 + 1 = L
    BY <2>1
  <2>3. [head |-> line.of, arm |-> N + 1] \in Entry
    <3>1. line.of \in Nat
      BY DEF LineType
    <3> QED BY <1>1, <3>1 DEF Entry
  <2>4. /\ \A m \in 1..(L - 1) : nest'[m] = nest[m] /\ SubSeq(nest', 1, m - 1) = SubSeq(nest, 1, m - 1)
        /\ SubSeq(nest', 1, L - 1) = SubSeq(nest, 1, L - 1)
        /\ Len(nest') = L - 1 + 1 /\ nest'[L - 1 + 1] = [head |-> line.of, arm |-> N + 1]
    BY <1>2, <2>1, <2>2, <2>3
  <2>5. PICK n : n = L - 1
    OBVIOUS
  <2>6. /\ \A m \in 1..n : nest'[m] = nest[m] /\ SubSeq(nest', 1, m - 1) = SubSeq(nest, 1, m - 1)
        /\ SubSeq(nest', 1, n) = SubSeq(nest, 1, n)
        /\ Len(nest') = n + 1 /\ nest'[n + 1].arm = N + 1 /\ nest'[n + 1].head = line.of
        /\ n \in 0..L /\ L > 0
    BY <2>2, <2>4, <2>5
  <2>7. Keeps(N, line, n)
    BY <1>1, <1>5, <2>1, <2>5, <2>6 DEF Keeps, Openers, Arms
  <2> QED BY <2>7
<1>6. CASE line.k = "endif"
  <2>1. nest' = SubSeq(nest, 1, L - 1) /\ L \in Nat \ {0} /\ line.of = nest[L].head
    BY <1>6 DEF NewLine, Arms
  <2>2. L - 1 \in 0..L /\ L > 0
    BY <2>1
  <2>3. Keeps(N, line, L - 1)
    BY <1>1, <1>3, <1>6, <2>1, <2>2 DEF Keeps, Openers, Arms
  <2> QED BY <2>3
<1>7. CASE line.k \notin Openers \cup {"endif"}
  <2>1. PICK n \in 0..L : nest' = SubSeq(nest, 1, n) /\ Ends(N + 1)' = {nest[m].head : m \in (n + 1)..L}
    BY <1>7 DEF NewLine
  <2>2. Keeps(N, line, n)
    BY <1>1, <1>3, <1>7, <2>1 DEF Keeps, Openers, Arms
  <2> QED BY <2>2
<1> QED BY <1>4, <1>5, <1>6, <1>7 DEF Openers

(* What is open after the line, and what ends with it.                       *)
LEMMA OpenAfter ==
  ASSUME UnitInv, NEW N, NEW line \in LineType, Grows(N, line), NewLine(N, line), NEW n, Keeps(N, line, n)
  PROVE  /\ \A h \in 1..N : IsOpen(h)' <=> /\ IsOpen(h)
                                           /\ line.k = "endif" => h # line.of
                                           /\ h \notin Ends(N + 1)'
         /\ IsOpen(N + 1)' <=> line.k \in {"do", "if"}
         /\ \A h \in Ends(N + 1)' : IsOpen(h)
         /\ N + 1 \notin Ends(N + 1)'
         /\ line.k \in Arms => IsOpen(line.of)
<1> DEFINE L == Len(nest)
<1>1. Len(nest) \in Nat /\ N \in Nat /\ n \in 0..L /\ N = Len(unit) /\ Open(N + 1) = nest /\ N + 1 \in 1..(Len(unit) + 1)
  BY UnitTypes DEF UnitInv, Keeps, Grows
<1>2. /\ \A m \in 1..L : nest[m].head \in 1..N /\ unit[nest[m].head].k \in {"do", "if"}
      /\ \A m, q \in 1..L : nest[q].head = nest[m].head => m = q
  <2>1. PICK w : w = N + 1 /\ w \in 1..(Len(unit) + 1)
    BY <1>1
  <2>2. /\ \A m \in 1..Len(Open(w)) : /\ Open(w)[m].head \in 1..Open(w)[m].arm /\ Open(w)[m].arm \in 1..(w - 1)
                                       /\ unit[Open(w)[m].head].k \in {"do", "if"}
        /\ \A m, q \in 1..Len(Open(w)) : Open(w)[q].head = Open(w)[m].head => m = q
    <3>1. UnitInv
      OBVIOUS
    <3>2. w \in 1..(Len(unit) + 1)
      BY <2>1
    <3> QED BY ONLY <3>1, <3>2, HeadsRise, Zenon
  <2>3. Open(w) = nest
    BY <1>1, <2>1
  <2>4. /\ \A m \in 1..L : /\ nest[m].head \in 1..nest[m].arm /\ nest[m].arm \in 1..(w - 1)
                           /\ unit[nest[m].head].k \in {"do", "if"}
        /\ \A m, q \in 1..L : nest[q].head = nest[m].head => m = q
    BY ONLY <2>2, <2>3
  <2>5. \A h : \A a \in 1..(w - 1) : h \in 1..a => h \in 1..N
    BY ONLY <1>1, <2>1
  <2>6. \A m \in 1..L : nest[m].head \in 1..N
    BY ONLY <2>4, <2>5
  <2> QED BY ONLY <2>4, <2>6
<1>3. /\ \A m \in 1..n : nest'[m] = nest[m]
      /\ line.k \in Openers => Len(nest') = n + 1
      /\ line.k \notin Openers => Len(nest') = n
      /\ line.k \in {"do", "if"} => n = L /\ nest'[n + 1].head = N + 1
      /\ line.k \in {"elseif", "else"} => nest'[n + 1].head = line.of
      /\ line.k \in Arms => n = L - 1 /\ L > 0 /\ line.of = nest[L].head
      /\ line.k \notin Openers \cup {"endif"} => Ends(N + 1)' = {nest[m].head : m \in (n + 1)..L}
      /\ line.k \in Openers \cup {"endif"} => Ends(N + 1)' = {}
  BY DEF Keeps, NewLine
<1>4. \A h : IsOpen(h) <=> \E m \in 1..L : nest[m].head = h
  BY DEF IsOpen
<1>5. \A h : IsOpen(h)' <=> \E m \in 1..Len(nest') : nest'[m].head = h
  BY DEF IsOpen
<1>6. PICK E : E = Ends(N + 1)'
  OBVIOUS
<1>7. \A h \in E : h \in 1..N /\ IsOpen(h)
  BY <1>1, <1>2, <1>3, <1>4, <1>6
<1>8. line.k \in Arms => IsOpen(line.of)
  BY <1>1, <1>3, <1>4
<1> DEFINE In1(h) == \E m \in 1..n : nest[m].head = h
           In2(h) == \E m \in (n + 1)..L : nest[m].head = h
           Now1(h) == \E m \in 1..Len(nest') : nest'[m].head = h
<1>20. \A h : IsOpen(h) <=> In1(h) \/ In2(h)
  <2>1. 1..L = 1..n \cup (n + 1)..L
    BY <1>1
  <2> QED BY <1>4, <2>1
<1>21. \A h : ~ (In1(h) /\ In2(h))
  <2>1. \A m \in 1..n : \A q \in (n + 1)..L : m \in 1..L /\ q \in 1..L /\ m # q
    BY <1>1
  <2> QED BY <1>2, <2>1
<1>22. line.k \in Openers => \A h : Now1(h) <=> In1(h) \/ h = nest'[n + 1].head
  <2>1. 1..(n + 1) = 1..n \cup {n + 1}
    BY <1>1
  <2> QED BY <1>3, <2>1
<1>23. line.k \notin Openers => \A h : Now1(h) <=> In1(h)
  BY <1>3
<1>24. \A h : IsOpen(h)' <=> Now1(h)
  BY <1>5
<1>25. n = L - 1 /\ L > 0 => \A h : In2(h) <=> h = nest[L].head
  BY <1>1
<1>26. n = L => \A h : ~ In2(h)
  BY <1>1
<1>27. line.k \notin Openers \cup {"endif"} => \A h : h \in E <=> In2(h)
  BY <1>3, <1>6
<1>28. \A h : IsOpen(h) => h \in 1..N
  BY <1>2, <1>4
<1>29. line.k \in Openers \cup {"endif"} => E = {}
  BY <1>3, <1>6
<1>30. N + 1 \notin 1..N
  BY <1>1
<1> HIDE DEF In1, In2, Now1
<1>9. CASE line.k \in {"do", "if"}
  <2>1. /\ \A h \in 1..N : IsOpen(h)' <=> IsOpen(h)
        /\ IsOpen(N + 1)' /\ E = {}
    BY <1>3, <1>9, <1>20, <1>22, <1>24, <1>26, <1>28, <1>29, <1>30 DEF Openers
  <2> QED BY <1>1, <1>6, <1>7, <1>8, <1>9, <2>1
<1>10. CASE line.k \in {"elseif", "else"}
  <2>1. /\ \A h \in 1..N : IsOpen(h)' <=> IsOpen(h)
        /\ ~ IsOpen(N + 1)' /\ E = {}
    BY <1>3, <1>10, <1>20, <1>22, <1>24, <1>25, <1>28, <1>29, <1>30 DEF Openers, Arms
  <2> QED BY <1>1, <1>6, <1>7, <1>8, <1>10, <2>1
<1>11. CASE line.k = "endif"
  <2>1. /\ \A h \in 1..N : IsOpen(h)' <=> IsOpen(h) /\ h # line.of
        /\ ~ IsOpen(N + 1)' /\ E = {}
    BY <1>3, <1>11, <1>20, <1>21, <1>23, <1>24, <1>25, <1>28, <1>29, <1>30 DEF Openers, Arms
  <2> QED BY <1>1, <1>6, <1>7, <1>8, <1>11, <2>1
<1>12. CASE line.k \notin Openers \cup {"endif"}
  <2>1. /\ \A h \in 1..N : IsOpen(h)' <=> IsOpen(h) /\ h \notin E
        /\ ~ IsOpen(N + 1)'
    BY <1>12, <1>20, <1>21, <1>23, <1>24, <1>27, <1>28, <1>30 DEF Openers, Arms
  <2> QED BY <1>1, <1>6, <1>7, <1>8, <1>12, <2>1 DEF Openers
<1> QED BY <1>9, <1>10, <1>11, <1>12 DEF Openers

(* What is open after a new line is in order.                               *)
LEMMA StackAfter ==
  ASSUME UnitInv, NEW N, NEW line \in LineType, Grows(N, line), NewLine(N, line), NEW n, Keeps(N, line, n),
         line.k = "do" => \A i \in 1..N : unit[i].lab # line.to[1]
  PROVE  StackOK(N + 2)'
<1> DEFINE L == Len(nest)
<1>0. PICK s : s = nest'
  OBVIOUS
<1>1. /\ nest \in Seq(Entry) /\ L \in Nat /\ N \in Nat /\ n \in 0..L /\ N = Len(unit) /\ Open(N + 1) = nest
      /\ N + 1 \in 1..(Len(unit) + 1) /\ Lines = 1..N /\ Lines' = 1..(N + 1) /\ Open(N + 2)' = nest'
      /\ unit'[N + 1] = line /\ line.open = nest
      /\ \A i \in Lines : unit'[i] = unit[i] /\ i \in Lines'
  <2>1. N \in Nat /\ Lines = 1..N /\ nest \in Seq(Entry) /\ Open(N + 1) = nest
    BY UnitTypes DEF UnitInv, UnitType, Grows
  <2> QED BY <2>1 DEF Grows, Keeps
<1>2. \A m \in 1..L : nest[m].arm < N + 1 /\ OpenOK(nest, m) /\ Latest(nest[m], N + 1)
  BY <1>1 DEF UnitInv, Stacks, StackOK
<1>10. \A j \in 1..N : Ends(j)' = Ends(j) /\ Ends(j) \subseteq Lines /\ unit[j].of # N + 1
  BY <1>1, EndsKept DEF Ends
<1>11. /\ \A h \in 1..N : IsOpen(h)' => (line.k = "endif" => h # line.of) /\ h \notin Ends(N + 1)'
       /\ N + 1 \notin Ends(N + 1)'
  BY OpenAfter
<1>12. /\ line.k = "enddo" => unit[line.of].k = "do"
       /\ line.k \notin Arms \cup {"enddo"} => line.of = 0
  BY DEF NewLine
<1>3. /\ \A m \in 1..n : s[m] = nest[m] /\ SubSeq(s, 1, m - 1) = SubSeq(nest, 1, m - 1)
      /\ SubSeq(s, 1, n) = SubSeq(nest, 1, n)
      /\ line.k \in Openers => Len(s) = n + 1 /\ s[n + 1].arm = N + 1
      /\ line.k \notin Openers => Len(s) = n
      /\ line.k \in {"do", "if"} => n = L /\ s[n + 1].head = N + 1
      /\ line.k \in {"elseif", "else"} => s[n + 1].head = line.of
      /\ line.k \in Arms => n = L - 1 /\ L > 0 /\ line.of = nest[L].head
  BY <1>0 DEF Keeps
<1>13. \A m, q \in 1..L : nest[q].head = nest[m].head => m = q
  BY <1>1, HeadsRise
<1>4. ASSUME NEW m \in 1..n PROVE s[m].arm < N + 2 /\ OpenOK(s, m)' /\ Latest(s[m], N + 2)'
  <2> DEFINE h == nest[m].head
             a == nest[m].arm
  <2>0. m \in 1..L /\ \A j \in 1..(m - 1) : j \in 1..n
    BY <1>1
  <2>1. m \in 1..L /\ s[m] = nest[m] /\ SubSeq(s, 1, m - 1) = SubSeq(nest, 1, m - 1) /\ \A j \in 1..(m - 1) : s[j] = nest[j]
    <3>1. s[m] = nest[m] /\ SubSeq(s, 1, m - 1) = SubSeq(nest, 1, m - 1)
      BY <1>3
    <3> QED BY <1>3, <2>0, <3>1
  <2>2. a < N + 1 /\ OpenOK(nest, m)
    BY <1>2, <2>1
  <2>3. h \in Lines /\ a \in Lines /\ unit'[h] = unit[h] /\ unit'[a] = unit[a] /\ h \in Lines' /\ a \in Lines'
    BY <1>1, <2>2 DEF OpenOK
  <2>4. OpenOK(s, m)'
    BY <2>1, <2>2, <2>3 DEF OpenOK
  <2>5. m \in 1..Len(s)
    BY <1>1, <1>3
  <2>14. PICK d : d = h
    OBVIOUS
  <2>6. d \in 1..N /\ d # 0 /\ IsOpen(d)'
    <3>1. nest'[m].head = d /\ m \in 1..Len(nest')
      BY <1>0, <2>1, <2>5, <2>14
    <3> QED BY <1>1, <2>3, <2>14, <3>1 DEF IsOpen
  <2>7. d \notin Ends(N + 1)'
    BY <1>11, <2>6
  <2>8. line.of = h /\ unit[h].k = "if" => FALSE
    <3> SUFFICES ASSUME line.of = h, unit[h].k = "if" PROVE FALSE
      OBVIOUS
    <3>1. line.k \in Arms
      BY <1>12, <2>6, <2>14
    <3>2. n = L - 1 /\ L \in 1..L /\ nest[L].head = nest[m].head
      BY <1>1, <1>3, <3>1
    <3>3. m = L
      BY <1>13, <2>1, <3>2
    <3> QED BY <1>1, <3>2, <3>3
  <2>9. Latest(nest[m], N + 1)
    BY <1>2, <2>1
  <2>10. ASSUME NEW j \in 1..(N + 1)
         PROVE  h \notin Ends(j)' /\ (unit'[j].of = h /\ unit'[h].k = "if" => j <= a /\ unit'[j].k # "endif")
    <3>1. CASE j \in 1..N
      <4>1. h \notin Ends(j) /\ (unit[j].of = h /\ unit[h].k = "if" => j <= a /\ unit[j].k # "endif")
        <5>1. j \in Lines /\ j < N + 1
          BY <1>1, <3>1
        <5> QED BY <2>9, <5>1 DEF Latest
      <4> QED BY <1>1, <1>10, <2>3, <3>1, <4>1
    <3>2. CASE j = N + 1
      BY <1>1, <2>3, <2>7, <2>8, <2>14, <3>2
    <3> QED BY <1>1, <3>1, <3>2
  <2>11. Latest(s[m], N + 2)'
    <3>1. Lines' = 1..(N + 1)
      BY <1>1
    <3>2. PICK x : x = s[m]
      OBVIOUS
    <3>3. x.head = h /\ x.arm = a
      BY <2>1, <3>2
    <3>4. Latest(x, N + 2)'
      BY <2>10, <3>1, <3>3 DEF Latest
    <3> QED BY <3>2, <3>4
  <2> QED BY <1>1, <2>1, <2>2, <2>3, <2>4, <2>11
<1>5. ASSUME line.k \in Openers PROVE s[n + 1].arm < N + 2 /\ OpenOK(s, n + 1)' /\ Latest(s[n + 1], N + 2)'
  <2>1. \A j \in 1..n : s[j] = nest[j] /\ j \in 1..L
    BY <1>1, <1>3
  <2>2. n + 1 - 1 = n /\ N + 1 < N + 2 /\ s[n + 1].arm = N + 1 /\ N + 1 \in Lines'
    BY <1>1, <1>3, <1>5
  <2>10. PICK x : x = s[n + 1]
    OBVIOUS
  <2>11. Ends(N + 1)' = {} /\ Lines' = 1..(N + 1)
    BY <1>1, <1>5 DEF NewLine
  <2>3. CASE line.k \in {"do", "if"}
    <3>9. x.head = N + 1 /\ x.arm = N + 1
      BY <1>3, <2>2, <2>3, <2>10
    <3>10. ASSUME NEW j \in 1..(N + 1)
           PROVE  x.head \notin Ends(j)' /\ (unit'[j].of = x.head => j <= x.arm /\ unit'[j].k # "endif")
      <4>1. CASE j \in 1..N
        BY <1>1, <1>10, <3>9, <4>1
      <4>2. CASE j = N + 1
        BY <1>1, <1>5, <2>11, <3>9, <4>2 DEF Openers
      <4> QED BY <1>1, <4>1, <4>2
    <3>11. Latest(x, N + 2)'
      BY <2>11, <3>10 DEF Latest
    <3>1. SubSeq(s, 1, n) = nest /\ s[n + 1].head = N + 1
      BY <1>1, <1>3, <2>3, Prefix
    <3>2. \A j \in 1..n : s[j].arm < N + 1
      BY <1>2, <2>1
    <3>3. OpenOK(s, n + 1)'
      BY <1>1, <2>2, <2>3, <3>1, <3>2 DEF OpenOK
    <3> QED BY <1>1, <2>2, <2>10, <3>3, <3>11
  <2>4. CASE line.k \in {"elseif", "else"}
    <3>1. n = L - 1 /\ L \in 1..L /\ s[n + 1].head = nest[L].head /\ nest[L].head = line.of
      BY <1>1, <1>3, <2>4 DEF Arms
    <3>2. PICK h : h = nest[L].head
      OBVIOUS
    <3>3. OpenOK(nest, L)
      BY <1>2, <3>1
    <3>4. /\ h \in Lines /\ (\A j \in 1..n : nest[j].arm < h) /\ unit[h].open = SubSeq(nest, 1, n)
      BY <3>1, <3>2, <3>3 DEF OpenOK
    <3>5. unit[h].k = "if"
      BY <2>4, <3>1, <3>2 DEF NewLine, Arms
    <3>6. h \in Lines' /\ unit'[h] = unit[h] /\ h <= N + 1
      BY <1>1, <3>4
    <3>7. SubSeq(s, 1, n) = unit'[h].open
      BY <1>3, <3>4, <3>6
    <3>8. \A j \in 1..n : s[j].arm < h
      BY <2>1, <3>4
    <3>9. OpenOK(s, n + 1)'
      BY <1>1, <2>2, <2>4, <3>1, <3>2, <3>5, <3>6, <3>7, <3>8 DEF OpenOK
    <3>10. x.head = h /\ x.arm = N + 1
      BY <2>2, <2>10, <3>1, <3>2
    <3>11. Latest(nest[L], N + 1) /\ h \in 1..N
      BY <1>1, <1>2, <3>1, <3>4
    <3>12. ASSUME NEW j \in 1..(N + 1)
           PROVE  h \notin Ends(j)' /\ (unit'[j].of = h => j <= N + 1 /\ unit'[j].k # "endif")
      <4>1. CASE j \in 1..N
        <5>1. h \notin Ends(j) /\ (unit[j].of = h => unit[j].k # "endif")
          <6>1. j \in Lines /\ j < N + 1
            BY <1>1, <4>1
          <6> QED BY <3>2, <3>5, <3>11, <6>1 DEF Latest
        <5> QED BY <1>1, <1>10, <4>1, <5>1
      <4>2. CASE j = N + 1
        BY <1>1, <1>5, <2>11, <4>2 DEF Openers
      <4> QED BY <1>1, <4>1, <4>2
    <3>13. Latest(x, N + 2)'
      BY <2>11, <3>10, <3>12 DEF Latest
    <3> QED BY <1>1, <2>2, <2>10, <3>9, <3>13
  <2> QED BY <1>5, <2>3, <2>4 DEF Openers
<1>6. 1..Len(s) = 1..n \/ (1..Len(s) = 1..n \cup {n + 1} /\ line.k \in Openers)
  BY <1>1, <1>3
<1>7. \A m \in 1..Len(s) : s[m].arm < N + 2 /\ OpenOK(s, m)' /\ Latest(s[m], N + 2)'
  BY <1>4, <1>5, <1>6
<1>8. Open(N + 2)' = s
  BY <1>0, <1>1
<1> QED BY <1>7, <1>8 DEF StackOK

(* After a new line every loop is open or has one end.                      *)
LEMMA LoopsAfter ==
  ASSUME UnitInv, NEW N, NEW line \in LineType, Grows(N, line), NewLine(N, line), NEW n, Keeps(N, line, n),
         line.k = "do" => \A i \in 1..N : unit[i].lab # line.to[1]
  PROVE  LoopsEnd'
<1>1. /\ N \in Nat /\ Lines = 1..N /\ Lines' = 1..(N + 1) /\ unit'[N + 1] = line
      /\ \A i \in 1..N : unit'[i] = unit[i]
  <2>1. N \in Nat /\ Lines = 1..N
    BY UnitTypes DEF UnitInv, Grows
  <2> QED BY <2>1 DEF Grows
<1>2. \A i \in 1..N : Ends(i)' = Ends(i)
  BY EndsKept
<1>3. \A i \in 1..N : Ends(i) \subseteq 1..N
  BY <1>1 DEF Ends
<1>4. /\ \A h \in 1..N : IsOpen(h)' <=> /\ IsOpen(h)
                                        /\ line.k = "endif" => h # line.of
                                        /\ h \notin Ends(N + 1)'
      /\ IsOpen(N + 1)' <=> line.k \in {"do", "if"}
      /\ \A h \in Ends(N + 1)' : IsOpen(h)
      /\ N + 1 \notin Ends(N + 1)'
  BY OpenAfter
<1>5. line.k = "endif" => unit[line.of].k = "if"
  BY DEF NewLine, Arms
<1>6. \A i \in 1..(N + 1) : i \in 1..N \/ i = N + 1
  BY <1>1
<1> SUFFICES ASSUME NEW d \in 1..(N + 1), unit'[d].k = "do" PROVE LoopOK(d)'
  BY <1>1 DEF LoopsEnd
<1>7. PICK e : e = [i \in 1..(N + 1) |-> Ends(i)']
  OBVIOUS
<1>8. (\A i \in 1..N : e[i] = Ends(i)) /\ e[N + 1] = Ends(N + 1)' /\ N + 1 \in 1..(N + 1) /\ 1..N \subseteq 1..(N + 1)
      /\ \A i \in 1..(N + 1) : e[i] = Ends(i)'
  BY <1>1, <1>2, <1>7
<1>9. \/ IsOpen(d)' /\ \A i \in 1..(N + 1) : d \notin e[i]
      \/ ~ IsOpen(d)' /\ \E t \in 1..(N + 1) : d < t /\ \A i \in 1..(N + 1) : d \in e[i] <=> i = t
  <2>1. CASE d = N + 1
    <3>1. IsOpen(d)' /\ \A i \in 1..N : d \notin e[i]
      BY <1>1, <1>3, <1>4, <1>8, <2>1
    <3> QED BY <1>4, <1>6, <1>8, <2>1, <3>1
  <2>2. CASE d \in 1..N
    <3>1. LoopOK(d) /\ unit[d].k = "do"
      BY <1>1, <2>2 DEF UnitInv, LoopsEnd
    <3>2. CASE IsOpen(d) /\ d \notin e[N + 1]
      <4>1. IsOpen(d)'
        BY <1>4, <1>5, <1>8, <2>2, <3>1, <3>2
      <4>2. \A i \in 1..N : d \notin e[i]
        BY <1>1, <1>8, <3>1, <3>2 DEF LoopOK
      <4> QED BY <1>6, <1>8, <3>2, <4>1, <4>2
    <3>3. CASE IsOpen(d) /\ d \in e[N + 1]
      <4>1. ~ IsOpen(d)'
        BY <1>4, <1>8, <2>2, <3>3
      <4>2. \A i \in 1..N : d \notin e[i] /\ i # N + 1
        BY <1>1, <1>8, <3>1, <3>3 DEF LoopOK
      <4>3. d < N + 1
        BY <1>1, <2>2
      <4> QED BY <1>6, <1>8, <3>3, <4>1, <4>2, <4>3
    <3>4. CASE ~ IsOpen(d)
      <4>1. ~ IsOpen(d)' /\ d \notin e[N + 1]
        BY <1>4, <1>8, <2>2, <3>4
      <4>2. PICK t \in 1..N : d < t /\ \A i \in 1..N : d \in Ends(i) <=> i = t
        BY <1>1, <3>1, <3>4 DEF LoopOK
      <4>3. t # N + 1 /\ t \in 1..(N + 1)
        BY <1>1
      <4> QED BY <1>6, <1>8, <4>1, <4>2, <4>3
    <3> QED BY <3>2, <3>3, <3>4
  <2> QED BY <1>6, <2>1, <2>2
<1>10. CASE IsOpen(d)' /\ \A i \in 1..(N + 1) : d \notin e[i]
  <2>1. \A i \in Lines' : d \notin Ends(i)'
    BY <1>1, <1>8, <1>10
  <2> QED BY <1>10, <2>1 DEF LoopOK
<1>11. CASE ~ IsOpen(d)' /\ \E t \in 1..(N + 1) : d < t /\ \A i \in 1..(N + 1) : d \in e[i] <=> i = t
  <2>1. PICK t \in Lines' : d < t /\ \A i \in Lines' : d \in Ends(i)' <=> i = t
    BY <1>1, <1>8, <1>11
  <2> QED BY <1>11, <2>1 DEF LoopOK
<1> QED BY <1>9, <1>10, <1>11

(* After a new line every block and every arm is open or has an end.        *)
LEMMA BlocksAfter ==
  ASSUME UnitInv, NEW N, NEW line \in LineType, Grows(N, line), NewLine(N, line), NEW n, Keeps(N, line, n),
         line.k = "do" => \A i \in 1..N : unit[i].lab # line.to[1]
  PROVE  BlocksEnd' /\ ArmsEnd'
<1> DEFINE L == Len(nest)
<1>1. /\ N \in Nat /\ Lines = 1..N /\ Lines' = 1..(N + 1) /\ unit'[N + 1] = line /\ N + 1 \in 1..(N + 1)
      /\ \A i \in 1..N : unit'[i] = unit[i] /\ unit[i].of # N + 1 /\ i \in 1..(N + 1) /\ i # N + 1 /\ i < N + 1
      /\ \A i \in 1..(N + 1) : i \in 1..N \/ i = N + 1
  <2>1. N \in Nat /\ Lines = 1..N
    BY UnitTypes DEF UnitInv, Grows
  <2>2. \A i \in 1..N : unit[i].of # N + 1
    BY EndsKept
  <2>3. /\ \A i \in 1..N : i \in 1..(N + 1) /\ i # N + 1 /\ i < N + 1
        /\ \A i \in 1..(N + 1) : i \in 1..N \/ i = N + 1
    BY <2>1
  <2>4. N + 1 \in 1..(N + 1)
    BY <2>1
  <2> QED BY <2>1, <2>2, <2>3, <2>4 DEF Grows
<1>2. /\ \A h \in 1..N : IsOpen(h)' <=> /\ IsOpen(h)
                                        /\ line.k = "endif" => h # line.of
                                        /\ h \notin Ends(N + 1)'
      /\ IsOpen(N + 1)' <=> line.k \in {"do", "if"}
      /\ line.k \in Arms => IsOpen(line.of)
  BY OpenAfter
<1>3. /\ line.k \in Arms => line.of \in 1..N /\ unit[line.of].k = "if"
      /\ line.k = "enddo" => line.of \in 1..N /\ unit[line.of].k = "do"
      /\ line.k \notin Arms \cup {"enddo"} => line.of = 0
  BY <1>1 DEF NewLine
<1>4. \A h \in 1..N : unit[h].k = "if" => h \notin Ends(N + 1)'
  BY <1>1 DEF Ends
<1>5. \A i \in 1..N : line.of = i /\ unit[i].k = "if" => line.k \in Arms
  <2>1. 0 \notin 1..N
    BY <1>1
  <2> QED BY <1>3, <2>1
<1>6. BlocksEnd'
  <2> SUFFICES ASSUME NEW h \in 1..(N + 1), unit'[h].k = "if" PROVE BlockOK(h)'
    BY <1>1 DEF BlocksEnd
  <2>1. \/ IsOpen(h)' /\ \A i \in 1..(N + 1) : unit'[i].of = h => unit'[i].k # "endif"
        \/ ~ IsOpen(h)' /\ \E e \in 1..(N + 1) : /\ unit'[e].k = "endif" /\ unit'[e].of = h
                                                 /\ \A i \in 1..(N + 1) : unit'[i].of = h => i <= e
    <3>1. CASE h = N + 1
      <4>1. IsOpen(h)' /\ \A i \in 1..N : unit'[i].of # h
        BY <1>1, <1>2, <3>1
      <4>2. line.k = "if"
        BY <1>1, <3>1
      <4> QED BY <1>1, <3>1, <4>1, <4>2
    <3>2. CASE h \in 1..N
      <4>1. BlockOK(h) /\ unit[h].k = "if" /\ h \notin Ends(N + 1)'
        BY <1>1, <1>4, <3>2 DEF UnitInv, BlocksEnd
      <4>2. CASE IsOpen(h) /\ ~ (line.k = "endif" /\ line.of = h)
        <5>1. IsOpen(h)' /\ \A i \in 1..N : unit'[i].of = h => unit'[i].k # "endif"
          BY <1>1, <1>2, <3>2, <4>1, <4>2 DEF BlockOK
        <5> QED BY <1>1, <4>2, <5>1
      <4>3. CASE IsOpen(h) /\ line.k = "endif" /\ line.of = h
        <5>1. ~ IsOpen(h)'
          BY <1>2, <3>2, <4>3
        <5>2. \A i \in 1..(N + 1) : i <= N + 1
          BY <1>1
        <5> QED BY <1>1, <4>3, <5>1, <5>2
      <4>4. CASE ~ IsOpen(h)
        <5>1. ~ IsOpen(h)'
          BY <1>2, <3>2, <4>4
        <5>2. PICK e \in 1..N : unit[e].k = "endif" /\ unit[e].of = h /\ \A i \in 1..N : unit[i].of = h => i <= e
          BY <1>1, <4>1, <4>4 DEF BlockOK
        <5>3. line.of # h
          BY <1>2, <1>5, <3>2, <4>1, <4>4
        <5> QED BY <1>1, <5>1, <5>2, <5>3
      <4> QED BY <4>2, <4>3, <4>4
    <3> QED BY <1>1, <3>1, <3>2
  <2> QED BY <1>1, <2>1 DEF BlockOK
<1>7. /\ n \in 0..L /\ L \in Nat
      /\ \A m \in 1..n : nest'[m] = nest[m]
      /\ line.k \in Openers => Len(nest') = n + 1 /\ nest'[n + 1].arm = N + 1
      /\ line.k \notin Openers => Len(nest') = n
      /\ line.k \in {"do", "if"} => n = L /\ nest'[n + 1].head = N + 1
      /\ line.k \in {"elseif", "else"} => nest'[n + 1].head = line.of /\ unit[nest[L].arm].k # "else"
      /\ line.k \in Arms => n = L - 1 /\ L > 0 /\ line.of = nest[L].head
      /\ line.k \notin Openers \cup {"endif"} => Ends(N + 1)' = {nest[m].head : m \in (n + 1)..L}
  BY DEF Keeps
<1>8. /\ nest \in Seq(Entry) /\ nest' \in Seq(Entry) /\ Open(N + 1) = nest /\ N + 1 \in 1..(Len(unit) + 1)
  BY <1>1, UnitTypes DEF UnitInv, UnitType, Grows
<1>9. /\ \A m \in 1..L : OpenOK(nest, m) /\ nest[m].head \in Lines
      /\ \A m, q \in 1..L : nest[q].head = nest[m].head => m = q
  <2>1. StackOK(N + 1)
    BY <1>8 DEF UnitInv, Stacks
  <2>2. \A m \in 1..L : OpenOK(nest, m)
    BY <1>8, <2>1 DEF StackOK
  <2>3. \A m \in 1..L : nest[m].head \in Lines
    BY <2>2 DEF OpenOK
  <2>4. PICK w : w = N + 1 /\ w \in 1..(Len(unit) + 1) /\ Open(w) = nest
    BY <1>8
  <2>5. \A m, q \in 1..Len(Open(w)) : Open(w)[q].head = Open(w)[m].head => m = q
    <3>1. UnitInv /\ w \in 1..(Len(unit) + 1)
      BY <2>4
    <3> QED BY ONLY <3>1, HeadsRise, Zenon
  <2>6. \A m, q \in 1..L : nest[q].head = nest[m].head => m = q
    BY ONLY <2>4, <2>5
  <2> QED BY ONLY <2>2, <2>3, <2>6
<1>10. ArmsEnd'
  <2> SUFFICES ASSUME NEW a \in 1..(N + 1), unit'[a].k \in {"if", "elseif", "else"} PROVE ArmOK(a)'
    BY <1>1 DEF ArmsEnd
  <2>1. PICK H : H = HeadOf(a)'
    OBVIOUS
  <2>2. \/ /\ \E m \in 1..Len(nest') : nest'[m] = [head |-> H, arm |-> a]
           /\ \A j \in 1..(N + 1) : unit'[j].of = H => j <= a
        \/ \E j \in 1..(N + 1) : /\ a < j /\ unit'[j].of = H /\ unit'[j].k \in Arms
                                 /\ \A m \in (a + 1)..(j - 1) : unit'[m].of # H
                                 /\ unit'[a].k = "else" => unit'[j].k = "endif"
    <3>1. CASE a = N + 1
      <4>1. H = nest'[n + 1].head /\ nest'[n + 1].arm = a /\ Len(nest') = n + 1
        BY <1>1, <1>7, <2>1, <3>1 DEF HeadOf, Openers
      <4>2. n + 1 \in 1..Len(nest')
        BY <1>7, <4>1
      <4>3. nest'[n + 1] \in Entry
        BY <1>8, <4>2
      <4>4. nest'[n + 1] = [head |-> H, arm |-> a]
        BY <4>1, <4>3 DEF Entry
      <4>5. \A j \in 1..(N + 1) : j <= a
        BY <1>1, <3>1
      <4> QED BY <4>2, <4>4, <4>5
    <3>2. CASE a \in 1..N
      <4>1. ArmOK(a) /\ unit'[a] = unit[a] /\ H = HeadOf(a)
        BY <1>1, <2>1, <3>2 DEF UnitInv, ArmsEnd, HeadOf
      <4>2. ASSUME NEW j \in 1..N, a < j, unit[j].of = H, unit[j].k \in Arms,
                   \A m \in (a + 1)..(j - 1) : unit[m].of # H, unit[a].k = "else" => unit[j].k = "endif"
            PROVE  \E i \in 1..(N + 1) : /\ a < i /\ unit'[i].of = H /\ unit'[i].k \in Arms
                                         /\ \A m \in (a + 1)..(i - 1) : unit'[m].of # H
                                         /\ unit'[a].k = "else" => unit'[i].k = "endif"
        <5>1. \A m \in (a + 1)..(j - 1) : m \in 1..N
          BY <1>1, <3>2
        <5>2. \A m \in (a + 1)..(j - 1) : unit'[m].of # H
          BY <1>1, <4>2, <5>1
        <5> QED BY <1>1, <4>1, <4>2, <5>2
      <4>3. ASSUME NEW m \in 1..L, nest[m] = [head |-> H, arm |-> a], \A j \in 1..N : unit[j].of = H => j <= a
            PROVE  <2>2!2 \/ (/\ \E q \in 1..Len(nest') : nest'[q] = [head |-> H, arm |-> a]
                              /\ \A j \in 1..(N + 1) : unit'[j].of = H => j <= a)
        <5>1. nest[m].head = H /\ nest[m].arm = a /\ OpenOK(nest, m) /\ H \in 1..N
          BY <1>1, <1>9, <4>3
        <5>2. unit[H].k = "if"
          BY <4>1, <5>1 DEF OpenOK
        <5>3. CASE m \in 1..n
          <6>1. m \in 1..Len(nest') /\ nest'[m] = nest[m]
            BY <1>7, <5>3
          <6>2. line.of # H
            <7>1. SUFFICES ASSUME line.of = H PROVE FALSE
              OBVIOUS
            <7>2. line.k \in Arms
              BY <1>5, <5>1, <5>2, <7>1
            <7>3. n = L - 1 /\ nest[L].head = nest[m].head /\ L \in 1..L
              BY <1>7, <5>1, <7>1, <7>2
            <7>4. m = L
              BY <1>9, <7>3
            <7> QED BY <1>7, <5>3, <7>3, <7>4
          <6> QED BY <1>1, <4>3, <6>1, <6>2
        <5>4. CASE m \in (n + 1)..L
          <6>1. line.k \in Arms
            <7>1. line.k \notin {"do", "if"}
              BY <1>7, <5>4
            <7>2. nest[m].head \notin Ends(N + 1)'
              BY <1>4, <5>1, <5>2
            <7> QED BY <1>7, <5>4, <7>1, <7>2 DEF Openers, Arms
          <6>2. n = L - 1 /\ m = L
            BY <1>7, <5>4, <6>1
          <6>3. line.of = H /\ a < N + 1
            BY <1>1, <1>7, <3>2, <5>1, <6>1, <6>2
          <6>4. ASSUME NEW q \in (a + 1)..(N + 1 - 1) PROVE unit'[q].of # H
            <7>1. q \in 1..N /\ ~ (q <= a)
              BY <1>1, <3>2, <6>4
            <7> QED BY <1>1, <4>3, <7>1
          <6>5. unit[a].k = "else" => line.k = "endif"
            BY <1>7, <5>1, <6>1, <6>2 DEF Arms
          <6> QED BY <1>1, <4>1, <6>1, <6>3, <6>4, <6>5
        <5> QED BY <1>7, <5>3, <5>4
      <4> QED BY <1>1, <4>1, <4>2, <4>3 DEF ArmOK
    <3> QED BY <1>1, <3>1, <3>2
  <2> QED BY <1>1, <2>1, <2>2 DEF ArmOK
<1> QED BY <1>6, <1>10

(* A line that fits keeps UnitInv.                                           *)
Fits(N, line) ==
  /\ Grows(N, line) /\ Follows(N + 1)' /\ LabelsOK(N + 1)'
  /\ line.k = "do" => \A i \in 1..N : unit[i].lab # line.to[1]
  /\ assigned' \in {assigned, Append(assigned, line.to[1])}
  /\ assigned' # assigned => line.k = "assign"
  /\ phase' = IF line.k = "end" THEN "emit" ELSE "read"
(* A line that fits keeps the unit legal as far as it has been read.        *)
LEMMA Reads ==
  ASSUME UnitInv, phase = "read", NEW N, NEW line \in LineType, Fits(N, line), line.k = "end" => Complete'
  PROVE  UnitInv'
<1>1. Grows(N, line) /\ NewLine(N, line)
  BY NewLineIs DEF Fits
<1>2. PICK n : Keeps(N, line, n)
  BY <1>1, KeepsSome
<1>3. /\ N \in Nat /\ Lines = 1..N /\ Lines' = 1..(N + 1) /\ unit'[N + 1] = line /\ N = Len(unit) /\ Len(unit') = N + 1
      /\ \A i \in 1..N : unit'[i] = unit[i]
      /\ \A i \in 1..(N + 1) : i \in 1..N \/ i = N + 1
      /\ unit \in Seq(LineType)
  <2>1. N \in Nat /\ Lines = 1..N
    BY <1>1, UnitTypes DEF UnitInv, Grows
  <2>2. \A i \in 1..(N + 1) : i \in 1..N \/ i = N + 1
    BY <2>1
  <2> QED BY <1>1, <2>1, <2>2 DEF Grows, UnitInv, UnitType
<1>4. /\ \A i \in 1..(N + 1) : StackOK(i)'
      /\ \A i \in 1..N : Follows(i)' /\ LabelsOK(i)'
  BY <1>1, LinesKept DEF Fits
<1>5. StackOK(N + 2)' /\ LoopsEnd' /\ BlocksEnd' /\ ArmsEnd'
  <2>1. StackOK(N + 2)'
    BY <1>1, <1>2, StackAfter DEF Fits
  <2>2. LoopsEnd'
    BY <1>1, <1>2, LoopsAfter DEF Fits
  <2>3. BlocksEnd' /\ ArmsEnd'
    BY <1>1, <1>2, BlocksAfter DEF Fits
  <2> QED BY <2>1, <2>2, <2>3
<1>6. Stacks'
  <2>1. \A i \in 1..(Len(unit') + 1) : i \in 1..(N + 1) \/ i = N + 2
    BY <1>3
  <2>2. \A i \in 1..(Len(unit') + 1) : StackOK(i)'
    BY <1>4, <1>5, <2>1
  <2> QED BY <2>2 DEF Stacks
<1>7. Openings' /\ Labelling'
  <2>1. \A i \in Lines' : Follows(i)' /\ LabelsOK(i)'
    BY <1>3, <1>4 DEF Fits
  <2> QED BY <2>1 DEF Openings, Labelling
<1>8. OneEnd'
  <2>1. \A i \in 1..N : unit'[i].k # "end"
    BY <1>3 DEF UnitInv, OneEnd
  <2> QED BY <1>3, <2>1 DEF OneEnd, Fits
<1>9. AfterReturn'
  <2> SUFFICES ASSUME NEW i \in Lines', i + 1 \in Lines', unit'[i].k = "return"
               PROVE  unit'[i + 1].lab # 0 \/ unit'[i + 1].k \in {"elseif", "else", "endif", "enddo", "end"}
    BY DEF AfterReturn
  <2>1. CASE i + 1 \in 1..N
    <3>1. i \in 1..N
      BY <1>3, <2>1
    <3> QED BY <1>3, <2>1, <3>1 DEF UnitInv, AfterReturn
  <2>2. CASE i = N
    <3>1. Last(unit) = unit[N] /\ unit # <<>> /\ unit[N].k = "return"
      BY <1>3, <2>2 DEF Last
    <3>2. Reachable(line)
      BY <1>1 DEF Grows
    <3> QED BY <1>3, <2>2, <3>1, <3>2 DEF Reachable, Stops
  <2> QED BY <1>3, <2>1, <2>2
<1>10. Assigned' /\ assigned' \in Seq(Nat)
  <2>1. assigned \in Seq(Nat)
    BY DEF UnitInv, UnitType
  <2>2. \A j \in DOMAIN assigned : \E i \in 1..N : unit'[i].k = "assign" /\ unit'[i].to[1] = assigned[j]
    BY <1>3 DEF UnitInv, Assigned
  <2>3. \A j \in DOMAIN assigned : \E i \in 1..(N + 1) : unit'[i].k = "assign" /\ unit'[i].to[1] = assigned[j]
    BY <1>3, <2>2
  <2>4. CASE assigned' = assigned
    BY <1>3, <2>1, <2>3, <2>4 DEF Assigned
  <2>5. CASE assigned' # assigned
    <3>1. assigned' = Append(assigned, line.to[1]) /\ line.k = "assign" /\ N + 1 \in 1..(N + 1)
      BY <1>3, <2>5 DEF Fits
    <3>2. line.to \in Seq(Nat) /\ Len(line.to) = 1
      BY <1>3, <3>1 DEF Fits, LabelsOK, LineType
    <3>3. line.to[1] \in Nat
      BY <3>2
    <3>4. /\ Append(assigned, line.to[1]) \in Seq(Nat)
          /\ \A k \in 1..Len(assigned) : Append(assigned, line.to[1])[k] = assigned[k]
          /\ Len(Append(assigned, line.to[1])) = Len(assigned) + 1
          /\ Append(assigned, line.to[1])[Len(assigned) + 1] = line.to[1]
      BY <2>1, <3>3, Added
    <3>5. PICK x : x = line.to[1]
      OBVIOUS
    <3>6. assigned' \in Seq(Nat) /\ \A j \in DOMAIN assigned' : (j \in DOMAIN assigned /\ assigned'[j] = assigned[j]) \/ assigned'[j] = x
      BY <2>1, <3>1, <3>4, <3>5
    <3>7. unit'[N + 1].k = "assign" /\ unit'[N + 1].to[1] = x
      BY <1>3, <3>1, <3>5
    <3>8. ASSUME NEW j \in DOMAIN assigned'
          PROVE  \E i \in 1..(N + 1) : unit'[i].k = "assign" /\ unit'[i].to[1] = assigned'[j]
      <4>1. CASE j \in DOMAIN assigned /\ assigned'[j] = assigned[j]
        BY <2>3, <4>1
      <4>2. CASE assigned'[j] = x
        BY <3>1, <3>7, <4>2
      <4> QED BY <3>6, <4>1, <4>2
    <3> QED BY <1>3, <3>6, <3>8 DEF Assigned
  <2> QED BY <2>4, <2>5
<1>11. UnitType'
  <2>1. unit' \in Seq(LineType) /\ nest' \in Seq(Entry) /\ family' = family /\ reflect' = reflect /\ Len(unit') <= MaxLines
    BY <1>1 DEF Grows
  <2> QED BY <1>10, <2>1 DEF UnitType, Fits, UnitInv
<1>12. phase' # "read" => Complete'
  BY DEF Fits
<1> QED BY <1>5, <1>6, <1>7, <1>8, <1>9, <1>10, <1>11, <1>12 DEF UnitInv

(* The loops that a line's label ends are open and have that label.          *)
LEMMA LabelEnds ==
  ASSUME UnitInv, NEW N, NEW line \in LineType, Grows(N, line),
         line.k = "do" => \A i \in 1..N : unit[i].lab # line.to[1],
         line.k = "do" => line.lab # line.to[1]
  PROVE  Ends(N + 1)' = {e.head : e \in Closed(line.lab)}
                        \cup {d \in Lines : unit[d].k = "do" /\ line.k = "enddo" /\ line.of = d}
<1>1. /\ N \in Nat /\ Lines = 1..N /\ Lines' = 1..(N + 1) /\ unit'[N + 1] = line /\ nest \in Seq(Entry)
      /\ \A i \in 1..N : unit'[i] = unit[i]
      /\ \A i \in 1..(N + 1) : i \in 1..N \/ i = N + 1
      /\ \A i \in 1..N : line.lab # 0 => unit[i].lab # line.lab
  <2>1. N \in Nat /\ Lines = 1..N
    BY UnitTypes DEF UnitInv, Grows
  <2>2. \A i \in 1..(N + 1) : i \in 1..N \/ i = N + 1
    BY <2>1
  <2> QED BY <2>1, <2>2 DEF Grows, UnitInv, UnitType
<1>2. \A d : d \in Ends(N + 1)' <=> (d \in Lines /\ unit[d].k = "do" /\
                                              ((line.k = "enddo" /\ line.of = d) \/ line.lab = unit[d].to[1]))
  <2> SUFFICES ASSUME NEW d
               PROVE  d \in Ends(N + 1)' <=> (d \in Lines /\ unit[d].k = "do" /\
                                              ((line.k = "enddo" /\ line.of = d) \/ line.lab = unit[d].to[1]))
    OBVIOUS
  <2>1. d \in Ends(N + 1)' <=> (d \in Lines' /\ unit'[d].k = "do" /\
                               ((line.k = "enddo" /\ line.of = d) \/ line.lab = unit'[d].to[1]))
    BY <1>1 DEF Ends
  <2>2. CASE d = N + 1
    <3>1. line.k = "do" => line.lab # line.to[1]
      OBVIOUS
    <3>2. d \notin Ends(N + 1)'
      BY <1>1, <2>1, <2>2, <3>1
    <3>3. d \notin Lines
      BY <1>1, <2>2
    <3> QED BY <3>2, <3>3
  <2>3. CASE d \in Lines
    <3>1. unit'[d] = unit[d] /\ d \in Lines'
      BY <1>1, <2>3
    <3> QED BY <2>1, <2>3, <3>1
  <2>4. CASE d \notin Lines'
    <3>1. d \notin Lines
      BY <1>1, <2>4
    <3> QED BY <2>1, <2>4, <3>1
  <2> QED BY <1>1, <2>2, <2>3, <2>4
<1>3. ASSUME NEW d \in Lines, unit[d].k = "do", line.lab = unit[d].to[1]
      PROVE  \E e \in Closed(line.lab) : e.head = d
  <2>1. LoopOK(d) /\ LabelsOK(d)
    BY <1>3 DEF UnitInv, LoopsEnd, Labelling
  <2>2. Len(unit[d].to) = 1 /\ unit[d].to[1] # 0 /\ unit[d].to \in Seq(Nat)
    BY <1>3, <2>1, UnitTypes DEF LabelsOK, UnitInv
  <2>3. unit[d].to = <<line.lab>>
    BY <1>3, <2>2
  <2>4. \A i \in Lines : d \notin Ends(i)
    <3> SUFFICES ASSUME NEW i \in Lines, d \in Ends(i) PROVE FALSE
      OBVIOUS
    <3>1. unit[i].lab # line.lab
      BY <1>1, <1>3, <2>2
    <3>2. unit[i].k = "enddo" /\ unit[i].of = d
      BY <1>3, <3>1 DEF Ends
    <3>3. unit[d].to[1] >= FirstLoopLabel
      BY <3>2, Continuing
    <3>4. line.lab \in Labels
      BY DEF LineType
    <3> QED BY <1>3, <3>3, <3>4, LabelNumbers
  <2>5. IsOpen(d)
    BY <2>1, <2>4 DEF LoopOK
  <2>6. PICK m \in 1..Len(nest) : nest[m].head = d
    BY <2>5 DEF IsOpen
  <2>7. nest[m] \in ToSet(nest)
    BY <1>1 DEF ToSet
  <2>8. nest[m] \in Closed(line.lab)
    BY <1>3, <2>3, <2>6, <2>7 DEF Closed
  <2> QED BY <2>6, <2>8
<1>4. ASSUME NEW e \in Closed(line.lab)
      PROVE  e.head \in Lines /\ unit[e.head].k = "do" /\ line.lab = unit[e.head].to[1]
  <2>1. e \in ToSet(nest) /\ unit[e.head].k = "do" /\ unit[e.head].to = <<line.lab>>
    BY DEF Closed
  <2>2. PICK m \in 1..Len(nest) : nest[m] = e
    BY <1>1, <2>1 DEF ToSet
  <2>3. nest = Open(N + 1) /\ N + 1 \in 1..(Len(unit) + 1)
    BY UnitTypes DEF UnitInv, Grows
  <2>4. StackOK(N + 1)
    BY <2>3 DEF UnitInv, Stacks
  <2>5. e.head \in Lines
    BY <2>2, <2>3, <2>4 DEF StackOK, OpenOK
  <2> QED BY <2>1, <2>5
<1>5. PICK E : E = Ends(N + 1)'
  OBVIOUS
<1>6. \A d : d \in E <=> \/ \E e \in Closed(line.lab) : e.head = d
                         \/ d \in Lines /\ unit[d].k = "do" /\ line.k = "enddo" /\ line.of = d
  BY <1>2, <1>3, <1>4, <1>5
<1>7. E = {e.head : e \in Closed(line.lab)} \cup {d \in Lines : unit[d].k = "do" /\ line.k = "enddo" /\ line.of = d}
  BY <1>6
<1> QED BY <1>5, <1>7

(* The lines of a family are typed.                                         *)
LEMMA SourceLine ==
  ASSUME UnitType, NEW s \in Families[family].lines
  PROVE  /\ s.k \in Kinds /\ s.lab \in Labels /\ s.to \in Seq(1..(FirstLoopLabel - 1)) /\ s.to \in Seq(Nat)
         /\ s.do \in {line.do : line \in AllLines}
         /\ \A j \in DOMAIN s.to : s.to[j] \in Labels \ {0}
         /\ s.k \in {"goto", "lifgoto", "assign"} => Len(s.to) = 1
         /\ s.k \in {"aif", "aifwide"} => Len(s.to) = 3
<1>1. Families[family] \in ToSet(Families)
  BY DEF UnitType, ToSet
<1>2. /\ s.k \in Kinds /\ s.lab \in Labels /\ s.to \in Seq(1..(FirstLoopLabel - 1))
      /\ s.k \in {"goto", "lifgoto", "assign"} => Len(s.to) = 1
      /\ s.k \in {"aif", "aifwide"} => Len(s.to) = 3
  BY <1>1, FamiliesAssumption DEF Labels
<1>3. PICK T : T = 1..(FirstLoopLabel - 1)
  OBVIOUS
<1>4. T \subseteq Nat /\ T \subseteq Labels \ {0}
  BY <1>3, LabelNumbers DEF Labels
<1>5. s.to \in Seq(T)
  BY <1>2, <1>3
<1>6. s.to \in Seq(Nat) /\ \A j \in DOMAIN s.to : s.to[j] \in Labels \ {0}
  <2>1. PICK t : t = s.to
    OBVIOUS
  <2>2. t \in [1..Len(t) -> T] /\ Len(t) \in Nat
    BY <1>5, <2>1
  <2>3. \A j \in DOMAIN t : t[j] \in Labels \ {0}
    BY <1>4, <2>2
  <2>4. t \in [1..Len(t) -> Nat]
    BY <1>4, <2>2
  <2>5. t \in Seq(Nat)
    BY <2>2, <2>4
  <2> QED BY <2>1, <2>3, <2>5
<1>7. s \in AllLines
  BY <1>1 DEF AllLines
<1>8. s.do \in {line.do : line \in AllLines}
  BY <1>7
<1> QED BY <1>2, <1>6, <1>8

(* Labels and DO parameters of a new line.                                  *)
LEMMA NewLabels ==
  ASSUME UnitInv, NEW N, NEW line \in LineType, Grows(N, line), NEW s \in Families[family].lines,
         line.k = s.k, line.lab = s.lab, line.k # "do" => line.to = s.to,
         line.k = "do" => /\ Len(line.to) = 1 /\ line.to[1] # 0 /\ line.lab # line.to[1]
                          /\ \A j \in 1..N : unit[j].lab # line.to[1]
                          /\ line.to[1] >= FirstLoopLabel => line.to[1] = FirstLoopLabel + N
  PROVE  LabelsOK(N + 1)'
<1>1. /\ N \in Nat /\ Lines' = 1..(N + 1) /\ unit'[N + 1] = line
      /\ \A i \in 1..N : unit'[i] = unit[i]
      /\ \A i \in 1..(N + 1) : i \in 1..N \/ i = N + 1
      /\ \A i \in 1..N : line.lab # 0 => unit[i].lab # line.lab
  <2>1. N \in Nat
    BY UnitTypes DEF UnitInv, Grows
  <2>2. \A i \in 1..(N + 1) : i \in 1..N \/ i = N + 1
    BY <2>1
  <2> QED BY <2>1, <2>2 DEF Grows
<1>2. /\ \A j \in DOMAIN s.to : s.to[j] \in Labels \ {0}
      /\ s.k \in {"goto", "lifgoto", "assign"} => Len(s.to) = 1
      /\ s.k \in {"aif", "aifwide"} => Len(s.to) = 3
  BY SourceLine DEF UnitInv
<1>3. \A j \in 1..(N + 1) : N + 1 # j /\ line.lab # 0 => unit'[j].lab # line.lab
  BY <1>1
<1>4. line.k = "do" => \A j \in 1..(N + 1) : unit'[j].lab # line.to[1]
  BY <1>1
<1>5. FirstLoopLabel + (N + 1) - 1 = FirstLoopLabel + N
  BY <1>1, LabelNumbers
<1>6. PICK n : n = N + 1
  OBVIOUS
<1>7. /\ \A j \in 1..n : n # j /\ line.lab # 0 => unit'[j].lab # line.lab
      /\ line.k = "do" => \A j \in 1..n : unit'[j].lab # line.to[1]
      /\ FirstLoopLabel + n - 1 = FirstLoopLabel + N
      /\ unit'[n] = line /\ Lines' = 1..n
  BY <1>1, <1>3, <1>4, <1>5, <1>6
<1>8. /\ line.k \in {"goto", "lifgoto", "assign"} => Len(line.to) = 1
      /\ line.k \in {"aif", "aifwide"} => Len(line.to) = 3
      /\ line.k # "do" => \A j \in DOMAIN line.to : line.to[j] \in Labels \ {0}
  BY <1>2
<1>9. LabelsOK(n)'
  BY <1>7, <1>8 DEF LabelsOK
<1> QED BY <1>6, <1>9

(* Follows, for the new line.                                                *)
LEMMA NewFollows ==
  ASSUME UnitInv, NEW N, NEW line \in LineType, Grows(N, line),
         line.k \in Openers \cup {"endif"} => Ends(N + 1)' = {},
         line.k \in {"do", "if"} => nest' = Append(nest, [head |-> N + 1, arm |-> N + 1]),
         line.k \in {"elseif", "else"} => /\ nest' = Append(Front(nest), [head |-> line.of, arm |-> N + 1])
                                          /\ unit[Last(nest).arm].k # "else",
         line.k \in Arms => nest # <<>> /\ line.of = Last(nest).head /\ unit[line.of].k = "if",
         line.k = "endif" => nest' = Front(nest),
         line.k = "enddo" => /\ nest # <<>> /\ line.of = Last(nest).head /\ unit[line.of].k = "do"
                             /\ unit[line.of].to[1] >= FirstLoopLabel /\ Ends(N + 1)' = {line.of},
         line.k \notin Arms \cup {"enddo"} => line.of = 0,
         line.k \notin Openers \cup {"endif"} =>
            \E n \in 0..Len(nest) : nest' = SubSeq(nest, 1, n) /\ Ends(N + 1)' = {nest[m].head : m \in (n + 1)..Len(nest)},
         line.k \notin Closers => Ends(N + 1)' = {}
  PROVE  Follows(N + 1)'
<1>1. /\ N \in Nat /\ Open(N + 1)' = nest /\ Open(N + 1 + 1)' = nest' /\ unit'[N + 1] = line
      /\ Open(N + 1) = nest /\ N + 1 \in 1..(Len(unit) + 1) /\ nest \in Seq(Entry)
      /\ \A i \in Lines : unit'[i] = unit[i]
  <2>1. N \in Nat /\ N + 1 + 1 = N + 2 /\ Open(N + 1) = nest /\ N + 1 \in 1..(Len(unit) + 1) /\ nest \in Seq(Entry) /\ Lines = 1..N
    BY UnitTypes DEF UnitInv, UnitType, Grows
  <2> QED BY <2>1 DEF Grows
<1>2. PICK n, u, v, E : n = N + 1 /\ u = nest /\ v = nest' /\ E = Ends(N + 1)'
  OBVIOUS
<1>3. u = Open(n)' /\ v = Open(n + 1)' /\ E = Ends(n)' /\ unit'[n] = line
  BY <1>1, <1>2
<1>4. u # <<>> => Last(u).head \in Lines /\ Last(u).arm \in Lines
  <2>1. StackOK(N + 1)
    BY <1>1 DEF UnitInv, Stacks
  <2>2. \A m \in 1..Len(nest) : nest[m].head \in Lines /\ nest[m].arm \in Lines
    BY <1>1, <2>1 DEF StackOK, OpenOK
  <2>3. nest # <<>> => Len(nest) \in 1..Len(nest)
    BY <1>1
  <2> QED BY <1>2, <2>2, <2>3 DEF Last
<1>5. /\ u # <<>> => unit'[Last(u).head] = unit[Last(u).head] /\ unit'[Last(u).arm] = unit[Last(u).arm]
  BY <1>1, <1>4
<1>6. /\ line.k \in Arms => u # <<>> /\ line.of = Last(u).head /\ unit'[line.of].k = "if"
      /\ line.k = "enddo" => u # <<>> /\ line.of = Last(u).head /\ unit'[line.of].k = "do" /\ unit'[line.of].to[1] >= FirstLoopLabel
      /\ line.k \in {"elseif", "else"} => unit'[Last(u).arm].k # "else"
  BY <1>2, <1>5 DEF Arms
<1>7. /\ line.k \in Arms => Continues(n, "if")'
      /\ line.k = "enddo" => Continues(n, "do")'
  BY <1>3, <1>6 DEF Continues
<1>8. /\ line.k \in Openers \cup {"endif"} => E = {}
      /\ line.k \in {"do", "if"} => v = Append(u, [head |-> n, arm |-> n])
      /\ line.k \in {"elseif", "else"} => v = Append(Front(u), [head |-> line.of, arm |-> n])
      /\ line.k = "endif" => v = Front(u)
      /\ line.k \notin Arms \cup {"enddo"} => line.of = 0
      /\ line.k \notin Openers \cup {"endif"} =>
           \E m \in 0..Len(u) : v = SubSeq(u, 1, m) /\ E = {u[q].head : q \in (m + 1)..Len(u)}
      /\ line.k \notin Closers => E = {}
      /\ line.k = "enddo" => E = {line.of}
  BY <1>2
<1>9. Follows(n)'
  BY ONLY <1>3, <1>6, <1>7, <1>8 DEF Follows
<1> QED BY <1>2, <1>9

(* ReadSimple reads a line that fits.                                       *)
LEMMA ReadSimpleFits ==
  ASSUME UnitInv, phase = "read", NEW s \in Families[family].lines, ReadSimple(s), NEW N, N = Len(unit)
  PROVE  \E line \in LineType : Fits(N, line) /\ line.k # "end"
<1> DEFINE line == Line(s, 0)
           L == Len(nest)
<1>1. nest \in Seq(Entry) /\ L \in Nat /\ UnitType
  BY DEF UnitInv, UnitType
<1>2. PICK n \in 0..L : Closed(s.lab) = {nest[m] : m \in (L - n + 1)..L} /\ Read(line, <<>>, n)
  BY DEF ReadSimple
<1>3. /\ s.k \notin {"do", "enddo", "if", "elseif", "else", "endif", "end"}
      /\ Closed(s.lab) # {} => s.k \in {"work", "continue", "lifwork", "lifgoto"}
      /\ assigned' = Noted(s) /\ phase' = phase
  BY DEF ReadSimple
<1>4. /\ s.k \in Kinds /\ s.lab \in Labels /\ s.to \in Seq(Nat) /\ s.do \in {l.do : l \in AllLines}
  BY <1>1, SourceLine
<1>5. line \in LineType /\ line.open = nest /\ line.k = s.k /\ line.lab = s.lab /\ line.to = s.to /\ line.of = 0
  BY <1>1, <1>4 DEF Line, LineType
<1> HIDE DEF line
<1>6. /\ Grows(N, line)
      /\ nest' = SubSeq(nest, 1, L - n) \o <<>>
  <2>1. <<>> \in Seq(Entry)
    OBVIOUS
  <2> QED BY <1>1, <1>2, <1>5, <2>1, ReadNew
<1>7. line.k # "do" /\ line.k # "enddo" /\ line.k \notin Openers \cup {"endif"} /\ line.k \notin Arms \cup {"enddo"}
  BY <1>3, <1>5 DEF Openers, Arms
<1>8. Ends(N + 1)' = {nest[m].head : m \in (L - n + 1)..L}
  <2>1. Ends(N + 1)' = {e.head : e \in Closed(line.lab)}
                       \cup {d \in Lines : unit[d].k = "do" /\ line.k = "enddo" /\ line.of = d}
    BY <1>5, <1>6, <1>7, LabelEnds
  <2>2. Ends(N + 1)' = {e.head : e \in {nest[m] : m \in (L - n + 1)..L}}
    BY <1>2, <1>5, <1>7, <2>1
  <2> QED BY <2>2
<1>9. nest' = SubSeq(nest, 1, L - n) /\ L - n \in 0..L
  <2>1. L - n \in 0..L
    BY <1>1
  <2>2. SubSeq(nest, 1, L - n) \in Seq(Entry)
    BY <1>1, <2>1, Prefix
  <2> QED BY <1>6, <2>1, <2>2
<1>10. line.k \notin Closers => Ends(N + 1)' = {}
  <2>1. Closed(s.lab) = {} => {nest[m].head : m \in (L - n + 1)..L} = {}
    BY <1>2
  <2> QED BY <1>3, <1>5, <1>8, <2>1 DEF Closers
<1>11. Follows(N + 1)'
  <2>1. \E q \in 0..L : nest' = SubSeq(nest, 1, q) /\ Ends(N + 1)' = {nest[m].head : m \in (q + 1)..L}
    BY <1>8, <1>9
  <2> QED BY <1>5, <1>6, <1>7, <1>10, <2>1, NewFollows DEF Openers, Arms
<1>12. LabelsOK(N + 1)'
  BY <1>5, <1>6, <1>7, NewLabels
<1>13. Fits(N, line) /\ line.k # "end"
  BY <1>3, <1>5, <1>6, <1>7, <1>11, <1>12 DEF Fits, Noted
<1> QED BY <1>5, <1>13

(* ReadDo reads a line that fits.                                           *)
LEMMA ReadDoFits ==
  ASSUME UnitInv, phase = "read", NEW s \in Families[family].lines, ReadDo(s), NEW N, N = Len(unit)
  PROVE  \E line \in LineType : Fits(N, line) /\ line.k # "end"
<1> DEFINE l == IF s.to = <<>> THEN FirstLoopLabel + Len(unit) ELSE s.to[1]
           line == [Line(s, 0) EXCEPT !.to = <<l>>]
           L == Len(nest)
           e == [head |-> Here, arm |-> Here]
<1>1. nest \in Seq(Entry) /\ L \in Nat /\ UnitType /\ N \in Nat /\ Lines = 1..N
  BY UnitTypes DEF UnitInv, UnitType
<1>2. /\ s.k = "do" /\ Closed(s.lab) = {} /\ s.lab # l /\ \A i \in Lines : unit[i].lab # l
      /\ Read(line, <<e>>, 0) /\ assigned' = assigned /\ phase' = phase
  BY DEF ReadDo
<1>3. /\ s.k \in Kinds /\ s.lab \in Labels /\ s.to \in Seq(Nat) /\ s.do \in {x.do : x \in AllLines}
      /\ \A j \in DOMAIN s.to : s.to[j] \in Labels \ {0}
  BY <1>1, SourceLine
<1>4. l \in Nat \ {0} /\ (l >= FirstLoopLabel => l = FirstLoopLabel + N)
  <2>1. CASE s.to = <<>>
    BY <1>1, <2>1, LabelNumbers
  <2>2. CASE s.to # <<>>
    <3>1. s.to[1] \in Labels \ {0}
      BY <1>3, <2>2
    <3>2. l = s.to[1]
      BY <2>2
    <3> QED BY <3>1, <3>2, LabelNumbers
  <2> QED BY <2>1, <2>2
<1>5. e \in Entry /\ e = [head |-> N + 1, arm |-> N + 1] /\ <<e>> \in Seq(Entry) /\ 0 \in 0..L
  BY <1>1 DEF Here, Entry
<1> HIDE DEF l, e
<1>6. line \in LineType /\ line.open = nest /\ line.k = s.k /\ line.lab = s.lab /\ line.to = <<l>> /\ line.of = 0
  <2>1. line = [k |-> s.k, lab |-> s.lab, to |-> <<l>>, do |-> s.do, of |-> 0, open |-> nest]
    BY DEF Line
  <2>2. <<l>> \in Seq(Nat)
    BY <1>4
  <2> HIDE DEF line
  <2>3. line \in LineType
    BY <1>1, <1>3, <2>1, <2>2 DEF LineType
  <2> QED BY <2>1, <2>3
<1> HIDE DEF line
<1>7. /\ Grows(N, line)
      /\ nest' = SubSeq(nest, 1, L - 0) \o <<e>>
  <2>1. PICK push \in Seq(Entry), drop \in 0..L : push = <<e>> /\ drop = 0
    BY <1>5
  <2>2. Read(line, push, drop) /\ drop \in 0..Len(nest)
    BY <1>2, <2>1
  <2>3. Grows(N, line) /\ nest' = SubSeq(nest, 1, Len(nest) - drop) \o push
    BY <1>1, <1>6, <2>2, ReadNew
  <2> QED BY <2>1, <2>3
<1>8. nest' = Append(nest, e)
  <2>1. SubSeq(nest, 1, L - 0) = nest
    BY <1>1
  <2>2. nest \o <<e>> = Append(nest, e)
    BY <1>1, <1>5, Added
  <2> QED BY <1>7, <2>1, <2>2
<1>9. line.to[1] = l /\ Len(line.to) = 1
  BY <1>6
<1>10. Ends(N + 1)' = {}
  <2>1. Ends(N + 1)' = {x.head : x \in Closed(line.lab)}
                       \cup {d \in Lines : unit[d].k = "do" /\ line.k = "enddo" /\ line.of = d}
    <3>1. \A i \in 1..N : unit[i].lab # line.to[1]
      BY <1>1, <1>2, <1>9
    <3>2. line.lab # line.to[1]
      BY <1>2, <1>6, <1>9
    <3> QED BY <1>6, <1>7, <3>1, <3>2, LabelEnds
  <2> QED BY <1>2, <1>6, <2>1
<1>11. Follows(N + 1)'
  BY <1>2, <1>5, <1>6, <1>7, <1>8, <1>10, NewFollows DEF Openers, Arms
<1>12. LabelsOK(N + 1)'
  BY <1>1, <1>2, <1>4, <1>6, <1>7, <1>9, NewLabels
<1>13. Fits(N, line) /\ line.k # "end"
  BY <1>1, <1>2, <1>6, <1>7, <1>9, <1>11, <1>12 DEF Fits
<1> QED BY <1>6, <1>13

(* Lines that continue or end the innermost block or loop.                   *)
LEMMA InnermostIs ==
  ASSUME UnitInv, NEW k, Opens(k)
  PROVE  /\ nest # <<>> /\ nest \in Seq(Entry) /\ Len(nest) \in Nat \ {0} /\ Innermost = Last(nest)
         /\ Last(nest) = nest[Len(nest)] /\ Front(nest) = SubSeq(nest, 1, Len(nest) - 1)
         /\ Innermost.head \in Lines /\ unit[Innermost.head].k = k /\ Innermost.head \in Nat
<1>1. nest # <<>> /\ nest \in Seq(Entry) /\ Innermost = Last(nest) /\ unit[Innermost.head].k = k
  BY DEF Opens, Innermost, UnitInv, UnitType
<1>2. Len(nest) \in Nat \ {0} /\ Len(nest) \in 1..Len(nest)
  BY <1>1
<1>3. Open(Len(unit) + 1) = nest /\ Len(unit) + 1 \in 1..(Len(unit) + 1)
  BY UnitTypes DEF UnitInv
<1>4. StackOK(Len(unit) + 1)
  BY <1>3 DEF UnitInv, Stacks
<1>5. nest[Len(nest)].head \in Lines
  BY <1>2, <1>3, <1>4 DEF StackOK, OpenOK
<1>6. nest[Len(nest)].head \in Nat
  BY <1>5, UnitTypes DEF UnitInv
<1> QED BY <1>1, <1>2, <1>5, <1>6 DEF Last, Front

(* A line that continues or ends what is innermost fits.                    *)
LEMMA ContinuingFits ==
  ASSUME UnitInv, phase = "read", NEW s \in Families[family].lines, NEW N, N = Len(unit),
         NEW k, Opens(k), k \in {"do", "if"}, Closed(s.lab) = {}, phase' = phase, assigned' = assigned,
         NEW push \in Seq(Entry), Read(Line(s, Innermost.head), push, 1),
         \/ s.k = "enddo" /\ k = "do" /\ unit[Innermost.head].to[1] >= FirstLoopLabel /\ push = <<>>
         \/ s.k = "endif" /\ k = "if" /\ push = <<>>
         \/ /\ s.k \in {"elseif", "else"} /\ k = "if" /\ unit[Innermost.arm].k # "else"
            /\ push = <<[head |-> Innermost.head, arm |-> Here]>>
  PROVE  \E line \in LineType : Fits(N, line) /\ line.k # "end"
<1> DEFINE line == Line(s, Innermost.head)
           L == Len(nest)
<1>1. UnitType /\ N \in Nat /\ Lines = 1..N
  BY UnitTypes DEF UnitInv, UnitType
<1>2. /\ nest # <<>> /\ nest \in Seq(Entry) /\ L \in Nat \ {0} /\ Innermost = Last(nest)
      /\ Last(nest) = nest[L] /\ Front(nest) = SubSeq(nest, 1, L - 1)
      /\ Innermost.head \in Lines /\ unit[Innermost.head].k = k /\ Innermost.head \in Nat
  BY InnermostIs
<1>3. /\ s.k \in Kinds /\ s.lab \in Labels /\ s.to \in Seq(Nat) /\ s.do \in {x.do : x \in AllLines}
  BY <1>1, SourceLine
<1>4. /\ line \in LineType /\ line.open = nest /\ line.k = s.k /\ line.lab = s.lab /\ line.to = s.to
      /\ line.of = Innermost.head
  <2>1. line = [k |-> s.k, lab |-> s.lab, to |-> s.to, do |-> s.do, of |-> Innermost.head, open |-> nest]
    BY DEF Line
  <2> HIDE DEF line
  <2>2. line \in LineType
    BY <1>2, <1>3, <2>1 DEF LineType
  <2> QED BY <2>1, <2>2
<1>5. Read(line, push, 1) /\ s.k \in {"enddo", "endif", "elseif", "else"}
  OBVIOUS
<1> HIDE DEF line
<1>6. /\ Grows(N, line)
      /\ nest' = SubSeq(nest, 1, L - 1) \o push
  <2>1. 1 \in 0..L
    BY <1>2
  <2> QED BY <1>1, <1>4, <1>5, <2>1, ReadNew
<1>7. line.k \in {"enddo", "endif", "elseif", "else"} /\ line.k # "do" /\ line.k # "end"
  BY <1>4, <1>5
<1>8. Ends(N + 1)' = {d \in Lines : unit[d].k = "do" /\ line.k = "enddo" /\ line.of = d}
  <2>1. Ends(N + 1)' = {x.head : x \in Closed(line.lab)}
                       \cup {d \in Lines : unit[d].k = "do" /\ line.k = "enddo" /\ line.of = d}
    BY <1>4, <1>6, <1>7, LabelEnds
  <2> QED BY <1>4, <2>1
<1>9. LabelsOK(N + 1)'
  BY <1>4, <1>6, <1>7, NewLabels
<1>10. Front(nest) \in Seq(Entry) /\ L - 1 \in 0..L
  <2>1. L - 1 \in 0..L
    BY <1>2
  <2> QED BY <1>2, <2>1, Prefix
<1>11. push = <<>> => nest' = Front(nest)
  BY <1>2, <1>6, <1>10
<1>12. Follows(N + 1)'
  <2>1. CASE s.k = "enddo" /\ k = "do" /\ unit[Innermost.head].to[1] >= FirstLoopLabel /\ push = <<>>
    <3>1. {nest[m].head : m \in (L - 1 + 1)..L} = {nest[L].head}
      BY <1>2
    <3>2. Ends(N + 1)' = {nest[L].head}
      BY <1>2, <1>4, <1>8, <2>1
    <3>3. \E q \in 0..L : nest' = SubSeq(nest, 1, q) /\ Ends(N + 1)' = {nest[m].head : m \in (q + 1)..L}
      BY <1>2, <1>10, <1>11, <2>1, <3>1, <3>2
    <3>4. line.k = "enddo" /\ line.k \notin Openers \cup {"endif"} /\ line.k \notin Arms /\ line.k \in Closers
      BY <1>4, <2>1 DEF Openers, Arms, Closers
    <3>5. nest # <<>> /\ line.of = Last(nest).head /\ unit[line.of].k = "do" /\ unit[line.of].to[1] >= FirstLoopLabel
          /\ Ends(N + 1)' = {line.of}
      BY <1>2, <1>4, <2>1, <3>2
    <3> QED BY <1>4, <1>6, <3>3, <3>4, <3>5, NewFollows
  <2>2. CASE s.k # "enddo"
    <3>1. Ends(N + 1)' = {} /\ line.k \in Arms /\ k = "if"
      BY <1>4, <1>7, <1>8, <2>2 DEF Arms
    <3>2. nest # <<>> /\ line.of = Last(nest).head /\ unit[line.of].k = "if"
      BY <1>2, <1>4, <3>1
    <3>3. CASE s.k = "endif"
      <4>1. nest' = Front(nest) /\ line.k = "endif" /\ line.k \notin Closers /\ line.k \in Openers \cup {"endif"}
        BY <1>4, <1>11, <3>3 DEF Closers
      <4> QED BY <1>4, <1>6, <3>1, <3>2, <4>1, NewFollows
    <3>4. CASE s.k \in {"elseif", "else"}
      <4>1. push = <<[head |-> Innermost.head, arm |-> N + 1]>> /\ unit[Last(nest).arm].k # "else"
        BY <1>2, <3>4 DEF Here
      <4>2. [head |-> line.of, arm |-> N + 1] \in Entry
        BY <1>1, <1>2, <1>4 DEF Entry
      <4>3. nest' = Append(Front(nest), [head |-> line.of, arm |-> N + 1])
        BY <1>2, <1>4, <1>6, <1>10, <4>1, <4>2, Added
      <4>4. line.k \in {"elseif", "else"} /\ line.k \in Openers /\ line.k \notin Closers
        BY <1>4, <3>4 DEF Closers, Openers
      <4> QED BY <1>4, <1>6, <3>1, <3>2, <4>1, <4>3, <4>4, NewFollows
    <3> QED BY <1>5, <2>2, <3>3, <3>4
  <2> QED BY <1>5, <2>1, <2>2
<1>13. Fits(N, line) /\ line.k # "end"
  BY <1>1, <1>4, <1>6, <1>7, <1>9, <1>12 DEF Fits
<1> QED BY <1>4, <1>13

(* ReadIf reads a line that fits.                                           *)
LEMMA ReadIfFits ==
  ASSUME UnitInv, phase = "read", NEW s \in Families[family].lines, ReadIf(s), NEW N, N = Len(unit)
  PROVE  \E line \in LineType : Fits(N, line) /\ line.k # "end"
<1> DEFINE line == Line(s, 0)
           L == Len(nest)
           e == [head |-> Here, arm |-> Here]
<1>1. nest \in Seq(Entry) /\ L \in Nat /\ UnitType /\ N \in Nat /\ Lines = 1..N
  BY UnitTypes DEF UnitInv, UnitType
<1>2. /\ s.k = "if" /\ Closed(s.lab) = {} /\ Read(line, <<e>>, 0) /\ assigned' = assigned /\ phase' = phase
  BY DEF ReadIf
<1>3. /\ s.k \in Kinds /\ s.lab \in Labels /\ s.to \in Seq(Nat) /\ s.do \in {x.do : x \in AllLines}
  BY <1>1, SourceLine
<1>4. e \in Entry /\ e = [head |-> N + 1, arm |-> N + 1] /\ <<e>> \in Seq(Entry) /\ 0 \in 0..L
  BY <1>1 DEF Here, Entry
<1> HIDE DEF e
<1>5. line \in LineType /\ line.open = nest /\ line.k = s.k /\ line.lab = s.lab /\ line.to = s.to /\ line.of = 0
  BY <1>1, <1>3 DEF Line, LineType
<1> HIDE DEF line
<1>6. /\ Grows(N, line)
      /\ nest' = SubSeq(nest, 1, L - 0) \o <<e>>
  <2>1. PICK push \in Seq(Entry), drop \in 0..L : push = <<e>> /\ drop = 0
    BY <1>4
  <2>2. Read(line, push, drop) /\ drop \in 0..Len(nest)
    BY <1>2, <2>1
  <2>3. Grows(N, line) /\ nest' = SubSeq(nest, 1, Len(nest) - drop) \o push
    BY <1>1, <1>5, <2>2, ReadNew
  <2> QED BY <2>1, <2>3
<1>7. nest' = Append(nest, e)
  <2>1. SubSeq(nest, 1, L - 0) = nest
    BY <1>1
  <2>2. nest \o <<e>> = Append(nest, e)
    BY <1>1, <1>4, Added
  <2> QED BY <1>6, <2>1, <2>2
<1>8. Ends(N + 1)' = {}
  <2>1. Ends(N + 1)' = {x.head : x \in Closed(line.lab)}
                       \cup {d \in Lines : unit[d].k = "do" /\ line.k = "enddo" /\ line.of = d}
    BY <1>2, <1>5, <1>6, LabelEnds
  <2> QED BY <1>2, <1>5, <2>1
<1>9. Follows(N + 1)'
  BY <1>2, <1>4, <1>5, <1>6, <1>7, <1>8, NewFollows DEF Openers, Arms
<1>10. LabelsOK(N + 1)'
  BY <1>2, <1>5, <1>6, NewLabels
<1>11. Fits(N, line) /\ line.k # "end"
  BY <1>1, <1>2, <1>5, <1>6, <1>9, <1>10 DEF Fits
<1> QED BY <1>5, <1>11

(* ReadEndDo, ReadArm and ReadEndIf read a line that fits.                  *)
LEMMA ReadMiddleFits ==
  ASSUME UnitInv, phase = "read", NEW s \in Families[family].lines,
         ReadEndDo(s) \/ ReadArm(s) \/ ReadEndIf(s), NEW N, N = Len(unit)
  PROVE  \E line \in LineType : Fits(N, line) /\ line.k # "end"
<1>1. CASE ReadEndDo(s)
  <2>1. /\ s.k = "enddo" /\ Opens("do") /\ unit[Innermost.head].to[1] >= FirstLoopLabel
        /\ Closed(s.lab) = {} /\ Read(Line(s, Innermost.head), <<>>, 1) /\ assigned' = assigned /\ phase' = phase
    BY <1>1 DEF ReadEndDo
  <2>2. <<>> \in Seq(Entry)
    OBVIOUS
  <2> QED BY <2>1, <2>2, ContinuingFits
<1>2. CASE ReadArm(s)
  <2> DEFINE push == <<[head |-> Innermost.head, arm |-> Here]>>
  <2>1. /\ s.k \in {"elseif", "else"} /\ Opens("if") /\ unit[Innermost.arm].k # "else"
        /\ Closed(s.lab) = {} /\ Read(Line(s, Innermost.head), push, 1) /\ assigned' = assigned /\ phase' = phase
    BY <1>2 DEF ReadArm
  <2>2. push \in Seq(Entry)
    <3>1. Innermost.head \in Nat
      BY <2>1, InnermostIs
    <3>2. Here \in Nat
      BY UnitTypes DEF Here, UnitInv
    <3> QED BY <3>1, <3>2 DEF Entry
  <2> HIDE DEF push
  <2>3. push = <<[head |-> Innermost.head, arm |-> Here]>>
    BY DEF push
  <2> QED BY <2>1, <2>2, <2>3, ContinuingFits
<1>3. CASE ReadEndIf(s)
  <2>1. /\ s.k = "endif" /\ Opens("if")
        /\ Closed(s.lab) = {} /\ Read(Line(s, Innermost.head), <<>>, 1) /\ assigned' = assigned /\ phase' = phase
    BY <1>3 DEF ReadEndIf
  <2>2. <<>> \in Seq(Entry)
    OBVIOUS
  <2> QED BY <2>1, <2>2, ContinuingFits
<1> QED BY <1>1, <1>2, <1>3

(* The END line leaves a unit that is legal.                                 *)
LEMMA ReadEndFits ==
  ASSUME UnitInv, phase = "read", NEW s \in Families[family].lines, ReadEnd(s), NEW N, N = Len(unit)
  PROVE  \E line \in LineType : Fits(N, line) /\ Complete'
<1> DEFINE line == Line(s, 0)
<1>1. nest = <<>> /\ UnitType /\ N \in Nat /\ Lines = 1..N /\ Len(nest) = 0 /\ 0 \in 0..Len(nest) /\ <<>> \in Seq(Entry)
  BY UnitTypes DEF UnitInv, ReadEnd
<1>2. /\ s.k = "end" /\ Read(line, <<>>, 0) /\ assigned' = assigned /\ phase' = "emit"
      /\ \A i \in {j \in Lines : unit[j].k # "do"} : \A l \in ToSet(unit[i].to) :
           \/ l = s.lab
           \/ \E t \in Lines : unit[t].lab = l /\ In(t) \subseteq In(i)
      /\ (\E i \in Lines : unit[i].k = "agoto") => assigned # <<>>
  BY DEF ReadEnd
<1>3. /\ s.k \in Kinds /\ s.lab \in Labels /\ s.to \in Seq(Nat) /\ s.do \in {x.do : x \in AllLines}
  BY <1>1, SourceLine
<1>4. line \in LineType /\ line.open = nest /\ line.k = s.k /\ line.lab = s.lab /\ line.to = s.to /\ line.of = 0
  <2>1. nest \in Seq(Entry)
    BY <1>1
  <2> QED BY <2>1, <1>3 DEF Line, LineType
<1> HIDE DEF line
<1>5. /\ Grows(N, line)
      /\ nest' = SubSeq(nest, 1, Len(nest) - 0) \o <<>>
  <2>1. Read(line, <<>>, 0) /\ 0 \in 0..Len(nest) /\ <<>> \in Seq(Entry) /\ UnitType
    BY <1>1, <1>2
  <2> QED BY <1>4, <2>1, ReadNew
<1>6. nest' = <<>>
  BY <1>1, <1>5
<1>7. line.k # "do" /\ line.k # "enddo" /\ line.k \notin Openers \cup {"endif"} /\ line.k \notin Arms \cup {"enddo"}
  BY <1>2, <1>4 DEF Openers, Arms
<1>8. Ends(N + 1)' = {}
  <2>1. Ends(N + 1)' = {x.head : x \in Closed(line.lab)}
                       \cup {d \in Lines : unit[d].k = "do" /\ line.k = "enddo" /\ line.of = d}
    BY <1>4, <1>5, <1>7, LabelEnds
  <2>2. Closed(line.lab) = {}
    BY <1>1 DEF Closed, ToSet
  <2> QED BY <1>7, <2>1, <2>2
<1>9. Follows(N + 1)'
  <2>1. nest' = SubSeq(nest, 1, 0) /\ {nest[m].head : m \in (0 + 1)..Len(nest)} = {}
    BY <1>1, <1>6
  <2>2. \E q \in 0..Len(nest) : nest' = SubSeq(nest, 1, q) /\ Ends(N + 1)' = {nest[m].head : m \in (q + 1)..Len(nest)}
    BY <1>1, <1>8, <2>1
  <2> QED BY <1>4, <1>5, <1>7, <1>8, <2>2, NewFollows DEF Openers, Arms
<1>10. LabelsOK(N + 1)'
  BY <1>4, <1>5, <1>7, NewLabels
<1>11. Fits(N, line)
  BY <1>2, <1>4, <1>5, <1>7, <1>9, <1>10 DEF Fits
<1>12. /\ unit' \in Seq(LineType) /\ Len(unit') = N + 1 /\ unit'[N + 1] = line /\ Lines' = 1..(N + 1)
       /\ \A i \in 1..N : unit'[i] = unit[i]
       /\ \A i \in 1..(N + 1) : i \in 1..N \/ i = N + 1
  <2>1. \A i \in 1..(N + 1) : i \in 1..N \/ i = N + 1
    BY <1>1
  <2> QED BY <1>5, <2>1 DEF Grows
<1>13. /\ \A i \in 1..N : In(i)' = In(i)
       /\ In(N + 1)' = {}
  <2>1. \A i \in 1..N : In(i)' = In(i)
    BY <1>12 DEF In, Around
  <2>2. unit'[N + 1].k = "end" /\ unit'[N + 1].open = <<>>
    BY <1>1, <1>2, <1>4, <1>12
  <2>3. Around(N + 1)' = <<>>
    BY <2>2 DEF Around
  <2>4. ToSet(<<>>) = {}
    BY DEF ToSet
  <2>5. In(N + 1)' = {}
    BY <2>3, <2>4 DEF In
  <2> QED BY <2>1, <2>5
<1>14. ASSUME NEW i \in 1..N, unit[i].k # "do", NEW j \in DOMAIN unit[i].to
       PROVE  \E t \in 1..(N + 1) : unit'[t].lab = unit[i].to[j] /\ In(t)' \subseteq In(i)
  <2>1. unit[i].to[j] \in ToSet(unit[i].to)
    BY <1>14 DEF ToSet
  <2>2. CASE unit[i].to[j] = s.lab
    <3>1. unit'[N + 1].lab = unit[i].to[j] /\ In(N + 1)' \subseteq In(i) /\ N + 1 \in 1..(N + 1)
      BY <1>1, <1>4, <1>12, <1>13, <2>2
    <3> QED BY <3>1
  <2>3. CASE \E t \in Lines : unit[t].lab = unit[i].to[j] /\ In(t) \subseteq In(i)
    <3>1. PICK t \in Lines : unit[t].lab = unit[i].to[j] /\ In(t) \subseteq In(i)
      BY <2>3
    <3>2. t \in 1..(N + 1) /\ unit'[t] = unit[t] /\ In(t)' = In(t)
      BY <1>1, <1>12, <1>13
    <3> QED BY <3>1, <3>2
  <2>4. i \in {q \in Lines : unit[q].k # "do"}
    BY <1>1, <1>14
  <2>5. unit[i].to[j] = s.lab \/ \E t \in Lines : unit[t].lab = unit[i].to[j] /\ In(t) \subseteq In(i)
    BY <1>2, <2>1, <2>4
  <2> QED BY <2>2, <2>3, <2>5
<1>15. unit'[N + 1].k = "end" /\ unit' # <<>> /\ N + 1 \in 1..(N + 1)
  BY <1>1, <1>2, <1>4, <1>12
<1>16. ASSUME NEW i \in 1..(N + 1), unit'[i].k \notin {"do", "end"}, NEW j \in DOMAIN unit'[i].to
       PROVE  \E t \in 1..(N + 1) : unit'[t].lab = unit'[i].to[j] /\ In(t)' \subseteq In(i)'
  <2>1. CASE i \in 1..N
    BY <1>12, <1>13, <1>14, <1>16, <2>1
  <2>2. CASE i = N + 1
    BY <1>15, <1>16, <2>2
  <2> QED BY <1>12, <2>1, <2>2
<1>17. (\E i \in 1..(N + 1) : unit'[i].k = "agoto") => assigned' # <<>>
  BY <1>1, <1>2, <1>12, <1>15
<1>18. Complete'
  BY <1>6, <1>12, <1>15, <1>16, <1>17 DEF Complete
<1> QED BY <1>4, <1>11, <1>18

(* A step that reads nothing keeps the unit.                                *)
LEMMA UnitKept ==
  ASSUME UnitInv, unit' = unit, nest' = nest, assigned' = assigned, family' = family, reflect' = reflect,
         phase' = phase \/ (phase # "read" /\ phase' = "run")
  PROVE  UnitInv'
<1>1. Lines' = Lines
  BY DEF Lines
<1>2. \A i : Open(i)' = Open(i) /\ Ends(i)' = Ends(i) /\ In(i)' = In(i)
  BY <1>1 DEF Open, Ends, In, Around
<1>3. /\ Stacks => Stacks'
      /\ Labelling => Labelling'
  BY <1>1, <1>2 DEF Stacks, StackOK, OpenOK, Latest, Labelling, LabelsOK
<1>4. Openings => Openings'
  <2> SUFFICES ASSUME NEW i \in Lines, Follows(i) PROVE Follows(i)'
    BY <1>1 DEF Openings
  <2>1. PICK s, t, E, l : s = Open(i) /\ t = Open(i + 1) /\ E = Ends(i) /\ l = unit[i]
    OBVIOUS
  <2>2. s = Open(i)' /\ t = Open(i + 1)' /\ E = Ends(i)' /\ l = unit'[i]
    BY <1>2, <2>1
  <2>3. (Continues(i, "if") <=> Continues(i, "if")') /\ (Continues(i, "do") <=> Continues(i, "do")')
    BY <1>2 DEF Continues
  <2> QED BY <2>1, <2>2, <2>3 DEF Follows
<1>5. /\ LoopsEnd => LoopsEnd'
      /\ BlocksEnd => BlocksEnd'
      /\ ArmsEnd => ArmsEnd'
  BY <1>1, <1>2 DEF LoopsEnd, LoopOK, BlocksEnd, BlockOK, ArmsEnd, ArmOK, HeadOf, IsOpen
<1>6. /\ AfterReturn => AfterReturn'
      /\ Assigned => Assigned'
      /\ Complete => Complete'
  BY <1>1, <1>2 DEF AfterReturn, Assigned, Complete
<1>7. OneEnd => OneEnd'
  BY <1>1 DEF OneEnd
<1>8. UnitType => UnitType'
  BY DEF UnitType
<1> QED BY <1>3, <1>4, <1>5, <1>6, <1>7, <1>8 DEF UnitInv

(* Nothing has been read at first.                                          *)
LEMMA UnitInit == Init => UnitInv
<1> SUFFICES ASSUME Init PROVE UnitInv
  OBVIOUS
<1>1. Lines = {} /\ unit = <<>> /\ nest = <<>> /\ assigned = <<>> /\ phase = "read" /\ Len(unit) = 0
  BY DEF Init, Lines
<1>2. UnitType
  <2>1. family \in DOMAIN Families /\ reflect \in Families[family].reflect
    BY DEF Init
  <2>2. reflect \in BOOLEAN
    BY <2>1, FamiliesAssumption DEF ToSet
  <2> QED BY <1>1, <2>1, <2>2 DEF UnitType
<1>3. Stacks
  BY <1>1 DEF Stacks, StackOK, Open
<1> QED BY <1>1, <1>2, <1>3 DEF UnitInv, Openings, Labelling, OneEnd, LoopsEnd, BlocksEnd, ArmsEnd, AfterReturn, Assigned

(* Every step keeps the unit legal.                                         *)
LEMMA UnitStep == UnitInv /\ [Next]_vars => UnitInv'
<1> SUFFICES ASSUME UnitInv, [Next]_vars PROVE UnitInv'
  OBVIOUS
<1> DEFINE N == Len(unit)
<1>1. CASE Reading
  <2>1. PICK s \in Families[family].lines :
          ReadSimple(s) \/ ReadDo(s) \/ ReadEndDo(s) \/ ReadIf(s) \/ ReadArm(s) \/ ReadEndIf(s) \/ ReadEnd(s)
    BY <1>1 DEF Reading
  <2>2. phase = "read"
    BY <2>1 DEF ReadSimple, ReadDo, ReadEndDo, ReadIf, ReadArm, ReadEndIf, ReadEnd, Read
  <2>3. ASSUME NEW line \in LineType, Fits(N, line), line.k = "end" => Complete' PROVE UnitInv'
    BY <2>2, <2>3, Reads
  <2> HIDE DEF N
  <2>4. N = Len(unit)
    BY DEF N
  <2>5. CASE ReadSimple(s)
    BY <2>2, <2>3, <2>4, <2>5, ReadSimpleFits
  <2>6. CASE ReadDo(s)
    BY <2>2, <2>3, <2>4, <2>6, ReadDoFits
  <2>7. CASE ReadIf(s)
    BY <2>2, <2>3, <2>4, <2>7, ReadIfFits
  <2>8. CASE ReadEndDo(s) \/ ReadArm(s) \/ ReadEndIf(s)
    BY <2>2, <2>3, <2>4, <2>8, ReadMiddleFits
  <2>9. CASE ReadEnd(s)
    BY <2>2, <2>3, <2>4, <2>9, ReadEndFits
  <2> QED BY <2>1, <2>5, <2>6, <2>7, <2>8, <2>9
<1>2. CASE EmitLine
  BY <1>2, UnitKept DEF EmitLine
<1>3. CASE Run
  <2>1. UNCHANGED <<family, unit, nest, assigned, reflect, phase>>
    BY <1>3 DEF Run, CodeStep, FtnStep, Work, Throw, Test, Initialise, AssignLabel, Eval, Evaluate, Leave, Both
  <2> QED BY <2>1, UnitKept
<1>4. CASE Rest \/ UNCHANGED vars
  <2>1. UNCHANGED <<family, unit, nest, assigned, reflect, phase>>
    BY <1>4 DEF Rest, vars
  <2> QED BY <2>1, UnitKept
<1> QED BY <1>1, <1>2, <1>3, <1>4 DEF Next

(* The unit that is translated is one that the parser accepts.               *)
THEOREM UnitIsLegal == Spec => []UnitInv
BY UnitInit, UnitStep, PTL DEF Spec
=============================================================================
