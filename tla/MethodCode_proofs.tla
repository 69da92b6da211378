------------------------- MODULE MethodCode_proofs --------------------------
(***************************************************************************)
(* Proofs about MethodCode, for every set of instructions, every length of  *)
(* code, every branch limit.                                                *)
(***************************************************************************)
EXTENDS MethodCode, Induction, TLAPS

(* What the links of a method look like: calc_offsets finds a target or a   *)
(* label on every branch and a default in every switch.                     *)
LinksOK ==
  /\ \A n \in Emitted : label[n] # None => op[n] \in JumpOps
  /\ Fixed => \A n \in Emitted : Linked(n)
  /\ phase = "append" => \A n \in Node : label[n] = None /\ target[n] = None /\ dflt[n] = None

(* Every node the client created is in the code. *)
InCode == \A n \in Emitted : \E k \in 1..Len(code) : code[k] = n

(* Only a switch has cases to go on with. *)
WorkOK ==
  /\ phase \in {"append", "link"} => work = <<>>
  /\ \A k \in 1..Len(work) :
       work[k].at = "cases" => work[k].node \in Emitted /\ op[work[k].node] \in SwitchOps

TypeInv == TypeOK /\ LinksOK /\ InCode /\ WorkOK

(* Inserting two elements after the k-th. *)
LEMMA InsertAfterType ==
  ASSUME NEW s \in Seq(Node), NEW k \in 1..Len(s), NEW x \in Node, NEW y \in Node
  PROVE  InsertAfter(s, k, x, y) \in Seq(Node)
<1> DEFINE e(j) == IF j <= k THEN s[j] ELSE IF j = k + 1 THEN x ELSE IF j = k + 2 THEN y ELSE s[j - 2]
<1>1. \A j \in 1..(Len(s) + 2) : e(j) \in Node
  OBVIOUS
<1>2. InsertAfter(s, k, x, y) = [j \in 1..(Len(s) + 2) |-> e(j)]
  BY DEF InsertAfter
<1> HIDE DEF e
<1> QED BY <1>1, <1>2

(* The k elements before the insertion, the two, and the rest.              *)
LEMMA InsertAfterFacts ==
  ASSUME NEW s \in Seq(Node), NEW k \in 1..Len(s), NEW x \in Node, NEW y \in Node,
         NEW r, r = InsertAfter(s, k, x, y)
  PROVE  /\ Len(r) = Len(s) + 2
         /\ \A j \in 1..k : r[j] = s[j]
         /\ r[k + 1] = x
         /\ r[k + 2] = y
         /\ \A j \in (k + 1)..Len(s) : r[j + 2] = s[j]
<1> DEFINE e(j) == IF j <= k THEN s[j] ELSE IF j = k + 1 THEN x ELSE IF j = k + 2 THEN y ELSE s[j - 2]
<1>1. \A j \in 1..(Len(s) + 2) : e(j) \in Node
  OBVIOUS
<1>2. r = [j \in 1..(Len(s) + 2) |-> e(j)]
  BY DEF InsertAfter
<1>3. \A j \in 1..k : e(j) = s[j]
  OBVIOUS
<1>4. e(k + 1) = x /\ e(k + 2) = y
  OBVIOUS
<1>5. \A j \in (k + 1)..Len(s) : e(j + 2) = s[j]
  <2> SUFFICES ASSUME NEW j \in (k + 1)..Len(s) PROVE e(j + 2) = s[j]
    OBVIOUS
  <2>1. e(j + 2) = s[(j + 2) - 2]
    OBVIOUS
  <2>2. (j + 2) - 2 = j
    OBVIOUS
  <2> HIDE DEF e
  <2> QED BY <2>1, <2>2
<1> HIDE DEF e
<1>6. Len(r) = Len(s) + 2
  BY <1>1, <1>2
<1>7. \A j \in 1..(Len(s) + 2) : r[j] = e(j)
  BY <1>2
<1>8. \A j \in 1..k : r[j] = s[j]
  BY <1>3, <1>7
<1>9. r[k + 1] = x /\ r[k + 2] = y
  BY <1>4, <1>7
<1>10. \A j \in (k + 1)..Len(s) : r[j + 2] = s[j]
  BY <1>5, <1>7
<1> QED BY <1>6, <1>8, <1>9, <1>10

(* No element but the two is new, and none is lost. *)
LEMMA InsertAfterOnly ==
  ASSUME NEW s, Len(s) \in Nat, NEW k \in 1..Len(s), NEW x, NEW y,
         NEW i \in 1..Len(InsertAfter(s, k, x, y))
  PROVE  \/ InsertAfter(s, k, x, y)[i] \in {x, y}
         \/ \E j \in 1..Len(s) : InsertAfter(s, k, x, y)[i] = s[j]
<1> DEFINE e(j) == IF j <= k THEN s[j] ELSE IF j = k + 1 THEN x ELSE IF j = k + 2 THEN y ELSE s[j - 2]
           r == [j \in 1..(Len(s) + 2) |-> e(j)]
<1>1. InsertAfter(s, k, x, y) = r
  BY DEF InsertAfter
<1>2. Len(r) = Len(s) + 2
  <2> HIDE DEF e
  <2> QED OBVIOUS
<1>3. i \in 1..(Len(s) + 2) /\ r[i] = e(i)
  BY <1>1, <1>2
<1>4. e(i) \in {x, y} \/ \E j \in 1..Len(s) : e(i) = s[j]
  <2>1. CASE i <= k
    BY <1>3, <2>1
  <2>2. CASE i \in {k + 1, k + 2}
    BY <1>3, <2>2
  <2>3. CASE i > k + 2
    <3>1. e(i) = s[i - 2] /\ i - 2 \in 1..Len(s)
      BY <1>3, <2>3
    <3> QED BY <3>1
  <2> QED BY <1>3, <2>1, <2>2, <2>3
<1> QED BY <1>1, <1>3, <1>4

(* Every element there was is still there.                                  *)
LEMMA InsertAfterKeeps ==
  \A s \in Seq(Node) : \A k, x, y : k \in 1..Len(s) /\ x \in Node /\ y \in Node =>
    \A j \in 1..Len(s) : \E i \in 1..Len(InsertAfter(s, k, x, y)) : InsertAfter(s, k, x, y)[i] = s[j]
<1> SUFFICES ASSUME NEW s \in Seq(Node), NEW k \in 1..Len(s), NEW x \in Node, NEW y \in Node,
                    NEW j \in 1..Len(s)
             PROVE  \E i \in 1..Len(InsertAfter(s, k, x, y)) : InsertAfter(s, k, x, y)[i] = s[j]
  OBVIOUS
<1> DEFINE r == InsertAfter(s, k, x, y)
<1>1. CASE j <= k
  <2>1. r[j] = s[j] /\ j \in 1..Len(r)
    BY <1>1, InsertAfterFacts
  <2> QED BY <2>1
<1>2. CASE j > k
  <2>1. r[j + 2] = s[j] /\ j + 2 \in 1..Len(r)
    BY <1>2, InsertAfterFacts
  <2> QED BY <2>1
<1> QED BY <1>1, <1>2

USE MaxInstrsAssumption, InstrsAssumption, LabelAssumption, CaseNumAssumption,
    MaxHandlersAssumption, BranchMaxAssumption, FillThreshAssumption
USE DEF Emitted, Client, Node, NodeOrNone, None

(* The fields of an instruction, and the instructions widening inserts. *)
LEMMA InstructionFields ==
  ASSUME NEW i \in Instruction
  PROVE  /\ i.op \in Ops /\ i.width \in Nat
         /\ i.pop \in Nat /\ i.push \in Nat /\ i.ext \in Nat
  BY DEF Instruction

(* The jumps that widening inserts are instructions.                        *)
LEMMA FixedInstructions ==
  Blank \in Instruction /\ GotoIns \in Instruction /\ WideGotoIns \in Instruction
  BY DEF Blank, GotoIns, WideGotoIns, GotoWidth, WideGotoWidth, Instruction, Ops, BranchOps, JumpOps

USE DEF Ops, BranchOps, JumpOps, SwitchOps, ReturnOps

(* A sequence of one element.                                               *)
LEMMA OneElement == ASSUME NEW S, NEW x \in S PROVE <<x>> \in Seq(S)
  OBVIOUS

(* The invariant of the types holds at first.                               *)
LEMMA InitType == Init => TypeInv
<1> SUFFICES ASSUME Init PROVE TypeInv
  OBVIOUS
<1>1. GraphType
  BY FixedInstructions DEF Init, GraphType
<1>2. LinksType
  BY DEF Init, LinksType, Handler
<1>3. EncodingType
  BY DEF Init, EncodingType
<1>4. AnalysisType
  <2>1. depth \in [Node -> Int]
    BY DEF Init
  <2>2. visited \in [Node -> BOOLEAN]
    BY DEF Init
  <2>3. stacksize = 0 /\ maxStack = 0
    BY DEF Init
  <2>4. reCalc \in BOOLEAN /\ warned \in BOOLEAN
    BY DEF Init
  <2> QED BY <2>1, <2>2, <2>3, <2>4 DEF AnalysisType
<1>5. WalkType
  <2>1. work \in Seq(Frame)
    BY DEF Init
  <2> QED BY <2>1 DEF Init, WalkType
<1>6. ControlType
  BY DEF Init, ControlType
<1>7. LinksOK
  BY DEF Init, LinksOK, Fixed
<1>8. InCode /\ WorkOK
  BY DEF Init, InCode, WorkOK
<1> QED BY <1>1, <1>2, <1>3, <1>4, <1>5, <1>6, <1>7, <1>8 DEF TypeInv, TypeOK

(* What a step leaves alone keeps its type. *)
LEMMA FrameType ==
  TypeOK =>
    /\ UNCHANGED graph => GraphType'
    /\ UNCHANGED links => LinksType'
    /\ UNCHANGED encoding => EncodingType'
    /\ UNCHANGED analysis => AnalysisType'
    /\ UNCHANGED walk => WalkType'
    /\ UNCHANGED <<phase, methPc, layout>> => ControlType'
  BY DEF TypeOK, GraphType, LinksType, EncodingType, AnalysisType, WalkType, ControlType,
         graph, links, encoding, analysis, walk, layout

(* The client's calls keep the types and the links.                         *)
LEMMA BuildType == TypeInv /\ Build => TypeOK' /\ LinksOK'
<1> SUFFICES ASSUME TypeInv, Build PROVE TypeOK' /\ LinksOK'
  OBVIOUS
<1> USE FrameType DEF TypeInv
<1>t. GraphType /\ LinksType /\ EncodingType /\ AnalysisType /\ WalkType /\ ControlType
  BY DEF TypeOK
<1>1. ASSUME NEW i \in Instrs, OverwritePlaceholder(i) PROVE TypeOK' /\ LinksOK'
  <2> USE <1>1 DEF OverwritePlaceholder, EndsInPlaceholder, Last
  <2>a. i \in Instruction
    OBVIOUS
  <2>b. code[Len(code)] \in Node
    BY <1>t DEF GraphType
  <2>0. i \in Instruction /\ code[Len(code)] \in Node /\ i.op \in Ops /\ i.width \in Nat
    BY <2>a, <2>b, InstructionFields
  <2>1. GraphType'
    BY <1>t, <2>0 DEF GraphType
  <2>2. EncodingType'
    BY <1>t, <2>0 DEF EncodingType
  <2>3. ControlType'
    BY <1>t, <2>0 DEF ControlType, PlaceholderWidth, layout
  <2>4. LinksOK'
    BY <1>t, <2>0 DEF LinksOK, Fixed, links
  <2> QED BY <2>1, <2>2, <2>3, <2>4, <1>t DEF TypeOK, walk, analysis, links
<1>2. ASSUME NEW i \in Instrs, AppendInstr(i) PROVE TypeOK' /\ LinksOK'
  <2> USE <1>2 DEF AppendInstr
  <2>a. i \in Instruction
    OBVIOUS
  <2>b. i.op \in Ops /\ i.width \in Nat /\ i.ext \in Nat
    BY <2>a, InstructionFields
  <2>c. AppendedWidth(i) \in Nat
    BY <2>b DEF AppendedWidth
  <2>d. used + 1 \in Node
    BY <1>t DEF GraphType
  <2>0. i \in Instruction /\ used + 1 \in Node /\ AppendedWidth(i) \in Nat /\ i.op \in Ops
    BY <2>a, <2>b, <2>c, <2>d
  <2>1. GraphType'
    <3>1. used' \in 0..MaxInstrs /\ code' \in Seq(Node)
      BY <1>t, <2>0 DEF GraphType
    <3>2. ins' \in [Node -> Instruction]
      BY <1>t, <2>0 DEF GraphType
    <3>3. next' \in [Node -> NodeOrNone]
      BY <1>t, <2>0 DEF GraphType
    <3>4. pc' \in [Node -> Int]
      BY <1>t DEF GraphType, ControlType
    <3> QED BY <3>1, <3>2, <3>3, <3>4 DEF GraphType
  <2>2. EncodingType'
    BY <1>t, <2>0 DEF EncodingType, Instruction
  <2>3. ControlType'
    BY <1>t, <2>0 DEF ControlType, layout
  <2>4. LinksOK'
    BY <1>t, <2>0 DEF LinksOK, Fixed, links
  <2> QED BY <2>1, <2>2, <2>3, <2>4, <1>t DEF TypeOK
<1>3. CASE StartLinking
  <2>1. ControlType'
    BY <1>3, <1>t DEF StartLinking, ControlType, layout
  <2>2. LinksOK'
    BY <1>3, <1>t DEF StartLinking, LinksOK, Linked, Fixed, links, encoding, graph
  <2> QED BY <1>3, <2>1, <2>2 DEF TypeOK, StartLinking
<1>4. ASSUME NEW n \in Emitted, NEW t \in Emitted, SetBranchTarget(n, t) PROVE TypeOK' /\ LinksOK'
  <2> USE <1>4 DEF SetBranchTarget, Linking
  <2>0. n \in Node /\ t \in NodeOrNone
    BY <1>t DEF GraphType
  <2>1. EncodingType'
    BY <1>t, <2>0 DEF EncodingType
  <2>2. LinksOK'
    BY <1>t DEF LinksOK, Fixed, links, graph
  <2> QED BY <2>1, <2>2 DEF TypeOK, StartLinking
<1>5. ASSUME NEW n \in Emitted, NEW t \in Emitted, AddSwitchDefault(n, t) PROVE TypeOK' /\ LinksOK'
  <2> USE <1>5 DEF AddSwitchDefault, Linking
  <2>0. t \in Client
    BY <1>t DEF GraphType
  <2>a. dflt' \in [Node -> Client \cup {None}]
    BY <1>t, <2>0 DEF LinksType
  <2>1. LinksType'
    BY <1>t, <2>a DEF LinksType
  <2>2. LinksOK'
    BY <1>t DEF LinksOK, Fixed, graph
  <2> QED BY <2>1, <2>2 DEF TypeOK, encoding
<1>6. ASSUME NEW n \in Emitted, NEW l \in Label, SetBranchLabel(n, l) PROVE TypeOK' /\ LinksOK'
  <2> USE <1>6 DEF SetBranchLabel, Linking
  <2>a. label' \in [Node -> Label \cup {None}]
    BY <1>t DEF LinksType
  <2>1. LinksType'
    BY <1>t, <2>a DEF LinksType
  <2>2. LinksOK'
    BY <1>t DEF LinksOK, Fixed, graph, LinksType, GraphType
  <2> QED BY <2>1, <2>2 DEF TypeOK, encoding
<1>7. ASSUME NEW n \in Emitted, NEW l \in Label, AssociateLabel(l, n) PROVE TypeOK' /\ LinksOK'
  <2> USE <1>7 DEF AssociateLabel, AllLinked
  <2>0. n \in Client
    BY <1>t DEF GraphType
  <2>a. labelled' \in [Label -> Client \cup {None}]
    BY <1>t, <2>0 DEF LinksType
  <2>1. LinksType'
    BY <1>t, <2>a DEF LinksType
  <2>2. LinksOK'
    BY <1>t DEF LinksOK, Fixed, graph, encoding
  <2> QED BY <2>1, <2>2 DEF TypeOK, encoding
<1>8. ASSUME NEW n \in Emitted, NEW t \in Emitted, NEW c \in CaseNum, AddSwitchCase(n, c, t) PROVE TypeOK' /\ LinksOK'
  <2> USE <1>8 DEF AddSwitchCase, Linking
  <2>0. n \in Node /\ t \in Client /\ c \in Int
    BY <1>t DEF GraphType
  <2>a. <<c, t>> \in CaseNum \X Client
    BY <2>0
  <2>1. cases' \in [Node -> SUBSET (CaseNum \X Client)]
    BY <2>0, <2>a, <1>t, ZenonT(20) DEF LinksType
  <2>2. LinksType'
    BY <2>0, <2>1, <1>t DEF LinksType
  <2>3. EncodingType'
    BY <2>0, <1>t DEF EncodingType
  <2>4. LinksOK'
    <3>1. UNCHANGED <<phase, used, label>> /\ phase = "link"
      BY DEF graph
    <3> QED BY <1>t, <3>1 DEF LinksOK, Fixed
  <2> QED BY <2>2, <2>3, <2>4 DEF TypeOK
<1>9. ASSUME NEW f \in Emitted, NEW to \in Emitted, NEW t \in Emitted, AddHandler(f, to, t) PROVE TypeOK' /\ LinksOK'
  <2> USE <1>9 DEF AddHandler, AllLinked
  <2>0. [from |-> f, to |-> to, target |-> t] \in Handler
    BY <1>t DEF GraphType, Handler
  <2>a. handlers' \in Seq(Handler)
    BY <1>t, <2>0 DEF LinksType
  <2>1. LinksType'
    BY <1>t, <2>a DEF LinksType
  <2>2. LinksOK'
    <3>1. UNCHANGED <<phase, used, op, label, target, dflt>> /\ phase = "link"
      BY DEF graph, encoding
    <3>2. UNCHANGED Fixed /\ UNCHANGED Emitted
      BY <3>1 DEF Fixed
    <3> QED BY <1>t, <3>1, <3>2 DEF LinksOK, Linked, Fixed
  <2> QED BY <2>1, <2>2 DEF TypeOK
<1>10. CASE StartTraverse
  <2>0. code # <<>> => Head(code) \in Node
    <3>1. code \in Seq(Node)
      BY <1>t DEF GraphType
    <3> HIDE DEF Node
    <3> QED BY <3>1
  <2> USE <1>10 DEF StartTraverse, AllLinked
  <2>1. AnalysisType'
    <3>1. depth' \in [Node -> Int]
      BY <1>t, <2>0 DEF AnalysisType
    <3>2. reCalc' \in BOOLEAN
      BY <1>t DEF AnalysisType
    <3> QED BY <1>t, <3>1, <3>2 DEF AnalysisType
  <2>a. code # <<>> => Enter(Head(code)) \in Frame
    BY <2>0 DEF Enter, Frame
  <2>b. work' \in Seq(Frame)
    <3>1. CASE code = <<>>
      BY <1>t, <3>1 DEF WalkType
    <3>2. CASE code # <<>>
      BY <2>a, <3>2, OneElement
    <3> QED BY <3>1, <3>2
  <2>2. WalkType'
    BY <1>t, <2>b DEF WalkType
  <2>3. ControlType'
    BY <1>t DEF ControlType, layout
  <2>4. LinksOK'
    BY <1>t DEF LinksOK, Fixed, graph, encoding, links, Linked
  <2> QED BY <2>1, <2>2, <2>3, <2>4 DEF TypeOK
<1> QED BY <1>1, <1>2, <1>3, <1>4, <1>5, <1>6, <1>7, <1>8, <1>9, <1>10 DEF Build

(* Building the method puts every new node into the code and starts no      *)
(* traversal but the first.                                                 *)
LEMMA BuildCode == TypeInv /\ Build => InCode' /\ WorkOK'
<1> SUFFICES ASSUME TypeInv, Build PROVE InCode' /\ WorkOK'
  OBVIOUS
<1>t. TypeOK /\ InCode /\ WorkOK
  BY DEF TypeInv
<1>1. ASSUME NEW i \in Instrs, OverwritePlaceholder(i) PROVE InCode' /\ WorkOK'
  BY <1>t, <1>1 DEF OverwritePlaceholder, InCode, WorkOK, walk
<1>2. ASSUME NEW i \in Instrs, AppendInstr(i) PROVE InCode' /\ WorkOK'
  <2>1. code \in Seq(Node) /\ used \in Nat
    BY <1>t DEF TypeOK, GraphType
  <2>2. InCode'
    <3> SUFFICES ASSUME NEW m \in 1..(used + 1) PROVE \E k \in 1..Len(code') : code'[k] = m
      BY <1>2 DEF AppendInstr, InCode
    <3>1. code' = Append(code, used + 1) /\ Len(code') = Len(code) + 1
      BY <1>2, <2>1 DEF AppendInstr
    <3>2. CASE m \in Emitted
      <4>1. PICK k \in 1..Len(code) : code[k] = m
        BY <1>t, <3>2 DEF InCode
      <4>2. code'[k] = m /\ k \in 1..Len(code')
        BY <2>1, <3>1, <4>1
      <4> QED BY <4>2
    <3>3. CASE m = used + 1
      BY <2>1, <3>1, <3>3
    <3> QED BY <2>1, <3>2, <3>3
  <2>3. WorkOK'
    BY <1>t, <1>2 DEF AppendInstr, WorkOK, walk
  <2> QED BY <2>2, <2>3
<1>3. CASE StartTraverse
  <2>1. InCode'
    BY <1>t, <1>3 DEF StartTraverse, InCode, graph
  <2>2. WorkOK'
    BY <1>t, <1>3 DEF StartTraverse, WorkOK, AllLinked, Enter
  <2> QED BY <2>1, <2>2
<1>4. CASE UNCHANGED <<graph, work>> /\ phase \in {"append", "link"}
  BY <1>t, <1>4 DEF InCode, WorkOK, graph
<1> QED
  BY <1>1, <1>2, <1>3, <1>4
  DEF Build, StartLinking, SetBranchTarget, AddSwitchDefault, SetBranchLabel, AssociateLabel,
      AddSwitchCase, AddHandler, Linking, AllLinked, walk

(* The frames calc_offsets pushes are frames. *)
LEMMA FrameFields ==
  /\ \A n \in Node : Enter(n) \in Frame /\ After(n) \in Frame
  /\ \A n \in Node, c \in Int : Cases(n, c) \in Frame
  BY DEF Enter, After, Cases, Frame

(* Entering a node, if there is one, is a sequence of frames.               *)
LEMMA EnterIfType == ASSUME NEW n \in NodeOrNone PROVE EnterIf(n) \in Seq(Frame)
  BY FrameFields DEF EnterIf

(* The innermost frame and those below it.                                  *)
LEMMA TailType == ASSUME WalkType, work # <<>> PROVE Tail(work) \in Seq(Frame) /\ Head(work) \in Frame
  BY DEF WalkType

(* get_list_node finds a node that is in the code.                          *)
LEMMA PositionFacts ==
  ASSUME InCode, NEW n \in Emitted
  PROVE  Position(n) \in 1..Len(code) /\ code[Position(n)] = n
  BY DEF InCode, Position

(* bc_node_at_pc finds a node of the code, or none. *)
LEMMA NodeAtPcType ==
  ASSUME GraphType, NEW p \in Int
  PROVE  /\ NodeAtPc(p) \in NodeOrNone
         /\ NodeAtPc(p) # None => \E k \in 1..Len(code) : code[k] = NodeAtPc(p) /\ pc[code[k]] = p
<1> DEFINE At(n) == \E k \in 1..Len(code) : n = code[k] /\ pc[n] = p /\ \A j \in 1..(k - 1) : pc[code[j]] < p
<1>1. CASE \E k \in 1..Len(code) : pc[code[k]] = p /\ \A j \in 1..(k - 1) : pc[code[j]] < p
  <2>1. \A k \in 1..Len(code) : code[k] \in Node
    BY DEF GraphType
  <2>2. \E n \in Node : At(n)
    BY <1>1, <2>1
  <2>3. NodeAtPc(p) = CHOOSE n \in Node : At(n)
    BY <1>1 DEF NodeAtPc
  <2>4. NodeAtPc(p) \in Node /\ At(NodeAtPc(p))
    <3> HIDE DEF At
    <3> QED BY <2>2, <2>3
  <2> QED BY <2>4
<1>2. CASE ~ \E k \in 1..Len(code) : pc[code[k]] = p /\ \A j \in 1..(k - 1) : pc[code[j]] < p
  BY <1>2 DEF NodeAtPc
<1> QED BY <1>1, <1>2

(* A jump's destination is a node, or none.                                 *)
LEMMA JumpDestType == ASSUME TypeOK, NEW n \in Node PROVE JumpDest(n) \in NodeOrNone
<1>1. CASE target[n] # None
  BY <1>1 DEF JumpDest, TypeOK, EncodingType
<1>2. CASE target[n] = None /\ label[n] \in Label /\ labelled[label[n]] # None
  <2>1. GraphType /\ LinksType
    BY DEF TypeOK
  <2>2. labelled[label[n]] \in Client
    BY <1>2, <2>1 DEF LinksType
  <2>3. pc[labelled[label[n]]] \in Int
    BY <2>1, <2>2 DEF GraphType
  <2>4. NodeAtPc(pc[labelled[label[n]]]) \in NodeOrNone
    BY <2>1, <2>3, NodeAtPcType
  <2> QED BY <1>2, <2>4 DEF JumpDest
<1>3. CASE target[n] = None /\ ~ (label[n] \in Label /\ labelled[label[n]] # None)
  BY <1>3 DEF JumpDest
<1> QED BY <1>1, <1>2, <1>3

(* What visiting a node does to the stack is a number. *)
LEMMA SizeAfterType == ASSUME TypeOK, NEW n \in Node PROVE SizeAfter(n) \in Int
<1>1. ins[n] \in Instruction /\ depth[n] \in Int
  BY DEF TypeOK, GraphType, AnalysisType
<1>2. ins[n].pop \in Nat /\ ins[n].push \in Nat
  BY <1>1, InstructionFields
<1> QED BY <1>1, <1>2 DEF SizeAfter

(* A switch's width is a natural number.                                    *)
LEMMA SwitchWidthType ==
  ASSUME TypeOK, NEW n \in Node, NEW o, NEW p \in Int
  PROVE  SwitchWidth(n, o, p) \in Nat
<1>1. Span(n) \in Int /\ entries[n] \in Int
  BY DEF TypeOK, LinksType, EncodingType, Span
<1>2. Padding(p) \in Int
  BY DEF Padding
<1> DEFINE W == IF o = "tableswitch" THEN 1 + Padding(p) + 12 + Span(n) * 4
                                     ELSE 1 + Padding(p) + 8 + entries[n] * 8
<1>3. W \in Int
  BY <1>1, <1>2
<1>4. W % 256 \in Nat
  <2> HIDE DEF W
  <2> QED BY <1>3
<1> QED BY <1>4 DEF SwitchWidth, SwitchBytes

(* A case goes to a node of the client's.                                   *)
LEMMA CaseDestType ==
  ASSUME TypeInv, Fixed, NEW n \in Emitted, op[n] \in SwitchOps, NEW c
  PROVE  CaseDest(n, c) \in Client
<1>1. dflt[n] \in Client
  BY DEF TypeInv, TypeOK, LinksType, LinksOK, Linked, GraphType
<1> QED BY <1>1 DEF CaseDest

(* The numbers of a switch's cases are integers.                            *)
LEMMA SortedNumbersType ==
  ASSUME TypeOK, NEW n \in Node, NEW c \in SortedNumbers(n)
  PROVE  c \in Int
<1>1. CASE op[n] = "tableswitch"
  BY <1>1 DEF SortedNumbers, TypeOK, LinksType
<1>2. CASE op[n] # "tableswitch"
  <2>1. PICK e \in cases[n] : c = e[1]
    BY <1>2 DEF SortedNumbers
  <2>2. e \in CaseNum \X Client
    BY <2>1 DEF TypeOK, LinksType
  <2> QED BY <2>1, <2>2
<1> QED BY <1>1, <1>2

(* What every visit of a node has in common. *)
LEMMA VisitType ==
  ASSUME TypeInv, NEW n \in Emitted, Visit(n)
  PROVE  /\ n \in Node /\ Fixed /\ Fixed' /\ Linked(n)
         /\ SizeAfter(n) \in Int
         /\ LinksType' /\ ControlType'
         /\ stacksize' \in Int /\ maxStack' \in Nat
         /\ Tail(work) \in Seq(Frame)
         /\ entered' \in Nat /\ orphan' \in BOOLEAN
<1> USE DEF Visit, Top
<1>1. n \in Node
  BY DEF TypeInv, TypeOK, GraphType
<1>2. Fixed /\ Fixed'
  BY DEF Fixed
<1>3. Linked(n)
  BY <1>2 DEF TypeInv, LinksOK
<1>4. SizeAfter(n) \in Int
  BY <1>1, SizeAfterType DEF TypeInv
<1>5. LinksType'
  BY FrameType DEF TypeInv
<1>6. ControlType'
  BY DEF TypeInv, TypeOK, ControlType, layout
<1>7. stacksize' \in Int
  BY <1>4
<1>8. maxStack' \in Nat
  BY <1>4 DEF TypeInv, TypeOK, AnalysisType, Bigger
<1>9. Tail(work) \in Seq(Frame)
  BY TailType DEF TypeInv, TypeOK
<1>10. entered' \in Nat /\ orphan' \in BOOLEAN
  BY DEF TypeInv, TypeOK, WalkType
<1> QED BY <1>1, <1>2, <1>3, <1>4, <1>5, <1>6, <1>7, <1>8, <1>9, <1>10

(* The links stay what they were while no branch loses its target and a     *)
(* switch or a jump stays one.                                              *)
LEMMA LinksKept ==
  ASSUME TypeInv, Fixed, Fixed', UNCHANGED <<used, label, dflt>>,
         \A n \in Emitted : /\ target[n] # None => target'[n] # None
                            /\ op[n] \in JumpOps => op'[n] \in JumpOps
                            /\ op'[n] \in BranchOps => op[n] \in BranchOps
                            /\ op'[n] \in SwitchOps => op[n] \in SwitchOps
  PROVE  LinksOK'
<1>1. phase' # "append"
  BY DEF Fixed
<1>2. \A n \in Emitted : label[n] # None => op'[n] \in JumpOps
  BY DEF TypeInv, LinksOK
<1>3. \A n \in Emitted : Linked(n)'
  BY DEF TypeInv, LinksOK, Linked
<1> QED BY <1>1, <1>2, <1>3 DEF LinksOK

(* Setting the depth of a node keeps the type of all depths.                *)
LEMMA DepthUpdateType ==
  ASSUME TypeOK, NEW S, NEW v \in Int, depth' = [m \in Node |-> IF m \in S THEN v ELSE depth[m]]
  PROVE  depth' \in [Node -> Int]
  BY DEF TypeOK, AnalysisType

(* The traversal keeps the types and the links.                             *)
LEMMA TraverseType == TypeInv /\ Traverse => TypeOK' /\ LinksOK'
<1> SUFFICES ASSUME TypeInv, Traverse PROVE TypeOK' /\ LinksOK'
  OBVIOUS
<1> USE DEF TypeInv
<1>t. GraphType /\ LinksType /\ EncodingType /\ AnalysisType /\ WalkType /\ ControlType
  BY DEF TypeOK
<1>n. \A n \in Emitted : n \in Node
  BY <1>t DEF GraphType
<1>1. ASSUME NEW n \in Emitted, EnterVisited(n) PROVE TypeOK' /\ LinksOK'
  <2> USE <1>1 DEF EnterVisited, Top
  <2>1. WalkType'
    BY <1>t, TailType DEF WalkType
  <2>2. LinksOK'
    BY DEF LinksOK, Linked, Fixed, graph, links, encoding
  <2>3. ControlType'
    BY <1>t DEF ControlType, layout
  <2> QED BY <2>1, <2>2, <2>3, FrameType DEF TypeOK
<1>2. ASSUME NEW n \in Emitted, VisitPlain(n) PROVE TypeOK' /\ LinksOK'
  <2> USE <1>2 DEF VisitPlain
  <2>0. n \in Node /\ Fixed /\ Fixed' /\ SizeAfter(n) \in Int /\ next[n] \in NodeOrNone
    BY <1>t, VisitType DEF GraphType
  <2>1. visited' \in [Node -> BOOLEAN]
    BY <1>t, <2>0 DEF AnalysisType
  <2>2. depth' \in [Node -> Int]
    BY <1>t, <2>0 DEF AnalysisType
  <2>3. AnalysisType'
    BY <1>t, <2>1, <2>2, VisitType DEF AnalysisType
  <2>4. work' \in Seq(Frame)
    BY <2>0, EnterIfType, VisitType
  <2>5. WalkType'
    BY <2>4, VisitType DEF WalkType
  <2>6. LinksOK'
    BY <2>0, LinksKept DEF Visit, graph, links, encoding
  <2> QED BY <2>3, <2>5, <2>6, VisitType, FrameType DEF TypeOK
<1>3. ASSUME NEW n \in Emitted, VisitReturn(n) PROVE TypeOK' /\ LinksOK'
  <2> USE <1>3 DEF VisitReturn
  <2>1. visited' \in [Node -> BOOLEAN]
    BY <1>t, VisitType DEF AnalysisType
  <2>2. AnalysisType'
    BY <1>t, <2>1, VisitType DEF AnalysisType
  <2>3. WalkType'
    BY VisitType DEF WalkType
  <2>4. LinksOK'
    BY VisitType, LinksKept DEF Visit, graph, links, encoding
  <2> QED BY <2>2, <2>3, <2>4, VisitType, FrameType DEF TypeOK
<1>4. ASSUME NEW n \in Emitted, VisitLostJump(n) PROVE TypeOK' /\ LinksOK'
  <2> USE <1>4 DEF VisitLostJump
  <2>1. visited' \in [Node -> BOOLEAN]
    BY <1>t, VisitType DEF AnalysisType
  <2>2. AnalysisType'
    BY <1>t, <2>1, VisitType DEF AnalysisType
  <2>3. AfterJsr(n) \in Seq(Frame)
    BY VisitType, FrameFields DEF AfterJsr
  <2>4. WalkType'
    BY <2>3, VisitType DEF WalkType
  <2>5. LinksOK'
    BY VisitType, LinksKept DEF Visit, graph, links, encoding
  <2> QED BY <2>2, <2>4, <2>5, VisitType, FrameType DEF TypeOK
<1>5. ASSUME NEW n \in Emitted, VisitJump(n) PROVE TypeOK' /\ LinksOK'
  <2> DEFINE d == JumpDest(n)
  <2>0. n \in Node /\ d \in Node /\ SizeAfter(n) \in Int /\ pc[d] - pc[n] \in Int
    <3>1. n \in Node /\ d \in Node /\ SizeAfter(n) \in Int
      BY <1>5, VisitType, JumpDestType DEF VisitJump
    <3> QED BY <1>t, <3>1 DEF GraphType
  <2> HIDE DEF d
  <2>1. /\ Visit(n)
        /\ op[n] \in JumpOps
        /\ visited' = [visited EXCEPT ![n] = TRUE]
        /\ depth' = [depth EXCEPT ![d] = IF @ = -1 THEN SizeAfter(n) ELSE @]
        /\ warned' = (warned \/ depth[d] \notin {-1, SizeAfter(n)})
        /\ reCalc' = (reCalc \/ TooFar(op[n], pc[d], pc[n]))
        /\ work' = <<Enter(d)>> \o AfterJsr(n) \o Tail(work)
        /\ operand' = [operand EXCEPT ![n] = pc[d] - pc[n]]
        /\ target' = [target EXCEPT ![n] = d]
        /\ UNCHANGED <<graph, entries>>
    BY <1>5 DEF VisitJump, d
  <2>2. /\ op' \in [Node -> Ops] /\ op'[n] \in JumpOps
        /\ \A m \in Node : m # n => op'[m] = op[m]
    BY <1>t, <2>0, <1>5 DEF EncodingType, VisitJump
  <2>3. width' \in [Node -> Nat]
    BY <1>t, <2>0, <1>5 DEF EncodingType, VisitJump, WideGotoWidth
  <2>4. EncodingType'
    BY <1>t, <2>0, <2>1, <2>2, <2>3 DEF EncodingType
  <2>5. visited' \in [Node -> BOOLEAN] /\ depth' \in [Node -> Int]
    BY <1>t, <2>0, <2>1 DEF AnalysisType
  <2>6. AnalysisType'
    BY <1>t, <2>1, <2>5, VisitType DEF AnalysisType
  <2>7. work' \in Seq(Frame)
    <3>1. AfterJsr(n) \in Seq(Frame) /\ <<Enter(d)>> \in Seq(Frame)
      BY <2>0, FrameFields DEF AfterJsr
    <3> QED BY <2>1, <3>1, VisitType
  <2>8. WalkType'
    BY <2>1, <2>7, VisitType DEF WalkType
  <2>9. LinksOK'
    <3>1. \A m \in Emitted : target[m] # None => target'[m] # None
      <4>1. \A m \in Node : target'[m] = IF m = n THEN d ELSE target[m]
        BY <1>t, <2>0, <2>1 DEF EncodingType
      <4> QED BY <1>n, <2>0, <4>1
    <3> QED BY <1>n, <2>1, <2>2, <3>1, VisitType, LinksKept DEF Visit, graph, links
  <2> QED BY <2>1, <2>4, <2>6, <2>8, <2>9, VisitType, FrameType DEF TypeOK
<1>6. ASSUME NEW n \in Emitted, ReturnFromJsr(n) PROVE TypeOK' /\ LinksOK'
  <2> USE <1>6 DEF ReturnFromJsr, Top
  <2>1. depth' \in [Node -> Int]
    BY <1>t DEF AnalysisType
  <2>2. AnalysisType'
    BY <1>t, <2>1 DEF AnalysisType
  <2>3. next[n] \in NodeOrNone
    BY <1>n, <1>t DEF GraphType
  <2>4. WalkType'
    BY <1>t, <2>3, EnterIfType, TailType DEF WalkType
  <2>5. LinksOK'
    BY DEF LinksOK, Linked, Fixed, graph, links, encoding
  <2>6. ControlType'
    BY <1>t DEF ControlType, layout
  <2> QED BY <2>2, <2>4, <2>5, <2>6, FrameType DEF TypeOK
<1>7. ASSUME NEW n \in Emitted, Visit(n), op[n] = "cond"
      PROVE  next[n] \in NodeOrNone /\ target[n] \in Node /\ pc[target[n]] - pc[n] \in Int
  <2>1. next[n] \in NodeOrNone /\ target[n] \in Node
    BY <1>7, <1>t, <1>n, VisitType DEF GraphType, EncodingType, LinksOK, Linked
  <2> QED BY <2>1, <1>n, <1>t DEF GraphType
<1>8. ASSUME NEW n \in Emitted, Visit(n), op[n] = "cond", CondDepths(n), CondWork(n)
      PROVE  depth' \in [Node -> Int] /\ WalkType'
  <2>1. depth' \in [Node -> Int]
    BY <1>8, VisitType, DepthUpdateType DEF CondDepths
  <2>2. EnterIf(next[n]) \in Seq(Frame)
    BY <1>7, <1>8, EnterIfType
  <2>a. Enter(target[n]) \in Frame
    BY <1>7, <1>8, FrameFields
  <2>3. WalkType'
    BY <1>8, <2>2, <2>a, VisitType DEF CondWork, WalkType
  <2> QED BY <2>1, <2>3
<1>9. ASSUME NEW n \in Emitted, VisitCond(n) PROVE TypeOK' /\ LinksOK'
  <2> USE <1>9 DEF VisitCond
  <2>1. depth' \in [Node -> Int] /\ WalkType'
    BY <1>8
  <2>2. visited' \in [Node -> BOOLEAN]
    BY <1>t, <1>n DEF AnalysisType
  <2>3. AnalysisType'
    BY <1>t, <2>1, <2>2, VisitType DEF AnalysisType
  <2>4. EncodingType'
    BY <1>t, <1>7 DEF EncodingType
  <2>5. LinksOK'
    BY VisitType, LinksKept DEF Visit, graph, links, encoding
  <2> QED BY <2>1, <2>3, <2>4, <2>5, VisitType, FrameType DEF TypeOK
<1>10. ASSUME NEW n \in Emitted, VisitFarCond(n) PROVE TypeOK' /\ LinksOK'
  <2> DEFINE g == GotoOf(n)
             w == WideOf(n)
  <2>0. n \in Node /\ g \in Node /\ w \in Node /\ g # w /\ g \notin Emitted /\ w \notin Emitted
    BY <1>t DEF GotoOf, WideOf, GraphType
  <2> HIDE DEF g, w
  <2>1. /\ Visit(n) /\ op[n] = "cond" /\ CondDepths(n) /\ CondWork(n)
        /\ visited' = [m \in Node |-> m \in {n, g, w} \/ visited[m]]
        /\ reCalc' = TRUE
        /\ ins' = [ins EXCEPT ![g] = GotoIns, ![w] = WideGotoIns]
        /\ op' = [op EXCEPT ![g] = "goto", ![w] = "goto_w"]
        /\ width' = [width EXCEPT ![g] = GotoWidth, ![w] = WideGotoWidth]
        /\ pc' = [pc EXCEPT ![g] = methPc, ![w] = methPc]
        /\ operand' = [operand EXCEPT ![n] = pc[target[n]] - pc[n]]
        /\ next' = [next EXCEPT ![n] = g, ![g] = w, ![w] = next[n]]
        /\ target' = [target EXCEPT ![n] = w, ![g] = next[n], ![w] = target[n]]
        /\ code' = InsertAfter(code, Position(n), g, w)
        /\ UNCHANGED <<used, entries, warned>>
    BY <1>10 DEF VisitFarCond, g, w
  <2>2. next[n] \in NodeOrNone /\ target[n] \in Node /\ pc[target[n]] - pc[n] \in Int
    BY <1>7, <2>1
  <2>3. depth' \in [Node -> Int] /\ WalkType'
    BY <1>8, <2>1
  <2>4. visited' \in [Node -> BOOLEAN]
    BY <1>t, <2>1 DEF AnalysisType
  <2>5. AnalysisType'
    BY <1>t, <2>1, <2>3, <2>4, VisitType DEF AnalysisType
  <2>6. EncodingType'
    BY <1>t, <2>0, <2>1, <2>2 DEF EncodingType, GotoWidth, WideGotoWidth
  <2>7. ins' \in [Node -> Instruction] /\ pc' \in [Node -> Int]
    BY <1>t, <2>0, <2>1, FixedInstructions DEF GraphType, ControlType
  <2>8. next' \in [Node -> NodeOrNone]
    BY <1>t, <2>0, <2>1, <2>2 DEF GraphType
  <2>9. code' \in Seq(Node)
    <3>1. code \in Seq(Node)
      BY <1>t DEF GraphType
    <3>2. Position(n) \in 1..Len(code)
      BY PositionFacts
    <3> QED BY <2>0, <2>1, <3>1, <3>2, InsertAfterType
  <2>10. GraphType'
    BY <1>t, <2>1, <2>7, <2>8, <2>9 DEF GraphType
  <2>11. LinksOK'
    <3>1. \A m \in Emitted : op'[m] = op[m] /\ (target[m] # None => target'[m] # None)
      <4>1. \A m \in Node : /\ m \notin {g, w} => op'[m] = op[m]
                            /\ m \notin {n, g, w} => target'[m] = target[m]
        BY <1>t, <2>1 DEF EncodingType
      <4>2. target'[n] = w
        BY <1>t, <2>0, <2>1 DEF EncodingType
      <4> QED BY <1>n, <2>0, <4>1, <4>2
    <3> QED BY <2>1, <3>1, VisitType, LinksKept DEF Visit, links
  <2> QED BY <2>1, <2>3, <2>5, <2>6, <2>10, <2>11, VisitType DEF TypeOK
<1>11. ASSUME NEW n \in Emitted, VisitSwitch(n) PROVE TypeOK' /\ LinksOK'
  <2> USE <1>11 DEF VisitSwitch
  <2>0. Span(n) \in Int /\ low[n] \in Int /\ pc[n] \in Int
    BY <1>n, <1>t DEF LinksType, GraphType, Span
  <2>1. \A o : SwitchWidth(n, o, pc[n]) \in Nat
    BY <1>n, <2>0, SwitchWidthType
  <2>2. /\ op' \in [Node -> Ops] /\ op'[n] \in SwitchOps
        /\ \A m \in Node : m # n => op'[m] = op[m]
    BY <1>t, <1>n DEF EncodingType
  <2>3. EncodingType'
    BY <1>t, <1>n, <2>0, <2>1, <2>2 DEF EncodingType
  <2>4. visited' \in [Node -> BOOLEAN]
    BY <1>t, <1>n DEF AnalysisType
  <2>5. AnalysisType'
    BY <1>t, <2>4, VisitType DEF AnalysisType
  <2>6. WalkType'
    BY <1>n, <2>0, FrameFields, VisitType DEF WalkType
  <2>7. LinksOK'
    BY <1>n, <2>2, VisitType, LinksKept DEF Visit, graph, links
  <2> QED BY <2>3, <2>5, <2>6, <2>7, VisitType, FrameType DEF TypeOK
<1>12. ASSUME NEW n \in Emitted, DefaultCase(n, Head(work).from) PROVE TypeOK' /\ LinksOK'
  <2> USE <1>12 DEF DefaultCase, Top
  <2>0. op[n] \in SwitchOps /\ Fixed /\ Fixed'
    <3>1. work[1] = Cases(n, Head(work).from) /\ 1 \in 1..Len(work)
      BY <1>t DEF WalkType
    <3> QED BY <3>1 DEF WorkOK, Cases, Fixed
  <2>a. dflt[n] # None /\ dflt[n] \in Client \cup {None}
    BY <2>0, <1>n, <1>t DEF LinksOK, Linked, LinksType
  <2>1. dflt[n] \in Node
    BY <2>a
  <2>2. WalkType'
    BY <1>t, <2>1, TailType, FrameFields DEF WalkType
  <2>3. LinksOK'
    BY <2>0, LinksKept DEF graph, links, encoding
  <2>4. ControlType'
    BY <1>t DEF ControlType, layout
  <2> QED BY <2>2, <2>3, <2>4, FrameType DEF TypeOK
<1>13. ASSUME NEW n \in Emitted, NEW c \in SortedNumbers(n), NextCase(n, Head(work).from, c) PROVE TypeOK' /\ LinksOK'
  <2> USE <1>13 DEF NextCase, Top
  <2>0. op[n] \in SwitchOps /\ Fixed /\ Fixed'
    <3>1. work[1] = Cases(n, Head(work).from) /\ 1 \in 1..Len(work)
      BY <1>t DEF WalkType
    <3> QED BY <3>1 DEF WorkOK, Cases, Fixed
  <2>1. CaseDest(n, c) \in Node /\ c \in Int
    BY <1>n, <2>0, CaseDestType, SortedNumbersType
  <2>2. depth' \in [Node -> Int]
    BY <1>t, <2>1 DEF AnalysisType
  <2>3. AnalysisType'
    BY <1>t, <2>2 DEF AnalysisType
  <2>4. Enter(CaseDest(n, c)) \in Frame /\ Cases(n, c + 1) \in Frame
    BY <1>n, <2>1, FrameFields
  <2>5. WalkType'
    BY <1>t, <2>4, TailType DEF WalkType
  <2>6. LinksOK'
    BY <2>0, LinksKept DEF graph, links, encoding
  <2>7. ControlType'
    BY <1>t DEF ControlType, layout
  <2> QED BY <2>3, <2>5, <2>6, <2>7, FrameType DEF TypeOK
<1>14. CASE EnterHandler
  <2> USE <1>14 DEF EnterHandler
  <2>0. handlers[entered + 1] \in Handler
    BY <1>t DEF LinksType, WalkType
  <2>1. handlers[entered + 1].target \in Node /\ handlers[entered + 1].from \in Node
    BY <2>0 DEF Handler
  <2>2. depth' \in [Node -> Int]
    BY <1>t, <2>1 DEF AnalysisType
  <2>3. AnalysisType'
    BY <1>t, <2>2 DEF AnalysisType
  <2>4. work' \in Seq(Frame)
    BY <2>1, FrameFields
  <2>5. WalkType'
    BY <1>t, <2>4 DEF WalkType
  <2>6. LinksOK'
    BY DEF LinksOK, Linked, Fixed, graph, links, encoding
  <2>7. ControlType'
    BY <1>t DEF ControlType, layout
  <2> QED BY <2>3, <2>5, <2>6, <2>7, FrameType DEF TypeOK
<1> QED BY <1>1, <1>2, <1>3, <1>4, <1>5, <1>6, <1>9, <1>10, <1>11, <1>12, <1>13, <1>14 DEF Traverse

(* What calc_offsets does to its stack of calls and to the code keeps       *)
(* WorkOK and InCode.                                                       *)
LEMMA WorkKept ==
  ASSUME TypeInv, work # <<>>, UNCHANGED used, phase' \notin {"append", "link"},
         NEW p \in Seq(Frame), work' = p \o Tail(work),
         \A k \in 1..Len(p) :
           p[k].at = "cases" => p[k].node \in Emitted /\ op'[p[k].node] \in SwitchOps,
         \A n \in Emitted : op[n] \in SwitchOps => op'[n] \in SwitchOps
  PROVE  WorkOK'
<1>1. work \in Seq(Frame)
  BY DEF TypeInv, TypeOK, WalkType
<1>2. SUFFICES ASSUME NEW k \in 1..Len(work'), work'[k].at = "cases"
               PROVE  work'[k].node \in Emitted /\ op'[work'[k].node] \in SwitchOps
  BY DEF WorkOK
<1>3. CASE k <= Len(p)
  BY <1>1, <1>2, <1>3
<1>4. CASE k > Len(p)
  <2> DEFINE j == k - Len(p) + 1
  <2>1. j \in 1..Len(work) /\ work'[k] = work[j]
    BY <1>1, <1>2, <1>4
  <2>2. work[j].node \in Emitted /\ op[work[j].node] \in SwitchOps
    BY <1>2, <2>1 DEF TypeInv, WorkOK
  <2> QED BY <2>1, <2>2
<1> QED BY <1>1, <1>2, <1>3, <1>4

(* Returning from a call leaves frames that are well formed.                *)
LEMMA WorkPopped ==
  ASSUME TypeInv, work # <<>>, UNCHANGED <<used, op>>, phase' \notin {"append", "link"}, work' = Tail(work)
  PROVE  WorkOK'
<1>1. <<>> \in Seq(Frame) /\ \A k \in 1..Len(<<>>) : FALSE
  OBVIOUS
<1>2. work' = <<>> \o Tail(work)
  BY TailType DEF TypeInv, TypeOK
<1> QED BY <1>1, <1>2, WorkKept

(* So does replacing the innermost frame by well-formed ones.               *)
LEMMA WorkReplaced ==
  ASSUME TypeInv, work # <<>>, UNCHANGED used, phase' \notin {"append", "link"},
         NEW f \in Frame, work' = <<f>> \o Tail(work),
         f.at = "cases" => f.node \in Emitted /\ op'[f.node] \in SwitchOps,
         \A n \in Emitted : op[n] \in SwitchOps => op'[n] \in SwitchOps
  PROVE  WorkOK'
<1> DEFINE p == <<f>>
<1>1. p \in Seq(Frame)
  BY OneElement
<1>2. \A k \in 1..Len(p) : p[k] = f
  OBVIOUS
<1>3. work' = p \o Tail(work)
  OBVIOUS
<1> HIDE DEF p
<1> QED BY <1>1, <1>2, <1>3, WorkKept

(* Entering a node leaves no switch cases to go on with,                    *)
LEMMA EnterIfPlain ==
  \A n : \A k \in 1..Len(EnterIf(n)) : EnterIf(n)[k].at # "cases"
  BY DEF EnterIf, Enter

(* and neither does the return from a jsr.                                  *)
LEMMA AfterJsrPlain ==
  \A n : \A k \in 1..Len(AfterJsr(n)) : AfterJsr(n)[k].at # "cases"
  BY DEF AfterJsr, After

(* The traversal keeps the client's nodes in the code and the frames well formed. *)
LEMMA TraverseCode == TypeInv /\ Traverse => InCode' /\ WorkOK'
<1> SUFFICES ASSUME TypeInv, Traverse PROVE InCode' /\ WorkOK'
  OBVIOUS
<1>t. GraphType /\ LinksType /\ EncodingType /\ AnalysisType /\ WalkType /\ ControlType
      /\ LinksOK /\ InCode /\ WorkOK
  BY DEF TypeInv, TypeOK
<1>n. \A n \in Emitted : n \in Node
  BY <1>t DEF GraphType
<1>1. ASSUME UNCHANGED <<used, code>> PROVE InCode'
  BY <1>t, <1>1 DEF InCode
<1>2. ASSUME NEW n \in Emitted, EnterVisited(n) PROVE InCode' /\ WorkOK'
  <2>2. WorkOK'
    BY <1>2, WorkPopped DEF EnterVisited, Top, graph, encoding
  <2> QED BY <1>1, <1>2, <2>2 DEF EnterVisited, graph
<1>3. ASSUME NEW n \in Emitted, VisitPlain(n) PROVE InCode' /\ WorkOK'
  <2>1. EnterIf(next[n]) \in Seq(Frame)
    BY <1>n, <1>t, EnterIfType DEF GraphType
  <2>2. WorkOK'
    BY <1>3, <2>1, WorkKept, EnterIfPlain DEF VisitPlain, Visit, Top, graph, encoding
  <2> QED BY <1>1, <1>3, <2>2 DEF VisitPlain, graph
<1>4. ASSUME NEW n \in Emitted, VisitReturn(n) PROVE InCode' /\ WorkOK'
  <2>2. WorkOK'
    BY <1>4, WorkPopped DEF VisitReturn, Visit, Top, graph, encoding
  <2> QED BY <1>1, <1>4, <2>2 DEF VisitReturn, graph
<1>5. ASSUME NEW n \in Emitted, VisitLostJump(n) PROVE InCode' /\ WorkOK'
  <2>1. AfterJsr(n) \in Seq(Frame)
    BY <1>n, FrameFields DEF AfterJsr
  <2>2. WorkOK'
    BY <1>5, <2>1, WorkKept, AfterJsrPlain DEF VisitLostJump, Visit, Top, graph, encoding
  <2> QED BY <1>1, <1>5, <2>2 DEF VisitLostJump, graph
<1>6. ASSUME NEW n \in Emitted, VisitJump(n) PROVE InCode' /\ WorkOK'
  <2> DEFINE p == <<Enter(JumpDest(n))>> \o AfterJsr(n)
  <2>1. AfterJsr(n) \in Seq(Frame) /\ Enter(JumpDest(n)) \in Frame
    BY <1>6, <1>n, FrameFields, JumpDestType DEF AfterJsr, VisitJump, TypeInv
  <2>2. p \in Seq(Frame)
    BY <2>1
  <2>3. \A k \in 1..Len(p) : p[k].at # "cases"
    <3> SUFFICES ASSUME NEW k \in 1..Len(p) PROVE p[k].at # "cases"
      OBVIOUS
    <3>1. CASE k = 1
      BY <2>1, <3>1 DEF Enter
    <3>2. CASE k # 1
      <4>1. p[k] = AfterJsr(n)[k - 1] /\ k - 1 \in 1..Len(AfterJsr(n))
        BY <2>1, <3>2
      <4> QED BY <4>1, AfterJsrPlain
    <3> QED BY <3>1, <3>2
  <2>4. work' = p \o Tail(work)
    <3>1. work' = <<Enter(JumpDest(n))>> \o AfterJsr(n) \o Tail(work)
      BY <1>6 DEF VisitJump
    <3> QED BY <3>1
  <2>5. \A m \in Emitted : op[m] \in SwitchOps => op'[m] \in SwitchOps
    <3>1. op[n] \notin SwitchOps /\ (\A m \in Node : m # n => op'[m] = op[m])
      BY <1>6, <1>t DEF VisitJump, EncodingType
    <3> QED BY <1>n, <3>1
  <2> HIDE DEF p
  <2>6. WorkOK'
    BY <1>6, <2>2, <2>3, <2>4, <2>5, WorkKept DEF VisitJump, Visit, Top, graph
  <2> QED BY <1>1, <1>6, <2>6 DEF VisitJump, graph
<1>7. ASSUME NEW n \in Emitted, ReturnFromJsr(n) PROVE InCode' /\ WorkOK'
  <2>1. EnterIf(next[n]) \in Seq(Frame)
    BY <1>n, <1>t, EnterIfType DEF GraphType
  <2>2. WorkOK'
    BY <1>7, <2>1, WorkKept, EnterIfPlain DEF ReturnFromJsr, Top, graph, encoding
  <2> QED BY <1>1, <1>7, <2>2 DEF ReturnFromJsr, graph
<1>8. ASSUME NEW n \in Emitted, Visit(n), op[n] = "cond", CondWork(n), UNCHANGED used,
             \A m \in Emitted : op'[m] = op[m]
      PROVE  WorkOK'
  <2> DEFINE p == EnterIf(next[n]) \o <<Enter(target[n])>>
  <2>1. next[n] \in NodeOrNone /\ target[n] \in Node
    BY <1>8, <1>t, <1>n, VisitType DEF GraphType, EncodingType, LinksOK, Linked
  <2>2. EnterIf(next[n]) \in Seq(Frame) /\ Enter(target[n]) \in Frame
    BY <2>1, EnterIfType, FrameFields
  <2>3. p \in Seq(Frame)
    BY <2>2
  <2>4. \A k \in 1..Len(p) : p[k].at # "cases"
    <3> SUFFICES ASSUME NEW k \in 1..Len(p) PROVE p[k].at # "cases"
      OBVIOUS
    <3>1. CASE k <= Len(EnterIf(next[n]))
      <4>1. p[k] = EnterIf(next[n])[k] /\ k \in 1..Len(EnterIf(next[n]))
        BY <2>2, <3>1
      <4> QED BY <4>1, EnterIfPlain
    <3>2. CASE k > Len(EnterIf(next[n]))
      <4>1. p[k] = Enter(target[n])
        BY <2>2, <3>2
      <4> QED BY <4>1 DEF Enter
    <3> QED BY <2>2, <3>1, <3>2
  <2>5. work' = p \o Tail(work)
    <3>1. work' = EnterIf(next[n]) \o <<Enter(target[n])>> \o Tail(work)
      BY <1>8 DEF CondWork
    <3> QED BY <3>1
  <2> HIDE DEF p
  <2> QED BY <1>8, <2>3, <2>4, <2>5, WorkKept DEF Visit, Top
<1>9. ASSUME NEW n \in Emitted, VisitCond(n) PROVE InCode' /\ WorkOK'
  BY <1>1, <1>8, <1>9 DEF VisitCond, graph
<1>10. ASSUME NEW n \in Emitted, VisitFarCond(n) PROVE InCode' /\ WorkOK'
  <2> DEFINE g == GotoOf(n)
             w == WideOf(n)
  <2>0. n \in Node /\ g \in Node /\ w \in Node /\ g \notin Emitted /\ w \notin Emitted
    BY <1>t DEF GotoOf, WideOf, GraphType
  <2> HIDE DEF g, w
  <2>1. /\ op' = [op EXCEPT ![g] = "goto", ![w] = "goto_w"]
        /\ code' = InsertAfter(code, Position(n), g, w)
    BY <1>10 DEF VisitFarCond, g, w
  <2>2. \A m \in Emitted : op'[m] = op[m]
    BY <1>t, <1>n, <2>0, <2>1 DEF EncodingType
  <2>3. WorkOK'
    BY <1>8, <1>10, <2>2 DEF VisitFarCond
  <2>4. InCode'
    <3>1. code \in Seq(Node) /\ Position(n) \in 1..Len(code)
      BY <1>t, PositionFacts DEF GraphType
    <3> SUFFICES ASSUME NEW m \in Emitted PROVE \E k \in 1..Len(code') : code'[k] = m
      BY <1>10 DEF VisitFarCond, InCode
    <3>2. PICK k \in 1..Len(code) : code[k] = m
      BY <1>t DEF InCode
    <3>3. \E i \in 1..Len(code') : code'[i] = code[k]
      <4> DEFINE at == Position(n)
                 r == InsertAfter(code, at, g, w)
      <4>1. code \in Seq(Node) /\ at \in 1..Len(code) /\ k \in 1..Len(code)
        BY <3>1
      <4>2. code' = r
        BY <2>1
      <4>3. g \in Node /\ w \in Node
        BY <2>0
      <4> HIDE DEF Node, at, Emitted
      <4>4. r = InsertAfter(code, at, g, w)
        OBVIOUS
      <4> HIDE DEF r
      <4>5. \E i \in 1..Len(r) : r[i] = code[k]
        BY <4>1, <4>3, <4>4, InsertAfterKeeps
      <4> QED BY <4>2, <4>5
    <3> QED BY <3>2, <3>3
  <2> QED BY <2>3, <2>4
<1>11. ASSUME NEW n \in Emitted, VisitSwitch(n) PROVE InCode' /\ WorkOK'
  <2>1. Cases(n, low[n]) \in Frame
    BY <1>n, <1>t, FrameFields DEF LinksType
  <2>2. \A m \in Emitted : op[m] \in SwitchOps => op'[m] \in SwitchOps
    BY <1>11, <1>n, <1>t DEF VisitSwitch, EncodingType
  <2>3. op'[n] \in SwitchOps
    BY <1>11, <1>n, <2>2 DEF VisitSwitch
  <2>4. WorkOK'
    BY <1>11, <2>1, <2>2, <2>3, WorkReplaced DEF VisitSwitch, Visit, Top, graph, Cases
  <2> QED BY <1>1, <1>11, <2>4 DEF VisitSwitch, graph
<1>12. ASSUME NEW n \in Emitted, DefaultCase(n, Head(work).from) PROVE InCode' /\ WorkOK'
  <2>0. op[n] \in SwitchOps /\ Fixed
    <3>1. work[1] = Cases(n, Head(work).from) /\ 1 \in 1..Len(work)
      BY <1>12, <1>t DEF WalkType, DefaultCase, Top
    <3> QED BY <1>12, <1>t, <3>1 DEF WorkOK, Cases, Fixed, DefaultCase, Top
  <2>1. dflt[n] # None /\ dflt[n] \in Client \cup {None}
    BY <2>0, <1>n, <1>t DEF LinksOK, Linked, LinksType
  <2>2. Enter(dflt[n]) \in Frame
    BY <2>1, FrameFields
  <2>3. WorkOK'
    BY <1>12, <2>2, WorkReplaced DEF DefaultCase, Top, graph, encoding, Enter
  <2> QED BY <1>1, <1>12, <2>3 DEF DefaultCase, graph
<1>13. ASSUME NEW n \in Emitted, NEW c \in SortedNumbers(n), NextCase(n, Head(work).from, c)
       PROVE  InCode' /\ WorkOK'
  <2>0. op[n] \in SwitchOps /\ Fixed
    <3>1. work[1] = Cases(n, Head(work).from) /\ 1 \in 1..Len(work)
      BY <1>13, <1>t DEF WalkType, NextCase, Top
    <3> QED BY <1>13, <1>t, <3>1 DEF WorkOK, Cases, Fixed, NextCase, Top
  <2>1. CaseDest(n, c) \in Node /\ c \in Int
    BY <1>n, <2>0, CaseDestType, SortedNumbersType DEF TypeInv
  <2>2. Enter(CaseDest(n, c)) \in Frame /\ Cases(n, c + 1) \in Frame
    BY <1>n, <2>1, FrameFields
  <2> DEFINE p == <<Enter(CaseDest(n, c)), Cases(n, c + 1)>>
  <2>3. p \in Seq(Frame) /\ work' = p \o Tail(work)
    BY <1>13, <2>2 DEF NextCase
  <2>4. \A k \in 1..Len(p) : p[k].at = "cases" => p[k].node = n
    BY DEF Enter, Cases
  <2> HIDE DEF p
  <2>5. WorkOK'
    BY <1>13, <2>0, <2>3, <2>4, WorkKept DEF NextCase, Top, graph, encoding
  <2> QED BY <1>1, <1>13, <2>5 DEF NextCase, graph
<1>14. CASE EnterHandler
  BY <1>1, <1>14 DEF EnterHandler, graph, WorkOK, Enter
<1> QED
  BY <1>2, <1>3, <1>4, <1>5, <1>6, <1>7, <1>9, <1>10, <1>11, <1>12, <1>13, <1>14 DEF Traverse

(* Laying the code out again changes addresses, widths and offsets only.    *)
LEMMA RelocateType == TypeInv /\ Relocate => TypeInv'
<1> SUFFICES ASSUME TypeInv, Relocate PROVE TypeInv'
  OBVIOUS
<1>t. GraphType /\ LinksType /\ EncodingType /\ AnalysisType /\ WalkType /\ ControlType
      /\ LinksOK /\ InCode /\ WorkOK /\ TypeOK
  BY DEF TypeInv, TypeOK
<1>1. /\ UNCHANGED <<used, code, op, target, label, dflt, work, links, walk>>
      /\ phase \notin {"append", "link"} /\ phase' \notin {"append", "link"}
  BY DEF Relocate, Succeed, StartLayout, LayoutInstr, StartOffsets, RecalcOffset, EndOffsets,
         TraversalDone, graph, encoding, walk, links
<1>2. LinksOK' /\ InCode' /\ WorkOK'
  BY <1>t, <1>1 DEF LinksOK, Linked, Fixed, InCode, WorkOK
<1>3. LinksType' /\ WalkType'
  BY <1>1, <1>t, FrameType
<1>4. CASE Succeed \/ StartLayout \/ EndOffsets
  <2>1. GraphType' /\ EncodingType' /\ AnalysisType'
    BY <1>4, <1>t, FrameType DEF Succeed, StartLayout, EndOffsets
  <2>2. ControlType'
    BY <1>4, <1>t DEF Succeed, StartLayout, EndOffsets, ControlType, layout
  <2> QED BY <1>2, <1>3, <2>1, <2>2 DEF TypeInv, TypeOK
<1>5. CASE LayoutInstr
  <2> DEFINE n == code[idx]
  <2>0. idx \in 1..Len(code)
    BY <1>5, <1>t DEF LayoutInstr, ControlType
  <2>1. n \in Node
    BY <2>0, <1>t DEF GraphType
  <2>2. LaidOutWidth(n) \in Nat
    BY <2>1, <1>t, SwitchWidthType DEF LaidOutWidth, EncodingType, ControlType
  <2> HIDE DEF n
  <2>3. /\ pc' = [pc EXCEPT ![n] = tmpPc] /\ width' = [width EXCEPT ![n] = LaidOutWidth(n)]
        /\ tmpPc' = tmpPc + LaidOutWidth(n) /\ idx' = idx + 1
        /\ UNCHANGED <<phase, used, code, ins, next, op, target, operand, entries, methPc, analysis>>
    BY <1>5 DEF LayoutInstr, n
  <2>4. GraphType'
    BY <1>t, <2>1, <2>3 DEF GraphType, ControlType
  <2>5. EncodingType'
    BY <1>t, <2>1, <2>2, <2>3 DEF EncodingType
  <2>6. ControlType'
    BY <1>t, <2>2, <2>3 DEF ControlType
  <2>7. AnalysisType'
    BY <1>t, <2>3, FrameType
  <2> QED BY <1>2, <1>3, <2>4, <2>5, <2>6, <2>7 DEF TypeInv, TypeOK
<1>6. CASE StartOffsets
  <2>1. GraphType' /\ EncodingType'
    BY <1>6, <1>t, FrameType DEF StartOffsets
  <2>2. AnalysisType'
    BY <1>6, <1>t DEF StartOffsets, AnalysisType
  <2>3. ControlType'
    BY <1>6, <1>t DEF StartOffsets, ControlType
  <2> QED BY <1>2, <1>3, <2>1, <2>2, <2>3 DEF TypeInv, TypeOK
<1>7. CASE RecalcOffset
  <2> DEFINE n == code[idx]
             t == target[n]
  <2>0. idx \in 1..Len(code)
    BY <1>7, <1>t DEF RecalcOffset, ControlType
  <2>1. n \in Node /\ (t # None => pc[t] - pc[n] \in Int)
    <3>1. n \in Node
      BY <2>0, <1>t DEF GraphType
    <3>2. t # None => t \in Node
      BY <3>1, <1>t DEF EncodingType
    <3> QED BY <3>1, <3>2, <1>t DEF GraphType
  <2>2. GraphType'
    BY <1>7, <1>t, FrameType DEF RecalcOffset
  <2>3. EncodingType'
    BY <1>7, <1>t, <2>1 DEF RecalcOffset, EncodingType
  <2>4. reCalc' \in BOOLEAN
    BY <1>7, <1>t DEF RecalcOffset, AnalysisType, TooFar
  <2>5. AnalysisType'
    BY <1>7, <1>t, <2>4 DEF RecalcOffset, AnalysisType
  <2>6. ControlType'
    BY <1>7, <1>t DEF RecalcOffset, ControlType
  <2> QED BY <1>2, <1>3, <2>2, <2>3, <2>5, <2>6 DEF TypeInv, TypeOK
<1> QED BY <1>4, <1>5, <1>6, <1>7 DEF Relocate

(* Stuttering keeps the invariant.                                          *)
LEMMA StutterType == TypeInv /\ UNCHANGED vars => TypeInv'
<1> SUFFICES ASSUME TypeInv, UNCHANGED vars PROVE TypeInv'
  OBVIOUS
<1>1. TypeOK'
  BY FrameType DEF TypeInv, TypeOK, ControlType, vars, layout
<1>2. LinksOK' /\ InCode' /\ WorkOK'
  BY DEF TypeInv, vars, graph, links, encoding, walk, LinksOK, Linked, Fixed, InCode, WorkOK
<1> QED BY <1>1, <1>2 DEF TypeInv

(* Every step keeps the invariant.                                          *)
LEMMA NextType == TypeInv /\ [Next]_vars => TypeInv'
  BY BuildType, BuildCode, TraverseType, TraverseCode, RelocateType, StutterType
  DEF Next, Finalizing, Terminated, TypeInv

(* The invariant of the types holds throughout.                             *)
LEMMA TypeInvCorrect == Spec => []TypeInv
  BY InitType, NextType, PTL DEF Spec

(* Every field of the method, of its nodes and of its traversal keeps its   *)
(* type in every reachable state: no branch is followed to a node that is   *)
(* not there, whatever the client linked and whatever was inserted.         *)
THEOREM TypeCorrect == Spec => []TypeOK
<1>1. TypeInv => TypeOK
  BY DEF TypeInv
<1> QED BY <1>1, TypeInvCorrect, PTL
-----------------------------------------------------------------------------
(* The code list and the next pointers agree. *)

Distinct(s) == \A j, k \in 1..Len(s) : s[j] = s[k] => j = k
Chain(s, f) == \A j \in 1..Len(s) : f[s[j]] = IF j = Len(s) THEN None ELSE s[j + 1]

(* A node is in the code because the client created it or because the       *)
(* conditional it widens was visited; so the nodes that widening inserts    *)
(* are new to the code.                                                     *)
Origin(m) ==
  \/ m \in Emitted
  \/ \E n \in Emitted : visited[n] /\ m \in {GotoOf(n), WideOf(n)}

CodeInv ==
  /\ Distinct(code)
  /\ Chain(code, next)
  /\ \A k \in 1..Len(code) : Origin(code[k])
  /\ phase \in {"append", "link"} => \A n \in Node : ~ visited[n]
  /\ phase = "append" => \A n \in Node : n \notin Emitted => next[n] = None

(* Inserting x and y after the k-th node n of a chain: n -> x -> y -> the   *)
(* node that followed n.                                                    *)
LEMMA ChainInserted ==
  ASSUME NEW s \in Seq(Node), NEW f \in [Node -> NodeOrNone], Distinct(s), Chain(s, f),
         NEW k \in 1..Len(s), NEW x \in Node, NEW y \in Node, x # y,
         \A j \in 1..Len(s) : s[j] # x /\ s[j] # y,
         NEW r, r = InsertAfter(s, k, x, y),
         NEW h, h = [f EXCEPT ![s[k]] = x, ![x] = y, ![y] = f[s[k]]]
  PROVE  Distinct(r) /\ Chain(r, h)
<1> HIDE DEF Node
<1>0. /\ Len(s) \in Nat
      /\ \A j \in 1..Len(s) : s[j] \in Node
  OBVIOUS
<1>1. /\ Len(r) = Len(s) + 2
      /\ \A j \in 1..k : r[j] = s[j]
      /\ r[k + 1] = x
      /\ r[k + 2] = y
      /\ \A j \in (k + 1)..Len(s) : r[j + 2] = s[j]
  BY InsertAfterFacts
<1>n. Len(s) \in Nat /\ k \in 1..Len(s) /\ Len(r) = Len(s) + 2
  BY <1>0, <1>1
<1>2. \A j \in 1..Len(r) : j > k + 2 => r[j] = s[j - 2] /\ j - 2 \in (k + 1)..Len(s)
  <2> SUFFICES ASSUME NEW j \in 1..Len(r), j > k + 2 PROVE r[j] = s[j - 2] /\ j - 2 \in (k + 1)..Len(s)
    OBVIOUS
  <2>1. j - 2 \in (k + 1)..Len(s) /\ (j - 2) + 2 = j
    BY <1>n
  <2> QED BY <1>1, <2>1
<1>3. \A j \in 1..Len(r) : j <= k \/ j = k + 1 \/ j = k + 2 \/ j > k + 2
  BY <1>0, <1>1
<1>4. Distinct(r)
  <2> SUFFICES ASSUME NEW i \in 1..Len(r), NEW j \in 1..Len(r), r[i] = r[j] PROVE i = j
    BY DEF Distinct
  <2> DEFINE at(m) == IF m <= k THEN m ELSE m - 2
  <2>1. \A m \in 1..Len(r) : m \notin {k + 1, k + 2} => r[m] = s[at(m)] /\ at(m) \in 1..Len(s)
    BY <1>0, <1>1, <1>2, <1>3
  <2>2. \A m \in 1..Len(r) : m \notin {k + 1, k + 2} => r[m] # x /\ r[m] # y
    <3> HIDE DEF at
    <3> QED BY <2>1
  <2>3. CASE i \in {k + 1, k + 2} \/ j \in {k + 1, k + 2}
    BY <1>1, <2>2, <2>3
  <2>4. CASE i \notin {k + 1, k + 2} /\ j \notin {k + 1, k + 2}
    <3>1. at(i) = at(j)
      <4> HIDE DEF at
      <4> QED BY <2>1, <2>4 DEF Distinct
    <3> QED BY <1>3, <2>4, <3>1
  <2> QED BY <2>3, <2>4
<1>5. /\ h[x] = y /\ h[y] = f[s[k]] /\ h[s[k]] = x
      /\ \A m \in Node : m \notin {s[k], x, y} => h[m] = f[m]
  BY <1>0
<1>6. Chain(r, h)
  <2> SUFFICES ASSUME NEW j \in 1..Len(r) PROVE h[r[j]] = IF j = Len(r) THEN None ELSE r[j + 1]
    BY DEF Chain
  <2>1. CASE j < k
    <3>1. r[j] = s[j] /\ r[j + 1] = s[j + 1] /\ j \in 1..Len(s) /\ j # Len(s) /\ j # Len(r)
      BY <1>0, <1>1, <2>1
    <3>2. s[j] \notin {s[k], x, y}
      BY <2>1, <3>1 DEF Distinct
    <3>3. f[s[j]] = s[j + 1]
      BY <3>1 DEF Chain
    <3> QED BY <1>0, <1>5, <3>1, <3>2, <3>3
  <2>2. CASE j = k
    <3>1. r[j] = s[k] /\ r[j + 1] = x /\ j # Len(r)
      BY <1>0, <1>1, <2>2
    <3> QED BY <1>5, <3>1
  <2>3. CASE j = k + 1
    <3>1. r[j] = x /\ r[j + 1] = y /\ j # Len(r)
      BY <1>0, <1>1, <2>3
    <3> QED BY <1>5, <3>1
  <2>4. CASE j = k + 2
    <3>1. r[j] = y /\ h[r[j]] = f[s[k]] /\ f[s[k]] = IF k = Len(s) THEN None ELSE s[k + 1]
      BY <1>1, <1>5, <2>4 DEF Chain
    <3>2. k = Len(s) <=> j = Len(r)
      BY <1>n, <2>4
    <3>3. k # Len(s) => r[j + 1] = s[k + 1]
      <4> SUFFICES ASSUME k # Len(s) PROVE r[j + 1] = s[k + 1]
        OBVIOUS
      <4>1. k + 1 \in (k + 1)..Len(s) /\ (k + 1) + 2 = j + 1
        BY <1>n, <2>4
      <4> QED BY <1>1, <4>1
    <3> QED BY <3>1, <3>2, <3>3
  <2>5. CASE j > k + 2
    <3> DEFINE i == j - 2
    <3>1. r[j] = s[i] /\ i \in (k + 1)..Len(s) /\ i \in 1..Len(s) /\ i # k
      BY <1>0, <1>2, <2>5
    <3>2. i = Len(s) <=> j = Len(r)
      BY <1>n
    <3>3. j # Len(r) => r[j + 1] = s[i + 1]
      <4> SUFFICES ASSUME j # Len(r) PROVE r[j + 1] = s[i + 1]
        OBVIOUS
      <4>1. j + 1 \in 1..Len(r) /\ j + 1 > k + 2 /\ (j + 1) - 2 = i + 1
        BY <1>n, <2>5
      <4> QED BY <1>2, <4>1
    <3> HIDE DEF i
    <3>4. s[i] \notin {s[k], x, y}
      BY <3>1 DEF Distinct
    <3>5. f[s[i]] = IF i = Len(s) THEN None ELSE s[i + 1]
      BY <3>1 DEF Chain
    <3> QED BY <1>0, <1>5, <3>1, <3>2, <3>3, <3>4, <3>5
  <2> QED BY <1>3, <2>1, <2>2, <2>3, <2>4, <2>5
<1> QED BY <1>4, <1>6

(* Appending a node to a chain. *)
LEMMA ChainAppended ==
  ASSUME NEW s \in Seq(Node), NEW f \in [Node -> NodeOrNone], Distinct(s), Chain(s, f),
         NEW x \in Node, \A j \in 1..Len(s) : s[j] # x, f[x] = None,
         NEW h, h = [m \in Node |-> IF s # <<>> /\ m = Last(s) THEN x ELSE f[m]]
  PROVE  Distinct(Append(s, x)) /\ Chain(Append(s, x), h)
<1> HIDE DEF Node
<1> DEFINE r == Append(s, x)
<1>1. /\ Len(s) \in Nat /\ Len(r) = Len(s) + 1
      /\ \A j \in 1..Len(s) : r[j] = s[j] /\ s[j] \in Node
      /\ r[Len(s) + 1] = x
  OBVIOUS
<1>2. \A j \in 1..Len(r) : j \in 1..Len(s) \/ j = Len(s) + 1
  BY <1>1
<1> HIDE DEF r
<1>3. Distinct(r)
  BY <1>1, <1>2 DEF Distinct
<1>4. Chain(r, h)
  <2> SUFFICES ASSUME NEW j \in 1..Len(r) PROVE h[r[j]] = IF j = Len(r) THEN None ELSE r[j + 1]
    BY DEF Chain
  <2>1. CASE j = Len(s) + 1
    <3>1. s = <<>> \/ x # Last(s)
      BY <1>1 DEF Last
    <3> QED BY <1>1, <2>1, <3>1
  <2>2. CASE j \in 1..Len(s) /\ j = Len(s)
    <3>1. s # <<>> /\ r[j] = Last(s) /\ r[j + 1] = x /\ j # Len(r) /\ r[j] \in Node
      BY <1>1, <2>2 DEF Last
    <3> QED BY <3>1
  <2>3. CASE j \in 1..Len(s) /\ j # Len(s)
    <3>1. r[j] = s[j] /\ r[j + 1] = s[j + 1] /\ j # Len(r) /\ s[j] \in Node /\ Len(s) \in 1..Len(s)
      BY <1>1, <2>3
    <3>2. s[j] # Last(s)
      BY <2>3, <3>1 DEF Last, Distinct
    <3>3. f[s[j]] = s[j + 1]
      BY <2>3 DEF Chain
    <3> QED BY <3>1, <3>2, <3>3
  <2> QED BY <1>2, <2>1, <2>2, <2>3
<1> QED BY <1>3, <1>4 DEF r

(* The code list's invariant holds at first.                                *)
LEMMA InitCode == Init => CodeInv
  BY DEF Init, CodeInv, Distinct, Chain

(* Nothing but appending and widening touches the code list.                *)
LEMMA CodeKept ==
  ASSUME TypeInv, CodeInv, UNCHANGED <<used, code, next>>,
         \A n \in Node : visited[n] => visited'[n],
         phase' = "append" => phase = "append",
         phase' \in {"append", "link"} => phase \in {"append", "link"} /\ visited' = visited
  PROVE  CodeInv'
<1>1. \A k \in 1..Len(code) : Origin(code[k])'
  <2> SUFFICES ASSUME NEW k \in 1..Len(code) PROVE Origin(code[k])'
    OBVIOUS
  <2>1. Origin(code[k])
    BY DEF CodeInv
  <2>2. \A n \in Emitted : n \in Node
    BY DEF TypeInv, TypeOK, GraphType
  <2> QED BY <2>1, <2>2 DEF Origin
<1> QED BY <1>1 DEF CodeInv

(* Every step keeps the code list's invariant.                              *)
LEMMA NextCode == TypeInv /\ CodeInv /\ [Next]_vars => CodeInv'
<1> SUFFICES ASSUME TypeInv, CodeInv, [Next]_vars PROVE CodeInv'
  OBVIOUS
<1>t. GraphType /\ LinksType /\ EncodingType /\ AnalysisType /\ WalkType /\ ControlType
  BY DEF TypeInv, TypeOK
<1>n. \A n \in Emitted : n \in Node
  BY <1>t DEF GraphType
<1>1. ASSUME NEW i \in Instrs, OverwritePlaceholder(i) PROVE CodeInv'
  BY <1>1, CodeKept DEF OverwritePlaceholder, analysis
<1>2. ASSUME NEW i \in Instrs, AppendInstr(i) PROVE CodeInv'
  <2> DEFINE x == used + 1
  <2>1. x \in Node /\ x \notin Emitted /\ \A n \in Emitted : n # x
    BY <1>2, <1>t DEF AppendInstr, GraphType
  <2>2. /\ phase = "append" /\ phase' = "append"
        /\ used' = used + 1 /\ code' = Append(code, x)
        /\ next' = [m \in Node |-> IF code # <<>> /\ m = Last(code) THEN x ELSE next[m]]
        /\ visited' = visited
    BY <1>2 DEF AppendInstr, analysis
  <2>3. \A k \in 1..Len(code) : code[k] \in Emitted
    BY <2>2, <1>n DEF CodeInv, Origin
  <2>4. Distinct(code') /\ Chain(code', next')
    <3>1. \A k \in 1..Len(code) : code[k] # x
      BY <2>1, <2>3
    <3>2. code \in Seq(Node) /\ next \in [Node -> NodeOrNone] /\ next[x] = None
      BY <1>t, <2>1, <2>2 DEF GraphType, CodeInv
    <3>3. Distinct(code) /\ Chain(code, next)
      BY DEF CodeInv
    <3> HIDE DEF Node, x, NodeOrNone
    <3>4. x \in Node
      BY <2>1
    <3> QED BY <2>2, <3>1, <3>2, <3>3, <3>4, ChainAppended
  <2>5. \A k \in 1..Len(code') : code'[k] \in Emitted'
    <3> SUFFICES ASSUME NEW k \in 1..Len(code') PROVE code'[k] \in Emitted'
      OBVIOUS
    <3>1. k \in 1..Len(code) \/ k = Len(code) + 1
      BY <2>2, <1>t DEF GraphType
    <3>2. k \in 1..Len(code) => code'[k] = code[k]
      BY <2>2, <1>t DEF GraphType
    <3>3. k = Len(code) + 1 => code'[k] = x
      BY <2>2, <1>t DEF GraphType
    <3>4. x \in Emitted' /\ \A n \in Emitted : n \in Emitted'
      BY <2>2, <1>t DEF GraphType
    <3>5. \A j \in 1..Len(code) : code[j] \in Emitted
      BY <2>3
    <3> HIDE DEF Emitted, x
    <3> QED BY <3>1, <3>2, <3>3, <3>4, <3>5
  <2>6. \A n \in Node : ~ visited'[n]
    BY <2>2 DEF CodeInv
  <2>7. \A n \in Node : n \notin Emitted' => next'[n] = None
    <3> SUFFICES ASSUME NEW n \in Node, n \notin Emitted' PROVE next'[n] = None
      OBVIOUS
    <3>1. n \notin Emitted /\ next[n] = None
      BY <2>2, <1>t DEF GraphType, CodeInv
    <3>2. code # <<>> => Last(code) \in Emitted
      <4>1. code # <<>> => Len(code) \in 1..Len(code)
        BY <1>t DEF GraphType
      <4> QED BY <2>3, <4>1 DEF Last
    <3> QED BY <2>2, <3>1, <3>2
  <2> QED BY <2>4, <2>5, <2>6, <2>7 DEF CodeInv, Origin
<1>3. CASE StartLinking
  BY <1>3, CodeKept DEF StartLinking, graph, analysis
<1>4. ASSUME NEW n \in Emitted, NEW t \in Emitted, SetBranchTarget(n, t) \/ AddSwitchDefault(n, t) PROVE CodeInv'
  BY <1>4, CodeKept DEF SetBranchTarget, AddSwitchDefault, Linking, graph, analysis
<1>5. ASSUME NEW n \in Emitted, NEW l \in Label, SetBranchLabel(n, l) \/ AssociateLabel(l, n) PROVE CodeInv'
  BY <1>5, CodeKept DEF SetBranchLabel, AssociateLabel, Linking, graph, analysis
<1>6. ASSUME NEW n \in Emitted, NEW t \in Emitted, NEW c \in CaseNum, AddSwitchCase(n, c, t) PROVE CodeInv'
  BY <1>6, CodeKept DEF AddSwitchCase, Linking, graph, analysis
<1>7. ASSUME NEW from \in Emitted, NEW to \in Emitted, NEW t \in Emitted, AddHandler(from, to, t) PROVE CodeInv'
  BY <1>7, CodeKept DEF AddHandler, graph, analysis
<1>8. CASE StartTraverse
  BY <1>8, CodeKept DEF StartTraverse, graph
<1>9. ASSUME NEW n \in Emitted,
             EnterVisited(n) \/ ReturnFromJsr(n) \/ DefaultCase(n, Head(work).from)
      PROVE  CodeInv'
  BY <1>9, CodeKept DEF EnterVisited, ReturnFromJsr, DefaultCase, Top, graph, analysis
<1>10. ASSUME NEW n \in Emitted, NEW c \in SortedNumbers(n), NextCase(n, Head(work).from, c) PROVE CodeInv'
  BY <1>10, CodeKept DEF NextCase, Top, graph
<1>11. ASSUME NEW n \in Emitted, visited' = [visited EXCEPT ![n] = TRUE], Visit(n), UNCHANGED graph
       PROVE  CodeInv'
  <2>1. \A m \in Node : visited[m] => visited'[m]
    BY <1>11, <1>t DEF AnalysisType
  <2> QED BY <1>11, <2>1, CodeKept DEF Visit, Top, graph
<1>12. ASSUME NEW n \in Emitted,
              VisitPlain(n) \/ VisitReturn(n) \/ VisitJump(n) \/ VisitLostJump(n) \/ VisitCond(n)
              \/ VisitSwitch(n)
       PROVE  CodeInv'
  BY <1>11, <1>12 DEF VisitPlain, VisitReturn, VisitJump, VisitLostJump, VisitCond, VisitSwitch
<1>13. ASSUME NEW n \in Emitted, VisitFarCond(n) PROVE CodeInv'
  <2> DEFINE x == GotoOf(n)
             y == WideOf(n)
             p == Position(n)
  <2>1. /\ x \in Node /\ y \in Node /\ x # y /\ x \notin Emitted /\ y \notin Emitted /\ n \in Node
        /\ \A m \in Emitted : m # n => {x, y} \cap {GotoOf(m), WideOf(m)} = {}
    BY <1>t DEF GotoOf, WideOf, GraphType
  <2>2. p \in 1..Len(code) /\ code[p] = n
    BY PositionFacts DEF TypeInv
  <2>3. \A k \in 1..Len(code) : code[k] # x /\ code[k] # y
    <3> SUFFICES ASSUME NEW k \in 1..Len(code) PROVE code[k] # x /\ code[k] # y
      OBVIOUS
    <3>1. Origin(code[k])
      BY DEF CodeInv
    <3>2. CASE code[k] \in Emitted
      BY <2>1, <3>2
    <3>3. CASE code[k] \notin Emitted
      <4>1. PICK m \in Emitted : visited[m] /\ code[k] \in {GotoOf(m), WideOf(m)}
        BY <3>1, <3>3 DEF Origin
      <4>2. m # n
        BY <1>13, <4>1 DEF VisitFarCond, Visit
      <4> QED BY <2>1, <4>1, <4>2
    <3> QED BY <3>2, <3>3
  <2>4. /\ phase = "traverse" /\ phase' = "traverse" /\ used' = used
        /\ visited' = [m \in Node |-> m \in {n, x, y} \/ visited[m]]
        /\ next' = [next EXCEPT ![n] = x, ![x] = y, ![y] = next[n]]
        /\ code' = InsertAfter(code, p, x, y)
    BY <1>13 DEF VisitFarCond, Visit, Top
  <2>5. Distinct(code) /\ Chain(code, next) /\ code \in Seq(Node) /\ next \in [Node -> NodeOrNone]
    BY <1>t DEF CodeInv, GraphType
  <2>6. Distinct(code') /\ Chain(code', next')
    <3>1. next' = [next EXCEPT ![code[p]] = x, ![x] = y, ![y] = next[code[p]]]
      BY <2>2, <2>4
    <3>2. x \in Node /\ y \in Node /\ x # y /\ p \in 1..Len(code) /\ code' = InsertAfter(code, p, x, y)
      BY <2>1, <2>2, <2>4
    <3> HIDE DEF Node, NodeOrNone, x, y, p, Emitted
    <3> QED BY <2>3, <2>5, <3>1, <3>2, ChainInserted
  <2>7. \A k \in 1..Len(code') : Origin(code[k])'
    <3> SUFFICES ASSUME NEW k \in 1..Len(code') PROVE Origin(code[k])'
      OBVIOUS
    <3>1. code'[k] \in {x, y} \/ \E j \in 1..Len(code) : code'[k] = code[j]
      <4>1. code' = InsertAfter(code, p, x, y) /\ Len(code) \in Nat /\ p \in 1..Len(code)
        BY <2>2, <2>4, <2>5
      <4> HIDE DEF p, x, y
      <4> QED BY <4>1, InsertAfterOnly
    <3>2. CASE code'[k] \in {x, y}
      <4>1. visited'[n]
        BY <2>1, <2>4
      <4> QED BY <2>4, <3>2, <4>1 DEF Origin
    <3>3. ASSUME NEW j \in 1..Len(code), code'[k] = code[j] PROVE Origin(code[k])'
      <4>1. Origin(code[j])
        BY DEF CodeInv
      <4>2. \A m \in Node : visited[m] => visited'[m]
        BY <2>4
      <4> QED BY <1>n, <2>4, <3>3, <4>1, <4>2 DEF Origin
    <3> QED BY <3>1, <3>2, <3>3
  <2> QED BY <2>4, <2>6, <2>7 DEF CodeInv
<1>14. CASE EnterHandler
  BY <1>14, CodeKept DEF EnterHandler, graph
<1>15. CASE Relocate
  BY <1>15, CodeKept
  DEF Relocate, Succeed, StartLayout, LayoutInstr, StartOffsets, RecalcOffset, EndOffsets, TraversalDone,
      graph, analysis
<1>16. CASE UNCHANGED vars
  BY <1>16, CodeKept DEF vars, graph, analysis
<1> QED
  BY <1>1, <1>2, <1>3, <1>4, <1>5, <1>6, <1>7, <1>8, <1>9, <1>10, <1>12, <1>13, <1>14, <1>15, <1>16
  DEF Next, Build, Finalizing, Traverse, Terminated

(* The code list's invariant holds throughout.                              *)
LEMMA CodeInvCorrect == Spec => []CodeInv
  BY TypeInvCorrect, InitCode, NextCode, PTL DEF Spec

(* write_code follows the code list, calc_offsets the next pointers: they   *)
(* never disagree, however many conditionals are widened.                   *)
THEOREM NextSpellsCodeCorrect == Spec => []NextSpellsCode
<1>1. CodeInv => NextSpellsCode
  BY DEF CodeInv, Chain, NextSpellsCode
<1> QED BY <1>1, CodeInvCorrect, PTL
-----------------------------------------------------------------------------
(* Addresses. *)

(* The first n instructions of the code follow one another from address 0   *)
(* and end at address e.                                                    *)
LaidOut(n, e) ==
  /\ n = 0 => e = 0
  /\ n > 0 => pc[code[1]] = 0 /\ e = pc[code[n]] + width[code[n]]
  /\ \A k \in 1..n : k < n => pc[code[k + 1]] = pc[code[k]] + width[code[k]]

Building == phase \in {"append", "link"}

(* bytecode1 keeps the addresses exact; the traversal keeps them so until   *)
(* it asks for a new layout; the layout makes a growing prefix exact, and   *)
(* the recalculation of the offsets leaves addresses alone.                 *)
AddressInv ==
  /\ Building \/ (phase = "traverse" /\ ~ reCalc) => LaidOut(Len(code), methPc)
  /\ phase = "layout" => idx <= Len(code) + 1 /\ LaidOut(idx - 1, tmpPc)
  /\ phase = "offsets" => LaidOut(Len(code), tmpPc)
  /\ phase = "done" => code = <<>> \/ LaidOut(Len(code), methPc)
  /\ phase = "append" => \A n \in Emitted : op[n] = "unused" => width[n] = PlaceholderWidth
  /\ Building => \A k \in 1..Len(code) : code[k] \in Emitted

(* The addresses' invariant holds at first.                                 *)
LEMMA InitAddress == Init => AddressInv
  BY DEF Init, AddressInv, LaidOut, Building

(* Nothing that has to do with addresses changes. *)
LEMMA AddressKept ==
  ASSUME AddressInv, UNCHANGED <<used, code, pc, width, methPc, idx, tmpPc>>,
         phase' = "append" => phase = "append" /\ op' = op,
         \/ UNCHANGED <<phase, reCalc>>
         \/ phase' = "traverse" /\ (~ reCalc' => phase = "traverse" /\ ~ reCalc)
         \/ phase = "append" /\ phase' = "link"
         \/ phase = "link" /\ phase' = "done" /\ code = <<>>
         \/ phase = "link" /\ phase' = "traverse"
         \/ phase = "traverse" /\ phase' = "done" /\ ~ reCalc
         \/ phase = "offsets" /\ phase' \in {"offsets", "failed"}
  PROVE  AddressInv'
  BY DEF AddressInv, LaidOut, Building

(* Every step keeps the addresses' invariant.                               *)
LEMMA NextAddress == TypeInv /\ CodeInv /\ AddressInv /\ [Next]_vars => AddressInv'
<1> SUFFICES ASSUME TypeInv, CodeInv, AddressInv, [Next]_vars PROVE AddressInv'
  OBVIOUS
<1>t. GraphType /\ LinksType /\ EncodingType /\ AnalysisType /\ WalkType /\ ControlType
  BY DEF TypeInv, TypeOK
<1>n. \A n \in Emitted : n \in Node
  BY <1>t DEF GraphType
<1>c. Len(code) \in Nat /\ \A k \in 1..Len(code) : code[k] \in Node
  BY <1>t DEF GraphType
<1>d. \A j, k \in 1..Len(code) : code[j] = code[k] => j = k
  BY DEF CodeInv, Distinct
<1>1. ASSUME NEW i \in Instrs, OverwritePlaceholder(i) PROVE AddressInv'
  <2> DEFINE l == Len(code)
             n == code[l]
  <2>1. /\ phase = "append" /\ phase' = "append" /\ UNCHANGED <<code, pc, used>>
        /\ op[n] = "unused" /\ code # <<>>
        /\ width' = [width EXCEPT ![n] = i.width] /\ op' = [op EXCEPT ![n] = i.op]
        /\ methPc' = methPc + i.width - PlaceholderWidth
    BY <1>1 DEF OverwritePlaceholder, EndsInPlaceholder, Last
  <2>2. l \in 1..Len(code) /\ l \in Nat /\ l > 0 /\ n \in Node /\ n \in Emitted
    BY <1>c, <2>1, <1>t DEF AddressInv, Building, GraphType
  <2>3. i \in Instruction /\ i.width \in Nat /\ (i.op = "unused" => i.width = PlaceholderWidth)
    <3>1. i \in Instruction
      OBVIOUS
    <3> QED BY <3>1, InstructionFields, PlaceholderAssumption
  <2>4. width[n] = PlaceholderWidth
    BY <2>1, <2>2 DEF AddressInv
  <2>5. LaidOut(l, methPc) /\ methPc \in Int /\ pc[n] \in Int
    BY <2>1, <2>2, <1>t DEF AddressInv, Building, ControlType, GraphType
  <2>6. \A k \in 1..l : k < l => code[k] # n
    BY <1>d, <2>2
  <2>7. width'[n] = i.width /\ \A m \in Node : m # n => width'[m] = width[m]
    BY <2>1, <2>2, <1>t DEF EncodingType
  <2>8. op'[n] = i.op /\ \A m \in Node : m # n => op'[m] = op[m]
    BY <2>1, <2>2, <1>t DEF EncodingType
  <2> HIDE DEF l, n
  <2>9. LaidOut(l, methPc)'
    <3>1. pc[code[1]] = 0 /\ methPc = pc[n] + PlaceholderWidth
      BY <2>2, <2>4, <2>5 DEF LaidOut, l, n
    <3>2. methPc' = pc[n] + width'[n]
      BY <2>1, <2>3, <2>5, <2>7, <3>1 DEF PlaceholderWidth
    <3>3. \A k \in 1..l : k < l => pc[code[k + 1]] = pc[code[k]] + width'[code[k]]
      <4> SUFFICES ASSUME NEW k \in 1..l, k < l
                   PROVE  pc[code[k + 1]] = pc[code[k]] + width'[code[k]]
        OBVIOUS
      <4>1. pc[code[k + 1]] = pc[code[k]] + width[code[k]]
        BY <2>5 DEF LaidOut
      <4>2. code[k] \in Node
        BY <1>c DEF l
      <4>3. width'[code[k]] = width[code[k]]
        BY <2>6, <2>7, <4>2
      <4> QED BY <4>1, <4>3
    <3>4. l' = l /\ code'[l] = n
      BY <2>1 DEF l, n
    <3> QED BY <2>1, <2>2, <3>1, <3>2, <3>3, <3>4 DEF LaidOut
  <2>10. \A m \in Emitted : op'[m] = "unused" => width'[m] = PlaceholderWidth
    BY <1>n, <2>1, <2>3, <2>7, <2>8 DEF AddressInv
  <2>11. \A k \in 1..Len(code) : code[k] \in Emitted
    BY <2>1 DEF AddressInv, Building
  <2> QED BY <2>1, <2>9, <2>10, <2>11 DEF AddressInv, Building, l
<1>2. ASSUME NEW i \in Instrs, AppendInstr(i) PROVE AddressInv'
  <2> DEFINE x == used + 1
             l == Len(code)
             wd == AppendedWidth(i)
  <2>1. /\ phase = "append" /\ phase' = "append"
        /\ used' = used + 1 /\ code' = Append(code, x)
        /\ op' = [op EXCEPT ![x] = i.op]
        /\ width' = [width EXCEPT ![x] = wd]
        /\ pc' = [pc EXCEPT ![x] = methPc]
        /\ methPc' = methPc + wd
    BY <1>2 DEF AppendInstr
  <2>2. x \in Node /\ x \notin Emitted
    BY <1>2, <1>t DEF AppendInstr, GraphType
  <2>3. wd \in Nat /\ (i.op = "unused" => wd = PlaceholderWidth)
    <3>1. i \in Instruction
      OBVIOUS
    <3>2. i.width \in Nat /\ i.ext \in Nat
      BY <3>1, InstructionFields
    <3>3. i.op = "unused" => i.width = PlaceholderWidth /\ i.ext = 0
      BY PlaceholderAssumption
    <3> QED BY <3>2, <3>3 DEF AppendedWidth, PlaceholderWidth
  <2>4. \A k \in 1..l : code[k] \in Emitted /\ code[k] # x
    BY <2>1, <2>2 DEF AddressInv, Building
  <2>5. /\ pc'[x] = methPc /\ width'[x] = wd /\ op'[x] = i.op
        /\ \A m \in Node : m # x => pc'[m] = pc[m] /\ width'[m] = width[m] /\ op'[m] = op[m]
    BY <2>1, <2>2, <1>t DEF EncodingType, GraphType
  <2>6. LaidOut(l, methPc) /\ methPc \in Int
    BY <2>1, <1>t DEF AddressInv, Building, ControlType
  <2>7. /\ l \in Nat /\ Len(code') = l + 1 /\ code'[l + 1] = x
        /\ \A k \in 1..l : code'[k] = code[k]
    BY <1>c, <2>1, <1>t DEF GraphType
  <2> HIDE DEF x, l, wd
  <2>8. \A k \in 1..l : pc'[code'[k]] = pc[code[k]] /\ width'[code'[k]] = width[code[k]]
    BY <1>c, <2>4, <2>5, <2>7 DEF l
  <2>9. LaidOut(Len(code), methPc)'
    <3>1. pc'[code'[1]] = 0
      <4>1. CASE l = 0
        BY <2>5, <2>6, <2>7, <4>1 DEF LaidOut
      <4>2. CASE l > 0
        BY <2>6, <2>7, <2>8, <4>2 DEF LaidOut
      <4> QED BY <2>7, <4>1, <4>2
    <3>2. \A k \in 1..(l + 1) : k < l + 1 => pc'[code'[k + 1]] = pc'[code'[k]] + width'[code'[k]]
      <4> SUFFICES ASSUME NEW k \in 1..(l + 1), k < l + 1
                   PROVE  pc'[code'[k + 1]] = pc'[code'[k]] + width'[code'[k]]
        OBVIOUS
      <4>1. CASE k = l
        BY <2>5, <2>6, <2>7, <2>8, <4>1 DEF LaidOut
      <4>2. CASE k < l
        <5>1. pc[code[k + 1]] = pc[code[k]] + width[code[k]] /\ k \in 1..l /\ k + 1 \in 1..l
          BY <2>6, <2>7, <4>2 DEF LaidOut
        <5> QED BY <2>8, <5>1
      <4> QED BY <2>7, <4>1, <4>2
    <3>3. methPc' = pc'[code'[l + 1]] + width'[code'[l + 1]]
      BY <2>1, <2>5, <2>7
    <3>4. l + 1 > 0 /\ l + 1 # 0
      BY <2>7
    <3> QED BY <2>7, <3>1, <3>2, <3>3, <3>4 DEF LaidOut
  <2>10. \A m \in Emitted' : op'[m] = "unused" => width'[m] = PlaceholderWidth
    <3> SUFFICES ASSUME NEW m \in Emitted', op'[m] = "unused" PROVE width'[m] = PlaceholderWidth
      OBVIOUS
    <3>1. m = x \/ (m \in Emitted /\ m # x)
      BY <2>1, <2>2, <1>t DEF GraphType, x
    <3> QED BY <1>n, <2>1, <2>3, <2>5, <3>1 DEF AddressInv
  <2>11. \A k \in 1..(l + 1) : code'[k] \in Emitted'
    <3> SUFFICES ASSUME NEW k \in 1..(l + 1) PROVE code'[k] \in Emitted'
      OBVIOUS
    <3>1. k \in 1..l \/ k = l + 1
      BY <2>7
    <3>2. x \in Emitted' /\ \A m \in Emitted : m \in Emitted'
      BY <2>1, <1>t DEF GraphType, x
    <3>3. \A m \in 1..l : code'[m] = code[m]
      BY <2>7
    <3>4. code'[l + 1] = x
      BY <2>7
    <3> HIDE DEF Emitted, x, l
    <3> QED BY <2>4, <3>1, <3>2, <3>3, <3>4
  <2> QED BY <2>1, <2>7, <2>9, <2>10, <2>11 DEF AddressInv, Building
<1>3. CASE StartLinking
  BY <1>3, AddressKept DEF StartLinking, graph, encoding, layout
<1>4. ASSUME NEW n \in Emitted, NEW t \in Emitted, SetBranchTarget(n, t) \/ AddSwitchDefault(n, t)
      PROVE  AddressInv'
  BY <1>4, AddressKept DEF SetBranchTarget, AddSwitchDefault, Linking, graph, analysis, layout
<1>5. ASSUME NEW n \in Emitted, NEW l \in Label, SetBranchLabel(n, l) \/ AssociateLabel(l, n)
      PROVE  AddressInv'
  BY <1>5, AddressKept DEF SetBranchLabel, AssociateLabel, Linking, graph, encoding, analysis, layout
<1>6. ASSUME NEW n \in Emitted, NEW t \in Emitted, NEW c \in CaseNum, AddSwitchCase(n, c, t)
      PROVE  AddressInv'
  BY <1>6, AddressKept DEF AddSwitchCase, Linking, graph, analysis, layout
<1>7. ASSUME NEW from \in Emitted, NEW to \in Emitted, NEW t \in Emitted, AddHandler(from, to, t)
      PROVE  AddressInv'
  BY <1>7, AddressKept DEF AddHandler, graph, encoding, analysis, layout
<1>8. CASE StartTraverse
  BY <1>8, AddressKept DEF StartTraverse, AllLinked, graph, encoding, layout
<1>9. ASSUME NEW n \in Emitted,
             \/ EnterVisited(n) \/ VisitPlain(n) \/ VisitReturn(n) \/ VisitLostJump(n)
             \/ ReturnFromJsr(n) \/ DefaultCase(n, Head(work).from)
      PROVE  AddressInv'
  BY <1>9, AddressKept
  DEF EnterVisited, VisitPlain, VisitReturn, VisitLostJump, ReturnFromJsr, DefaultCase, Visit, Top,
      graph, encoding, analysis, layout
<1>10. ASSUME NEW n \in Emitted, NEW c \in SortedNumbers(n), NextCase(n, Head(work).from, c)
       PROVE  AddressInv'
  BY <1>10, AddressKept DEF NextCase, Top, graph, encoding, layout
<1>11. ASSUME NEW n \in Emitted, VisitCond(n) PROVE AddressInv'
  BY <1>11, AddressKept DEF VisitCond, Visit, Top, graph, layout
<1>12. ASSUME phase' = "traverse", reCalc' PROVE AddressInv'
  BY <1>12 DEF AddressInv, Building
<1>13. ASSUME NEW n \in Emitted, VisitFarCond(n) \/ VisitSwitch(n) PROVE AddressInv'
  BY <1>12, <1>13 DEF VisitFarCond, VisitSwitch, Visit, Top
<1>14. ASSUME NEW n \in Emitted, VisitJump(n) PROVE AddressInv'
  <2> DEFINE far == TooFar(op[n], pc[JumpDest(n)], pc[n])
  <2>1. /\ phase = "traverse" /\ phase' = "traverse" /\ reCalc' = (reCalc \/ far)
        /\ UNCHANGED <<used, code, pc, methPc, idx, tmpPc>>
        /\ width' = [width EXCEPT ![n] = IF far THEN WideGotoWidth ELSE @]
    BY <1>14 DEF VisitJump, Visit, Top, graph, layout
  <2> HIDE DEF far
  <2>2. CASE far
    BY <1>12, <2>1, <2>2
  <2>3. CASE ~ far
    <3>1. width' = width
      BY <1>n, <1>t, <2>1, <2>3 DEF EncodingType
    <3>2. reCalc' = reCalc
      BY <1>t, <2>1, <2>3 DEF AnalysisType
    <3> QED BY <2>1, <3>1, <3>2, AddressKept
  <2> QED BY <2>2, <2>3
<1>15. CASE EnterHandler
  BY <1>15, AddressKept DEF EnterHandler, graph, encoding, layout
<1>16. CASE Succeed
  BY <1>16, AddressKept DEF Succeed, TraversalDone, graph, encoding, layout
<1>17. CASE StartLayout
  BY <1>17, <1>c DEF StartLayout, AddressInv, LaidOut, Building
<1>18. CASE LayoutInstr
  <2> DEFINE n == code[idx]
             wd == LaidOutWidth(n)
             q == idx - 1
  <2>1. idx \in Nat /\ q \in Nat /\ idx <= Len(code) /\ idx \in 1..Len(code) /\ n \in Node /\ idx = q + 1
    BY <1>18, <1>c, <1>t DEF LayoutInstr, ControlType
  <2>2. /\ phase = "layout" /\ phase' = "layout" /\ UNCHANGED code
        /\ pc' = [pc EXCEPT ![n] = tmpPc] /\ width' = [width EXCEPT ![n] = wd]
        /\ tmpPc' = tmpPc + wd /\ idx' = idx + 1
    BY <1>18 DEF LayoutInstr
  <2>3. LaidOut(q, tmpPc) /\ tmpPc \in Nat
    BY <2>2, <1>t DEF AddressInv, ControlType
  <2>4. wd \in Nat
    BY <2>1, <1>t, SwitchWidthType DEF LaidOutWidth, EncodingType, ControlType, TypeInv
  <2> HIDE DEF wd
  <2>5. \A k \in 1..q : code[k] # n /\ code[k] \in Node
    BY <1>c, <1>d, <2>1
  <2>6. code[q + 1] = n
    BY <2>1
  <2> HIDE DEF n, q
  <2>7. /\ pc'[n] = tmpPc /\ width'[n] = wd
        /\ \A m \in Node : m # n => pc'[m] = pc[m] /\ width'[m] = width[m]
    BY <2>1, <2>2, <1>t DEF EncodingType, GraphType
  <2>8. \A k \in 1..q : pc'[code[k]] = pc[code[k]] /\ width'[code[k]] = width[code[k]]
    BY <2>5, <2>7
  <2>9. LaidOut(idx - 1, tmpPc)'
    <3>1. pc'[code[1]] = 0
      <4>1. CASE q = 0
        BY <2>3, <2>6, <2>7, <4>1 DEF LaidOut
      <4>2. CASE q > 0
        BY <2>1, <2>3, <2>8, <4>2 DEF LaidOut
      <4> QED BY <2>1, <4>1, <4>2
    <3>2. \A k \in 1..(q + 1) : k < q + 1 => pc'[code[k + 1]] = pc'[code[k]] + width'[code[k]]
      <4> SUFFICES ASSUME NEW k \in 1..(q + 1), k < q + 1
                   PROVE  pc'[code[k + 1]] = pc'[code[k]] + width'[code[k]]
        OBVIOUS
      <4>1. CASE k = q
        BY <2>1, <2>3, <2>6, <2>7, <2>8, <4>1 DEF LaidOut
      <4>2. CASE k < q
        <5>1. pc[code[k + 1]] = pc[code[k]] + width[code[k]] /\ k \in 1..q /\ k + 1 \in 1..q
          BY <2>1, <2>3, <4>2 DEF LaidOut
        <5> QED BY <2>8, <5>1
      <4> QED BY <2>1, <4>1, <4>2
    <3>3. tmpPc' = pc'[code[q + 1]] + width'[code[q + 1]]
      BY <2>2, <2>6, <2>7
    <3>4. q + 1 > 0 /\ q + 1 # 0
      BY <2>1
    <3>5. idx' - 1 = q + 1
      BY <2>1, <2>2
    <3> QED BY <2>2, <3>1, <3>2, <3>3, <3>4, <3>5 DEF LaidOut
  <2>10. idx' <= Len(code) + 1
    BY <1>c, <2>1, <2>2
  <2> QED BY <2>2, <2>9, <2>10 DEF AddressInv, Building
<1>19. CASE StartOffsets
  <2>1. phase = "layout" /\ phase' = "offsets" /\ UNCHANGED <<code, pc, width, tmpPc>>
    BY <1>19 DEF StartOffsets, graph, encoding
  <2>2. idx - 1 = Len(code) /\ LaidOut(idx - 1, tmpPc)
    BY <1>19, <1>c, <1>t DEF StartOffsets, AddressInv, ControlType
  <2>3. LaidOut(Len(code), tmpPc)
    BY <2>2
  <2> QED BY <2>1, <2>3 DEF AddressInv, Building, LaidOut
<1>20. CASE RecalcOffset
  <2>1. phase = "offsets" /\ phase' = "offsets" /\ UNCHANGED <<used, code, pc, width, tmpPc>>
    BY <1>20 DEF RecalcOffset, graph
  <2> QED BY <2>1 DEF AddressInv, Building, LaidOut
<1>21. CASE EndOffsets
  <2>a. phase = "offsets" /\ UNCHANGED <<used, code, pc, width, tmpPc>>
    BY <1>21 DEF EndOffsets, graph, encoding, layout
  <2>b. phase' = "failed" \/ (phase' = "done" /\ methPc' = tmpPc)
    BY <1>21 DEF EndOffsets
  <2>1. phase = "offsets" /\ UNCHANGED <<used, code, pc, width, tmpPc>>
        /\ (phase' = "failed" \/ (phase' = "done" /\ methPc' = tmpPc))
    BY <2>a, <2>b
  <2> QED BY <2>1 DEF AddressInv, Building, LaidOut
<1>22. CASE UNCHANGED vars
  BY <1>22, AddressKept DEF vars, graph, encoding, analysis, layout
<1> QED
  BY <1>1, <1>2, <1>3, <1>4, <1>5, <1>6, <1>7, <1>8, <1>9, <1>10, <1>11, <1>13, <1>14, <1>15, <1>16,
     <1>17, <1>18, <1>19, <1>20, <1>21, <1>22
  DEF Next, Build, Finalizing, Traverse, Relocate, Terminated

(* The addresses' invariant holds throughout.                               *)
LEMMA AddressInvCorrect == Spec => []AddressInv
  BY TypeInvCorrect, CodeInvCorrect, InitAddress, NextAddress, PTL DEF Spec

(* When traverse_code succeeds, the addresses are those of the bytes that   *)
(* write_code puts out and code_length is their number, for any method,     *)
(* switches and widened branches included.                                  *)
THEOREM AddressesExactCorrect == Spec => []AddressesExact
<1>1. TypeInv /\ AddressInv => AddressesExact
  <2> SUFFICES ASSUME TypeInv, AddressInv, phase = "done", code # <<>>
               PROVE  /\ pc[Head(code)] = 0
                      /\ \A k \in 1..(Len(code) - 1) : pc[code[k + 1]] = pc[code[k]] + width[code[k]]
                      /\ methPc = pc[Last(code)] + width[Last(code)]
    BY DEF AddressesExact
  <2>1. LaidOut(Len(code), methPc) /\ Len(code) \in Nat /\ Len(code) > 0 /\ Head(code) = code[1]
    BY DEF AddressInv, TypeInv, TypeOK, GraphType
  <2>2. \A k \in 1..(Len(code) - 1) : k \in 1..Len(code) /\ k < Len(code)
    BY <2>1
  <2> QED BY <2>1, <2>2 DEF LaidOut, Last
<1> QED BY <1>1, TypeInvCorrect, AddressInvCorrect, PTL
-----------------------------------------------------------------------------
(* Branch offsets. *)

Exact(n) == target[n] # None => operand[n] = pc[target[n]] - pc[n]

(* Until the traversal asks for a new layout, the branches it has visited   *)
(* are exact; the recalculation makes the branches of a growing prefix of   *)
(* the code exact again.  Only branches ever have targets.                  *)
OperandInv ==
  /\ Building \/ phase = "traverse" => \A n \in Emitted : op[n] \notin BranchOps => target[n] = None
  /\ Building => \A n \in Node : ~ visited[n]
  /\ phase = "traverse" /\ ~ reCalc => \A n \in Node : visited[n] => Exact(n)
  /\ phase = "offsets" => \A k \in 1..Len(code) : k < idx => Exact(code[k])
  /\ phase = "done" => \A k \in 1..Len(code) : visited[code[k]] => Exact(code[k])

(* The offsets' invariant holds at first.                                   *)
LEMMA InitOperand == Init => OperandInv
  BY DEF Init, OperandInv

(* A step that changes nothing about offsets keeps the invariant.           *)
LEMMA OperandKept ==
  ASSUME OperandInv, UNCHANGED <<used, code, pc, op, target, operand, visited, idx>>,
         \/ UNCHANGED <<phase, reCalc>>
         \/ phase = "append" /\ phase' = "link"
         \/ phase = "link" /\ phase' = "done" /\ code = <<>>
         \/ phase = "link" /\ phase' = "traverse"
         \/ phase = "traverse" /\ phase' = "done" /\ ~ reCalc /\ (\A k \in 1..Len(code) : code[k] \in Node)
  PROVE  OperandInv'
  BY DEF OperandInv, Exact, Building

(* Every step keeps the offsets' invariant.                                 *)
LEMMA NextOperand == TypeInv /\ CodeInv /\ OperandInv /\ [Next]_vars => OperandInv'
<1> SUFFICES ASSUME TypeInv, CodeInv, OperandInv, [Next]_vars PROVE OperandInv'
  OBVIOUS
<1>t. GraphType /\ LinksType /\ EncodingType /\ AnalysisType /\ WalkType /\ ControlType
  BY DEF TypeInv, TypeOK
<1>n. \A n \in Emitted : n \in Node
  BY <1>t DEF GraphType
<1>c. Len(code) \in Nat /\ \A k \in 1..Len(code) : code[k] \in Node
  BY <1>t DEF GraphType
<1>d. \A j, k \in 1..Len(code) : code[j] = code[k] => j = k
  BY DEF CodeInv, Distinct
<1>1. ASSUME phase = "append", phase' = "append", UNCHANGED <<target, visited>>, used' \in 0..MaxInstrs
      PROVE  OperandInv'
  <2>1. \A n \in Node : target[n] = None /\ ~ visited[n]
    BY <1>1 DEF TypeInv, LinksOK, CodeInv
  <2>2. \A n \in Emitted' : n \in Node
    BY <1>1
  <2> QED BY <1>1, <2>1, <2>2 DEF OperandInv, Building
<1>2. ASSUME NEW i \in Instrs, OverwritePlaceholder(i) \/ AppendInstr(i) PROVE OperandInv'
  <2>1. phase = "append" /\ phase' = "append" /\ UNCHANGED <<target, visited>> /\ used' \in 0..MaxInstrs
    BY <1>2, <1>t DEF OverwritePlaceholder, AppendInstr, analysis, GraphType
  <2> QED BY <1>1, <2>1
<1>3. CASE StartLinking
  BY <1>3, OperandKept DEF StartLinking, graph, encoding, analysis, layout
<1>4. ASSUME NEW n \in Emitted, NEW t \in Emitted, SetBranchTarget(n, t) PROVE OperandInv'
  <2>1. /\ op[n] \in BranchOps /\ Building /\ UNCHANGED <<phase, used, op, visited>>
        /\ \A m \in Emitted : m # n => target'[m] = target[m]
    BY <1>4, <1>n, <1>t DEF SetBranchTarget, Linking, Building, graph, analysis, EncodingType
  <2>2. \A m \in Emitted : op'[m] \notin BranchOps => target'[m] = None
    BY <2>1 DEF OperandInv
  <2> QED BY <2>1, <2>2 DEF OperandInv, Building
<1>5. ASSUME NEW n \in Emitted, NEW t \in Emitted, AddSwitchDefault(n, t) PROVE OperandInv'
  BY <1>5, OperandKept DEF AddSwitchDefault, Linking, graph, analysis, layout
<1>6. ASSUME NEW n \in Emitted, NEW l \in Label, SetBranchLabel(n, l) \/ AssociateLabel(l, n)
      PROVE  OperandInv'
  BY <1>6, OperandKept DEF SetBranchLabel, AssociateLabel, Linking, graph, encoding, analysis, layout
<1>7. ASSUME NEW n \in Emitted, NEW t \in Emitted, NEW c \in CaseNum, AddSwitchCase(n, c, t)
      PROVE  OperandInv'
  BY <1>7, OperandKept DEF AddSwitchCase, Linking, graph, analysis, layout
<1>8. ASSUME NEW from \in Emitted, NEW to \in Emitted, NEW t \in Emitted, AddHandler(from, to, t)
      PROVE  OperandInv'
  BY <1>8, OperandKept DEF AddHandler, graph, encoding, analysis, layout
<1>9. CASE StartTraverse
  BY <1>9, OperandKept DEF StartTraverse, AllLinked, graph, encoding, layout
<1>10. ASSUME NEW n \in Emitted,
              EnterVisited(n) \/ ReturnFromJsr(n) \/ DefaultCase(n, Head(work).from)
       PROVE  OperandInv'
  BY <1>10, OperandKept
  DEF EnterVisited, ReturnFromJsr, DefaultCase, Top, graph, encoding, analysis, layout
<1>11. ASSUME NEW n \in Emitted, NEW c \in SortedNumbers(n), NextCase(n, Head(work).from, c)
       PROVE  OperandInv'
  BY <1>11, OperandKept DEF NextCase, Top, graph, encoding, layout
<1>12. ASSUME NEW n \in Emitted, phase = "traverse", phase' = "traverse",
              UNCHANGED <<used, code, pc, op, target, operand, reCalc>>,
              visited' = [visited EXCEPT ![n] = TRUE], target[n] = None
       PROVE  OperandInv'
  <2>1. \A m \in Node : visited'[m] => visited[m] \/ m = n
    BY <1>12, <1>t DEF AnalysisType
  <2> QED BY <1>12, <2>1 DEF OperandInv, Exact, Building
<1>13. ASSUME NEW n \in Emitted, VisitPlain(n) \/ VisitReturn(n) \/ VisitLostJump(n) PROVE OperandInv'
  <2>1. phase = "traverse" /\ phase' = "traverse" /\ UNCHANGED <<used, code, pc, op, target, operand, reCalc>>
        /\ visited' = [visited EXCEPT ![n] = TRUE]
    BY <1>13 DEF VisitPlain, VisitReturn, VisitLostJump, Visit, Top, graph, encoding
  <2>2. target[n] = None
    BY <1>13, <2>1 DEF VisitPlain, VisitReturn, VisitLostJump, JumpDest, OperandInv
  <2> QED BY <1>12, <2>1, <2>2
<1>14. ASSUME phase = "traverse", phase' = "traverse", reCalc',
              \A n \in Emitted' : op'[n] \notin BranchOps => target'[n] = None
       PROVE  OperandInv'
  BY <1>14 DEF OperandInv, Building
<1>15. ASSUME NEW n \in Emitted, phase = "traverse", phase' = "traverse", UNCHANGED <<used, code, pc>>,
              visited' = [visited EXCEPT ![n] = TRUE], reCalc' = reCalc, NEW d \in Node,
              operand' = [operand EXCEPT ![n] = pc[d] - pc[n]], target' = [target EXCEPT ![n] = d],
              op[n] \in BranchOps, op' = op
       PROVE  OperandInv'
  <2>1. /\ \A m \in Node : visited'[m] => visited[m] \/ m = n
        /\ \A m \in Node : m # n => operand'[m] = operand[m] /\ target'[m] = target[m]
        /\ operand'[n] = pc[d] - pc[n] /\ target'[n] = d
    BY <1>15, <1>n, <1>t DEF AnalysisType, EncodingType
  <2>2. \A m \in Emitted : op'[m] \notin BranchOps => target'[m] = None
    BY <1>15, <1>n, <2>1 DEF OperandInv
  <2>3. ~ reCalc => \A m \in Node : visited'[m] => Exact(m)'
    <3> SUFFICES ASSUME ~ reCalc, NEW m \in Node, visited'[m] PROVE Exact(m)'
      OBVIOUS
    <3>1. CASE m = n
      BY <1>15, <2>1, <3>1 DEF Exact
    <3>2. CASE m # n
      BY <1>15, <2>1, <3>2 DEF Exact, OperandInv
    <3> QED BY <3>1, <3>2
  <2> QED BY <1>15, <2>2, <2>3 DEF OperandInv, Building
<1>16. ASSUME NEW n \in Emitted, VisitJump(n) PROVE OperandInv'
  <2> DEFINE d == JumpDest(n)
             far == TooFar(op[n], pc[d], pc[n])
  <2>1. /\ phase = "traverse" /\ phase' = "traverse" /\ UNCHANGED <<used, code, pc>>
        /\ op[n] \in JumpOps /\ d # None
        /\ visited' = [visited EXCEPT ![n] = TRUE]
        /\ reCalc' = (reCalc \/ far)
        /\ op' = [op EXCEPT ![n] = IF far THEN (IF @ = "goto" THEN "goto_w" ELSE "jsr_w") ELSE @]
        /\ operand' = [operand EXCEPT ![n] = pc[d] - pc[n]]
        /\ target' = [target EXCEPT ![n] = d]
    BY <1>16 DEF VisitJump, Visit, Top, graph
  <2>2. d \in Node
    BY <1>n, <2>1, JumpDestType DEF TypeInv
  <2> HIDE DEF far, d
  <2>3. CASE far
    <3>1. op'[n] \in BranchOps /\ \A m \in Node : m # n => op'[m] = op[m] /\ target'[m] = target[m]
      BY <1>n, <1>t, <2>1, <2>3 DEF EncodingType
    <3>2. \A m \in Emitted' : op'[m] \notin BranchOps => target'[m] = None
      BY <1>n, <2>1, <3>1 DEF OperandInv
    <3> QED BY <1>14, <2>1, <2>3, <3>2
  <2>4. CASE ~ far
    <3>1. op' = op /\ reCalc' = reCalc
      BY <1>n, <1>t, <2>1, <2>4 DEF EncodingType, AnalysisType
    <3> QED BY <1>15, <2>1, <2>2, <3>1
  <2> QED BY <2>3, <2>4
<1>17. ASSUME NEW n \in Emitted, VisitCond(n) PROVE OperandInv'
  <2>1. target[n] \in Node /\ target' = [target EXCEPT ![n] = target[n]]
    BY <1>17, <1>n, <1>t, VisitType DEF VisitCond, Linked, LinksOK, EncodingType, TypeInv
  <2>2. /\ phase = "traverse" /\ phase' = "traverse" /\ UNCHANGED <<used, code, pc, op, reCalc>>
        /\ op[n] \in BranchOps
        /\ visited' = [visited EXCEPT ![n] = TRUE]
        /\ operand' = [operand EXCEPT ![n] = pc[target[n]] - pc[n]]
    BY <1>17 DEF VisitCond, Visit, Top, graph
  <2> QED BY <1>15, <2>1, <2>2
<1>18. ASSUME NEW n \in Emitted, VisitFarCond(n) PROVE OperandInv'
  <2> DEFINE g == GotoOf(n)
             w == WideOf(n)
  <2>1. g \notin Emitted /\ w \notin Emitted
    BY <1>t DEF GotoOf, WideOf, GraphType
  <2>2. /\ phase = "traverse" /\ phase' = "traverse" /\ reCalc' /\ used' = used /\ op[n] = "cond"
        /\ op' = [op EXCEPT ![g] = "goto", ![w] = "goto_w"]
        /\ target' = [target EXCEPT ![n] = w, ![g] = next[n], ![w] = target[n]]
    BY <1>18 DEF VisitFarCond, Visit, Top
  <2> HIDE DEF g, w
  <2>3. \A m \in Emitted : op'[m] = op[m] /\ (m # n => target'[m] = target[m])
    BY <1>n, <1>t, <2>1, <2>2 DEF EncodingType
  <2>4. \A m \in Emitted' : op'[m] \notin BranchOps => target'[m] = None
    BY <2>2, <2>3 DEF OperandInv
  <2> QED BY <1>14, <2>2, <2>4
<1>19. ASSUME NEW n \in Emitted, VisitSwitch(n) PROVE OperandInv'
  <2>1. /\ phase = "traverse" /\ phase' = "traverse" /\ reCalc' /\ UNCHANGED <<used, target>>
        /\ op[n] \in SwitchOps /\ op'[n] \in SwitchOps /\ \A m \in Node : m # n => op'[m] = op[m]
    BY <1>19, <1>n, <1>t DEF VisitSwitch, Visit, Top, graph, EncodingType
  <2>2. \A m \in Emitted' : op'[m] \notin BranchOps => target'[m] = None
    BY <1>n, <2>1 DEF OperandInv
  <2> QED BY <1>14, <2>1, <2>2
<1>20. CASE EnterHandler
  BY <1>20, OperandKept DEF EnterHandler, graph, encoding, layout
<1>21. CASE Succeed
  BY <1>21, <1>c, OperandKept DEF Succeed, TraversalDone, graph, encoding, analysis, layout
<1>22. CASE StartLayout \/ LayoutInstr
  BY <1>22 DEF StartLayout, LayoutInstr, TraversalDone, OperandInv, Building
<1>23. CASE StartOffsets
  <2>1. phase' = "offsets" /\ idx' = 1
    BY <1>23 DEF StartOffsets
  <2> QED BY <2>1, <1>c DEF OperandInv, Building
<1>24. CASE RecalcOffset
  <2> DEFINE n == code[idx]
  <2>1. idx \in 1..Len(code) /\ n \in Node /\ idx \in Nat
    BY <1>24, <1>c, <1>t DEF RecalcOffset, ControlType
  <2>2. phase = "offsets" /\ phase' = "offsets" /\ UNCHANGED <<code, pc, target>> /\ idx' = idx + 1
    BY <1>24 DEF RecalcOffset, graph
  <2>3. \A m \in Node : m # n => operand'[m] = operand[m]
    BY <1>24, <1>t DEF RecalcOffset, EncodingType
  <2>4. target[n] # None => operand'[n] = pc[target[n]] - pc[n]
    BY <1>24, <1>t, <2>1 DEF RecalcOffset, EncodingType
  <2> HIDE DEF n
  <2>5. \A k \in 1..Len(code) : k < idx + 1 => Exact(code[k])'
    <3> SUFFICES ASSUME NEW k \in 1..Len(code), k < idx + 1 PROVE Exact(code[k])'
      OBVIOUS
    <3>1. CASE k = idx
      BY <2>2, <2>4, <3>1 DEF Exact, n
    <3>2. CASE k < idx
      <4>1. code[k] # n /\ code[k] \in Node /\ Exact(code[k])
        BY <1>c, <1>d, <2>1, <2>2, <3>2 DEF n, OperandInv
      <4> QED BY <2>2, <2>3, <4>1 DEF Exact
    <3> QED BY <2>1, <3>1, <3>2
  <2> QED BY <2>2, <2>5 DEF OperandInv, Building
<1>25. CASE EndOffsets
  <2>1. phase = "offsets" /\ idx > Len(code) /\ UNCHANGED <<code, pc, target, operand>>
    BY <1>25 DEF EndOffsets, graph, encoding
  <2>2. phase' \in {"failed", "done"}
    BY <1>25 DEF EndOffsets
  <2>3. \A k \in 1..Len(code) : k < idx
    BY <1>c, <1>t, <2>1 DEF ControlType
  <2> QED BY <2>1, <2>2, <2>3 DEF OperandInv, Exact, Building
<1>26. CASE UNCHANGED vars
  BY <1>26, OperandKept DEF vars, graph, encoding, analysis, layout
<1> QED
  BY <1>2, <1>3, <1>4, <1>5, <1>6, <1>7, <1>8, <1>9, <1>10, <1>11, <1>13, <1>16, <1>17, <1>18, <1>19,
     <1>20, <1>21, <1>22, <1>23, <1>24, <1>25, <1>26
  DEF Next, Build, Finalizing, Traverse, Relocate, Terminated

(* When traverse_code succeeds, every branch it reached carries the         *)
(* distance to its target, whichever of the two passes computed it last.    *)
THEOREM OperandsExactCorrect == Spec => []OperandsExact
<1>1. OperandInv => OperandsExact
  BY DEF OperandInv, OperandsExact, Exact
<1> QED BY <1>1, TypeInvCorrect, CodeInvCorrect, InitOperand, NextOperand, PTL DEF Spec

-----------------------------------------------------------------------------
(* Switches. *)

(* A switch at its address is as wide as its padding asks for. *)
Padded(n) == op[n] \in SwitchOps => width[n] = SwitchWidth(n, op[n], pc[n])

(* The traversal asks for a new layout at the first switch it visits; the   *)
(* layout pads the switches of a growing prefix of the code, and nothing    *)
(* touches them afterwards.                                                 *)
SwitchInv ==
  /\ \A n \in Node : low[n] <= high[n] /\ entries[n] >= 0
  /\ phase = "traverse" /\ ~ reCalc => \A n \in Emitted : visited[n] => op[n] \notin SwitchOps
  /\ phase = "layout" => \A k \in 1..Len(code) : k < idx => Padded(code[k])
  /\ phase = "offsets" => \A k \in 1..Len(code) : Padded(code[k])
  /\ phase = "done" => \A n \in Emitted : visited[n] => Padded(n)

(* At first there are no switches to pad.                                    *)
LEMMA InitSwitch == Init => SwitchInv
  BY DEF Init, SwitchInv

(* A step that moves nothing and visits nothing keeps the invariant.        *)
LEMMA SwitchKept ==
  ASSUME TypeInv, CodeInv, SwitchInv,
         UNCHANGED <<used, code, op, width, pc, entries, low, high, visited, idx>>,
         \/ UNCHANGED <<phase, reCalc>>
         \/ phase' \in {"append", "link"}
         \/ phase = "link" /\ phase' \in {"done", "traverse"}
         \/ phase = "traverse" /\ phase' = "done" /\ ~ reCalc
         \/ phase = "offsets" /\ phase' \in {"offsets", "done", "failed"}
  PROVE  SwitchInv'
<1>1. \A n : Padded(n)' <=> Padded(n)
  BY DEF Padded, SwitchWidth, SwitchBytes, Span, Padding
<1>2. \A n \in Emitted : n \in Node
  BY DEF TypeInv, TypeOK, GraphType
<1>3. \A n \in Emitted : \E k \in 1..Len(code) : code[k] = n
  BY DEF TypeInv, InCode
<1>4. phase = "link" => \A n \in Node : ~ visited[n]
  BY DEF CodeInv
<1>5. phase = "traverse" /\ phase' = "done" /\ ~ reCalc => \A n \in Emitted : visited[n] => Padded(n)
  BY DEF SwitchInv, Padded
<1>6. phase = "offsets" => \A n \in Emitted : Padded(n)
  BY <1>3 DEF SwitchInv
<1> QED BY <1>1, <1>2, <1>4, <1>5, <1>6 DEF SwitchInv

(* The layout puts node n at the address p. *)
LEMMA PaddedAt ==
  ASSUME NEW n \in Node, NEW p, UNCHANGED <<op, entries, low, high>>,
         pc'[n] = p, op[n] \in SwitchOps => width'[n] = SwitchWidth(n, op[n], p)
  PROVE  Padded(n)'
  BY DEF Padded, SwitchWidth, SwitchBytes, Span, Padding

(* Every step keeps the widths of the switches that were laid out.           *)
LEMMA NextSwitch == TypeInv /\ CodeInv /\ SwitchInv /\ [Next]_vars => SwitchInv'
<1> SUFFICES ASSUME TypeInv, CodeInv, SwitchInv, [Next]_vars PROVE SwitchInv'
  OBVIOUS
<1>t. GraphType /\ LinksType /\ EncodingType /\ AnalysisType /\ WalkType /\ ControlType
  BY DEF TypeInv, TypeOK
<1>n. \A n \in Emitted : n \in Node
  BY <1>t DEF GraphType
<1>c. Len(code) \in Nat /\ \A k \in 1..Len(code) : code[k] \in Node
  BY <1>t DEF GraphType
<1>d. \A j, k \in 1..Len(code) : code[j] = code[k] => j = k
  BY DEF CodeInv, Distinct
<1>1. ASSUME NEW i \in Instrs, OverwritePlaceholder(i) \/ AppendInstr(i) PROVE SwitchInv'
  <2>1. phase' = "append" /\ UNCHANGED <<low, high, entries>>
    BY <1>1 DEF OverwritePlaceholder, AppendInstr, links
  <2> QED BY <2>1 DEF SwitchInv
<1>2. CASE StartLinking
  BY <1>2, SwitchKept DEF StartLinking, graph, links, encoding, analysis, layout
<1>3. ASSUME NEW n \in Emitted, NEW t \in Emitted, SetBranchTarget(n, t) \/ AddSwitchDefault(n, t)
      PROVE  SwitchInv'
  <2>1. phase' = "link" /\ UNCHANGED <<low, high, entries>>
    BY <1>3 DEF SetBranchTarget, AddSwitchDefault, Linking, links
  <2> QED BY <2>1 DEF SwitchInv
<1>4. ASSUME NEW n \in Emitted, NEW l \in Label, SetBranchLabel(n, l) \/ AssociateLabel(l, n)
      PROVE  SwitchInv'
  <2>1. phase' = "link" /\ UNCHANGED <<low, high, entries>>
    BY <1>4 DEF SetBranchLabel, AssociateLabel, AllLinked, Linking, links, encoding
  <2> QED BY <2>1 DEF SwitchInv
<1>5. ASSUME NEW n \in Emitted, NEW t \in Emitted, NEW c \in CaseNum, AddSwitchCase(n, c, t)
      PROVE  SwitchInv'
  <2>1. /\ phase' = "link" /\ n \in Node /\ c \in Int
        /\ low' = [low EXCEPT ![n] = IF cases[n] = {} \/ c < @ THEN c ELSE @]
        /\ high' = [high EXCEPT ![n] = IF cases[n] = {} \/ c > @ THEN c ELSE @]
        /\ entries' = [entries EXCEPT ![n] = @ + 1]
    BY <1>5, <1>n, CaseNumAssumption DEF AddSwitchCase, Linking
  <2>2. low[n] \in Int /\ high[n] \in Int /\ entries[n] \in Int
    BY <2>1, <1>t DEF LinksType, EncodingType
  <2>3. low'[n] <= high'[n] /\ entries'[n] >= 0
    <3>1. low[n] <= high[n] /\ entries[n] >= 0
      BY <2>1 DEF SwitchInv
    <3>2. /\ low'[n] = IF cases[n] = {} \/ c < low[n] THEN c ELSE low[n]
          /\ high'[n] = IF cases[n] = {} \/ c > high[n] THEN c ELSE high[n]
          /\ entries'[n] = entries[n] + 1
      BY <2>1, <1>t DEF LinksType, EncodingType
    <3> QED BY <2>1, <2>2, <3>1, <3>2
  <2>4. \A m \in Node : m # n => low'[m] = low[m] /\ high'[m] = high[m] /\ entries'[m] = entries[m]
    BY <2>1, <1>t DEF LinksType, EncodingType
  <2> QED BY <2>1, <2>3, <2>4 DEF SwitchInv
<1>6. ASSUME NEW from \in Emitted, NEW to \in Emitted, NEW t \in Emitted, AddHandler(from, to, t)
      PROVE  SwitchInv'
  BY <1>6, SwitchKept DEF AddHandler, graph, encoding, analysis, layout
<1>7. CASE StartTraverse
  BY <1>7, SwitchKept DEF StartTraverse, AllLinked, graph, links, encoding, layout
<1>8. ASSUME NEW n \in Emitted,
             EnterVisited(n) \/ ReturnFromJsr(n) \/ DefaultCase(n, Head(work).from)
      PROVE  SwitchInv'
  BY <1>8, SwitchKept
  DEF EnterVisited, ReturnFromJsr, DefaultCase, Top, graph, links, encoding, analysis, layout
<1>9. ASSUME NEW n \in Emitted, NEW c \in SortedNumbers(n), NextCase(n, Head(work).from, c)
      PROVE  SwitchInv'
  BY <1>9, SwitchKept DEF NextCase, Top, graph, links, encoding, layout
<1>10. CASE EnterHandler
  BY <1>10, SwitchKept DEF EnterHandler, graph, links, encoding, layout
<1>11. ASSUME NEW n \in Emitted, phase = "traverse", phase' = "traverse", op[n] \notin SwitchOps,
              UNCHANGED <<used, op, low, high, entries, reCalc>>,
              visited' = [visited EXCEPT ![n] = TRUE]
       PROVE  SwitchInv'
  <2>1. \A m \in Emitted : visited'[m] => visited[m] \/ m = n
    BY <1>11, <1>n, <1>t DEF AnalysisType
  <2> QED BY <1>11, <2>1 DEF SwitchInv
<1>12. ASSUME NEW n \in Emitted, VisitPlain(n) \/ VisitReturn(n) \/ VisitLostJump(n) \/ VisitCond(n)
       PROVE  SwitchInv'
  <2>1. /\ phase = "traverse" /\ phase' = "traverse" /\ UNCHANGED <<used, op, low, high, entries, reCalc>>
        /\ visited' = [visited EXCEPT ![n] = TRUE]
    BY <1>12 DEF VisitPlain, VisitReturn, VisitLostJump, VisitCond, Visit, Top, graph, links, encoding
  <2>2. op[n] \notin SwitchOps
    BY <1>12 DEF VisitPlain, VisitReturn, VisitLostJump, VisitCond, SwitchOps, ReturnOps, BranchOps, JumpOps
  <2> QED BY <1>11, <2>1, <2>2
<1>13. ASSUME NEW n \in Emitted, VisitJump(n) PROVE SwitchInv'
  <2> DEFINE far == TooFar(op[n], pc[JumpDest(n)], pc[n])
  <2>1. /\ phase = "traverse" /\ phase' = "traverse" /\ UNCHANGED <<used, low, high, entries>>
        /\ op[n] \in JumpOps /\ reCalc' = (reCalc \/ far)
        /\ op' = [op EXCEPT ![n] = IF far THEN (IF @ = "goto" THEN "goto_w" ELSE "jsr_w") ELSE @]
        /\ visited' = [visited EXCEPT ![n] = TRUE]
    BY <1>13 DEF VisitJump, Visit, Top, graph, links
  <2> HIDE DEF far
  <2>2. CASE far
    BY <2>1, <2>2 DEF SwitchInv
  <2>3. CASE ~ far
    <3>1. op' = op /\ reCalc' = reCalc
      BY <2>1, <2>3, <1>t DEF EncodingType, AnalysisType
    <3>2. op[n] \notin SwitchOps
      BY <2>1 DEF SwitchOps, JumpOps
    <3> QED BY <1>11, <2>1, <3>1, <3>2
  <2> QED BY <2>2, <2>3
<1>14. ASSUME NEW n \in Emitted, VisitFarCond(n) PROVE SwitchInv'
  BY <1>14 DEF VisitFarCond, Visit, Top, links, SwitchInv
<1>15. ASSUME NEW n \in Emitted, VisitSwitch(n) PROVE SwitchInv'
  <2> DEFINE o == IF Span(n) - entries[n] > FillThresh THEN "lookupswitch" ELSE "tableswitch"
  <2>1. /\ phase' = "traverse" /\ UNCHANGED <<low, high>> /\ reCalc' = TRUE
        /\ entries' = [entries EXCEPT ![n] = IF o = "tableswitch" THEN Span(n) ELSE @]
    BY <1>15 DEF VisitSwitch, Visit, Top, links
  <2> HIDE DEF o
  <2>2. \A m \in Node : low[m] \in Int /\ high[m] \in Int /\ entries[m] \in Int
    BY <1>t DEF LinksType, EncodingType
  <2>3. \A m \in Node : entries'[m] >= 0
    BY <2>1, <2>2, <1>n, <1>t DEF SwitchInv, Span, EncodingType
  <2> QED BY <2>1, <2>3 DEF SwitchInv
<1>16. CASE Succeed
  BY <1>16, SwitchKept DEF Succeed, TraversalDone, graph, links, encoding, analysis, layout
<1>17. CASE StartLayout
  <2>1. phase' = "layout" /\ idx' = 1 /\ UNCHANGED <<low, high, entries, code>>
    BY <1>17 DEF StartLayout, graph, links, encoding
  <2> QED BY <2>1 DEF SwitchInv
<1>18. CASE LayoutInstr
  <2> DEFINE n == code[idx]
             W == LaidOutWidth(n)
  <2>1. /\ phase = "layout" /\ phase' = "layout" /\ idx \in 1..Len(code) /\ idx' = idx + 1
        /\ n \in Node /\ UNCHANGED <<code, op, low, high, entries>>
        /\ pc' = [pc EXCEPT ![n] = tmpPc] /\ width' = [width EXCEPT ![n] = W]
    BY <1>18, <1>c, <1>t DEF LayoutInstr, ControlType, links
  <2> HIDE DEF W
  <2>2. /\ pc'[n] = tmpPc /\ width'[n] = W
        /\ \A m \in Node : m # n => pc'[m] = pc[m] /\ width'[m] = width[m]
    BY <2>1, <1>t DEF GraphType, EncodingType
  <2>6. op[n] \in SwitchOps => W = SwitchWidth(n, op[n], tmpPc)
    BY DEF W, LaidOutWidth
  <2>3. \A m \in Node : m = n => Padded(m)'
    BY <2>1, <2>2, <2>6, PaddedAt
  <2>4. \A m \in Node : m # n /\ Padded(m) => Padded(m)'
    BY <2>1, <2>2, PaddedAt DEF Padded
  <2>7. \A k \in 1..Len(code) : code'[k] = code[k]
    BY <2>1
  <2> HIDE DEF n
  <2>5. \A k \in 1..Len(code) : k < idx' => Padded(code[k])'
    <3> SUFFICES ASSUME NEW k \in 1..Len(code), k < idx' PROVE Padded(code[k])'
      OBVIOUS
    <3>1. CASE k = idx
      <4>1. code[k] = n
        BY <3>1 DEF n
      <4> QED BY <2>1, <2>3, <2>7, <4>1
    <3>2. CASE k < idx
      <4>1. code[k] # n /\ code[k] \in Node /\ Padded(code[k])
        BY <1>c, <1>d, <2>1, <3>2 DEF SwitchInv, n
      <4> QED BY <2>4, <2>7, <4>1
    <3> QED BY <2>1, <1>t, <3>1, <3>2 DEF ControlType
  <2>8. \A k \in 1..Len(code') : k < idx' => Padded(code[k])'
    BY <2>1, <2>5
  <2> QED BY <2>1, <2>8 DEF SwitchInv
<1>19. CASE StartOffsets
  <2>1. /\ phase = "layout" /\ phase' = "offsets" /\ idx > Len(code)
        /\ UNCHANGED <<code, op, width, pc, low, high, entries>>
    BY <1>19 DEF StartOffsets, graph, links, encoding
  <2>2. \A k \in 1..Len(code) : k < idx
    BY <2>1, <1>c, <1>t DEF ControlType
  <2>3. \A m : Padded(m)' <=> Padded(m)
    BY <2>1 DEF Padded, SwitchWidth, SwitchBytes, Span
  <2> QED BY <2>1, <2>2, <2>3 DEF SwitchInv
<1>20. CASE RecalcOffset
  <2>1. /\ phase = "offsets" /\ phase' = "offsets"
        /\ UNCHANGED <<code, op, width, pc, low, high, entries>>
    BY <1>20 DEF RecalcOffset, graph, links
  <2>2. \A m : Padded(m)' <=> Padded(m)
    BY <2>1 DEF Padded, SwitchWidth, SwitchBytes, Span
  <2> QED BY <2>1, <2>2 DEF SwitchInv
<1>21. CASE EndOffsets
  BY <1>21, SwitchKept DEF EndOffsets, graph, links, encoding, analysis, layout
<1>22. CASE UNCHANGED vars
  BY <1>22, SwitchKept DEF vars, graph, links, encoding, analysis, layout
<1> QED
  BY <1>1, <1>2, <1>3, <1>4, <1>5, <1>6, <1>7, <1>8, <1>9, <1>10, <1>12, <1>13, <1>14, <1>15, <1>16,
     <1>17, <1>18, <1>19, <1>20, <1>21, <1>22
  DEF Next, Build, Finalizing, Traverse, Relocate, Terminated

(* A switch that was laid out is padded for its address.                     *)
LEMMA SwitchInvCorrect == Spec => []SwitchInv
  BY TypeInvCorrect, CodeInvCorrect, InitSwitch, NextSwitch, PTL DEF Spec

(* When traverse_code succeeds, every switch it reached has the width of    *)
(* the bytes write_code puts out for it at its final address, as long as    *)
(* they fit a u1, however often it was moved.                               *)
THEOREM SwitchWidthsExactCorrect == Spec => []SwitchWidthsExact
<1>1. ASSUME TypeInv, SwitchInv PROVE SwitchWidthsExact
  <2> SUFFICES ASSUME phase = "done", NEW n \in Emitted, visited[n], op[n] \in SwitchOps,
                      SwitchBytes(n, op[n], pc[n]) < 256
               PROVE  width[n] = SwitchBytes(n, op[n], pc[n])
    BY DEF SwitchWidthsExact
  <2> DEFINE B == SwitchBytes(n, op[n], pc[n])
  <2>1. n \in Node
    BY <1>1 DEF TypeInv, TypeOK, GraphType
  <2>2. /\ pc[n] \in Int /\ low[n] \in Int /\ high[n] \in Int /\ entries[n] \in Int
        /\ low[n] <= high[n] /\ entries[n] >= 0
    BY <1>1, <2>1 DEF TypeInv, TypeOK, GraphType, LinksType, EncodingType, SwitchInv
  <2>3. Padding(pc[n]) \in 0..3
    BY <2>2 DEF Padding
  <2>4. B \in Nat
    BY <2>2, <2>3 DEF SwitchBytes, Span
  <2>5. width[n] = B % 256
    BY <1>1 DEF SwitchInv, Padded, SwitchWidth
  <2> HIDE DEF B
  <2>6. B < 256
    BY DEF B
  <2>7. B % 256 = B
    BY <2>4, <2>6
  <2> QED BY <2>5, <2>7 DEF B
<1> QED BY <1>1, TypeInvCorrect, SwitchInvCorrect, PTL
-----------------------------------------------------------------------------
(* Try blocks. *)

(* What widening inserts for a conditional follows it in the code, before   *)
(* the client's next instruction.                                           *)
Sorted(s) ==
  \A j, k \in 1..Len(s) : j < k =>
    /\ Owner(s[j]) <= Owner(s[k])
    /\ s[k] \in Client => Owner(s[j]) < s[k]

OrderInv ==
  /\ Sorted(code)
  /\ Building => Len(code) = used /\ \A k \in 1..Len(code) : code[k] = k
  /\ \A k \in 1..Len(handlers) :
       handlers[k].from \in Emitted /\ handlers[k].to \in Emitted /\ handlers[k].target \in Emitted

(* The owner of a client's node, and of the two nodes it is widened by.     *)
LEMMA OwnerFacts ==
  ASSUME NEW n \in Client
  PROVE  /\ Owner(n) = n /\ Owner(GotoOf(n)) = n /\ Owner(WideOf(n)) = n
         /\ GotoOf(n) \in Node \ Client /\ WideOf(n) \in Node \ Client
  BY DEF Owner, GotoOf, WideOf

(* The owner of a node is a number.                                          *)
LEMMA OwnerType == ASSUME NEW n \in Node PROVE Owner(n) \in Int
  BY DEF Owner

(* Inserting two nodes after the node that owns them keeps the order.       *)
LEMMA SortedInserted ==
  ASSUME NEW s \in Seq(Node), Sorted(s), NEW k \in 1..Len(s), NEW x \in Node \ Client, NEW y \in Node \ Client,
         Owner(x) = Owner(s[k]), Owner(y) = Owner(s[k]),
         NEW r, r = InsertAfter(s, k, x, y)
  PROVE  Sorted(r)
<1> DEFINE at(j) == IF j <= k THEN j ELSE IF j <= k + 2 THEN k ELSE j - 2
           L == Len(s)
<1>1. /\ L \in Nat /\ k \in 1..L /\ \A j \in 1..L : s[j] \in Node
      /\ Len(r) = L + 2
      /\ \A j \in 1..k : r[j] = s[j]
      /\ r[k + 1] = x
      /\ r[k + 2] = y
      /\ \A j \in (k + 1)..L : r[j + 2] = s[j]
  <2> HIDE DEF Node, Client, at
  <2>1. Len(s) \in Nat /\ \A j \in 1..Len(s) : s[j] \in Node
    OBVIOUS
  <2>2. x \in Node /\ y \in Node
    OBVIOUS
  <2> QED BY <2>1, <2>2, InsertAfterFacts
<1>2. \A j \in (k + 3)..(L + 2) : r[j] = s[j - 2]
  <2> SUFFICES ASSUME NEW j \in (k + 3)..(L + 2) PROVE r[j] = s[j - 2]
    OBVIOUS
  <2>1. j - 2 \in (k + 1)..L /\ (j - 2) + 2 = j
    BY <1>1
  <2> QED BY <1>1, <2>1
<1> HIDE DEF L
<1>3. \A j \in 1..(L + 2) :
        /\ at(j) \in 1..L /\ Owner(r[j]) = Owner(s[at(j)])
        /\ r[j] \in Client => r[j] = s[at(j)] /\ j \notin {k + 1, k + 2}
  <2> SUFFICES ASSUME NEW j \in 1..(L + 2)
               PROVE  /\ at(j) \in 1..L /\ Owner(r[j]) = Owner(s[at(j)])
                      /\ r[j] \in Client => r[j] = s[at(j)] /\ j \notin {k + 1, k + 2}
    OBVIOUS
  <2>1. CASE j <= k
    BY <1>1, <2>1
  <2>2. CASE j \in {k + 1, k + 2}
    <3>1. at(j) = k /\ r[j] \in {x, y}
      BY <1>1, <2>2
    <3> QED BY <1>1, <3>1
  <2>3. CASE j > k + 2
    <3>1. at(j) = j - 2 /\ r[j] = s[j - 2] /\ j - 2 \in 1..L
      BY <1>1, <1>2, <2>3, SMTT(30)
    <3> QED BY <1>1, <2>3, <3>1
  <2> QED BY <1>1, <2>1, <2>2, <2>3
<1>4. \A i, j \in 1..(L + 2) : i < j => at(i) <= at(j) /\ (j \notin {k + 1, k + 2} => at(i) < at(j))
  BY <1>1
<1>5. \A i, j \in 1..L : i < j => Owner(s[i]) <= Owner(s[j]) /\ (s[j] \in Client => Owner(s[i]) < s[j])
  BY DEF Sorted, L
<1> HIDE DEF at
<1> SUFFICES ASSUME NEW i \in 1..(L + 2), NEW j \in 1..(L + 2), i < j
             PROVE  Owner(r[i]) <= Owner(r[j]) /\ (r[j] \in Client => Owner(r[i]) < r[j])
  BY <1>1 DEF Sorted
<1>6. Owner(s[at(i)]) \in Int /\ at(i) \in 1..L /\ at(j) \in 1..L
  BY <1>1, <1>3, OwnerType
<1>7. Owner(r[i]) <= Owner(r[j])
  <2>1. at(i) = at(j) \/ at(i) < at(j)
    BY <1>4, <1>6
  <2> QED BY <1>3, <1>5, <1>6, <2>1, SMTT(30)
<1>8. r[j] \in Client => Owner(r[i]) < r[j]
  BY <1>3, <1>4, <1>5, <1>6
<1> QED BY <1>7, <1>8

(* The empty code is in order.                                               *)
LEMMA InitOrder == Init => OrderInv
  BY DEF Init, OrderInv, Sorted, Building

(* A step that inserts nothing and adds no handler keeps the order.         *)
LEMMA OrderKept ==
  ASSUME OrderInv, UNCHANGED <<used, code, handlers>>, Building' => Building
  PROVE  OrderInv'
  BY DEF OrderInv, Sorted, Owner

(* Every step, widening included, keeps the code in order.                   *)
LEMMA NextOrder == TypeInv /\ CodeInv /\ OrderInv /\ [Next]_vars => OrderInv'
<1> SUFFICES ASSUME TypeInv, CodeInv, OrderInv, [Next]_vars PROVE OrderInv'
  OBVIOUS
<1>t. GraphType /\ LinksType /\ EncodingType /\ AnalysisType /\ WalkType /\ ControlType
  BY DEF TypeInv, TypeOK
<1>c. Len(code) \in Nat /\ code \in Seq(Node)
  BY <1>t DEF GraphType
<1>1. ASSUME NEW i \in Instrs, OverwritePlaceholder(i) PROVE OrderInv'
  BY <1>1, OrderKept DEF OverwritePlaceholder, links, Building
<1>2. ASSUME NEW i \in Instrs, AppendInstr(i) PROVE OrderInv'
  <2> DEFINE x == used + 1
  <2>1. /\ Building /\ used' = x /\ code' = Append(code, x) /\ handlers' = handlers
        /\ x \in Client
    BY <1>2, <1>t DEF AppendInstr, Building, links, GraphType
  <2>2. Len(code) = used /\ \A k \in 1..Len(code) : code[k] = k
    BY <2>1 DEF OrderInv
  <2>3. Len(code') = x /\ \A k \in 1..x : code'[k] = k
    BY <1>c, <2>1, <2>2
  <2>4. \A k \in 1..x : k \in Client /\ Owner(k) = k
    BY <2>1 DEF Owner
  <2>5. Sorted(code)'
    <3> SUFFICES ASSUME NEW j \in 1..x, NEW k \in 1..x, j < k
                 PROVE  Owner(code'[j]) <= Owner(code'[k]) /\ Owner(code'[j]) < code'[k]
      BY <2>3 DEF Sorted, Owner
    <3>1. code'[j] = j /\ code'[k] = k /\ Owner(j) = j /\ Owner(k) = k
      BY <2>3, <2>4
    <3> QED BY <3>1
  <2>6. \A k \in 1..Len(handlers) :
          handlers[k].from \in Emitted' /\ handlers[k].to \in Emitted' /\ handlers[k].target \in Emitted'
    <3>1. \A m \in Emitted : m \in Emitted'
      BY <2>1, <1>t DEF GraphType
    <3> HIDE DEF Emitted
    <3> QED BY <3>1 DEF OrderInv
  <2> HIDE DEF x
  <2> QED BY <2>1, <2>3, <2>5, <2>6 DEF OrderInv
<1>3. CASE StartLinking
  BY <1>3, OrderKept DEF StartLinking, graph, links, Building
<1>4. ASSUME NEW n \in Emitted, NEW t \in Emitted, SetBranchTarget(n, t) \/ AddSwitchDefault(n, t)
      PROVE  OrderInv'
  BY <1>4, OrderKept DEF SetBranchTarget, AddSwitchDefault, Linking, graph, links, Building
<1>5. ASSUME NEW n \in Emitted, NEW l \in Label, SetBranchLabel(n, l) \/ AssociateLabel(l, n)
      PROVE  OrderInv'
  BY <1>5, OrderKept DEF SetBranchLabel, AssociateLabel, AllLinked, Linking, graph, links, Building
<1>6. ASSUME NEW n \in Emitted, NEW t \in Emitted, NEW c \in CaseNum, AddSwitchCase(n, c, t)
      PROVE  OrderInv'
  BY <1>6, OrderKept DEF AddSwitchCase, Linking, graph, Building
<1>7. ASSUME NEW from \in Emitted, NEW to \in Emitted, NEW t \in Emitted, AddHandler(from, to, t)
      PROVE  OrderInv'
  <2> DEFINE h == [from |-> from, to |-> to, target |-> t]
             L == Len(handlers)
  <2>1. UNCHANGED <<used, code, phase>> /\ handlers' = Append(handlers, h)
    BY <1>7 DEF AddHandler, graph
  <2>2. h.from \in Emitted /\ h.to \in Emitted /\ h.target \in Emitted
    OBVIOUS
  <2> HIDE DEF h
  <2>3. /\ L \in Nat /\ Len(handlers') = L + 1 /\ handlers'[L + 1] = h
        /\ \A k \in 1..L : handlers'[k] = handlers[k]
    BY <1>t, <2>1 DEF LinksType
  <2> HIDE DEF L
  <2>4. \A k \in 1..(L + 1) : k \in 1..L \/ k = L + 1
    BY <2>3
  <2>5. \A k \in 1..L :
          handlers[k].from \in Emitted /\ handlers[k].to \in Emitted /\ handlers[k].target \in Emitted
    BY DEF OrderInv, L
  <2>6. \A k \in 1..(L + 1) :
          handlers'[k].from \in Emitted /\ handlers'[k].to \in Emitted /\ handlers'[k].target \in Emitted
    BY <2>2, <2>3, <2>4, <2>5
  <2> QED BY <2>1, <2>3, <2>6 DEF OrderInv, Sorted, Owner, Building
<1>8. CASE StartTraverse
  BY <1>8, OrderKept DEF StartTraverse, graph, links, Building
<1>9. ASSUME NEW n \in Emitted,
             \/ EnterVisited(n) \/ VisitPlain(n) \/ VisitReturn(n) \/ VisitJump(n) \/ VisitLostJump(n)
             \/ ReturnFromJsr(n) \/ VisitCond(n) \/ VisitSwitch(n) \/ DefaultCase(n, Head(work).from)
      PROVE  OrderInv'
  BY <1>9, OrderKept
  DEF EnterVisited, VisitPlain, VisitReturn, VisitJump, VisitLostJump, ReturnFromJsr, VisitCond, VisitSwitch,
      DefaultCase, Visit, Top, graph, links, Building
<1>10. ASSUME NEW n \in Emitted, NEW c \in SortedNumbers(n), NextCase(n, Head(work).from, c)
       PROVE  OrderInv'
  BY <1>10, OrderKept DEF NextCase, Top, graph, links, Building
<1>11. ASSUME NEW n \in Emitted, VisitFarCond(n) PROVE OrderInv'
  <2> DEFINE x == GotoOf(n)
             y == WideOf(n)
             p == Position(n)
  <2>1. /\ phase' = "traverse" /\ UNCHANGED <<used, handlers>>
        /\ code' = InsertAfter(code, p, x, y)
    BY <1>11 DEF VisitFarCond, Visit, Top, links
  <2>2. p \in 1..Len(code) /\ code[p] = n /\ n \in Client
    BY PositionFacts, <1>t DEF TypeInv, GraphType
  <2>3. /\ x \in Node \ Client /\ y \in Node \ Client
        /\ Owner(x) = Owner(code[p]) /\ Owner(y) = Owner(code[p])
    BY <2>2, OwnerFacts
  <2>4. Sorted(code)
    BY DEF OrderInv
  <2> HIDE DEF x, y, p, Node, Client
  <2>5. Sorted(code')
    BY <1>c, <2>1, <2>2, <2>3, <2>4, SortedInserted
  <2> QED BY <2>1, <2>5 DEF OrderInv, Sorted, Owner, Building
<1>12. CASE EnterHandler
  BY <1>12, OrderKept DEF EnterHandler, graph, links, Building
<1>13. CASE Relocate
  BY <1>13, OrderKept
  DEF Relocate, Succeed, StartLayout, LayoutInstr, StartOffsets, RecalcOffset, EndOffsets, TraversalDone,
      graph, links, Building
<1>14. CASE UNCHANGED vars
  BY <1>14, OrderKept DEF vars, graph, links, Building
<1> QED
  BY <1>1, <1>2, <1>3, <1>4, <1>5, <1>6, <1>7, <1>8, <1>9, <1>10, <1>11, <1>12, <1>13, <1>14
  DEF Next, Build, Finalizing, Traverse, Terminated

(* The code keeps the order in which the client appended it.                 *)
LEMMA OrderInvCorrect == Spec => []OrderInv
  BY TypeInvCorrect, CodeInvCorrect, InitOrder, NextOrder, PTL DEF Spec

(* Only a switch can lose its width, and only when the layout gives it more *)
(* than 255 bytes.                                                          *)
WidthInv ==
  /\ \A n \in Node : n \notin Client => op[n] \notin SwitchOps
  /\ \A n \in Node : op[n] \notin SwitchOps => width[n] > 0
  /\ Building \/ (phase = "traverse" /\ ~ reCalc) => \A n \in Emitted : width[n] > 0
  /\ phase = "done" => \A n \in Emitted : width[n] > 0 \/ Padded(n)

(* The widths are positive at first.                                         *)
LEMMA InitWidth == Init => WidthInv
  BY DEF Init, WidthInv, SwitchOps

(* A step that changes no instruction keeps the widths.                     *)
LEMMA WidthKept ==
  ASSUME TypeInv, SwitchInv, WidthInv, UNCHANGED <<used, op, width, pc, entries, low, high>>,
         \/ UNCHANGED <<phase, reCalc>>
         \/ Building /\ phase' \in {"link", "traverse", "done"}
         \/ phase = "traverse" /\ phase' = "done" /\ ~ reCalc
         \/ phase = "offsets" /\ phase' = "done"
         \/ phase' \in {"layout", "offsets", "failed"}
  PROVE  WidthInv'
<1>1. \A n : Padded(n)' <=> Padded(n)
  BY DEF Padded, SwitchWidth, SwitchBytes, Span, Padding
<1>2. phase = "offsets" => \A n \in Emitted : Padded(n)
  BY DEF SwitchInv, TypeInv, InCode
<1> QED BY <1>1, <1>2 DEF WidthInv, Building

(* Every step keeps them positive, unless a switch wraps its u1.             *)
LEMMA NextWidth == TypeInv /\ CodeInv /\ AddressInv /\ SwitchInv /\ WidthInv /\ [Next]_vars => WidthInv'
<1> SUFFICES ASSUME TypeInv, CodeInv, AddressInv, SwitchInv, WidthInv, [Next]_vars PROVE WidthInv'
  OBVIOUS
<1>t. GraphType /\ LinksType /\ EncodingType /\ AnalysisType /\ WalkType /\ ControlType
  BY DEF TypeInv, TypeOK
<1>n. \A n \in Emitted : n \in Node /\ n \in Client
  BY <1>t DEF GraphType
<1>c. Len(code) \in Nat /\ \A k \in 1..Len(code) : code[k] \in Node
  BY <1>t DEF GraphType
<1>1. ASSUME NEW x \in Client, NEW i \in Instrs, NEW w, w \in Nat, w > 0, phase = "append", phase' = "append",
             op' = [op EXCEPT ![x] = i.op], width' = [width EXCEPT ![x] = w],
             Emitted' \subseteq Emitted \cup {x}
      PROVE  WidthInv'
  <2>1. x \in Node
    OBVIOUS
  <2>2. /\ op'[x] = i.op /\ width'[x] = w
        /\ \A m \in Node : m # x => op'[m] = op[m] /\ width'[m] = width[m]
    BY <1>1, <2>1, <1>t DEF EncodingType
  <2>3. \A m \in Node : m \notin Client => op'[m] \notin SwitchOps
    BY <2>2 DEF WidthInv
  <2>4. \A m \in Node : op'[m] \notin SwitchOps => width'[m] > 0
    BY <1>1, <2>2 DEF WidthInv
  <2>5. \A m \in Emitted' : width'[m] > 0
    BY <1>1, <1>n, <2>2 DEF WidthInv, Building
  <2> QED BY <1>1, <2>3, <2>4, <2>5 DEF WidthInv
<1>2. ASSUME NEW i \in Instrs, OverwritePlaceholder(i) PROVE WidthInv'
  <2> DEFINE x == Last(code)
  <2>1. /\ phase = "append" /\ phase' = "append" /\ UNCHANGED used /\ code # <<>>
        /\ op' = [op EXCEPT ![x] = i.op] /\ width' = [width EXCEPT ![x] = i.width]
    BY <1>2 DEF OverwritePlaceholder, EndsInPlaceholder
  <2>2. Len(code) \in 1..Len(code)
    BY <2>1, <1>t DEF GraphType
  <2>3. x \in Client
    BY <1>n, <2>1, <2>2 DEF AddressInv, Building, Last
  <2>4. i.width \in Nat /\ i.width > 0
    <3>1. i \in Instruction
      OBVIOUS
    <3> QED BY <3>1 DEF Instruction
  <2> HIDE DEF x
  <2> QED BY <1>1, <2>1, <2>3, <2>4
<1>3. ASSUME NEW i \in Instrs, AppendInstr(i) PROVE WidthInv'
  <2> DEFINE x == used + 1
             w == AppendedWidth(i)
  <2>1. /\ phase = "append" /\ phase' = "append" /\ used' = x /\ x \in Client
        /\ op' = [op EXCEPT ![x] = i.op] /\ width' = [width EXCEPT ![x] = w]
    BY <1>3, <1>t DEF AppendInstr, GraphType
  <2>2. w \in Nat /\ w > 0
    <3>1. i \in Instruction
      OBVIOUS
    <3>2. i.width \in Nat /\ i.ext \in Nat /\ i.width > 0
      BY <3>1 DEF Instruction
    <3> QED BY <3>2 DEF AppendedWidth
  <2>3. Emitted' \subseteq Emitted \cup {x}
    BY <2>1, <1>t DEF GraphType
  <2> HIDE DEF x, w
  <2> QED BY <1>1, <2>1, <2>2, <2>3
<1>4. CASE StartLinking
  BY <1>4, WidthKept DEF StartLinking, graph, links, encoding, Building
<1>5. ASSUME NEW n \in Emitted, NEW t \in Emitted, SetBranchTarget(n, t) \/ AddSwitchDefault(n, t)
      PROVE  WidthInv'
  BY <1>5, WidthKept DEF SetBranchTarget, AddSwitchDefault, Linking, graph, links, analysis
<1>6. ASSUME NEW n \in Emitted, NEW l \in Label, SetBranchLabel(n, l) \/ AssociateLabel(l, n)
      PROVE  WidthInv'
  BY <1>6, WidthKept DEF SetBranchLabel, AssociateLabel, Linking, graph, encoding, analysis
<1>7. ASSUME NEW n \in Emitted, NEW t \in Emitted, NEW c \in CaseNum, AddSwitchCase(n, c, t)
      PROVE  WidthInv'
  BY <1>7 DEF AddSwitchCase, Linking, WidthInv, Building, graph
<1>8. ASSUME NEW from \in Emitted, NEW to \in Emitted, NEW t \in Emitted, AddHandler(from, to, t)
      PROVE  WidthInv'
  BY <1>8, WidthKept DEF AddHandler, graph, encoding, analysis
<1>9. CASE StartTraverse
  BY <1>9, WidthKept DEF StartTraverse, AllLinked, Building, graph, links, encoding
<1>10. ASSUME NEW n \in Emitted,
              \/ EnterVisited(n) \/ VisitPlain(n) \/ VisitReturn(n) \/ VisitLostJump(n)
              \/ ReturnFromJsr(n) \/ DefaultCase(n, Head(work).from)
       PROVE  WidthInv'
  BY <1>10, WidthKept
  DEF EnterVisited, VisitPlain, VisitReturn, VisitLostJump, ReturnFromJsr, DefaultCase, Visit, Top,
      graph, links, encoding, analysis
<1>11. ASSUME NEW n \in Emitted, NEW c \in SortedNumbers(n), NextCase(n, Head(work).from, c)
       PROVE  WidthInv'
  BY <1>11, WidthKept DEF NextCase, Top, graph, links, encoding
<1>12. ASSUME NEW n \in Emitted, VisitCond(n) PROVE WidthInv'
  BY <1>12, WidthKept DEF VisitCond, Visit, Top, graph, links
<1>13. CASE EnterHandler
  BY <1>13, WidthKept DEF EnterHandler, graph, links, encoding
<1>14. ASSUME NEW n \in Emitted, VisitJump(n) PROVE WidthInv'
  <2> DEFINE far == TooFar(op[n], pc[JumpDest(n)], pc[n])
  <2>1. /\ phase = "traverse" /\ phase' = "traverse" /\ reCalc' = (reCalc \/ far)
        /\ op[n] \in JumpOps /\ UNCHANGED <<used, pc, entries, low, high>>
        /\ op' = [op EXCEPT ![n] = IF far THEN (IF @ = "goto" THEN "goto_w" ELSE "jsr_w") ELSE @]
        /\ width' = [width EXCEPT ![n] = IF far THEN WideGotoWidth ELSE @]
    BY <1>14 DEF VisitJump, Visit, Top, graph, links
  <2> HIDE DEF far
  <2>2. CASE far
    <3>1. /\ op'[n] \in {"goto_w", "jsr_w"} /\ width'[n] = 5
          /\ \A m \in Node : m # n => op'[m] = op[m] /\ width'[m] = width[m]
      BY <1>n, <1>t, <2>1, <2>2 DEF EncodingType, WideGotoWidth
    <3>2. op'[n] \notin SwitchOps /\ width'[n] > 0
      BY <3>1 DEF SwitchOps
    <3> QED BY <2>1, <2>2, <3>1, <3>2 DEF WidthInv, Building
  <2>3. CASE ~ far
    <3>1. width' = width /\ op' = op
      BY <1>n, <1>t, <2>1, <2>3 DEF EncodingType
    <3>2. reCalc' = reCalc
      BY <1>t, <2>1, <2>3 DEF AnalysisType
    <3> QED BY <2>1, <3>1, <3>2, WidthKept
  <2> QED BY <2>2, <2>3
<1>15. ASSUME NEW n \in Emitted, VisitFarCond(n) PROVE WidthInv'
  <2> DEFINE x == GotoOf(n)
             y == WideOf(n)
  <2>1. /\ phase' = "traverse" /\ reCalc' = TRUE /\ x \in Node /\ y \in Node
        /\ op' = [op EXCEPT ![x] = "goto", ![y] = "goto_w"]
        /\ width' = [width EXCEPT ![x] = GotoWidth, ![y] = WideGotoWidth]
    BY <1>15, <1>n, OwnerFacts DEF VisitFarCond, Visit, Top
  <2> HIDE DEF x, y
  <2>2. /\ op'[x] \notin SwitchOps /\ op'[y] \notin SwitchOps /\ width'[x] > 0 /\ width'[y] > 0
        /\ \A m \in Node : m \notin {x, y} => op'[m] = op[m] /\ width'[m] = width[m]
    BY <2>1, <1>t DEF EncodingType, SwitchOps, GotoWidth, WideGotoWidth
  <2> QED BY <2>1, <2>2 DEF WidthInv, Building
<1>16. ASSUME NEW n \in Emitted, VisitSwitch(n) PROVE WidthInv'
  <2> DEFINE o == IF Span(n) - entries[n] > FillThresh THEN "lookupswitch" ELSE "tableswitch"
             w == SwitchWidth(n, o, pc[n])
  <2>1. /\ phase' = "traverse" /\ reCalc' = TRUE
        /\ op' = [op EXCEPT ![n] = o] /\ width' = [width EXCEPT ![n] = w] /\ o \in SwitchOps
    BY <1>16 DEF VisitSwitch, Visit, Top, SwitchOps
  <2> HIDE DEF o, w
  <2>2. /\ op'[n] \in SwitchOps
        /\ \A m \in Node : m # n => op'[m] = op[m] /\ width'[m] = width[m]
    BY <1>n, <2>1, <1>t DEF EncodingType
  <2> QED BY <1>n, <2>1, <2>2 DEF WidthInv, Building
<1>17. CASE Succeed \/ StartLayout \/ StartOffsets \/ EndOffsets
  BY <1>17, WidthKept
  DEF Succeed, StartLayout, StartOffsets, EndOffsets, TraversalDone, graph, links, encoding, analysis
<1>18. CASE LayoutInstr
  <2> DEFINE n == code[idx]
             w == LaidOutWidth(n)
  <2>1. /\ phase' = "layout" /\ n \in Node /\ UNCHANGED op
        /\ width' = [width EXCEPT ![n] = w]
    BY <1>18, <1>c, <1>t DEF LayoutInstr, ControlType
  <2>2. op[n] \notin SwitchOps => w = width[n]
    BY DEF LaidOutWidth
  <2> HIDE DEF n, w
  <2>3. \A m \in Node : op[m] \notin SwitchOps => width'[m] = width[m]
    BY <2>1, <2>2, <1>t DEF EncodingType
  <2> QED BY <2>1, <2>3 DEF WidthInv, Building
<1>19. CASE RecalcOffset
  BY <1>19 DEF RecalcOffset, WidthInv, graph, Building
<1>20. CASE UNCHANGED vars
  BY <1>20, WidthKept DEF vars, graph, links, encoding, analysis
<1> QED
  BY <1>2, <1>3, <1>4, <1>5, <1>6, <1>7, <1>8, <1>9, <1>10, <1>11, <1>12, <1>13, <1>14, <1>15, <1>16,
     <1>17, <1>18, <1>19, <1>20
  DEF Next, Build, Finalizing, Traverse, Relocate, Terminated

(* Instructions have a positive width once their switches fit.               *)
LEMMA WidthInvCorrect == Spec => []WidthInv
  BY TypeInvCorrect, CodeInvCorrect, AddressInvCorrect, SwitchInvCorrect, InitWidth, NextWidth, PTL DEF Spec

(* What grows from each element of a sequence of numbers to the next grows. *)
LEMMA Growing ==
  ASSUME NEW L \in Nat, NEW f, \A k \in 1..L : f[k] \in Int,
         \A k \in 1..L : k < L => f[k] < f[k + 1],
         NEW i \in 1..L, NEW j \in 1..L, i < j
  PROVE  f[i] < f[j]
<1> DEFINE S == {k \in 1..L : i < k /\ ~ (f[i] < f[k])}
<1>1. SUFFICES S = {}
  BY <1>1
<1> SUFFICES ASSUME S # {} PROVE FALSE
  OBVIOUS
<1>2. S \in SUBSET Nat
  OBVIOUS
<1> HIDE DEF S
<1>3. PICK k \in S : \A m \in S : k <= m
  BY <1>2, Least
<1>4. k \in 1..L /\ i < k /\ ~ (f[i] < f[k])
  BY DEF S
<1>5. k - 1 \in 1..L /\ k - 1 < L /\ (k - 1) + 1 = k /\ i <= k - 1
  BY <1>4
<1>6. f[k - 1] < f[k] /\ f[k - 1] \in Int /\ f[k] \in Int /\ f[i] \in Int
  BY <1>4, <1>5
<1>7. i = k - 1 \/ f[i] < f[k - 1]
  <2>1. k - 1 \notin S
    BY <1>3, <1>5
  <2> QED BY <1>5, <2>1 DEF S
<1> QED BY <1>4, <1>6, <1>7

(* No switch of the finished method is too long for the u1 of its width.    *)
SwitchesFit ==
  phase = "done" => \A n \in Emitted : op[n] \in SwitchOps => SwitchBytes(n, op[n], pc[n]) < 256

(* A try block covers the instructions it covered when the handler was      *)
(* added and what was inserted on their behalf, provided that no switch is  *)
(* so long that its u1 width wraps around to nothing.                       *)
THEOREM TryBlocksKeptCorrect == Spec => [](SwitchesFit => TryBlocksKept)
<1>1. ASSUME TypeInv, CodeInv, AddressInv, SwitchInv, OrderInv, WidthInv, SwitchesFit, phase = "done"
      PROVE  TryBlocksKept
  <2>t. GraphType /\ LinksType /\ EncodingType
    BY <1>1 DEF TypeInv, TypeOK
  <2> DEFINE L == Len(code)
             f == [k \in 1..L |-> pc[code[k]]]
  <2>1. L \in Nat /\ \A k \in 1..L : code[k] \in Node /\ pc[code[k]] \in Int /\ width[code[k]] \in Nat
    <3>1. code \in Seq(Node) /\ pc \in [Node -> Int] /\ width \in [Node -> Nat]
      BY <2>t DEF GraphType, EncodingType
    <3> HIDE DEF Node
    <3>2. L \in Nat /\ \A k \in 1..L : code[k] \in Node
      BY <3>1
    <3> QED BY <3>1, <3>2
  <2>2. \A n \in Emitted : width[n] > 0
    <3> SUFFICES ASSUME NEW n \in Emitted, ~ (width[n] > 0) PROVE FALSE
      OBVIOUS
    <3>1. Padded(n) /\ op[n] \in SwitchOps /\ n \in Node
      BY <1>1, <2>t DEF WidthInv, GraphType
    <3> DEFINE B == SwitchBytes(n, op[n], pc[n])
    <3>2. /\ pc[n] \in Int /\ low[n] \in Int /\ high[n] \in Int /\ entries[n] \in Int
          /\ low[n] <= high[n] /\ entries[n] >= 0
      BY <1>1, <3>1, <2>t DEF GraphType, LinksType, EncodingType, SwitchInv
    <3>3. Padding(pc[n]) \in 0..3
      BY <3>2 DEF Padding
    <3>4. B \in Nat /\ B > 0
      BY <3>2, <3>3 DEF SwitchBytes, Span
    <3>5. width[n] = B % 256
      BY <3>1 DEF Padded, SwitchWidth
    <3>6. B < 256
      BY <1>1, <3>1 DEF SwitchesFit
    <3> HIDE DEF B
    <3>7. B % 256 = B
      BY <3>4, <3>6
    <3> QED BY <3>4, <3>5, <3>7
  <2>3. \A k \in 1..L : width[code[k]] > 0
    <3> SUFFICES ASSUME NEW k \in 1..L PROVE width[code[k]] > 0
      OBVIOUS
    <3>1. CASE code[k] \in Emitted
      BY <2>2, <3>1
    <3>2. CASE code[k] \notin Emitted
      <4>1. PICK n \in Emitted : code[k] \in {GotoOf(n), WideOf(n)}
        BY <1>1, <3>2 DEF CodeInv, Origin
      <4>2. n \in Client
        BY <2>t DEF GraphType
      <4>3. code[k] \in Node /\ code[k] \notin Client
        BY <4>1, <4>2, OwnerFacts
      <4> QED BY <1>1, <4>3 DEF WidthInv
    <3> QED BY <3>1, <3>2
  <2>4. \A k \in 1..L : k < L => f[k] < f[k + 1]
    <3> SUFFICES ASSUME NEW k \in 1..L, k < L PROVE f[k] < f[k + 1]
      OBVIOUS
    <3>1. k + 1 \in 1..L /\ code # <<>>
      BY <2>1
    <3>2. pc[code[k + 1]] = pc[code[k]] + width[code[k]]
      BY <1>1, <3>1 DEF AddressInv, LaidOut
    <3> QED BY <2>1, <2>3, <3>1, <3>2
  <2>5. \A k \in 1..L : f[k] \in Int /\ f[k] = pc[code[k]]
    BY <2>1
  <2> HIDE DEF f
  <2>6. \A i, j \in 1..L : i < j => pc[code[i]] < pc[code[j]]
    <3> HIDE DEF L
    <3>1. \A i, j \in 1..L : i < j => f[i] < f[j]
      BY <2>1, <2>4, <2>5, Growing
    <3> QED BY <2>5, <3>1
  <2>7. \A n \in Emitted : \E k \in 1..L : code[k] = n
    BY <1>1 DEF TypeInv, InCode
  <2>8. \A a, j \in 1..L : code[a] \in Emitted =>
          /\ code[a] <= Owner(code[j]) <=> a <= j
          /\ pc[code[a]] <= pc[code[j]] <=> a <= j
    <3> SUFFICES ASSUME NEW a \in 1..L, NEW j \in 1..L, code[a] \in Emitted
                 PROVE  /\ code[a] <= Owner(code[j]) <=> a <= j
                        /\ pc[code[a]] <= pc[code[j]] <=> a <= j
      OBVIOUS
    <3>1. code[a] \in Client /\ Owner(code[a]) = code[a] /\ Owner(code[j]) \in Int /\ code[a] \in Int
      <4>1. code[a] \in Client
        BY <2>t, SMTT(30) DEF GraphType
      <4>2. code[j] \in Node
        BY <2>1
      <4> QED BY <4>1, <4>2, OwnerFacts, OwnerType
    <3>2. a < j => code[a] <= Owner(code[j])
      BY <1>1, <3>1 DEF OrderInv, Sorted
    <3>3. j < a => Owner(code[j]) < code[a]
      BY <1>1, <3>1 DEF OrderInv, Sorted
    <3>4. code[a] <= Owner(code[j]) <=> a <= j
      BY <2>1, <3>1, <3>2, <3>3
    <3>5. pc[code[a]] <= pc[code[j]] <=> a <= j
      BY <2>1, <2>6
    <3> QED BY <3>4, <3>5
  <2> SUFFICES ASSUME NEW k \in 1..Len(handlers), NEW j \in 1..L
               PROVE  LET h == handlers[k]
                          n == code[j]
                      IN h.from <= Owner(n) /\ Owner(n) < h.to <=> pc[h.from] <= pc[n] /\ pc[n] < pc[h.to]
    BY <1>1 DEF TryBlocksKept
  <2>9. PICK a \in 1..L : code[a] = handlers[k].from
    BY <1>1, <2>7 DEF OrderInv
  <2>10. PICK b \in 1..L : code[b] = handlers[k].to
    BY <1>1, <2>7 DEF OrderInv
  <2>11. code[a] \in Emitted /\ code[b] \in Emitted
    BY <1>1, <2>9, <2>10 DEF OrderInv
  <2>12. code[a] <= Owner(code[j]) <=> pc[code[a]] <= pc[code[j]]
    BY <2>8, <2>11
  <2>13. code[b] <= Owner(code[j]) <=> pc[code[b]] <= pc[code[j]]
    BY <2>8, <2>11
  <2>14. Owner(code[j]) < code[b] <=> pc[code[j]] < pc[code[b]]
    <3>1. code[b] \in Int /\ Owner(code[j]) \in Int /\ pc[code[b]] \in Int /\ pc[code[j]] \in Int
      BY <2>1, OwnerType
    <3> QED BY <2>13, <3>1
  <2> QED BY <2>9, <2>10, <2>12, <2>14
<1>2. TypeInv /\ CodeInv /\ AddressInv /\ SwitchInv /\ OrderInv /\ WidthInv => (SwitchesFit => TryBlocksKept)
  BY <1>1 DEF TryBlocksKept
<1> QED
  BY <1>2, TypeInvCorrect, CodeInvCorrect, AddressInvCorrect, SwitchInvCorrect, OrderInvCorrect, WidthInvCorrect,
     PTL

-----------------------------------------------------------------------------
(* The control flow of a method: the traversal of MethodCode, with its stack *)
(* of calls and its rewriting of branches, is a search of the graph the      *)
(* client described, and the stack depths it leaves behind are the only ones *)
(* the code can have.                                                        *)

USE MaxInstrsAssumption, InstrsAssumption, LabelAssumption, CaseNumAssumption,
    MaxHandlersAssumption, BranchMaxAssumption, FillThreshAssumption
USE DEF Emitted, Client, Node, NodeOrNone, None

-----------------------------------------------------------------------------
(* Addresses while the graph is traversed. *)

(* Before the layout, the client's nodes have growing addresses inside the  *)
(* method, and what was inserted has the address of its end.                *)
Ascending ==
  /\ \A m, n \in Emitted : m < n => pc[m] < pc[n]
  /\ \A n \in Emitted : pc[n] < methPc
  /\ \A k \in 1..Len(code) : code[k] \in Emitted \/ pc[code[k]] = methPc

PcInv == Building \/ phase = "traverse" => Ascending

(* The addresses grow at first.                                              *)
LEMMA InitPc == Init => PcInv
  BY DEF Init, PcInv, Ascending

(* They do as long as no address changes before the layout.                  *)
LEMMA PcKept ==
  ASSUME PcInv, UNCHANGED <<used, code, pc, methPc>>,
         Building' \/ phase' = "traverse" => Building \/ phase = "traverse"
  PROVE  PcInv'
  BY DEF PcInv, Ascending

(* The two nodes that widening inserts belong to one conditional only.      *)
LEMMA InsertedFacts ==
  ASSUME TypeInv, NEW n \in Emitted
  PROVE  /\ n \in Node /\ n \in Client
         /\ GotoOf(n) \in Node /\ WideOf(n) \in Node /\ GotoOf(n) # WideOf(n)
         /\ GotoOf(n) \notin Client /\ WideOf(n) \notin Client
         /\ \A m \in Emitted : /\ m \notin {GotoOf(n), WideOf(n)}
                               /\ m # n => {GotoOf(m), WideOf(m)} \cap {GotoOf(n), WideOf(n)} = {}
  BY DEF TypeInv, TypeOK, GraphType, GotoOf, WideOf

(* Every step keeps the order of the addresses.                              *)
LEMMA NextPc == TypeInv /\ CodeInv /\ AddressInv /\ PcInv /\ [Next]_vars => PcInv'
<1> SUFFICES ASSUME TypeInv, CodeInv, AddressInv, PcInv, [Next]_vars PROVE PcInv'
  OBVIOUS
<1>t. GraphType /\ LinksType /\ EncodingType /\ AnalysisType /\ WalkType /\ ControlType
  BY DEF TypeInv, TypeOK
<1>n. \A n \in Emitted : n \in Node /\ n \in Client
  BY <1>t DEF GraphType
<1>p. methPc \in Int /\ \A n \in Node : pc[n] \in Int
  BY <1>t DEF GraphType, ControlType
<1>c. Len(code) \in Nat /\ \A k \in 1..Len(code) : code[k] \in Node
  BY <1>t DEF GraphType
<1>1. ASSUME NEW i \in Instrs, OverwritePlaceholder(i) PROVE PcInv'
  <2>1. /\ Building /\ Building' /\ UNCHANGED <<used, code, pc>> /\ methPc' = methPc + i.width - 1
    BY <1>1 DEF OverwritePlaceholder, Building, PlaceholderWidth
  <2>2. i.width \in Nat /\ i.width > 0
    <3>1. i \in Instruction
      OBVIOUS
    <3> QED BY <3>1 DEF Instruction
  <2>3. \A n \in Emitted : pc[n] < methPc'
    <3> SUFFICES ASSUME NEW n \in Emitted PROVE pc[n] < methPc'
      OBVIOUS
    <3>1. pc[n] < methPc /\ pc[n] \in Int
      BY <1>n, <1>p, <2>1 DEF PcInv, Ascending
    <3> QED BY <1>p, <2>1, <2>2, <3>1
  <2>4. \A k \in 1..Len(code) : code[k] \in Emitted
    BY <2>1 DEF AddressInv
  <2> QED BY <2>1, <2>3, <2>4 DEF PcInv, Ascending
<1>2. ASSUME NEW i \in Instrs, AppendInstr(i) PROVE PcInv'
  <2> DEFINE x == used + 1
             w == AppendedWidth(i)
  <2>1. /\ Building /\ Building' /\ used' = x /\ x \in Node /\ x \notin Emitted
        /\ code' = Append(code, x) /\ pc' = [pc EXCEPT ![x] = methPc] /\ methPc' = methPc + w
    BY <1>2, <1>t DEF AppendInstr, Building, GraphType
  <2>2. w \in Nat /\ w > 0
    <3>1. i \in Instruction
      OBVIOUS
    <3>2. i.width \in Nat /\ i.ext \in Nat /\ i.width > 0
      BY <3>1 DEF Instruction
    <3> QED BY <3>2 DEF AppendedWidth
  <2>3. pc'[x] = methPc /\ \A m \in Node : m # x => pc'[m] = pc[m]
    BY <2>1, <1>t DEF GraphType
  <2>4. \A m \in Emitted' : m = x \/ (m \in Emitted /\ m # x /\ m < x)
    BY <2>1, <1>t DEF GraphType
  <2>5. \A m \in Emitted : m \in Emitted'
    BY <2>1, <1>t DEF GraphType
  <2>6. x \in Emitted' /\ x \in Nat
    BY <2>1, <1>t DEF GraphType
  <2> HIDE DEF x, w
  <2>7. \A m \in Emitted : pc'[m] = pc[m] /\ pc[m] < methPc /\ pc[m] \in Int
    BY <1>n, <1>p, <2>1, <2>3 DEF PcInv, Ascending
  <2>8. \A m \in Emitted' : pc'[m] < methPc'
    <3> SUFFICES ASSUME NEW m \in Emitted' PROVE pc'[m] < methPc'
      OBVIOUS
    <3>1. pc'[m] <= methPc /\ pc'[m] \in Int
      BY <1>p, <2>3, <2>4, <2>7
    <3> QED BY <1>p, <2>1, <2>2, <3>1
  <2>9. \A m, n \in Emitted' : m < n => pc'[m] < pc'[n]
    <3> SUFFICES ASSUME NEW m \in Emitted', NEW n \in Emitted', m < n PROVE pc'[m] < pc'[n]
      OBVIOUS
    <3>1. m \in Emitted
      BY <2>4, <2>6
    <3>2. CASE n = x
      BY <2>3, <2>7, <3>1, <3>2
    <3>3. CASE n \in Emitted
      BY <2>1, <2>7, <3>1, <3>3 DEF PcInv, Ascending
    <3> QED BY <2>4, <3>2, <3>3
  <2>10. \A k \in 1..Len(code') : code'[k] \in Emitted'
    <3> SUFFICES ASSUME NEW k \in 1..Len(code') PROVE code'[k] \in Emitted'
      OBVIOUS
    <3>1. (k \in 1..Len(code) /\ code'[k] = code[k]) \/ code'[k] = x
      <4>1. k \in 1..Len(code) \/ k = Len(code) + 1
        BY <2>1, <1>t DEF GraphType
      <4>2. k \in 1..Len(code) => code'[k] = code[k]
        BY <2>1, <1>t DEF GraphType
      <4>3. k = Len(code) + 1 => code'[k] = x
        BY <2>1, <1>t DEF GraphType
      <4> QED BY <4>1, <4>2, <4>3
    <3>2. \A j \in 1..Len(code) : code[j] \in Emitted
      BY <2>1 DEF AddressInv
    <3> HIDE DEF Emitted
    <3> QED BY <2>5, <2>6, <3>1, <3>2
  <2> QED BY <2>8, <2>9, <2>10 DEF PcInv, Ascending
<1>3. CASE StartLinking
  BY <1>3, PcKept DEF StartLinking, graph, Building
<1>4. ASSUME NEW n \in Emitted, NEW t \in Emitted, SetBranchTarget(n, t) \/ AddSwitchDefault(n, t)
      PROVE  PcInv'
  BY <1>4, PcKept DEF SetBranchTarget, AddSwitchDefault, Linking, graph, Building
<1>5. ASSUME NEW n \in Emitted, NEW l \in Label, SetBranchLabel(n, l) \/ AssociateLabel(l, n)
      PROVE  PcInv'
  BY <1>5, PcKept DEF SetBranchLabel, AssociateLabel, Linking, graph, Building
<1>6. ASSUME NEW n \in Emitted, NEW t \in Emitted, NEW c \in CaseNum, AddSwitchCase(n, c, t)
      PROVE  PcInv'
  BY <1>6, PcKept DEF AddSwitchCase, Linking, graph, Building
<1>7. ASSUME NEW from \in Emitted, NEW to \in Emitted, NEW t \in Emitted, AddHandler(from, to, t)
      PROVE  PcInv'
  BY <1>7, PcKept DEF AddHandler, graph, Building
<1>8. CASE StartTraverse
  BY <1>8, PcKept DEF StartTraverse, AllLinked, graph, Building
<1>9. ASSUME NEW n \in Emitted,
             \/ EnterVisited(n) \/ VisitPlain(n) \/ VisitReturn(n) \/ VisitJump(n) \/ VisitLostJump(n)
             \/ ReturnFromJsr(n) \/ VisitCond(n) \/ VisitSwitch(n) \/ DefaultCase(n, Head(work).from)
      PROVE  PcInv'
  BY <1>9, PcKept
  DEF EnterVisited, VisitPlain, VisitReturn, VisitJump, VisitLostJump, ReturnFromJsr, VisitCond, VisitSwitch,
      DefaultCase, Visit, Top, graph, Building
<1>10. ASSUME NEW n \in Emitted, NEW c \in SortedNumbers(n), NextCase(n, Head(work).from, c)
       PROVE  PcInv'
  BY <1>10, PcKept DEF NextCase, Top, graph, Building
<1>11. ASSUME NEW n \in Emitted, VisitFarCond(n) PROVE PcInv'
  <2> DEFINE x == GotoOf(n)
             y == WideOf(n)
             p == Position(n)
  <2>1. /\ phase = "traverse" /\ phase' = "traverse" /\ UNCHANGED <<used, methPc>>
        /\ code' = InsertAfter(code, p, x, y) /\ pc' = [pc EXCEPT ![x] = methPc, ![y] = methPc]
    BY <1>11 DEF VisitFarCond, Visit, Top
  <2>2. p \in 1..Len(code)
    BY PositionFacts DEF TypeInv
  <2>3. x \in Node /\ y \in Node /\ x \notin Client /\ y \notin Client
    BY InsertedFacts
  <2> HIDE DEF x, y, p
  <2>4. pc'[x] = methPc /\ pc'[y] = methPc /\ \A m \in Node : m \notin {x, y} => pc'[m] = pc[m]
    BY <2>1, <2>3, <1>t DEF GraphType
  <2>5. \A m \in Emitted : pc'[m] = pc[m]
    BY <1>n, <2>3, <2>4
  <2>6. \A k \in 1..Len(code') : code'[k] \in Emitted \/ pc'[code'[k]] = methPc
    <3> SUFFICES ASSUME NEW k \in 1..Len(code') PROVE code'[k] \in Emitted \/ pc'[code'[k]] = methPc
      OBVIOUS
    <3>1. code'[k] \in {x, y} \/ \E j \in 1..Len(code) : code'[k] = code[j]
      BY <1>c, <2>1, <2>2, InsertAfterOnly
    <3>2. ASSUME NEW j \in 1..Len(code), code'[k] = code[j]
          PROVE  code'[k] \in Emitted \/ pc'[code'[k]] = methPc
      <4>1. code[j] \in Emitted \/ pc[code[j]] = methPc
        BY <2>1 DEF PcInv, Ascending
      <4> QED BY <1>c, <2>4, <3>2, <4>1
    <3> QED BY <2>4, <3>1, <3>2
  <2> QED BY <2>1, <2>5, <2>6 DEF PcInv, Ascending
<1>12. CASE EnterHandler
  BY <1>12, PcKept DEF EnterHandler, graph, Building
<1>13. CASE Relocate
  BY <1>13
  DEF Relocate, Succeed, StartLayout, LayoutInstr, StartOffsets, RecalcOffset, EndOffsets, TraversalDone,
      PcInv, Building
<1>14. CASE UNCHANGED vars
  BY <1>14, PcKept DEF vars, graph, Building
<1> QED
  BY <1>1, <1>2, <1>3, <1>4, <1>5, <1>6, <1>7, <1>8, <1>9, <1>10, <1>11, <1>12, <1>13, <1>14
  DEF Next, Build, Finalizing, Traverse, Terminated

(* The addresses of the client's nodes grow until the code is laid out.      *)
LEMMA PcInvCorrect == Spec => []PcInv
  BY TypeInvCorrect, CodeInvCorrect, AddressInvCorrect, InitPc, NextPc, PTL DEF Spec

(* The address of a client's node leads back to it, unless an inserted node *)
(* further up in the list makes bc_node_at_pc give up.                      *)
LEMMA NodeAtItsPc ==
  ASSUME TypeInv, Ascending, NEW m \in Emitted
  PROVE  NodeAtPc(pc[m]) \in {m, None}
<1>1. m \in Node /\ pc[m] \in Int /\ GraphType
  BY DEF TypeInv, TypeOK, GraphType
<1> SUFFICES ASSUME NodeAtPc(pc[m]) # None PROVE NodeAtPc(pc[m]) = m
  OBVIOUS
<1>2. PICK k \in 1..Len(code) : code[k] = NodeAtPc(pc[m]) /\ pc[code[k]] = pc[m]
  BY <1>1, NodeAtPcType
<1>3. pc[m] < methPc
  BY DEF Ascending
<1>4. methPc \in Int
  BY DEF TypeInv, TypeOK, ControlType
<1>5. code[k] \in Emitted
  BY <1>1, <1>2, <1>3, <1>4 DEF Ascending
<1>6. code[k] \in Int /\ m \in Int
  BY <1>5
<1>7. ~ (pc[code[k]] < pc[m]) /\ ~ (pc[m] < pc[code[k]])
  BY <1>1, <1>2
<1> QED BY <1>2, <1>5, <1>6, <1>7 DEF Ascending
-----------------------------------------------------------------------------
(* The graph. *)

(* What an opcode may have become since its instruction was appended. *)
SameKind(i, o) ==
  \/ o = i
  \/ <<i, o>> \in {<<"goto", "goto_w">>, <<"jsr", "jsr_w">>}
  \/ i \in SwitchOps /\ o \in SwitchOps

EmittedOrNone == Emitted \cup {None}

(* A node goes on to the client's nodes, or has been widened and does so    *)
(* through the two nodes that were inserted behind it.                      *)
Direct(n) == next[n] \in EmittedOrNone /\ target[n] \in EmittedOrNone
Widened(n) ==
  /\ op[n] = "cond" /\ visited[n]
  /\ next[n] = GotoOf(n) /\ target[n] = WideOf(n)
  /\ target[GotoOf(n)] \in EmittedOrNone /\ target[WideOf(n)] \in Emitted

GraphInv ==
  /\ \A n \in Emitted : ins[n] \in Instrs /\ SameKind(ins[n].op, op[n])
  /\ \A n \in Emitted : Direct(n) \/ Widened(n)
  /\ \A n \in Emitted : dflt[n] \in EmittedOrNone
  /\ \A l \in Label : labelled[l] \in EmittedOrNone

(* The graph is in order at first.                                           *)
LEMMA InitGraph == Init => GraphInv
  BY DEF Init, GraphInv, EmittedOrNone

(* A step that leaves the links alone keeps the graph.                      *)
LEMMA GraphKept ==
  ASSUME GraphInv, UNCHANGED <<used, ins, op, next, target, dflt, labelled>>,
         \A n \in Emitted : visited[n] => visited'[n]
  PROVE  GraphInv'
<1>1. \A n \in Emitted : (Direct(n) => Direct(n)') /\ (Widened(n) => Widened(n)')
  BY DEF Direct, Widened, EmittedOrNone, GotoOf, WideOf
<1> QED BY <1>1 DEF GraphInv, EmittedOrNone

(* Widening happens to a node when it is visited. *)
LEMMA UnvisitedDirect == GraphInv => \A n \in Emitted : ~ visited[n] => Direct(n)
  BY DEF GraphInv, Widened

(* A jump about to be visited goes where the client said, or nowhere.       *)
LEMMA JumpDestFacts ==
  ASSUME TypeInv, GraphInv, Ascending, NEW n \in Emitted, ~ visited[n]
  PROVE  /\ Dest(n) \in EmittedOrNone
         /\ JumpDest(n) \in {Dest(n), None}
         /\ target[n] # None => JumpDest(n) = target[n] /\ Dest(n) = target[n]
<1>1. Direct(n)
  BY UnvisitedDirect
<1>2. \A m \in Emitted : ~ Inserted(m)
  BY DEF Inserted, TypeInv, TypeOK, GraphType
<1>3. CASE target[n] # None
  BY <1>1, <1>2, <1>3 DEF Direct, EmittedOrNone, JumpDest, Dest
<1>4. CASE target[n] = None
  <2>1. label[n] \in Label \cup {None}
    BY DEF TypeInv, TypeOK, LinksType, GraphType
  <2>2. CASE label[n] \in Label /\ labelled[label[n]] # None
    <3>1. labelled[label[n]] \in Emitted /\ label[n] # None
      BY <2>2 DEF GraphInv, EmittedOrNone
    <3> QED BY <1>4, <2>2, <3>1, NodeAtItsPc DEF JumpDest, Dest, EmittedOrNone
  <2>3. CASE ~ (label[n] \in Label /\ labelled[label[n]] # None)
    BY <1>4, <2>1, <2>3 DEF JumpDest, Dest, EmittedOrNone
  <2> QED BY <2>2, <2>3
<1> QED BY <1>3, <1>4

(* Every step, widening included, keeps the graph in order.                  *)
LEMMA NextGraph == TypeInv /\ CodeInv /\ AddressInv /\ PcInv /\ GraphInv /\ [Next]_vars => GraphInv'
<1> SUFFICES ASSUME TypeInv, CodeInv, AddressInv, PcInv, GraphInv, [Next]_vars PROVE GraphInv'
  OBVIOUS
<1>t. GraphType /\ LinksType /\ EncodingType /\ AnalysisType /\ WalkType /\ ControlType
  BY DEF TypeInv, TypeOK
<1>n. \A n \in Emitted : n \in Node /\ n \in Client /\ n # None
  BY <1>t DEF GraphType
<1>b. Building => \A n \in Emitted : ~ visited[n] /\ Direct(n)
  BY <1>n, UnvisitedDirect DEF CodeInv, Building
<1>1. ASSUME NEW x \in Node, NEW i \in Instrs, Building, Building', Emitted \subseteq Emitted',
             Emitted' \subseteq Emitted \cup {x},
             ins' = [ins EXCEPT ![x] = i], op' = [op EXCEPT ![x] = i.op],
             UNCHANGED <<target, dflt, labelled>>, \A m \in Emitted' : next'[m] \in EmittedOrNone',
             \A m \in Emitted' : target[m] \in EmittedOrNone',
             \A m \in Emitted' : dflt[m] \in EmittedOrNone'
      PROVE  GraphInv'
  <2>1. /\ ins'[x] = i /\ op'[x] = i.op
        /\ \A m \in Node : m # x => ins'[m] = ins[m] /\ op'[m] = op[m]
    BY <1>1, <1>t DEF GraphType, EncodingType
  <2>2. \A m \in Emitted' : ins'[m] \in Instrs /\ SameKind(ins'[m].op, op'[m])
    <3> SUFFICES ASSUME NEW m \in Emitted' PROVE ins'[m] \in Instrs /\ SameKind(ins'[m].op, op'[m])
      OBVIOUS
    <3>1. CASE m = x
      BY <2>1, <3>1 DEF SameKind
    <3>2. CASE m # x
      <4>1. m \in Emitted /\ m \in Node
        BY <1>1, <1>n, <3>2
      <4> QED BY <2>1, <3>2, <4>1 DEF GraphInv
    <3> QED BY <3>1, <3>2
  <2>3. \A m \in Emitted' : Direct(m)'
    BY <1>1 DEF Direct
  <2>4. \A l \in Label : labelled'[l] \in EmittedOrNone'
    BY <1>1 DEF GraphInv, EmittedOrNone
  <2>5. \A m \in Emitted' : dflt'[m] \in EmittedOrNone'
    BY <1>1
  <2> QED BY <2>2, <2>3, <2>4, <2>5 DEF GraphInv
<1>2. ASSUME NEW i \in Instrs, OverwritePlaceholder(i) PROVE GraphInv'
  <2> DEFINE x == Last(code)
  <2>1. /\ Building /\ Building' /\ UNCHANGED <<used, next, target, dflt, labelled>> /\ code # <<>>
        /\ ins' = [ins EXCEPT ![x] = i] /\ op' = [op EXCEPT ![x] = i.op]
    BY <1>2 DEF OverwritePlaceholder, EndsInPlaceholder, Building, links
  <2>2. Len(code) \in 1..Len(code)
    BY <2>1, <1>t DEF GraphType
  <2>3. x \in Node
    BY <1>n, <2>1, <2>2 DEF AddressInv, Last
  <2> HIDE DEF x
  <2>4. Emitted' = Emitted /\ EmittedOrNone' = EmittedOrNone
    BY <2>1 DEF EmittedOrNone
  <2>5. \A m \in Emitted : /\ next[m] \in EmittedOrNone /\ target[m] \in EmittedOrNone
                           /\ dflt[m] \in EmittedOrNone
    BY <1>b, <2>1 DEF GraphInv, Direct
  <2> HIDE DEF Emitted
  <2> QED BY <1>1, <2>1, <2>3, <2>4, <2>5
<1>3. ASSUME NEW i \in Instrs, AppendInstr(i) PROVE GraphInv'
  <2> DEFINE x == used + 1
  <2>1. /\ phase = "append" /\ Building /\ Building' /\ UNCHANGED <<target, dflt, labelled>>
        /\ used' = x /\ x \in Node
        /\ ins' = [ins EXCEPT ![x] = i] /\ op' = [op EXCEPT ![x] = i.op]
        /\ next' = [m \in Node |-> IF code # <<>> /\ m = Last(code) THEN x ELSE next[m]]
    BY <1>3, <1>t DEF AppendInstr, Building, links, GraphType
  <2>2. /\ Emitted \subseteq Emitted' /\ Emitted' \subseteq Emitted \cup {x} /\ x \in Emitted'
        /\ x \notin Emitted
    BY <2>1, <1>t DEF GraphType
  <2>3. next[x] = None /\ \A m \in Node : target[m] = None /\ dflt[m] = None
    BY <2>1, <2>2 DEF CodeInv, TypeInv, LinksOK
  <2> HIDE DEF x
  <2>4. \A m \in Emitted' : m \in Node /\ (m = x \/ m \in Emitted)
    BY <1>n, <2>1, <2>2
  <2>5. \A m \in Emitted' : next'[m] \in EmittedOrNone'
    <3> SUFFICES ASSUME NEW m \in Emitted' PROVE next'[m] \in EmittedOrNone'
      OBVIOUS
    <3>1. next'[m] = x \/ next'[m] = next[m]
      BY <2>1, <2>4
    <3>2. next[m] \in EmittedOrNone
      BY <1>b, <2>1, <2>3, <2>4 DEF Direct, EmittedOrNone
    <3> HIDE DEF Emitted
    <3> QED BY <2>2, <3>1, <3>2 DEF EmittedOrNone
  <2>6. \A m \in Emitted' : target[m] \in EmittedOrNone' /\ dflt[m] \in EmittedOrNone'
    BY <2>3, <2>4 DEF EmittedOrNone
  <2> HIDE DEF Emitted
  <2> QED BY <1>1, <2>1, <2>2, <2>5, <2>6
<1>4. CASE StartLinking
  BY <1>4, GraphKept DEF StartLinking, graph, links, encoding, analysis
<1>5. ASSUME NEW n \in Emitted, NEW t \in Emitted, SetBranchTarget(n, t) PROVE GraphInv'
  <2>1. /\ Building /\ UNCHANGED <<used, ins, op, next, dflt, labelled, visited>>
        /\ target' = [target EXCEPT ![n] = t]
    BY <1>5 DEF SetBranchTarget, Linking, Building, graph, links, analysis
  <2>2. \A m \in Emitted : target'[m] \in EmittedOrNone /\ next'[m] \in EmittedOrNone
    BY <1>n, <1>b, <1>t, <2>1 DEF Direct, EmittedOrNone, EncodingType
  <2> QED BY <2>1, <2>2 DEF GraphInv, Direct, EmittedOrNone
<1>6. ASSUME NEW n \in Emitted, NEW t \in Emitted, AddSwitchDefault(n, t) PROVE GraphInv'
  <2>1. /\ Building /\ UNCHANGED <<used, ins, op, next, target, labelled, visited>>
        /\ dflt' = [dflt EXCEPT ![n] = t]
    BY <1>6 DEF AddSwitchDefault, Linking, Building, graph, analysis
  <2>2. \A m \in Emitted : dflt'[m] \in EmittedOrNone
    BY <1>n, <1>t, <2>1 DEF GraphInv, EmittedOrNone, LinksType
  <2> QED BY <1>b, <2>1, <2>2 DEF GraphInv, Direct, EmittedOrNone
<1>7. ASSUME NEW n \in Emitted, NEW l \in Label, SetBranchLabel(n, l) PROVE GraphInv'
  BY <1>7, GraphKept DEF SetBranchLabel, Linking, graph, analysis
<1>8. ASSUME NEW n \in Emitted, NEW l \in Label, AssociateLabel(l, n) PROVE GraphInv'
  <2>1. /\ Building /\ UNCHANGED <<used, ins, op, next, target, dflt, visited>>
        /\ labelled' = [labelled EXCEPT ![l] = n]
    BY <1>8 DEF AssociateLabel, AllLinked, Building, graph, analysis, encoding
  <2>2. \A k \in Label : labelled'[k] \in EmittedOrNone
    BY <1>t, <2>1 DEF GraphInv, EmittedOrNone, LinksType
  <2> QED BY <1>b, <2>1, <2>2 DEF GraphInv, Direct, EmittedOrNone
<1>9. ASSUME NEW n \in Emitted, NEW t \in Emitted, NEW c \in CaseNum, AddSwitchCase(n, c, t)
      PROVE  GraphInv'
  BY <1>9, GraphKept DEF AddSwitchCase, Linking, graph, analysis
<1>10. ASSUME NEW from \in Emitted, NEW to \in Emitted, NEW t \in Emitted, AddHandler(from, to, t)
       PROVE  GraphInv'
  BY <1>10, GraphKept DEF AddHandler, graph, encoding, analysis
<1>11. CASE StartTraverse
  BY <1>11, GraphKept DEF StartTraverse, graph, links, encoding
<1>12. ASSUME NEW n \in Emitted,
              EnterVisited(n) \/ ReturnFromJsr(n) \/ DefaultCase(n, Head(work).from)
       PROVE  GraphInv'
  BY <1>12, GraphKept DEF EnterVisited, ReturnFromJsr, DefaultCase, graph, links, encoding, analysis
<1>13. ASSUME NEW n \in Emitted, NEW c \in SortedNumbers(n), NextCase(n, Head(work).from, c)
       PROVE  GraphInv'
  BY <1>13, GraphKept DEF NextCase, graph, links, encoding
<1>14. CASE EnterHandler
  BY <1>14, GraphKept DEF EnterHandler, graph, links, encoding
<1>15. ASSUME NEW n \in Emitted, visited' = [visited EXCEPT ![n] = TRUE]
       PROVE  \A m \in Emitted : visited[m] => visited'[m]
  BY <1>n, <1>t, <1>15 DEF AnalysisType
<1>16. ASSUME NEW n \in Emitted, VisitPlain(n) \/ VisitReturn(n) \/ VisitLostJump(n) \/ VisitCond(n)
       PROVE  GraphInv'
  <2>1. UNCHANGED <<used, ins, op, next, target, dflt, labelled>> /\ visited' = [visited EXCEPT ![n] = TRUE]
    BY <1>16 DEF VisitPlain, VisitReturn, VisitLostJump, VisitCond, Visit, graph, links, encoding
  <2> QED BY <1>15, <2>1, GraphKept
<1>17. ASSUME NEW n \in Emitted, NEW o, NEW t, UNCHANGED <<used, ins, next, dflt, labelled>>,
              op' = [op EXCEPT ![n] = o], target' = [target EXCEPT ![n] = t],
              visited' = [visited EXCEPT ![n] = TRUE], ~ visited[n],
              SameKind(ins[n].op, o), t \in EmittedOrNone
       PROVE  GraphInv'
  <2>1. \A m \in Emitted : visited[m] => visited'[m]
    BY <1>15, <1>17
  <2>2. /\ op'[n] = o /\ target'[n] = t
        /\ \A m \in Node : m # n => op'[m] = op[m] /\ target'[m] = target[m]
    BY <1>n, <1>17, <1>t DEF EncodingType
  <2>3. \A m \in Emitted : SameKind(ins'[m].op, op'[m])
    BY <1>n, <1>17, <2>2 DEF GraphInv
  <2>4. Direct(n)'
    BY <1>17, <2>2, UnvisitedDirect DEF Direct, EmittedOrNone
  <2>5. \A m \in Emitted : m # n => (Direct(m) => Direct(m)') /\ (Widened(m) => Widened(m)')
    BY <1>n, <1>17, <2>1, <2>2, InsertedFacts DEF Direct, Widened, EmittedOrNone
  <2> QED BY <1>17, <2>3, <2>4, <2>5 DEF GraphInv, EmittedOrNone
<1>18. ASSUME NEW n \in Emitted, VisitJump(n) PROVE GraphInv'
  <2> DEFINE d == JumpDest(n)
             o == IF TooFar(op[n], pc[d], pc[n]) THEN (IF op[n] = "goto" THEN "goto_w" ELSE "jsr_w") ELSE op[n]
  <2>1. /\ UNCHANGED <<used, ins, next, dflt, labelled>> /\ phase = "traverse" /\ ~ visited[n]
        /\ op' = [op EXCEPT ![n] = o] /\ target' = [target EXCEPT ![n] = d]
        /\ visited' = [visited EXCEPT ![n] = TRUE] /\ op[n] \in JumpOps /\ d # None
    BY <1>18 DEF VisitJump, Visit, Top, graph, links
  <2>2. d \in EmittedOrNone
    BY <2>1, JumpDestFacts DEF PcInv, EmittedOrNone
  <2>3. SameKind(ins[n].op, o)
    <3>1. SameKind(ins[n].op, op[n]) /\ op[n] \in {"goto", "goto_w", "jsr", "jsr_w"}
      BY <2>1 DEF GraphInv, JumpOps
    <3>2. o = op[n] \/ <<op[n], o>> \in {<<"goto", "goto_w">>, <<"jsr", "jsr_w">>}
      BY <3>1 DEF TooFar
    <3> HIDE DEF o
    <3> QED BY <3>1, <3>2 DEF SameKind, SwitchOps
  <2> HIDE DEF d, o
  <2> QED BY <1>17, <2>1, <2>2, <2>3
<1>19. ASSUME NEW n \in Emitted, VisitSwitch(n) PROVE GraphInv'
  <2> DEFINE o == IF Span(n) - entries[n] > FillThresh THEN "lookupswitch" ELSE "tableswitch"
  <2>1. /\ UNCHANGED <<used, ins, next, target, dflt, labelled>> /\ ~ visited[n]
        /\ op' = [op EXCEPT ![n] = o] /\ visited' = [visited EXCEPT ![n] = TRUE]
        /\ op[n] \in SwitchOps /\ o \in SwitchOps
    BY <1>19 DEF VisitSwitch, Visit, graph, links, SwitchOps
  <2> HIDE DEF o
  <2>2. SameKind(ins[n].op, op[n])
    BY DEF GraphInv
  <2>3. SameKind(ins[n].op, o)
    BY <2>1, <2>2 DEF SameKind, SwitchOps
  <2>4. target' = [target EXCEPT ![n] = target[n]] /\ target[n] \in EmittedOrNone
    BY <1>n, <1>t, <2>1, UnvisitedDirect DEF EncodingType, Direct
  <2> QED BY <1>17, <2>1, <2>3, <2>4
<1>20. ASSUME NEW n \in Emitted, VisitFarCond(n) PROVE GraphInv'
  <2> DEFINE x == GotoOf(n)
             y == WideOf(n)
  <2>1. /\ UNCHANGED <<used, dflt, labelled>> /\ ~ visited[n] /\ op[n] = "cond" /\ Fixed
        /\ visited' = [m \in Node |-> m \in {n, x, y} \/ visited[m]]
        /\ ins' = [ins EXCEPT ![x] = GotoIns, ![y] = WideGotoIns]
        /\ op' = [op EXCEPT ![x] = "goto", ![y] = "goto_w"]
        /\ next' = [next EXCEPT ![n] = x, ![x] = y, ![y] = next[n]]
        /\ target' = [target EXCEPT ![n] = y, ![x] = next[n], ![y] = target[n]]
    BY <1>20 DEF VisitFarCond, Visit, Top, links, Fixed
  <2>2. /\ n \in Node /\ x \in Node /\ y \in Node /\ x # y /\ n # x /\ n # y
        /\ x \notin Client /\ y \notin Client
        /\ \A m \in Emitted : m # n => {GotoOf(m), WideOf(m)} \cap {x, y} = {}
    BY InsertedFacts
  <2>3. Direct(n) /\ target[n] # None
    <3>1. Linked(n)
      BY <2>1 DEF TypeInv, LinksOK
    <3> QED BY <2>1, <3>1, UnvisitedDirect DEF TypeInv, LinksOK, Linked, BranchOps, JumpOps
  <2> HIDE DEF x, y
  <2>4. /\ next'[n] = x /\ target'[n] = y /\ target'[x] = next[n] /\ target'[y] = target[n]
        /\ op'[n] = op[n] /\ ins'[n] = ins[n] /\ visited'[n]
    BY <2>1, <2>2, <1>t DEF GraphType, EncodingType, AnalysisType
  <2>5. \A m \in Node : m \notin {n, x, y} =>
          /\ next'[m] = next[m] /\ target'[m] = target[m] /\ op'[m] = op[m] /\ ins'[m] = ins[m]
          /\ visited[m] => visited'[m]
    BY <2>1, <2>2, <1>t DEF GraphType, EncodingType, AnalysisType
  <2>6. Widened(n)'
    BY <2>1, <2>3, <2>4 DEF Widened, Direct, EmittedOrNone, x, y
  <2>7. \A m \in Emitted : m # n => (Direct(m) => Direct(m)') /\ (Widened(m) => Widened(m)')
    <3> SUFFICES ASSUME NEW m \in Emitted, m # n
                 PROVE  (Direct(m) => Direct(m)') /\ (Widened(m) => Widened(m)')
      OBVIOUS
    <3>1. m \notin {n, x, y} /\ m \in Node
      BY <1>n, <2>2
    <3>2. GotoOf(m) \notin {n, x, y} /\ WideOf(m) \notin {n, x, y} /\ GotoOf(m) \in Node /\ WideOf(m) \in Node
      BY <1>n, <2>2, InsertedFacts
    <3> QED BY <2>1, <2>5, <3>1, <3>2 DEF Direct, Widened, EmittedOrNone, GotoOf, WideOf
  <2>8. \A m \in Emitted : ins'[m] = ins[m] /\ op'[m] = op[m]
    BY <1>n, <2>2, <2>4, <2>5
  <2>9. \A m \in Emitted : Direct(m)' \/ Widened(m)'
    BY <2>6, <2>7 DEF GraphInv
  <2> QED BY <2>1, <2>8, <2>9 DEF GraphInv, EmittedOrNone
<1>21. CASE Relocate
  BY <1>21, GraphKept
  DEF Relocate, Succeed, StartLayout, LayoutInstr, StartOffsets, RecalcOffset, EndOffsets,
      graph, links, encoding, analysis
<1>22. CASE UNCHANGED vars
  BY <1>22, GraphKept DEF vars, graph, links, encoding, analysis
<1> QED
  BY <1>2, <1>3, <1>4, <1>5, <1>6, <1>7, <1>8, <1>9, <1>10, <1>11, <1>12, <1>13, <1>14, <1>16, <1>18,
     <1>19, <1>20, <1>21, <1>22
  DEF Next, Build, Finalizing, Traverse, Terminated

(* Every node leads to the client's nodes, directly or through its goto_w.   *)
LEMMA GraphInvCorrect == Spec => []GraphInv
  BY TypeInvCorrect, CodeInvCorrect, AddressInvCorrect, PcInvCorrect, InitGraph, NextGraph, PTL DEF Spec

(* Where a node goes, and what it is, seen through the widening.            *)
LEMMA SuccType ==
  ASSUME TypeInv, GraphInv, NEW n \in Emitted
  PROVE  Fall(n) \in EmittedOrNone /\ Dest(n) \in EmittedOrNone
<1>1. \A m \in EmittedOrNone : ~ Inserted(m)
  BY DEF Inserted, EmittedOrNone, TypeInv, TypeOK, GraphType
<1>2. CASE Direct(n)
  <2>1. Fall(n) = next[n]
    BY <1>1, <1>2 DEF Direct, Fall
  <2>2. target[n] # None => Dest(n) = target[n]
    BY <1>1, <1>2 DEF Direct, Dest
  <2>3. target[n] = None => Dest(n) = IF label[n] = None THEN None ELSE labelled[label[n]]
    BY DEF Dest
  <2>4. label[n] \in Label \cup {None}
    BY DEF TypeInv, TypeOK, LinksType, GraphType
  <2> QED BY <1>2, <2>1, <2>2, <2>3, <2>4 DEF Direct, GraphInv, EmittedOrNone
<1>3. CASE Widened(n)
  <2>1. Inserted(GotoOf(n)) /\ Inserted(WideOf(n)) /\ WideOf(n) # None
    BY InsertedFacts DEF Inserted
  <2> QED BY <1>3, <2>1 DEF Widened, Fall, Dest, EmittedOrNone
<1> QED BY <1>2, <1>3 DEF GraphInv

(* The control flow stays what the client described, whatever is widened.   *)
GraphFixed ==
  /\ UNCHANGED <<used, cases, dflt, handlers>>
  /\ \A n \in Emitted : /\ Fall(n)' = Fall(n) /\ Dest(n)' = Dest(n)
                        /\ ins'[n] = ins[n]

(* A step that leaves the links alone keeps the control flow.                *)
LEMMA FlowKept ==
  ASSUME TypeInv, UNCHANGED <<used, ins, next, target, links>>
  PROVE  GraphFixed
  BY DEF GraphFixed, links, Fall, Dest, Inserted

(* Once traverse_code is called, no step changes the control flow.           *)
LEMMA FlowFixed ==
  ASSUME TypeInv, PcInv, GraphInv, Fixed, [Next]_vars
  PROVE  GraphFixed
<1>t. GraphType /\ LinksType /\ EncodingType /\ AnalysisType /\ WalkType /\ ControlType
  BY DEF TypeInv, TypeOK
<1>n. \A n \in Emitted : n \in Node /\ n \in Client
  BY <1>t DEF GraphType
<1>i. \A m \in EmittedOrNone : ~ Inserted(m) /\ ~ Inserted(m)'
  BY <1>t DEF Inserted, EmittedOrNone, GraphType
<1>1. ~ Build
  <2>1. phase \notin {"append", "link"}
    BY DEF Fixed
  <2> QED BY <2>1
      DEF Build, OverwritePlaceholder, AppendInstr, StartLinking, SetBranchTarget, AddSwitchDefault,
          SetBranchLabel, AssociateLabel, AddSwitchCase, AddHandler, StartTraverse, Linking, AllLinked
<1>2. ASSUME NEW n \in Emitted,
             \/ EnterVisited(n) \/ VisitPlain(n) \/ VisitReturn(n) \/ VisitLostJump(n)
             \/ ReturnFromJsr(n) \/ VisitCond(n) \/ VisitSwitch(n) \/ DefaultCase(n, Head(work).from)
      PROVE  GraphFixed
  BY <1>2, FlowKept
  DEF EnterVisited, VisitPlain, VisitReturn, VisitLostJump, ReturnFromJsr, VisitCond, VisitSwitch,
      DefaultCase, Visit, graph, encoding
<1>3. ASSUME NEW n \in Emitted, NEW c \in SortedNumbers(n), NextCase(n, Head(work).from, c)
      PROVE  GraphFixed
  BY <1>3, FlowKept DEF NextCase, graph, encoding
<1>4. CASE EnterHandler
  BY <1>4, FlowKept DEF EnterHandler, graph, encoding
<1>5. CASE Relocate
  BY <1>5, FlowKept
  DEF Relocate, Succeed, StartLayout, LayoutInstr, StartOffsets, RecalcOffset, EndOffsets, graph, encoding
<1>6. CASE UNCHANGED vars
  BY <1>6, FlowKept DEF vars, graph, encoding
<1>7. ASSUME NEW n \in Emitted, VisitJump(n) PROVE GraphFixed
  <2> DEFINE d == JumpDest(n)
  <2>1. /\ UNCHANGED <<used, ins, next, links>> /\ phase = "traverse" /\ ~ visited[n] /\ d # None
        /\ target' = [target EXCEPT ![n] = d]
    BY <1>7 DEF VisitJump, Visit, Top, graph
  <2>2. d = Dest(n) /\ d \in Emitted
    BY <2>1, JumpDestFacts DEF PcInv, EmittedOrNone
  <2> HIDE DEF d
  <2>3. target'[n] = d /\ \A m \in Node : m # n => target'[m] = target[m]
    BY <1>n, <2>1, <1>t DEF EncodingType
  <2>4. Dest(n)' = Dest(n) /\ Fall(n)' = Fall(n)
    <3>1. next[n] \in EmittedOrNone
      BY <2>1, UnvisitedDirect DEF Direct
    <3>2. ~ Inserted(target[n])' /\ ~ Inserted(next[n]) /\ ~ Inserted(next[n])'
      BY <1>i, <1>n, <2>1, <2>2, <2>3, <3>1 DEF Inserted
    <3>3. Fall(n)' = Fall(n)
      BY <2>1, <3>2 DEF Fall
    <3> QED BY <2>1, <2>2, <2>3, <3>2, <3>3 DEF Dest
  <2>5. \A m \in Emitted : m # n => Dest(m)' = Dest(m) /\ Fall(m)' = Fall(m)
    <3> SUFFICES ASSUME NEW m \in Emitted, m # n PROVE Dest(m)' = Dest(m) /\ Fall(m)' = Fall(m)
      OBVIOUS
    <3>1. CASE Direct(m)
      <4>1. ~ Inserted(next[m]) /\ ~ Inserted(next[m])' /\ ~ Inserted(target[m]) /\ target'[m] = target[m]
            /\ ~ Inserted(target[m])'
        BY <1>i, <1>n, <2>1, <2>3, <3>1 DEF Direct, Inserted
      <4> QED BY <2>1, <4>1 DEF Dest, Fall, links
    <3>2. CASE Widened(m)
      <4>1. /\ target'[m] = target[m] /\ target'[GotoOf(m)] = target[GotoOf(m)]
            /\ target'[WideOf(m)] = target[WideOf(m)]
        BY <1>n, <2>3, InsertedFacts
      <4>2. next[m] = GotoOf(m) /\ target[m] = WideOf(m)
        BY <3>2 DEF Widened
      <4> QED BY <2>1, <4>1, <4>2 DEF Dest, Fall, links, Inserted
    <3> QED BY <3>1, <3>2 DEF GraphInv
  <2> QED BY <2>1, <2>4, <2>5 DEF GraphFixed, links
<1>8. ASSUME NEW n \in Emitted, VisitFarCond(n) PROVE GraphFixed
  <2> DEFINE x == GotoOf(n)
             y == WideOf(n)
  <2>1. /\ UNCHANGED <<used, links>> /\ ~ visited[n] /\ op[n] = "cond"
        /\ ins' = [ins EXCEPT ![x] = GotoIns, ![y] = WideGotoIns]
        /\ next' = [next EXCEPT ![n] = x, ![x] = y, ![y] = next[n]]
        /\ target' = [target EXCEPT ![n] = y, ![x] = next[n], ![y] = target[n]]
    BY <1>8 DEF VisitFarCond, Visit
  <2>2. /\ n \in Node /\ x \in Node /\ y \in Node /\ x # y /\ n # x /\ n # y /\ y # None
        /\ Inserted(x)' /\ Inserted(y)'
        /\ \A m \in Emitted : m \notin {x, y} /\ (m # n => {GotoOf(m), WideOf(m)} \cap {x, y} = {})
    BY InsertedFacts DEF Inserted
  <2>3. Direct(n) /\ target[n] # None
    <3>1. Linked(n)
      BY <2>1 DEF TypeInv, LinksOK
    <3> QED BY <2>1, <3>1, UnvisitedDirect DEF TypeInv, LinksOK, Linked, BranchOps, JumpOps
  <2> HIDE DEF x, y
  <2>4. next'[n] = x /\ target'[n] = y /\ target'[x] = next[n] /\ target'[y] = target[n]
    BY <2>1, <2>2, <1>t DEF GraphType, EncodingType
  <2>5. \A m \in Node : m \notin {n, x, y} => next'[m] = next[m] /\ target'[m] = target[m]
    BY <2>1, <2>2, <1>t DEF GraphType, EncodingType
  <2>6. \A m \in Emitted : ins'[m] = ins[m]
    BY <1>n, <2>1, <2>2, <1>t DEF GraphType
  <2>7. Fall(n)' = next[n] /\ Dest(n)' = target[n]
    BY <2>2, <2>4 DEF Fall, Dest
  <2>8. Fall(n) = next[n] /\ Dest(n) = target[n]
    BY <1>i, <2>3 DEF Fall, Dest, Direct
  <2>9. \A m \in Emitted : m # n => Dest(m)' = Dest(m) /\ Fall(m)' = Fall(m)
    <3> SUFFICES ASSUME NEW m \in Emitted, m # n PROVE Dest(m)' = Dest(m) /\ Fall(m)' = Fall(m)
      OBVIOUS
    <3>m. m \notin {n, x, y} /\ m \in Node /\ next'[m] = next[m] /\ target'[m] = target[m]
      BY <1>n, <2>2, <2>5
    <3>1. CASE Direct(m)
      <4>1. ~ Inserted(next[m]) /\ ~ Inserted(next[m])' /\ ~ Inserted(target[m]) /\ ~ Inserted(target[m])'
        BY <1>i, <3>1, <3>m DEF Direct, Inserted
      <4> QED BY <2>1, <3>m, <4>1 DEF Dest, Fall, links
    <3>2. CASE Widened(m)
      <4>1. GotoOf(m) \notin {n, x, y} /\ WideOf(m) \notin {n, x, y} /\ GotoOf(m) \in Node /\ WideOf(m) \in Node
        BY <1>n, <2>2, InsertedFacts
      <4>2. target'[GotoOf(m)] = target[GotoOf(m)] /\ target'[WideOf(m)] = target[WideOf(m)]
        BY <2>5, <4>1
      <4>3. next[m] = GotoOf(m) /\ target[m] = WideOf(m)
        BY <3>2 DEF Widened
      <4>4. Inserted(next[m]) <=> Inserted(next[m])'
        BY <3>m DEF Inserted
      <4>5. Inserted(target[m]) <=> Inserted(target[m])'
        BY <3>m DEF Inserted
      <4> QED BY <2>1, <3>m, <4>2, <4>3, <4>4, <4>5 DEF Dest, Fall, links
    <3> QED BY <3>1, <3>2 DEF GraphInv
  <2> QED BY <2>1, <2>6, <2>7, <2>8, <2>9 DEF GraphFixed, links
<1> QED
  BY <1>1, <1>2, <1>3, <1>4, <1>5, <1>6, <1>7, <1>8 DEF Next, Finalizing, Traverse, Terminated

(* ... and so do its edges.                                                 *)
LEMMA SuccFixed ==
  ASSUME GraphFixed
  PROVE  \A n \in Emitted : Branches(n)' = Branches(n) /\ Falls(n)' = Falls(n) /\ Succ(n)' = Succ(n)
<1> SUFFICES ASSUME NEW n \in Emitted
             PROVE  Branches(n)' = Branches(n) /\ Falls(n)' = Falls(n) /\ Succ(n)' = Succ(n)
  OBVIOUS
<1>1. /\ Fall(n)' = Fall(n) /\ Dest(n)' = Dest(n) /\ ins'[n] = ins[n]
      /\ cases' = cases /\ dflt' = dflt
  BY DEF GraphFixed
<1>2. Branches(n)' = Branches(n)
  BY <1>1 DEF Branches
<1>3. Falls(n)' = Falls(n)
  BY <1>1 DEF Falls
<1> QED BY <1>2, <1>3 DEF Succ
-----------------------------------------------------------------------------
(* The cases of switches. *)

(* A switch has at most one case for each number, all of them within the    *)
(* range the traversal goes through.                                        *)
CasesOf(n) ==
  \A e \in cases[n] :
    /\ e[2] \in Emitted
    /\ low[n] <= e[1] /\ e[1] <= high[n]
    /\ \A f \in cases[n] : f[1] = e[1] => f[2] = e[2]
CasesInv ==
  /\ \A n \in Emitted : CasesOf(n)
  /\ phase = "append" => \A n \in Node : cases[n] = {}

(* No switch has a case at first.                                            *)
LEMMA InitCases == Init => CasesInv
  BY DEF Init, CasesInv, CasesOf

(* A step that leaves the cases alone keeps them in order.                   *)
LEMMA CasesKept ==
  ASSUME CasesInv, UNCHANGED <<used, cases, low, high>>, phase' = "append" => phase = "append"
  PROVE  CasesInv'
  BY DEF CasesInv, CasesOf

(* Every step keeps the cases in order.                                      *)
LEMMA NextCases == TypeInv /\ CasesInv /\ [Next]_vars => CasesInv'
<1> SUFFICES ASSUME TypeInv, CasesInv, [Next]_vars PROVE CasesInv'
  OBVIOUS
<1>t. GraphType /\ LinksType /\ EncodingType /\ AnalysisType /\ WalkType /\ ControlType
  BY DEF TypeInv, TypeOK
<1>1. ASSUME NEW i \in Instrs, OverwritePlaceholder(i) PROVE CasesInv'
  BY <1>1, CasesKept DEF OverwritePlaceholder, links
<1>2. ASSUME NEW i \in Instrs, AppendInstr(i) PROVE CasesInv'
  <2>1. phase = "append" /\ UNCHANGED <<cases, low, high>> /\ used' = used + 1 /\ used < MaxInstrs
    BY <1>2 DEF AppendInstr, links
  <2>2. \A n \in Emitted' : n \in Node
    BY <1>t, <2>1 DEF GraphType
  <2>3. \A n \in Node : cases'[n] = {}
    BY <2>1 DEF CasesInv
  <2> QED BY <2>2, <2>3 DEF CasesInv, CasesOf
<1>3. CASE StartLinking
  BY <1>3, CasesKept DEF StartLinking, graph, links
<1>4. ASSUME NEW n \in Emitted, NEW t \in Emitted, SetBranchTarget(n, t) \/ AddSwitchDefault(n, t)
      PROVE  CasesInv'
  BY <1>4, CasesKept DEF SetBranchTarget, AddSwitchDefault, Linking, graph, links
<1>5. ASSUME NEW n \in Emitted, NEW l \in Label, SetBranchLabel(n, l) \/ AssociateLabel(l, n)
      PROVE  CasesInv'
  BY <1>5, CasesKept DEF SetBranchLabel, AssociateLabel, Linking, graph
<1>6. ASSUME NEW n \in Emitted, NEW t \in Emitted, NEW c \in CaseNum, AddSwitchCase(n, c, t)
      PROVE  CasesInv'
  <2>1. /\ phase' = "link" /\ UNCHANGED used /\ n \in Node /\ c \in Int
        /\ \A e \in cases[n] : e[1] < c
        /\ cases' = [cases EXCEPT ![n] = @ \cup {<<c, t>>}]
        /\ low' = [low EXCEPT ![n] = IF cases[n] = {} \/ c < @ THEN c ELSE @]
        /\ high' = [high EXCEPT ![n] = IF cases[n] = {} \/ c > @ THEN c ELSE @]
    BY <1>6, <1>t DEF AddSwitchCase, Linking, graph, GraphType
  <2>2. /\ cases'[n] = cases[n] \cup {<<c, t>>}
        /\ low'[n] = IF cases[n] = {} \/ c < low[n] THEN c ELSE low[n]
        /\ high'[n] = IF cases[n] = {} \/ c > high[n] THEN c ELSE high[n]
        /\ \A m \in Node : m # n => cases'[m] = cases[m] /\ low'[m] = low[m] /\ high'[m] = high[m]
    BY <2>1, <1>t DEF LinksType
  <2>3. low[n] \in Int /\ high[n] \in Int /\ \A e \in cases[n] : e[1] \in Int
    <3>1. low[n] \in Int /\ high[n] \in Int /\ \A e \in cases[n] : e \in CaseNum \X Client
      BY <2>1, <1>t DEF LinksType
    <3> QED BY <3>1
  <2>4. \A e \in cases[n] : /\ e[2] \in Emitted /\ low[n] <= e[1] /\ e[1] <= high[n]
                            /\ \A f \in cases[n] : f[1] = e[1] => f[2] = e[2]
    BY DEF CasesInv, CasesOf
  <2>5. \A e \in cases[n] : e[1] < c /\ low'[n] <= e[1] /\ e[1] <= high'[n]
    BY <2>1, <2>2, <2>3, <2>4
  <2>6. low'[n] <= c /\ c <= high'[n]
    BY <2>1, <2>2, <2>3
  <2>7. CasesOf(n)'
    <3> DEFINE x == <<c, t>>
    <3>1. x[1] = c /\ x[2] = t
      OBVIOUS
    <3> HIDE DEF x
    <3>2. cases'[n] = cases[n] \cup {x}
      BY <2>2 DEF x
    <3>3. \A e \in cases[n] : e[1] # x[1]
      BY <2>3, <2>5, <3>1
    <3> QED BY <2>1, <2>4, <2>5, <2>6, <3>1, <3>2, <3>3 DEF CasesOf
  <2>8. \A m \in Emitted : m # n => CasesOf(m)'
    <3>1. \A m \in Emitted : m \in Node
      BY <1>t DEF GraphType
    <3> QED BY <2>1, <2>2, <3>1 DEF CasesInv, CasesOf
  <2> QED BY <2>1, <2>7, <2>8 DEF CasesInv
<1>7. ASSUME NEW from \in Emitted, NEW to \in Emitted, NEW t \in Emitted, AddHandler(from, to, t)
      PROVE  CasesInv'
  BY <1>7, CasesKept DEF AddHandler, graph
<1>8. CASE StartTraverse
  BY <1>8, CasesKept DEF StartTraverse, graph, links
<1>9. CASE Traverse
  <2>1. ASSUME NEW n \in Emitted, Visit(n), UNCHANGED used PROVE CasesInv'
    BY <2>1, CasesKept DEF Visit, Top, links
  <2>2. ASSUME NEW n \in Emitted,
               \/ VisitPlain(n) \/ VisitReturn(n) \/ VisitJump(n) \/ VisitLostJump(n) \/ VisitCond(n)
               \/ VisitFarCond(n) \/ VisitSwitch(n)
        PROVE  CasesInv'
    BY <2>1, <2>2
    DEF VisitPlain, VisitReturn, VisitJump, VisitLostJump, VisitCond, VisitFarCond, VisitSwitch, graph
  <2>3. ASSUME NEW n \in Emitted,
               EnterVisited(n) \/ ReturnFromJsr(n) \/ DefaultCase(n, Head(work).from)
        PROVE  CasesInv'
    BY <2>3, CasesKept DEF EnterVisited, ReturnFromJsr, DefaultCase, Top, graph, links
  <2>4. ASSUME NEW n \in Emitted, NEW c \in SortedNumbers(n), NextCase(n, Head(work).from, c)
        PROVE  CasesInv'
    BY <2>4, CasesKept DEF NextCase, Top, graph, links
  <2>5. CASE EnterHandler
    BY <2>5, CasesKept DEF EnterHandler, graph, links
  <2> QED BY <1>9, <2>2, <2>3, <2>4, <2>5 DEF Traverse
<1>10. CASE Relocate
  BY <1>10, CasesKept
  DEF Relocate, Succeed, StartLayout, LayoutInstr, StartOffsets, RecalcOffset, EndOffsets, graph, links
<1>11. CASE UNCHANGED vars
  BY <1>11, CasesKept DEF vars, graph, links
<1> QED
  BY <1>1, <1>2, <1>3, <1>4, <1>5, <1>6, <1>7, <1>8, <1>9, <1>10, <1>11
  DEF Next, Build, Finalizing, Terminated

(* The cases of a switch are distinct and lie between low and high.          *)
LEMMA CasesInvCorrect == Spec => []CasesInv
  BY TypeInvCorrect, InitCases, NextCases, PTL DEF Spec

-----------------------------------------------------------------------------
(* The stack of calls. *)

Elems(s) == {s[k] : k \in 1..Len(s)}

(* The frames of a stack are the innermost one and those below it.          *)
LEMMA ElemsHead ==
  ASSUME NEW s \in Seq(Frame), s # <<>>
  PROVE  Elems(s) = {Head(s)} \cup Elems(Tail(s))
<1> DEFINE t == Tail(s)
           L == Len(s)
<1>1. /\ L \in Nat /\ L > 0 /\ Len(t) = L - 1 /\ Head(s) = s[1]
      /\ \A k \in 1..(L - 1) : t[k] = s[k + 1]
  OBVIOUS
<1> HIDE DEF t, L
<1>2. \A k \in 1..L : k = 1 \/ (k - 1 \in 1..(L - 1) /\ t[k - 1] = s[k])
  <2> SUFFICES ASSUME NEW k \in 1..L, k # 1 PROVE k - 1 \in 1..(L - 1) /\ t[k - 1] = s[k]
    OBVIOUS
  <2>1. k - 1 \in 1..(L - 1) /\ (k - 1) + 1 = k
    BY <1>1
  <2> QED BY <1>1, <2>1
<1>3. \A k \in 1..(L - 1) : k + 1 \in 1..L /\ t[k] = s[k + 1]
  BY <1>1
<1>4. 1 \in 1..L
  BY <1>1
<1>5. \A x : x \in Elems(s) <=> x = Head(s) \/ x \in Elems(t)
  <2>1. \A x : x \in Elems(s) <=> \E k \in 1..L : x = s[k]
    BY DEF Elems, L
  <2>2. \A x : x \in Elems(t) <=> \E k \in 1..(L - 1) : x = t[k]
    BY <1>1 DEF Elems
  <2>3. ASSUME NEW x, x \in Elems(s) PROVE x = Head(s) \/ x \in Elems(t)
    <3>1. PICK k \in 1..L : x = s[k]
      BY <2>1, <2>3
    <3> QED BY <1>1, <1>2, <2>2, <3>1
  <2>4. Head(s) \in Elems(s)
    BY <1>1, <1>4, <2>1
  <2>5. ASSUME NEW x, x \in Elems(t) PROVE x \in Elems(s)
    <3>1. PICK k \in 1..(L - 1) : x = t[k]
      BY <2>2, <2>5
    <3> QED BY <1>3, <2>1, <3>1
  <2> QED BY <2>3, <2>4, <2>5
<1> QED BY <1>5 DEF t

(* The calls of two sequences, one before the other.                         *)
LEMMA ElemsConcat ==
  ASSUME NEW s \in Seq(Frame), NEW t \in Seq(Frame)
  PROVE  Elems(s \o t) = Elems(s) \cup Elems(t)
<1> DEFINE r == s \o t
           L == Len(s)
           M == Len(t)
<1>1. /\ L \in Nat /\ M \in Nat /\ Len(r) = L + M
      /\ \A k \in 1..(L + M) : r[k] = IF k <= L THEN s[k] ELSE t[k - L]
  OBVIOUS
<1> HIDE DEF r, L, M
<1>2. \A k \in 1..L : k \in 1..(L + M) /\ r[k] = s[k]
  BY <1>1
<1>3. \A k \in 1..M : k + L \in 1..(L + M) /\ r[k + L] = t[k]
  <2> SUFFICES ASSUME NEW k \in 1..M PROVE k + L \in 1..(L + M) /\ r[k + L] = t[k]
    OBVIOUS
  <2>1. k + L \in 1..(L + M) /\ ~ (k + L <= L) /\ (k + L) - L = k
    BY <1>1
  <2> QED BY <1>1, <2>1
<1>4. \A k \in 1..(L + M) : (k \in 1..L /\ r[k] = s[k]) \/ (k - L \in 1..M /\ r[k] = t[k - L])
  BY <1>1
<1>5. Elems(s) = {s[k] : k \in 1..L} /\ Elems(t) = {t[k] : k \in 1..M}
  BY DEF Elems, L, M
<1>6. Elems(r) = {r[k] : k \in 1..(L + M)}
  BY <1>1 DEF Elems
<1>7. ASSUME NEW x, x \in Elems(r) PROVE x \in Elems(s) \cup Elems(t)
  <2>1. PICK k \in 1..(L + M) : x = r[k]
    BY <1>6, <1>7
  <2> QED BY <1>4, <1>5, <2>1
<1>8. ASSUME NEW x, x \in Elems(s) PROVE x \in Elems(r)
  <2>1. PICK k \in 1..L : x = s[k]
    BY <1>5, <1>8
  <2> QED BY <1>2, <1>6, <2>1
<1>9. ASSUME NEW x, x \in Elems(t) PROVE x \in Elems(r)
  <2>1. PICK k \in 1..M : x = t[k]
    BY <1>5, <1>9
  <2> QED BY <1>3, <1>6, <2>1
<1>10. Elems(r) = Elems(s) \cup Elems(t)
  BY <1>7, <1>8, <1>9
<1> QED BY <1>10 DEF r

(* Calls one after the other are a sequence of calls.                        *)
LEMMA FramesJoined == ASSUME NEW s \in Seq(Frame), NEW t \in Seq(Frame) PROVE s \o t \in Seq(Frame)
  OBVIOUS

(* So is one call.                                                           *)
LEMMA FrameAlone == \A f \in Frame : <<f>> \in Seq(Frame)
  BY OneElement

(* The calls of a sequence of one.                                           *)
LEMMA ElemsOne == \A f : Elems(<<f>>) = {f}
  BY DEF Elems

(* No calls.                                                                 *)
LEMMA ElemsNone == Elems(<<>>) = {}
  BY DEF Elems

(* The call for the node that follows, if there is one.                      *)
LEMMA ElemsEnterIf == \A n : Elems(EnterIf(n)) = IF n = None THEN {} ELSE {Enter(n)}
  BY ElemsOne, ElemsNone DEF EnterIf

(* A call that ends gives way to those it makes and those below it. *)
LEMMA ElemsReplaced ==
  ASSUME WalkType, work # <<>>, NEW p \in Seq(Frame), work' = p \o Tail(work)
  PROVE  /\ Elems(work) = {Head(work)} \cup Elems(Tail(work))
         /\ Elems(work') = Elems(p) \cup Elems(Tail(work))
  BY TailType, ElemsHead, ElemsConcat DEF WalkType

(* A call that ends without making another gives way to those below.         *)
LEMMA ElemsPopped ==
  ASSUME WalkType, work # <<>>, work' = Tail(work)
  PROVE  /\ Elems(work) = {Head(work)} \cup Elems(Tail(work))
         /\ Elems(work') = {} \cup Elems(Tail(work))
  BY ElemsHead DEF WalkType
-----------------------------------------------------------------------------
(* The search. *)

(* The entry of the method, and of its first k handlers. *)
Entries(k) == {1} \cup {handlers[j].target : j \in 1..k}

(* A call enters a node that is an entry or follows one that was visited,   *)
(* or goes on with a subroutine call or a switch that was.                  *)
Entering(f) ==
  \E n \in Emitted :
    /\ f = Enter(n)
    /\ n \in Entries(Len(handlers)) \/ \E m \in Emitted : visited[m] /\ n \in Succ(m)
FrameOK(f) ==
  \/ Entering(f)
  \/ \E n \in Emitted : f = After(n) /\ visited[n] /\ op[n] \in {"jsr", "jsr_w"}
  \/ \E n \in Emitted : f.at = "cases" /\ f.node = n /\ visited[n] /\ op[n] \in SwitchOps

(* What follows a visited node m has been visited, or will be by the calls  *)
(* in progress, or is where a jump whose label was not found should go.     *)
CaseLeft(m, c, x) == x = dflt[m] \/ \E e \in cases[m] : e[2] = x /\ e[1] >= c
CaseWaits(m, x, F) == \E f \in F : f.at = "cases" /\ f.node = m /\ CaseLeft(m, f.from, x)
Lost(m) == op[m] \in JumpOps /\ target[m] = None
Covered(m, x) ==
  \/ visited[x]
  \/ Enter(x) \in Elems(work)
  \/ After(m) \in Elems(work) /\ x \in Falls(m)
  \/ CaseWaits(m, x, Elems(work))
  \/ Lost(m) /\ x = Dest(m)

SearchInv ==
  /\ Building => entered = 0
  /\ phase = "traverse" =>
       /\ used > 0
       /\ \A f \in Elems(work) : FrameOK(f)
       /\ \A m \in Emitted : visited[m] => \A x \in Succ(m) : Covered(m, x)
       /\ entered <= Len(handlers)
       /\ \A x \in Entries(entered) : visited[x] \/ Enter(x) \in Elems(work)

(* The search has not begun at first.                                        *)
LEMMA InitSearch == Init => SearchInv
  BY DEF Init, SearchInv

(* The successors of a node, by its opcode of the moment. *)
LEMMA SuccOf ==
  ASSUME TypeInv, GraphInv, NEW n \in Emitted
  PROVE  /\ op[n] \in ReturnOps => Branches(n) = {} /\ Falls(n) = {}
         /\ op[n] \notin BranchOps \cup SwitchOps \cup ReturnOps =>
              Branches(n) = {} /\ Falls(n) = {Fall(n)} \ {None}
         /\ op[n] \in {"goto", "goto_w"} => Branches(n) = {Dest(n)} \ {None} /\ Falls(n) = {}
         /\ op[n] \in {"jsr", "jsr_w"} => /\ Branches(n) = {Dest(n)} \ {None}
                                          /\ Falls(n) = {Fall(n)} \ {None}
                                          /\ ins[n].op \in {"jsr", "jsr_w"}
         /\ op[n] = "cond" => Branches(n) = {Dest(n)} \ {None} /\ Falls(n) = {Fall(n)} \ {None}
         /\ op[n] \in SwitchOps =>
              Branches(n) = ({dflt[n]} \cup {e[2] : e \in cases[n]}) \ {None} /\ Falls(n) = {}
<1> DEFINE i == ins[n].op
           o == op[n]
<1>1. SameKind(i, o)
  BY DEF GraphInv
<1>2. i = o \/ (i = "goto" /\ o = "goto_w") \/ (i = "jsr" /\ o = "jsr_w") \/ (i \in SwitchOps /\ o \in SwitchOps)
  BY <1>1 DEF SameKind
<1>3. Branches(n) = (IF i \in BranchOps THEN {Dest(n)}
                     ELSE IF i \in SwitchOps THEN {dflt[n]} \cup {e[2] : e \in cases[n]} ELSE {}) \ {None}
  BY DEF Branches
<1>4. Falls(n) = (IF i \in {"goto", "goto_w"} \cup SwitchOps \cup ReturnOps THEN {} ELSE {Fall(n)}) \ {None}
  BY DEF Falls
<1> HIDE DEF i, o
<1>5. o \in ReturnOps => Branches(n) = {} /\ Falls(n) = {}
  BY <1>2, <1>3, <1>4 DEF BranchOps, JumpOps, SwitchOps, ReturnOps
<1>6. o \notin BranchOps \cup SwitchOps \cup ReturnOps => Branches(n) = {} /\ Falls(n) = {Fall(n)} \ {None}
  BY <1>2, <1>3, <1>4 DEF BranchOps, JumpOps, SwitchOps, ReturnOps
<1>7. o \in {"goto", "goto_w"} => Branches(n) = {Dest(n)} \ {None} /\ Falls(n) = {}
  BY <1>2, <1>3, <1>4 DEF BranchOps, JumpOps, SwitchOps, ReturnOps
<1>8. o \in {"jsr", "jsr_w"} =>
        Branches(n) = {Dest(n)} \ {None} /\ Falls(n) = {Fall(n)} \ {None} /\ i \in {"jsr", "jsr_w"}
  BY <1>2, <1>3, <1>4 DEF BranchOps, JumpOps, SwitchOps, ReturnOps
<1>9. o = "cond" => Branches(n) = {Dest(n)} \ {None} /\ Falls(n) = {Fall(n)} \ {None}
  BY <1>2, <1>3, <1>4 DEF BranchOps, JumpOps, SwitchOps, ReturnOps
<1>10. o \in SwitchOps =>
         Branches(n) = ({dflt[n]} \cup {e[2] : e \in cases[n]}) \ {None} /\ Falls(n) = {}
  BY <1>2, <1>3, <1>4 DEF BranchOps, JumpOps, SwitchOps, ReturnOps
<1> QED BY <1>5, <1>6, <1>7, <1>8, <1>9, <1>10 DEF i, o

(* Edges lead to the client's nodes.                                        *)
LEMMA SuccEmitted ==
  ASSUME TypeInv, GraphInv, CasesInv, NEW n \in Emitted
  PROVE  Succ(n) \subseteq Emitted /\ None \notin Succ(n)
<1>1. Fall(n) \in EmittedOrNone /\ Dest(n) \in EmittedOrNone /\ dflt[n] \in EmittedOrNone
  BY SuccType DEF GraphInv
<1>2. \A e \in cases[n] : e[2] \in Emitted
  BY DEF CasesInv, CasesOf
<1>3. Branches(n) \subseteq Emitted
  BY <1>1, <1>2 DEF Branches, EmittedOrNone
<1>4. Falls(n) \subseteq Emitted
  BY <1>1 DEF Falls, EmittedOrNone
<1>5. None \notin Emitted
  BY DEF TypeInv, TypeOK, GraphType
<1> QED BY <1>3, <1>4, <1>5 DEF Succ

(* A node that has not been widened goes to its links.                      *)
LEMMA DirectFacts ==
  ASSUME TypeInv, NEW n \in Emitted, Direct(n)
  PROVE  /\ Fall(n) = next[n]
         /\ target[n] # None => Dest(n) = target[n]
  BY DEF Direct, EmittedOrNone, Fall, Dest, Inserted, TypeInv, TypeOK, GraphType

(* The entries are the client's nodes.                                      *)
LEMMA EntriesEmitted ==
  ASSUME TypeInv, OrderInv, SearchInv, phase = "traverse"
  PROVE  Entries(entered) \subseteq Emitted /\ Entries(entered) \subseteq Entries(Len(handlers))
         /\ Entries(Len(handlers)) \subseteq Emitted
<1>1. entered \in Nat /\ Len(handlers) \in Nat /\ entered <= Len(handlers)
  BY DEF TypeInv, TypeOK, WalkType, LinksType, SearchInv
<1>2. 1 \in Emitted
  BY DEF SearchInv, TypeInv, TypeOK, GraphType
<1>3. \A j \in 1..Len(handlers) : handlers[j].target \in Emitted
  BY DEF OrderInv
<1>4. \A j \in 1..entered : j \in 1..Len(handlers)
  BY <1>1
<1> QED BY <1>2, <1>3, <1>4 DEF Entries

(* The traversal goes through the number of every case.                     *)
LEMMA CaseNumbers ==
  ASSUME TypeInv, CasesInv, NEW n \in Emitted, NEW e \in cases[n]
  PROVE  e[1] \in SortedNumbers(n) /\ e[1] \in Int
<1>1. cases[n] \subseteq CaseNum \X Client /\ low[n] \in Int /\ high[n] \in Int
  BY DEF TypeInv, TypeOK, LinksType, GraphType
<1>2. e[1] \in CaseNum /\ e[1] \in Int
  BY <1>1
<1>3. low[n] <= e[1] /\ e[1] <= high[n]
  BY DEF CasesInv, CasesOf
<1>4. e[1] \in low[n]..high[n]
  BY <1>1, <1>2, <1>3
<1> QED BY <1>2, <1>4 DEF SortedNumbers

(* One call of the traversal, f, gives way to the calls F.                  *)
LEMMA SearchStep ==
  ASSUME TypeInv, OrderInv, GraphInv, CasesInv, GraphFixed, SearchInv, phase = "traverse", phase' = "traverse",
         UNCHANGED entered,
         NEW f, NEW F, NEW R, Elems(work) = {f} \cup R, Elems(work') = F \cup R,
         \A m \in Emitted : visited[m] => visited'[m] /\ op'[m] = op[m] /\ target'[m] = target[m],
         \A h \in F : FrameOK(h)',
         \A x \in Emitted : f = Enter(x) => visited'[x],
         \A m \in Emitted : f = After(m) => \A x \in Falls(m) : Enter(x) \in F,
         \A m \in Emitted : f.at = "cases" /\ f.node = m =>
           \A x : CaseLeft(m, f.from, x) => Enter(x) \in F \/ CaseWaits(m, x, F),
         \A m \in Emitted : visited'[m] /\ ~ visited[m] => \A x \in Succ(m) : Covered(m, x)'
  PROVE  SearchInv'
<1>1. /\ UNCHANGED <<used, handlers, cases, dflt>>
      /\ \A m \in Emitted : Succ(m)' = Succ(m) /\ Falls(m)' = Falls(m) /\ Dest(m)' = Dest(m)
  BY SuccFixed DEF GraphFixed
<1>2. \A m, c, x : CaseLeft(m, c, x)' <=> CaseLeft(m, c, x)
  BY <1>1 DEF CaseLeft
<1>3. \A h \in R : FrameOK(h)'
  <2> SUFFICES ASSUME NEW h \in R PROVE FrameOK(h)'
    OBVIOUS
  <2>1. FrameOK(h)
    BY DEF SearchInv
  <2>2. Entries(Len(handlers))' = Entries(Len(handlers))
    BY <1>1 DEF Entries
  <2>3. Entering(h) => Entering(h)'
    BY <1>1, <2>2 DEF Entering
  <2> QED BY <1>1, <2>1, <2>3 DEF FrameOK
<1>4. \A h \in Elems(work') : FrameOK(h)'
  BY <1>3
<1>5. \A m \in Emitted : visited[m] => \A x \in Succ(m) : Covered(m, x)'
  <2> SUFFICES ASSUME NEW m \in Emitted, visited[m], NEW x \in Succ(m) PROVE Covered(m, x)'
    OBVIOUS
  <2>1. Covered(m, x) /\ x \in Emitted
    BY SuccEmitted DEF SearchInv
  <2>2. CASE visited[x]
    BY <2>1, <2>2 DEF Covered
  <2>3. CASE Enter(x) \in Elems(work)
    BY <2>1, <2>3 DEF Covered, Enter
  <2>4. CASE After(m) \in Elems(work) /\ x \in Falls(m)
    <3>1. CASE f = After(m)
      BY <2>4, <3>1 DEF Covered, Enter
    <3>2. CASE f # After(m)
      BY <1>1, <2>4, <3>2 DEF Covered, After
    <3> QED BY <3>1, <3>2
  <2>5. CASE CaseWaits(m, x, Elems(work))
    <3>1. PICK h \in Elems(work) : h.at = "cases" /\ h.node = m /\ CaseLeft(m, h.from, x)
      BY <2>5 DEF CaseWaits
    <3>2. Enter(x) \in F \/ \E g \in F \cup R : g.at = "cases" /\ g.node = m /\ CaseLeft(m, g.from, x)
      BY <3>1 DEF CaseWaits
    <3>3. \A g : CaseLeft(m, g.from, x) => CaseLeft(m, g.from, x)'
      BY <1>2
    <3>4. Enter(x)' = Enter(x)
      BY DEF Enter
    <3> QED BY <3>2, <3>3, <3>4 DEF Covered, CaseWaits
  <2>6. CASE Lost(m) /\ x = Dest(m)
    BY <1>1, <2>6 DEF Covered, Lost
  <2> QED BY <2>1, <2>2, <2>3, <2>4, <2>5, <2>6 DEF Covered
<1>6. Entries(entered)' = Entries(entered)
  BY <1>1 DEF Entries
<1>7. Entries(entered) \subseteq Emitted
  BY EntriesEmitted
<1>8. \A x \in Entries(entered) : visited'[x] \/ Enter(x) \in Elems(work')
  BY <1>7 DEF SearchInv
<1> QED BY <1>1, <1>4, <1>5, <1>6, <1>8 DEF SearchInv, Building

(* Visiting n, whose calls are the sequence p. *)
LEMMA SearchVisit ==
  ASSUME TypeInv, OrderInv, GraphInv, CasesInv, GraphFixed, SearchInv, NEW n \in Emitted, Visit(n),
         \A m \in Emitted : visited'[m] <=> visited[m] \/ m = n,
         \A m \in Emitted : m # n => op'[m] = op[m] /\ target'[m] = target[m],
         NEW F, Elems(work') = F \cup Elems(Tail(work)),
         \A h \in F : FrameOK(h)',
         \A x \in Succ(n) : Enter(x) \in F \/ (After(n) \in F /\ x \in Falls(n)) \/ CaseWaits(n, x, F)
                            \/ (Lost(n)' /\ x = Dest(n))
  PROVE  SearchInv'
<1>1. phase = "traverse" /\ phase' = "traverse" /\ UNCHANGED entered /\ Head(work) = Enter(n) /\ ~ visited[n]
      /\ work # <<>>
  BY DEF Visit, Top
<1>2. Elems(work) = {Enter(n)} \cup Elems(Tail(work))
  BY <1>1, ElemsHead DEF TypeInv, TypeOK, WalkType
<1>3. \A m \in Emitted : visited[m] => visited'[m] /\ op'[m] = op[m] /\ target'[m] = target[m]
  BY <1>1
<1>4. \A m : Enter(n) # After(m) /\ Enter(n).at # "cases" /\ (Enter(n) = Enter(m) => m = n)
  BY DEF Enter, After
<1>5. \A x \in Succ(n) : Covered(n, x)'
  <2> SUFFICES ASSUME NEW x \in Succ(n) PROVE Covered(n, x)'
    OBVIOUS
  <2>1. /\ UNCHANGED <<cases, dflt>> /\ Falls(n)' = Falls(n) /\ Dest(n)' = Dest(n)
    BY SuccFixed DEF GraphFixed
  <2>2. \A c : CaseLeft(n, c, x) => CaseLeft(n, c, x)'
    BY <2>1 DEF CaseLeft
  <2>3. CaseWaits(n, x, F) => CaseWaits(n, x, Elems(work))'
    BY <2>2 DEF CaseWaits
  <2>4. Enter(x) \in F => Covered(n, x)'
    BY DEF Covered, Enter
  <2>5. After(n) \in F /\ x \in Falls(n) => Covered(n, x)'
    BY <2>1 DEF Covered, After
  <2>6. Lost(n)' /\ x = Dest(n) => Covered(n, x)'
    BY <2>1 DEF Covered
  <2> QED BY <2>3, <2>4, <2>5, <2>6 DEF Covered
<1>6. \A m \in Emitted : visited'[m] /\ ~ visited[m] => \A x \in Succ(m) : Covered(m, x)'
  BY <1>5
<1> DEFINE f == Enter(n)
           R == Elems(Tail(work))
<1>7. /\ Elems(work) = {f} \cup R /\ Elems(work') = F \cup R
      /\ \A x \in Emitted : f = Enter(x) => visited'[x]
      /\ \A m \in Emitted : f # After(m) /\ f.at # "cases"
  BY <1>2, <1>4
<1> HIDE DEF f, R
<1> QED BY <1>1, <1>3, <1>6, <1>7, SearchStep, ZenonT(60)

(* Every step keeps track of what the traversal still owes.                  *)
LEMMA NextSearch ==
  TypeInv /\ CodeInv /\ OrderInv /\ PcInv /\ GraphInv /\ CasesInv /\ SearchInv /\ [Next]_vars => SearchInv'
<1> SUFFICES ASSUME TypeInv, CodeInv, OrderInv, PcInv, GraphInv, CasesInv, SearchInv, [Next]_vars PROVE SearchInv'
  OBVIOUS
<1>t. GraphType /\ LinksType /\ EncodingType /\ AnalysisType /\ WalkType /\ ControlType
  BY DEF TypeInv, TypeOK
<1>n. \A n \in Emitted : n \in Node /\ n \in Client /\ n # None
  BY <1>t DEF GraphType
<1>g. Fixed => GraphFixed
  BY FlowFixed
<1>s. GraphFixed => \A n \in Emitted : /\ Succ(n)' = Succ(n) /\ Falls(n)' = Falls(n) /\ Branches(n)' = Branches(n)
                                       /\ Emitted' = Emitted
  BY SuccFixed DEF GraphFixed
<1>v. ASSUME NEW n \in Emitted, Visit(n)
      PROVE  /\ phase = "traverse" /\ GraphFixed /\ Ascending /\ ~ visited[n] /\ work # <<>>
             /\ Linked(n) /\ Direct(n) /\ Fall(n) = next[n] /\ (target[n] # None => Dest(n) = target[n])
  <2>1. phase = "traverse" /\ ~ visited[n] /\ work # <<>>
    BY <1>v DEF Visit, Top
  <2>2. Fixed
    BY <2>1 DEF Fixed
  <2>3. Linked(n)
    BY <2>2 DEF TypeInv, LinksOK
  <2>4. Direct(n)
    BY <2>1, UnvisitedDirect
  <2> QED BY <1>g, <2>1, <2>2, <2>3, <2>4, DirectFacts DEF PcInv
<1>e. ASSUME NEW n \in Emitted, NEW x \in Succ(n), GraphFixed, visited'[n] PROVE FrameOK(Enter(x))'
  <2>1. x \in Emitted /\ x \in Succ(n)' /\ Emitted' = Emitted /\ Enter(x)' = Enter(x)
    BY <1>e, <1>s, SuccEmitted DEF Enter
  <2> HIDE DEF Emitted
  <2> QED BY <1>e, <2>1 DEF FrameOK, Entering
<1>o. ASSUME NEW n \in Emitted, visited' = [visited EXCEPT ![n] = TRUE]
      PROVE  visited'[n] /\ \A m \in Emitted : visited'[m] <=> visited[m] \/ m = n
  BY <1>n, <1>o, <1>t DEF AnalysisType
<1>1. CASE StartTraverse
  <2>1. CASE code = <<>>
    BY <1>1, <2>1 DEF StartTraverse, SearchInv, Building
  <2>2. CASE code # <<>>
    <3>1. /\ Building /\ phase' = "traverse" /\ UNCHANGED <<used, handlers, visited, entered>>
          /\ work' = <<Enter(Head(code))>>
      BY <1>1, <2>2 DEF StartTraverse, AllLinked, Building, graph, links
    <3>2. Head(code) = code[1] /\ Len(code) \in Nat /\ Len(code) > 0
      BY <1>t, <2>2 DEF GraphType
    <3>3. Head(code) = 1 /\ used > 0 /\ 1 \in Emitted
      BY <3>1, <3>2 DEF OrderInv
    <3>4. Elems(work') = {Enter(1)} /\ entered = 0 /\ Len(handlers) \in Nat
      BY <3>1, <3>3, <1>t, ElemsOne DEF SearchInv, LinksType
    <3>5. FrameOK(Enter(1))'
      BY <3>1, <3>3 DEF FrameOK, Entering, Entries, Enter
    <3>6. \A m \in Emitted : ~ visited'[m]
      BY <1>n, <3>1 DEF CodeInv, Building
    <3>7. Entries(entered)' = {1}
      BY <3>1, <3>4 DEF Entries
    <3> QED BY <3>1, <3>3, <3>4, <3>5, <3>6, <3>7 DEF SearchInv, Building
  <2> QED BY <2>1, <2>2
<1>2. CASE Build /\ ~ StartTraverse
  <2>1. Building' /\ Building /\ UNCHANGED entered
    BY <1>2
    DEF Build, OverwritePlaceholder, AppendInstr, StartLinking, SetBranchTarget, AddSwitchDefault,
        SetBranchLabel, AssociateLabel, AddSwitchCase, AddHandler, Linking, AllLinked, walk, Building
  <2> QED BY <2>1 DEF SearchInv, Building
<1>3. ASSUME NEW n \in Emitted, EnterVisited(n) PROVE SearchInv'
  <2>1. /\ phase = "traverse" /\ phase' = "traverse" /\ Head(work) = Enter(n) /\ work # <<>> /\ visited[n]
        /\ work' = Tail(work) /\ UNCHANGED <<entered, visited, op, target>>
    BY <1>3 DEF EnterVisited, Top, analysis, encoding
  <2>2. GraphFixed
    BY <1>g, <2>1 DEF Fixed
  <2> DEFINE f == Enter(n)
             R == Elems(Tail(work))
  <2>3. Elems(work) = {f} \cup R /\ Elems(work') = {} \cup R
    BY <1>t, <2>1, ElemsPopped
  <2>4. \A m : f # After(m) /\ f.at # "cases" /\ (f = Enter(m) => m = n)
    BY DEF Enter, After
  <2> DEFINE F == {}
  <2>5. /\ Elems(work) = {f} \cup R /\ Elems(work') = F \cup R /\ \A h \in F : FrameOK(h)'
        /\ \A m \in Emitted : visited[m] => visited'[m] /\ op'[m] = op[m] /\ target'[m] = target[m]
        /\ \A x \in Emitted : f = Enter(x) => visited'[x]
        /\ \A m \in Emitted : f = After(m) => \A x \in Falls(m) : Enter(x) \in F
        /\ \A m \in Emitted : f.at # "cases"
        /\ \A m \in Emitted : ~ (visited'[m] /\ ~ visited[m])
        /\ phase = "traverse" /\ phase' = "traverse" /\ UNCHANGED entered
    BY <2>1, <2>3, <2>4
  <2> HIDE DEF f, R, F
  <2> QED BY <2>2, <2>5, SearchStep
<1>4. ASSUME NEW n \in Emitted, VisitPlain(n) PROVE SearchInv'
  <2>1. /\ Visit(n) /\ op[n] \notin BranchOps \cup SwitchOps \cup ReturnOps
        /\ visited' = [visited EXCEPT ![n] = TRUE] /\ UNCHANGED <<op, target>>
        /\ work' = EnterIf(next[n]) \o Tail(work)
    BY <1>4 DEF VisitPlain, encoding
  <2> DEFINE F == Elems(EnterIf(next[n]))
  <2>2. Elems(work') = F \cup Elems(Tail(work))
    BY <1>n, <1>t, <1>v, <2>1, EnterIfType, ElemsReplaced DEF GraphType
  <2>3. Succ(n) = {next[n]} \ {None}
    BY <1>v, <2>1, SuccOf DEF Succ
  <2>4. F = {Enter(x) : x \in Succ(n)}
    BY <2>3, ElemsEnterIf
  <2>5. \A h \in F : FrameOK(h)'
    BY <1>e, <1>o, <1>v, <2>1, <2>4
  <2> HIDE DEF F
  <2> QED BY <1>o, <1>v, <2>1, <2>2, <2>4, <2>5, SearchVisit
<1>5. ASSUME NEW n \in Emitted, VisitReturn(n) PROVE SearchInv'
  <2>1. /\ Visit(n) /\ op[n] \in ReturnOps /\ work' = Tail(work)
        /\ visited' = [visited EXCEPT ![n] = TRUE] /\ UNCHANGED <<op, target>>
    BY <1>5 DEF VisitReturn, encoding
  <2>2. Elems(work') = {} \cup Elems(Tail(work))
    BY <1>t, <1>v, <2>1, ElemsPopped
  <2>3. Succ(n) = {}
    BY <2>1, SuccOf DEF Succ
  <2> DEFINE F == {}
  <2>4. /\ Elems(work') = F \cup Elems(Tail(work)) /\ \A h \in F : FrameOK(h)'
        /\ \A m \in Emitted : visited'[m] <=> visited[m] \/ m = n
    BY <1>o, <2>1, <2>2
  <2> HIDE DEF F
  <2> QED BY <1>v, <2>1, <2>3, <2>4, SearchVisit
<1>6. ASSUME NEW n \in Emitted, VisitCond(n) \/ VisitFarCond(n) PROVE SearchInv'
  <2> DEFINE x == target[n]
             p == EnterIf(next[n]) \o <<Enter(x)>>
             F == Elems(p)
  <2>1. /\ Visit(n) /\ op[n] = "cond" /\ work' = EnterIf(next[n]) \o <<Enter(x)>> \o Tail(work)
    BY <1>6 DEF VisitCond, VisitFarCond, CondWork
  <2>2. x \in Emitted /\ next[n] \in EmittedOrNone
    <3>1. x # None
      BY <1>v, <2>1 DEF Linked, BranchOps, JumpOps, TypeInv, LinksOK
    <3> QED BY <1>v, <2>1, <3>1 DEF Direct, EmittedOrNone
  <2>3. /\ visited'[n] /\ \A m \in Emitted : visited'[m] <=> visited[m] \/ m = n
        /\ \A m \in Emitted : m # n => op'[m] = op[m] /\ target'[m] = target[m]
    <3>1. CASE VisitCond(n)
      BY <1>o, <3>1 DEF VisitCond
    <3>2. CASE VisitFarCond(n)
      <4>1. /\ visited' = [m \in Node |-> m \in {n, GotoOf(n), WideOf(n)} \/ visited[m]]
            /\ op' = [op EXCEPT ![GotoOf(n)] = "goto", ![WideOf(n)] = "goto_w"]
            /\ target' = [target EXCEPT ![n] = WideOf(n), ![GotoOf(n)] = next[n], ![WideOf(n)] = target[n]]
        BY <3>2 DEF VisitFarCond
      <4>2. \A m \in Emitted : m \in Node /\ m \notin {GotoOf(n), WideOf(n)}
        BY InsertedFacts
      <4>3. n \in Node /\ GotoOf(n) \in Node /\ WideOf(n) \in Node
        BY InsertedFacts
      <4>4. \A m \in Emitted : visited'[m] <=> m = n \/ visited[m]
        BY <4>1, <4>2
      <4>5. \A m \in Emitted : op'[m] = op[m] /\ (m # n => target'[m] = target[m])
        BY <4>1, <4>2, <4>3, <1>t DEF EncodingType
      <4> QED BY <4>4, <4>5
    <3> QED BY <1>6, <3>1, <3>2
  <2>4. /\ EnterIf(next[n]) \in Seq(Frame) /\ <<Enter(x)>> \in Seq(Frame)
    <3>1. next[n] \in NodeOrNone /\ x \in Node
      BY <1>n, <1>t, <2>2 DEF GraphType
    <3> HIDE DEF x
    <3>2. EnterIf(next[n]) \in Seq(Frame)
      BY <3>1, EnterIfType
    <3> QED BY <3>1, <3>2, FrameAlone, FrameFields
  <2>5. p \in Seq(Frame) /\ F = Elems(EnterIf(next[n])) \cup {Enter(x)}
    <3> DEFINE q == <<Enter(x)>>
               r == EnterIf(next[n])
    <3>1. Elems(q) = {Enter(x)} /\ p = r \o q
      BY ElemsOne
    <3>2. q \in Seq(Frame) /\ r \in Seq(Frame)
      BY <2>4
    <3> HIDE DEF q, r, p
    <3>3. p \in Seq(Frame)
      BY <3>1, <3>2, FramesJoined
    <3>4. Elems(p) = Elems(r) \cup Elems(q)
      BY <3>1, <3>2, ElemsConcat
    <3> QED BY <3>1, <3>3, <3>4 DEF r
  <2>6. work' = p \o Tail(work)
    BY <2>1
  <2> HIDE DEF p
  <2>7. Elems(work') = F \cup Elems(Tail(work))
    BY <1>t, <1>v, <2>1, <2>5, <2>6, ElemsReplaced
  <2>8. Succ(n) = ({next[n]} \ {None}) \cup {x}
    BY <1>n, <1>v, <2>1, <2>2, SuccOf DEF Succ
  <2>9. F = {Enter(y) : y \in Succ(n)}
    BY <1>n, <2>2, <2>5, <2>8, ElemsEnterIf
  <2>10. \A h \in F : FrameOK(h)'
    BY <1>e, <1>v, <2>1, <2>3, <2>9
  <2> HIDE DEF F
  <2> QED BY <1>v, <2>1, <2>3, <2>7, <2>9, <2>10, SearchVisit
<1>7. ASSUME NEW n \in Emitted, op[n] \in JumpOps
      PROVE  /\ AfterJsr(n) \in Seq(Frame)
             /\ Elems(AfterJsr(n)) = IF op[n] \in {"jsr", "jsr_w"} THEN {After(n)} ELSE {}
             /\ Succ(n) = ({Dest(n)} \ {None}) \cup Falls(n)
             /\ op[n] \notin {"jsr", "jsr_w"} => Falls(n) = {}
  <2>1. op[n] \in {"jsr", "jsr_w"} \/ op[n] \in {"goto", "goto_w"}
    BY <1>7 DEF JumpOps
  <2>2. Succ(n) = ({Dest(n)} \ {None}) \cup Falls(n) /\ (op[n] \notin {"jsr", "jsr_w"} => Falls(n) = {})
    BY <2>1, SuccOf DEF Succ
  <2>3. CASE op[n] \in {"jsr", "jsr_w"}
    <3>1. AfterJsr(n) = <<After(n)>>
      BY <2>3 DEF AfterJsr
    <3>2. AfterJsr(n) \in Seq(Frame)
      BY <1>n, <3>1, FrameFields, FrameAlone
    <3> QED BY <2>2, <2>3, <3>1, <3>2, ElemsOne
  <2>4. CASE op[n] \notin {"jsr", "jsr_w"}
    <3>1. AfterJsr(n) = <<>>
      BY <2>4 DEF AfterJsr
    <3> QED BY <2>2, <2>4, <3>1, ElemsNone
  <2> QED BY <2>3, <2>4
<1>8. ASSUME NEW n \in Emitted, VisitLostJump(n) PROVE SearchInv'
  <2> DEFINE F == Elems(AfterJsr(n))
  <2>1. /\ Visit(n) /\ op[n] \in JumpOps /\ JumpDest(n) = None /\ work' = AfterJsr(n) \o Tail(work)
        /\ visited' = [visited EXCEPT ![n] = TRUE] /\ UNCHANGED <<op, target>>
    BY <1>8 DEF VisitLostJump, encoding
  <2>2. Elems(work') = F \cup Elems(Tail(work))
    BY <1>t, <1>v, <1>7, <2>1, ElemsReplaced
  <2>3. Lost(n)'
    BY <2>1 DEF Lost, JumpDest
  <2>4. \A h \in F : FrameOK(h)'
    <3>1. \A h \in F : h = After(n) /\ op[n] \in {"jsr", "jsr_w"}
      BY <1>7, <2>1
    <3>2. op[n] \in {"jsr", "jsr_w"} => FrameOK(After(n))'
      BY <1>g, <1>o, <1>s, <1>v, <2>1 DEF FrameOK, After
    <3> QED BY <3>1, <3>2 DEF After
  <2>5. \A x \in Succ(n) : x = Dest(n) \/ (After(n) \in F /\ x \in Falls(n))
    BY <1>7, <2>1
  <2> HIDE DEF F
  <2> QED BY <1>o, <1>v, <2>1, <2>2, <2>3, <2>4, <2>5, SearchVisit
<1>9. ASSUME NEW n \in Emitted, VisitJump(n) PROVE SearchInv'
  <2> DEFINE d == JumpDest(n)
             p == <<Enter(d)>> \o AfterJsr(n)
             F == Elems(p)
             o == IF TooFar(op[n], pc[d], pc[n]) THEN (IF op[n] = "goto" THEN "goto_w" ELSE "jsr_w") ELSE op[n]
  <2>1. /\ Visit(n) /\ op[n] \in JumpOps /\ d # None /\ work' = <<Enter(d)>> \o AfterJsr(n) \o Tail(work)
        /\ visited' = [visited EXCEPT ![n] = TRUE]
        /\ op' = [op EXCEPT ![n] = o] /\ target' = [target EXCEPT ![n] = d]
    BY <1>9 DEF VisitJump
  <2>2. d = Dest(n) /\ d \in Emitted
    BY <1>v, <2>1, JumpDestFacts DEF EmittedOrNone
  <2>3. op[n] \in {"jsr", "jsr_w"} => o \in {"jsr", "jsr_w"}
    BY DEF TooFar
  <2>5. p \in Seq(Frame) /\ F = {Enter(d)} \cup Elems(AfterJsr(n)) /\ work' = p \o Tail(work)
    <3> DEFINE q == <<Enter(d)>>
               r == AfterJsr(n)
    <3>1. Elems(q) = {Enter(d)} /\ p = q \o r /\ work' = p \o Tail(work)
      BY <2>1, ElemsOne
    <3>2. d \in Node
      BY <1>n, <2>2
    <3> HIDE DEF d
    <3>3. q \in Seq(Frame) /\ r \in Seq(Frame)
      BY <1>7, <2>1, <3>2, FrameFields, FrameAlone
    <3> HIDE DEF q, r, p
    <3>4. p \in Seq(Frame)
      BY <3>1, <3>3, FramesJoined
    <3>5. Elems(p) = Elems(q) \cup Elems(r)
      BY <3>1, <3>3, ElemsConcat
    <3> QED BY <3>1, <3>4, <3>5 DEF r
  <2> HIDE DEF p, d, o
  <2>6. Elems(work') = F \cup Elems(Tail(work))
    BY <1>t, <1>v, <2>1, <2>5, ElemsReplaced
  <2>7. /\ op'[n] = o /\ \A m \in Emitted : m # n => op'[m] = op[m] /\ target'[m] = target[m]
    BY <1>n, <2>1, <1>t DEF EncodingType
  <2>8. visited'[n] /\ \A m \in Emitted : visited'[m] <=> visited[m] \/ m = n
    BY <1>o, <2>1
  <2>9. \A h \in F : FrameOK(h)'
    <3>1. d \in Succ(n)
      BY <1>n, <1>7, <2>1, <2>2
    <3>2. \A x \in Succ(n) : FrameOK(Enter(x))'
      BY <1>e, <1>v, <2>1, <2>8
    <3>3. op[n] \in {"jsr", "jsr_w"} => FrameOK(After(n))'
      BY <1>s, <1>v, <2>1, <2>3, <2>7, <2>8 DEF FrameOK, After
    <3>4. F \subseteq {Enter(x) : x \in Succ(n)} \cup {h \in {After(n)} : op[n] \in {"jsr", "jsr_w"}}
      BY <1>7, <2>1, <2>5, <3>1
    <3> QED BY <3>2, <3>3, <3>4
  <2>10. \A x \in Succ(n) : Enter(x) \in F \/ (After(n) \in F /\ x \in Falls(n))
    BY <1>7, <2>1, <2>2, <2>5
  <2> HIDE DEF F
  <2> QED BY <1>v, <2>1, <2>6, <2>7, <2>8, <2>9, <2>10, SearchVisit
<1>10. ASSUME NEW n \in Emitted, VisitSwitch(n) PROVE SearchInv'
  <2> DEFINE o == IF Span(n) - entries[n] > FillThresh THEN "lookupswitch" ELSE "tableswitch"
             f == Cases(n, low[n])
             F == {f}
  <2>1. /\ Visit(n) /\ op[n] \in SwitchOps /\ work' = <<f>> \o Tail(work)
        /\ visited' = [visited EXCEPT ![n] = TRUE]
        /\ op' = [op EXCEPT ![n] = o] /\ UNCHANGED target /\ o \in SwitchOps
    BY <1>10 DEF VisitSwitch, SwitchOps
  <2>2. low[n] \in Int /\ f.at = "cases" /\ f.node = n /\ f.from = low[n]
    BY <1>n, <1>t DEF LinksType, Cases
  <2>3. <<f>> \in Seq(Frame)
    BY <1>n, <2>2, FrameFields
  <2> HIDE DEF f, o
  <2>4. Elems(work') = F \cup Elems(Tail(work))
    BY <1>t, <1>v, <2>1, <2>3, ElemsReplaced, ElemsOne
  <2>5. /\ op'[n] = o /\ \A m \in Emitted : m # n => op'[m] = op[m] /\ target'[m] = target[m]
    BY <1>n, <2>1, <1>t DEF EncodingType
  <2>6. visited'[n] /\ \A m \in Emitted : visited'[m] <=> visited[m] \/ m = n
    BY <1>o, <2>1
  <2>7. \A h \in F : FrameOK(h)'
    <3>1. \A h \in F : h.at = "cases" /\ h.node = n
      BY <2>2
    <3>2. Emitted' = Emitted /\ n \in Emitted /\ visited'[n] /\ op'[n] \in SwitchOps
      BY <1>s, <1>v, <2>1, <2>5, <2>6
    <3> HIDE DEF F, Emitted
    <3> QED BY <3>1, <3>2 DEF FrameOK
  <2>8. \A x \in Succ(n) : CaseWaits(n, x, F)
    <3>1. \A x \in Succ(n) : x = dflt[n] \/ \E e \in cases[n] : e[2] = x
      BY <2>1, SuccOf DEF Succ
    <3>2. \A e \in cases[n] : e[1] >= low[n]
      <4>1. \A e \in cases[n] : low[n] <= e[1]
        BY DEF CasesInv, CasesOf
      <4>2. \A e \in cases[n] : e[1] \in Int
        <5>1. cases[n] \subseteq CaseNum \X Client
          BY <1>n, <1>t DEF LinksType
        <5>2. \A e \in CaseNum \X Client : e[1] \in Int
          OBVIOUS
        <5> QED BY <5>1, <5>2
      <4> QED BY <2>2, <4>1, <4>2
    <3> QED BY <2>2, <3>1, <3>2 DEF CaseWaits, CaseLeft
  <2> QED BY <1>v, <2>1, <2>4, <2>5, <2>6, <2>7, <2>8, SearchVisit
<1>11. ASSUME NEW n \in Emitted, ReturnFromJsr(n) PROVE SearchInv'
  <2>1. /\ phase = "traverse" /\ phase' = "traverse" /\ Head(work) = After(n) /\ work # <<>>
        /\ work' = EnterIf(next[n]) \o Tail(work) /\ UNCHANGED <<entered, visited, op, target>>
    BY <1>11 DEF ReturnFromJsr, Top, encoding
  <2>2. GraphFixed
    BY <1>g, <2>1 DEF Fixed
  <2> DEFINE f == After(n)
             R == Elems(Tail(work))
             F == Elems(EnterIf(next[n]))
  <2>3. Elems(work) = {f} \cup R /\ Elems(work') = F \cup R
    <3>1. EnterIf(next[n]) \in Seq(Frame)
      BY <1>n, <1>t, EnterIfType DEF GraphType
    <3> QED BY <1>t, <2>1, <3>1, ElemsReplaced
  <2>4. \A m : f # Enter(m) /\ f.at # "cases" /\ (f = After(m) => m = n)
    BY DEF Enter, After
  <2>5. visited[n] /\ op[n] \in {"jsr", "jsr_w"}
    <3>1. f \in Elems(work)
      BY <2>3
    <3>2. FrameOK(f)
      BY <2>1, <3>1 DEF SearchInv
    <3> QED BY <2>4, <3>2 DEF FrameOK, Entering
  <2>6. Direct(n)
    BY <2>5 DEF GraphInv, Widened
  <2>7. Falls(n) = {next[n]} \ {None} /\ Falls(n) \subseteq Succ(n)
    BY <2>5, <2>6, DirectFacts, SuccOf DEF Succ
  <2>8. F = {Enter(x) : x \in Falls(n)}
    BY <2>7, ElemsEnterIf
  <2>9. \A h \in F : FrameOK(h)'
    BY <1>e, <2>1, <2>2, <2>5, <2>7, <2>8
  <2>10. /\ \A m \in Emitted : visited[m] => visited'[m] /\ op'[m] = op[m] /\ target'[m] = target[m]
         /\ \A x \in Emitted : f = Enter(x) => visited'[x]
         /\ \A m \in Emitted : f = After(m) => \A x \in Falls(m) : Enter(x) \in F
         /\ \A m \in Emitted : f.at # "cases"
         /\ \A m \in Emitted : ~ (visited'[m] /\ ~ visited[m])
    BY <2>1, <2>4, <2>8
  <2> HIDE DEF f, R, F
  <2> QED BY <2>1, <2>2, <2>3, <2>9, <2>10, SearchStep
<1>12. ASSUME NEW n \in Emitted, NEW from, Top(Cases(n, from)), work # <<>>
       PROVE  /\ phase = "traverse" /\ GraphFixed
              /\ from \in Int /\ visited[n] /\ op[n] \in SwitchOps /\ Elems(work) = {Cases(n, from)} \cup Elems(Tail(work))
              /\ dflt[n] \in Succ(n) /\ dflt[n] \in Node
  <2>1. /\ phase = "traverse" /\ Head(work) = Cases(n, from) /\ Fixed
    BY <1>12 DEF Top, Fixed
  <2>2. Elems(work) = {Cases(n, from)} \cup Elems(Tail(work))
    BY <1>12, <1>t, <2>1, ElemsHead DEF WalkType
  <2>3. Cases(n, from) \in Frame
    BY <1>12, <1>t, <2>1, TailType
  <2>4. from \in Int
    BY <2>3 DEF Cases, Frame
  <2>5. FrameOK(Cases(n, from))
    BY <2>1, <2>2 DEF SearchInv
  <2>6. visited[n] /\ op[n] \in SwitchOps
    BY <2>5 DEF FrameOK, Entering, Enter, After, Cases
  <2>7. dflt[n] \in Client /\ dflt[n] # None
    BY <1>n, <1>t, <2>1, <2>6 DEF TypeInv, LinksOK, Linked, LinksType
  <2>8. dflt[n] \in Succ(n) /\ dflt[n] \in Node
    BY <2>6, <2>7, SuccOf DEF Succ
  <2> QED BY <1>g, <2>1, <2>2, <2>4, <2>6, <2>8
<1>13. ASSUME NEW n \in Emitted, NEW from, DefaultCase(n, from), work # <<>> PROVE SearchInv'
  <2>1. /\ Top(Cases(n, from)) /\ phase' = "traverse"
        /\ work' = <<Enter(dflt[n])>> \o Tail(work) /\ UNCHANGED <<entered, visited, op, target>>
        /\ \A c \in SortedNumbers(n) : c < from
    BY <1>13 DEF DefaultCase, Top, encoding, analysis
  <2> DEFINE f == Cases(n, from)
             R == Elems(Tail(work))
             x == dflt[n]
             F == {Enter(x)}
  <2>2. Elems(work) = {f} \cup R /\ Elems(work') = F \cup R
    <3>1. x \in Node
      BY <1>12, <1>13, <2>1
    <3> HIDE DEF x
    <3>2. <<Enter(x)>> \in Seq(Frame)
      BY <3>1, FrameFields, FrameAlone
    <3> QED BY <1>t, <1>12, <1>13, <2>1, <3>2, ElemsReplaced, ElemsOne DEF x
  <2>3. /\ \A m : f # Enter(m) /\ f # After(m) /\ (f.node = m => m = n)
        /\ f.from = from
    BY DEF Enter, After, Cases
  <2>4. \A h \in F : FrameOK(h)'
    <3>1. \A y \in Succ(n) : FrameOK(Enter(y))'
      BY <1>e, <1>12, <1>13, <2>1
    <3>2. F \subseteq {Enter(y) : y \in Succ(n)}
      BY <1>12, <1>13, <2>1
    <3> QED BY <3>1, <3>2
  <2>5. \A y : CaseLeft(n, from, y) => y = x
    <3>1. \A e \in cases[n] : e[1] \in SortedNumbers(n) /\ e[1] \in Int
      BY CaseNumbers
    <3>2. \A e \in cases[n] : ~ (e[1] >= from)
      BY <1>12, <1>13, <2>1, <3>1
    <3> QED BY <3>2 DEF CaseLeft
  <2>6. /\ \A m \in Emitted : visited[m] => visited'[m] /\ op'[m] = op[m] /\ target'[m] = target[m]
        /\ \A m \in Emitted : f # Enter(m) /\ f # After(m)
        /\ \A m \in Emitted : f.node = m => \A y : CaseLeft(m, f.from, y) => Enter(y) \in F
        /\ \A m \in Emitted : ~ (visited'[m] /\ ~ visited[m])
    BY <2>1, <2>3, <2>5
  <2>7. phase = "traverse" /\ GraphFixed
    BY <1>12, <1>13, <2>1
  <2> HIDE DEF f, R, F
  <2> QED BY <2>1, <2>2, <2>4, <2>6, <2>7, SearchStep, ZenonT(60)
<1>14. ASSUME NEW n \in Emitted, NEW from, NEW c \in SortedNumbers(n), NextCase(n, from, c), work # <<>>
       PROVE  SearchInv'
  <2> DEFINE f == Cases(n, from)
             g == Cases(n, c + 1)
             R == Elems(Tail(work))
             x == CaseDest(n, c)
             p == <<Enter(x), g>>
             F == {Enter(x), g}
  <2>1. /\ Top(f) /\ phase' = "traverse" /\ c >= from
        /\ \A d \in SortedNumbers(n) : d >= from => c <= d
        /\ work' = p \o Tail(work) /\ UNCHANGED <<entered, visited, op, target>>
    BY <1>14 DEF NextCase, Top, encoding
  <2>2. /\ phase = "traverse" /\ GraphFixed /\ Fixed /\ visited[n] /\ op[n] \in SwitchOps /\ from \in Int
        /\ Elems(work) = {f} \cup R
    BY <1>12, <1>14, <2>1 DEF Fixed
  <2>3. c \in Int
    BY <1>n, SortedNumbersType DEF TypeInv
  <2>4. x \in Succ(n) /\ x \in Node
    <3>1. x \in Client /\ x # None
      BY <2>2, CaseDestType
    <3>2. x = dflt[n] \/ <<c, x>> \in cases[n]
      BY DEF CaseDest
    <3>3. x \in ({dflt[n]} \cup {e[2] : e \in cases[n]}) \ {None}
      BY <3>1, <3>2
    <3> QED BY <2>2, <3>1, <3>3, SuccOf DEF Succ
  <2>5. /\ \A m : f # Enter(m) /\ f # After(m) /\ (f.node = m => m = n)
        /\ f.from = from
        /\ g.at = "cases" /\ g.node = n /\ g.from = c + 1
    BY DEF Enter, After, Cases
  <2>6. \A y : CaseLeft(n, from, y) => y = x \/ CaseLeft(n, c + 1, y)
    <3> SUFFICES ASSUME NEW e \in cases[n], e[1] >= from PROVE e[2] = x \/ e[1] >= c + 1
      BY DEF CaseLeft
    <3>1. e[1] \in SortedNumbers(n) /\ e[1] \in Int
      BY CaseNumbers
    <3>2. e[1] >= c
      BY <2>1, <2>3, <3>1
    <3>3. CASE e[1] = c
      <4>1. e = <<c, e[2]>> /\ e[2] \in Client
        BY <1>n, <1>t, <3>3, SMTT(30) DEF LinksType
      <4>2. <<c, x>> \in cases[n]
        BY <4>1 DEF CaseDest
      <4> HIDE DEF x
      <4>3. <<c, x>>[1] = e[1] /\ <<c, x>>[2] = x
        BY <3>3
      <4> QED BY <4>2, <4>3 DEF CasesInv, CasesOf
    <3> QED BY <2>3, <3>1, <3>2, <3>3
  <2>7. /\ Enter(x) \in Frame /\ g \in Frame
    BY <1>n, <2>3, <2>4, FrameFields
  <2> HIDE DEF f, g, x
  <2>8. p \in Seq(Frame) /\ Elems(p) = F
    BY <2>7 DEF Elems
  <2> HIDE DEF p
  <2>9. Elems(work') = F \cup R
    BY <1>t, <1>14, <2>1, <2>8, ElemsReplaced
  <2>10. \A h \in F : FrameOK(h)'
    <3>1. \A y \in Succ(n) : FrameOK(Enter(y))'
      BY <1>e, <2>1, <2>2
    <3>2. Emitted' = Emitted /\ n \in Emitted /\ visited'[n] /\ op'[n] \in SwitchOps
      BY <1>s, <2>1, <2>2
    <3>3. \A h \in {g} : FrameOK(h)'
      <4>1. \A h \in {g} : h.at = "cases" /\ h.node = n
        BY <2>5
      <4> HIDE DEF Emitted
      <4> QED BY <3>2, <4>1 DEF FrameOK
    <3>4. F \subseteq {Enter(y) : y \in Succ(n)} \cup {g}
      BY <2>4
    <3> QED BY <3>1, <3>3, <3>4
  <2>11. \A y : CaseLeft(n, from, y) => Enter(y) \in F \/ CaseWaits(n, y, F)
    <3>1. g \in F
      OBVIOUS
    <3> HIDE DEF F
    <3>2. \A y : CaseLeft(n, c + 1, y) => CaseWaits(n, y, F)
      BY <2>5, <3>1 DEF CaseWaits
    <3> QED BY <2>6, <3>2 DEF F
  <2>12. /\ \A m \in Emitted : visited[m] => visited'[m] /\ op'[m] = op[m] /\ target'[m] = target[m]
         /\ \A m \in Emitted : f # Enter(m) /\ f # After(m)
         /\ \A m \in Emitted : f.node = m => \A y : CaseLeft(m, f.from, y) => Enter(y) \in F \/ CaseWaits(m, y, F)
         /\ \A m \in Emitted : ~ (visited'[m] /\ ~ visited[m])
    BY <2>1, <2>5, <2>11
  <2> HIDE DEF R, F
  <2> QED BY <2>1, <2>2, <2>9, <2>10, <2>12, SearchStep, ZenonT(60)
<1>15. CASE EnterHandler
  <2>1. /\ phase = "traverse" /\ phase' = "traverse" /\ work = <<>> /\ entered < Len(handlers)
        /\ work' = <<Enter(handlers[entered + 1].target)>> /\ entered' = entered + 1
        /\ UNCHANGED <<visited, op, target>>
    BY <1>15 DEF EnterHandler, encoding
  <2>2. GraphFixed /\ UNCHANGED <<used, handlers, cases, dflt>> /\ Emitted' = Emitted
    BY <1>g, <1>s, <2>1 DEF Fixed, GraphFixed
  <2>3. /\ entered \in Nat /\ Len(handlers) \in Nat /\ entered + 1 <= Len(handlers)
        /\ entered + 1 \in 1..Len(handlers)
    BY <1>t, <2>1 DEF WalkType, LinksType
  <2> DEFINE t == handlers[entered + 1].target
             f == Enter(t)
  <2>4. t \in Emitted /\ t \in Entries(Len(handlers))
    BY <2>3 DEF OrderInv, Entries
  <2>5. Elems(work) = {} /\ Elems(work') = {f}
    BY <2>1, ElemsOne, ElemsNone
  <2>6. Entries(entered)' = Entries(entered) \cup {t}
    <3>1. 1..(entered + 1) = (1..entered) \cup {entered + 1}
      BY <2>3
    <3> QED BY <2>1, <2>2, <3>1 DEF Entries
  <2>7. \A h \in {f} : FrameOK(h)'
    <3>1. Entries(Len(handlers))' = Entries(Len(handlers))
      BY <2>2 DEF Entries
    <3>2. \A y \in Emitted : y \in Entries(Len(handlers)) => \A h \in {Enter(y)} : FrameOK(h)'
      <4> HIDE DEF Emitted
      <4> QED BY <2>2, <3>1 DEF FrameOK, Entering, Enter
    <3> QED BY <2>4, <3>2
  <2>8. \A m \in Emitted : visited'[m] => \A y \in Succ(m) : Covered(m, y)'
    <3> SUFFICES ASSUME NEW m \in Emitted, visited[m], NEW y \in Succ(m) PROVE Covered(m, y)'
      BY <2>1
    <3>1. Covered(m, y)
      BY <2>1 DEF SearchInv
    <3>2. visited[y] \/ (Lost(m) /\ y = Dest(m))
      BY <2>5, <3>1 DEF Covered, CaseWaits
    <3>3. Dest(m)' = Dest(m)
      BY <2>2 DEF GraphFixed
    <3> QED BY <2>1, <3>2, <3>3 DEF Covered, Lost
  <2>9. \A y \in Entries(entered) : visited[y]
    BY <2>1, <2>5 DEF SearchInv
  <2>10. \A y \in Entries(entered)' : visited'[y] \/ Enter(y) \in Elems(work')
    BY <2>1, <2>5, <2>6, <2>9
  <2> HIDE DEF f
  <2>11. \A m \in Emitted' : visited'[m] => \A y \in Succ(m)' : Covered(m, y)'
    <3>1. \A m \in Emitted : Succ(m)' = Succ(m)
      BY <1>s, <2>2
    <3> HIDE DEF Emitted
    <3> QED BY <2>2, <2>8, <3>1
  <2>12. Enter(1)' = Enter(1) /\ \A y : Enter(y)' = Enter(y)
    BY DEF Enter
  <2>13. used' > 0 /\ ~ Building'
    BY <2>1, <2>2 DEF SearchInv, Building
  <2> QED BY <2>1, <2>2, <2>3, <2>5, <2>7, <2>10, <2>11, <2>12, <2>13 DEF SearchInv
<1>16. CASE Relocate
  <2>1. phase' # "traverse" /\ ~ Building'
    BY <1>16 DEF Relocate, Succeed, StartLayout, LayoutInstr, StartOffsets, RecalcOffset, EndOffsets, TraversalDone,
                 Building
  <2> QED BY <2>1 DEF SearchInv
<1>17. CASE UNCHANGED vars
  <2>1. /\ UNCHANGED <<phase, used, handlers, visited, entered, work, cases, dflt, op, target, next, ins, label, labelled>>
    BY <1>17 DEF vars, graph, links, encoding, analysis, walk
  <2> QED BY <2>1
      DEF SearchInv, Building, FrameOK, Entering, Entries, Covered, CaseWaits, CaseLeft, Lost, Succ, Branches, Falls,
          Dest, Fall, Inserted
<1>18. CASE Traverse
  <2>1. ASSUME NEW n \in Emitted, DefaultCase(n, Head(work).from) PROVE SearchInv'
    BY <1>13, <2>1 DEF DefaultCase, Top
  <2>2. ASSUME NEW n \in Emitted, NEW c \in SortedNumbers(n), NextCase(n, Head(work).from, c) PROVE SearchInv'
    BY <1>14, <2>2 DEF NextCase, Top
  <2> QED BY <1>3, <1>4, <1>5, <1>6, <1>8, <1>9, <1>10, <1>11, <1>15, <1>18, <2>1, <2>2 DEF Traverse
<1> QED BY <1>1, <1>2, <1>16, <1>17, <1>18 DEF Next, Finalizing, Terminated

(* Nothing that follows a visited node is forgotten.                         *)
LEMMA SearchInvCorrect == Spec => []SearchInv
  BY InitSearch, NextSearch, TypeInvCorrect, CodeInvCorrect, OrderInvCorrect, PcInvCorrect, GraphInvCorrect,
     CasesInvCorrect, PTL DEF Spec
-----------------------------------------------------------------------------
(* The traversal implements the search. *)

(* What CodeSearch sees of a method. *)
Edges   == IF Fixed THEN {e \in Emitted \X Emitted : e[2] \in Succ(e[1])} ELSE {}
Roots   == IF Fixed /\ code # <<>> THEN {1} \cup {handlers[k].target : k \in 1..Len(handlers)} ELSE {}
Reached == {n \in Client : visited[n]}
Status  == IF ~ Fixed THEN "fixing" ELSE IF phase = "traverse" \/ code = <<>> THEN "searching" ELSE "closed"

(* The code is empty as long as the client has created no node.             *)
LEMMA CodeEmpty == TypeInv /\ CodeInv => (code = <<>> <=> used = 0)
<1> SUFFICES ASSUME TypeInv, CodeInv PROVE code = <<>> <=> used = 0
  OBVIOUS
<1>t. code \in Seq(Node) /\ used \in Nat
  BY DEF TypeInv, TypeOK, GraphType
<1>1. ASSUME used = 0, code # <<>> PROVE FALSE
  <2>1. 1 \in 1..Len(code)
    BY <1>t, <1>1
  <2>2. Emitted = {}
    BY <1>1
  <2> QED BY <2>1, <2>2 DEF CodeInv, Origin
<1>2. ASSUME used # 0, code = <<>> PROVE FALSE
  <2>1. 1 \in Emitted
    BY <1>t, <1>2
  <2> QED BY <1>2, <2>1 DEF TypeInv, InCode
<1> QED BY <1>1, <1>2

(* Until traverse_code is called, only the client acts.                     *)
LEMMA FixingSteps ==
  ASSUME ~ Fixed, [Next]_vars
  PROVE  Build \/ UNCHANGED vars
<1>1. phase \in {"append", "link"}
  BY DEF Fixed
<1>2. ~ Traverse
  BY <1>1, ZenonT(60)
  DEF Traverse, EnterVisited, VisitPlain, VisitReturn, VisitJump, VisitLostJump, ReturnFromJsr,
      VisitCond, VisitFarCond, VisitSwitch, DefaultCase, NextCase, EnterHandler, Visit, Top
<1>3. ~ Relocate
  BY <1>1
  DEF Relocate, Succeed, StartLayout, LayoutInstr, StartOffsets, RecalcOffset, EndOffsets, TraversalDone
<1> QED BY <1>1, <1>2, <1>3 DEF Next, Finalizing, Terminated

(* Once the graph is fixed, a step visits a node, ends the traversal, or    *)
(* changes nothing the search sees.                                         *)
LEMMA FixedSteps ==
  ASSUME TypeInv, Fixed, [Next]_vars
  PROVE  /\ Fixed'
         /\ \/ UNCHANGED visited /\ (phase' = "traverse" <=> phase = "traverse")
            \/ TraversalDone /\ phase' # "traverse" /\ UNCHANGED visited
            \/ /\ phase = "traverse" /\ phase' = "traverse"
               /\ \E n \in Emitted : Visit(n) /\ \A m \in Client : visited'[m] <=> visited[m] \/ m = n
<1>t. GraphType /\ AnalysisType
  BY DEF TypeInv, TypeOK
<1>n. \A n \in Emitted : n \in Node /\ n \in Client
  BY <1>t DEF GraphType
<1>1. ~ Build
  <2>1. phase \notin {"append", "link"}
    BY DEF Fixed
  <2> QED BY <2>1
      DEF Build, OverwritePlaceholder, AppendInstr, StartLinking, SetBranchTarget, AddSwitchDefault,
          SetBranchLabel, AssociateLabel, AddSwitchCase, AddHandler, StartTraverse, Linking, AllLinked
<1>2. CASE Traverse
  <2>1. ASSUME NEW n \in Emitted, Visit(n), visited' = [visited EXCEPT ![n] = TRUE]
        PROVE  /\ phase = "traverse" /\ phase' = "traverse"
               /\ Visit(n) /\ \A m \in Client : visited'[m] <=> visited[m] \/ m = n
    <3>1. \A m \in Client : m \in Node
      OBVIOUS
    <3> QED BY <1>n, <1>t, <2>1, <3>1 DEF AnalysisType, Visit, Top
  <2>2. ASSUME NEW n \in Emitted, VisitFarCond(n)
        PROVE  /\ phase = "traverse" /\ phase' = "traverse"
               /\ Visit(n) /\ \A m \in Client : visited'[m] <=> visited[m] \/ m = n
    <3>1. Visit(n) /\ visited' = [m \in Node |-> m \in {n, GotoOf(n), WideOf(n)} \/ visited[m]]
      BY <2>2 DEF VisitFarCond
    <3>2. \A m \in Client : m \in Node /\ m \notin {GotoOf(n), WideOf(n)}
      BY InsertedFacts
    <3> QED BY <3>1, <3>2 DEF Visit, Top
  <2>3. ASSUME NEW n \in Emitted,
               \/ EnterVisited(n) \/ ReturnFromJsr(n) \/ DefaultCase(n, Head(work).from)
               \/ \E c \in SortedNumbers(n) : NextCase(n, Head(work).from, c)
        PROVE  UNCHANGED visited /\ phase = "traverse" /\ phase' = "traverse"
    BY <2>3 DEF EnterVisited, ReturnFromJsr, DefaultCase, NextCase, Top, analysis
  <2>4. CASE EnterHandler
    BY <2>4 DEF EnterHandler, Fixed
  <2>5. ASSUME NEW n \in Emitted,
               VisitPlain(n) \/ VisitReturn(n) \/ VisitJump(n) \/ VisitLostJump(n) \/ VisitCond(n) \/ VisitSwitch(n)
        PROVE  Visit(n) /\ visited' = [visited EXCEPT ![n] = TRUE]
    BY <2>5 DEF VisitPlain, VisitReturn, VisitJump, VisitLostJump, VisitCond, VisitSwitch
  <2> QED BY <1>2, <2>1, <2>2, <2>3, <2>4, <2>5 DEF Traverse, Fixed
<1>3. CASE Relocate
  BY <1>3 DEF Relocate, Succeed, StartLayout, LayoutInstr, StartOffsets, RecalcOffset, EndOffsets, TraversalDone,
              analysis, Fixed
<1>4. CASE UNCHANGED vars
  BY <1>4 DEF vars, analysis, Fixed
<1> QED BY <1>1, <1>2, <1>3, <1>4 DEF Next, Finalizing, Terminated

(* Every jump that was visited and whose label is associated has found its  *)
(* target.                                                                  *)
Resolved ==
  \A n \in Emitted : visited[n] /\ op[n] \in JumpOps /\ Dest(n) # None => target[n] # None

(* As it ends, the traversal has reached all there is to reach.             *)
LEMMA SearchClosed ==
  ASSUME TypeInv, GraphInv, CasesInv, SearchInv, TraversalDone, Resolved
  PROVE  /\ used > 0
         /\ \A x \in Entries(Len(handlers)) : visited[x]
         /\ \A m \in Emitted : visited[m] => \A x \in Succ(m) : visited[x]
<1>1. phase = "traverse" /\ Elems(work) = {} /\ entered = Len(handlers)
  BY ElemsNone DEF TraversalDone
<1>2. ASSUME NEW m \in Emitted, visited[m], NEW x \in Succ(m) PROVE visited[x]
  <2>1. Covered(m, x) /\ x # None
    BY <1>1, <1>2, SuccEmitted DEF SearchInv
  <2>2. visited[x] \/ (Lost(m) /\ x = Dest(m))
    BY <1>1, <2>1 DEF Covered, CaseWaits
  <2> QED BY <1>2, <2>1, <2>2 DEF Lost, Resolved
<1> QED BY <1>1, <1>2 DEF SearchInv

(* A step of the method's owner is a step of the search, or none. *)
LEMMA NextRefines ==
  ASSUME TypeInv, CodeInv, OrderInv, PcInv, GraphInv, CasesInv, SearchInv, Resolved,
         TypeInv', CodeInv', OrderInv', [Next]_vars
  PROVE  [Search!Next]_Search!vars
<1>t. GraphType /\ LinksType /\ AnalysisType /\ GraphType' /\ LinksType'
  BY DEF TypeInv, TypeOK
<1>n. Emitted \subseteq Client
  BY <1>t DEF GraphType
<1>e. (code = <<>> <=> used = 0) /\ (code' = <<>> <=> used' = 0)
  <2>1. (TypeInv /\ CodeInv => (code = <<>> <=> used = 0))'
    BY CodeEmpty, PTL
  <2> QED BY <2>1, CodeEmpty
<1>f. ~ Fixed => Build \/ UNCHANGED vars
  BY FixingSteps
<1>1. CASE ~ Fixed /\ ~ Fixed'
  <2>1. phase \in {"append", "link"} /\ phase' \in {"append", "link"}
    BY <1>1 DEF Fixed
  <2>2. UNCHANGED visited
    <3>1. CASE Build
      BY <3>1
      DEF Build, OverwritePlaceholder, AppendInstr, StartLinking, SetBranchTarget, AddSwitchDefault,
          SetBranchLabel, AssociateLabel, AddSwitchCase, AddHandler, StartTraverse, Linking, analysis
    <3>2. CASE UNCHANGED vars
      BY <3>2 DEF vars, analysis
    <3> QED BY <1>1, <1>f, <3>1, <3>2
  <2>3. Edges' = Edges /\ Roots' = Roots /\ Reached' = Reached /\ Status' = Status
    BY <1>1, <2>2 DEF Edges, Roots, Reached, Status
  <2> QED BY <2>3 DEF Search!vars, Edges, Roots, Reached, Status
<1>2. CASE ~ Fixed /\ Fixed'
  <2>1. StartTraverse
    <3>1. phase \in {"append", "link"} /\ phase' \notin {"append", "link"}
      BY <1>2 DEF Fixed
    <3>2. Build
      BY <1>2, <1>f, <3>1 DEF vars
    <3> QED BY <3>1, <3>2
        DEF Build, OverwritePlaceholder, AppendInstr, StartLinking, SetBranchTarget, AddSwitchDefault,
            SetBranchLabel, AssociateLabel, AddSwitchCase, AddHandler, Linking, AllLinked
  <2>2. Reached' = Reached
    BY <2>1 DEF StartTraverse, Reached
  <2>3. Edges' \subseteq Client \X Client
    <3>1. Emitted' \subseteq Client
      BY <1>t DEF GraphType
    <3>2. Edges' \subseteq Emitted' \X Emitted'
      BY DEF Edges
    <3> QED BY <3>1, <3>2
  <2>4. Roots' \subseteq Client
    <3>1. CASE code' = <<>>
      BY <3>1 DEF Roots
    <3>2. CASE code' # <<>>
      <4>1. used' # 0
        BY <1>e, <3>2
      <4>2. 1 \in Client
        BY <1>t, <4>1 DEF GraphType
      <4>3. \A k \in 1..Len(handlers') : handlers'[k].target \in Client
        BY <1>t DEF OrderInv, GraphType
      <4> QED BY <4>2, <4>3 DEF Roots
    <3> QED BY <3>1, <3>2
  <2>5. Status = "fixing" /\ Status' = "searching"
    BY <1>2, <2>1 DEF Status, StartTraverse, graph
  <2> QED BY <2>2, <2>3, <2>4, <2>5 DEF Search!Next, Search!Begin, Edges, Roots, Reached, Status
<1>3. CASE Fixed
  <2>1. Fixed' /\ GraphFixed
    BY <1>3, FixedSteps, FlowFixed
  <2>2. UNCHANGED <<used, handlers>> /\ Emitted' = Emitted /\ \A m \in Emitted : Succ(m)' = Succ(m)
    BY <2>1, SuccFixed DEF GraphFixed
  <2>3. code' = <<>> <=> code = <<>>
    BY <1>e, <2>2
  <2>4. Edges' = Edges
    <3>1. Edges' = {e \in Emitted \X Emitted : e[2] \in Succ(e[1])'}
      BY <2>1, <2>2 DEF Edges
    <3>2. \A e \in Emitted \X Emitted : e[1] \in Emitted
      OBVIOUS
    <3> QED BY <1>3, <2>2, <3>1, <3>2 DEF Edges
  <2>5. Roots' = Roots
    BY <1>3, <2>1, <2>2, <2>3 DEF Roots
  <2>6. CASE UNCHANGED visited /\ (phase' = "traverse" <=> phase = "traverse")
    <3>1. Reached' = Reached /\ Status' = Status
      BY <1>3, <2>1, <2>3, <2>6 DEF Reached, Status
    <3> QED BY <2>4, <2>5, <3>1 DEF Search!vars, Edges, Roots, Reached, Status
  <2>7. CASE TraversalDone /\ phase' # "traverse" /\ UNCHANGED visited
    <3>1. Reached' = Reached
      BY <2>7 DEF Reached
    <3>2. /\ used > 0 /\ \A x \in Entries(Len(handlers)) : visited[x]
          /\ \A m \in Emitted : visited[m] => \A x \in Succ(m) : visited[x]
      BY <2>7, SearchClosed
    <3>3. code # <<>>
      BY <3>2, CodeEmpty
    <3>4. Status = "searching" /\ Status' = "closed"
      BY <1>3, <2>1, <2>3, <2>7, <3>3 DEF Status, TraversalDone
    <3>5. Entries(Len(handlers)) \subseteq Emitted
      <4>1. phase = "traverse"
        BY <2>7 DEF TraversalDone
      <4> QED BY <4>1, EntriesEmitted
    <3>6. Roots \subseteq Reached
      BY <1>n, <3>2, <3>5 DEF Roots, Reached, Entries
    <3>7. \A e \in Edges : e[1] \in Reached => e[2] \in Reached
      BY <1>n, <3>2 DEF Edges, Reached
    <3> QED BY <2>4, <2>5, <3>1, <3>4, <3>6, <3>7
        DEF Search!Next, Search!Finish, Search!Closed, Edges, Roots, Reached, Status
  <2>8. ASSUME phase = "traverse", phase' = "traverse", NEW n \in Emitted, Visit(n),
               \A m \in Client : visited'[m] <=> visited[m] \/ m = n
        PROVE  [Search!Next]_Search!vars
    <3>1. Status = "searching" /\ Status' = "searching"
      BY <1>3, <2>1, <2>8 DEF Status
    <3>2. n \in Client /\ n \notin Reached /\ Reached' = Reached \cup {n}
      BY <1>n, <2>8 DEF Reached, Visit
    <3>3. Head(work) = Enter(n) /\ work # <<>>
      BY <2>8 DEF Visit, Top
    <3>4. Enter(n) \in Elems(work)
      BY <3>3, <1>t, ElemsHead DEF TypeInv, TypeOK, WalkType
    <3>5. FrameOK(Enter(n))
      BY <2>8, <3>4 DEF SearchInv
    <3>6. n \in Entries(Len(handlers)) \/ \E m \in Emitted : visited[m] /\ n \in Succ(m)
      BY <3>5 DEF FrameOK, Entering, Enter, After
    <3>7. code # <<>>
      BY <2>8, CodeEmpty DEF SearchInv
    <3>8. n \in Roots \/ \E m \in Reached : <<m, n>> \in Edges
      <4>1. CASE n \in Entries(Len(handlers))
        BY <1>3, <3>7, <4>1 DEF Roots, Entries
      <4>2. CASE \E m \in Emitted : visited[m] /\ n \in Succ(m)
        BY <1>3, <1>n, <4>2 DEF Edges, Reached
      <4> QED BY <3>6, <4>1, <4>2
    <3> QED BY <2>4, <2>5, <3>1, <3>2, <3>8
        DEF Search!Next, Search!Reach, Edges, Roots, Reached, Status
  <2> QED BY <1>3, <2>6, <2>7, <2>8, FixedSteps
<1> QED BY <1>1, <1>2, <1>3

(* As long as no reachable jump loses its label, the traversal with its     *)
(* recursion, its rewriting of the branches and its insertions is an        *)
(* exhaustive search of the control flow the client described.              *)
THEOREM SearchCorrect == Spec /\ []Resolved => SearchSpec
<1>1. Init => Search!Init
  BY DEF Init, Search!Init, Fixed
<1>2. TypeInv /\ CodeInv /\ OrderInv /\ PcInv /\ GraphInv /\ CasesInv /\ SearchInv /\ Resolved /\ TypeInv' /\ CodeInv'
        /\ OrderInv' /\ [Next]_vars => [Search!Next]_Search!vars
  BY NextRefines
<1> QED BY <1>1, <1>2, TypeInvCorrect, CodeInvCorrect, OrderInvCorrect, PcInvCorrect, GraphInvCorrect, CasesInvCorrect,
           SearchInvCorrect, PTL DEF Spec, SearchSpec, Search!Spec
-----------------------------------------------------------------------------
(* Labels. *)

(* Nothing has been inserted behind a conditional. *)
Unwidened == \A k \in 1..Len(code) : code[k] \in Emitted

(* Then bc_node_at_pc finds every node of the client at its address.        *)
LEMMA NodeFound ==
  ASSUME TypeInv, OrderInv, Ascending, Unwidened, NEW m \in Emitted
  PROVE  NodeAtPc(pc[m]) = m
<1>t. GraphType
  BY DEF TypeInv, TypeOK
<1>n. \A n \in Emitted : n \in Node /\ n \in Client /\ n \in Int
  BY <1>t DEF GraphType
<1> DEFINE p == pc[m]
           At(k) == pc[code[k]] = p /\ \A j \in 1..(k - 1) : pc[code[j]] < p
<1>1. PICK k \in 1..Len(code) : code[k] = m
  BY DEF TypeInv, InCode
<1>2. ASSUME NEW j \in 1..(k - 1) PROVE pc[code[j]] < p
  <2>1. j \in 1..Len(code) /\ j < k
    BY <1>t, <1>1 DEF GraphType
  <2>2. code[j] \in Emitted
    BY <2>1 DEF Unwidened
  <2>3. Owner(code[j]) < m
    BY <1>1, <1>n, <2>1 DEF OrderInv, Sorted
  <2>4. Owner(code[j]) = code[j]
    BY <1>n, <2>2, OwnerFacts
  <2> QED BY <1>1, <2>2, <2>3, <2>4 DEF Ascending
<1>3. At(k)
  BY <1>1, <1>2
<1>4. \E n \in Node : \E i \in 1..Len(code) :
         n = code[i] /\ pc[n] = p /\ \A j \in 1..(i - 1) : pc[code[j]] < p
  BY <1>1, <1>3, <1>n
<1>5. NodeAtPc(p) \in Node
  <2> HIDE DEF p
  <2> QED BY <1>3, <1>4 DEF NodeAtPc
<1> QED BY <1>5, NodeAtItsPc

ResolvedInv == Unwidened => Resolved

(* No jump has been visited before the traversal. *)
LEMMA InitResolved == Init => ResolvedInv
  BY DEF Init, ResolvedInv, Resolved

(* While nothing is inserted, every jump that is visited finds its label.   *)
LEMMA NextResolved ==
  TypeInv /\ CodeInv /\ CodeInv' /\ OrderInv /\ PcInv /\ GraphInv /\ ResolvedInv /\ TypeInv' /\ [Next]_vars => ResolvedInv'
<1> SUFFICES ASSUME TypeInv, CodeInv, CodeInv', OrderInv, PcInv, GraphInv, ResolvedInv, TypeInv', [Next]_vars
             PROVE  ResolvedInv'
  OBVIOUS
<1>t. GraphType /\ LinksType /\ EncodingType /\ AnalysisType /\ GraphType'
  BY DEF TypeInv, TypeOK
<1>n. \A n \in Emitted : n \in Node /\ n \in Client
  BY <1>t DEF GraphType
<1>1. CASE Building'
  <2>1. \A n \in Emitted' : ~ visited'[n]
    BY <1>t, <1>1 DEF CodeInv, Building, GraphType
  <2> QED BY <2>1 DEF ResolvedInv, Resolved
<1>2. CASE Building /\ ~ Building'
  <2>2. Build
    BY <1>2, FixingSteps DEF Fixed, vars, Building
  <2>3. StartTraverse
    BY <1>2, <2>2
    DEF Build, Building, OverwritePlaceholder, AppendInstr, StartLinking, SetBranchTarget, AddSwitchDefault,
        SetBranchLabel, AssociateLabel, AddSwitchCase, AddHandler, Linking, AllLinked
  <2>4. \A n \in Emitted' : ~ visited'[n]
    BY <1>n, <1>2, <2>3 DEF CodeInv, Building, StartTraverse, graph
  <2> QED BY <2>4 DEF ResolvedInv, Resolved
<1>3. CASE ~ Building
  <2>1. Fixed
    BY <1>3 DEF Fixed, Building
  <2>2. GraphFixed
    BY <2>1, FlowFixed
  <2>3. Emitted' = Emitted
    BY <2>2 DEF GraphFixed
  <2> DEFINE Kept(m) == \/ ~ visited'[m] \/ op'[m] \notin JumpOps \/ target'[m] # None
                        \/ visited[m] /\ op[m] \in JumpOps /\ target'[m] = target[m]
                        \/ Dest(m) = None
  <2>4. ASSUME UNCHANGED code, \A m \in Emitted : Kept(m)
        PROVE  ResolvedInv'
    <3> SUFFICES ASSUME Unwidened', NEW m \in Emitted', visited'[m], op'[m] \in JumpOps, Dest(m)' # None
                 PROVE  target'[m] # None
      BY DEF ResolvedInv, Resolved
    <3>1. m \in Emitted /\ Dest(m)' = Dest(m)
      BY <2>2, <2>3 DEF GraphFixed
    <3>2. Unwidened
      <4> HIDE DEF Emitted
      <4> QED BY <2>3, <2>4 DEF Unwidened
    <3> QED BY <2>4, <3>1, <3>2 DEF ResolvedInv, Resolved
  <2>5. ASSUME NEW n \in Emitted, visited' = [visited EXCEPT ![n] = TRUE]
        PROVE  \A m \in Emitted : m # n => visited'[m] = visited[m]
    BY <1>n, <1>t, <2>5 DEF AnalysisType
  <2>6. ASSUME NEW n \in Emitted, VisitJump(n) PROVE ResolvedInv'
    <3> DEFINE o == IF TooFar(op[n], pc[JumpDest(n)], pc[n])
                    THEN (IF op[n] = "goto" THEN "goto_w" ELSE "jsr_w") ELSE op[n]
    <3>1. /\ JumpDest(n) # None /\ UNCHANGED code
          /\ visited' = [visited EXCEPT ![n] = TRUE]
          /\ op' = [op EXCEPT ![n] = o] /\ target' = [target EXCEPT ![n] = JumpDest(n)]
      BY <2>6 DEF VisitJump, graph
    <3> HIDE DEF o
    <3>2. target'[n] # None /\ \A m \in Emitted : m # n => op'[m] = op[m] /\ target'[m] = target[m]
      BY <1>n, <1>t, <3>1 DEF EncodingType
    <3>3. \A m \in Emitted : Kept(m)
      BY <2>5, <3>1, <3>2
    <3> HIDE DEF Kept
    <3> QED BY <2>4, <3>1, <3>3
  <2>7. ASSUME NEW n \in Emitted, VisitLostJump(n) PROVE ResolvedInv'
    <3>1. /\ JumpDest(n) = None /\ UNCHANGED <<code, op, target>> /\ visited' = [visited EXCEPT ![n] = TRUE]
          /\ phase = "traverse" /\ ~ visited[n]
      BY <2>7 DEF VisitLostJump, Visit, Top, graph, encoding
    <3>2. CASE ~ Unwidened
      BY <2>3, <3>1, <3>2 DEF ResolvedInv, Unwidened
    <3>3. CASE Unwidened
      <4>1. Dest(n) = None
        <5> SUFFICES ASSUME Dest(n) # None PROVE FALSE
          OBVIOUS
        <5>1. Ascending
          BY <3>1 DEF PcInv
        <5>2. target[n] = None
          BY <3>1 DEF JumpDest
        <5>3. label[n] # None /\ Dest(n) = labelled[label[n]] /\ label[n] \in Label
          BY <1>n, <1>t, <5>2 DEF Dest, LinksType
        <5>4. Dest(n) \in Emitted
          BY <5>3 DEF GraphInv, EmittedOrNone
        <5>5. JumpDest(n) = NodeAtPc(pc[Dest(n)])
          BY <5>2, <5>3 DEF JumpDest
        <5> QED BY <1>n, <3>1, <3>3, <5>1, <5>4, <5>5, NodeFound
      <4>2. \A m \in Emitted : Kept(m)
        BY <2>5, <3>1, <4>1
      <4> HIDE DEF Kept
      <4> QED BY <2>4, <3>1, <4>2
    <3> QED BY <3>2, <3>3
  <2>8. ASSUME NEW n \in Emitted, VisitPlain(n) \/ VisitReturn(n) \/ VisitCond(n) PROVE ResolvedInv'
    <3>1. op[n] \notin JumpOps /\ UNCHANGED <<code, op, target>> /\ visited' = [visited EXCEPT ![n] = TRUE]
      BY <2>8 DEF VisitPlain, VisitReturn, VisitCond, BranchOps, JumpOps, ReturnOps, graph, encoding
    <3>2. \A m \in Emitted : Kept(m)
      BY <2>5, <3>1
    <3> HIDE DEF Kept
    <3> QED BY <2>4, <3>1, <3>2
  <2>9. ASSUME NEW n \in Emitted, VisitSwitch(n) PROVE ResolvedInv'
    <3> DEFINE o == IF Span(n) - entries[n] > FillThresh THEN "lookupswitch" ELSE "tableswitch"
    <3>1. /\ op' = [op EXCEPT ![n] = o] /\ UNCHANGED <<code, target>> /\ visited' = [visited EXCEPT ![n] = TRUE]
          /\ o \notin JumpOps
      BY <2>9 DEF VisitSwitch, graph, JumpOps
    <3> HIDE DEF o
    <3>2. op'[n] \notin JumpOps /\ \A m \in Emitted : m # n => op'[m] = op[m] /\ target'[m] = target[m]
      BY <1>n, <1>t, <3>1 DEF EncodingType
    <3>3. \A m \in Emitted : Kept(m)
      BY <2>5, <3>1, <3>2
    <3> HIDE DEF Kept
    <3> QED BY <2>4, <3>1, <3>3
  <2>10. ASSUME NEW n \in Emitted, VisitFarCond(n) PROVE ResolvedInv'
    <3> DEFINE k == Position(n)
    <3>1. code' = InsertAfter(code, k, GotoOf(n), WideOf(n))
      BY <2>10 DEF VisitFarCond
    <3>2. k \in 1..Len(code) /\ code \in Seq(Node)
      BY <1>t, PositionFacts DEF TypeInv, GraphType
    <3>3. GotoOf(n) \in Node /\ WideOf(n) \in Node /\ GotoOf(n) \notin Client
      BY InsertedFacts
    <3> HIDE DEF k
    <3>4. Len(code') = Len(code) + 2 /\ code'[k + 1] = GotoOf(n)
      BY <3>1, <3>2, <3>3, InsertAfterFacts
    <3>5. k + 1 \in 1..Len(code')
      BY <3>2, <3>4
    <3>6. code'[k + 1] \notin Emitted
      BY <1>n, <3>3, <3>4
    <3> QED BY <2>3, <3>5, <3>6 DEF ResolvedInv, Unwidened
  <2>11. CASE UNCHANGED <<code, visited, op, target>>
    <3>1. \A m \in Emitted : Kept(m)
      BY <2>11
    <3> HIDE DEF Kept
    <3> QED BY <2>4, <2>11, <3>1
  <2>12. ASSUME NEW n \in Emitted,
               \/ EnterVisited(n) \/ ReturnFromJsr(n) \/ DefaultCase(n, Head(work).from)
               \/ \E c \in SortedNumbers(n) : NextCase(n, Head(work).from, c)
        PROVE  UNCHANGED <<code, visited, op, target>>
    BY <2>12 DEF EnterVisited, ReturnFromJsr, DefaultCase, NextCase, analysis, graph, encoding
  <2>13. CASE EnterHandler
    BY <2>11, <2>13 DEF EnterHandler, graph, encoding
  <2>14. CASE Relocate
    BY <2>11, <2>14 DEF Relocate, Succeed, StartLayout, LayoutInstr, StartOffsets, RecalcOffset, EndOffsets,
                        analysis, graph, encoding
  <2>15. CASE UNCHANGED vars
    BY <2>11, <2>15 DEF vars, analysis, graph, encoding
  <2>16. ~ Build
    BY <1>3
    DEF Build, Building, OverwritePlaceholder, AppendInstr, StartLinking, SetBranchTarget, AddSwitchDefault,
        SetBranchLabel, AssociateLabel, AddSwitchCase, AddHandler, StartTraverse, Linking, AllLinked
  <2>17. CASE Traverse
    BY <2>6, <2>7, <2>8, <2>9, <2>10, <2>11, <2>12, <2>13, <2>17 DEF Traverse
  <2> QED BY <2>14, <2>15, <2>16, <2>17 DEF Next, Finalizing, Terminated
<1> QED BY <1>1, <1>2, <1>3

(* As long as nothing is inserted, the jumps' labels are resolved.          *)
LEMMA ResolvedInvCorrect == Spec => []ResolvedInv
  BY InitResolved, NextResolved, TypeInvCorrect, CodeInvCorrect, OrderInvCorrect, PcInvCorrect, GraphInvCorrect,
     PTL DEF Spec

(* calc_offsets resolves every reachable label, whatever is jumped over,    *)
(* unless a conditional was widened: the nodes that are inserted carry the  *)
(* method's length as their address, at which bc_node_at_pc gives up.       *)
THEOREM LabelsResolvedCorrect == Spec => [](Unwidened => LabelsResolved)
<1>1. ResolvedInv => (Unwidened => LabelsResolved)
  BY DEF ResolvedInv, Resolved, LabelsResolved
<1> QED BY <1>1, ResolvedInvCorrect, PTL

(* In a method where nothing had to be inserted, the traversal is the       *)
(* exhaustive search of its control flow.                                   *)
THEOREM SearchUnwidened == Spec /\ []Unwidened => SearchSpec
  BY ResolvedInvCorrect, SearchCorrect, PTL DEF ResolvedInv

(* It is too whatever is inserted, when the client links its jumps to       *)
(* instructions and not to labels.                                          *)
THEOREM SearchUnlabelled ==
  ASSUME Label = {}
  PROVE  Spec => SearchSpec
<1>1. TypeInv => Resolved
  <2> SUFFICES ASSUME TypeInv, NEW n \in Emitted, target[n] = None PROVE Dest(n) = None
    BY DEF Resolved
  <2>1. label[n] = None
    BY DEF TypeInv, TypeOK, LinksType, GraphType
  <2> QED BY <2>1 DEF Dest
<1> QED BY <1>1, TypeInvCorrect, SearchCorrect, PTL
-----------------------------------------------------------------------------
(* Stack depths. *)

(* The depths the code has, if it has any, are in the nodes that have been  *)
(* visited or are about to be; the others have none yet, or theirs.         *)
Agrees(D) ==
  /\ \A n \in Emitted : depth[n] \in {-1, D[n]}
  /\ \A n \in Emitted : visited[n] \/ Enter(n) \in Elems(work) => depth[n] = D[n]
  /\ \A n \in Emitted : visited[n] => Result(D, n) <= maxStack

DepthInv ==
  /\ Building => \A n \in Node : depth[n] = -1
  /\ Fixed /\ code # <<>> /\ Plain => \A D \in Depths : Consistent(D) => Agrees(D)

(* No node has a depth at first.                                             *)
LEMMA InitDepth == Init => DepthInv
  BY DEF Init, DepthInv, Fixed

(* Being plain is a matter of the instructions that were appended.          *)
LEMMA PlainKinds ==
  GraphInv => (Plain <=> \A n \in Emitted : ins[n].op \notin SwitchOps \cup {"jsr", "jsr_w"})
<1> SUFFICES ASSUME GraphInv
             PROVE  Plain <=> \A n \in Emitted : ins[n].op \notin SwitchOps \cup {"jsr", "jsr_w"}
  OBVIOUS
<1>1. ASSUME NEW n \in Emitted
      PROVE  op[n] \in SwitchOps \cup {"jsr", "jsr_w"} <=> ins[n].op \in SwitchOps \cup {"jsr", "jsr_w"}
  <2>1. SameKind(ins[n].op, op[n])
    BY DEF GraphInv
  <2> QED BY <2>1 DEF SameKind, SwitchOps
<1> QED BY <1>1 DEF Plain

(* Depths that satisfy more of the code satisfy less of it.                 *)
LEMMA ConsistentBefore ==
  ASSUME TypeInv, GraphFixed, entered' >= entered, entered' \in Nat, orphan => orphan',
         \A m \in Emitted : visited[m] => visited'[m],
         NEW D, Consistent(D)'
  PROVE  Consistent(D)
<1>1. UNCHANGED <<used, handlers>> /\ \A m \in Emitted : ins'[m] = ins[m]
  BY DEF GraphFixed
<1>2. \A m \in Emitted : Branches(m)' = Branches(m) /\ Falls(m)' = Falls(m)
  BY SuccFixed
<1>3. Emitted' = Emitted /\ entered \in Nat
  BY <1>1 DEF TypeInv, TypeOK, WalkType
<1>4. \A k \in 1..entered : k \in 1..entered'
  BY <1>3
<1>5. D[1] = 0 /\ ~ orphan' /\ \A k \in 1..entered' : D[handlers[k].target] = D[handlers[k].from] + 1
  BY <1>1 DEF Consistent
<1>6. ASSUME NEW m \in Emitted, visited[m]
      PROVE  /\ \A n \in Branches(m) : D[n] = Result(D, m)
             /\ \A n \in Falls(m) : D[n] = IF ins[m].op \in {"jsr", "jsr_w"} THEN D[m] ELSE Result(D, m)
  <2>1. m \in Emitted' /\ visited'[m]
    BY <1>3, <1>6
  <2>2. /\ \A n \in Branches(m)' : D[n] = Result(D, m)'
        /\ \A n \in Falls(m)' : D[n] = IF ins'[m].op \in {"jsr", "jsr_w"} THEN D[m] ELSE Result(D, m)'
    BY <2>1 DEF Consistent
  <2>3. Result(D, m)' = Result(D, m)
    BY <1>1 DEF Result
  <2> QED BY <1>1, <1>2, <2>2, <2>3
<1> QED BY <1>4, <1>5, <1>6 DEF Consistent

(* One step of the traversal, to which F has been added.                    *)
LEMMA DepthStep ==
  ASSUME TypeInv, GraphFixed, NEW D, D \in Depths, Agrees(D),
         \A m \in Emitted : depth'[m] \in {depth[m], D[m]},
         \A m \in Emitted : visited'[m] =>
           visited[m] \/ (Enter(m) \in Elems(work) /\ Result(D, m) <= maxStack'),
         maxStack' >= maxStack, maxStack' \in Int,
         NEW F, Elems(work') \subseteq F \cup Elems(work),
         \A x \in Emitted : Enter(x) \in F => depth'[x] = D[x]
  PROVE  Agrees(D)'
<1>1. Emitted' = Emitted /\ \A m \in Emitted : ins'[m] = ins[m]
  BY DEF GraphFixed
<1>2. ASSUME NEW m \in Emitted
      PROVE  /\ depth'[m] \in {-1, D[m]}
             /\ visited'[m] \/ Enter(m) \in Elems(work') => depth'[m] = D[m]
             /\ visited'[m] => Result(D, m) <= maxStack'
  <2>1. /\ depth[m] \in {-1, D[m]}
        /\ visited[m] \/ Enter(m) \in Elems(work) => depth[m] = D[m]
        /\ visited[m] => Result(D, m) <= maxStack
    BY DEF Agrees
  <2>2. Result(D, m) \in Int /\ maxStack \in Int
    <3>1. m \in Node /\ D[m] \in Int /\ ins[m] \in Instruction
      BY StackLimitAssumption DEF Depths, TypeInv, TypeOK, GraphType
    <3> QED BY <3>1, InstructionFields DEF Result, TypeInv, TypeOK, AnalysisType
  <2> QED BY <2>1, <2>2
<1>3. \A m \in Emitted : Result(D, m)' = Result(D, m) /\ Enter(m)' = Enter(m)
  BY <1>1 DEF Result, Enter
<1> HIDE DEF Emitted
<1> QED BY <1>1, <1>2, <1>3 DEF Agrees

(* A step of the traversal only adds to what depths have to satisfy.        *)
LEMMA WalkGrows ==
  ASSUME TypeInv, Fixed, [Next]_vars
  PROVE  /\ entered' >= entered /\ entered' \in Nat /\ (orphan => orphan')
         /\ \A m \in Emitted : visited[m] => visited'[m]
<1>1. entered \in Nat
  BY DEF TypeInv, TypeOK, WalkType
<1>2. \A m \in Emitted : visited[m] => visited'[m]
  <2>1. \A m \in Emitted : m \in Client
    BY DEF TypeInv, TypeOK, GraphType
  <2> QED BY <2>1, FixedSteps
<1>3. (entered' = entered \/ entered' = entered + 1) /\ (orphan => orphan')
  <2>1. ~ Build
    <3>1. phase \notin {"append", "link"}
      BY DEF Fixed
    <3> QED BY <3>1
        DEF Build, OverwritePlaceholder, AppendInstr, StartLinking, SetBranchTarget, AddSwitchDefault,
            SetBranchLabel, AssociateLabel, AddSwitchCase, AddHandler, StartTraverse, Linking, AllLinked
  <2>2. CASE Traverse
    <3>1. CASE EnterHandler
      BY <3>1 DEF EnterHandler
    <3>2. ASSUME NEW n \in Emitted, Visit(n) PROVE UNCHANGED <<entered, orphan>>
      BY <3>2 DEF Visit
    <3>3. ASSUME NEW n \in Emitted,
                 \/ EnterVisited(n) \/ ReturnFromJsr(n) \/ DefaultCase(n, Head(work).from)
                 \/ \E c \in SortedNumbers(n) : NextCase(n, Head(work).from, c)
          PROVE  UNCHANGED <<entered, orphan>>
      BY <3>3 DEF EnterVisited, ReturnFromJsr, DefaultCase, NextCase
    <3>4. ASSUME NEW n \in Emitted,
                 \/ VisitPlain(n) \/ VisitReturn(n) \/ VisitJump(n) \/ VisitLostJump(n)
                 \/ VisitCond(n) \/ VisitFarCond(n) \/ VisitSwitch(n)
          PROVE  Visit(n)
      BY <3>4 DEF VisitPlain, VisitReturn, VisitJump, VisitLostJump, VisitCond, VisitFarCond, VisitSwitch
    <3> QED BY <2>2, <3>1, <3>2, <3>3, <3>4 DEF Traverse
  <2>3. CASE Relocate
    BY <2>3 DEF Relocate, Succeed, StartLayout, LayoutInstr, StartOffsets, RecalcOffset, EndOffsets, walk
  <2>4. CASE UNCHANGED vars
    BY <2>4 DEF vars, walk
  <2> QED BY <2>1, <2>2, <2>3, <2>4 DEF Next, Finalizing, Terminated
<1> QED BY <1>1, <1>2, <1>3

(* Visiting n: the stack after it is the one that follows from D, and so is *)
(* the depth of the nodes that come next.                                   *)
LEMMA DepthVisit ==
  ASSUME TypeInv, GraphInv, GraphFixed, SearchInv, NEW D, D \in Depths, Agrees(D), Consistent(D)',
         NEW n \in Emitted, Visit(n), ins[n].op \notin {"jsr", "jsr_w"},
         \A m \in Emitted : visited'[m] <=> visited[m] \/ m = n
  PROVE  /\ \A x \in Succ(n) : D[x] = SizeAfter(n)
         /\ maxStack' >= maxStack /\ maxStack' \in Int
         /\ \A m \in Emitted : visited'[m] =>
               visited[m] \/ (Enter(m) \in Elems(work) /\ Result(D, m) <= maxStack')
         /\ Elems(work) = {Enter(n)} \cup Elems(Tail(work))
<1>1. Head(work) = Enter(n) /\ work # <<>> /\ maxStack' = Bigger(maxStack, SizeAfter(n))
  BY DEF Visit, Top
<1>2. Elems(work) = {Enter(n)} \cup Elems(Tail(work))
  BY <1>1, ElemsHead DEF TypeInv, TypeOK, WalkType
<1>3. depth[n] = D[n]
  BY <1>2 DEF Agrees
<1>4. SizeAfter(n) = Result(D, n)
  BY <1>3 DEF SizeAfter, Result
<1>5. SizeAfter(n) \in Int /\ maxStack \in Int
  BY SizeAfterType DEF TypeInv, TypeOK, GraphType, AnalysisType
<1>6. maxStack' >= maxStack /\ maxStack' >= SizeAfter(n) /\ maxStack' \in Int
  BY <1>1, <1>5 DEF Bigger
<1>7. \A x \in Succ(n) : D[x] = Result(D, n)
  <2>1. n \in Emitted' /\ visited'[n] /\ ins'[n] = ins[n]
    BY DEF GraphFixed
  <2>2. Branches(n)' = Branches(n) /\ Falls(n)' = Falls(n)
    BY SuccFixed
  <2>3. Result(D, n)' = Result(D, n)
    BY <2>1 DEF Result
  <2>4. /\ \A x \in Branches(n)' : D[x] = Result(D, n)'
        /\ \A x \in Falls(n)' : D[x] = IF ins'[n].op \in {"jsr", "jsr_w"} THEN D[n] ELSE Result(D, n)'
    BY <2>1 DEF Consistent
  <2> QED BY <2>1, <2>2, <2>3, <2>4 DEF Succ
<1> QED BY <1>2, <1>4, <1>5, <1>6, <1>7

(* Every step leaves the depths that the code must have.                     *)
LEMMA NextDepth ==
  /\ TypeInv /\ CodeInv /\ OrderInv /\ PcInv /\ GraphInv /\ SearchInv /\ DepthInv
  /\ TypeInv' /\ CodeInv' /\ GraphInv' /\ [Next]_vars
  => DepthInv'
<1> SUFFICES ASSUME TypeInv, CodeInv, OrderInv, PcInv, GraphInv, SearchInv, DepthInv, TypeInv', CodeInv', GraphInv', [Next]_vars
             PROVE  DepthInv'
  OBVIOUS
<1>t. GraphType /\ LinksType /\ EncodingType /\ AnalysisType /\ WalkType /\ ControlType
  BY DEF TypeInv, TypeOK
<1>n. \A n \in Emitted : n \in Node /\ n \in Client
  BY <1>t DEF GraphType
<1>1. CASE Building /\ Building'
  <2>1. Build \/ UNCHANGED vars
    BY <1>1, FixingSteps DEF Building, Fixed
  <2>2. UNCHANGED depth
    <3>1. CASE Build
      BY <1>1, <3>1
      DEF Build, Building, OverwritePlaceholder, AppendInstr, StartLinking, SetBranchTarget, AddSwitchDefault,
          SetBranchLabel, AssociateLabel, AddSwitchCase, AddHandler, StartTraverse, Linking, analysis
    <3>2. CASE UNCHANGED vars
      BY <3>2 DEF vars, analysis
    <3> QED BY <2>1, <3>1, <3>2
  <2> QED BY <1>1, <2>2 DEF DepthInv, Building, Fixed
<1>2. CASE Building /\ ~ Building'
  <2>1. Build
    BY <1>2, FixingSteps DEF Fixed, vars, Building
  <2>2. StartTraverse
    BY <1>2, <2>1
    DEF Build, Building, OverwritePlaceholder, AppendInstr, StartLinking, SetBranchTarget, AddSwitchDefault,
        SetBranchLabel, AssociateLabel, AddSwitchCase, AddHandler, Linking, AllLinked
  <2> SUFFICES ASSUME code' # <<>>, NEW D, Consistent(D)' PROVE Agrees(D)'
    BY <1>2 DEF DepthInv
  <2>3. /\ depth' = [depth EXCEPT ![Head(code)] = 0] /\ work' = <<Enter(Head(code))>>
        /\ UNCHANGED <<used, code, visited>>
    BY <2>2 DEF StartTraverse, graph
  <2>4. Head(code) = code[1] /\ Len(code) \in Nat /\ Len(code) > 0
    BY <1>t, <2>3 DEF GraphType
  <2>5. Head(code) = 1
    BY <1>2, <2>4 DEF OrderInv
  <2>6. D[1] = 0
    BY DEF Consistent
  <2>7. \A m \in Emitted : ~ visited'[m] /\ depth[m] = -1
    BY <1>2, <1>n, <2>3 DEF CodeInv, DepthInv, Building
  <2>8. Elems(work') = {Enter(1)}
    BY <2>3, <2>5, ElemsOne
  <2>9. \A m \in Emitted : depth'[m] = IF m = 1 THEN 0 ELSE depth[m]
    BY <1>n, <1>t, <2>3, <2>5 DEF AnalysisType
  <2>10. \A m \in Emitted : Enter(m) \in Elems(work') => m = 1
    BY <2>8 DEF Enter
  <2>11. Emitted' = Emitted /\ \A m \in Emitted : Enter(m)' = Enter(m)
    BY <2>3 DEF Enter
  <2>12. \A m \in Emitted : depth'[m] \in {-1, D[m]} /\ (visited'[m] \/ Enter(m) \in Elems(work') => depth'[m] = D[m])
    BY <2>6, <2>7, <2>9, <2>10
  <2> HIDE DEF Emitted
  <2> QED BY <2>7, <2>11, <2>12 DEF Agrees
<1>3. CASE ~ Building
  <2>1. Fixed /\ Fixed' /\ GraphFixed
    <3>1. Fixed
      BY <1>3 DEF Building, Fixed
    <3> QED BY <3>1, FixedSteps, FlowFixed
  <2>2. ~ Building' /\ UNCHANGED <<used, handlers>> /\ Emitted' = Emitted
    BY <2>1 DEF Building, Fixed, GraphFixed
  <2>3. code' # <<>> => code # <<>>
    <3>1. (TypeInv /\ CodeInv => (code = <<>> <=> used = 0))'
      BY CodeEmpty, PTL
    <3> QED BY <2>2, <3>1, CodeEmpty
  <2>4. Plain' => Plain
    <3>1. (GraphInv => (Plain <=> \A n \in Emitted : ins[n].op \notin SwitchOps \cup {"jsr", "jsr_w"}))'
      BY PlainKinds, PTL
    <3>2. Plain' => \A n \in Emitted' : ins'[n].op \notin SwitchOps \cup {"jsr", "jsr_w"}
      BY <3>1
    <3>3. \A n \in Emitted : ins'[n] = ins[n]
      BY <2>1 DEF GraphFixed
    <3> HIDE DEF Emitted
    <3> QED BY <2>2, <3>2, <3>3, PlainKinds
  <2> SUFFICES ASSUME code' # <<>>, Plain, NEW D, D \in Depths, Consistent(D)' PROVE Agrees(D)'
    <3>1. Depths' = Depths
      BY <2>2 DEF Depths
    <3> QED BY <2>2, <2>4, <3>1 DEF DepthInv
  <2>5. Agrees(D)
    <3>1. Consistent(D)
      BY <2>1, WalkGrows, ConsistentBefore
    <3> QED BY <2>1, <2>3, <3>1 DEF DepthInv
  <2>6. \A n \in Emitted : op[n] \notin SwitchOps \cup {"jsr", "jsr_w"} /\ ins[n].op \notin {"jsr", "jsr_w"}
    BY PlainKinds DEF Plain
  <2>7. \A m \in Emitted : depth[m] \in {-1, D[m]}
    BY <2>5 DEF Agrees
  <2>8. ASSUME UNCHANGED <<depth, visited, maxStack>>, Elems(work') \subseteq Elems(work)
        PROVE  Agrees(D)'
    <3> DEFINE F == {}
    <3>1. /\ \A m \in Emitted : depth'[m] \in {depth[m], D[m]}
          /\ maxStack' >= maxStack /\ maxStack' \in Int
          /\ Elems(work') \subseteq F \cup Elems(work)
          /\ \A x \in Emitted : Enter(x) \in F => depth'[x] = D[x]
          /\ \A m \in Emitted : visited'[m] => visited[m]
      BY <1>t, <2>8 DEF AnalysisType
    <3> HIDE DEF F
    <3> QED BY <2>1, <2>5, <3>1, DepthStep
  <2>9. ASSUME NEW n \in Emitted, EnterVisited(n) PROVE Agrees(D)'
    <3>1. UNCHANGED <<depth, visited, maxStack>> /\ work # <<>> /\ work' = Tail(work)
      BY <2>9 DEF EnterVisited, Top, analysis
    <3> QED BY <1>t, <2>8, <3>1, ElemsPopped
  <2>10. ASSUME NEW n \in Emitted, Visit(n)
         PROVE  /\ phase = "traverse" /\ Ascending /\ ~ visited[n] /\ work # <<>>
                /\ Linked(n) /\ Direct(n) /\ Fall(n) = next[n] /\ (target[n] # None => Dest(n) = target[n])
    <3>1. phase = "traverse" /\ ~ visited[n] /\ work # <<>>
      BY <2>10 DEF Visit, Top
    <3>2. Linked(n)
      BY <2>1 DEF TypeInv, LinksOK
    <3>3. Direct(n)
      BY <3>1, UnvisitedDirect
    <3> QED BY <3>1, <3>2, <3>3, DirectFacts DEF PcInv
  <2>o. ASSUME NEW n \in Emitted, visited' = [visited EXCEPT ![n] = TRUE]
        PROVE  \A m \in Emitted : visited'[m] <=> visited[m] \/ m = n
    BY <1>n, <1>t, <2>o DEF AnalysisType
  <2>11. ASSUME NEW n \in Emitted, Visit(n), \A m \in Emitted : visited'[m] <=> visited[m] \/ m = n
         PROVE  /\ \A x \in Succ(n) : D[x] = SizeAfter(n)
                /\ maxStack' >= maxStack /\ maxStack' \in Int
                /\ \A m \in Emitted : visited'[m] =>
                      visited[m] \/ (Enter(m) \in Elems(work) /\ Result(D, m) <= maxStack')
                /\ Elems(work) = {Enter(n)} \cup Elems(Tail(work))
    BY <2>1, <2>5, <2>6, <2>11, DepthVisit
  <2>12. ASSUME NEW n \in Emitted, Visit(n), \A m \in Emitted : visited'[m] <=> visited[m] \/ m = n,
                \A m \in Emitted : depth'[m] \in {depth[m], D[m]},
                NEW p \in Seq(Frame), work' = p \o Tail(work),
                \A x \in Emitted : Enter(x) \in Elems(p) => depth'[x] = D[x]
         PROVE  Agrees(D)'
    <3> DEFINE F == Elems(p)
    <3>1. Elems(work') = F \cup Elems(Tail(work))
      BY <1>t, <2>10, <2>12, ElemsReplaced
    <3>2. Elems(work') \subseteq F \cup Elems(work)
      BY <2>11, <2>12, <3>1
    <3>3. \A x \in Emitted : Enter(x) \in F => depth'[x] = D[x]
      BY <2>12
    <3>4. /\ \A m \in Emitted : depth'[m] \in {depth[m], D[m]}
          /\ \A m \in Emitted : visited'[m] =>
                visited[m] \/ (Enter(m) \in Elems(work) /\ Result(D, m) <= maxStack')
          /\ maxStack' >= maxStack /\ maxStack' \in Int
      BY <2>11, <2>12
    <3> HIDE DEF F
    <3> QED BY <2>1, <2>5, <3>2, <3>3, <3>4, DepthStep
  <2>13. ASSUME NEW n \in Emitted, VisitPlain(n) PROVE Agrees(D)'
    <3> DEFINE p == EnterIf(next[n])
    <3>1. /\ Visit(n) /\ op[n] \notin BranchOps \cup SwitchOps \cup ReturnOps
          /\ visited' = [visited EXCEPT ![n] = TRUE] /\ work' = p \o Tail(work)
          /\ depth' = [m \in Node |-> IF m = next[n] THEN SizeAfter(n) ELSE depth[m]]
      BY <2>13 DEF VisitPlain
    <3>2. Succ(n) = {next[n]} \ {None}
      BY <2>10, <3>1, SuccOf DEF Succ
    <3>3. p \in Seq(Frame)
      BY <1>n, <1>t, EnterIfType DEF GraphType
    <3>4. \A x \in Emitted : Enter(x) \in Elems(p) => x = next[n]
      BY ElemsEnterIf DEF Enter
    <3>5. next[n] \in Emitted => D[next[n]] = SizeAfter(n)
      <4>1. \A x \in Succ(n) : D[x] = SizeAfter(n)
        BY <2>o, <2>11, <3>1
      <4>2. next[n] \in Emitted => next[n] \in Succ(n)
        BY <1>n, <3>2
      <4> QED BY <4>1, <4>2
    <3>6. \A m \in Emitted : depth'[m] = IF m = next[n] THEN D[m] ELSE depth[m]
      BY <1>n, <3>1, <3>5
    <3> HIDE DEF p
    <3> QED BY <2>o, <2>12, <3>1, <3>3, <3>4, <3>6
  <2>14. ASSUME NEW n \in Emitted, VisitReturn(n) PROVE Agrees(D)'
    <3>1. /\ Visit(n) /\ visited' = [visited EXCEPT ![n] = TRUE] /\ work' = Tail(work) /\ UNCHANGED depth
      BY <2>14 DEF VisitReturn
    <3>2. <<>> \in Seq(Frame) /\ work' = <<>> \o Tail(work) /\ Elems(<<>>) = {}
      <4>1. Tail(work) \in Seq(Frame)
        BY <1>t, <2>10, <3>1, TailType
      <4> QED BY <3>1, <4>1, ElemsNone
    <3> QED BY <2>o, <2>12, <3>1, <3>2
  <2>15. ASSUME NEW n \in Emitted, VisitCond(n) \/ VisitFarCond(n) PROVE Agrees(D)'
    <3> DEFINE x == target[n]
               q == <<Enter(x)>>
               r == EnterIf(next[n])
               p == r \o q
    <3>1. /\ Visit(n) /\ op[n] = "cond" /\ work' = p \o Tail(work)
          /\ depth' = [m \in Node |-> IF m \in {next[n], x} THEN SizeAfter(n) ELSE depth[m]]
      BY <2>15 DEF VisitCond, VisitFarCond, CondWork, CondDepths
    <3>2. x \in Emitted /\ next[n] \in EmittedOrNone
      <4>1. x # None
        BY <2>10, <3>1 DEF Linked, BranchOps, JumpOps, TypeInv, LinksOK
      <4> QED BY <2>10, <3>1, <4>1 DEF Direct, EmittedOrNone
    <3>3. \A m \in Emitted : visited'[m] <=> visited[m] \/ m = n
      <4>1. CASE VisitCond(n)
        BY <2>o, <4>1 DEF VisitCond
      <4>2. CASE VisitFarCond(n)
        <5>1. visited' = [m \in Node |-> m \in {n, GotoOf(n), WideOf(n)} \/ visited[m]]
          BY <4>2 DEF VisitFarCond
        <5>2. \A m \in Emitted : m \in Node /\ m \notin {GotoOf(n), WideOf(n)}
          BY InsertedFacts
        <5> QED BY <5>1, <5>2
      <4> QED BY <2>15, <4>1, <4>2
    <3>4. Succ(n) = ({next[n]} \ {None}) \cup {x}
      BY <1>n, <2>10, <3>1, <3>2, SuccOf DEF Succ
    <3>5. \A m \in Emitted : m \in {next[n], x} => D[m] = SizeAfter(n)
      BY <1>n, <2>11, <3>1, <3>3, <3>4
    <3>6. \A m \in Emitted : depth'[m] = IF m \in {next[n], x} THEN D[m] ELSE depth[m]
      BY <1>n, <3>1, <3>5
    <3>7. r \in Seq(Frame)
      BY <1>n, <1>t, EnterIfType DEF GraphType
    <3>8. x \in Node
      BY <1>n, <3>2
    <3>9. Elems(q) = {Enter(x)} /\ Elems(r) \subseteq {Enter(next[n])}
      BY ElemsOne, ElemsEnterIf
    <3> HIDE DEF x
    <3>10. q \in Seq(Frame)
      BY <3>8, FrameFields, FrameAlone
    <3> HIDE DEF q, r
    <3>11. p \in Seq(Frame) /\ Elems(p) \subseteq {Enter(x), Enter(next[n])}
      BY <3>7, <3>9, <3>10, FramesJoined, ElemsConcat
    <3> HIDE DEF p
    <3>12. \A m \in Emitted : Enter(m) \in Elems(p) => m \in {next[n], x}
      BY <3>11 DEF Enter
    <3> QED BY <2>12, <3>1, <3>3, <3>6, <3>11, <3>12
  <2>16. ASSUME NEW n \in Emitted, op[n] \in JumpOps
         PROVE  AfterJsr(n) = <<>>
    BY <2>6 DEF AfterJsr
  <2>17. ASSUME NEW n \in Emitted, VisitLostJump(n) PROVE Agrees(D)'
    <3>1. /\ Visit(n) /\ op[n] \in JumpOps /\ visited' = [visited EXCEPT ![n] = TRUE]
          /\ work' = AfterJsr(n) \o Tail(work) /\ UNCHANGED depth
      BY <2>17 DEF VisitLostJump
    <3>2. AfterJsr(n) = <<>> /\ <<>> \in Seq(Frame) /\ Elems(<<>>) = {}
      BY <2>16, <3>1, ElemsNone
    <3> QED BY <2>o, <2>12, <3>1, <3>2
  <2>18. ASSUME NEW n \in Emitted, VisitJump(n) PROVE Agrees(D)'
    <3> DEFINE d == JumpDest(n)
               p == <<Enter(d)>>
    <3>1. /\ Visit(n) /\ op[n] \in JumpOps /\ d # None /\ visited' = [visited EXCEPT ![n] = TRUE]
          /\ depth' = [depth EXCEPT ![d] = IF @ = -1 THEN SizeAfter(n) ELSE @]
          /\ work' = p \o AfterJsr(n) \o Tail(work)
      BY <2>18 DEF VisitJump
    <3>2. d = Dest(n) /\ d \in Emitted
      BY <2>10, <3>1, JumpDestFacts DEF EmittedOrNone
    <3>3. d \in Succ(n) /\ d \in Node
      <4>1. op[n] \in {"goto", "goto_w"}
        BY <2>6, <3>1 DEF JumpOps
      <4> QED BY <1>n, <3>2, <4>1, SuccOf DEF Succ
    <3>4. D[d] = SizeAfter(n)
      BY <2>o, <2>11, <3>1, <3>3
    <3>5. \A m \in Emitted : depth'[m] = IF m = d /\ depth[d] = -1 THEN SizeAfter(n) ELSE depth[m]
      <4> HIDE DEF d
      <4> QED BY <1>n, <1>t, <3>1 DEF AnalysisType
    <3>6. depth[d] \in {-1, D[d]}
      BY <2>7, <3>2
    <3> HIDE DEF d
    <3>7. p \in Seq(Frame) /\ Elems(p) = {Enter(d)}
      BY <3>3, FrameFields, FrameAlone, ElemsOne
    <3> HIDE DEF p
    <3>8. work' = p \o Tail(work)
      <4>1. AfterJsr(n) = <<>>
        BY <2>16, <3>1
      <4>2. p \o <<>> = p
        BY <3>7
      <4> QED BY <3>1, <4>1, <4>2
    <3>9. \A m \in Emitted : Enter(m) \in Elems(p) => m = d
      BY <3>7 DEF Enter
    <3>10. \A m \in Emitted : depth'[m] \in {depth[m], D[m]}
      BY <3>4, <3>5
    <3>11. depth'[d] = D[d]
      BY <3>2, <3>4, <3>5, <3>6
    <3> QED BY <2>o, <2>12, <3>1, <3>7, <3>8, <3>9, <3>10, <3>11
  <2>19. ASSUME NEW n \in Emitted, VisitSwitch(n) PROVE FALSE
    BY <2>6, <2>19 DEF VisitSwitch
  <2>20. ASSUME NEW f, Top(f) PROVE FrameOK(f) /\ phase = "traverse"
    <3>1. phase = "traverse" /\ f \in Elems(work)
      BY <1>t, <2>20, ElemsHead DEF Top, WalkType
    <3> QED BY <3>1 DEF SearchInv
  <2>21. ASSUME NEW n \in Emitted, ReturnFromJsr(n) PROVE FALSE
    <3>1. FrameOK(After(n))
      BY <2>20, <2>21 DEF ReturnFromJsr
    <3>2. op[n] \in {"jsr", "jsr_w"}
      BY <3>1 DEF FrameOK, Entering, Enter, After
    <3> QED BY <2>6, <3>2
  <2>22. ASSUME NEW n \in Emitted, NEW from, Top(Cases(n, from)) PROVE FALSE
    <3>1. FrameOK(Cases(n, from))
      BY <2>20, <2>22
    <3>2. op[n] \in SwitchOps
      BY <3>1 DEF FrameOK, Entering, Enter, After, Cases
    <3> QED BY <2>6, <3>2
  <2>23. CASE EnterHandler
    <3> DEFINE h == handlers[entered + 1]
    <3>1. /\ phase = "traverse" /\ work = <<>> /\ entered < Len(handlers)
          /\ depth' = [depth EXCEPT ![h.target] = depth[h.from] + 1] /\ work' = <<Enter(h.target)>>
          /\ orphan' = (orphan \/ ~ visited[h.from]) /\ entered' = entered + 1
          /\ UNCHANGED <<visited, maxStack>>
      BY <2>23 DEF EnterHandler
    <3>2. entered \in Nat /\ Len(handlers) \in Nat /\ entered + 1 \in 1..Len(handlers) /\ entered + 1 \in 1..entered'
      BY <1>t, <3>1 DEF WalkType, LinksType
    <3>3. h.from \in Emitted /\ h.target \in Emitted
      BY <3>2 DEF OrderInv
    <3>4. ~ orphan' /\ D[handlers'[entered + 1].target] = D[handlers'[entered + 1].from] + 1
      BY <3>2 DEF Consistent
    <3>5. visited[h.from] /\ D[h.target] = D[h.from] + 1
      BY <2>2, <3>1, <3>4
    <3> HIDE DEF h
    <3>6. depth[h.from] = D[h.from]
      BY <2>5, <3>3, <3>5 DEF Agrees
    <3>7. \A m \in Emitted : depth'[m] = IF m = h.target THEN D[m] ELSE depth[m]
      BY <1>n, <1>t, <3>1, <3>5, <3>6 DEF AnalysisType
    <3> DEFINE F == {Enter(h.target)}
    <3>8. Elems(work') \subseteq F \cup Elems(work)
      BY <3>1, ElemsOne
    <3>9. \A x \in Emitted : Enter(x) \in F => depth'[x] = D[x]
      BY <3>7 DEF Enter
    <3>10. /\ \A m \in Emitted : depth'[m] \in {depth[m], D[m]}
           /\ \A m \in Emitted : visited'[m] => visited[m]
           /\ maxStack' >= maxStack /\ maxStack' \in Int
      BY <1>t, <3>1, <3>7 DEF AnalysisType
    <3> HIDE DEF F
    <3> QED BY <2>1, <2>5, <3>8, <3>9, <3>10, DepthStep
  <2>24. CASE Relocate
    BY <2>8, <2>24 DEF Relocate, Succeed, StartLayout, LayoutInstr, StartOffsets, RecalcOffset, EndOffsets, analysis, walk
  <2>25. CASE UNCHANGED vars
    BY <2>8, <2>25 DEF vars, analysis, walk
  <2>26. CASE Traverse
    <3>1. ASSUME NEW n \in Emitted, DefaultCase(n, Head(work).from) PROVE FALSE
      BY <2>22, <3>1 DEF DefaultCase
    <3>2. ASSUME NEW n \in Emitted, NEW c \in SortedNumbers(n), NextCase(n, Head(work).from, c) PROVE FALSE
      BY <2>22, <3>2 DEF NextCase
    <3> QED BY <2>9, <2>13, <2>14, <2>15, <2>17, <2>18, <2>19, <2>21, <2>23, <2>26, <3>1, <3>2 DEF Traverse
  <2>27. ~ Build
    BY <1>3
    DEF Build, Building, OverwritePlaceholder, AppendInstr, StartLinking, SetBranchTarget, AddSwitchDefault,
        SetBranchLabel, AssociateLabel, AddSwitchCase, AddHandler, StartTraverse, Linking, AllLinked
  <2> QED BY <2>24, <2>25, <2>26, <2>27 DEF Next, Finalizing, Terminated
<1> QED BY <1>1, <1>2, <1>3

(* While the code is traversed its depths are never wrong.                   *)
LEMMA DepthInvCorrect == Spec => []DepthInv
  BY InitDepth, NextDepth, TypeInvCorrect, CodeInvCorrect, OrderInvCorrect, PcInvCorrect, GraphInvCorrect,
     SearchInvCorrect, PTL DEF Spec

(* In code without switches and subroutines, the depths calc_offsets leaves *)
(* in the nodes are the only ones the code can have, however many ways lead *)
(* to an instruction and in whatever order they are taken.                  *)
THEOREM DepthsExactCorrect == Spec => []DepthsExact
<1>1. DepthInv => DepthsExact
  BY DEF DepthInv, DepthsExact, StackDepthsExact, Agrees, Fixed
<1> QED BY <1>1, DepthInvCorrect, PTL

(* ... and max_stack covers the stack after each of them.                   *)
THEOREM StackNotedCorrect == Spec => []StackNoted
<1>1. DepthInv => StackNoted
  BY DEF DepthInv, StackNoted, MaxStackSuffices, Agrees, Fixed
<1> QED BY <1>1, DepthInvCorrect, PTL

(* A client that appends neither switches nor subroutine calls has the      *)
(* depths of all its methods exact, and their max_stack large enough.       *)
PlainInstrs == \A i \in Instrs : i.op \notin SwitchOps \cup {"jsr", "jsr_w"}

(* Instructions without switches and subroutines make plain code.            *)
LEMMA PlainClient == ASSUME PlainInstrs PROVE GraphInv => Plain
  BY PlainKinds DEF PlainInstrs, GraphInv

(* Such a client's stack depths are the only ones its code can have.        *)
THEOREM StackDepthsExactCorrect ==
  ASSUME PlainInstrs
  PROVE  Spec => []StackDepthsExact
<1>1. GraphInv /\ DepthsExact => StackDepthsExact
  BY PlainClient DEF DepthsExact
<1> QED BY <1>1, GraphInvCorrect, DepthsExactCorrect, PTL

(* The max_stack of such a client's methods is large enough.                *)
THEOREM MaxStackSufficesCorrect ==
  ASSUME PlainInstrs
  PROVE  Spec => []MaxStackSuffices
<1>1. GraphInv /\ StackNoted => MaxStackSuffices
  BY PlainClient DEF StackNoted
<1> QED BY <1>1, GraphInvCorrect, StackNotedCorrect, PTL
=============================================================================
