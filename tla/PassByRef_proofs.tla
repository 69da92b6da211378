-------------------------- MODULE PassByRef_proofs --------------------------
(***************************************************************************)
(* Proofs about PassByRef: that the recursion over the call graph never     *)
(* starts a second walk, that it wraps the least set that must be, and that *)
(* what is generated for a call agrees with what is generated for its       *)
(* callee.                                                                  *)
(***************************************************************************)
EXTENDS PassByRef, Induction, TLAPS

USE ScopeAssumption, LibraryAssumption, FileAssumption, BoundAssumption

-----------------------------------------------------------------------------
(* Sequences. *)

(* The entries of a sequence with one more at its end. *)
LEMMA SetOfAppend ==
  ASSUME NEW S, NEW q \in Seq(S), NEW x \in S
  PROVE  ToSet(Append(q, x)) = ToSet(q) \cup {x}
<1> DEFINE p == Append(q, x)
<1>1. p \in Seq(S) /\ Len(p) = Len(q) + 1 /\ \A i \in 1..Len(q) : p[i] = q[i]
  OBVIOUS
<1>2. p[Len(q) + 1] = x
  OBVIOUS
<1>3. DOMAIN p = 1..(Len(q) + 1) /\ DOMAIN q = 1..Len(q) /\ Len(q) \in Nat
  BY <1>1
<1> HIDE DEF p
<1>4. ToSet(p) = {p[i] : i \in DOMAIN p} /\ ToSet(q) = {q[i] : i \in DOMAIN q}
  BY DEF ToSet
<1>5. \A y \in ToSet(p) : y \in ToSet(q) \cup {x}
  <2> SUFFICES ASSUME NEW i \in 1..(Len(q) + 1) PROVE p[i] \in ToSet(q) \cup {x}
    BY <1>3, <1>4
  <2>1. CASE i = Len(q) + 1
    BY <2>1, <1>2
  <2>2. CASE i # Len(q) + 1
    <3>1. i \in 1..Len(q) BY <2>2, <1>3
    <3> QED BY <3>1, <1>1, <1>3, <1>4
  <2> QED BY <2>1, <2>2
<1>6. x \in ToSet(p)
  <2>1. Len(q) + 1 \in DOMAIN p BY <1>3
  <2> QED BY <2>1, <1>2, <1>4
<1>7. \A y \in ToSet(q) : y \in ToSet(p)
  <2> SUFFICES ASSUME NEW i \in 1..Len(q) PROVE q[i] \in ToSet(p)
    BY <1>3, <1>4
  <2>1. i \in DOMAIN p BY <1>3
  <2> QED BY <2>1, <1>1, <1>4
<1>8. ToSet(p) = ToSet(q) \cup {x}
  BY <1>5, <1>6, <1>7
<1> QED BY <1>8 DEF p

(* A sequence with one more entry at its beginning. *)
LEMMA Pushed ==
  ASSUME NEW S, NEW q \in Seq(S), NEW x \in S
  PROVE  /\ <<x>> \o q \in Seq(S) /\ Len(<<x>> \o q) = Len(q) + 1
         /\ (<<x>> \o q)[1] = x
         /\ \A i \in 1..Len(q) : (<<x>> \o q)[i + 1] = q[i]
  OBVIOUS

(* A sequence without its first entry. *)
LEMMA Popped ==
  ASSUME NEW S, NEW q \in Seq(S), q # <<>>
  PROVE  /\ Tail(q) \in Seq(S) /\ Len(Tail(q)) = Len(q) - 1 /\ Len(q) \in Nat /\ Len(q) > 0
         /\ \A i \in 1..Len(Tail(q)) : Tail(q)[i] = q[i + 1]
  OBVIOUS

-----------------------------------------------------------------------------
(* The types of the state. *)

Statement == [form : Forms, callee : Unit \cup Library, actuals : Seq(Variable \cup {Expr})]
Frame == [unit : Unit, callee : Unit, actuals : Seq(Variable \cup {Expr}), pending : BOOLEAN]

(* TypeOK, and which functions the parts of the state are. *)
TypeInv ==
  /\ file \in Seq(Unit) /\ ToSet(file) = Unit /\ at \in 1..Len(file)
  /\ phase \in {"typecheck", "optimize", "emit", "done"}
  /\ work \in Seq(Frame)
  /\ body \in [Unit -> Seq(Statement)]
  /\ status \in [Unit -> {"NOT_VISITED", "VISITED", "FINISHED"}]
  /\ wrapped \subseteq Variable
  /\ argRef \in [Unit -> SUBSET Nat] /\ \A u \in Unit : argRef[u] \subseteq DOMAIN Formals[u]
  /\ desc \in [Unit -> SUBSET Nat] /\ \A u \in Unit : desc[u] \subseteq {0} \cup DOMAIN Formals[u]
  /\ NoBlock \notin blockRef
  /\ DOMAIN emitted = Unit

(* It is TypeOK and more. *)
LEMMA TypeEnough == TypeInv => TypeOK
<1> SUFFICES ASSUME TypeInv PROVE TypeOK
  OBVIOUS
<1>1. \A i \in DOMAIN work : FrameOK(work[i])
  <2> SUFFICES ASSUME NEW i \in DOMAIN work PROVE FrameOK(work[i])
    OBVIOUS
  <2>1. work \in Seq(Frame) BY DEF TypeInv
  <2>2. work[i] \in Frame BY <2>1
  <2> QED BY <2>2 DEF Frame, FrameOK
<1>2. \A u \in Unit : \A i \in DOMAIN body[u] : StmtOK(body[u][i])
  <2> SUFFICES ASSUME NEW u \in Unit, NEW i \in DOMAIN body[u] PROVE StmtOK(body[u][i])
    OBVIOUS
  <2>1. body[u] \in Seq(Statement) BY DEF TypeInv
  <2>2. body[u][i] \in Statement BY <2>1
  <2> QED BY <2>2 DEF Statement, StmtOK
<1> QED BY <1>1, <1>2 DEF TypeInv, TypeOK

(* The variables of a unit, its arguments and their positions. *)
LEMMA FormalsTypes ==
  ASSUME NEW u \in Unit
  PROVE  /\ Formals[u] \in Seq(Variable) /\ Len(Formals[u]) \in Nat
         /\ DOMAIN Formals[u] = 1..Len(Formals[u]) /\ DOMAIN Formals[u] \in SUBSET Nat
         /\ Scope[u] \subseteq Variable /\ FormalsOf(u) \subseteq Scope[u]
         /\ \A i \in DOMAIN Formals[u] : Formals[u][i] \in FormalsOf(u)
<1>1. Formals[u] \in Seq(Variable)
  OBVIOUS
<1>2. Scope[u] \subseteq Variable
  BY DEF Variable
<1>3. \A i \in DOMAIN Formals[u] : Formals[u][i] \in FormalsOf(u)
  BY DEF FormalsOf, ToSet
<1>4. DOMAIN Formals[u] = 1..Len(Formals[u]) /\ Len(Formals[u]) \in Nat
  BY <1>1
<1> QED BY <1>1, <1>2, <1>3, <1>4

(* The arguments that a call passes. *)
LEMMA ActualsTypes ==
  ASSUME NEW u \in Unit, NEW n \in Nat, NEW actuals \in Actuals(u, n)
  PROVE  /\ actuals \in Seq(Variable \cup {Expr}) /\ Len(actuals) = n
         /\ DOMAIN actuals = 1..n
<1>1. Scope[u] \subseteq Variable
  BY DEF Variable
<1>2. actuals \in [1..n -> Variable \cup {Expr}]
  BY <1>1 DEF Actuals
<1> QED BY <1>2

-----------------------------------------------------------------------------
(* The steps, by what they do.                                              *)

(* A statement as the parser has built it: it passes as many arguments as   *)
(* its callee has.                                                          *)
Fits(s) ==
  /\ s.form \in {"call", "function", "unwalked"} =>
       s.callee \in Unit /\ Len(s.actuals) = Len(Formals[s.callee])
  /\ s.form = "external" => s.callee \in Unit
  /\ s.form = "library" => s.callee \in Library /\ Len(s.actuals) = Len(LibraryArgs[s.callee])
  /\ s.form = "assign" => Len(s.actuals) = 1

(* The variables of u that statement s alone asks to be wrapped.            *)
Due(u, s) ==
  {x \in Scope[u] \ Arrays :
     \/ s.form = "assign" /\ s.actuals[1] = x /\ x \in FormalsOf(u)
     \/ s.form = "library" /\ \E i \in DOMAIN s.actuals :
                                 s.actuals[i] = x /\ LibraryArgs[s.callee][i] # "value"}

(* A statement that calls nothing in the file.                              *)
Marks(u, s) ==
  /\ Reading(u, s) /\ s.form \notin {"call", "function", "external"}
  /\ wrapped' = wrapped \cup Due(u, s)
  /\ NoBlock \notin blockRef => NoBlock \notin blockRef'
  /\ UNCHANGED <<work, status, argRef, desc>>

(* The walk of f begins, or f has been visited before.                      *)
Start(f, rest) ==
  /\ status[f] = "NOT_VISITED"
  /\ status' = [status EXCEPT ![f] = "VISITED"]
  /\ work' = <<Walk(f)>> \o rest
  /\ UNCHANGED <<argRef, desc>>
Again(f, rest) == status[f] # "NOT_VISITED" /\ Finish(f, wrapped) /\ work' = rest
Pass(f, rest) == status[f] # "NOT_VISITED" /\ work' = rest /\ UNCHANGED <<status, argRef, desc>>

(* A statement that makes the analysis look at unit f of the file.          *)
Visits(u, s) ==
  /\ Reading(u, s) /\ s.form \in {"call", "function", "external"}
  /\ UNCHANGED <<wrapped, blockRef>>
  /\ \E rest :
       /\ \/ rest = work /\ (s.form = "external" \/ s.actuals = <<>>)
          \/ rest = <<Args(u, s.callee, s.actuals)>> \o work /\ s.form # "external"
       /\ Start(s.callee, rest) \/ Again(s.callee, rest) \/ Pass(s.callee, rest)

(* optScalar starts a walk or finishes again. *)
LEMMA OptScalarCases ==
  ASSUME NEW f, NEW rest, OptScalar(f, rest)
  PROVE  Start(f, rest) \/ Again(f, rest)
  BY DEF OptScalar, Start, Again

(* Every step is one of these.                                              *)
Steps ==
  \/ Typecheck \/ Analyse \/ Emit \/ CompareArgs \/ EndUnit \/ UNCHANGED vars
  \/ \E u \in Unit, s \in Statement : Fits(s) /\ (Marks(u, s) \/ Visits(u, s))

(* The fields of a statement. *)
LEMMA StmtTypes ==
  ASSUME NEW form \in Forms, NEW callee \in Unit \cup Library, NEW actuals \in Seq(Variable \cup {Expr})
  PROVE  /\ Stmt(form, callee, actuals) \in Statement
         /\ Stmt(form, callee, actuals).form = form
         /\ Stmt(form, callee, actuals).callee = callee
         /\ Stmt(form, callee, actuals).actuals = actuals
  BY DEF Stmt, Statement

(* A statement that is read has one of the forms that occur.                *)
LEMMA ReadForm ==
  ASSUME NEW u, NEW form, NEW callee, NEW actuals, Reading(u, Stmt(form, callee, actuals))
  PROVE  form \in Forms
  BY DEF Reading, Stmt

(* An assignment marks the variable on its left.                            *)
LEMMA AssignStep ==
  ASSUME NEW u \in Unit, NEW x \in FormalsOf(u), Assign(u, x)
  PROVE  \E s \in Statement : Fits(s) /\ Marks(u, s)
<1> DEFINE args == <<x>>
           s == Stmt("assign", u, args)
<1>1. "assign" \in Forms
  BY ReadForm DEF Assign
<1>2. x \in Scope[u] /\ x \in Variable
  BY FormalsTypes
<1>3. args \in Seq(Variable \cup {Expr}) /\ args[1] = x /\ Len(args) = 1
  BY <1>2
<1>5. Reading(u, s) /\ wrapped' = wrapped \cup Marked(u, x) /\ UNCHANGED <<work, status, argRef, desc, blockRef>>
  BY DEF Assign
<1> HIDE DEF args
<1>4. s \in Statement /\ s.form = "assign" /\ s.callee = u /\ s.actuals = args
  BY <1>1, <1>3, StmtTypes
<1> HIDE DEF s
<1>6. Marked(u, x) = Due(u, s)
  BY <1>2, <1>3, <1>4 DEF Marked, Due
<1>7. Fits(s)
  BY <1>3, <1>4 DEF Fits
<1>8. Marks(u, s)
  BY <1>4, <1>5, <1>6 DEF Marks
<1> QED BY <1>4, <1>7, <1>8

(* A variable in an implied loop of a READ marks nothing.                   *)
LEMMA ReadLoopStep ==
  ASSUME NEW u \in Unit, NEW x \in FormalsOf(u), ReadLoop(u, x)
  PROVE  \E s \in Statement : Fits(s) /\ Marks(u, s)
<1> DEFINE args == <<x>>
           s == Stmt("readloop", u, args)
<1>1. "readloop" \in Forms
  BY ReadForm DEF ReadLoop
<1>2. x \in Variable
  BY FormalsTypes
<1>3. args \in Seq(Variable \cup {Expr})
  BY <1>2
<1>5. Reading(u, s) /\ wrapped' = wrapped /\ UNCHANGED <<work, status, argRef, desc, blockRef>>
  BY DEF ReadLoop
<1> HIDE DEF args
<1>4. s \in Statement /\ s.form = "readloop"
  BY <1>1, <1>3, StmtTypes
<1> HIDE DEF s
<1>6. Due(u, s) = {}
  BY <1>4 DEF Due
<1>7. Fits(s)
  BY <1>4 DEF Fits
<1>8. Marks(u, s)
  BY <1>4, <1>5, <1>6 DEF Marks
<1> QED BY <1>4, <1>7, <1>8

(* A reference that is not walked to marks nothing.                         *)
LEMMA UnwalkedStep ==
  ASSUME NEW u \in Unit, NEW f \in Unit, NEW actuals \in Actuals(u, Len(Formals[f])),
         Unwalked(u, f, actuals)
  PROVE  \E s \in Statement : Fits(s) /\ Marks(u, s)
<1> DEFINE s == Stmt("unwalked", f, actuals)
<1>1. "unwalked" \in Forms
  BY ReadForm DEF Unwalked
<1>2. actuals \in Seq(Variable \cup {Expr}) /\ Len(actuals) = Len(Formals[f])
  BY FormalsTypes, ActualsTypes
<1>4. s \in Statement /\ s.form = "unwalked" /\ s.callee = f /\ s.actuals = actuals
  BY <1>1, <1>2, StmtTypes
<1>5. Reading(u, s) /\ wrapped' = wrapped /\ UNCHANGED <<work, status, argRef, desc, blockRef>>
  BY DEF Unwalked
<1> HIDE DEF s
<1>6. Due(u, s) = {}
  BY <1>4 DEF Due
<1>7. Fits(s)
  BY <1>2, <1>4 DEF Fits
<1>8. Marks(u, s)
  BY <1>4, <1>5, <1>6 DEF Marks
<1> QED BY <1>4, <1>7, <1>8

(* A call of a library procedure marks what its descriptor says.            *)
LEMMA LibraryStep ==
  ASSUME NEW u \in Unit, NEW l \in Library, NEW actuals \in Actuals(u, Len(LibraryArgs[l])),
         CallLibrary(u, l, actuals)
  PROVE  \E s \in Statement : Fits(s) /\ Marks(u, s)
<1> DEFINE s == Stmt("library", l, actuals)
           X == Passed(u, actuals, LibraryAt(l, "wrapped"), LibraryAt(l, "array"))
<1>1. "library" \in Forms
  BY ReadForm DEF CallLibrary
<1>2. LibraryArgs[l] \in Seq({"value", "wrapped", "array"}) /\ Len(LibraryArgs[l]) \in Nat
  OBVIOUS
<1>3. actuals \in Seq(Variable \cup {Expr}) /\ Len(actuals) = Len(LibraryArgs[l])
      /\ DOMAIN actuals = DOMAIN LibraryArgs[l]
  BY <1>2, ActualsTypes
<1>4. s \in Statement /\ s.form = "library" /\ s.callee = l /\ s.actuals = actuals
  BY <1>1, <1>3, StmtTypes
<1>5. Reading(u, s) /\ SetPassByRef(X) /\ UNCHANGED <<work, status, argRef, desc>>
  BY DEF CallLibrary
<1>6. X = Due(u, s)
  <2>1. \A i \in DOMAIN LibraryArgs[l] : LibraryArgs[l][i] \in {"value", "wrapped", "array"}
    BY <1>2
  <2>2. \A i \in DOMAIN actuals :
          i \in LibraryAt(l, "wrapped") \cup LibraryAt(l, "array") <=> LibraryArgs[l][i] # "value"
    BY <2>1, <1>3 DEF LibraryAt
  <2> HIDE DEF s
  <2>3. \A x : x \in X <=> x \in Due(u, s)
    BY <2>2, <1>4 DEF Passed, Due
  <2> QED BY <2>3, ZenonT(60)
<1> HIDE DEF s, X
<1>7. Fits(s)
  BY <1>3, <1>4 DEF Fits
<1>8. Marks(u, s)
  BY <1>4, <1>5, <1>6 DEF Marks, SetPassByRef
<1> QED BY <1>4, <1>7, <1>8

(* An EXTERNAL statement calls optScalar for the unit it names.             *)
LEMMA ExternalStep ==
  ASSUME NEW u \in Unit, NEW f \in Unit, External(u, f)
  PROVE  \E s \in Statement : Fits(s) /\ Visits(u, s)
<1> DEFINE args == <<>>
           s == Stmt("external", f, args)
<1>1. "external" \in Forms
  BY ReadForm DEF External
<1>2. args \in Seq(Variable \cup {Expr})
  OBVIOUS
<1>4. Reading(u, s) /\ OptScalar(f, work) /\ UNCHANGED <<wrapped, blockRef>>
  BY DEF External
<1> HIDE DEF args
<1>3. s \in Statement /\ s.form = "external" /\ s.callee = f
  BY <1>1, <1>2, StmtTypes
<1> HIDE DEF s
<1>5. Start(s.callee, work) \/ Again(s.callee, work) \/ Pass(s.callee, work)
  BY <1>3, <1>4, OptScalarCases
<1>6. Fits(s)
  BY <1>3 DEF Fits
<1>7. Visits(u, s)
  BY <1>3, <1>4, <1>5 DEF Visits
<1> QED BY <1>3, <1>6, <1>7

(* A call or a reference calls optScalar, or only waits for its arguments.  *)
LEMMA CallStep ==
  ASSUME NEW u \in Unit, NEW f \in Unit, NEW actuals \in Actuals(u, Len(Formals[f])),
         NEW form \in {"call", "function"}, Call(u, form, f, actuals)
  PROVE  \E s \in Statement : Fits(s) /\ Visits(u, s)
<1> DEFINE s == Stmt(form, f, actuals)
           rest == IF actuals = <<>> THEN work ELSE <<Args(u, f, actuals)>> \o work
<1>1. form \in Forms
  BY ReadForm DEF Call
<1>2. actuals \in Seq(Variable \cup {Expr}) /\ Len(actuals) = Len(Formals[f])
  BY FormalsTypes, ActualsTypes
<1>3. s \in Statement /\ s.form = form /\ s.callee = f /\ s.actuals = actuals
  BY <1>1, <1>2, StmtTypes
<1>4. Reading(u, s) /\ UNCHANGED <<wrapped, blockRef>>
      /\ IF form = "function" \/ actuals = <<>> \/ status[f] = "NOT_VISITED"
         THEN OptScalar(f, rest)
         ELSE work' = rest /\ UNCHANGED <<status, argRef, desc>>
  BY DEF Call
<1>5. \/ rest = work /\ actuals = <<>>
      \/ rest = <<Args(u, f, actuals)>> \o work
  OBVIOUS
<1> HIDE DEF s, rest
<1>6. Start(f, rest) \/ Again(f, rest) \/ Pass(f, rest)
  BY <1>4, OptScalarCases DEF Pass
<1>7. Fits(s)
  BY <1>2, <1>3 DEF Fits
<1>8. Visits(u, s)
  BY <1>3, <1>4, <1>5, <1>6 DEF Visits
<1> QED BY <1>3, <1>7, <1>8

(* Every step is one of Steps.                                              *)
LEMMA NextSteps == [Next]_vars => Steps
<1> SUFFICES ASSUME [Next]_vars PROVE Steps
  OBVIOUS
<1>1. ASSUME NEW u \in Unit, NEW x \in FormalsOf(u), ReadLoop(u, x) \/ Assign(u, x)
      PROVE  Steps
  BY <1>1, ReadLoopStep, AssignStep DEF Steps
<1>2. ASSUME NEW u \in Unit, NEW f \in Unit, External(u, f)
      PROVE  Steps
  BY <1>2, ExternalStep DEF Steps
<1>3. ASSUME NEW u \in Unit, NEW f \in Unit, NEW actuals \in Actuals(u, Len(Formals[f])),
             Unwalked(u, f, actuals) \/ \E form \in {"call", "function"} : Call(u, form, f, actuals)
      PROVE  Steps
  BY <1>3, UnwalkedStep, CallStep DEF Steps
<1>4. ASSUME NEW u \in Unit, NEW l \in Library, NEW actuals \in Actuals(u, Len(LibraryArgs[l])),
             CallLibrary(u, l, actuals)
      PROVE  Steps
  BY <1>4, LibraryStep DEF Steps
<1>5. CASE Typecheck \/ Analyse \/ Emit \/ CompareArgs \/ EndUnit
  BY <1>5 DEF Steps
<1>6. CASE Done \/ UNCHANGED vars
  BY <1>6 DEF Steps, Done
<1> QED BY <1>1, <1>2, <1>3, <1>4, <1>5, <1>6 DEF Next

-----------------------------------------------------------------------------
(* Type correctness. *)

(* The first state is well typed.                                           *)
LEMMA InitType == Init => TypeInv
<1> SUFFICES ASSUME Init PROVE TypeInv
  OBVIOUS
<1>1. file \in Seq(Unit) /\ file # <<>> /\ ToSet(file) = Unit
  BY DEF Init
<1>2. at \in 1..Len(file)
  <2>1. Len(file) \in Nat /\ Len(file) # 0 BY <1>1
  <2> QED BY <2>1 DEF Init
<1>3. work \in Seq(Frame)
  BY DEF Init
<1>4. body \in [Unit -> Seq(Statement)]
  <2>1. <<>> \in Seq(Statement) OBVIOUS
  <2> QED BY <2>1 DEF Init
<1>5. status \in [Unit -> {"NOT_VISITED", "VISITED", "FINISHED"}]
  BY DEF Init
<1>6. argRef \in [Unit -> SUBSET Nat] /\ \A u \in Unit : argRef[u] \subseteq DOMAIN Formals[u]
  BY DEF Init
<1>7. desc \in [Unit -> SUBSET Nat] /\ \A u \in Unit : desc[u] \subseteq {0} \cup DOMAIN Formals[u]
  BY DEF Init, NoDesc
<1>8. DOMAIN emitted = Unit
  BY DEF Init
<1> QED BY <1>1, <1>2, <1>3, <1>4, <1>5, <1>6, <1>7, <1>8 DEF Init, TypeInv

(* The frames of the recursion. *)
LEMMA WalkFrame ==
  ASSUME NEW u \in Unit
  PROVE  /\ Walk(u) \in Frame /\ Walk(u).unit = u /\ ~ Walk(u).pending
<1>1. <<>> \in Seq(Variable \cup {Expr})
  OBVIOUS
<1> QED BY <1>1 DEF Walk, Frame

(* The frame of a call whose arguments are to be compared.                  *)
LEMMA ArgsFrame ==
  ASSUME NEW u \in Unit, NEW f \in Unit, NEW actuals \in Seq(Variable \cup {Expr})
  PROVE  /\ Args(u, f, actuals) \in Frame /\ Args(u, f, actuals).unit = u
         /\ Args(u, f, actuals).callee = f /\ Args(u, f, actuals).actuals = actuals
         /\ Args(u, f, actuals).pending
  BY DEF Args, Frame

(* optScalar's end keeps the types. *)
LEMMA FinishTypes ==
  ASSUME TypeInv, NEW u \in Unit, Finish(u, wrapped)
  PROVE  /\ status' \in [Unit -> {"NOT_VISITED", "VISITED", "FINISHED"}]
         /\ argRef' \in [Unit -> SUBSET Nat]
         /\ \A v \in Unit : argRef'[v] \subseteq DOMAIN Formals[v]
         /\ desc' \in [Unit -> SUBSET Nat]
         /\ \A v \in Unit : desc'[v] \subseteq {0} \cup DOMAIN Formals[v]
<1> DEFINE new == argRef[u] \cup {i \in DOMAIN Formals[u] : Formals[u][i] \in wrapped}
           newDesc == {i \in DOMAIN Formals[u] : Formals[u][i] \in wrapped \ Arrays}
<1>1. DOMAIN Formals[u] \in SUBSET Nat
  BY FormalsTypes
<1>2. new \in SUBSET Nat /\ new \subseteq DOMAIN Formals[u]
  BY <1>1 DEF TypeInv
<1>3. newDesc \in SUBSET Nat /\ newDesc \subseteq DOMAIN Formals[u]
  BY <1>1
<1>4. /\ status' = [status EXCEPT ![u] = "FINISHED"]
      /\ argRef' = [argRef EXCEPT ![u] = new] /\ desc' = [desc EXCEPT ![u] = newDesc]
  BY DEF Finish
<1> HIDE DEF new, newDesc
<1>5. status' \in [Unit -> {"NOT_VISITED", "VISITED", "FINISHED"}]
  BY <1>4 DEF TypeInv
<1>6. argRef' \in [Unit -> SUBSET Nat] /\ \A v \in Unit : argRef'[v] \subseteq DOMAIN Formals[v]
  BY <1>2, <1>4 DEF TypeInv
<1>7. desc' \in [Unit -> SUBSET Nat] /\ \A v \in Unit : desc'[v] \subseteq {0} \cup DOMAIN Formals[v]
  BY <1>3, <1>4 DEF TypeInv
<1> QED BY <1>5, <1>6, <1>7

(* A call of optScalar keeps the types.                                     *)
LEMMA VisitTypes ==
  ASSUME TypeInv, NEW f \in Unit, NEW rest \in Seq(Frame),
         Start(f, rest) \/ Again(f, rest) \/ Pass(f, rest)
  PROVE  /\ status' \in [Unit -> {"NOT_VISITED", "VISITED", "FINISHED"}]
         /\ argRef' \in [Unit -> SUBSET Nat]
         /\ \A v \in Unit : argRef'[v] \subseteq DOMAIN Formals[v]
         /\ desc' \in [Unit -> SUBSET Nat]
         /\ \A v \in Unit : desc'[v] \subseteq {0} \cup DOMAIN Formals[v]
         /\ work' \in Seq(Frame)
<1>1. CASE Start(f, rest)
  <2>1. work' \in Seq(Frame)
    BY <1>1, WalkFrame, Pushed DEF Start
  <2>2. status' \in [Unit -> {"NOT_VISITED", "VISITED", "FINISHED"}]
    BY <1>1 DEF Start, TypeInv
  <2> QED BY <1>1, <2>1, <2>2 DEF Start, TypeInv
<1>2. CASE Again(f, rest)
  BY <1>2, FinishTypes DEF Again
<1>3. CASE Pass(f, rest)
  BY <1>3 DEF Pass, TypeInv
<1> QED BY <1>1, <1>2, <1>3

(* What reading a statement does to the statements that have been walked. *)
LEMMA ReadingGrows ==
  ASSUME TypeInv, NEW u \in Unit, NEW s \in Statement, Reading(u, s)
  PROVE  /\ work # <<>> /\ work[1] = Walk(u)
         /\ body' \in [Unit -> Seq(Statement)]
         /\ Stmts(u)' = Stmts(u) \cup {s}
         /\ \A v \in Unit : v # u => body'[v] = body[v] /\ Stmts(v)' = Stmts(v)
         /\ \A v \in Unit : Stmts(v) \subseteq Stmts(v)'
         /\ UNCHANGED <<file, at, phase, emitted>>
<1>1. body' = [body EXCEPT ![u] = Append(body[u], s)]
  BY DEF Reading
<1>2. body \in [Unit -> Seq(Statement)]
  BY DEF TypeInv
<1>3. Append(body[u], s) \in Seq(Statement)
  BY <1>2
<1>4. body' \in [Unit -> Seq(Statement)] /\ body'[u] = Append(body[u], s)
      /\ \A v \in Unit : v # u => body'[v] = body[v]
  BY <1>1, <1>2, <1>3
<1>5. body[u] \in Seq(Statement)
  BY <1>2
<1>6. ToSet(Append(body[u], s)) = ToSet(body[u]) \cup {s}
  BY <1>5, SetOfAppend
<1>7. Stmts(u)' = Stmts(u) \cup {s}
  BY <1>4, <1>6 DEF Stmts
<1>8. \A v \in Unit : v # u => Stmts(v)' = Stmts(v)
  BY <1>4 DEF Stmts
<1>9. \A v \in Unit : Stmts(v) \subseteq Stmts(v)'
  BY <1>7, <1>8
<1> QED BY <1>4, <1>7, <1>8, <1>9 DEF Reading

(* What the analysis of a callee is called with. *)
LEMMA VisitCases ==
  ASSUME TypeInv, NEW u \in Unit, NEW s \in Statement, Fits(s), Visits(u, s)
  PROVE  /\ Reading(u, s) /\ s.form \in {"call", "function", "external"} /\ UNCHANGED <<wrapped, blockRef>>
         /\ s.callee \in Unit /\ s.actuals \in Seq(Variable \cup {Expr})
         /\ \E rest \in Seq(Frame) :
              /\ \/ rest = work /\ (s.form = "external" \/ s.actuals = <<>>)
                 \/ rest = <<Args(u, s.callee, s.actuals)>> \o work /\ s.form # "external"
              /\ Start(s.callee, rest) \/ Again(s.callee, rest) \/ Pass(s.callee, rest)
<1>1. Reading(u, s) /\ s.form \in {"call", "function", "external"} /\ UNCHANGED <<wrapped, blockRef>>
  BY DEF Visits
<1>2. s.callee \in Unit /\ s.actuals \in Seq(Variable \cup {Expr})
  BY <1>1 DEF Fits, Statement
<1>3. PICK rest :
        /\ \/ rest = work /\ (s.form = "external" \/ s.actuals = <<>>)
           \/ rest = <<Args(u, s.callee, s.actuals)>> \o work /\ s.form # "external"
        /\ Start(s.callee, rest) \/ Again(s.callee, rest) \/ Pass(s.callee, rest)
  BY DEF Visits
<1>4. Args(u, s.callee, s.actuals) \in Frame /\ work \in Seq(Frame)
  BY <1>2, ArgsFrame DEF TypeInv
<1>5. <<Args(u, s.callee, s.actuals)>> \o work \in Seq(Frame)
  BY <1>4, Pushed
<1>6. rest \in Seq(Frame)
  BY <1>3, <1>4, <1>5
<1> QED BY <1>1, <1>2, <1>3, <1>6

(* Every step keeps the types.                                              *)
LEMMA TypeStep == TypeInv /\ [Next]_vars => TypeInv'
<1> SUFFICES ASSUME TypeInv, Steps PROVE TypeInv'
  BY NextSteps
<1>f. \A u \in Unit : Scope[u] \subseteq Variable
  BY FormalsTypes
<1>at. file[at] \in Unit /\ Len(file) \in Nat
  BY DEF TypeInv
<1>1. CASE Typecheck
  BY <1>1, <1>f, <1>at DEF Typecheck, TypeInv
<1>2. CASE Analyse
  <2>1. <<>> \in Seq(Frame) OBVIOUS
  <2>2. Start(file[at], <<>>) \/ Again(file[at], <<>>)
    BY <1>2, OptScalarCases DEF Analyse
  <2>3. UNCHANGED <<file, at, body, wrapped, blockRef, emitted>> /\ phase' = "emit"
    BY <1>2 DEF Analyse
  <2> QED BY <2>1, <2>2, <2>3, <1>at, VisitTypes DEF TypeInv
<1>3. CASE Emit
  <2>1. at' \in 1..Len(file)
    BY <1>3, <1>at DEF Emit, TypeInv
  <2>2. DOMAIN emitted' = Unit
    BY <1>3 DEF Emit, TypeInv
  <2>3. phase' \in {"typecheck", "done"} /\ UNCHANGED <<file, work, body, status, wrapped, argRef, desc, blockRef>>
    BY <1>3 DEF Emit
  <2> QED BY <2>1, <2>2, <2>3 DEF TypeInv
<1>4. CASE CompareArgs
  <2> DEFINE X == Passed(work[1].unit, work[1].actuals, argRef[work[1].callee], ArrayFormals(work[1].callee))
  <2>1. SetPassByRef(X) /\ work # <<>> /\ work' = Tail(work)
        /\ UNCHANGED <<file, at, phase, body, status, argRef, desc, emitted>>
    BY <1>4 DEF CompareArgs
  <2>2. work[1] \in Frame
    BY <2>1 DEF TypeInv
  <2>3. work[1].unit \in Unit
    BY <2>2 DEF Frame
  <2>4. X \subseteq Variable
    BY <2>3, <1>f DEF Passed
  <2> HIDE DEF X
  <2>5. wrapped' \subseteq Variable /\ NoBlock \notin blockRef'
    BY <2>1, <2>4 DEF SetPassByRef, TypeInv
  <2>6. work' \in Seq(Frame)
    BY <2>1, Popped DEF TypeInv
  <2> QED BY <2>1, <2>5, <2>6 DEF TypeInv
<1>5. CASE EndUnit
  <2>1. Finish(work[1].unit, wrapped) /\ work # <<>> /\ work' = Tail(work)
        /\ UNCHANGED <<file, at, phase, body, wrapped, blockRef, emitted>>
    BY <1>5 DEF EndUnit
  <2>2. work[1] \in Frame
    BY <2>1 DEF TypeInv
  <2>3. work[1].unit \in Unit
    BY <2>2 DEF Frame
  <2>6. work' \in Seq(Frame)
    BY <2>1, Popped DEF TypeInv
  <2> QED BY <2>1, <2>3, <2>6, FinishTypes DEF TypeInv
<1>6. CASE UNCHANGED vars
  BY <1>6 DEF vars, TypeInv
<1>7. ASSUME NEW u \in Unit, NEW s \in Statement, Marks(u, s)
      PROVE  TypeInv'
  <2>1. Reading(u, s) /\ wrapped' = wrapped \cup Due(u, s) /\ UNCHANGED <<work, status, argRef, desc>>
        /\ NoBlock \notin blockRef'
    BY <1>7 DEF Marks, TypeInv
  <2>2. Due(u, s) \subseteq Variable
    BY <1>f DEF Due
  <2>3. body' \in [Unit -> Seq(Statement)] /\ UNCHANGED <<file, at, phase, emitted>>
    BY <2>1, ReadingGrows
  <2> QED BY <2>1, <2>2, <2>3 DEF TypeInv
<1>8. ASSUME NEW u \in Unit, NEW s \in Statement, Fits(s), Visits(u, s)
      PROVE  TypeInv'
  <2>1. Reading(u, s) /\ s.callee \in Unit /\ UNCHANGED <<wrapped, blockRef>>
    BY <1>8, VisitCases
  <2>2. PICK rest \in Seq(Frame) :
          Start(s.callee, rest) \/ Again(s.callee, rest) \/ Pass(s.callee, rest)
    BY <1>8, VisitCases
  <2>3. body' \in [Unit -> Seq(Statement)] /\ UNCHANGED <<file, at, phase, emitted>>
    BY <2>1, ReadingGrows
  <2> QED BY <2>1, <2>2, <2>3, VisitTypes DEF TypeInv
<1> QED BY <1>1, <1>2, <1>3, <1>4, <1>5, <1>6, <1>7, <1>8 DEF Steps

(* TypeInv holds in every state.                                            *)
LEMMA TypeInvariant == Spec => []TypeInv
  BY InitType, TypeStep, PTL DEF Spec

(* The state has the types that TypeOK gives it, for every program. *)
THEOREM TypeCorrect == Spec => []TypeOK
  BY TypeInvariant, TypeEnough, PTL
-----------------------------------------------------------------------------
(* The stack of the recursion. *)

CallForms == {"call", "function", "external", "unwalked"}
CallsIn(b, u) == {s.callee : s \in {t \in ToSet(b[u]) : t.form \in CallForms}}
AcyclicIn(b) == \A C \in (SUBSET Unit) \ {{}} : \E u \in C : CallsIn(b, u) \cap C = {}

(* A frame that compares arguments is on top of the walk that met the call. *)
(* A walk is of a unit that has been visited, and is there because of the   *)
(* unit below it.                                                           *)
ArgsFrameOK(w, b, i) ==
  /\ i + 1 \in 1..Len(w) /\ w[i + 1] = Walk(w[i].unit)
  /\ \E s \in ToSet(b[w[i].unit]) :
       s.form \in {"call", "function"} /\ s.callee = w[i].callee /\ s.actuals = w[i].actuals
WalkFrameOK(w, b, st, i) ==
  /\ w[i] = Walk(w[i].unit) /\ st[w[i].unit] # "NOT_VISITED"
  /\ i + 1 \in 1..Len(w) => w[i].unit \in CallsIn(b, w[i + 1].unit)
StackOK(w, b, st) ==
  \A i \in 1..Len(w) : IF w[i].pending THEN ArgsFrameOK(w, b, i) ELSE WalkFrameOK(w, b, st, i)
StackInv == StackOK(work, body, status)

(* The parts of a frame on the stack.                                       *)
LEMMA FrameTypes ==
  ASSUME NEW w \in Seq(Frame), NEW i \in 1..Len(w)
  PROVE  w[i] \in Frame /\ w[i].unit \in Unit /\ w[i].callee \in Unit /\ w[i].pending \in BOOLEAN
<1>1. w[i] \in Frame
  OBVIOUS
<1> QED BY <1>1 DEF Frame

(* More statements and more visited units do not disturb the stack. *)
LEMMA StackGrows ==
  ASSUME NEW w \in Seq(Frame), NEW b, NEW st, NEW b2, NEW st2, StackOK(w, b, st),
         \A u \in Unit : ToSet(b[u]) \subseteq ToSet(b2[u]),
         \A u \in Unit : st[u] # "NOT_VISITED" => st2[u] # "NOT_VISITED"
  PROVE  StackOK(w, b2, st2)
<1> SUFFICES ASSUME NEW i \in 1..Len(w)
             PROVE  IF w[i].pending THEN ArgsFrameOK(w, b2, i) ELSE WalkFrameOK(w, b2, st2, i)
  BY DEF StackOK
<1>1. \A k \in 1..Len(w) : w[k].unit \in Unit
  BY FrameTypes
<1>2. \A u \in Unit : CallsIn(b, u) \subseteq CallsIn(b2, u)
  BY DEF CallsIn
<1>3. CASE w[i].pending
  <2>1. ArgsFrameOK(w, b, i) BY <1>3 DEF StackOK
  <2> QED BY <1>1, <1>3, <2>1 DEF ArgsFrameOK
<1>4. CASE ~ w[i].pending
  <2>1. WalkFrameOK(w, b, st, i) BY <1>4 DEF StackOK
  <2> QED BY <1>1, <1>2, <1>4, <2>1 DEF WalkFrameOK
<1> QED BY <1>3, <1>4

(* A new frame on top of the stack is judged by what is below it. *)
LEMMA StackPushed ==
  ASSUME NEW w \in Seq(Frame), NEW b, NEW st, NEW x \in Frame, StackOK(w, b, st),
         NEW w2, w2 = <<x>> \o w,
         IF x.pending THEN ArgsFrameOK(w2, b, 1) ELSE WalkFrameOK(w2, b, st, 1)
  PROVE  StackOK(w2, b, st)
<1>1. w2 \in Seq(Frame) /\ Len(w2) = Len(w) + 1 /\ w2[1] = x /\ \A i \in 1..Len(w) : w2[i + 1] = w[i]
  BY Pushed
<1> SUFFICES ASSUME NEW k \in 1..Len(w2)
             PROVE  IF w2[k].pending THEN ArgsFrameOK(w2, b, k) ELSE WalkFrameOK(w2, b, st, k)
  BY DEF StackOK
<1>2. CASE k = 1
  BY <1>1, <1>2
<1>3. CASE k # 1
  <2> DEFINE i == k - 1
  <2>1. i \in 1..Len(w) /\ k = i + 1 /\ Len(w) \in Nat
    BY <1>1, <1>3
  <2> HIDE DEF i
  <2>2. w2[k] = w[i] /\ (i + 1 \in 1..Len(w) => w2[k + 1] = w[i + 1])
    BY <1>1, <2>1
  <2>3. i + 1 \in 1..Len(w) <=> k + 1 \in 1..Len(w2)
    BY <1>1, <2>1
  <2>4. IF w[i].pending THEN ArgsFrameOK(w, b, i) ELSE WalkFrameOK(w, b, st, i)
    BY <2>1 DEF StackOK
  <2>5. CASE w[i].pending
    <3>1. ArgsFrameOK(w, b, i) BY <2>4, <2>5
    <3>2. ArgsFrameOK(w2, b, k) BY <3>1, <2>2, <2>3 DEF ArgsFrameOK
    <3> QED BY <3>2, <2>2, <2>5
  <2>6. CASE ~ w[i].pending
    <3>1. WalkFrameOK(w, b, st, i) BY <2>4, <2>6
    <3>2. WalkFrameOK(w2, b, st, k) BY <3>1, <2>2, <2>3 DEF WalkFrameOK
    <3> QED BY <3>2, <2>2, <2>6
  <2> QED BY <2>5, <2>6
<1> QED BY <1>2, <1>3

(* Taking the top frame leaves a stack in order.                            *)
LEMMA StackPopped ==
  ASSUME NEW w \in Seq(Frame), NEW b, NEW st, w # <<>>, StackOK(w, b, st),
         NEW w2, w2 = Tail(w)
  PROVE  StackOK(w2, b, st)
<1>1. w2 \in Seq(Frame) /\ Len(w2) = Len(w) - 1 /\ Len(w) \in Nat /\ \A i \in 1..Len(w2) : w2[i] = w[i + 1]
  BY Popped
<1> SUFFICES ASSUME NEW k \in 1..Len(w2)
             PROVE  IF w2[k].pending THEN ArgsFrameOK(w2, b, k) ELSE WalkFrameOK(w2, b, st, k)
  BY DEF StackOK
<1> DEFINE i == k + 1
<1>2. i \in 1..Len(w)
  BY <1>1
<1>3. w2[k] = w[i] /\ (k + 1 \in 1..Len(w2) => w2[k + 1] = w[i + 1])
  BY <1>1
<1>4. i + 1 \in 1..Len(w) <=> k + 1 \in 1..Len(w2)
  BY <1>1
<1> HIDE DEF i
<1>5. IF w[i].pending THEN ArgsFrameOK(w, b, i) ELSE WalkFrameOK(w, b, st, i)
  BY <1>2 DEF StackOK
<1>6. CASE w[i].pending
  <2>1. ArgsFrameOK(w, b, i) BY <1>5, <1>6
  <2>2. ArgsFrameOK(w2, b, k) BY <2>1, <1>3, <1>4 DEF ArgsFrameOK
  <2> QED BY <2>2, <1>3, <1>6
<1>7. CASE ~ w[i].pending
  <2>1. WalkFrameOK(w, b, st, i) BY <1>5, <1>7
  <2>2. WalkFrameOK(w2, b, st, k) BY <2>1, <1>3, <1>4 DEF WalkFrameOK
  <2> QED BY <2>2, <1>3, <1>7
<1> QED BY <1>6, <1>7

(* Without a cycle, a unit that is called from the top of the stack is not  *)
(* being walked: the units between its walk and the top would call one      *)
(* another in a circle.                                                     *)
LEMMA NotWalked ==
  ASSUME NEW w \in Seq(Frame), NEW b, NEW st, StackOK(w, b, st), AcyclicIn(b),
         NEW u \in Unit, NEW f \in CallsIn(b, u), w # <<>>, w[1] = Walk(u)
  PROVE  \A k \in 1..Len(w) : w[k] # Walk(f)
<1> SUFFICES ASSUME NEW k \in 1..Len(w), w[k] = Walk(f) PROVE FALSE
  OBVIOUS
<1> DEFINE C == {w[j].unit : j \in 1..k}
<1>1. \A j \in 1..Len(w) : w[j].unit \in Unit /\ w[j].pending \in BOOLEAN
  BY FrameTypes
<1>2. k \in Nat /\ 1 \in 1..k /\ Len(w) \in Nat /\ \A j \in 1..k : j \in 1..Len(w)
  OBVIOUS
<1>3. w[1].unit = u /\ w[k].unit = f
  BY DEF Walk
<1>4. f \in C /\ C # {} /\ C \in SUBSET Unit
  BY <1>1, <1>2, <1>3
<1>5. ASSUME NEW v \in C PROVE CallsIn(b, v) \cap C # {}
  <2> DEFINE T == {j \in 1..k : w[j].unit = v}
  <2>1. T \in SUBSET Nat /\ T # {}
    <3>1. PICK j \in 1..k : w[j].unit = v
      OBVIOUS
    <3>2. j \in T
      BY <3>1
    <3>3. T \in SUBSET Nat
      OBVIOUS
    <3> QED BY <3>2, <3>3
  <2>2. PICK m \in T : \A y \in T : m <= y
    <3> HIDE DEF T
    <3> QED BY <2>1, Least
  <2>3. m \in 1..k /\ w[m].unit = v
    BY <2>2
  <2>4. CASE m = 1
    BY <1>3, <1>4, <2>3, <2>4
  <2>5. CASE m # 1
    <3> DEFINE p == m - 1
    <3>1. p \in 1..k /\ p + 1 = m /\ ~ (m <= p)
      BY <2>3, <2>5
    <3> HIDE DEF p
    <3>2. w[p].unit # v
      BY <2>2, <3>1
    <3>3. p \in 1..Len(w) /\ p + 1 \in 1..Len(w)
      BY <1>2, <2>3, <3>1
    <3>4. ~ w[p].pending
      <4> SUFFICES ASSUME w[p].pending PROVE FALSE
        OBVIOUS
      <4>1. w[m] = Walk(w[p].unit)
        BY <3>1, <3>3 DEF StackOK, ArgsFrameOK
      <4>2. w[m].unit = w[p].unit
        BY <4>1 DEF Walk
      <4> QED BY <4>2, <3>2, <2>3
    <3>5. w[p].unit \in CallsIn(b, v)
      BY <3>1, <3>3, <3>4, <2>3 DEF StackOK, WalkFrameOK
    <3>6. w[p].unit \in C
      BY <3>1
    <3> QED BY <3>5, <3>6
  <2> QED BY <2>4, <2>5
<1>6. C \in (SUBSET Unit) \ {{}}
  BY <1>4
<1> HIDE DEF C
<1> QED BY <1>5, <1>6 DEF AcyclicIn

-----------------------------------------------------------------------------
(* What holds of the units on every call graph.                             *)

(* The unit at position k has been analysed, at least in part. *)
Analysed(k) == k < at \/ phase = "done" \/ (k = at /\ phase = "emit")
Checked(k) == k < at \/ (k = at /\ phase # "typecheck")

UnitsInv ==
  /\ \A u \in Unit : status[u] = "NOT_VISITED" => Stmts(u) = {}
  /\ \A u \in Unit : \A s \in Stmts(u) : Fits(s)
  /\ \A u \in Unit : \A s \in Stmts(u) :
        s.form \in {"call", "function"} => status[s.callee] # "NOT_VISITED"
  /\ work # <<>> => phase = "emit"
  /\ phase = "done" => at = Len(file)
  /\ \A k \in 1..Len(file) : Analysed(k) => status[file[k]] # "NOT_VISITED"
  /\ \A k \in 1..Len(file) : Checked(k) =>
        \A x \in Scope[file[k]] : Block[x] # NoBlock => x \in wrapped

GraphInv == StackInv /\ NoReentry /\ UnitsInv

(* The first state.                                                         *)
LEMMA InitGraph == Init => GraphInv
<1> SUFFICES ASSUME Init PROVE GraphInv
  OBVIOUS
<1>1. Len(work) = 0 /\ DOMAIN work = {}
  BY DEF Init
<1>2. StackInv /\ NoReentry
  BY <1>1 DEF StackInv, StackOK, NoReentry
<1>3. \A u \in Unit : Stmts(u) = {}
  BY DEF Init, Stmts, ToSet
<1>4. file \in Seq(Unit) /\ at = 1 /\ phase = "typecheck"
  BY DEF Init
<1>5. \A k \in 1..Len(file) : ~ Analysed(k) /\ ~ Checked(k)
  BY <1>4 DEF Analysed, Checked
<1> QED BY <1>2, <1>3, <1>5 DEF GraphInv, UnitsInv, Init

(* A finished unit has been visited. *)
LEMMA FinishVisits ==
  ASSUME TypeInv, NEW u \in Unit, Finish(u, wrapped)
  PROVE  \A v \in Unit : status'[v] = IF v = u THEN "FINISHED" ELSE status[v]
  BY DEF Finish, TypeInv

(* optScalar leaves its unit visited, and no unit less than it was.         *)
LEMMA VisitVisits ==
  ASSUME TypeInv, NEW f \in Unit, NEW rest,
         Start(f, rest) \/ Again(f, rest) \/ Pass(f, rest)
  PROVE  /\ status'[f] # "NOT_VISITED"
         /\ \A v \in Unit : status[v] # "NOT_VISITED" => status'[v] # "NOT_VISITED"
<1>1. CASE Start(f, rest)
  BY <1>1 DEF Start, TypeInv
<1>2. CASE Again(f, rest)
  BY <1>2, FinishVisits DEF Again
<1>3. CASE Pass(f, rest)
  BY <1>3 DEF Pass
<1> QED BY <1>1, <1>2, <1>3
(* At most one walk of each unit is on the stack. *)
OneWalk(w) ==
  \A i, j \in 1..Len(w) :
    ~ w[i].pending /\ ~ w[j].pending /\ w[i].unit = w[j].unit => i = j

(* NoReentry is OneWalk of the stack of the state.                          *)
LEMMA OneWalkHere == ASSUME TypeInv PROVE NoReentry <=> OneWalk(work)
<1>1. DOMAIN work = 1..Len(work)
  BY DEF TypeInv
<1> QED BY <1>1 DEF NoReentry, OneWalk

(* A frame that walks a unit nobody walks can be pushed.                    *)
LEMMA OneWalkPushed ==
  ASSUME NEW w \in Seq(Frame), NEW x \in Frame, OneWalk(w), NEW w2, w2 = <<x>> \o w,
         ~ x.pending => \A i \in 1..Len(w) : ~ w[i].pending => w[i].unit # x.unit
  PROVE  OneWalk(w2)
<1>1. Len(w2) = Len(w) + 1 /\ Len(w) \in Nat /\ w2[1] = x /\ \A i \in 1..Len(w) : w2[i + 1] = w[i]
  BY Pushed
<1> SUFFICES ASSUME NEW i \in 1..Len(w2), NEW j \in 1..Len(w2),
                    ~ w2[i].pending, ~ w2[j].pending, w2[i].unit = w2[j].unit
             PROVE  i = j
  BY DEF OneWalk
<1>2. \A k \in 1..Len(w2) : k # 1 => k - 1 \in 1..Len(w) /\ w2[k] = w[k - 1]
  <2> TAKE k \in 1..Len(w2)
  <2> HAVE k # 1
  <2>1. k - 1 \in 1..Len(w) BY <1>1
  <2>2. w2[(k - 1) + 1] = w[k - 1] BY <2>1, <1>1
  <2> QED BY <2>1, <2>2
<1>3. CASE i = 1
  BY <1>1, <1>2, <1>3
<1>4. CASE j = 1
  BY <1>1, <1>2, <1>4
<1>5. CASE i # 1 /\ j # 1
  <2>1. i - 1 \in 1..Len(w) /\ w2[i] = w[i - 1] /\ j - 1 \in 1..Len(w) /\ w2[j] = w[j - 1]
    BY <1>2, <1>5
  <2>2. ~ w[i - 1].pending /\ ~ w[j - 1].pending /\ w[i - 1].unit = w[j - 1].unit
    BY <2>1
  <2>3. i - 1 = j - 1
    BY <2>1, <2>2 DEF OneWalk
  <2> QED BY <2>3
<1> QED BY <1>3, <1>4, <1>5

(* Taking the top frame leaves one walk of each unit.                       *)
LEMMA OneWalkPopped ==
  ASSUME NEW w \in Seq(Frame), w # <<>>, OneWalk(w), NEW w2, w2 = Tail(w)
  PROVE  OneWalk(w2)
<1>1. Len(w2) = Len(w) - 1 /\ Len(w) \in Nat /\ \A i \in 1..Len(w2) : w2[i] = w[i + 1]
  BY Popped
<1> SUFFICES ASSUME NEW i \in 1..Len(w2), NEW j \in 1..Len(w2),
                    ~ w2[i].pending, ~ w2[j].pending, w2[i].unit = w2[j].unit
             PROVE  i = j
  BY DEF OneWalk
<1>2. i + 1 \in 1..Len(w) /\ j + 1 \in 1..Len(w) /\ w2[i] = w[i + 1] /\ w2[j] = w[j + 1]
  BY <1>1
<1>3. i + 1 = j + 1
  BY <1>2 DEF OneWalk
<1> QED BY <1>3

(* Walks on the stack are of units that have been visited. *)
LEMMA WalksVisited ==
  ASSUME NEW w \in Seq(Frame), NEW b, NEW st, StackOK(w, b, st)
  PROVE  \A i \in 1..Len(w) : ~ w[i].pending => w[i] = Walk(w[i].unit) /\ st[w[i].unit] # "NOT_VISITED"
  BY DEF StackOK, WalkFrameOK

(* A call of unit f, from the walk of u or by the parser.                   *)
LEMMA VisitStack ==
  ASSUME TypeInv, NEW f \in Unit, NEW rest \in Seq(Frame), NEW b,
         StackOK(rest, b, status), OneWalk(rest),
         rest # <<>> => f \in CallsIn(b, rest[1].unit),
         Start(f, rest) \/ Again(f, rest) \/ Pass(f, rest)
  PROVE  StackOK(work', b, status') /\ OneWalk(work')
<1>1. status'[f] # "NOT_VISITED"
      /\ \A v \in Unit : status[v] # "NOT_VISITED" => status'[v] # "NOT_VISITED"
  BY VisitVisits
<1>2. StackOK(rest, b, status')
  BY <1>1, StackGrows
<1>3. CASE work' = rest
  BY <1>2, <1>3
<1>4. CASE Start(f, rest)
  <2>1. work' = <<Walk(f)>> \o rest /\ status[f] = "NOT_VISITED"
    BY <1>4 DEF Start
  <2>2. Walk(f) \in Frame /\ Walk(f).unit = f /\ ~ Walk(f).pending
    BY WalkFrame
  <2>3. Len(work') = Len(rest) + 1 /\ Len(rest) \in Nat /\ work'[1] = Walk(f)
        /\ \A i \in 1..Len(rest) : work'[i + 1] = rest[i]
    BY <2>1, <2>2, Pushed
  <2>4. 2 \in 1..Len(work') => f \in CallsIn(b, work'[2].unit)
    <3> SUFFICES ASSUME 2 \in 1..Len(work') PROVE f \in CallsIn(b, work'[2].unit)
      OBVIOUS
    <3>1. 1 \in 1..Len(rest) BY <2>3
    <3>2. rest # <<>> /\ work'[1 + 1] = rest[1] BY <3>1, <2>3
    <3> QED BY <3>2
  <2>5. WalkFrameOK(work', b, status', 1)
    BY <1>1, <2>2, <2>3, <2>4 DEF WalkFrameOK
  <2>6. StackOK(work', b, status')
    BY <1>2, <2>1, <2>2, <2>5, StackPushed
  <2>7. \A i \in 1..Len(rest) : ~ rest[i].pending => rest[i].unit # f
    BY <2>1, WalksVisited
  <2>8. OneWalk(work')
    BY <2>1, <2>2, <2>7, OneWalkPushed
  <2> QED BY <2>6, <2>8
<1> QED BY <1>3, <1>4 DEF Again, Pass

(* What a statement that calls f finds below the walk of f.                 *)
LEMMA RestStack ==
  ASSUME TypeInv, NEW b, StackOK(work, b, status), OneWalk(work),
         NEW u \in Unit, NEW s \in Statement, s.callee \in Unit, s.actuals \in Seq(Variable \cup {Expr}),
         work # <<>>, work[1] = Walk(u), s \in ToSet(b[u]), s.form \in {"call", "function", "external"},
         NEW rest, \/ rest = work
                   \/ rest = <<Args(u, s.callee, s.actuals)>> \o work /\ s.form # "external"
  PROVE  rest # <<>> /\ rest[1].unit = u /\ StackOK(rest, b, status) /\ OneWalk(rest)
<1>1. work \in Seq(Frame) /\ Walk(u).unit = u
  BY WalkFrame DEF TypeInv
<1>2. CASE rest = work
  BY <1>1, <1>2
<1>3. CASE rest = <<Args(u, s.callee, s.actuals)>> \o work /\ s.form # "external"
  <2> DEFINE x == Args(u, s.callee, s.actuals)
  <2>1. x \in Frame /\ x.unit = u /\ x.callee = s.callee /\ x.actuals = s.actuals /\ x.pending
    BY ArgsFrame
  <2>2. rest = <<x>> \o work
    BY <1>3
  <2> HIDE DEF x
  <2>3. Len(rest) = Len(work) + 1 /\ Len(work) \in Nat /\ Len(work) > 0 /\ rest[1] = x
        /\ \A i \in 1..Len(work) : rest[i + 1] = work[i]
    BY <1>1, <2>1, <2>2, Pushed, Popped
  <2>4. 1 \in 1..Len(work) /\ 1 + 1 \in 1..Len(rest)
    BY <2>3
  <2>5. rest[1 + 1] = Walk(u)
    BY <2>3, <2>4
  <2>6. ArgsFrameOK(rest, b, 1)
    BY <1>3, <2>1, <2>3, <2>4, <2>5 DEF ArgsFrameOK
  <2>7. StackOK(rest, b, status)
    BY <1>1, <2>1, <2>2, <2>6, StackPushed
  <2>8. OneWalk(rest)
    BY <1>1, <2>1, <2>2, OneWalkPushed
  <2>9. rest # <<>>
    BY <2>3, <2>4
  <2> QED BY <2>1, <2>3, <2>7, <2>8, <2>9
<1> QED BY <1>2, <1>3

(* The stack after a step. *)
LEMMA StackStep == TypeInv /\ GraphInv /\ Steps => StackOK(work', body', status') /\ OneWalk(work')
<1> SUFFICES ASSUME TypeInv, GraphInv, Steps
             PROVE  StackOK(work', body', status') /\ OneWalk(work')
  OBVIOUS
<1>0. StackOK(work, body, status) /\ OneWalk(work) /\ work \in Seq(Frame) /\ file[at] \in Unit
  BY OneWalkHere DEF GraphInv, StackInv, TypeInv
<1>1. CASE UNCHANGED <<work, body, status>>
  BY <1>0, <1>1
<1>2. CASE Analyse
  <2>1. work = <<>> /\ body' = body
    BY <1>2 DEF Analyse, GraphInv, UnitsInv
  <2>2. Start(file[at], work) \/ Again(file[at], work)
    BY <1>2, <2>1, OptScalarCases DEF Analyse
  <2> QED BY <1>0, <2>1, <2>2, VisitStack
<1>3. CASE CompareArgs
  <2>1. work # <<>> /\ work' = Tail(work) /\ body' = body /\ status' = status
    BY <1>3 DEF CompareArgs
  <2> QED BY <1>0, <2>1, StackPopped, OneWalkPopped
<1>4. CASE EndUnit
  <2>1. work # <<>> /\ work' = Tail(work) /\ body' = body /\ Finish(work[1].unit, wrapped)
    BY <1>4 DEF EndUnit
  <2>2. 1 \in 1..Len(work)
    BY <1>0, <2>1, Popped
  <2>3. work[1].unit \in Unit
    BY <1>0, <2>2, FrameTypes
  <2>4. \A v \in Unit : status[v] # "NOT_VISITED" => status'[v] # "NOT_VISITED"
    BY <2>1, <2>3, FinishVisits
  <2>5. StackOK(work, body, status')
    BY <1>0, <2>4, StackGrows
  <2> QED BY <1>0, <2>1, <2>5, StackPopped, OneWalkPopped
<1>5. ASSUME NEW u \in Unit, NEW s \in Statement, Marks(u, s)
      PROVE  StackOK(work', body', status') /\ OneWalk(work')
  <2>1. Reading(u, s) /\ UNCHANGED <<work, status>>
    BY <1>5 DEF Marks
  <2>2. \A v \in Unit : ToSet(body[v]) \subseteq ToSet(body'[v])
    BY <2>1, ReadingGrows DEF Stmts
  <2>3. StackOK(work, body', status)
    BY <1>0, <2>2, StackGrows
  <2> QED BY <1>0, <2>1, <2>3
<1>6. ASSUME NEW u \in Unit, NEW s \in Statement, Fits(s), Visits(u, s)
      PROVE  StackOK(work', body', status') /\ OneWalk(work')
  <2>1. Reading(u, s) /\ s.form \in {"call", "function", "external"}
        /\ s.callee \in Unit /\ s.actuals \in Seq(Variable \cup {Expr})
    BY <1>6, VisitCases
  <2>2. PICK rest \in Seq(Frame) :
          /\ \/ rest = work
             \/ rest = <<Args(u, s.callee, s.actuals)>> \o work /\ s.form # "external"
          /\ Start(s.callee, rest) \/ Again(s.callee, rest) \/ Pass(s.callee, rest)
    BY <1>6, VisitCases
  <2>3. work # <<>> /\ work[1] = Walk(u) /\ s \in Stmts(u)'
        /\ \A v \in Unit : Stmts(v) \subseteq Stmts(v)'
    BY <2>1, ReadingGrows
  <2>s. s \in ToSet(body'[u]) /\ \A v \in Unit : ToSet(body[v]) \subseteq ToSet(body'[v])
    BY <2>3 DEF Stmts
  <2>t. StackOK(work, body', status)
    BY <1>0, <2>s, StackGrows
  <2> DEFINE b == body'
  <2>4. s \in ToSet(b[u]) /\ StackOK(work, b, status)
    BY <2>s, <2>t
  <2>5. s.callee \in CallsIn(b, u)
    BY <2>1, <2>4 DEF CallsIn, CallForms
  <2> HIDE DEF b
  <2>6. rest # <<>> /\ rest[1].unit = u /\ StackOK(rest, b, status) /\ OneWalk(rest)
    BY <1>0, <2>1, <2>2, <2>3, <2>4, RestStack
  <2>7. StackOK(work', b, status') /\ OneWalk(work')
    BY <2>1, <2>2, <2>5, <2>6, VisitStack
  <2> QED BY <2>7 DEF b
<1> QED BY <1>1, <1>2, <1>3, <1>4, <1>5, <1>6 DEF Steps, Typecheck, Emit, vars
(* The units after a step. *)
LEMMA UnitsStep == TypeInv /\ GraphInv /\ Steps => UnitsInv'
<1> SUFFICES ASSUME TypeInv, GraphInv, Steps PROVE UnitsInv'
  OBVIOUS
<1>0. /\ work \in Seq(Frame) /\ file \in Seq(Unit) /\ Len(file) \in Nat /\ at \in 1..Len(file)
      /\ \A k \in 1..Len(file) : file[k] \in Unit
  BY DEF TypeInv
<1>u. UnitsInv /\ StackOK(work, body, status)
  BY DEF GraphInv, StackInv
<1>k. (* statements, statuses and stack as they were *)
      ASSUME \A v \in Unit : Stmts(v)' = Stmts(v),
             \A v \in Unit : status[v] # "NOT_VISITED" => status'[v] # "NOT_VISITED"
      PROVE  /\ \A v \in Unit : status'[v] = "NOT_VISITED" => Stmts(v)' = {}
             /\ \A v \in Unit : \A s \in Stmts(v)' : Fits(s)
             /\ \A v \in Unit : \A s \in Stmts(v)' :
                  s.form \in {"call", "function"} => status'[s.callee] # "NOT_VISITED"
  <2>1. \A v \in Unit : \A s \in Stmts(v) : s.form \in {"call", "function"} =>
          s.callee \in Unit /\ status[s.callee] # "NOT_VISITED"
    BY <1>u DEF UnitsInv, Fits
  <2> QED BY <1>k, <1>u, <2>1 DEF UnitsInv
<1>1. CASE Typecheck
  <2>1. /\ phase = "typecheck" /\ phase' = "optimize"
        /\ wrapped' = wrapped \cup {x \in Scope[file[at]] : Block[x] # NoBlock}
        /\ UNCHANGED <<file, at, work, body, status>>
    BY <1>1 DEF Typecheck
  <2>2. \A v \in Unit : Stmts(v)' = Stmts(v)
    BY <2>1 DEF Stmts
  <2>3. work = <<>>
    BY <1>u, <2>1 DEF UnitsInv
  <2>4. \A k \in 1..Len(file) : Analysed(k)' => Analysed(k)
    BY <2>1 DEF Analysed
  <2>5. \A k \in 1..Len(file) : Checked(k)' => Checked(k) \/ k = at
    BY <2>1 DEF Checked
  <2>6. \A k \in 1..Len(file) : Checked(k)' => \A x \in Scope[file[k]] : Block[x] # NoBlock => x \in wrapped'
    BY <1>u, <2>1, <2>5 DEF UnitsInv
  <2> QED BY <1>k, <1>u, <2>1, <2>2, <2>3, <2>4, <2>6 DEF UnitsInv
<1>2. CASE Analyse
  <2>1. /\ phase = "optimize" /\ phase' = "emit" /\ UNCHANGED <<file, at, body, wrapped>>
        /\ OptScalar(file[at], <<>>)
    BY <1>2 DEF Analyse
  <2>2. \A v \in Unit : Stmts(v)' = Stmts(v)
    BY <2>1 DEF Stmts
  <2>3. status'[file[at]] # "NOT_VISITED"
        /\ \A v \in Unit : status[v] # "NOT_VISITED" => status'[v] # "NOT_VISITED"
    <3>1. Start(file[at], <<>>) \/ Again(file[at], <<>>)
      BY <2>1, OptScalarCases
    <3>2. file[at] \in Unit
      BY <1>0
    <3> QED BY <3>1, <3>2, VisitVisits
  <2>4. \A k \in 1..Len(file) : Analysed(k)' => Analysed(k) \/ k = at
    BY <2>1 DEF Analysed
  <2>5. \A k \in 1..Len(file) : Checked(k)' => Checked(k)
    BY <2>1 DEF Checked
  <2>6. \A k \in 1..Len(file) : Analysed(k)' => status'[file[k]] # "NOT_VISITED"
    BY <1>0, <1>u, <2>3, <2>4 DEF UnitsInv
  <2> QED BY <1>k, <1>u, <2>1, <2>2, <2>3, <2>5, <2>6 DEF UnitsInv
<1>3. CASE Emit
  <2>1. /\ phase = "emit" /\ work = <<>> /\ UNCHANGED <<file, work, body, status, wrapped>>
        /\ \/ at' = at + 1 /\ phase' = "typecheck"
           \/ at' = at /\ phase' = "done" /\ at = Len(file)
    BY <1>0, <1>3 DEF Emit
  <2>2. \A v \in Unit : Stmts(v)' = Stmts(v)
    BY <2>1 DEF Stmts
  <2>4. \A k \in 1..Len(file) : Analysed(k)' => Analysed(k)
    BY <1>0, <2>1 DEF Analysed
  <2>5. \A k \in 1..Len(file) : Checked(k)' => Checked(k)
    BY <1>0, <2>1 DEF Checked
  <2> QED BY <1>k, <1>u, <2>1, <2>2, <2>4, <2>5 DEF UnitsInv
<1>4. CASE CompareArgs
  <2>1. work # <<>> /\ wrapped \subseteq wrapped' /\ UNCHANGED <<file, at, phase, body, status>>
    BY <1>4 DEF CompareArgs, SetPassByRef
  <2>2. \A v \in Unit : Stmts(v)' = Stmts(v)
    BY <2>1 DEF Stmts
  <2>4. \A k \in 1..Len(file) : (Analysed(k)' <=> Analysed(k)) /\ (Checked(k)' <=> Checked(k))
    BY <2>1 DEF Analysed, Checked
  <2> QED BY <1>k, <1>u, <2>1, <2>2, <2>4 DEF UnitsInv
<1>5. CASE EndUnit
  <2>1. work # <<>> /\ Finish(work[1].unit, wrapped) /\ UNCHANGED <<file, at, phase, body, wrapped>>
    BY <1>5 DEF EndUnit
  <2>2. \A v \in Unit : Stmts(v)' = Stmts(v)
    BY <2>1 DEF Stmts
  <2>3. work[1].unit \in Unit
    <3>1. 1 \in 1..Len(work) BY <1>0, <2>1, Popped
    <3> QED BY <1>0, <3>1, FrameTypes
  <2>4. \A v \in Unit : status[v] # "NOT_VISITED" => status'[v] # "NOT_VISITED"
    BY <2>1, <2>3, FinishVisits
  <2>5. \A k \in 1..Len(file) : (Analysed(k)' <=> Analysed(k)) /\ (Checked(k)' <=> Checked(k))
    BY <2>1 DEF Analysed, Checked
  <2> QED BY <1>0, <1>k, <1>u, <2>1, <2>2, <2>4, <2>5 DEF UnitsInv
<1>6. CASE UNCHANGED vars
  <2>1. UNCHANGED <<file, at, phase, work, body, status, wrapped>>
    BY <1>6 DEF vars
  <2> QED BY <1>u, <2>1 DEF UnitsInv, Stmts, Analysed, Checked
<1>r. (* the unit whose statement is read is being walked *)
      ASSUME NEW u \in Unit, work # <<>>, work[1] = Walk(u)
      PROVE  status[u] # "NOT_VISITED"
  <2>1. 1 \in 1..Len(work) BY <1>0, <1>r, Popped
  <2>2. work[1].unit = u /\ ~ work[1].pending BY <1>r, WalkFrame
  <2> QED BY <1>0, <1>u, <2>1, <2>2, WalksVisited
<1>7. ASSUME NEW u \in Unit, NEW s \in Statement, Fits(s), Marks(u, s)
      PROVE  UnitsInv'
  <2>1. /\ Reading(u, s) /\ s.form \notin {"call", "function"}
        /\ wrapped \subseteq wrapped' /\ UNCHANGED <<work, status>>
    BY <1>7 DEF Marks
  <2>2. /\ work # <<>> /\ work[1] = Walk(u) /\ Stmts(u)' = Stmts(u) \cup {s}
        /\ \A v \in Unit : v # u => Stmts(v)' = Stmts(v)
        /\ UNCHANGED <<file, at, phase>>
    BY <2>1, ReadingGrows
  <2>3. status[u] # "NOT_VISITED"
    BY <1>r, <2>2
  <2>4. \A k \in 1..Len(file) : (Analysed(k)' <=> Analysed(k)) /\ (Checked(k)' <=> Checked(k))
    BY <2>2 DEF Analysed, Checked
  <2>5. \A v \in Unit : \A t \in Stmts(v)' : t \in Stmts(v) \/ t = s
    BY <2>2
  <2> QED BY <1>7, <1>u, <2>1, <2>2, <2>3, <2>4, <2>5 DEF UnitsInv
<1>8. ASSUME NEW u \in Unit, NEW s \in Statement, Fits(s), Visits(u, s)
      PROVE  UnitsInv'
  <2>1. Reading(u, s) /\ s.callee \in Unit /\ UNCHANGED wrapped
    BY <1>8, VisitCases
  <2>2. /\ work # <<>> /\ work[1] = Walk(u) /\ Stmts(u)' = Stmts(u) \cup {s}
        /\ \A v \in Unit : v # u => Stmts(v)' = Stmts(v)
        /\ UNCHANGED <<file, at, phase>>
    BY <2>1, ReadingGrows
  <2>3. PICK rest : Start(s.callee, rest) \/ Again(s.callee, rest) \/ Pass(s.callee, rest)
    BY <1>8, VisitCases
  <2>4. /\ status'[s.callee] # "NOT_VISITED"
        /\ \A v \in Unit : status[v] # "NOT_VISITED" => status'[v] # "NOT_VISITED"
    BY <2>1, <2>3, VisitVisits
  <2>5. status'[u] # "NOT_VISITED"
    BY <1>r, <2>2, <2>4
  <2>6. \A k \in 1..Len(file) : (Analysed(k)' <=> Analysed(k)) /\ (Checked(k)' <=> Checked(k))
    BY <2>2 DEF Analysed, Checked
  <2>7. \A v \in Unit : \A t \in Stmts(v)' : t \in Stmts(v) \/ t = s
    BY <2>2
  <2>8. \A v \in Unit : \A t \in Stmts(v)' : Fits(t)
    BY <1>8, <1>u, <2>7 DEF UnitsInv
  <2>9. \A v \in Unit : \A t \in Stmts(v)' :
          t.form \in {"call", "function"} => status'[t.callee] # "NOT_VISITED"
    <3> SUFFICES ASSUME NEW v \in Unit, NEW t \in Stmts(v)', t.form \in {"call", "function"}
                 PROVE  status'[t.callee] # "NOT_VISITED"
      OBVIOUS
    <3>1. CASE t = s
      BY <2>4, <3>1
    <3>2. CASE t \in Stmts(v)
      <4>1. t.callee \in Unit /\ status[t.callee] # "NOT_VISITED"
        BY <1>u, <3>2 DEF UnitsInv, Fits
      <4> QED BY <2>4, <4>1
    <3> QED BY <2>7, <3>1, <3>2
  <2>10. \A v \in Unit : status'[v] = "NOT_VISITED" => Stmts(v)' = {}
    BY <1>u, <2>2, <2>4, <2>5 DEF UnitsInv
  <2>11. phase' = "emit"
    BY <1>u, <2>2 DEF UnitsInv
  <2>12. \A k \in 1..Len(file) : Analysed(k)' => status'[file[k]] # "NOT_VISITED"
    BY <1>0, <1>u, <2>4, <2>6 DEF UnitsInv
  <2> QED BY <1>u, <2>1, <2>2, <2>6, <2>8, <2>9, <2>10, <2>11, <2>12 DEF UnitsInv
<1> QED BY <1>1, <1>2, <1>3, <1>4, <1>5, <1>6, <1>7, <1>8 DEF Steps

(* Every step keeps the stack and the units in order.                       *)
LEMMA GraphStep == TypeInv /\ GraphInv /\ [Next]_vars => GraphInv'
<1> SUFFICES ASSUME TypeInv, GraphInv, [Next]_vars PROVE GraphInv'
  OBVIOUS
<1>1. StackOK(work', body', status') /\ OneWalk(work') /\ UnitsInv'
  BY NextSteps, StackStep, UnitsStep
<1>2. StackInv'
  BY <1>1 DEF StackInv
<1>3. TypeInv'
  BY TypeStep
<1>4. DOMAIN work' = 1..Len(work')
  BY <1>3 DEF TypeInv
<1>5. NoReentry'
  BY <1>1, <1>4 DEF NoReentry, OneWalk
<1> QED BY <1>1, <1>2, <1>5 DEF GraphInv

(* GraphInv holds in every state.                                           *)
LEMMA GraphInvariant == Spec => [](TypeInv /\ GraphInv)
<1>1. Init => TypeInv /\ GraphInv
  BY InitType, InitGraph
<1>2. TypeInv /\ GraphInv /\ [Next]_vars => (TypeInv /\ GraphInv)'
  BY TypeStep, GraphStep
<1> QED BY <1>1, <1>2, PTL DEF Spec

(* optScalar never starts a second walk over a unit's statements while one  *)
(* is active, for every file and every call graph, cycles included.         *)
THEOREM NoReentryCorrect == Spec => []NoReentry
<1>1. GraphInv => NoReentry
  BY DEF GraphInv
<1> QED BY <1>1, GraphInvariant, PTL

-----------------------------------------------------------------------------
(* Nothing is wrapped without need.                                         *)

(* What has been wrapped is in every closed set, and so are the formals     *)
(* whose nodes have been marked.                                            *)
LeastInv ==
  \A W \in SUBSET Variable : Closed(W) =>
     wrapped \subseteq W /\ \A u \in Unit : \A i \in argRef[u] : Formals[u][i] \in W

(* More statements ask for more.                                            *)
LEMMA ClosedShrinks ==
  ASSUME \A u \in Unit : Stmts(u) \subseteq Stmts(u)', NEW W, Closed(W)'
  PROVE  Closed(W)
<1> SUFFICES ASSUME NEW u \in Unit, NEW x \in MustWrap(u, W) PROVE x \in W
  BY DEF Closed
<1>1. UnitCalls(u) \subseteq UnitCalls(u)'
  BY DEF UnitCalls
<1>2. Assigned(u) \subseteq Assigned(u)'
  BY DEF Assigned
<1>3. x \in MustWrap(u, W)'
  BY <1>1, <1>2 DEF MustWrap
<1> QED BY <1>3 DEF Closed

(* The formals that optScalar marks at its end are in every closed set.     *)
LEMMA FinishLeast ==
  ASSUME TypeInv, LeastInv, NEW u \in Unit, Finish(u, wrapped), NEW W \in SUBSET Variable, Closed(W)
  PROVE  \A v \in Unit : \A i \in argRef'[v] : Formals[v][i] \in W
<1>1. wrapped \subseteq W /\ \A v \in Unit : \A i \in argRef[v] : Formals[v][i] \in W
  BY DEF LeastInv
<1>2. argRef' = [argRef EXCEPT ![u] = argRef[u] \cup {i \in DOMAIN Formals[u] : Formals[u][i] \in wrapped}]
  BY DEF Finish
<1>3. \A v \in Unit : \A i \in argRef'[v] :
        i \in argRef[v] \/ (v = u /\ Formals[u][i] \in wrapped)
  BY <1>2 DEF TypeInv
<1> QED BY <1>1, <1>3

(* Every step keeps LeastInv.                                               *)
LEMMA LeastStep == TypeInv /\ GraphInv /\ LeastInv /\ [Next]_vars => LeastInv'
<1> SUFFICES ASSUME TypeInv, GraphInv, LeastInv, Steps,
                    NEW W \in SUBSET Variable, Closed(W)'
             PROVE  /\ wrapped' \subseteq W
                    /\ \A u \in Unit : \A i \in argRef'[u] : Formals[u][i] \in W
  BY NextSteps DEF LeastInv
<1>0. /\ work \in Seq(Frame) /\ UnitsInv /\ StackOK(work, body, status)
      /\ file[at] \in Unit
  BY DEF GraphInv, StackInv, TypeInv
<1>k. ASSUME body' = body PROVE Closed(W)
  BY <1>k, ClosedShrinks DEF Stmts
<1>1. CASE Typecheck
  <2>1. wrapped' = wrapped \cup {x \in Scope[file[at]] : Block[x] # NoBlock} /\ UNCHANGED <<body, argRef>>
    BY <1>1 DEF Typecheck
  <2>2. {x \in Scope[file[at]] : Block[x] # NoBlock} \subseteq MustWrap(file[at], W)
    BY DEF MustWrap
  <2>3. Closed(W)
    BY <1>k, <2>1
  <2> QED BY <1>0, <2>1, <2>2, <2>3 DEF LeastInv, Closed
<1>2. CASE Analyse
  <2>1. UNCHANGED <<body, wrapped>> /\ (Start(file[at], <<>>) \/ Again(file[at], <<>>))
    BY <1>2, OptScalarCases DEF Analyse
  <2>2. Closed(W)
    BY <1>k, <2>1
  <2>3. CASE Start(file[at], <<>>)
    BY <2>1, <2>2, <2>3 DEF Start, LeastInv
  <2>4. CASE Again(file[at], <<>>)
    BY <1>0, <2>1, <2>2, <2>4, FinishLeast DEF Again, LeastInv
  <2> QED BY <2>1, <2>3, <2>4
<1>3. CASE UNCHANGED <<body, wrapped, argRef>>
  <2>1. Closed(W)
    BY <1>3, <1>k
  <2> QED BY <1>3, <2>1 DEF LeastInv
<1>4. CASE CompareArgs
  <2> DEFINE u == work[1].unit
             f == work[1].callee
             actuals == work[1].actuals
             X == Passed(u, actuals, argRef[f], ArrayFormals(f))
  <2>1. work # <<>> /\ work[1].pending /\ wrapped' = wrapped \cup X /\ UNCHANGED <<body, argRef>>
    BY <1>4 DEF CompareArgs, SetPassByRef
  <2>2. 1 \in 1..Len(work)
    BY <1>0, <2>1, Popped
  <2>3. u \in Unit /\ f \in Unit
    BY <1>0, <2>2, FrameTypes
  <2>4. PICK s \in Stmts(u) : s.form \in {"call", "function"} /\ s.callee = f /\ s.actuals = actuals
    BY <1>0, <2>1, <2>2 DEF StackOK, ArgsFrameOK, Stmts
  <2>5. s \in UnitCalls(u)
    BY <2>4 DEF UnitCalls
  <2>6. Closed(W)
    BY <1>k, <2>1
  <2> HIDE DEF u, f, actuals
  <2>7. \A i \in argRef[f] \cup ArrayFormals(f) : Formals[f][i] \in W \cup Arrays
    BY <2>3, <2>6 DEF LeastInv, ArrayFormals
  <2>8. X \subseteq MustWrap(u, W)
    <3> SUFFICES ASSUME NEW j \in DOMAIN actuals, actuals[j] \in Scope[u] \ Arrays,
                        j \in argRef[f] \cup ArrayFormals(f)
                 PROVE  actuals[j] \in MustWrap(u, W)
      BY DEF Passed
    <3>1. Formals[s.callee][j] \in W \cup Arrays
      BY <2>4, <2>7
    <3> QED BY <2>4, <2>5, <3>1 DEF MustWrap
  <2> HIDE DEF X
  <2>9. wrapped \subseteq W /\ \A v \in Unit : \A i \in argRef[v] : Formals[v][i] \in W
    BY <2>6 DEF LeastInv
  <2> QED BY <2>1, <2>3, <2>6, <2>8, <2>9 DEF Closed
<1>5. CASE EndUnit
  <2>1. work # <<>> /\ Finish(work[1].unit, wrapped) /\ UNCHANGED <<body, wrapped>>
    BY <1>5 DEF EndUnit
  <2>2. 1 \in 1..Len(work)
    BY <1>0, <2>1, Popped
  <2>3. work[1].unit \in Unit
    BY <1>0, <2>2, FrameTypes
  <2>4. Closed(W)
    BY <1>k, <2>1
  <2> QED BY <2>1, <2>3, <2>4, FinishLeast DEF LeastInv
<1>7. ASSUME NEW u \in Unit, NEW s \in Statement, Marks(u, s)
      PROVE  wrapped' \subseteq W /\ \A v \in Unit : \A i \in argRef'[v] : Formals[v][i] \in W
  <2>1. Reading(u, s) /\ wrapped' = wrapped \cup Due(u, s) /\ UNCHANGED argRef
    BY <1>7 DEF Marks
  <2>2. s \in Stmts(u)' /\ \A v \in Unit : Stmts(v) \subseteq Stmts(v)'
    BY <2>1, ReadingGrows
  <2>3. Closed(W)
    BY <2>2, ClosedShrinks
  <2>4. ASSUME NEW x \in Due(u, s) PROVE x \in MustWrap(u, W)'
    <3>1. CASE s.form = "assign"
      <4>1. s.actuals[1] = x /\ x \in FormalsOf(u) /\ x \in Scope[u] \ Arrays
        BY <3>1 DEF Due
      <4>2. x \in Assigned(u)'
        BY <2>2, <3>1, <4>1 DEF Assigned
      <4> QED BY <4>1, <4>2 DEF MustWrap
    <3>2. CASE s.form = "library"
      BY <2>2, <3>2 DEF Due, MustWrap
    <3> QED BY <3>1, <3>2 DEF Due
  <2>5. Due(u, s) \subseteq W
    BY <2>4 DEF Closed
  <2> QED BY <2>1, <2>3, <2>5 DEF LeastInv
<1>8. ASSUME NEW u \in Unit, NEW s \in Statement, Fits(s), Visits(u, s)
      PROVE  wrapped' \subseteq W /\ \A v \in Unit : \A i \in argRef'[v] : Formals[v][i] \in W
  <2>1. Reading(u, s) /\ s.callee \in Unit /\ UNCHANGED wrapped
    BY <1>8, VisitCases
  <2>2. \A v \in Unit : Stmts(v) \subseteq Stmts(v)'
    BY <2>1, ReadingGrows
  <2>3. Closed(W)
    BY <2>2, ClosedShrinks
  <2>4. PICK rest : Start(s.callee, rest) \/ Again(s.callee, rest) \/ Pass(s.callee, rest)
    BY <1>8, VisitCases
  <2>5. \A v \in Unit : \A i \in argRef'[v] : Formals[v][i] \in W
    <3>1. CASE Again(s.callee, rest)
      BY <2>1, <2>3, <3>1, FinishLeast DEF Again
    <3>2. CASE Start(s.callee, rest) \/ Pass(s.callee, rest)
      BY <2>3, <3>2 DEF Start, Pass, LeastInv
    <3> QED BY <2>4, <3>1, <3>2
  <2> QED BY <2>1, <2>3, <2>5 DEF LeastInv
<1> QED BY <1>1, <1>2, <1>3, <1>4, <1>5, <1>7, <1>8 DEF Steps, Emit, vars

(* LeastInv holds in every state.                                           *)
LEMMA LeastInvariant == Spec => []LeastInv
<1>1. Init => LeastInv
  BY DEF Init, LeastInv
<1> QED BY <1>1, LeastStep, GraphInvariant, PTL DEF Spec
-----------------------------------------------------------------------------
(* Without recursion: what the flags of finished units and the statements   *)
(* that have been walked keep.                                              *)

InStack(w, frame) == \E i \in 1..Len(w) : w[i] = frame
Refs(W, u) == {i \in DOMAIN Formals[u] : Formals[u][i] \in W}

(* A unit that is visited is being walked.  A finished unit is not, and its *)
(* argument nodes and its descriptor say what its flags say.                *)
FlagsOK(u) ==
  /\ status[u] = "VISITED" => InStack(work, Walk(u))
  /\ status[u] = "FINISHED" => /\ ~ InStack(work, Walk(u))
                               /\ argRef[u] = Refs(wrapped, u) /\ desc[u] = Refs(wrapped \ Arrays, u)
  /\ status[u] # "FINISHED" => argRef[u] = {}

(* The scalars that are passed where the callee has an object are wrapped.  *)
Agreed(W, u, s) ==
  \A i \in DOMAIN s.actuals :
    Formals[s.callee][i] \in W \cup Arrays /\ s.actuals[i] \in Scope[u] \ Arrays => s.actuals[i] \in W

(* A statement has been dealt with, or its arguments are still to be        *)
(* compared.                                                                *)
Settled(w, st, W, u, s) ==
  /\ Due(u, s) \subseteq W
  /\ s.form \in {"call", "function"} =>
       \/ s.actuals = <<>>
       \/ st[s.callee] = "FINISHED" /\ Agreed(W, u, s)
       \/ InStack(w, Args(u, s.callee, s.actuals))

(* What a unit was generated from is what it is now.                        *)
Generated(u) == \E k \in 1..Len(file) : u = file[k] /\ (k < at \/ phase = "done")
GeneratedOK(u) ==
  Generated(u) =>
    /\ status[u] = "FINISHED" /\ emitted[u].self = desc[u]
    /\ \A s \in UnitCalls(u) :
         /\ status[s.callee] = "FINISHED" /\ emitted[u].callee[s.callee] = desc[s.callee]
         /\ ObjectsPassed(u, s)

SettledInv ==
  AcyclicIn(body) =>
    \A u \in Unit : /\ FlagsOK(u) /\ GeneratedOK(u)
                    /\ \A s \in Stmts(u) : Settled(work, status, wrapped, u, s)

(* What is on a stack with one more frame.                                  *)
LEMMA InPushed ==
  ASSUME NEW w \in Seq(Frame), NEW x \in Frame, NEW w2, w2 = <<x>> \o w
  PROVE  \A y : InStack(w2, y) <=> (y = x \/ InStack(w, y))
<1>1. Len(w2) = Len(w) + 1 /\ Len(w) \in Nat /\ w2[1] = x /\ \A i \in 1..Len(w) : w2[i + 1] = w[i]
  BY Pushed
<1> TAKE y
<1>2. ASSUME NEW i \in 1..Len(w2), w2[i] = y PROVE y = x \/ InStack(w, y)
  <2>1. CASE i = 1
    BY <1>1, <1>2, <2>1
  <2>2. CASE i # 1
    <3>1. i - 1 \in 1..Len(w) BY <1>1, <2>2
    <3>2. w2[(i - 1) + 1] = w[i - 1] BY <1>1, <3>1
    <3>3. (i - 1) + 1 = i BY <1>1
    <3> QED BY <1>2, <3>1, <3>2, <3>3 DEF InStack
  <2> QED BY <2>1, <2>2
<1>3. 1 \in 1..Len(w2) /\ \A i \in 1..Len(w) : i + 1 \in 1..Len(w2)
  BY <1>1
<1> QED BY <1>1, <1>2, <1>3 DEF InStack

(* What is on a stack without its top frame.                                *)
LEMMA InPopped ==
  ASSUME NEW w \in Seq(Frame), w # <<>>, NEW w2, w2 = Tail(w)
  PROVE  \A y : InStack(w, y) <=> (y = w[1] \/ InStack(w2, y))
<1>1. Len(w2) = Len(w) - 1 /\ Len(w) \in Nat /\ Len(w) > 0 /\ \A i \in 1..Len(w2) : w2[i] = w[i + 1]
  BY Popped
<1> TAKE y
<1>2. ASSUME NEW i \in 1..Len(w), w[i] = y PROVE y = w[1] \/ InStack(w2, y)
  <2>1. CASE i = 1
    BY <1>2, <2>1
  <2>2. CASE i # 1
    <3>1. i - 1 \in 1..Len(w2) BY <1>1, <2>2
    <3>2. w2[i - 1] = w[(i - 1) + 1] BY <1>1, <3>1
    <3>3. (i - 1) + 1 = i BY <1>1
    <3> QED BY <1>2, <3>1, <3>2, <3>3 DEF InStack
  <2> QED BY <2>1, <2>2
<1>3. 1 \in 1..Len(w) /\ \A i \in 1..Len(w2) : i + 1 \in 1..Len(w)
  BY <1>1
<1> QED BY <1>1, <1>2, <1>3 DEF InStack

(* The two kinds of frames differ, and say which unit they are of. *)
LEMMA FramesDiffer ==
  /\ \A u, v : Walk(u) = Walk(v) => u = v
  /\ \A u, v, f, actuals : Walk(u) # Args(v, f, actuals)
  BY DEF Walk, Args

(* More statements do not remove a cycle. *)
LEMMA AcyclicShrinks ==
  ASSUME NEW b, NEW b2, AcyclicIn(b2), \A u \in Unit : ToSet(b[u]) \subseteq ToSet(b2[u])
  PROVE  AcyclicIn(b)
<1>1. \A u \in Unit : CallsIn(b, u) \subseteq CallsIn(b2, u)
  BY DEF CallsIn
<1> SUFFICES ASSUME NEW C \in (SUBSET Unit) \ {{}} PROVE \E u \in C : CallsIn(b, u) \cap C = {}
  BY DEF AcyclicIn
<1>2. PICK u \in C : CallsIn(b2, u) \cap C = {}
  BY DEF AcyclicIn
<1>3. u \in Unit
  OBVIOUS
<1> QED BY <1>1, <1>2, <1>3

(* A unit that is being walked is neither new nor finished. *)
LEMMA WalkedVisited ==
  ASSUME TypeInv, GraphInv, NEW u \in Unit, FlagsOK(u), InStack(work, Walk(u))
  PROVE  status[u] = "VISITED"
<1>1. PICK i \in 1..Len(work) : work[i] = Walk(u)
  BY DEF InStack
<1>2. Walk(u).unit = u /\ ~ Walk(u).pending
  BY WalkFrame
<1>3. status[u] # "NOT_VISITED"
  BY <1>1, <1>2, WalksVisited DEF GraphInv, StackInv, TypeInv
<1> QED BY <1>3 DEF FlagsOK, TypeInv

(* optScalar of a finished unit changes nothing. *)
LEMMA FinishAgain ==
  ASSUME TypeInv, NEW u \in Unit, FlagsOK(u), status[u] = "FINISHED", Finish(u, wrapped)
  PROVE  UNCHANGED <<status, argRef, desc>>
<1>1. argRef[u] = Refs(wrapped, u) /\ desc[u] = Refs(wrapped \ Arrays, u)
  BY DEF FlagsOK
<1>2. /\ status' = [status EXCEPT ![u] = "FINISHED"]
      /\ argRef' = [argRef EXCEPT ![u] = argRef[u] \cup Refs(wrapped, u)]
      /\ desc' = [desc EXCEPT ![u] = Refs(wrapped \ Arrays, u)]
  BY DEF Finish, Refs
<1>3. argRef[u] \cup Refs(wrapped, u) = argRef[u]
  BY <1>1
<1>4. status' = [status EXCEPT ![u] = status[u]] /\ argRef' = [argRef EXCEPT ![u] = argRef[u]]
      /\ desc' = [desc EXCEPT ![u] = desc[u]]
  BY <1>1, <1>2, <1>3
<1> QED BY <1>4 DEF TypeInv

(* Variables of one unit are not arguments of another.                      *)
LEMMA FormalsApart ==
  ASSUME NEW u \in Unit, NEW v \in Unit, u # v
  PROVE  Scope[u] \cap FormalsOf(v) = {}
  BY FormalsTypes

-----------------------------------------------------------------------------
(* What a step does to the flags and the stack, without recursion.          *)

Wraps(X) ==
  /\ wrapped' = wrapped \cup X /\ UNCHANGED <<status, argRef, desc>>
  /\ \A v \in Unit : status[v] = "FINISHED" => X \cap FormalsOf(v) = {}
  /\ \A v \in Unit : InStack(work', Walk(v)) <=> InStack(work, Walk(v))
Begins(f) ==
  /\ status[f] = "NOT_VISITED" /\ status' = [status EXCEPT ![f] = "VISITED"]
  /\ UNCHANGED <<wrapped, argRef, desc>>
  /\ \A v \in Unit : InStack(work', Walk(v)) <=> (v = f \/ InStack(work, Walk(v)))
Ends(u) ==
  /\ status[u] = "VISITED" /\ Finish(u, wrapped) /\ UNCHANGED wrapped
  /\ \A v \in Unit : InStack(work', Walk(v)) <=> (v # u /\ InStack(work, Walk(v)))

Effect ==
  \/ \E X \in SUBSET Variable : Wraps(X)
  \/ \E u \in Unit : Begins(u) \/ Ends(u)

(* A call of f, while f is not being walked. *)
LEMMA VisitEffect ==
  ASSUME TypeInv, NEW f \in Unit, NEW rest \in Seq(Frame), UNCHANGED wrapped, FlagsOK(f),
         ~ InStack(work, Walk(f)), \A v \in Unit : InStack(rest, Walk(v)) <=> InStack(work, Walk(v)),
         Start(f, rest) \/ Again(f, rest) \/ Pass(f, rest)
  PROVE  /\ Effect
         /\ \/ work' = <<Walk(f)>> \o rest
            \/ work' = rest /\ status[f] = "FINISHED"
<1>1. CASE Start(f, rest)
  <2>1. status[f] = "NOT_VISITED" /\ status' = [status EXCEPT ![f] = "VISITED"]
        /\ work' = <<Walk(f)>> \o rest /\ UNCHANGED <<argRef, desc>>
    BY <1>1 DEF Start
  <2>2. \A y : InStack(work', y) <=> (y = Walk(f) \/ InStack(rest, y))
    BY <2>1, WalkFrame, InPushed
  <2>3. \A v \in Unit : InStack(work', Walk(v)) <=> (v = f \/ InStack(work, Walk(v)))
    BY <2>2, FramesDiffer
  <2>4. Begins(f)
    BY <2>1, <2>3 DEF Begins
  <2> QED BY <2>1, <2>4 DEF Effect
<1>2. CASE Again(f, rest) \/ Pass(f, rest)
  <2>1. status[f] # "NOT_VISITED" /\ work' = rest
    BY <1>2 DEF Again, Pass
  <2>2. status[f] = "FINISHED"
    BY <2>1 DEF FlagsOK, TypeInv
  <2>3. UNCHANGED <<status, argRef, desc>>
    BY <1>2, <2>2, FinishAgain DEF Again, Pass
  <2>4. Wraps({})
    BY <2>1, <2>3 DEF Wraps
  <2>5. {} \in SUBSET Variable
    OBVIOUS
  <2>6. Effect
    BY <2>4, <2>5 DEF Effect
  <2> QED BY <2>1, <2>2, <2>6
<1> QED BY <1>1, <1>2

(* The comparison of a call's arguments: its callee is finished. *)
LEMMA CompareEffect ==
  ASSUME TypeInv, GraphInv, AcyclicIn(body), \A v \in Unit : FlagsOK(v), CompareArgs
  PROVE  \E u \in Unit, f \in Unit :
           \E X \in SUBSET Variable :
             /\ work # <<>> /\ work' = Tail(work) /\ work[1].pending
             /\ work[1].unit = u /\ work[1].callee = f /\ u # f /\ status[f] = "FINISHED"
             /\ X = Passed(u, work[1].actuals, argRef[f], ArrayFormals(f))
             /\ X \subseteq Scope[u] /\ Wraps(X)
             /\ UNCHANGED <<file, at, phase, body, emitted>>
<1> DEFINE u == work[1].unit
           f == work[1].callee
           X == Passed(u, work[1].actuals, argRef[f], ArrayFormals(f))
           rest == Tail(work)
<1>0. /\ work \in Seq(Frame) /\ UnitsInv /\ StackOK(work, body, status)
  BY DEF GraphInv, StackInv, TypeInv
<1>1. /\ work # <<>> /\ work[1].pending /\ work' = rest /\ wrapped' = wrapped \cup X
      /\ UNCHANGED <<file, at, phase, body, status, argRef, desc, emitted>>
  BY DEF CompareArgs, SetPassByRef
<1>2. 1 \in 1..Len(work) /\ rest \in Seq(Frame) /\ Len(rest) = Len(work) - 1 /\ Len(work) \in Nat
      /\ \A i \in 1..Len(rest) : rest[i] = work[i + 1]
  BY <1>0, <1>1, Popped
<1>3. u \in Unit /\ f \in Unit
  BY <1>0, <1>2, FrameTypes
<1> HIDE DEF u, f, X, rest
<1>4. ArgsFrameOK(work, body, 1)
  BY <1>0, <1>1, <1>2 DEF StackOK
<1>5. 1 + 1 \in 1..Len(work) /\ work[1 + 1] = Walk(u)
  BY <1>4 DEF ArgsFrameOK, u
<1>6. PICK s \in ToSet(body[u]) : s.form \in {"call", "function"} /\ s.callee = f
  BY <1>4 DEF ArgsFrameOK, u, f
<1>7. f \in CallsIn(body, u)
  BY <1>6 DEF CallsIn, CallForms
<1>8. rest # <<>> /\ rest[1] = Walk(u)
  BY <1>2, <1>5
<1>9. StackOK(rest, body, status)
  BY <1>0, <1>1, StackPopped DEF rest
<1>10. ~ InStack(rest, Walk(f))
  BY <1>2, <1>3, <1>7, <1>8, <1>9, NotWalked DEF InStack
<1>11. \A y : InStack(work, y) <=> (y = work[1] \/ InStack(rest, y))
  BY <1>0, <1>1, InPopped DEF rest
<1>12. \A v \in Unit : work[1] # Walk(v)
  BY <1>1, WalkFrame
<1>13. \A v \in Unit : InStack(work', Walk(v)) <=> InStack(work, Walk(v))
  BY <1>1, <1>11, <1>12
<1>14. status[f] # "NOT_VISITED"
  BY <1>0, <1>3, <1>6 DEF UnitsInv, Stmts
<1>15. status[f] = "FINISHED"
  BY <1>1, <1>3, <1>10, <1>13, <1>14 DEF FlagsOK, TypeInv
<1>16. InStack(work, Walk(u))
  BY <1>5 DEF InStack
<1>17. status[u] = "VISITED"
  BY <1>3, <1>16, WalkedVisited
<1>18. X \subseteq Scope[u]
  BY DEF X, Passed
<1>19. \A v \in Unit : status[v] = "FINISHED" => X \cap FormalsOf(v) = {}
  BY <1>3, <1>17, <1>18, FormalsApart
<1>20. X \in SUBSET Variable
  BY <1>3, <1>18, FormalsTypes
<1>21. Wraps(X)
  BY <1>1, <1>13, <1>19 DEF Wraps
<1>22. u # f
  BY <1>15, <1>17
<1> QED BY <1>1, <1>3, <1>15, <1>18, <1>20, <1>21, <1>22 DEF u, f, X, rest
(* What every effect keeps.                                                 *)
LEMMA EffectKeeps ==
  ASSUME TypeInv, Effect
  PROVE  /\ wrapped \subseteq wrapped'
         /\ \A v \in Unit : status[v] = "FINISHED" =>
              /\ status'[v] = "FINISHED" /\ desc'[v] = desc[v] /\ argRef'[v] = argRef[v]
              /\ \A x \in FormalsOf(v) : x \in wrapped' <=> x \in wrapped
<1>1. ASSUME NEW X \in SUBSET Variable, Wraps(X)
      PROVE  /\ wrapped \subseteq wrapped'
             /\ \A v \in Unit : status[v] = "FINISHED" =>
                  /\ status'[v] = "FINISHED" /\ desc'[v] = desc[v] /\ argRef'[v] = argRef[v]
                  /\ \A x \in FormalsOf(v) : x \in wrapped' <=> x \in wrapped
  BY <1>1 DEF Wraps
<1>2. ASSUME NEW u \in Unit, Begins(u) \/ Ends(u)
      PROVE  /\ wrapped' = wrapped
             /\ \A v \in Unit : status[v] = "FINISHED" =>
                  status'[v] = "FINISHED" /\ desc'[v] = desc[v] /\ argRef'[v] = argRef[v]
  BY <1>2 DEF Begins, Ends, Finish, TypeInv
<1> QED BY <1>1, <1>2 DEF Effect

(* No effect disturbs the flags of a unit.                                  *)
LEMMA FlagsStep ==
  ASSUME TypeInv, \A v \in Unit : FlagsOK(v), Effect
  PROVE  \A v \in Unit : FlagsOK(v)'
<1> TAKE v \in Unit
<1>0. \A i \in DOMAIN Formals[v] : Formals[v][i] \in FormalsOf(v)
  BY FormalsTypes
<1>s. status[v] = "FINISHED" => Refs(wrapped', v) = Refs(wrapped, v)
                                /\ Refs(wrapped' \ Arrays, v) = Refs(wrapped \ Arrays, v)
  BY <1>0, EffectKeeps DEF Refs
<1>1. ASSUME NEW X \in SUBSET Variable, Wraps(X) PROVE FlagsOK(v)'
  BY <1>1, <1>s DEF Wraps, FlagsOK
<1>2. ASSUME NEW u \in Unit, Begins(u) PROVE FlagsOK(v)'
  <2>1. UNCHANGED <<wrapped, argRef, desc>> /\ status[u] = "NOT_VISITED"
        /\ status'[v] = (IF v = u THEN "VISITED" ELSE status[v])
        /\ (InStack(work', Walk(v)) <=> (v = u \/ InStack(work, Walk(v))))
    BY <1>2 DEF Begins, TypeInv
  <2>2. CASE v = u
    BY <2>1, <2>2 DEF FlagsOK
  <2>3. CASE v # u
    BY <2>1, <2>3 DEF FlagsOK
  <2> QED BY <2>2, <2>3
<1>3. ASSUME NEW u \in Unit, Ends(u) PROVE FlagsOK(v)'
  <2>1. /\ UNCHANGED wrapped /\ status[u] = "VISITED"
        /\ status' = [status EXCEPT ![u] = "FINISHED"]
        /\ argRef' = [argRef EXCEPT ![u] = argRef[u] \cup Refs(wrapped, u)]
        /\ desc' = [desc EXCEPT ![u] = Refs(wrapped \ Arrays, u)]
        /\ (InStack(work', Walk(v)) <=> (v # u /\ InStack(work, Walk(v))))
    BY <1>3 DEF Ends, Finish, Refs
  <2>2. CASE v = u
    <3>1. argRef[u] = {}
      BY <2>1 DEF FlagsOK
    <3>2. status'[v] = "FINISHED" /\ argRef'[v] = Refs(wrapped, v) /\ desc'[v] = Refs(wrapped \ Arrays, v)
      BY <2>1, <2>2, <3>1 DEF TypeInv
    <3> QED BY <2>1, <2>2, <3>2 DEF FlagsOK
  <2>3. CASE v # u
    <3>1. status'[v] = status[v] /\ argRef'[v] = argRef[v] /\ desc'[v] = desc[v]
      BY <2>1, <2>3 DEF TypeInv
    <3> QED BY <2>1, <2>3, <3>1 DEF FlagsOK
  <2> QED BY <2>2, <2>3
<1> QED BY <1>1, <1>2, <1>3 DEF Effect

(* A statement stays settled when its frame, if it has one, stays or is done. *)
LEMMA SettledKept ==
  ASSUME TypeInv, GraphInv, Effect, NEW u \in Unit, NEW s \in Stmts(u),
         Settled(work, status, wrapped, u, s),
         InStack(work, Args(u, s.callee, s.actuals)) =>
           \/ InStack(work', Args(u, s.callee, s.actuals))
           \/ status'[s.callee] = "FINISHED" /\ Agreed(wrapped', u, s)
  PROVE  Settled(work', status', wrapped', u, s)
<1>1. wrapped \subseteq wrapped'
  BY EffectKeeps
<1>2. Due(u, s) \subseteq wrapped'
  BY <1>1 DEF Settled
<1>3. ASSUME s.form \in {"call", "function"}, status[s.callee] = "FINISHED", Agreed(wrapped, u, s)
      PROVE  status'[s.callee] = "FINISHED" /\ Agreed(wrapped', u, s)
  <2>1. Fits(s)
    BY DEF GraphInv, UnitsInv
  <2>2. s.callee \in Unit /\ Len(s.actuals) = Len(Formals[s.callee])
    BY <1>3, <2>1 DEF Fits
  <2>3. body[u] \in Seq(Statement)
    BY DEF TypeInv
  <2>4. s \in Statement
    BY <2>3 DEF Stmts, ToSet
  <2>5. s.actuals \in Seq(Variable \cup {Expr})
    BY <2>4 DEF Statement
  <2>6. DOMAIN s.actuals = DOMAIN Formals[s.callee]
    BY <2>2, <2>5, FormalsTypes
  <2>7. \A i \in DOMAIN s.actuals : Formals[s.callee][i] \in wrapped' <=> Formals[s.callee][i] \in wrapped
    BY <1>3, <2>2, <2>6, EffectKeeps, FormalsTypes
  <2>8. Agreed(wrapped', u, s)
    BY <1>1, <1>3, <2>7 DEF Agreed
  <2>9. status'[s.callee] = "FINISHED"
    BY <1>3, <2>2, EffectKeeps
  <2> QED BY <2>8, <2>9
<1> QED BY <1>2, <1>3 DEF Settled

(* What a unit was generated from stays what it is.                         *)
LEMMA GeneratedKept ==
  ASSUME TypeInv, GraphInv, Effect, \A u \in Unit : GeneratedOK(u), UNCHANGED <<file, at, emitted>>,
         phase' = "done" => phase = "done",
         \A u \in Unit : status[u] = "FINISHED" => Stmts(u)' = Stmts(u)
  PROVE  \A u \in Unit : GeneratedOK(u)'
<1> SUFFICES ASSUME NEW u \in Unit, Generated(u)'
             PROVE  /\ status'[u] = "FINISHED" /\ emitted'[u].self = desc'[u]
                    /\ \A s \in UnitCalls(u)' :
                         /\ status'[s.callee] = "FINISHED" /\ emitted'[u].callee[s.callee] = desc'[s.callee]
                         /\ ObjectsPassed(u, s)'
  BY DEF GeneratedOK
<1>1. Generated(u)
  BY DEF Generated
<1>2. /\ status[u] = "FINISHED" /\ emitted[u].self = desc[u]
      /\ \A s \in UnitCalls(u) :
           /\ status[s.callee] = "FINISHED" /\ emitted[u].callee[s.callee] = desc[s.callee]
           /\ ObjectsPassed(u, s)
  BY <1>1 DEF GeneratedOK
<1>3. UnitCalls(u)' = UnitCalls(u)
  BY <1>2 DEF UnitCalls
<1>4. \A s \in UnitCalls(u) : s.callee \in Unit
  BY DEF UnitCalls, GraphInv, UnitsInv, Fits
<1>5. \A s \in UnitCalls(u) : ObjectsPassed(u, s)'
  BY <1>2 DEF ObjectsPassed
<1>6. /\ status'[u] = "FINISHED" /\ desc'[u] = desc[u]
      /\ \A s \in UnitCalls(u) : status'[s.callee] = "FINISHED" /\ desc'[s.callee] = desc[s.callee]
  BY <1>2, <1>4, EffectKeeps
<1>7. \A s \in UnitCalls(u) : emitted'[u].callee[s.callee] = desc'[s.callee]
  BY <1>2, <1>6
<1>8. emitted'[u].self = desc'[u]
  BY <1>2, <1>6
<1> QED BY <1>2, <1>3, <1>5, <1>6, <1>7, <1>8

(* Nothing on the stack: a unit that has been visited is finished, and the  *)
(* arguments of its calls agree.                                            *)
LEMMA AllSettled ==
  ASSUME TypeInv, GraphInv, SettledInv, AcyclicIn(body), work = <<>>, NEW u \in Unit,
         status[u] # "NOT_VISITED"
  PROVE  /\ status[u] = "FINISHED" /\ desc[u] = Refs(wrapped \ Arrays, u)
         /\ \A s \in Stmts(u) :
              /\ Due(u, s) \subseteq wrapped
              /\ s.form \in {"call", "function"} =>
                   /\ s.callee \in Unit /\ status[s.callee] = "FINISHED"
                   /\ desc[s.callee] = Refs(wrapped \ Arrays, s.callee)
                   /\ s.actuals = <<>> \/ Agreed(wrapped, u, s)
<1>1. \A y : ~ InStack(work, y)
  BY DEF InStack
<1>f. \A v \in Unit : FlagsOK(v) /\ status[v] \in {"NOT_VISITED", "VISITED", "FINISHED"}
  BY DEF SettledInv, TypeInv
<1>2. \A v \in Unit : status[v] # "NOT_VISITED" =>
        status[v] = "FINISHED" /\ desc[v] = Refs(wrapped \ Arrays, v)
  BY <1>1, <1>f DEF FlagsOK
<1>3. \A s \in Stmts(u) : Settled(work, status, wrapped, u, s)
  BY DEF SettledInv
<1>4. \A s \in Stmts(u) : s.form \in {"call", "function"} =>
        s.callee \in Unit /\ status[s.callee] # "NOT_VISITED"
  BY DEF GraphInv, UnitsInv, Fits
<1>5. \A s \in Stmts(u) :
        /\ Due(u, s) \subseteq wrapped
        /\ s.form \in {"call", "function"} => s.actuals = <<>> \/ Agreed(wrapped, u, s)
  BY <1>1, <1>3 DEF Settled
<1> QED BY <1>2, <1>4, <1>5

(* Generating a unit. *)
LEMMA GeneratedStep ==
  ASSUME TypeInv, GraphInv, SettledInv, AcyclicIn(body), Emit
  PROVE  \A u \in Unit : GeneratedOK(u)'
<1>0. file[at] \in Unit
  BY DEF TypeInv
<1> PICK v \in Unit : v = file[at]
  BY <1>0
<1>1. /\ phase = "emit" /\ work = <<>>
      /\ emitted' = [emitted EXCEPT ![v] = [self |-> desc[v], callee |-> desc, wrapped |-> wrapped \cap Scope[v]]]
      /\ at' = at + 1 \/ (at' = at /\ phase' = "done" /\ at = Len(file))
      /\ phase' = "done" => at' = at /\ at = Len(file)
      /\ UNCHANGED <<file, body, status, wrapped, desc>>
  <2>1. at \in 1..Len(file) /\ Len(file) \in Nat BY DEF TypeInv
  <2> QED BY <2>1 DEF Emit
<1>2. v \in Unit /\ at \in 1..Len(file) /\ Len(file) \in Nat /\ DOMAIN emitted = Unit
  BY DEF TypeInv
<1>3. status[v] # "NOT_VISITED"
  <2>1. Analysed(at) BY <1>1 DEF Analysed
  <2> QED BY <1>2, <2>1 DEF GraphInv, UnitsInv
<1>4. \A u \in Unit : Generated(u)' => u = v \/ Generated(u)
  BY <1>1, <1>2 DEF Generated
<1>5. \A u \in Unit : UnitCalls(u)' = UnitCalls(u)
  BY <1>1 DEF UnitCalls, Stmts
<1>6. /\ emitted'[v].self = desc[v] /\ emitted'[v].callee = desc /\ emitted'[v].wrapped = wrapped \cap Scope[v]
      /\ \A u \in Unit : u # v => emitted'[u] = emitted[u]
  BY <1>1, <1>2
<1>7. ASSUME NEW u \in Unit, u # v PROVE GeneratedOK(u)'
  <2> SUFFICES ASSUME Generated(u)'
               PROVE  /\ status[u] = "FINISHED" /\ emitted'[u].self = desc[u]
                      /\ \A s \in UnitCalls(u) :
                           /\ status[s.callee] = "FINISHED" /\ emitted'[u].callee[s.callee] = desc[s.callee]
                           /\ ObjectsPassed(u, s)'
    BY <1>1, <1>5 DEF GeneratedOK
  <2>1. GeneratedOK(u) /\ Generated(u)
    BY <1>4, <1>7 DEF SettledInv
  <2>2. \A s \in UnitCalls(u) : ObjectsPassed(u, s)'
    BY <1>6, <1>7, <2>1 DEF GeneratedOK, ObjectsPassed
  <2> QED BY <1>6, <1>7, <2>1, <2>2 DEF GeneratedOK
<1>8. GeneratedOK(v)'
  <2>1. status[v] = "FINISHED"
        /\ \A s \in Stmts(v) : s.form \in {"call", "function"} =>
              /\ s.callee \in Unit /\ status[s.callee] = "FINISHED"
              /\ desc[s.callee] = Refs(wrapped \ Arrays, s.callee)
              /\ s.actuals = <<>> \/ Agreed(wrapped, v, s)
    BY <1>1, <1>2, <1>3, AllSettled
  <2>2. \A s \in UnitCalls(v) :
              /\ s.callee \in Unit /\ status[s.callee] = "FINISHED"
              /\ desc[s.callee] = Refs(wrapped \ Arrays, s.callee)
              /\ s.actuals = <<>> \/ Agreed(wrapped, v, s)
    BY <2>1 DEF UnitCalls
  <2>3. \A s \in UnitCalls(v) : ObjectsPassed(v, s)'
    <3> SUFFICES ASSUME NEW s \in UnitCalls(v), NEW i \in DOMAIN s.actuals,
                        i \in desc[s.callee], s.actuals[i] \in Scope[v] \ Arrays
                 PROVE  s.actuals[i] \in wrapped
      BY <1>6 DEF ObjectsPassed
    <3>1. Formals[s.callee][i] \in wrapped
      BY <2>2 DEF Refs
    <3> QED BY <2>2, <3>1 DEF Agreed
  <2> QED BY <1>1, <1>5, <1>6, <2>1, <2>2, <2>3 DEF GeneratedOK
<1> QED BY <1>7, <1>8
(* Effects, flags and generated units together.                             *)
LEMMA SettledBy ==
  ASSUME TypeInv, GraphInv, SettledInv, AcyclicIn(body), Effect,
         UNCHANGED <<file, at, emitted>>, phase' = "done" => phase = "done",
         \A u \in Unit : status[u] = "FINISHED" => Stmts(u)' = Stmts(u),
         \A u \in Unit : \A s \in Stmts(u)' : Settled(work', status', wrapped', u, s)
  PROVE  SettledInv'
<1>1. \A u \in Unit : FlagsOK(u) /\ GeneratedOK(u)
  BY DEF SettledInv
<1>2. \A u \in Unit : FlagsOK(u)'
  BY <1>1, FlagsStep
<1>3. \A u \in Unit : GeneratedOK(u)'
  BY <1>1, GeneratedKept
<1>4. (AcyclicIn(body) => \A u \in Unit : /\ FlagsOK(u) /\ GeneratedOK(u)
                                          /\ \A s \in Stmts(u) : Settled(work, status, wrapped, u, s))'
  BY <1>2, <1>3
<1> QED BY <1>4 DEF SettledInv

(* Every step keeps SettledInv.                                             *)
LEMMA SettledStep == TypeInv /\ GraphInv /\ SettledInv /\ [Next]_vars => SettledInv'
<1> SUFFICES ASSUME TypeInv, GraphInv, SettledInv, Steps, AcyclicIn(body') PROVE SettledInv'
  BY NextSteps DEF SettledInv
<1>b. \A u \in Unit : Stmts(u) \subseteq Stmts(u)'
  <2>1. CASE body' = body
    BY <2>1 DEF Stmts
  <2>2. ASSUME NEW u \in Unit, NEW s \in Statement, Fits(s), Marks(u, s) \/ Visits(u, s)
        PROVE  \A v \in Unit : Stmts(v) \subseteq Stmts(v)'
    <3>1. Reading(u, s) BY <2>2 DEF Marks, Visits
    <3> QED BY <3>1, ReadingGrows
  <2> QED BY <2>1, <2>2 DEF Steps, Typecheck, Analyse, Emit, CompareArgs, EndUnit, vars
<1>a. AcyclicIn(body)
  <2>1. \A u \in Unit : ToSet(body[u]) \subseteq ToSet(body'[u])
    BY <1>b DEF Stmts
  <2> QED BY <2>1, AcyclicShrinks
<1>i. /\ \A u \in Unit : FlagsOK(u)
      /\ \A u \in Unit : GeneratedOK(u)
      /\ \A u \in Unit : \A s \in Stmts(u) : Settled(work, status, wrapped, u, s)
  BY <1>a DEF SettledInv
<1>0. /\ work \in Seq(Frame) /\ UnitsInv /\ StackOK(work, body, status) /\ OneWalk(work)
      /\ file[at] \in Unit
  BY OneWalkHere DEF GraphInv, StackInv, TypeInv
<1>k. (* the statements stay, and so do the arguments to be compared *)
      ASSUME Effect, UNCHANGED <<body, file, at, emitted>>, phase' = "done" => phase = "done",
             \A v \in Unit : \A s \in Stmts(v) :
               InStack(work, Args(v, s.callee, s.actuals)) => InStack(work', Args(v, s.callee, s.actuals))
      PROVE  SettledInv'
  <2>1. \A u \in Unit : Stmts(u)' = Stmts(u)
    BY <1>k DEF Stmts
  <2>2. \A u \in Unit : \A s \in Stmts(u) : Settled(work', status', wrapped', u, s)
    BY <1>i, <1>k, SettledKept
  <2>3. \A u \in Unit : \A s \in Stmts(u)' : Settled(work', status', wrapped', u, s)
    BY <2>1, <2>2
  <2> QED BY <1>a, <1>k, <2>1, <2>3, SettledBy
<1>1. CASE Typecheck
  <2> DEFINE X == {x \in Scope[file[at]] : Block[x] # NoBlock}
  <2>1. wrapped' = wrapped \cup X /\ phase' = "optimize"
        /\ UNCHANGED <<file, at, work, body, status, argRef, desc, emitted>>
    BY <1>1 DEF Typecheck
  <2>2. X \in SUBSET Variable
    BY <1>0, FormalsTypes
  <2>3. \A v \in Unit : X \cap FormalsOf(v) = {}
    OBVIOUS
  <2> HIDE DEF X
  <2>4. Wraps(X)
    BY <2>1, <2>3 DEF Wraps
  <2>5. Effect
    BY <2>2, <2>4 DEF Effect
  <2> QED BY <1>k, <2>1, <2>5
<1>2. CASE Analyse
  <2>1. work = <<>> /\ phase' = "emit" /\ UNCHANGED <<file, at, body, wrapped, emitted>>
    BY <1>0, <1>2 DEF Analyse, UnitsInv
  <2>2. Start(file[at], work) \/ Again(file[at], work)
    BY <1>2, <2>1, OptScalarCases DEF Analyse
  <2>3. \A y : ~ InStack(work, y)
    BY <2>1 DEF InStack
  <2>4. Effect
    BY <1>0, <1>i, <2>1, <2>2, <2>3, VisitEffect
  <2> QED BY <1>k, <2>1, <2>3, <2>4
<1>3. CASE Emit
  <2>1. UNCHANGED <<file, work, body, status, wrapped, argRef, desc>>
    BY <1>3 DEF Emit
  <2>2. \A u \in Unit : GeneratedOK(u)'
    BY <1>3, <1>a, GeneratedStep
  <2>3. \A u \in Unit : FlagsOK(u)'
    BY <1>i, <2>1 DEF FlagsOK
  <2>4. \A u \in Unit : \A s \in Stmts(u)' : Settled(work', status', wrapped', u, s)
    BY <1>i, <2>1 DEF Stmts
  <2>5. (AcyclicIn(body) => \A u \in Unit : /\ FlagsOK(u) /\ GeneratedOK(u)
                                            /\ \A s \in Stmts(u) : Settled(work, status, wrapped, u, s))'
    BY <2>2, <2>3, <2>4
  <2> QED BY <2>5 DEF SettledInv
<1>4. CASE CompareArgs
  <2>1. PICK u \in Unit, f \in Unit :
          \E X \in SUBSET Variable :
             /\ work # <<>> /\ work' = Tail(work) /\ work[1].pending
             /\ work[1].unit = u /\ work[1].callee = f /\ u # f /\ status[f] = "FINISHED"
             /\ X = Passed(u, work[1].actuals, argRef[f], ArrayFormals(f))
             /\ X \subseteq Scope[u] /\ Wraps(X)
             /\ UNCHANGED <<file, at, phase, body, emitted>>
    BY <1>4, <1>a, <1>i, CompareEffect
  <2>2. PICK X \in SUBSET Variable :
             /\ work # <<>> /\ work' = Tail(work) /\ work[1].pending
             /\ work[1].unit = u /\ work[1].callee = f /\ u # f /\ status[f] = "FINISHED"
             /\ X = Passed(u, work[1].actuals, argRef[f], ArrayFormals(f))
             /\ X \subseteq Scope[u] /\ Wraps(X)
             /\ UNCHANGED <<file, at, phase, body, emitted>>
    BY <2>1
  <2>3. Effect
    BY <2>2 DEF Effect
  <2>4. \A y : InStack(work, y) => y = work[1] \/ InStack(work', y)
    BY <1>0, <2>2, InPopped
  <2>5. wrapped' = wrapped \cup X /\ status' = status
    BY <2>2 DEF Wraps
  <2>6. argRef[f] = Refs(wrapped, f)
    BY <1>i, <2>2 DEF FlagsOK
  <2>7. \A v \in Unit : Stmts(v)' = Stmts(v)
    BY <2>2 DEF Stmts
  <2>8. ASSUME NEW v \in Unit, NEW s \in Stmts(v), InStack(work, Args(v, s.callee, s.actuals)),
               ~ InStack(work', Args(v, s.callee, s.actuals))
        PROVE  status'[s.callee] = "FINISHED" /\ Agreed(wrapped', v, s)
    <3>1. work[1] = Args(v, s.callee, s.actuals)
      BY <2>4, <2>8
    <3>2. v = u /\ s.callee = f /\ work[1].actuals = s.actuals
      BY <2>2, <3>1 DEF Args
    <3>3. DOMAIN s.actuals = DOMAIN Formals[f]
      <4>1. 1 \in 1..Len(work) BY <1>0, <2>2, Popped
      <4>2. ArgsFrameOK(work, body, 1) BY <1>0, <2>2, <4>1 DEF StackOK
      <4>3. PICK t \in ToSet(body[u]) :
              t.form \in {"call", "function"} /\ t.callee = f /\ t.actuals = s.actuals
        BY <2>2, <3>2, <4>2 DEF ArgsFrameOK
      <4>4. Fits(t) BY <1>0, <4>3 DEF UnitsInv, Stmts
      <4>5. body[u] \in Seq(Statement) BY DEF TypeInv
      <4>6. t \in Statement BY <4>3, <4>5 DEF ToSet
      <4>7. s.actuals \in Seq(Variable \cup {Expr}) BY <4>3, <4>6 DEF Statement
      <4>8. Len(s.actuals) = Len(Formals[f]) BY <4>3, <4>4 DEF Fits
      <4> QED BY <4>7, <4>8, FormalsTypes
    <3>4. \A i \in DOMAIN s.actuals : Formals[f][i] \in FormalsOf(f)
      BY <3>3, FormalsTypes
    <3>5. X \cap FormalsOf(f) = {}
      BY <2>2, FormalsApart, FormalsTypes
    <3>6. ASSUME NEW i \in DOMAIN s.actuals, Formals[f][i] \in wrapped' \cup Arrays,
                 s.actuals[i] \in Scope[u] \ Arrays
          PROVE  s.actuals[i] \in X
      <4>1. Formals[f][i] \in wrapped \cup Arrays
        BY <2>5, <3>4, <3>5, <3>6
      <4>2. i \in argRef[f] \cup ArrayFormals(f)
        BY <2>6, <3>3, <4>1 DEF Refs, ArrayFormals
      <4> QED BY <2>2, <3>2, <3>6, <4>2 DEF Passed
    <3>7. Agreed(wrapped', v, s)
      BY <2>5, <3>2, <3>6 DEF Agreed
    <3> QED BY <2>2, <2>5, <3>2, <3>7
  <2>9. \A v \in Unit : \A s \in Stmts(v) : Settled(work', status', wrapped', v, s)
    BY <1>i, <2>3, <2>8, SettledKept
  <2>10. \A v \in Unit : \A s \in Stmts(v)' : Settled(work', status', wrapped', v, s)
    BY <2>7, <2>9
  <2> QED BY <1>a, <2>2, <2>3, <2>7, <2>10, SettledBy
<1>5. CASE EndUnit
  <2> DEFINE top == work[1]
  <2>1. /\ work # <<>> /\ ~ top.pending /\ Finish(top.unit, wrapped) /\ work' = Tail(work)
        /\ UNCHANGED <<file, at, phase, body, wrapped, emitted>>
    BY <1>5 DEF EndUnit
  <2>2. 1 \in 1..Len(work) /\ Len(work) \in Nat /\ Len(work') = Len(work) - 1
        /\ \A i \in 1..Len(work') : work'[i] = work[i + 1]
    BY <1>0, <2>1, Popped
  <2>t. top = work[1]
    OBVIOUS
  <2> HIDE DEF top
  <2>3. PICK u \in Unit : top.unit = u
    BY <1>0, <2>2, <2>t, FrameTypes
  <2>4. work[1] = Walk(u)
    BY <1>0, <2>1, <2>2, <2>3, <2>t, WalksVisited
  <2>5. InStack(work, Walk(u))
    BY <2>2, <2>4 DEF InStack
  <2>6. status[u] = "VISITED"
    BY <1>i, <2>5, WalkedVisited
  <2>7. \A y : InStack(work, y) <=> (y = work[1] \/ InStack(work', y))
    BY <1>0, <2>1, InPopped
  <2>8. ~ InStack(work', Walk(u))
    <3> SUFFICES ASSUME NEW i \in 1..Len(work'), work'[i] = Walk(u) PROVE FALSE
      BY DEF InStack
    <3>1. i + 1 \in 1..Len(work) /\ i + 1 # 1 /\ work[i + 1] = Walk(u)
      BY <2>2
    <3>2. work[i + 1].unit = work[1].unit /\ ~ work[i + 1].pending /\ ~ work[1].pending
      BY <2>4, <3>1, WalkFrame
    <3> QED BY <1>0, <2>2, <3>1, <3>2 DEF OneWalk
  <2>9. \A v \in Unit : InStack(work', Walk(v)) <=> (v # u /\ InStack(work, Walk(v)))
    BY <2>4, <2>7, <2>8, FramesDiffer
  <2>10. Ends(u)
    BY <2>1, <2>3, <2>6, <2>9 DEF Ends
  <2>11. Effect
    BY <2>10 DEF Effect
  <2>12. \A v, g, actuals : InStack(work, Args(v, g, actuals)) => InStack(work', Args(v, g, actuals))
    BY <2>4, <2>7, FramesDiffer
  <2> QED BY <1>k, <2>1, <2>11, <2>12
<1>6. CASE UNCHANGED vars
  <2>1. UNCHANGED <<file, at, phase, work, body, status, wrapped, argRef, desc, emitted>>
    BY <1>6 DEF vars
  <2>2. Wraps({}) /\ {} \in SUBSET Variable
    BY <2>1 DEF Wraps
  <2>3. Effect
    BY <2>2 DEF Effect
  <2> QED BY <1>k, <2>1, <2>3
<1>r. (* the unit whose statement is read is being walked *)
      ASSUME NEW u \in Unit, work # <<>>, work[1] = Walk(u)
      PROVE  status[u] = "VISITED"
  <2>1. 1 \in 1..Len(work) BY <1>0, <1>r, Popped
  <2>2. InStack(work, Walk(u)) BY <1>r, <2>1 DEF InStack
  <2> QED BY <1>i, <2>2, WalkedVisited
<1>7. ASSUME NEW u \in Unit, NEW s \in Statement, Fits(s), Marks(u, s)
      PROVE  SettledInv'
  <2>1. /\ Reading(u, s) /\ s.form \notin {"call", "function"} /\ wrapped' = wrapped \cup Due(u, s)
        /\ UNCHANGED <<work, status, argRef, desc>>
    BY <1>7 DEF Marks
  <2>2. /\ work # <<>> /\ work[1] = Walk(u) /\ Stmts(u)' = Stmts(u) \cup {s}
        /\ \A v \in Unit : v # u => Stmts(v)' = Stmts(v)
        /\ UNCHANGED <<file, at, phase, emitted>>
    BY <2>1, ReadingGrows
  <2>3. status[u] = "VISITED"
    BY <1>r, <2>2
  <2>4. Due(u, s) \subseteq Scope[u]
    BY DEF Due
  <2>5. Due(u, s) \in SUBSET Variable
    BY <2>4, FormalsTypes
  <2>6. \A v \in Unit : status[v] = "FINISHED" => Due(u, s) \cap FormalsOf(v) = {}
    BY <2>3, <2>4, FormalsApart
  <2>7. Wraps(Due(u, s))
    BY <2>1, <2>6 DEF Wraps
  <2>8. Effect
    BY <2>5, <2>7 DEF Effect
  <2>9. \A v \in Unit : \A t \in Stmts(v) : Settled(work', status', wrapped', v, t)
    BY <1>i, <2>1, <2>8, SettledKept
  <2>10. Settled(work', status', wrapped', u, s)
    BY <2>1 DEF Settled
  <2>11. \A v \in Unit : \A t \in Stmts(v)' : Settled(work', status', wrapped', v, t)
    BY <2>2, <2>9, <2>10
  <2>12. \A v \in Unit : status[v] = "FINISHED" => Stmts(v)' = Stmts(v)
    BY <2>2, <2>3
  <2> QED BY <1>a, <2>2, <2>8, <2>11, <2>12, SettledBy
<1>8. ASSUME NEW u \in Unit, NEW s \in Statement, Fits(s), Visits(u, s)
      PROVE  SettledInv'
  <2>1. /\ Reading(u, s) /\ s.form \in {"call", "function", "external"} /\ UNCHANGED wrapped
        /\ s.callee \in Unit /\ s.actuals \in Seq(Variable \cup {Expr})
    BY <1>8, VisitCases
  <2>2. /\ work # <<>> /\ work[1] = Walk(u) /\ s \in Stmts(u)' /\ Stmts(u)' = Stmts(u) \cup {s}
        /\ \A v \in Unit : v # u => Stmts(v)' = Stmts(v)
        /\ UNCHANGED <<file, at, phase, emitted>>
    BY <2>1, ReadingGrows
  <2>3. status[u] = "VISITED"
    BY <1>r, <2>2
  <2> DEFINE x == Args(u, s.callee, s.actuals)
  <2>4. PICK rest \in Seq(Frame) :
          /\ \/ rest = work /\ (s.form = "external" \/ s.actuals = <<>>)
             \/ rest = <<x>> \o work /\ s.form # "external"
          /\ Start(s.callee, rest) \/ Again(s.callee, rest) \/ Pass(s.callee, rest)
    BY <1>8, VisitCases
  <2>5. x \in Frame /\ \A v \in Unit : x # Walk(v)
    BY <2>1, ArgsFrame, FramesDiffer
  <2>x. x = Args(u, s.callee, s.actuals)
    OBVIOUS
  <2> HIDE DEF x
  <2>6. \A y : InStack(rest, y) <=> (InStack(work, y) \/ (rest # work /\ y = x))
    <3>1. CASE rest = work
      BY <3>1
    <3>2. CASE rest # work
      <4>1. rest = <<x>> \o work BY <2>4, <3>2
      <4>2. \A y : InStack(rest, y) <=> (y = x \/ InStack(work, y))
        BY <1>0, <2>5, <4>1, InPushed
      <4> QED BY <3>2, <4>2
    <3> QED BY <3>1, <3>2
  <2>7. \A v \in Unit : InStack(rest, Walk(v)) <=> InStack(work, Walk(v))
    BY <2>5, <2>6
  <2>8. ~ InStack(work, Walk(s.callee))
    <3>1. s.callee \in CallsIn(body', u)
      BY <2>1, <2>2 DEF CallsIn, CallForms, Stmts
    <3>2. \A v \in Unit : ToSet(body[v]) \subseteq ToSet(body'[v])
      BY <1>b DEF Stmts
    <3>3. StackOK(work, body', status)
      BY <1>0, <3>2, StackGrows
    <3>4. \A k \in 1..Len(work) : work[k] # Walk(s.callee)
      BY <1>0, <2>2, <3>1, <3>3, NotWalked
    <3> QED BY <3>4 DEF InStack
  <2>9. FlagsOK(s.callee)
    BY <1>i, <2>1
  <2>10. Effect /\ (work' = <<Walk(s.callee)>> \o rest \/ work' = rest)
    BY <2>1, <2>4, <2>7, <2>8, <2>9, VisitEffect
  <2>11. \A y : InStack(rest, y) => InStack(work', y)
    BY <2>1, <2>10, WalkFrame, InPushed
  <2>12. \A v \in Unit : \A t \in Stmts(v) : Settled(work', status', wrapped', v, t)
    BY <1>i, <2>6, <2>10, <2>11, SettledKept
  <2>13. Settled(work', status', wrapped', u, s)
    <3>1. Due(u, s) = {}
      BY <2>1 DEF Due
    <3>2. s.form \in {"call", "function"} => s.actuals = <<>> \/ InStack(work', x)
      <4>1. CASE rest = work
        BY <2>4, <4>1, <2>6, <2>11, <2>5, <1>0, InPushed
      <4>2. CASE rest # work
        BY <4>2, <2>6, <2>11
      <4> QED BY <4>1, <4>2
    <3> QED BY <3>1, <3>2, <2>x DEF Settled
  <2>14. \A v \in Unit : \A t \in Stmts(v)' : Settled(work', status', wrapped', v, t)
    BY <2>2, <2>12, <2>13
  <2>15. \A v \in Unit : status[v] = "FINISHED" => Stmts(v)' = Stmts(v)
    BY <2>2, <2>3
  <2> QED BY <1>a, <2>2, <2>10, <2>14, <2>15, SettledBy
<1> QED BY <1>1, <1>2, <1>3, <1>4, <1>5, <1>6, <1>7, <1>8 DEF Steps

(* SettledInv holds in every state.                                         *)
LEMMA SettledInvariant == Spec => []SettledInv
<1>1. Init => SettledInv
  <2> SUFFICES ASSUME Init PROVE SettledInv
    OBVIOUS
  <2>1. \A u \in Unit : FlagsOK(u)
    BY DEF Init, FlagsOK
  <2>2. \A u \in Unit : Stmts(u) = {}
    BY DEF Init, Stmts, ToSet
  <2>3. \A u \in Unit : ~ Generated(u)
    BY DEF Init, Generated
  <2> QED BY <2>1, <2>2, <2>3 DEF SettledInv, GeneratedOK
<1> QED BY <1>1, SettledStep, GraphInvariant, PTL DEF Spec

-----------------------------------------------------------------------------
(* What the file is compiled to. *)

(* Acyclic is AcyclicIn of the statements that have been walked.            *)
LEMMA AcyclicHere == Acyclic <=> AcyclicIn(body)
  BY DEF Acyclic, AcyclicIn, Calls, CallsIn, CallForms, Stmts

(* Every unit of the file has been generated in the end. *)
LEMMA AllGenerated ==
  ASSUME TypeInv, GraphInv, Compiled, NEW u \in Unit
  PROVE  Generated(u) /\ work = <<>> /\ status[u] # "NOT_VISITED"
         /\ \A x \in Scope[u] : Block[x] # NoBlock => x \in wrapped
<1>1. phase = "done" /\ file \in Seq(Unit) /\ u \in ToSet(file)
  BY DEF Compiled, TypeInv
<1>2. PICK k \in 1..Len(file) : file[k] = u
  BY <1>1 DEF ToSet
<1>3. work = <<>>
  BY <1>1 DEF GraphInv, UnitsInv
<1>4. status[u] # "NOT_VISITED"
  BY <1>1, <1>2 DEF GraphInv, UnitsInv, Analysed
<1>5. Len(file) \in Nat /\ at = Len(file)
  BY <1>1 DEF GraphInv, UnitsInv
<1>6. Checked(k)
  BY <1>1, <1>2, <1>5 DEF Checked
<1>7. \A x \in Scope[u] : Block[x] # NoBlock => x \in wrapped
  BY <1>2, <1>6 DEF GraphInv, UnitsInv
<1> QED BY <1>1, <1>2, <1>3, <1>4, <1>7 DEF Generated

(* A statement that has been settled asks for nothing more.                 *)
LEMMA ClosedHere ==
  ASSUME TypeInv, GraphInv, SettledInv, Compiled, AcyclicIn(body)
  PROVE  Closed(wrapped)
<1> SUFFICES ASSUME NEW u \in Unit, NEW x \in MustWrap(u, wrapped) PROVE x \in wrapped
  BY DEF Closed
<1>1. work = <<>> /\ status[u] # "NOT_VISITED" /\ \A y \in Scope[u] : Block[y] # NoBlock => y \in wrapped
  BY AllGenerated
<1>2. \A s \in Stmts(u) :
        /\ Due(u, s) \subseteq wrapped
        /\ s.form \in {"call", "function"} => s.actuals = <<>> \/ Agreed(wrapped, u, s)
  BY <1>1, AllSettled
<1>3. x \in Scope[u]
  BY DEF MustWrap
<1>4. CASE Block[x] # NoBlock
  BY <1>1, <1>3, <1>4
<1>5. CASE x \in (Assigned(u) \cap FormalsOf(u)) \ Arrays
  <2>1. PICK s \in Stmts(u) : s.form = "assign" /\ s.actuals[1] = x
    BY <1>5 DEF Assigned
  <2>2. x \in Due(u, s)
    BY <1>3, <1>5, <2>1 DEF Due
  <2> QED BY <1>2, <2>2
<1>6. ASSUME x \notin Arrays, NEW s \in Stmts(u), NEW i \in DOMAIN s.actuals, s.actuals[i] = x,
             s.form = "library", LibraryArgs[s.callee][i] # "value"
      PROVE  x \in wrapped
  <2>1. x \in Due(u, s)
    BY <1>3, <1>6 DEF Due
  <2> QED BY <1>2, <2>1
<1>7. ASSUME x \notin Arrays, NEW s \in Stmts(u), NEW i \in DOMAIN s.actuals, s.actuals[i] = x,
             s \in UnitCalls(u), Formals[s.callee][i] \in wrapped \cup Arrays
      PROVE  x \in wrapped
  <2>1. s.form \in {"call", "function"}
    BY <1>7 DEF UnitCalls
  <2>2. s.actuals # <<>>
    BY <1>7
  <2>3. Agreed(wrapped, u, s)
    BY <1>2, <2>1, <2>2
  <2> QED BY <1>3, <1>7, <2>3 DEF Agreed
<1> QED BY <1>4, <1>5, <1>6, <1>7 DEF MustWrap

(* When the file has been compiled, a variable is wrapped only if it must   *)
(* be, on every call graph, and every variable that must be is, without     *)
(* recursion: for every file, whatever its units, statements and arguments. *)
THEOREM WrapsWhatItMustCorrect == Spec => []WrapsWhatItMust
<1>1. TypeInv /\ GraphInv /\ LeastInv /\ SettledInv => WrapsWhatItMust
  BY ClosedHere, AcyclicHere DEF LeastInv, WrapsWhatItMust
<1> QED BY <1>1, GraphInvariant, LeastInvariant, SettledInvariant, PTL

(* Without recursion, the method of a unit is generated with the descriptor *)
(* that every call of it is generated with, whichever comes first.          *)
THEOREM DescriptorsAgreeCorrect == Spec => []DescriptorsAgree
<1>1. ASSUME TypeInv, GraphInv, SettledInv PROVE DescriptorsAgree
  <2> SUFFICES ASSUME Compiled, Acyclic, NEW u \in Unit, NEW s \in UnitCalls(u)
               PROVE  emitted[u].callee[s.callee] = emitted[s.callee].self
    BY DEF DescriptorsAgree
  <2>1. \A v \in Unit : Generated(v) /\ GeneratedOK(v)
    BY <1>1, AcyclicHere, AllGenerated DEF SettledInv
  <2>2. s.callee \in Unit
    BY <1>1 DEF UnitCalls, GraphInv, UnitsInv, Fits
  <2> QED BY <2>1, <2>2 DEF GeneratedOK
<1> QED BY <1>1, GraphInvariant, SettledInvariant, PTL

(* Without recursion, no scalar is passed as a primitive where the callee's *)
(* descriptor has an object: scalar_arg_emit's internal error is not met.   *)
THEOREM NoPrimitiveArgsCorrect == Spec => []NoPrimitiveArgs
<1>1. ASSUME TypeInv, GraphInv, SettledInv PROVE NoPrimitiveArgs
  <2> SUFFICES ASSUME Compiled, Acyclic, NEW u \in Unit, NEW s \in UnitCalls(u)
               PROVE  ObjectsPassed(u, s)
    BY DEF NoPrimitiveArgs
  <2>1. Generated(u) /\ GeneratedOK(u)
    BY <1>1, AcyclicHere, AllGenerated DEF SettledInv
  <2> QED BY <2>1 DEF GeneratedOK
<1> QED BY <1>1, GraphInvariant, SettledInvariant, PTL
=============================================================================
