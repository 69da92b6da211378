----------------------------- MODULE PassByRef -----------------------------
(***************************************************************************)
(* Which scalars are wrapped in objects to emulate passing by reference     *)
(* (optimize.c), and the loop of the parser that checks, analyses and       *)
(* generates the program units of a file one after the other.               *)
(*                                                                          *)
(* The analysis of a unit walks its statements once.  A call makes it       *)
(* analyse the callee first, so it recurses over the call graph, and then   *)
(* wraps the actual arguments that the callee wants wrapped.  Code for a    *)
(* unit is generated right after its own analysis: what it reads of other   *)
(* units has to be final by then.                                           *)
(*                                                                          *)
(* A unit's statements are chosen when the analysis reaches them.  Of a     *)
(* statement only its assignments and calls are kept; an actual argument is *)
(* a variable or an expression.  Left out: dummy procedures and intrinsics, *)
(* whose arguments are never wrapped; calls with the wrong number of        *)
(* arguments; the text of descriptors.                                      *)
(***************************************************************************)
EXTENDS Integers, Sequences, SequencesExt

CONSTANTS
  Unit,          \* the program units of the file: global_func_table
  Files,         \* the orders in which a file may hold them
  Library,       \* the procedures of descriptor_table
  Formals,       \* the arguments of each unit, a sequence of its variables
  Scope,         \* the variables of each unit: its type_table
  Arrays,        \* the variables that are arrays
  Block,         \* the entry of a COMMON block that a variable names, or NoBlock
  NoBlock,
  LibraryArgs,   \* what a library procedure expects: "value", "wrapped", "array"
  Expr,          \* an actual argument that is not a variable
  Forms,         \* the forms of statements that occur
  MayCall,       \* the pairs of units of which the first may call the second
  MaxStmts       \* bound: statements of all units together

Variable == UNION {Scope[u] : u \in Unit}
FormalsOf(u) == ToSet(Formals[u])
NoDesc == {0}                  \* a descriptor that has not been computed
NotEmitted == [self |-> NoDesc, callee |-> <<>>, wrapped |-> {}]

ASSUME ScopeAssumption ==
  /\ Formals \in [Unit -> Seq(Variable)] /\ \A u \in Unit : FormalsOf(u) \subseteq Scope[u]
  /\ Arrays \subseteq Variable /\ Expr \notin Variable
  /\ DOMAIN Block = Variable
  /\ \A u, v \in Unit : u # v => Scope[u] \cap Scope[v] = {}
  /\ \A u \in Unit : \A x \in FormalsOf(u) : Block[x] = NoBlock
ASSUME LibraryAssumption ==
  /\ Library \cap Unit = {}
  /\ LibraryArgs \in [Library -> Seq({"value", "wrapped", "array"})]
ASSUME FileAssumption ==
  \A s \in Files : s \in Seq(Unit) /\ s # <<>> /\ ToSet(s) = Unit /\ IsInjective(s)
ASSUME BoundAssumption == MaxStmts \in Nat /\ MayCall \subseteq Unit \X Unit

VARIABLES
  file,       \* the units in the order of the file
  at,         \* the position in it of the unit being compiled
  phase,      \* what the parser's loop does to it next
  work,       \* the active calls of optScalar and args_optimize, innermost first
  body,       \* the statements of each unit that have been walked
  status,     \* scalarOptStatus
  wrapped,    \* the variables whose passByRef is set in their type_table
  argRef,     \* the positions of the formals whose nodes have passByRef set
  desc,       \* the positions wrapped in the unit's descriptor, or NoDesc
  blockRef,   \* the entries of COMMON blocks with passByRef set
  emitted     \* what the generator read when it generated each unit

vars == <<file, at, phase, work, body, status, wrapped, argRef, desc, blockRef, emitted>>

Written == FoldFunction(LAMBDA b, n : Len(b) + n, 0, body)
-----------------------------------------------------------------------------
(* Frames of the recursion: the walk over a unit's statements, and a call   *)
(* in a unit whose arguments are still to be compared with the callee's.    *)
Walk(u) == [unit |-> u, callee |-> u, actuals |-> <<>>, pending |-> FALSE]
Args(u, f, actuals) == [unit |-> u, callee |-> f, actuals |-> actuals, pending |-> TRUE]

Actuals(u, n) == [1..n -> Scope[u] \cup {Expr}]

(* optScalar when it is done with a unit, visited now or before: the flags  *)
(* go to the argument nodes and into the descriptor.                        *)
MutantFinish(u, refs) ==        \* the argument nodes keep what they had
  /\ status' = [status EXCEPT ![u] = "FINISHED"]
  /\ desc'   = [desc EXCEPT ![u] = {i \in DOMAIN Formals[u] : Formals[u][i] \in refs \ Arrays}]
  /\ UNCHANGED argRef
Finish(u, refs) ==
  /\ status' = [status EXCEPT ![u] = "FINISHED"]
  /\ argRef' = [argRef EXCEPT ![u] = @ \cup {i \in DOMAIN Formals[u] : Formals[u][i] \in refs}]
  /\ desc'   = [desc EXCEPT ![u] = {i \in DOMAIN Formals[u] : Formals[u][i] \in refs \ Arrays}]

(* optScalar(u), called where rest is what remains to be done afterwards.   *)
MutantOptScalar(u, rest) ==     \* walks again what is being walked
  IF status[u] # "FINISHED"
  THEN /\ status' = [status EXCEPT ![u] = "VISITED"]
       /\ work' = <<Walk(u)>> \o rest
       /\ UNCHANGED <<argRef, desc>>
  ELSE Finish(u, wrapped) /\ work' = rest
OptScalar(u, rest) ==
  IF status[u] = "NOT_VISITED"
  THEN /\ status' = [status EXCEPT ![u] = "VISITED"]
       /\ work' = <<Walk(u)>> \o rest
       /\ UNCHANGED <<argRef, desc>>
  ELSE Finish(u, wrapped) /\ work' = rest

(* The variables that set_passByRef is called for: actual arguments at the  *)
(* positions the callee wants wrapped, and scalars for arrays.              *)
MutantPassed(u, actuals, refs, arrays) ==   \* forgets scalars passed for arrays
  {actuals[i] : i \in {j \in DOMAIN actuals : actuals[j] \in Scope[u] \ Arrays /\ j \in refs}}
Passed(u, actuals, refs, arrays) ==
  {actuals[i] : i \in {j \in DOMAIN actuals :
                         actuals[j] \in Scope[u] \ Arrays /\ j \in refs \cup arrays}}

ArrayFormals(f) == {i \in DOMAIN Formals[f] : Formals[f][i] \in Arrays}
LibraryAt(l, kind) == {i \in DOMAIN LibraryArgs[l] : LibraryArgs[l][i] = kind}

(* set_passByRef, for all of a call's arguments *)
MutantSetPassByRef(xs) ==       \* takes every variable for one in COMMON
  /\ wrapped'  = wrapped \cup xs
  /\ blockRef' = blockRef \cup {Block[x] : x \in xs}
SetPassByRef(xs) ==
  /\ wrapped'  = wrapped \cup xs
  /\ blockRef' = blockRef \cup ({Block[x] : x \in xs} \ {NoBlock})
-----------------------------------------------------------------------------
(* The parser's loop: each unit is checked, analysed and generated before   *)
(* the next.                                                                  *)
Init ==
  /\ file \in Files
  /\ at = 1 /\ phase = "typecheck" /\ work = <<>>
  /\ body = [u \in Unit |-> <<>>]
  /\ status = [u \in Unit |-> "NOT_VISITED"]
  /\ wrapped = {} /\ blockRef = {}
  /\ argRef = [u \in Unit |-> {}]
  /\ desc = [u \in Unit |-> NoDesc]
  /\ emitted = [u \in Unit |-> NotEmitted]

(* common_check: variables in COMMON are always wrapped. *)
Typecheck ==
  /\ phase = "typecheck"
  /\ wrapped' = wrapped \cup {x \in Scope[file[at]] : Block[x] # NoBlock}
  /\ phase' = "optimize"
  /\ UNCHANGED <<file, at, work, body, status, argRef, desc, blockRef, emitted>>

Analyse ==
  /\ phase = "optimize"
  /\ OptScalar(file[at], <<>>)
  /\ phase' = "emit"
  /\ UNCHANGED <<file, at, body, wrapped, blockRef, emitted>>

(* What emit reads: the flags of the unit's variables, its own descriptor   *)
(* and those of the units it calls.                                         *)
Emit ==
  /\ phase = "emit" /\ work = <<>>
  /\ emitted' = [emitted EXCEPT ![file[at]] =
       [self |-> desc[file[at]], callee |-> desc, wrapped |-> wrapped \cap Scope[file[at]]]]
  /\ IF at < Len(file) THEN at' = at + 1 /\ phase' = "typecheck"
                       ELSE at' = at /\ phase' = "done"
  /\ UNCHANGED <<file, work, body, status, wrapped, argRef, desc, blockRef>>
-----------------------------------------------------------------------------
(* The next statement of the unit being walked. *)
Reading(u, s) ==
  /\ work # <<>> /\ work[1] = Walk(u)
  /\ s.form \in Forms /\ Written < MaxStmts
  /\ body' = [body EXCEPT ![u] = Append(@, s)]
  /\ UNCHANGED <<file, at, phase, emitted>>

Stmt(form, callee, actuals) == [form |-> form, callee |-> callee, actuals |-> actuals]

(* A variable on the left of an assignment, of a DO or ASSIGN statement, or *)
(* in the list of a READ: wrapped if it is a scalar argument.               *)
Marked(u, x) == IF x \in FormalsOf(u) \ Arrays THEN {x} ELSE {}
Assign(u, x) ==
  /\ Reading(u, Stmt("assign", u, <<x>>))
  /\ wrapped' = wrapped \cup Marked(u, x)
  /\ UNCHANGED <<work, status, argRef, desc, blockRef>>

(* A variable in an implied loop of a READ is left as it is. *)
ReadLoop(u, x) ==
  /\ Reading(u, Stmt("readloop", u, <<x>>))
  /\ UNCHANGED <<work, status, wrapped, argRef, desc, blockRef>>

(* An EXTERNAL statement that names a unit of the file. *)
External(u, f) ==
  /\ Reading(u, Stmt("external", f, <<>>))
  /\ OptScalar(f, work)
  /\ UNCHANGED <<wrapped, blockRef>>

(* CALL f(...): f is analysed first, unless it has been visited; a call     *)
(* without arguments does no more.  A function reference passes             *)
(* name_optimize first, which calls optScalar in any case.                  *)
MutantCall(u, form, f, actuals) ==      \* leaves the callee for later
  /\ Reading(u, Stmt(form, f, actuals))
  /\ work' = IF actuals = <<>> THEN work ELSE <<Args(u, f, actuals)>> \o work
  /\ UNCHANGED <<wrapped, blockRef, status, argRef, desc>>
Call(u, form, f, actuals) ==
  LET rest == IF actuals = <<>> THEN work ELSE <<Args(u, f, actuals)>> \o work IN
  /\ Reading(u, Stmt(form, f, actuals))
  /\ IF form = "function" \/ actuals = <<>> \/ status[f] = "NOT_VISITED"
     THEN OptScalar(f, rest)
     ELSE work' = rest /\ UNCHANGED <<status, argRef, desc>>
  /\ UNCHANGED <<wrapped, blockRef>>

(* A function reference that the analysis does not walk to: in the          *)
(* expression of a computed GOTO, an implied loop of a WRITE, or the body   *)
(* of a statement function.                                                 *)
Unwalked(u, f, actuals) ==
  /\ Reading(u, Stmt("unwalked", f, actuals))
  /\ UNCHANGED <<work, status, wrapped, argRef, desc, blockRef>>

(* A call of a procedure that only its descriptor is known of. *)
CallLibrary(u, l, actuals) ==
  /\ Reading(u, Stmt("library", l, actuals))
  /\ SetPassByRef(Passed(u, actuals, LibraryAt(l, "wrapped"), LibraryAt(l, "array")))
  /\ UNCHANGED <<work, status, argRef, desc>>

(* The loop of args_optimize over the arguments, after the callee's         *)
(* analysis has returned.                                                   *)
CompareArgs ==
  /\ work # <<>> /\ work[1].pending
  /\ LET frame == work[1] IN
       SetPassByRef(Passed(frame.unit, frame.actuals, argRef[frame.callee], ArrayFormals(frame.callee)))
  /\ work' = Tail(work)
  /\ UNCHANGED <<file, at, phase, body, status, argRef, desc, emitted>>

(* The end of a unit's statements, and of optScalar. *)
EndUnit ==
  /\ work # <<>> /\ ~work[1].pending
  /\ Finish(work[1].unit, wrapped)
  /\ work' = Tail(work)
  /\ UNCHANGED <<file, at, phase, body, wrapped, blockRef, emitted>>

Done == phase = "done" /\ UNCHANGED vars

Next ==
  \/ Typecheck \/ Analyse \/ Emit \/ CompareArgs \/ EndUnit \/ Done
  \/ \E u \in Unit :
       \/ \E x \in FormalsOf(u) : ReadLoop(u, x) \/ Assign(u, x)
       \/ \E f \in {g \in Unit : <<u, g>> \in MayCall} :
            \/ External(u, f)
            \/ \E actuals \in Actuals(u, Len(Formals[f])) :
                 \/ Unwalked(u, f, actuals)
                 \/ \E form \in {"call", "function"} : Call(u, form, f, actuals)
       \/ \E l \in Library : \E actuals \in Actuals(u, Len(LibraryArgs[l])) :
            CallLibrary(u, l, actuals)

Spec == Init /\ [][Next]_vars
-----------------------------------------------------------------------------
FrameOK(frame) == /\ frame.unit \in Unit /\ frame.callee \in Unit /\ frame.pending \in BOOLEAN
                  /\ frame.actuals \in Seq(Variable \cup {Expr})
StmtOK(s)  == /\ s.form \in Forms /\ s.callee \in Unit \cup Library
              /\ s.actuals \in Seq(Variable \cup {Expr})

(* The types of the state. *)
TypeOK ==
  /\ file \in Seq(Unit) /\ at \in 1..Len(file)
  /\ phase \in {"typecheck", "optimize", "emit", "done"}
  /\ \A i \in DOMAIN work : FrameOK(work[i])
  /\ \A u \in Unit : \A i \in DOMAIN body[u] : StmtOK(body[u][i])
  /\ status \in [Unit -> {"NOT_VISITED", "VISITED", "FINISHED"}]
  /\ wrapped \subseteq Variable
  /\ \A u \in Unit : argRef[u] \subseteq DOMAIN Formals[u]
  /\ \A u \in Unit : desc[u] \subseteq {0} \cup DOMAIN Formals[u]
  /\ NoBlock \notin blockRef

(* The recursion never starts a second walk over a unit's statements while  *)
(* one is active: it ends on call graphs with cycles as well.               *)
NoReentry ==
  \A i, j \in DOMAIN work :
    ~work[i].pending /\ ~work[j].pending /\ work[i].unit = work[j].unit => i = j
-----------------------------------------------------------------------------
(* What the analysis is for: the least set of variables that is closed.     *)

Stmts(u) == ToSet(body[u])
UnitCalls(u) == {s \in Stmts(u) : s.form \in {"call", "function"}}
Assigned(u) == {s.actuals[1] : s \in {t \in Stmts(u) : t.form = "assign"}}

(* The variables that must be wrapped when those of W are.                  *)
MustWrap(u, W) ==
  {x \in Scope[u] :
    \/ Block[x] # NoBlock
    \/ x \in (Assigned(u) \cap FormalsOf(u)) \ Arrays
    \/ /\ x \notin Arrays
       /\ \E s \in Stmts(u) : \E i \in DOMAIN s.actuals :
            /\ s.actuals[i] = x
            /\ \/ s \in UnitCalls(u) /\ Formals[s.callee][i] \in W \cup Arrays
               \/ s.form = "library" /\ LibraryArgs[s.callee][i] # "value"}

Closed(W) == \A u \in Unit : MustWrap(u, W) \subseteq W

Calls(u) == {s.callee : s \in {t \in Stmts(u) :
               t.form \in {"call", "function", "external", "unwalked"}}}
Acyclic == \A C \in (SUBSET Unit) \ {{}} : \E u \in C : Calls(u) \cap C = {}

(* Everything is judged when the file has been compiled: until then no flag *)
(* and nothing in emitted is taken back.                                    *)
Compiled == phase = "done"

(* A variable is wrapped only if it must be, on every call graph; without   *)
(* recursion, every variable that must be wrapped is.                       *)
WrapsWhatItMust ==
  Compiled => /\ \A W \in SUBSET Variable : Closed(W) => wrapped \subseteq W
              /\ Acyclic => Closed(wrapped)

(* A call is generated with the descriptor that its callee's method gets,   *)
(* whichever of the two is generated first.                                 *)
DescriptorsAgree ==
  Compiled /\ Acyclic =>
    \A u \in Unit : \A s \in UnitCalls(u) :
      emitted[u].callee[s.callee] = emitted[s.callee].self

(* scalar_arg_emit's "Internal error: %s should not be primitive" does not  *)
(* happen: where the callee's descriptor has an object, the scalar that is  *)
(* passed is one.                                                           *)
ObjectsPassed(u, s) ==
  \A i \in DOMAIN s.actuals :
    i \in emitted[u].callee[s.callee] /\ s.actuals[i] \in Scope[u] \ Arrays
      => s.actuals[i] \in emitted[u].wrapped
NoPrimitiveArgs ==
  Compiled /\ Acyclic => \A u \in Unit : \A s \in UnitCalls(u) : ObjectsPassed(u, s)

(* The same with the references that the analysis does not walk to, which   *)
(* are the ones that break it (README, section 4).                          *)
NoPrimitiveAnywhere ==
  Compiled /\ Acyclic =>
    \A u \in Unit : \A s \in {t \in Stmts(u) : t.form \in {"call", "function", "unwalked"}} :
      ObjectsPassed(u, s)

(* "when we're optimizing the executable code for this function, we already *)
(* know which args to each function must be passed by reference", also if   *)
(* an EXTERNAL statement or a call closes a cycle.  A cycle breaks it       *)
(* (README, section 4).                                                     *)
KnownBeforeUse ==
  Compiled => \A u \in Unit : \A s \in UnitCalls(u) : ObjectsPassed(u, s)
=============================================================================
