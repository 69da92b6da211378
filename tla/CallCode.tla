------------------------------ MODULE CallCode ------------------------------
(* CALL statements of the Fortran-to-Java compiler: the arguments that      *)
(* emit_call_args_known pushes, and the adapters through which an array     *)
(* element is passed to a procedure that takes a wrapper, or a wrapper to   *)
(* one that takes an array.  The arguments are the expressions of ExprCode; *)
(* a program unit is an assignment, or calls and then their adapters.       *)
(*                                                                          *)
(* A procedure is known by the tokens of its descriptor: a base type for a  *)
(* value, a wrapper, or an array followed by "I" for its offset.            *)
(*                                                                          *)
(* Left out: procedures that are arguments (called by reflection), those    *)
(* without a descriptor, results of functions, -w (wrappers everywhere).    *)
EXTENDS ExprCode

CONSTANTS
  Procedure,     \* the procedures that are called
  Descriptor,    \* their descriptors
  InUnitTable,   \* those in function_table; others are found in a .f2j file
  Argument,      \* the expressions that arguments are taken from
  MaxCalls       \* a bound on the calls of a program unit

VARIABLES
  calls,         \* the calls of the unit, with their code
  adapter_list,  \* the calls that an adapter is generated for
  ran            \* the call that was run: what the procedure saw and assigned

callVars == <<calls, adapter_list, ran>>
unitVars == <<vars, callVars>>

NotRun == [call |-> 0, seen |-> <<>>, assigned |-> {}]
-----------------------------------------------------------------------------
(* Descriptors. *)
isPassByRef_desc(tok) == \E t \in JTypes : tok = WrapperOf[t]
IsArrayToken(tok)     == \E t \in JTypes : tok = ArrayOf[t]
get_type_from_field_desc(tok) == CHOOSE t \in JTypes : tok \in {t, WrapperOf[t], ArrayOf[t]}

(* The descriptor's token for each argument: an array has two. *)
Tokens(desc) ==
  LET place[k \in 1..Len(desc)] ==
        IF k = 1 THEN 1 ELSE place[k - 1] + (IF IsArrayToken(desc[place[k - 1]]) THEN 2 ELSE 1)
  IN SelectSeq([k \in 1..Len(desc) |-> IF place[k] \in 1..Len(desc) THEN desc[place[k]] ELSE "end"],
               LAMBDA tok : tok # "end")
TokenOf(p, k)  == Tokens(Descriptor[p])[k]
BaseOf(p, k)   == get_type_from_field_desc(TokenOf(p, k))
Arity(p)       == Len(Tokens(Descriptor[p]))

(* The argument is in the table of arrays. *)
InArrayTable(node) == node.op \in {"array", "elem"}

needs_adapter(p, args) == \E k \in 1..Len(args) :
  \/ InArrayTable(args[k]) /\ isPassByRef_desc(TokenOf(p, k))
  \/ InArrayTable(args[k]) /\ IsArrayToken(TokenOf(p, k)) /\ BaseOf(p, k) # JVM[args[k].vt]
  \/ ~InArrayTable(args[k]) /\ IsArrayToken(TokenOf(p, k))
-----------------------------------------------------------------------------
(* The arguments of a call (emit_call_args_known). *)
Wrap(t, emitted) == <<New, Dup>> \o emitted \o <<Construct(t, WrapperOf[t])>>

(* A subscripted array: the element, or the array and the index. *)
arrayacc_arg_emit(node, tok, adapter) ==
  <<Get(node.name)>> \o func_array_emit(node.name, node.args)
  \o (IF IsArrayToken(tok) \/ (adapter /\ isPassByRef_desc(tok)) THEN <<>>
      ELSE <<ArrayLoad(JVM[node.vt])>>)

(* An array without subscripts. *)
arrayref_arg_emit(node, tok) ==
  <<Get(node.name)>>
  \o (IF IsArrayToken(tok)
        THEN (IF IsArg(node.name) THEN <<Get(OffsetVar(node.name))>> ELSE PushInt(0))
      ELSE IF isPassByRef_desc(tok) THEN PushInt(0)
      ELSE PushInt(0) \o <<ArrayLoad(JVM[node.vt])>>)

(* A scalar variable, whose wrapper is passed on or opened. *)
scalar_arg_emit(node, tok) ==
  IF node.name \in Wrapped THEN pushVar(node.name, ~IsArrayToken(tok) /\ ~isPassByRef_desc(tok))
  ELSE IF isPassByRef_desc(tok) THEN <<>> ELSE pushVar(node.name, FALSE)

constant_arg_emit(node, tok) ==
  IF isPassByRef_desc(tok) \/ IsArrayToken(tok) THEN Wrap(JVM[node.vt], expr_emit(node))
  ELSE expr_emit(node)

wrapped_arg_emit(node, tok) ==
  IF isPassByRef_desc(tok) THEN Wrap(JVM[node.vt], expr_emit(node)) ELSE expr_emit(node)

emit_call_args_known(p, args, adapter) ==
  FlattenSeq([k \in 1..Len(args) |->
    LET node == args[k]
        tok  == TokenOf(p, k)
    IN CASE node.op = "elem"  -> arrayacc_arg_emit(node, tok, adapter)
         [] node.op = "array" -> arrayref_arg_emit(node, tok)
         [] node.op = "var"   -> scalar_arg_emit(node, tok)
         [] node.op = "const" -> constant_arg_emit(node, tok)
         [] OTHER             -> wrapped_arg_emit(node, tok)])
-----------------------------------------------------------------------------
(* Adapters. *)

(* The kinds of parameters of an adapter. *)
ParameterOf(p, node, k) ==
  LET tok == TokenOf(p, k) IN
  CASE IsArrayToken(tok) /\ InArrayTable(node)       -> "array"
    [] IsArrayToken(tok) /\ ~InArrayTable(node)      -> "scalar for array"
    [] isPassByRef_desc(tok) /\ InArrayTable(node)   -> "element for wrapper"
    [] isPassByRef_desc(tok) /\ ~InArrayTable(node)  -> "wrapper"
    [] OTHER                                         -> "value"
SameType(p, node, k) == BaseOf(p, k) = JVM[node.vt]

get_adapter_desc(p, args) ==
  FlattenSeq([k \in 1..Len(args) |->
    LET kind == ParameterOf(p, args[k], k) IN
    CASE kind = "array" -> <<ArrayOf[JVM[args[k].vt]], "I">>
      [] kind = "element for wrapper" -> <<ArrayOf[BaseOf(p, k)], "I">>
      [] kind \in {"scalar for array", "wrapper"} -> <<WrapperOf[BaseOf(p, k)]>>
      [] kind = "value" -> <<BaseOf(p, k)>>])

(* The local variables a parameter takes, as adapter_args_emit counts them. *)
MutantSize(p, node, k) ==
  IF ParameterOf(p, node, k) \in {"array", "element for wrapper"} THEN 2 ELSE 1
Size(p, node, k) ==
  LET kind == ParameterOf(p, node, k) IN
  IF kind \in {"array", "element for wrapper"} \/ (kind = "value" /\ BaseOf(p, k) = "D")
  THEN 2 ELSE 1
Sum(S, f(_)) == FoldSet(LAMBDA k, n : n + f(k), 0, S)
adapter_args_emit(p, args, k) == Sum(1..(k - 1), LAMBDA j : Size(p, args[j], j))

(* The parameters that are copied to a temporary, in their order. *)
Copied(p, node, k) ==
  LET kind == ParameterOf(p, node, k) IN
  \/ kind \in {"element for wrapper", "scalar for array"}
  \/ kind = "array" /\ ~SameType(p, node, k)
TempOf(p, args, k) ==
  adapter_args_emit(p, args, Len(args) + 1)
  + Cardinality({j \in 1..(k - 1) : Copied(p, args[j], j)})

(* The element of the array argument; the value in the wrapper. *)
LoadElement(lv, t) == <<Load(lv, "A"), Load(lv + 1, "I"), ArrayLoad(t)>>
LoadWrapped(lv, t) == <<Load(lv, "A"), GetVal(t)>>

adapter_temps_emit(p, args) ==
  FlattenSeq([k \in 1..Len(args) |->
    LET kind == ParameterOf(p, args[k], k)
        t    == BaseOf(p, k)
        lv   == adapter_args_emit(p, args, k)
        copy == <<Store(TempOf(p, args, k))>>
    IN CASE kind = "element for wrapper" -> Wrap(t, LoadElement(lv, t)) \o copy
         [] kind = "scalar for array" ->
              PushInt(1) \o <<NewArray(t), Dup>> \o PushInt(0)
              \o LoadWrapped(lv, t) \o <<ArrayStore(t)>> \o copy
         [] kind = "array" /\ ~SameType(p, args[k], k) ->
              <<Load(lv, "A"), ArrayLength(JVM[args[k].vt]), NewArray(t)>> \o copy
         [] OTHER -> <<>>])

adapter_methcall_emit(p, args) ==
  FlattenSeq([k \in 1..Len(args) |->
    LET kind == ParameterOf(p, args[k], k)
        lv   == adapter_args_emit(p, args, k)
        tmp  == <<Load(TempOf(p, args, k), "A")>>
    IN CASE kind = "element for wrapper" -> tmp
         [] kind = "scalar for array"    -> tmp \o PushInt(0)
         [] kind = "array" ->
              (IF SameType(p, args[k], k) THEN <<Load(lv, "A")>> ELSE tmp) \o <<Load(lv + 1, "I")>>
         [] kind = "wrapper" -> <<Load(lv, "A")>>
         [] kind = "value"   -> <<Load(lv, Category(BaseOf(p, k)))>>])

(* What the procedure assigned is copied back, in the order of arguments. *)
Mutantadapter_assign_emit(p, args) ==
  FlattenSeq([k \in 1..Len(args) |->
    LET kind == ParameterOf(p, args[k], k)
        t    == BaseOf(p, k)
        lv   == adapter_args_emit(p, args, k)
    IN IF kind = "element for wrapper"
       THEN <<Load(lv, "A"), Load(lv + 1, "I")>> \o LoadWrapped(TempOf(p, args, k), t)
            \o <<ArrayStore(t)>>
       ELSE <<>>])
adapter_assign_emit(p, args) ==
  FlattenSeq([k \in 1..Len(args) |->
    LET kind == ParameterOf(p, args[k], k)
        t    == BaseOf(p, k)
        lv   == adapter_args_emit(p, args, k)
        tmp  == TempOf(p, args, k)
    IN CASE kind = "element for wrapper" ->
              <<Load(lv, "A"), Load(lv + 1, "I")>> \o LoadWrapped(tmp, t) \o <<ArrayStore(t)>>
         [] kind = "scalar for array" ->
              <<Load(lv, "A"), Load(tmp, "A")>> \o PushInt(0) \o <<ArrayLoad(t), PutVal(t)>>
         [] OTHER -> <<>>])

(* adapter_insert_from_descriptor looks at the k-th token for the k-th      *)
(* argument, also after an array, which has two.                            *)
adapter_insert_from_descriptor(p, this, other) ==
  \E k \in 1..Len(this) :
    /\ k <= Len(Descriptor[p])
    /\ InArrayTable(this[k]) # InArrayTable(other[k])
    /\ isPassByRef_desc(Descriptor[p][k]) \/ IsArrayToken(Descriptor[p][k])

(* A call of a procedure that is not in function_table is dropped if the    *)
(* list has any call of it.                                                 *)
insert_adapter(p, args) ==
  LET same == {c \in Range(adapter_list) : c.proc = p} IN
  IF IF p \in InUnitTable
     THEN \A c \in same : adapter_insert_from_descriptor(p, args, c.args)
     ELSE same = {}
  THEN Append(adapter_list, [proc |-> p, args |-> args]) ELSE adapter_list
-----------------------------------------------------------------------------
(* The types that a call finds on the stack. *)
Signature(c) == IF c.adapter THEN get_adapter_desc(c.proc, c.args) ELSE Descriptor[c.proc]
HasAdapter(c) == \E a \in Range(adapter_list) :
  a.proc = c.proc /\ get_adapter_desc(a.proc, a.args) = get_adapter_desc(c.proc, c.args)

(* The local variables of a method that is called with these items; a       *)
(* Double takes two.                                                        *)
Locals(items) ==
  LET slot(k) == Sum(1..(k - 1), LAMBDA j : IF items[j].t = "D" THEN 2 ELSE 1)
  IN  [n \in {slot(k) : k \in 1..Len(items)} |->
         items[CHOOSE k \in 1..Len(items) : slot(k) = n]]

Failed(m) == m.pc = 0
After(c, m) == IF Finished(c, m) THEN m ELSE Stopped(m)
Frame(m, locals) == [m EXCEPT !.pc = 1, !.stack = <<>>, !.var = locals]

(* The object and the index that hold a procedure's argument. *)
ItemAt(p, k, stack) ==
  stack[1 + Sum(1..(k - 1), LAMBDA j : IF IsArrayToken(TokenOf(p, j)) THEN 2 ELSE 1)]
OffsetAt(p, k, stack) ==
  stack[2 + Sum(1..(k - 1), LAMBDA j : IF IsArrayToken(TokenOf(p, j)) THEN 2 ELSE 1)].v[2]
IndexAt(p, k, stack) == IF IsArrayToken(TokenOf(p, k)) THEN 1 + OffsetAt(p, k, stack) ELSE 1
IsValue(p, k) == ~IsArrayToken(TokenOf(p, k)) /\ ~isPassByRef_desc(TokenOf(p, k))

(* The procedure reads each argument, and assigns those in W. *)
Seen(p, m) == [k \in 1..Arity(p) |->
  LET item == ItemAt(p, k, m.stack) IN
  IF IsValue(p, k) THEN item.v ELSE m.heap[item.v[2]][IndexAt(p, k, m.stack)]]
Assigned(k) == <<"assigned", k>>
Body(p, m, W) ==
  LET object(k) == ItemAt(p, k, m.stack).v[2]
      new(r, i) == {k \in W : object(k) = r /\ IndexAt(p, k, m.stack) = i}
  IN [m EXCEPT !.stack = <<>>, !.heap = [r \in DOMAIN m.heap |-> [i \in 1..Len(m.heap[r]) |->
        IF new(r, i) = {} THEN m.heap[r][i] ELSE Assigned(CHOOSE k \in new(r, i) : TRUE)]]]

RunTo(emitted, m) == After(emitted, Run(emitted, m, "eq"))

(* The machine when the procedure is entered: m made the call, f the        *)
(* adapter's.                                                               *)
AdapterEntered(c, f) == IF Failed(f) \/ ~Finds(f, Descriptor[c.proc]) THEN Stopped(f) ELSE f
Entered(c, m) ==
  IF Failed(m) \/ ~Finds(m, Signature(c)) \/ (c.adapter /\ ~HasAdapter(c)) THEN Stopped(m)
  ELSE IF ~c.adapter THEN m
  ELSE AdapterEntered(c, RunTo(adapter_temps_emit(c.proc, c.args)
                               \o adapter_methcall_emit(c.proc, c.args), Frame(m, Locals(m.stack))))

(* The machine when the call has returned. *)
Returned(c, m) ==
  IF ~c.adapter THEN m ELSE RunTo(adapter_assign_emit(c.proc, c.args), [m EXCEPT !.pc = 1])
-----------------------------------------------------------------------------
(* What Fortran says of the same call: an argument is the place itself. *)
HasPlace(node) == node.op \in {"var", "elem", "array"}
IndexOf(node) ==
  CASE node.op = "var" -> 1
    [] node.op = "elem" -> ElementOf(node, "eq")
    [] node.op = "array" -> ArrayStart(node.name) + 1
PlaceOf(node) == <<node.name, IndexOf(node)>>

(* All that the procedure may reach through the argument. *)
Reached(p, node, k) ==
  IF ~HasPlace(node) THEN {}
  ELSE IF IsArrayToken(TokenOf(p, k)) /\ InArrayTable(node)
  THEN {<<node.name, i>> : i \in IndexOf(node)..Len(InitialValue[node.name])}
  ELSE {PlaceOf(node)}

(* The arguments a legal program may assign: no other argument reaches them. *)
Assignables(p, args) == {k \in 1..Len(args) :
  /\ HasPlace(args[k]) /\ ~IsValue(p, k)
  /\ \A j \in 1..Len(args) \ {k} : Reached(p, args[j], j) \cap Reached(p, args[k], k) = {}}

FortranSees(node) ==
  IF HasPlace(node) THEN InitialValue[node.name][IndexOf(node)] ELSE Value(node, "eq")
-----------------------------------------------------------------------------
UnitInit == Init /\ calls = <<>> /\ adapter_list = <<>> /\ ran = NotRun

(* The arguments of a legal program, whose types are those of the           *)
(* procedure, except that an array may be passed as work space of another   *)
(* type.  A scalar that is passed on is in a wrapper, as the analysis of    *)
(* PassByRef decides, and an array gets no expression.  An array name for a *)
(* scalar is left to local arrays.                                          *)
Matches(p, args) == \A k \in 1..Len(args) :
  /\ SameType(p, args[k], k) \/ ParameterOf(p, args[k], k) = "array"
  /\ args[k].op = "var" => args[k].name \in Wrapped \/ IsValue(p, k)
  /\ IsArrayToken(TokenOf(p, k)) => args[k].op \in {"var", "const", "elem", "array"}
  /\ args[k].op = "array" => IsArrayToken(TokenOf(p, k)) \/ ~IsArg(args[k].name)

CallStatement ==
  /\ phase = "parse" /\ nodes = <<>> /\ Len(calls) < MaxCalls
  /\ \E p \in Procedure : \E args \in [1..Arity(p) -> Argument] :
       LET adapter == needs_adapter(p, args) IN
       /\ Matches(p, args)
       /\ calls' = Append(calls, [proc |-> p, args |-> args, adapter |-> adapter,
                                  code |-> emit_call_args_known(p, args, adapter)])
       /\ adapter_list' = IF adapter THEN insert_adapter(p, args) ELSE adapter_list
  /\ phase' = IF Len(calls) + 1 = MaxCalls THEN "linked" ELSE "parse"
  /\ UNCHANGED <<nodes, code, machine, order, ran>>

(* One of the calls is made, with the variables as they are at first. *)
EnterCall == \E k \in 1..Len(calls) :
  /\ phase = "linked"
  /\ machine' = Entered(calls[k], RunTo(calls[k].code, Before))
  /\ ran' = [call |-> k, assigned |-> {},
             seen |-> IF Failed(machine') THEN <<>> ELSE Seen(calls[k].proc, machine')]
  /\ phase' = "entered"
  /\ UNCHANGED <<nodes, code, order, calls, adapter_list>>

(* The procedure assigns some of its arguments and returns. *)
ReturnFromCall ==
  LET c == calls[ran.call] IN
  /\ phase = "entered" /\ ~Failed(machine)
  /\ \E W \in SUBSET Assignables(c.proc, c.args) :
       /\ machine' = Returned(c, Body(c.proc, machine, W))
       /\ ran' = [ran EXCEPT !.assigned = W]
  /\ phase' = "called"
  /\ UNCHANGED <<nodes, code, order, calls, adapter_list>>

UnitNext ==
  \/ calls = <<>> /\ (Parse \/ Statement) /\ UNCHANGED callVars
  \/ CallStatement \/ EnterCall \/ ReturnFromCall

UnitSpec == UnitInit /\ [][UnitNext]_unitVars
-----------------------------------------------------------------------------
(* Every call reaches its procedure and returns: what is pushed has the     *)
(* types of the method that is called, and so has what its adapter pushes,  *)
(* loads and stores in its local variables.                                 *)
CallsLink == phase \in {"entered", "called"} => ~Failed(machine)

(* Every call that goes through an adapter finds one with its signature     *)
(* among those that are generated at the end of the unit.                   *)
AdaptersComplete == phase \in {"linked", "entered", "called"} =>
  \A k \in 1..Len(calls) : calls[k].adapter => HasAdapter(calls[k])

(* A call does what passing the places themselves would do: the procedure   *)
(* sees the value of each argument, and afterwards exactly the variables    *)
(* and elements it assigned have new values.                                *)
PassesByReference == phase = "called" /\ ~Failed(machine) =>
  LET c == calls[ran.call]
      assigned(x, i) == {k \in ran.assigned : PlaceOf(c.args[k]) = <<x, i>>}
  IN (\A k \in 1..Len(c.args) : SameType(c.proc, c.args[k], k)) =>
     /\ ran.seen = [k \in 1..Len(c.args) |-> FortranSees(c.args[k])]
     /\ \A x \in DOMAIN Before.heap : machine.heap[x] =
          [i \in 1..Len(Before.heap[x]) |->
             IF assigned(x, i) = {} THEN Before.heap[x][i]
             ELSE Assigned(CHOOSE k \in assigned(x, i) : TRUE)]
=============================================================================
