------------------------------ MODULE ExprCode ------------------------------
(* Assignments of the Fortran-to-Java compiler: the types that typecheck.c  *)
(* gives the nodes of an expression, and the bytecode that codegen.c emits  *)
(* for them.  The parser builds an assignment bottom up, the code generator *)
(* emits its code in one call, and the Java machine runs it.                *)
(*                                                                          *)
(* A node is [op, vt, name, args]: what it is, the type it was given        *)
(* (vartype), the variable, constant or intrinsic it names, its operands.   *)
(*                                                                          *)
(* Left out: complex numbers, which f2java does not support, the Java       *)
(* source that is written next to the bytecode, COMMON and EQUIVALENCE      *)
(* names (Equivalence), calls of subprograms, and I/O.                      *)
EXTENDS JavaStack, FiniteSets, TLC

CONSTANTS
  Variable,      \* the names of the program unit
  VarType,       \* their types
  Wrapped,       \* the scalars kept in a wrapper (isPassByRef)
  Bounds,        \* the dimensions of an array, <<>> for a scalar
  ArgOffset,     \* the offset of an array that is an argument; 0: a local array
  InitialValue,  \* the values before the statement: a sequence, of one for a scalar
  Extras,        \* uses of the character array x(n): "read wrapped", "store"
  StringLength,  \* the declared length of a string, 0 when it is not known
  Literal, LitType, LitValue,   \* the constants of the program text
  Intrinsics,    \* the intrinsics that are used
  MaxOps         \* a bound on the operations of a statement

VARIABLES
  nodes,         \* the parser's stack of finished expressions
  phase,         \* "parse", "emitted", "ran"; "linked", "entered",
                 \* "called" (CallCode)
  code,          \* the code of the assignment
  machine,       \* the machine that runs it
  order          \* how the floating-point values of the run compare

vars == <<nodes, phase, code, machine, order>>

Numeric == {"Double", "Float", "Integer"}
Strings == {"String", "Character"}
Types   == Numeric \cup Strings \cup {"Logical"}

(* enum returntype: a wider type comes first. *)
Rank == [String |-> 0, Character |-> 1, Double |-> 3, Float |-> 4, Integer |-> 5, Logical |-> 6]
Wider(s, t) == IF Rank[s] < Rank[t] THEN s ELSE t
Widest(S)   == CHOOSE t \in S : \A u \in S : Rank[t] <= Rank[u]

(* jvm_data_types *)
JVM == [Character |-> "S", String |-> "S", Double |-> "D", Float |-> "F",
        Integer |-> "I", Logical |-> "I"]

Relations == {"eq", "ne", "lt", "le", "gt", "ge"}
Node(op, vt, name, args) == [op |-> op, vt |-> vt, name |-> name, args |-> args]
NoName == ""

(* A bound of a dimension that is not written: it starts at 1. *)
NoBound == Node("none", "Integer", NoName, <<>>)
-----------------------------------------------------------------------------
(* intrinsic_toks: the types of the arguments, the type of the result, and  *)
(* the library method with the type it takes and the type it returns.       *)
Entry(args, ret, method, takes, gives) ==
  [args |-> args, ret |-> ret, method |-> method, takes |-> takes, gives |-> gives]
Inline(args, ret) == Entry(args, ret, "Unused", "I", "I")
RD == {"Double", "Float"}

intrinsic_toks ==
  [INT   |-> Inline(Numeric, "Integer"),     IFIX   |-> Inline({"Float"}, "Integer"),
   IDINT |-> Inline({"Double"}, "Integer"),  REAL   |-> Inline(Numeric, "Float"),
   FLOAT |-> Inline({"Integer"}, "Float"),   SNGL   |-> Inline({"Double"}, "Float"),
   DBLE  |-> Inline(Numeric, "Double"),      DFLOAT |-> Inline(Numeric, "Double"),
   ICHAR |-> Inline(Strings, "Integer"),     CHAR   |-> Inline({"Integer"}, "Character"),
   AINT  |-> Inline(RD, "Float"),            DINT   |-> Inline({"Double"}, "Double"),
   ANINT |-> Entry(RD, "Float", "nint", "F", "I"),
   DNINT |-> Entry({"Double"}, "Double", "nint", "D", "I"),
   NINT  |-> Entry(RD, "Integer", "nint", "F", "I"),
   IDNINT |-> Entry({"Double"}, "Integer", "nint", "D", "I"),
   ABS   |-> Entry(Numeric, "Double", "abs", "F", "F"),
   IABS  |-> Entry({"Integer"}, "Integer", "abs", "I", "I"),
   DABS  |-> Entry({"Double"}, "Double", "abs", "D", "D"),
   MOD   |-> Inline(Numeric, "Integer"),     AMOD   |-> Inline({"Float"}, "Float"),
   DMOD  |-> Inline({"Double"}, "Double"),
   SIGN  |-> Entry(Numeric, "Float", "sign", "F", "F"),
   ISIGN |-> Entry({"Integer"}, "Integer", "sign", "I", "I"),
   DSIGN |-> Entry({"Double"}, "Double", "sign", "D", "D"),
   DIM   |-> Entry(Numeric, "Float", "dim", "F", "F"),
   IDIM  |-> Entry({"Integer"}, "Integer", "dim", "I", "I"),
   DDIM  |-> Entry({"Double"}, "Double", "dim", "D", "D"),
   DPROD |-> Inline({"Float"}, "Double"),
   MAX   |-> Entry(Numeric, "Double", "max", "D", "D"),
   MAX0  |-> Entry({"Integer"}, "Integer", "max", "I", "I"),
   AMAX1 |-> Entry({"Float"}, "Float", "max", "F", "F"),
   DMAX1 |-> Entry({"Double"}, "Double", "max", "D", "D"),
   AMAX0 |-> Entry({"Integer"}, "Float", "max", "F", "F"),
   MAX1  |-> Entry({"Float"}, "Integer", "max", "F", "F"),
   MIN   |-> Entry(Numeric, "Double", "min", "D", "D"),
   MIN0  |-> Entry({"Integer"}, "Integer", "min", "I", "I"),
   AMIN1 |-> Entry({"Float"}, "Float", "min", "F", "F"),
   DMIN1 |-> Entry({"Double"}, "Double", "min", "D", "D"),
   AMIN0 |-> Entry({"Integer"}, "Float", "min", "F", "F"),
   MIN1  |-> Entry({"Float"}, "Integer", "min", "F", "F"),
   LEN   |-> Inline(Strings, "Integer"),
   SQRT  |-> Entry(RD, "Double", "sqrt", "F", "F"),
   DSQRT |-> Entry({"Double"}, "Double", "sqrt", "D", "D"),
   EXP   |-> Entry(RD, "Double", "exp", "D", "D"),
   DEXP  |-> Entry({"Double"}, "Double", "exp", "D", "D"),
   LOG   |-> Entry(RD, "Double", "log", "D", "D"),
   ALOG  |-> Entry({"Float"}, "Double", "log", "D", "D"),
   DLOG  |-> Entry({"Double"}, "Double", "log", "D", "D"),
   LOG10 |-> Entry(RD, "Double", "log10", "D", "D"),
   ALOG10 |-> Entry({"Float"}, "Double", "log10", "D", "D"),
   DLOG10 |-> Entry({"Double"}, "Double", "log10", "D", "D"),
   SIN   |-> Entry(RD, "Double", "sin", "D", "D"),
   DSIN  |-> Entry({"Double"}, "Double", "sin", "D", "D"),
   ATAN2 |-> Entry(RD, "Double", "atan2", "D", "D"),
   DATAN2 |-> Entry({"Double"}, "Double", "atan2", "D", "D"),
   LGE   |-> Inline(Strings, "Logical"),     LGT    |-> Inline(Strings, "Logical"),
   LLE   |-> Inline(Strings, "Logical"),     LLT    |-> Inline(Strings, "Logical"),
   IEOR  |-> Inline({"Integer"}, "Integer"), IOR    |-> Inline({"Integer"}, "Integer"),
   IAND  |-> Inline({"Integer"}, "Integer"), NOT    |-> Inline({"Integer"}, "Integer")]

(* generic_intrinsics *)
generic_intrinsics ==
  {"INT", "REAL", "DBLE", "AINT", "ANINT", "NINT", "ABS", "MOD", "SIGN", "DIM", "MAX", "MIN",
   "SQRT", "EXP", "LOG", "LOG10", "SIN", "ATAN2", "DFLOAT"}

(* The families that intrinsic_emit distinguishes. *)
Conversions == {"INT", "IFIX", "IDINT", "REAL", "FLOAT", "SNGL", "DBLE", "DFLOAT"}
Elementary  == {"SQRT", "DSQRT", "EXP", "DEXP", "LOG", "ALOG", "DLOG", "LOG10", "ALOG10",
                "DLOG10", "SIN", "DSIN"}
TwoArgs     == {"MOD", "AMOD", "DMOD", "SIGN", "ISIGN", "DSIGN", "DIM", "IDIM", "DDIM", "DPROD",
                "ATAN2", "DATAN2", "LGE", "LGT", "LLE", "LLT", "IEOR", "IOR", "IAND"}
MaxMin      == {"MAX", "MAX0", "AMAX1", "DMAX1", "AMAX0", "MAX1",
                "MIN", "MIN0", "AMIN1", "DMIN1", "AMIN0", "MIN1"}
Arities(f)  == IF f \in MaxMin THEN 2..4 ELSE IF f \in TwoArgs THEN {2} ELSE {1}
-----------------------------------------------------------------------------
(* The types that the type checker gives (typecheck.c). *)
TypesOf(args) == {args[k].vt : k \in 1..Len(args)}

(* intrinsic_check: an argument of another type ends the compilation. *)
Accepts(f, args) == TypesOf(args) \subseteq intrinsic_toks[f].args
(* The type in the table is taken for a generic intrinsic too. *)
Mutantintrinsic_check(f, args) == intrinsic_toks[f].ret
intrinsic_check(f, args) ==
  IF f \in generic_intrinsics
    THEN CASE f \in {"INT", "NINT"}    -> "Integer"
           [] f = "REAL"               -> "Float"
           [] f \in {"DBLE", "DFLOAT"} -> "Double"
           [] OTHER -> Widest({"Integer"} \cup TypesOf(args))
    ELSE intrinsic_toks[f].ret

(* The type of an expression in parentheses is never set. *)
Mutantexpr_check(op, name, args) ==
  CASE op = "const"     -> LitType[name]
    [] op \in {"var", "elem"} -> VarType[name]
    [] op = "intrinsic" -> intrinsic_check(name, args)
    [] op = "paren" -> "Unset"
    [] op = "neg"   -> args[1].vt
    [] op = "**" -> IF args[2].vt = "Integer" THEN args[1].vt ELSE Wider(args[1].vt, args[2].vt)
    [] op \in {"+", "-", "*", "/", "cat"} -> Wider(args[1].vt, args[2].vt)
    [] op \in Relations \cup {"and", "or", "not"} -> "Logical"
    [] op \in {"substring", "index"} -> "String"
(* expr_check, for a node whose operands are checked. *)
expr_check(op, name, args) ==
  CASE op = "const"     -> LitType[name]
    [] op \in {"var", "elem"} -> VarType[name]
    [] op = "intrinsic" -> intrinsic_check(name, args)
    [] op \in {"paren", "neg"} -> args[1].vt
    [] op = "**" -> IF args[2].vt = "Integer" THEN args[1].vt ELSE Wider(args[1].vt, args[2].vt)
    [] op \in {"+", "-", "*", "/", "cat"} -> Wider(args[1].vt, args[2].vt)
    [] op \in Relations \cup {"and", "or", "not"} -> "Logical"
    [] op \in {"substring", "index"} -> "String"
Checked(op, name, args) == Node(op, expr_check(op, name, args), name, args)
-----------------------------------------------------------------------------
(* The bytecode of an expression (codegen.c). *)
typeconv(s, t) ==
  IF s # t /\ {s, t} \subseteq Numeric THEN <<Op("conv", JVM[t], <<JVM[s]>>, JVM[t])>> ELSE <<>>

Arith(f, vt) == <<Op(f, JVM[vt], <<JVM[vt], JVM[vt]>>, JVM[vt])>>
PushInt(n)   == <<Push("I", Num(n))>>

(* A call of a method of the library: n arguments of type takes. *)
Call(method, n, takes, gives) == <<Op(method, takes, [k \in 1..n |-> takes], gives)>>
StringCall(method, types, gives) == <<Op(method, "S", types, gives)>>

(* pushVar, and scalar_emit where the value is wanted. *)
pushVar(x, deref) == <<Get(x)>> \o (IF deref THEN <<GetVal(JVM[VarType[x]])>> ELSE <<>>)
scalar_emit(x) == pushVar(x, x \in Wrapped)

IsArray(x)   == Bounds[x] # <<>>
IsArg(x)     == ArgOffset[x] >= 0
OffsetVar(x) == x \o "_offset"

RECURSIVE expr_emit(_)

(* An index or a bound, as an integer. *)
AsInt(node) == expr_emit(node) \o typeconv(node.vt, "Integer")

(* One subscript of func_array_emit: its distance from the lower bound      *)
(* times the extents of the dimensions before it.                           *)
Extent(b) ==
  AsInt(b[2])
  \o (IF b[1] # NoBound
        THEN AsInt(b[1]) \o Arith("-", "Integer") \o PushInt(1) \o Arith("+", "Integer")
      ELSE <<>>)
Subscript(bounds, i, index) ==
  AsInt(index)
  \o (IF bounds[i][1] # NoBound THEN AsInt(bounds[i][1]) ELSE PushInt(1))
  \o Arith("-", "Integer")
  \o FlattenSeq([k \in 1..(i - 1) |-> Extent(bounds[i - k]) \o Arith("*", "Integer")])

func_array_emit(a, indices) ==
  FlattenSeq([i \in 1..Len(indices) |->
                Subscript(Bounds[a], i, indices[i])
                \o (IF i > 1 THEN Arith("+", "Integer") ELSE <<>>)])
  \o (IF IsArg(a) THEN <<Get(OffsetVar(a))>> \o Arith("+", "Integer") ELSE <<>>)

(* array_emit: an element; one character of a string.  push_array_var does  *)
(* not take the value out of a wrapper.                                     *)
array_emit(node) ==
  IF IsArray(node.name)
    THEN <<Get(node.name)>> \o func_array_emit(node.name, node.args)
         \o <<ArrayLoad(JVM[node.vt])>>
    ELSE <<Get(node.name)>> \o expr_emit(node.args[1]) \o PushInt(1) \o Arith("-", "Integer")
         \o StringCall("charAt", <<"S", "I">>, "I") \o StringCall("valueOf", <<"I">>, "S")

(* parenthesized_expr_emit; the value of a statement function is converted  *)
(* to the function's type.                                                  *)
parenthesized_expr_emit(node) ==
  expr_emit(node.args[1]) \o typeconv(node.args[1].vt, node.vt)

power_emit(node) ==
  expr_emit(node.args[1]) \o typeconv(node.args[1].vt, "Double")
  \o expr_emit(node.args[2]) \o typeconv(node.args[2].vt, "Double")
  \o Call("pow", 2, "D", "D") \o typeconv("Double", node.vt)

(* An operand of a narrower type is converted. *)
Widened(node, vt) ==
  expr_emit(node) \o (IF Rank[node.vt] > Rank[vt] THEN typeconv(node.vt, vt) ELSE <<>>)

(* The left operand is not widened. *)
Mutantbinaryop_emit(node) ==
  IF node.op = "cat"
    THEN <<New, Dup>> \o expr_emit(node.args[1]) \o <<Construct("S", "StringBuffer")>>
         \o expr_emit(node.args[2])
         \o StringCall("append", <<"StringBuffer", "S">>, "StringBuffer")
         \o StringCall("same", <<"StringBuffer">>, "S")
    ELSE expr_emit(node.args[1]) \o Widened(node.args[2], node.vt) \o Arith(node.op, node.vt)
binaryop_emit(node) ==
  IF node.op = "cat"
    THEN <<New, Dup>> \o expr_emit(node.args[1]) \o <<Construct("S", "StringBuffer")>>
         \o expr_emit(node.args[2])
         \o StringCall("append", <<"StringBuffer", "S">>, "StringBuffer")
         \o StringCall("same", <<"StringBuffer">>, "S")
    ELSE Widened(node.args[1], node.vt) \o Widened(node.args[2], node.vt)
         \o Arith(node.op, node.vt)

unaryop_emit(node) ==
  expr_emit(node.args[1]) \o <<Op("neg", JVM[node.vt], <<JVM[node.vt]>>, JVM[node.vt])>>

(* A truth value from a conditional jump. *)
JumpOr(jump, fall) == <<jump>> \o PushInt(fall) \o <<Goto(2)>> \o PushInt(1 - fall) \o <<Unused>>

logicalop_emit(node) ==
  IF node.op = "not" THEN expr_emit(node.args[1]) \o PushInt(1) \o Arith("xor", "Logical")
  ELSE LET rel == IF node.op = "and" THEN "eq" ELSE "ne"
           rhs == expr_emit(node.args[2])
           all == IF node.op = "and" THEN 1 ELSE 0
       IN expr_emit(node.args[1]) \o <<If(rel, Len(rhs) + 4)>>
          \o rhs \o JumpOr(If(rel, 3), all)

(* A value that is not a number always compares as less. *)
Mutantrelationalop_emit(node) ==
  LET l == node.args[1]
      r == node.args[2]
      vt == Wider(l.vt, r.vt)
  IN IF {l.vt, r.vt} \subseteq Strings
       THEN expr_emit(l) \o expr_emit(r)
            \o StringCall(CHOOSE f \in DOMAIN StrComp : StrComp[f] = node.op, <<"S", "S">>, "I")
     ELSE IF vt = "Integer" THEN Widened(l, vt) \o Widened(r, vt) \o JumpOr(IfIcmp(node.op, 3), 0)
     ELSE Widened(l, vt) \o Widened(r, vt) \o <<Compare(JVM[vt], -1)>> \o JumpOr(If(node.op, 3), 0)
(* fcmpg and dcmpg give 1 when an operand is not a number, fcmpl and dcmpl  *)
(* -1.                                                                      *)
relationalop_emit(node) ==
  LET l == node.args[1]
      r == node.args[2]
      vt == Wider(l.vt, r.vt)
  IN IF {l.vt, r.vt} \subseteq Strings
       THEN expr_emit(l) \o expr_emit(r)
            \o StringCall(CHOOSE f \in DOMAIN StrComp : StrComp[f] = node.op, <<"S", "S">>, "I")
     ELSE IF vt = "Integer" THEN Widened(l, vt) \o Widened(r, vt) \o JumpOr(IfIcmp(node.op, 3), 0)
     ELSE Widened(l, vt) \o Widened(r, vt)
          \o <<Compare(JVM[vt], IF node.op \in {"lt", "le"} THEN 1 ELSE -1)>>
          \o JumpOr(If(node.op, 3), 0)

(* The bounds of a substring that are not written. *)
SubstringStart(node) == IF node.args[1] = NoBound THEN PushInt(1) ELSE expr_emit(node.args[1])
SubstringEnd(node) ==
  IF node.args[2] = NoBound THEN scalar_emit(node.name) \o StringCall("length", <<"S">>, "I")
  ELSE expr_emit(node.args[2])

substring_expr_emit(node) ==
  scalar_emit(node.name)
  \o SubstringStart(node) \o PushInt(-1) \o Arith("+", "Integer")
  \o SubstringEnd(node) \o StringCall("substring", <<"S", "I", "I">>, "S")
-----------------------------------------------------------------------------
(* The bytecode of an intrinsic, by the families of intrinsic_emit. *)
Args(node, vt) == FlattenSeq([k \in 1..Len(node.args) |-> Widened(node.args[k], vt)])

(* intrinsic_call_emit and intrinsic2_call_emit: the method of an entry is  *)
(* called for arguments of type argtype, and its result converted.          *)
intrinsic_call_emit(node, f, argtype) ==
  LET e == intrinsic_toks[f] IN
  Args(node, argtype) \o Call(e.method, Len(node.args), e.takes, e.gives)
  \o typeconv(e.ret, node.vt)

conversion_emit(node) == expr_emit(node.args[1]) \o typeconv(node.args[1].vt, node.vt)

ichar_emit(node) ==
  expr_emit(node.args[1]) \o PushInt(0) \o StringCall("charAt", <<"S", "I">>, "I")
char_emit(node) ==
  <<New, Dup>> \o expr_emit(node.args[1]) \o <<Construct("I", "Character")>>
  \o StringCall("valueOf", <<"Character">>, "S")

(* aint_intrinsic_emit and dint_intrinsic_emit go through an integer. *)
truncation_emit(node) ==
  LET vt == IF node.args[1].vt = "Float" /\ node.name = "AINT" THEN "Float" ELSE "Double"
  IN expr_emit(node.args[1]) \o typeconv(vt, "Integer") \o typeconv("Integer", vt)

nearest_emit(node) ==
  LET double == node.args[1].vt = "Double"
      whole  == node.name \in {"ANINT", "DNINT"}
      e == intrinsic_toks[IF double THEN (IF whole THEN "DNINT" ELSE "IDNINT") ELSE node.name]
  IN expr_emit(node.args[1]) \o Call(e.method, 1, e.takes, e.gives)
     \o (IF whole THEN typeconv("Integer", IF double THEN "Double" ELSE "Float") ELSE <<>>)

abs_emit(node) ==
  LET vt == node.args[1].vt
      e == intrinsic_toks[IF node.name # "ABS" THEN node.name
                          ELSE CASE vt = "Integer" -> "IABS" [] vt = "Double" -> "DABS"
                                 [] OTHER -> "ABS"]
  IN expr_emit(node.args[1]) \o Call(e.method, 1, e.takes, e.gives)

mod_emit(node) == Args(node, node.vt) \o Arith("rem", node.vt)

(* SIGN and DIM. *)
sign_dim_emit(node) ==
  intrinsic_call_emit(node,
    CASE node.name = "SIGN" -> (CASE node.vt = "Integer" -> "ISIGN" [] node.vt = "Double" -> "DSIGN"
                                  [] OTHER -> "SIGN")
      [] node.name = "DIM"  -> (CASE node.vt = "Integer" -> "IDIM" [] node.vt = "Double" -> "DDIM"
                                  [] OTHER -> "DIM")
      [] OTHER -> node.name,
    node.vt)

dprod_emit(node) ==
  expr_emit(node.args[1]) \o typeconv("Float", "Double")
  \o expr_emit(node.args[2]) \o typeconv("Float", "Double") \o Arith("*", "Double")

(* max_intrinsic_emit: the entry of a generic MAX, and the type of the      *)
(* method of three arguments.                                               *)
MaxEntry(node) ==
  IF node.name # "MAX" THEN node.name
  ELSE CASE node.vt = "Integer" -> "MAX0" [] node.vt = "Float" -> "AMAX1" [] OTHER -> "DMAX1"
(* min_intrinsic_emit, likewise. *)
MinEntry(node) ==
  IF node.name # "MIN" THEN node.name
  ELSE CASE node.vt = "Integer" -> "MIN0" [] node.vt = "Float" -> "AMIN1" [] OTHER -> "DMIN1"
ThreeArg(f) ==
  CASE f \in {"MAX0", "MIN0"} -> "I" [] f \in {"DMAX1", "DMIN1"} -> "D" [] OTHER -> "F"

(* The first three arguments go to the method of three arguments, and each  *)
(* further one to the method of two.                                        *)
maxmin_intrinsic_emit(node, f) ==
  LET e == intrinsic_toks[f]
      n == Len(node.args)
      arg(k) == Widened(node.args[k], e.ret)
      two == Call(e.method, 2, e.takes, e.gives)
  IN IF n = 2 THEN arg(1) \o arg(2) \o two
     ELSE arg(1) \o arg(2) \o arg(3) \o Call(e.method, 3, ThreeArg(f), ThreeArg(f))
          \o FlattenSeq([k \in 1..(n - 3) |-> arg(k + 3) \o two])

(* MAX1 and MIN1 give an integer. *)
maxmin_emit(node) ==
  maxmin_intrinsic_emit(node, IF intrinsic_toks[node.name].method = "max"
                              THEN MaxEntry(node) ELSE MinEntry(node))
  \o (IF node.name \in {"MAX1", "MIN1"} THEN typeconv("Float", "Integer") ELSE <<>>)

(* The declared length of a string, unless the string is longer. *)
len_emit(node) ==
  LET x == node.args[1].name IN
  IF StringLength[x] > 0
    THEN PushInt(StringLength[x]) \o scalar_emit(x) \o StringCall("length", <<"S">>, "I")
         \o Call("max", 2, "I", "I")
    ELSE scalar_emit(x) \o StringCall("length", <<"S">>, "I")

(* The Java methods compute in double: the entry of the type that the       *)
(* intrinsic has.                                                           *)
DoubleEntry(f, vt) ==
  CASE f = "SQRT" /\ vt \in RD -> "DSQRT"
    [] f = "EXP" /\ vt \in RD  -> "DEXP"
    [] f = "LOG"    -> (CASE vt = "Double" -> "DLOG" [] vt = "Float" -> "ALOG" [] OTHER -> f)
    [] f = "LOG10"  -> (CASE vt = "Double" -> "DLOG10" [] vt = "Float" -> "ALOG10" [] OTHER -> f)
    [] f = "SIN"   /\ vt = "Double" -> "DSIN"
    [] f = "ATAN2" /\ vt = "Double" -> "DATAN2"
    [] OTHER -> f
elementary_emit(node) == intrinsic_call_emit(node, DoubleEntry(node.name, node.vt), "Double")

intrinsic_lexical_compare_emit(node) ==
  expr_emit(node.args[1]) \o expr_emit(node.args[2])
  \o StringCall("compareTo", <<"S", "S">>, "I")
  \o JumpOr(If(CASE node.name = "LGE" -> "ge" [] node.name = "LGT" -> "gt"
                 [] node.name = "LLE" -> "le" [] node.name = "LLT" -> "lt", 3), 0)

bits_emit(node) ==
  IF node.name = "NOT"
    THEN expr_emit(node.args[1]) \o <<Op("neg", "I", <<"I">>, "I")>>
         \o PushInt(1) \o Arith("-", "Integer")
    ELSE expr_emit(node.args[1]) \o expr_emit(node.args[2])
         \o Arith(CASE node.name = "IEOR" -> "xor" [] node.name = "IOR" -> "or"
                    [] node.name = "IAND" -> "and", "Integer")

intrinsic_emit(node) ==
  LET f == node.name IN
  CASE f \in Conversions      -> conversion_emit(node)
    [] f = "ICHAR"            -> ichar_emit(node)
    [] f = "CHAR"             -> char_emit(node)
    [] f \in {"AINT", "DINT"} -> truncation_emit(node)
    [] f \in {"ANINT", "DNINT", "NINT", "IDNINT"} -> nearest_emit(node)
    [] f \in {"ABS", "IABS", "DABS"} -> abs_emit(node)
    [] f \in {"MOD", "AMOD", "DMOD"} -> mod_emit(node)
    [] f \in {"SIGN", "ISIGN", "DSIGN", "DIM", "IDIM", "DDIM"} -> sign_dim_emit(node)
    [] f = "DPROD"            -> dprod_emit(node)
    [] f \in MaxMin           -> maxmin_emit(node)
    [] f = "LEN"              -> len_emit(node)
    [] f \in Elementary \cup {"ATAN2", "DATAN2"} -> elementary_emit(node)
    [] f \in {"LGE", "LGT", "LLE", "LLT"} -> intrinsic_lexical_compare_emit(node)
    [] f \in {"IEOR", "IOR", "IAND", "NOT"} -> bits_emit(node)

expr_emit(node) ==
  CASE node.op = "const"      -> <<Push(JVM[node.vt], LitValue[node.name])>>
    [] node.op = "var"        -> scalar_emit(node.name)
    [] node.op \in {"elem", "index"} -> array_emit(node)
    [] node.op = "intrinsic"  -> intrinsic_emit(node)
    [] node.op \in {"paren", "stmtfunc"} -> parenthesized_expr_emit(node)
    [] node.op = "**"         -> power_emit(node)
    [] node.op \in {"+", "-", "*", "/", "cat"} -> binaryop_emit(node)
    [] node.op = "neg"        -> unaryop_emit(node)
    [] node.op \in {"and", "or", "not"} -> logicalop_emit(node)
    [] node.op \in Relations  -> relationalop_emit(node)
    [] node.op = "substring"  -> substring_expr_emit(node)
-----------------------------------------------------------------------------
(* The bytecode of an assignment. *)

(* name_emit on the left side: the wrapper, or the array and the index. *)
TargetEmit(lhs) ==
  IF lhs.op = "elem" THEN <<Get(lhs.name)>> \o func_array_emit(lhs.name, lhs.args)
  ELSE IF lhs.name \in Wrapped THEN pushVar(lhs.name, FALSE) ELSE <<>>

LHS_bytecode_emit(lhs) ==
  IF lhs.op = "elem" THEN <<ArrayStore(JVM[lhs.vt])>>
  ELSE IF lhs.name \in Wrapped THEN <<PutVal(JVM[lhs.vt])>> ELSE <<Put(lhs.name)>>

(* The string with the characters replaced is stored in place of the old. *)
substring_assign_emit(lhs) ==
  SubstringStart(lhs) \o SubstringEnd(lhs)
  \o StringCall("insert", <<"S", "S", "I", "I">>, "S")

(* A truth value from a number: it is not 0. *)
ToLogical(vt) ==
  IF vt = "Integer" THEN JumpOr(If("eq", 3), 1)
  ELSE <<Push(JVM[vt], <<"zero", vt>>), Compare(JVM[vt], -1)>> \o JumpOr(If("ne", 3), 0)

assign_emit(lhs, rhs) ==
  TargetEmit(lhs)
  \o (IF lhs.op = "substring" THEN scalar_emit(lhs.name) ELSE <<>>)
  \o expr_emit(rhs)
  \o (IF lhs.op = "substring" THEN substring_assign_emit(lhs)
      ELSE IF lhs.vt = "Logical" /\ rhs.vt \in Numeric THEN ToLogical(rhs.vt)
      ELSE typeconv(rhs.vt, lhs.vt))
  \o LHS_bytecode_emit(lhs)

(* The parser takes x(n) = e for the declaration of a statement function    *)
(* when x is not in the table of arrays, and codegen emits nothing for it.  *)
Assignment(lhs, rhs) == IF lhs.op = "index" THEN <<>> ELSE assign_emit(lhs, rhs)
-----------------------------------------------------------------------------
(* What Fortran says of the same assignment. *)

(* The type of an intrinsic, for arguments whose widest type is T. *)
IntrinsicType(f, T) ==
  CASE f \in {"INT", "IFIX", "IDINT", "NINT", "IDNINT", "ICHAR", "LEN", "IABS", "ISIGN", "IDIM",
              "MAX0", "MAX1", "MIN0", "MIN1", "IEOR", "IOR", "IAND", "NOT"} -> "Integer"
    [] f \in {"REAL", "FLOAT", "SNGL", "AMOD", "ALOG", "ALOG10", "AMAX0", "AMAX1",
              "AMIN0", "AMIN1"} -> "Float"
    [] f \in {"DBLE", "DFLOAT", "DINT", "DNINT", "DABS", "DMOD", "DSIGN", "DDIM", "DPROD",
              "DMAX1", "DMIN1", "DSQRT", "DEXP", "DLOG", "DLOG10", "DSIN", "DATAN2"} -> "Double"
    [] f \in {"LGE", "LGT", "LLE", "LLT"} -> "Logical"
    [] f = "CHAR" -> "Character"
    [] OTHER -> T

RECURSIVE FortranType(_)
FortranType(node) ==
  LET arg(k) == FortranType(node.args[k]) IN
  CASE node.op = "intrinsic" ->
         IntrinsicType(node.name, Widest({arg(k) : k \in 1..Len(node.args)}))
    [] node.op = "**" -> IF arg(2) = "Integer" THEN arg(1) ELSE Wider(arg(1), arg(2))
    [] node.op \in {"+", "-", "*", "/"} -> Wider(arg(1), arg(2))
    [] node.op \in {"paren", "neg"} -> arg(1)
    [] OTHER -> node.vt

Converted(v, s, t) ==
  IF s = t \/ ~({s, t} \subseteq Numeric) THEN v ELSE <<"conv", JVM[t], <<v>> >>

(* The position of an element, in column-major order. *)
Position(bounds, index) ==
  LET lower(k) == IF bounds[k][1] = NoBound THEN 1 ELSE LitValue[bounds[k][1].name][2]
      upper(k) == IF bounds[k][2].op = "var" THEN InitialValue[bounds[k][2].name][1][2]
                  ELSE LitValue[bounds[k][2].name][2]
      stride[k \in 1..Len(bounds)] ==
        IF k = 1 THEN 1 ELSE stride[k - 1] * (upper(k - 1) - lower(k - 1) + 1)
      place[k \in 0..Len(bounds)] ==
        IF k = 0 THEN 0 ELSE place[k - 1] + (index[k] - lower(k)) * stride[k]
  IN [inside |-> \A k \in 1..Len(bounds) : index[k] \in lower(k)..upper(k),
      place  |-> place[Len(bounds)]]
ArrayStart(a) == IF IsArg(a) THEN ArgOffset[a] ELSE 0

RECURSIVE Value(_, _)
Indices(args, o) == [k \in 1..Len(args) |-> Value(args[k], o)[2]]
ElementOf(node, o) ==
  ArrayStart(node.name) + Position(Bounds[node.name], Indices(node.args, o)).place + 1

(* The first and the last character of a substring. *)
First(node, o) == IF node.args[1] = NoBound THEN 1 ELSE Value(node.args[1], o)[2]
Last1(node, o) == IF node.args[2] = NoBound THEN Len(InitialValue[node.name][1][2])
                  ELSE Value(node.args[2], o)[2]

(* The operands, converted to a type. *)
AllAs(args, t, o) == [k \in 1..Len(args) |-> Converted(Value(args[k], o), FortranType(args[k]), t)]

(* How the library computes an intrinsic of type R, for arguments whose     *)
(* widest type is T: the function, the type it computes in, and the type of *)
(* its result.                                                              *)
Computed(f, T, R) ==
  LET by(method, takes, gives) == [method |-> method, takes |-> takes, gives |-> gives]
      method == intrinsic_toks[f].method
  IN CASE f \in {"ANINT", "DNINT", "NINT", "IDNINT"} -> by("nint", T, "Integer")
       [] f \in {"MOD", "AMOD", "DMOD"} -> by("rem", R, R)
       [] f = "DPROD" -> by("*", "Double", "Double")
       [] f \in {"AMAX0", "AMIN0", "MAX1", "MIN1"} -> by(method, "Float", "Float")
       [] f \in Elementary \cup {"ATAN2", "DATAN2"} -> by(method, "Double", "Double")
       [] f = "IEOR" -> by("xor", R, R)
       [] f = "IOR"  -> by("or", R, R)
       [] f = "IAND" -> by("and", R, R)
       [] f = "NOT"  -> by("neg", R, R)
       [] OTHER      -> by(method, R, R)
AppliedAs(c, args, R, o) ==
  Converted(Apply(c.method, JVM[c.takes], AllAs(args, c.takes, o)), c.gives, R)

LexicalOrder == [LGE |-> "ge", LGT |-> "gt", LLE |-> "le", LLT |-> "lt"]

IntrinsicValue(f, args, o) ==
  LET T == Widest({FortranType(args[k]) : k \in 1..Len(args)})
      R == IntrinsicType(f, T)
      v(k) == Value(args[k], o)
  IN CASE f \in Conversions -> AllAs(args, R, o)[1]
       [] f = "ICHAR"  -> Num(v(1)[2][1])
       [] f = "CHAR"   -> Str(<<v(1)[2]>>)
       [] f \in {"AINT", "DINT"} -> Converted(Converted(v(1), T, "Integer"), "Integer", T)
       [] f = "LEN"    -> Num(IF StringLength[args[1].name] > Len(v(1)[2])
                              THEN StringLength[args[1].name] ELSE Len(v(1)[2]))
       [] f \in DOMAIN LexicalOrder -> Truth(Holds(LexicalOrder[f], StrOrder(v(1)[2], v(2)[2])))
       [] f = "NOT"  -> Apply("-", "I", <<AppliedAs(Computed(f, T, R), args, R, o), Num(1)>>)
       [] OTHER      -> AppliedAs(Computed(f, T, R), args, R, o)

(* The order of two numbers or strings; strings are padded with blanks. *)
OrderAs(T, l, r, o) ==
  IF T \in Strings
    THEN LET n == Longest(l[2], r[2]) IN StrOrder(Padded(l[2], n), Padded(r[2], n))
  ELSE IF T = "Integer" THEN IntOrder(l, r, o) ELSE Order(l, r, o)
Ordered(l, r, o) ==
  LET T  == Wider(FortranType(l), FortranType(r))
      vs == AllAs(<<l, r>>, T, o)
  IN  OrderAs(T, vs[1], vs[2], o)

Value(node, o) ==
  LET T      == FortranType(node)
      C      == IF node.op = "**" THEN "Double" ELSE T
      arg(k) == Value(node.args[k], o)
      s      == InitialValue[node.name][1][2]
  IN CASE node.op = "const"     -> LitValue[node.name]
       [] node.op = "var"       -> InitialValue[node.name][1]
       [] node.op = "elem"      -> InitialValue[node.name][ElementOf(node, o)]
       [] node.op = "index"     -> Str(<<s[arg(1)[2]]>>)
       [] node.op = "substring" -> Str(SubSeq(s, First(node, o), Last1(node, o)))
       [] node.op = "intrinsic" -> IntrinsicValue(node.name, node.args, o)
       [] node.op \in {"paren", "stmtfunc"} -> AllAs(node.args, T, o)[1]
       [] node.op \in {"+", "-", "*", "/", "**", "neg"} ->
            Converted(Apply(IF node.op = "**" THEN "pow" ELSE node.op, JVM[C],
                            AllAs(node.args, C, o)), C, T)
       [] node.op = "cat"       -> Str(arg(1)[2] \o arg(2)[2])
       [] node.op = "not"       -> Truth(arg(1) = Num(0))
       [] node.op = "and"       -> Truth(arg(1) = Num(1) /\ arg(2) = Num(1))
       [] node.op = "or"        -> Truth(arg(1) = Num(1) \/ arg(2) = Num(1))
       [] node.op \in Relations -> Truth(Holds(node.op, Ordered(node.args[1], node.args[2], o)))
-----------------------------------------------------------------------------
(* The statement is parsed bottom up, and its code is emitted and run. *)
Scalars == {x \in Variable : ~IsArray(x)}
Strung  == {x \in Scalars : VarType[x] \in Strings}
StringLen(x) == Len(InitialValue[x][1][2])

(* The objects that variables and offsets refer to, before the statement. *)
JavaVariable(x) ==
  IF IsArray(x) THEN Item(ArrayOf[JVM[VarType[x]]], Ref(x))
  ELSE IF x \in Wrapped THEN Item(WrapperOf[JVM[VarType[x]]], Ref(x))
  ELSE Item(JVM[VarType[x]], InitialValue[x][1])
ArgArrays == {x \in Variable : IsArray(x) /\ IsArg(x)}
Variables ==
  [x \in Variable |-> JavaVariable(x)]
  @@ [y \in {OffsetVar(x) : x \in ArgArrays} |->
        Item("I", Num(ArgOffset[CHOOSE x \in ArgArrays : OffsetVar(x) = y]))]
Objects == [x \in {y \in Variable : IsArray(y)} \cup Wrapped |-> InitialValue[x]]
Before  == Machine(Variables, Objects)

Init ==
  /\ nodes = <<>>
  /\ phase = "parse"
  /\ code = <<>>
  /\ machine = Before
  /\ order = "eq"

(* The operations of an expression; an intrinsic counts one for each two of *)
(* its arguments.                                                           *)
Weight(node) ==
  CASE node.op \in {"none", "var", "const"} -> 0
    [] node.op = "intrinsic" -> (Len(node.args) + 1) \div 2
    [] OTHER -> 1
RECURSIVE Ops(_)
Ops(node) == Weight(node) + FoldSeq(LAMBDA n, sum : sum + Ops(n), 0, node.args)
Used(ns) == FoldSeq(LAMBDA n, sum : sum + Ops(n), 0, ns)

(* A place on the left of an assignment that is not a variable. *)
IsPlace(node) == node.op \in {"elem", "substring", "index"}

(* The parser goes on with expressions that the operations left can join.   *)
Parsed(ns) ==
  LET used == Used(ns)
      size == IF IsPlace(ns[1]) THEN Len(ns) - 1 ELSE Len(ns)
  IN /\ used <= MaxOps
     /\ size <= 1 \/ size <= 2 * (MaxOps - used)
     /\ nodes' = ns
     /\ UNCHANGED <<phase, code, machine, order>>
Shift(node)     == phase = "parse" /\ Parsed(Append(nodes, node))
Reduce(n, node) == Parsed(Append(SubSeq(nodes, 1, Len(nodes) - n), node))

(* The n topmost expressions. *)
TopNodes(n) == SubSeq(nodes, Len(nodes) - n + 1, Len(nodes))
Has(n, S) ==
  /\ phase = "parse" /\ Len(nodes) >= n
  /\ \A k \in 1..n : TopNodes(n)[k].vt \in S
Known(node) == Value(node, "eq")
Data(node)  == Known(node)[2]

Operand  == \E x \in Scalars : Shift(Checked("var", x, <<>>))
Constant == \E c \in Literal : Shift(Checked("const", c, <<>>))

(* An element of an array, inside its declared bounds. *)
Element == \E a \in Variable \ Scalars :
  LET n    == Len(Bounds[a])
      args == TopNodes(n)
  IN /\ Has(n, {"Integer"})
     /\ \A k \in 1..n : IsNum(Known(args[k]))
     /\ Position(Bounds[a], Indices(args, "eq")).inside
     /\ Reduce(n, Checked("elem", a, args))

(* One character of a string that is declared as an array of characters. *)
CharIndex == \E s \in Strung :
  /\ Has(1, {"Integer"})
  /\ IsNum(Known(nodes[Len(nodes)])) /\ Data(nodes[Len(nodes)]) \in 1..StringLen(s)
  /\ s \in Wrapped => "read wrapped" \in Extras
  /\ Reduce(1, Checked("index", s, TopNodes(1)))

(* A substring, with either bound written or not. *)
Substring == \E s \in Strung, from \in BOOLEAN, to \in BOOLEAN :
  LET n    == (IF from THEN 1 ELSE 0) + (IF to THEN 1 ELSE 0)
      args == <<IF from THEN TopNodes(n)[1] ELSE NoBound, IF to THEN TopNodes(n)[n] ELSE NoBound>>
      node == Node("substring", "String", s, args)
  IN /\ Has(n, {"Integer"})
     /\ \A k \in 1..n : IsNum(Known(TopNodes(n)[k]))
     /\ 1 <= First(node, "eq") /\ First(node, "eq") <= Last1(node, "eq")
     /\ Last1(node, "eq") <= StringLen(s)
     /\ Reduce(n, Checked("substring", s, args))

Paren == Has(1, Types) /\ Reduce(1, Checked("paren", NoName, TopNodes(1)))

(* A statement function's expression stands in its place, with its type. *)
StatementFunction == \E t \in Numeric :
  Has(1, Numeric) /\ Reduce(1, Node("stmtfunc", t, NoName, TopNodes(1)))

Negation == Has(1, Numeric) /\ Reduce(1, Checked("neg", NoName, TopNodes(1)))
Not      == Has(1, {"Logical"}) /\ Reduce(1, Checked("not", NoName, TopNodes(1)))

Binary(ops, S) == \E op \in ops : Has(2, S) /\ Reduce(2, Checked(op, NoName, TopNodes(2)))
Arithmetic    == Binary({"+", "-", "*", "**"}, Numeric)
Division      == Binary({"/"}, Numeric) /\ Known(nodes[Len(nodes)]) # Num(0)
Comparison    == Binary(Relations, Numeric) \/ Binary(Relations, Strings)
Connective    == Binary({"and", "or"}, {"Logical"})
Concatenation == Binary({"cat"}, Strings)

(* LEN needs a variable, and compareTo pads no string. *)
Intrinsic == \E f \in Intrinsics : \E n \in Arities(f) :
  /\ Has(n, Types) /\ Accepts(f, TopNodes(n))
  /\ f = "LEN"   => TopNodes(1)[1].op = "var"
  /\ f = "ICHAR" => Len(Data(TopNodes(1)[1])) > 0
  /\ f = "CHAR"  => IsNum(Known(TopNodes(1)[1]))
  /\ f \in {"LGE", "LGT", "LLE", "LLT"} => Len(Data(TopNodes(2)[1])) = Len(Data(TopNodes(2)[2]))
  /\ f \in {"MOD", "AMOD", "DMOD"} => Known(TopNodes(2)[2]) # Num(0)
  /\ Reduce(n, Checked("intrinsic", f, TopNodes(n)))

(* The assignments of Fortran, and the truth value of a number, which       *)
(* f2java accepts.  A string is assigned to a place that it fills.          *)
Assignable(lhs, rhs) ==
  \/ {lhs.vt, rhs.vt} \subseteq Numeric
  \/ lhs.vt = "Logical" /\ rhs.vt \in Numeric \cup {"Logical"}
  \/ /\ {lhs.vt, rhs.vt} \subseteq Strings
     /\ LET n == Len(Data(rhs)) IN
        CASE lhs.op = "substring" -> n >= Last1(lhs, "eq") - First(lhs, "eq") + 1
          [] lhs.op = "index"     -> "store" \in Extras /\ n = 1
          [] OTHER                -> n = StringLen(lhs.name)

(* The places that the last expression may be assigned to. *)
Targets ==
  IF Len(nodes) = 1 THEN {Checked("var", x, <<>>) : x \in Scalars}
  ELSE {nodes[k] : k \in {j \in 1..(Len(nodes) - 1) : Len(nodes) = 2 /\ IsPlace(nodes[j])}}

(* The code of the whole statement; a conversion counts as an operation. *)
Assign == \E lhs \in Targets : LET rhs == nodes[Len(nodes)] IN
  /\ phase = "parse"
  /\ Assignable(lhs, rhs)
  /\ lhs.vt # rhs.vt => Used(<<lhs, rhs>>) < MaxOps
  /\ nodes' = <<lhs, rhs>>
  /\ phase' = "emitted"
  /\ code' = Assignment(lhs, rhs)
  /\ UNCHANGED <<machine, order>>

(* The orders that tell the runs of some code apart. *)
Orders(c) ==
  LET kinds == {c[k][1] : k \in 1..Len(c)} IN
  IF "compare" \in kinds THEN {"lt", "eq", "gt", "nan"}
  ELSE IF {"if", "ificmp"} \cap kinds # {} THEN {"lt", "eq", "gt"} ELSE {"eq"}

Execute ==
  /\ phase = "emitted"
  /\ \E o \in Orders(code) : order' = o /\ machine' = Run(code, Before, o)
  /\ phase' = "ran"
  /\ UNCHANGED <<nodes, code>>

Parse ==
  \/ Operand \/ Constant \/ Element \/ CharIndex \/ Substring
  \/ Paren \/ StatementFunction \/ Negation \/ Not
  \/ Arithmetic \/ Division \/ Comparison \/ Connective \/ Concatenation \/ Intrinsic
Statement == Assign \/ Execute

Next == Parse \/ Statement

Spec == Init /\ [][Next]_vars
-----------------------------------------------------------------------------
(* Type invariant. *)
TypeOK ==
  /\ \A k \in 1..Len(nodes) : nodes[k].vt \in Types
  /\ phase \in {"parse", "emitted", "ran", "linked", "entered", "called"}
  /\ DOMAIN Before.heap \subseteq DOMAIN machine.heap
  /\ order \in {"lt", "eq", "gt", "nan"}

(* The code that is emitted for an assignment runs to its end: every        *)
(* instruction finds operands of the types it takes, as the verifier of the *)
(* Java machine requires, no jump lands between, and nothing is left.       *)
TypesMatch == phase = "ran" => Finished(code, machine) /\ machine.stack = <<>>

(* The value that Fortran stores: v of type t, as a value of type to. *)
StoredAs(v, t, to, o) ==
  IF to = "Logical" /\ t = "Integer" THEN Truth(IntOrder(v, Num(0), o) # "eq")
  ELSE IF to = "Logical" /\ t \in Numeric THEN Truth(Order(v, <<"zero", t>>, o) # "eq")
  ELSE Converted(v, t, to)
Spliced(lhs, v, from, to) == Str(Inserted(InitialValue[lhs.name][1][2], v[2], from, to))
Stored(lhs, v, o) ==
  CASE lhs.op = "substring" -> Spliced(lhs, v, First(lhs, o), Last1(lhs, o))
    [] lhs.op = "index"     -> Spliced(lhs, v, Data(lhs.args[1]), Data(lhs.args[1]))
    [] OTHER                -> v

(* The variables and the objects after v is stored in the place lhs. *)
InPlace(lhs, v, o) ==
  /\ machine.var =
       (IF lhs.op = "elem" \/ lhs.name \in Wrapped THEN Before.var
        ELSE [Before.var EXCEPT ![lhs.name].v = v])
  /\ machine.heap =
       (IF lhs.op = "elem" THEN [Before.heap EXCEPT ![lhs.name][ElementOf(lhs, o)] = v]
        ELSE IF lhs.name \in Wrapped THEN [Before.heap EXCEPT ![lhs.name][1] = v]
        ELSE Before.heap)

(* An assignment stores what Fortran stores, where Fortran stores it: the   *)
(* place on the left has the value of the right side computed in Fortran's  *)
(* types, converted to its type, and every other variable, element and      *)
(* argument is as it was.                                                   *)
StoresFortransValue == phase = "ran" =>
  LET lhs == nodes[1]
      rhs == nodes[2]
  IN InPlace(lhs, Stored(lhs, StoredAs(Value(rhs, order), FortranType(rhs), lhs.vt, order), order),
             order)

(* The type that the checker gives an expression, from the table of         *)
(* intrinsics and the types of its operands, is the type Fortran gives it.  *)
TypedAsFortran == \A k \in 1..Len(nodes) : nodes[k].vt = FortranType(nodes[k])
=============================================================================
