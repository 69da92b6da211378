----------------------------- MODULE JavaStack -----------------------------
(* The part of the Java virtual machine that the generated code of one      *)
(* statement needs: a stack of typed items, the local variables and static  *)
(* fields, and the objects they refer to.  An instruction that does not     *)
(* find the types it expects stops the machine, as the verifier would       *)
(* refuse the method.                                                       *)
(*                                                                          *)
(* Values are terms.  Integers, truth values (0 and 1) and strings are      *)
(* concrete; a floating-point value is the expression that computed it, and *)
(* the order of two such values is a parameter of a run: "lt", "eq", "gt"   *)
(* or "nan" when one of them is not a number.                               *)
EXTENDS Integers, Sequences, SequencesExt, FiniteSets, TLC

JTypes == {"I", "F", "D", "S"}

(* The types of a wrapper (intW, ...) and of an array of a type. *)
WrapperOf == [I |-> "intW", F |-> "floatW", D |-> "doubleW", S |-> "StringW"]
ArrayOf   == [I |-> "[I", F |-> "[F", D |-> "[D", S |-> "[S"]

Item(t, v) == [t |-> t, v |-> v]
Num(n)     == <<"int", n>>
Str(s)     == <<"str", s>>
Ref(x)     == <<"ref", x>>
IsNum(v)   == v[1] = "int"
IsStr(v)   == v[1] = "str"

Truth(b) == Num(IF b THEN 1 ELSE 0)
-----------------------------------------------------------------------------
Blank == 32

(* Integer division truncates, in Java as in Fortran. *)
Truncated(a, b) ==
  LET q == (IF a < 0 THEN -a ELSE a) \div (IF b < 0 THEN -b ELSE b)
  IN  IF (a < 0) = (b < 0) THEN q ELSE -q

(* The order of two strings, character by character; a string comes after   *)
(* its own beginnings.                                                      *)
StrOrder(s, t) ==
  LET differ == {k \in 1..Len(s) : k > Len(t) \/ s[k] # t[k]}
      first  == CHOOSE k \in differ : \A j \in differ : k <= j
  IN  IF differ = {} THEN (IF Len(s) = Len(t) THEN "eq" ELSE "lt")
      ELSE IF first > Len(t) \/ s[first] > t[first] THEN "gt" ELSE "lt"

Padded(s, n) == [k \in 1..n |-> IF k <= Len(s) THEN s[k] ELSE Blank]
Longest(s, t) == IF Len(s) > Len(t) THEN Len(s) ELSE Len(t)

Holds(rel, order) ==
  CASE rel = "eq" -> order = "eq"
    [] rel = "ne" -> order # "eq"
    [] rel = "lt" -> order = "lt"
    [] rel = "le" -> order \in {"lt", "eq"}
    [] rel = "gt" -> order = "gt"
    [] rel = "ge" -> order \in {"gt", "eq"}

(* The order of two values in a run whose floating-point values compare as  *)
(* o; numbers that are not known are integers made from such values.        *)
Order(v, w, o) ==
  IF IsNum(v) /\ IsNum(w)
    THEN IF v[2] < w[2] THEN "lt" ELSE IF v[2] = w[2] THEN "eq" ELSE "gt"
    ELSE o
IntOrder(v, w, o) == IF Order(v, w, o) = "nan" THEN "eq" ELSE Order(v, w, o)

(* What a call of stringInsert gives (org.netlib.util.Util), which throws   *)
(* an exception when the inserted string is shorter than the place.         *)
Inserts(x, y, from, to) ==
  /\ from \in 1..(Len(x) + 1) /\ to \in (from - 1)..Len(x) /\ Len(y) >= to - from + 1
Inserted(x, y, from, to) ==
  SubSeq(x, 1, from - 1) \o SubSeq(y, 1, to - from + 1) \o SubSeq(x, to + 1, Len(x))

(* The operands of max and min, however the calls are nested. *)
Flat(f, t, v) == IF v[1] = f /\ v[2] = t THEN v[3] ELSE {v}
Extreme(f, S) == CHOOSE n \in S : \A k \in S : IF f = "max" THEN n >= k ELSE n <= k

NoValue == <<"none">>

(* The comparisons of org.netlib.util.Util, which pad the shorter string.   *)
StrComp == [strCompEQ |-> "eq", strCompNE |-> "ne", strCompLT |-> "lt",
            strCompLE |-> "le", strCompGT |-> "gt", strCompGE |-> "ge"]

(* The value an operation or a library method f, computing in type t, gives *)
(* for vs; NoValue where it throws an exception.                            *)
Apply(f, t, vs) ==
  LET ints == \A k \in 1..Len(vs) : IsNum(vs[k])
      n(k) == vs[k][2]
  IN CASE f \in {"max", "min"} ->
            IF ints /\ t = "I" THEN Num(Extreme(f, {n(k) : k \in 1..Len(vs)}))
            ELSE <<f, t, UNION {Flat(f, t, vs[k]) : k \in 1..Len(vs)}>>
       [] f = "length"    -> Num(Len(n(1)))
       [] f = "charAt"    -> IF n(2) + 1 \in 1..Len(n(1)) THEN Num(n(1)[n(2) + 1]) ELSE NoValue
       [] f \in {"valueOf", "Character"} /\ ints -> Str(<<n(1)>>)
       [] f = "strCharAt" -> IF n(2) \in 1..Len(n(1)) THEN Str(<<n(1)[n(2)]>>) ELSE NoValue
       [] f = "substring" -> IF n(2) >= 0 /\ n(2) <= n(3) /\ n(3) <= Len(n(1))
                             THEN Str(SubSeq(n(1), n(2) + 1, n(3))) ELSE NoValue
       [] f = "append"    -> Str(n(1) \o n(2))
       [] f = "insert"    -> LET to == vs[Len(vs)][2] IN
                             IF Inserts(n(1), n(2), n(3), to)
                             THEN Str(Inserted(n(1), n(2), n(3), to)) ELSE NoValue
       [] f = "compareTo" -> LET o == StrOrder(n(1), n(2))
                             IN  Num(IF o = "lt" THEN -1 ELSE IF o = "eq" THEN 0 ELSE 1)
       [] f \in DOMAIN StrComp ->
            LET m == Longest(n(1), n(2))
            IN  Truth(Holds(StrComp[f], StrOrder(Padded(n(1), m), Padded(n(2), m))))
       [] f = "same"      -> vs[1]
       [] ints /\ t = "I" /\ f = "+"   -> Num(n(1) + n(2))
       [] ints /\ t = "I" /\ f = "-"   -> Num(n(1) - n(2))
       [] ints /\ t = "I" /\ f = "*"   -> Num(n(1) * n(2))
       [] ints /\ t = "I" /\ f = "/" /\ n(2) # 0 -> Num(Truncated(n(1), n(2)))
       [] ints /\ t = "I" /\ f = "neg" -> Num(-n(1))
       [] ints /\ f = "xor" /\ n(1) \in {0, 1} /\ n(2) \in {0, 1} -> Num((n(1) + n(2)) % 2)
       [] OTHER -> <<f, t, vs>>
-----------------------------------------------------------------------------
(* Instructions.  Get and Put name a variable, Load and Store a local       *)
(* variable by its number.  Construct makes a wrapper a new object; other   *)
(* objects that it makes are used at once.  Jumps are relative to the instruction. *)
Push(t, v)         == <<"push", t, v>>
Get(x)             == <<"get", x>>
Put(x)             == <<"put", x>>
GetVal(t)          == <<"getval", t>>
PutVal(t)          == <<"putval", t>>
ArrayLoad(t)       == <<"arrayload", t>>
ArrayStore(t)      == <<"arraystore", t>>
NewArray(t)        == <<"newarray", t>>
ArrayLength(t)     == <<"arraylength", t>>
Load(n, c)         == <<"load", n, c>>
Store(n)           == <<"store", n>>
Op(f, t, types, r) == <<"op", f, t, types, r>>
New                == <<"new">>
Dup                == <<"dup">>
Construct(t, r)    == <<"init", t, r>>
Compare(t, onNaN)  == <<"compare", t, onNaN>>
If(rel, off)       == <<"if", rel, off>>
IfIcmp(rel, off)   == <<"ificmp", rel, off>>
Goto(off)          == <<"goto", off>>
Unused             == <<"unused">>

(* A machine: the next instruction (0: stopped by an error), the operand    *)
(* stack, the variables and the contents of wrappers and arrays.            *)
Machine(var, heap) == [pc |-> 1, stack |-> <<>>, var |-> var, heap |-> heap]
Stopped(m) == [m EXCEPT !.pc = 0]

(* The n topmost items have these types. *)
Finds(m, types) ==
  /\ Len(m.stack) >= Len(types)
  /\ \A k \in 1..Len(types) : m.stack[Len(m.stack) - Len(types) + k].t = types[k]
Below(m, n) == SubSeq(m.stack, 1, Len(m.stack) - n)
Top(m, n)   == [k \in 1..n |-> m.stack[Len(m.stack) - n + k].v]

(* The machine m goes on after taking n items and pushing the items s. *)
Next1(m, n, s) == [m EXCEPT !.pc = @ + 1, !.stack = Below(m, n) \o s]
Jump(m, n, off) == [m EXCEPT !.pc = @ + off, !.stack = Below(m, n)]

(* The same machine with a new object, whose name is Fresh(m). *)
Fresh(m)         == "object" \o ToString(Cardinality(DOMAIN m.heap))
Alloc(m, values) == [m EXCEPT !.heap = (Fresh(m) :> values) @@ @]

(* A local variable holds a number or a reference of any type. *)
Category(t) == IF t \in {"I", "F", "D"} THEN t ELSE "A"

InRange(m, r, i) == IsNum(i) /\ i[2] + 1 \in 1..Len(m.heap[r])

(* One instruction, in a run whose floating-point values compare as o. *)
Step(i, m, o) ==
  LET kind == i[1]
      need == CASE kind = "put"        -> <<m.var[i[2]].t>>
                [] kind = "getval"     -> <<WrapperOf[i[2]]>>
                [] kind = "putval"     -> <<WrapperOf[i[2]], i[2]>>
                [] kind = "arrayload"  -> <<ArrayOf[i[2]], "I">>
                [] kind = "arraystore" -> <<ArrayOf[i[2]], "I", i[2]>>
                [] kind = "newarray"   -> <<"I">>
                [] kind = "arraylength" -> <<ArrayOf[i[2]]>>
                [] kind = "op"         -> i[4]
                [] kind = "dup" /\ m.stack = <<>> -> <<"an item">>
                [] kind = "init"       -> <<"new", "new", i[2]>>
                [] kind = "compare"    -> <<i[2], i[2]>>
                [] kind = "if"         -> <<"I">>
                [] kind = "ificmp"     -> <<"I", "I">>
                [] OTHER               -> <<>>
      n == Len(need)
      v == Top(m, n)
  IN IF ~Finds(m, need) THEN Stopped(m)
     ELSE
     CASE kind = "push"   -> Next1(m, 0, <<Item(i[2], i[3])>>)
       [] kind = "get"    -> Next1(m, 0, <<m.var[i[2]]>>)
       [] kind = "put"    -> [Next1(m, 1, <<>>) EXCEPT !.var[i[2]].v = v[1]]
       [] kind = "getval" -> Next1(m, 1, <<Item(i[2], m.heap[v[1][2]][1])>>)
       [] kind = "putval" -> [Next1(m, 2, <<>>) EXCEPT !.heap[v[1][2]][1] = v[2]]
       [] kind = "arrayload" ->
            IF InRange(m, v[1][2], v[2])
            THEN Next1(m, 2, <<Item(i[2], m.heap[v[1][2]][v[2][2] + 1])>>) ELSE Stopped(m)
       [] kind = "arraystore" ->
            IF InRange(m, v[1][2], v[2])
            THEN [Next1(m, 3, <<>>) EXCEPT !.heap[v[1][2]][v[2][2] + 1] = v[3]] ELSE Stopped(m)
       [] kind = "newarray" ->
            Next1(Alloc(m, [k \in 1..v[1][2] |-> <<"zero", i[2]>>]), 1,
                  <<Item(ArrayOf[i[2]], Ref(Fresh(m)))>>)
       [] kind = "arraylength" -> Next1(m, 1, <<Item("I", Num(Len(m.heap[v[1][2]])))>>)
       [] kind = "load" ->
            IF i[2] \in DOMAIN m.var /\ Category(m.var[i[2]].t) = i[3]
            THEN Next1(m, 0, <<m.var[i[2]]>>) ELSE Stopped(m)
       [] kind = "store" ->
            Next1([m EXCEPT !.var = (i[2] :> m.stack[Len(m.stack)]) @@ @], 1, <<>>)
       [] kind = "op" ->
            LET r == Apply(i[2], i[3], v)
            IN  IF r = NoValue THEN Stopped(m) ELSE Next1(m, n, <<Item(i[5], r)>>)
       [] kind = "new"  -> Next1(m, 0, <<Item("new", NoValue)>>)
       [] kind = "dup"  -> Next1(m, 0, <<m.stack[Len(m.stack)]>>)
       [] kind = "init" ->
            IF i[3] = WrapperOf[i[2]]
            THEN Next1(Alloc(m, <<v[3]>>), 3, <<Item(i[3], Ref(Fresh(m)))>>)
            ELSE Next1(m, 3, <<Item(i[3], v[3])>>)
       [] kind = "compare" ->
            LET order == Order(v[1], v[2], o) IN
            Next1(m, 2, <<Item("I", Num(CASE order = "lt" -> -1 [] order = "eq" -> 0
                                          [] order = "gt" -> 1 [] OTHER -> i[3]))>>)
       [] kind = "if"     -> Jump(m, 1, IF Holds(i[2], IntOrder(v[1], Num(0), o)) THEN i[3] ELSE 1)
       [] kind = "ificmp" -> Jump(m, 2, IF Holds(i[2], IntOrder(v[1], v[2], o)) THEN i[3] ELSE 1)
       [] kind = "goto"   -> Jump(m, 0, i[2])
       [] kind = "unused" -> Jump(m, 0, 1)

(* The machine at the end of the code, or where it stopped. *)
RECURSIVE Run(_, _, _)
Run(code, m, o) ==
  IF m.pc \in 1..Len(code) THEN Run(code, Step(code[m.pc], m, o), o) ELSE m

Finished(code, m) == m.pc = Len(code) + 1
=============================================================================
