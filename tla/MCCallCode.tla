----------------------------- MODULE MCCallCode -----------------------------
(* A small program unit for TLC: i and d are kept in wrappers, v is a local *)
(* array, m(0:1, i) an argument that starts inside another array.           *)
EXTENDS CallCode

TypeFn == [i |-> "Integer", x |-> "Float", d |-> "Double", p |-> "Logical", s |-> "String",
           v |-> "Double", m |-> "Integer"]
Const(c) == Node("const", "Integer", c, <<>>)
BoundsFn ==
  [y \in DOMAIN TypeFn |->
     CASE y = "v" -> << <<NoBound, Const("2")>> >>
       [] y = "m" -> << <<Const("0"), Const("1")>>, <<NoBound, Node("var", "Integer", "i", <<>>)>> >>
       [] OTHER   -> <<>>]
OffsetFn == [y \in DOMAIN TypeFn |-> IF y = "m" THEN 1 ELSE -1]
ValueFn ==
  [i |-> <<Num(2)>>, x |-> <<(<<"float">>)>>, d |-> <<(<<"double">>)>>, p |-> <<Truth(FALSE)>>,
   s |-> <<Str(<<97, 98>>)>>, v |-> << <<"first">>, <<"second">> >>,
   m |-> <<Num(3), Num(4), Num(5), Num(6), Num(7)>>]
LengthFn   == [y \in DOMAIN TypeFn |-> IF y = "s" THEN 2 ELSE 0]
LitTypeFn  == [c \in {"0", "1", "2", "1D0"} |-> IF c = "1D0" THEN "Double" ELSE "Integer"]
LitValueFn == [c \in {"0", "1", "2", "1D0"} |->
  CASE c = "0" -> Num(0) [] c = "1" -> Num(1) [] c = "2" -> Num(2) [] c = "1D0" -> <<"one">>]

DescriptorFn ==
  [first |-> <<"D", "doubleW", "[I", "I">>, second |-> <<"[D", "I", "intW", "doubleW">>,
   third |-> <<"F", "D", "intW">>, fourth |-> <<"intW", "doubleW">>]

Scalar(x)     == Checked("var", x, <<>>)
At(a, args)   == Checked("elem", a, args)
ArgumentSet ==
  {Scalar("i"), Scalar("x"), Scalar("d"), Checked("const", "1", <<>>), Checked("const", "1D0", <<>>),
   At("v", <<Const("1")>>), At("v", <<Scalar("i")>>), At("m", <<Const("1"), Scalar("i")>>),
   Node("array", "Double", "v", <<>>), Node("array", "Integer", "m", <<>>),
   Checked("paren", NoName, <<Scalar("d")>>), Checked("+", NoName, <<Scalar("i"), Const("1")>>)}
AllButALOG == DOMAIN intrinsic_toks \ {"ALOG", "ALOG10"}
=============================================================================
