--------------------------- MODULE MCConstantPool ---------------------------
(* Small instances of ConstantPool for TLC. *)
EXTENDS ConstantPool

CONSTANTS
  dotted, slashed, word,                  \* a class name, its internal form, another string
  big, small, pi, one, negZero, posZero   \* an int outside and one inside the range of
                                          \* sipush, and four doubles

TextSet   == {dotted, slashed, word}
SlashedFn == [s \in TextSet |-> IF s = dotted THEN slashed ELSE s]

NumberSet == {big, small, pi, one}
ZeroSet   == {big, posZero, negZero}
AllNumber == NumberSet \cup ZeroSet
TagFn     == [n \in AllNumber |-> IF n \in {big, small} THEN "Integer" ELSE "Double"]
EqualFn   == [n \in AllNumber |-> IF n = negZero THEN posZero ELSE n]
TagNumber   == [n \in NumberSet |-> TagFn[n]]
EqualNumber == [n \in NumberSet |-> EqualFn[n]]
TagZero     == [n \in ZeroSet |-> TagFn[n]]
EqualZero   == [n \in ZeroSet |-> EqualFn[n]]
=============================================================================
