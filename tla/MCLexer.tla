------------------------------ MODULE MCLexer ------------------------------
(* Small instances of Lexer for TLC. *)
EXTENDS Lexer

Word(text, token) == [text |-> text, token |-> token]
name(x) == Word(x, "NAME")
Statement(words) == [kind |-> "statement", words |-> words]
Continued(words) == [kind |-> "continued", words |-> words]
Blank == [kind |-> "blank", words |-> <<>>]
IncludeOf(file) == Statement(<<Word("include", "none"), Word(file, "none")>>)

integer == Word("integer", "ARITH_TYPE")
one == Word("1", "INTEGER")
ten == Word("10", "INTEGER")
op == Word("(", "OP")
cp == Word(")", "CP")
cm == Word(",", "CM")
eq == Word("=", "EQ")
call == Word("call", "CALL")
if == Word("if", "IF")

Subroutine == Statement(<<Word("subroutine", "SUBROUTINE"), name("s"), op, name("iflag"), cp>>)
Function == Statement(<<integer, Word("function", "FUNCTION"), name("f")>>)
Declaration == Statement(<<integer, name("n")>>)
MoreNames == Continued(<<cm, name("doit")>>)
Assignment == Statement(<<name("iflag"), eq, one>>)
Labelled == Statement(<<ten, Word("continue", "CONTINUE")>>)
LabelledDo == Statement(<<ten, Word("do", "DO"), Word("20", "INTEGER"), name("iflag"), eq, one, cm, one>>)
IfAssignment == Statement(<<if, op, name("iflag"), cp, name("doit"), eq, one>>)
IfCall == Statement(<<if, op, name("n"), cp, call, name("doit")>>)
Assign == Statement(<<Word("assign", "ASSIGN"), ten, Word("to", "TO"), name("n")>>)
LabelledAssign == Statement(<<one, Word("assign", "ASSIGN"), ten, Word("to", "TO"), name("n")>>)
Implicit == Statement(<<Word("implicit", "IMPLICIT"), integer, op, name("n"), cp>>)
Endif == Statement(<<Word("10", "none"), Word("endif", "ENDIF")>>)
End == Statement(<<Word("end", "END")>>)

CodeNumbers == {"1", "10", "20"}
CodeSplits == [iflag |-> <<"if", "lag">>, doit |-> <<"do", "it">>]

(* A unit with or without a heading, up to two more lines in it, and one more     *)
(* unit; the files b and c may include one another.                                *)
Headings == {<<Subroutine>>, <<Function>>, <<Declaration>>, <<CommentLine, Assignment>>, <<Labelled>>,
             <<Implicit>>, <<Subroutine, CommentLine>>}
Inside == {CommentLine, Blank, Assignment, LabelledDo, IfAssignment, IfCall, Assign, LabelledAssign,
           Endif, IncludeOf("b")}
Bodies == {<<>>} \cup {<<l>> : l \in Inside} \cup {<<k, l>> : k \in Inside, l \in Inside}
            \cup {<<Declaration, CommentLine, MoreNames>>, <<Declaration, MoreNames, CommentLine, Assignment>>}
Tails == {<<CommentLine, Function, CommentLine, End>>, <<Assignment, End>>}
Included == {[b |-> <<CommentLine, Assignment, IncludeOf("c")>>, c |-> <<IncludeOf("b")>>],
             [b |-> <<IncludeOf("c"), CommentLine>>, c |-> <<Declaration, MoreNames>>]}
File(main, included) == [f \in {"a", "b", "c"} |-> IF f = "a" THEN main ELSE included[f]]
AllPrograms ==
  {File(h \o b \o <<End>>, i) : h \in Headings, b \in Bodies, i \in Included}
    \cup {File(h \o <<l>> \o <<End>> \o t, i) :
            h \in Headings, l \in Inside, t \in Tails, i \in Included}
    \cup {File(<<End>>, i) : i \in Included}

(* A heading and a declaration of a name that begins with a keyword, with or        *)
(* without comments behind each.                                                    *)
CommentedUnits ==
  {File(<<Subroutine>> \o c \o <<Statement(<<integer, name("iflag")>>)>> \o d \o <<End>>, i) :
     c \in {<<>>, <<CommentLine>>}, d \in {<<>>, <<CommentLine>>}, i \in Included}
(* A file that includes itself.                                                     *)
SelfIncluded == {File(<<Subroutine, IncludeOf("b"), End>>,
                      [b |-> <<Assignment, IncludeOf("b")>>, c |-> <<>>])}
=============================================================================
