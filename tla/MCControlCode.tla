--------------------------- MODULE MCControlCode ---------------------------
(* Small instances of ControlCode for TLC. *)
EXTENDS ControlCode

DoVals(own, start, stop, incr) == [own |-> own, start |-> start, stop |-> stop, incr |-> incr]
NoDo == DoVals(FALSE, 0, 0, 1)
S(k, lab, to) == [k |-> k, lab |-> lab, to |-> to, do |-> NoDo]
Do(to, start, stop, incr) == [k |-> "do", lab |-> 0, to |-> to, do |-> DoVals(FALSE, start, stop, incr)]

Lines0 == {S(k, 0, <<>>) : k \in {"work", "return", "stop", "agoto", "lifwork", "enddo",
                                  "if", "elseif", "else", "endif", "end"}}
Labelled10 == {S(k, 10, <<>>) : k \in {"work", "continue", "lifwork", "if"}} \cup {S("do", 10, <<>>)}
Labelled20 == {S(k, 20, <<>>) : k \in {"continue", "enddo", "endif", "end"}}
Jumping == {S("goto", 0, <<10>>), S("goto", 0, <<20>>), S("lifgoto", 0, <<20>>), S("lifgoto", 10, <<20>>),
            S("assign", 0, <<20>>), S("cgoto", 0, <<20, 10>>),
            S("aif", 0, <<20, 10, 20>>), S("aifwide", 0, <<10, 20, 20>>)}
Loops == {Do(<<10>>, 1, 2, 1), Do(<<10>>, 1, 0, 1), Do(<<>>, 2, 0, -2)}

AllSource == Lines0 \cup Labelled10 \cup Labelled20 \cup Jumping \cup Loops
Family(kinds, max, refl) ==
  [lines |-> {line \in AllSource : line.k \in kinds}, max |-> max, reflect |-> refl]
AllFamilies == <<
  Family({"work", "if", "elseif", "else", "endif", "end"}, 7, {FALSE}),
  Family({"work", "do", "enddo", "continue", "lifwork", "end"}, 5, {FALSE}),
  Family({"work", "do", "enddo", "if", "else", "endif", "end"}, 6, {TRUE}),
  Family(Kinds \ {"if", "elseif", "else", "endif"}, 4, {FALSE}),
  Family(Kinds \ {"do", "enddo"}, 4, {FALSE}),
  Family({"do", "enddo", "assign", "agoto", "end"}, 5, {FALSE})>>

OwnSource == {S("work", 0, <<>>), S("enddo", 0, <<>>), S("end", 0, <<>>),
              [k |-> "do", lab |-> 0, to |-> <<>>, do |-> DoVals(TRUE, 1, 2, 1)]}
OwnFamilies == <<[lines |-> OwnSource, max |-> 4, reflect |-> {FALSE}]>>
=============================================================================
