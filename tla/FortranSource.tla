--------------------------- MODULE FortranSource ---------------------------
(***************************************************************************)
(* What the lexer promises the parser: the statements of the program, in     *)
(* order, every INCLUDE replaced by the statements of its file, every word   *)
(* as the token it is, and a mark where a program unit begins without a      *)
(* heading and where one ends.  A comment is handed over once, and never     *)
(* after the statement that follows it.                                      *)
(***************************************************************************)
EXTENDS SourceLines

CONSTANT Main       \* the file named on the command line

VARIABLES
  program,          \* file name -> the file's lines
  todo,             \* what is still to be handed over
  inUnit,           \* the statements of a program unit are being handed over
  delivered         \* the tokens of each statement handed over

vars == <<program, todo, inUnit, delivered>>

Contents(file) == Statements(program[file]) \o <<EndOf(file)>>

Init ==
  /\ todo = SkipEnds(Contents(Main))
  /\ inUnit = FALSE
  /\ delivered = <<>>

(* A program unit starts with one of these tokens, or with NO_PROGRAM.       *)
Headed(tokens) ==
  \/ Head(tokens) \in {"PROGRAM", "SUBROUTINE", "FUNCTION"}
  \/ Len(tokens) > 1 /\ tokens[1] \in {"ARITH_TYPE", "CHAR_TYPE"} /\ tokens[2] = "FUNCTION"

Due(items) == items # <<>> /\ Head(items).kind = "statement"

DeliverStatement ==
  /\ \E items \in {todo} :
       LET tokens == Tokens(Head(items).words)
       IN
        /\ Due(items) /\ ~Includes(Head(items).words)
        /\ delivered' = Append(delivered,
             (IF inUnit \/ Headed(tokens) THEN <<>> ELSE <<"NO_PROGRAM">>)
               \o (IF tokens = <<"END">> THEN <<"DUMMY">> ELSE <<>>) \o tokens)
        /\ inUnit' = (tokens # <<"END">>)
        /\ todo' = SkipEnds(Tail(items))
  /\ UNCHANGED program

(* A file that is being read already is not included again.                  *)
Include ==
  /\ \E items \in {todo} :
       LET file == Head(items).words[2].text
       IN /\ Due(items) /\ Includes(Head(items).words)
          /\ todo' = SkipEnds(IF EndOf(file) \in ToSet(Tail(items)) THEN Tail(items)
                              ELSE Contents(file) \o Tail(items))
  /\ UNCHANGED <<program, inUnit, delivered>>

DeliverComments ==
  /\ \E items \in {todo} :
        \E i \in DOMAIN items : \E j \in i..Len(items) :
          /\ \A k \in i..j : IsComment(items[k])
          /\ todo' = SkipEnds(SubSeq(items, 1, i - 1) \o SubSeq(items, j + 1, Len(items)))
  /\ UNCHANGED <<program, inUnit, delivered>>

Next == DeliverStatement \/ Include \/ DeliverComments
Spec == Init /\ [][Next]_vars
=============================================================================
