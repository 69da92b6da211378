---------------------------- MODULE SourceLines ----------------------------
(***************************************************************************)
(* The lines of a Fortran source file.                                       *)
(***************************************************************************)
EXTENDS Integers, SequencesExt

(* Op applied to the value of e: TLC then evaluates e once.                   *)
Strict(Op(_), e) == CHOOSE result \in {Op(value) : value \in {e}} : TRUE

Concat(seqs) == Strict(FlattenSeq, seqs)

(* A line is a record of its kind and of its words, which are pairs of the   *)
(* text written and the token meant; an INCLUDE line is a statement whose    *)
(* second word is the name of the file.                                      *)
IsComment(item) == item.kind = "comment"
CommentLine == [kind |-> "comment", words |-> <<>>]
Includes(words) == words[1].text = "include"
Tokens(words) == SelectSeq([i \in DOMAIN words |-> words[i].token], LAMBDA t : t # "none")

(* The lines of a file with each statement's continuation lines joined to it. *)
JoinLines(lines) ==
  LET Continues(i, j) == /\ lines[j].kind = "continued"
                         /\ \A k \in i + 1..j : lines[k].kind \in {"comment", "continued"}
      Joined(i) == Concat([j \in 1..Len(lines) |->
                     IF j = i \/ (j > i /\ Continues(i, j)) THEN lines[j].words ELSE <<>>])
      items == [i \in 1..Len(lines) |->
                 CASE lines[i].kind = "statement" -> [lines[i] EXCEPT !.words = Joined(i)]
                   [] lines[i].kind = "blank" -> CommentLine
                   [] OTHER -> lines[i]]
  IN SelectSeq(items, LAMBDA item : item.kind # "continued")
Statements(lines) == Strict(JoinLines, lines)

EndOf(file) == [kind |-> "end", words |-> <<[text |-> file, token |-> "none"]>>]
WithoutEnds(items) ==
  LET first == SelectInSeq(items, LAMBDA item : item.kind # "end")
  IN IF first = 0 THEN <<>> ELSE SubSeq(items, first, Len(items))
SkipEnds(items) == Strict(WithoutEnds, items)
=============================================================================
