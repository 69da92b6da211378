------------------------------- MODULE Lexer -------------------------------
(***************************************************************************)
(* The lexer of f2java (f2jlex.c): prelex assembles the next statement out   *)
(* of the lines of the file being read and of the files it includes, and     *)
(* yylex cuts it into tokens, deciding from the form of the statement (Sale's *)
(* algorithm) what is a keyword, and looking ahead where the grammar needs    *)
(* it to.  A statement is a sequence of words, the runs of characters that    *)
(* the program's author meant as one token; the lexer sees only their texts,  *)
(* and a text that begins with a keyword can be split.                        *)
(***************************************************************************)
EXTENDS SourceLines, FiniteSets, TLC

CONSTANTS
  Main,             \* the file named on the command line
  Programs,         \* the programs to read: file name -> lines
  MaxOpen,          \* the files a process may have open
  Numbers,          \* the texts made of digits
  Splits            \* name -> <<the keyword it begins with, the rest>>

VARIABLES
  program,
  current_file_info,  \* the file being read: its name, the line fp is at, line_num
  file_stack,         \* the files that include it, outermost first
  lineno,
  opened,             \* the files opened so far: none is ever closed
  buffer,             \* what is left of the statement, a sequence of texts
  line_buffer,        \* the words of the statement assembled last
  comment_buffer,     \* the number of comment lines buffered
  incomplete_prelex,
  tokennumber, firsttoken, parencount, progseen, func_stmt_num,
  next_tok,           \* the tokens looked ahead at
  lexeme,             \* of a COMMENT token: what yylval.lexeme holds
  line,               \* the tokens of the line the parser is reading
  delivered           \* the tokens of each statement the parser has read

fileVars == <<current_file_info, file_stack, lineno, opened>>
statementVars == <<tokennumber, firsttoken, parencount>>
parserVars == <<line, delivered, comment_buffer>>
vars == <<program, fileVars, buffer, line_buffer, incomplete_prelex, statementVars,
          progseen, func_stmt_num, next_tok, lexeme, parserVars>>

NoFile == [name |-> "none", fp |-> 0, line_num |-> 0]
NT_NUM == 2

------------------------------------------------------------------------------
(* The keyword tables (globals.c), from the text of a keyword to its token.   *)
tab_type == [integer |-> "ARITH_TYPE", character |-> "CHAR_TYPE"]
tab_stmt ==
  [call |-> "CALL", continue |-> "CONTINUE", data |-> "DATA", do |-> "DO", endif |-> "ENDIF",
   end |-> "END", else |-> "ELSE", function |-> "FUNCTION", goto |-> "GOTO", if |-> "IF",
   implicit |-> "IMPLICIT", program |-> "PROGRAM", return |-> "RETURN", save |-> "SAVE",
   subroutine |-> "SUBROUTINE", then |-> "THEN", assign |-> "ASSIGN"]
tab_toks == ("\n" :> "NL") @@ ("(" :> "OP") @@ (")" :> "CP") @@ ("," :> "CM") @@ ("=" :> "EQ")
assign_toks == [to |-> "TO"]

isdigit(text) == text \in Numbers
isalpha(text) == text \notin DOMAIN tab_toks \cup Numbers

(* A keyword matches where a word begins with it, whole word or not.          *)
NoToken == [token |-> "none", rest |-> <<>>]
keyscan(tab, words) ==
  LET text == Head(words)
  IN IF text \in DOMAIN tab THEN [token |-> tab[text], rest |-> Tail(words)]
     ELSE IF text \in DOMAIN Splits /\ Splits[text][1] \in DOMAIN tab
          THEN [token |-> tab[Splits[text][1]], rest |-> <<Splits[text][2]>> \o Tail(words)]
     ELSE NoToken
InTab(tab, words) == keyscan(tab, words) # NoToken

(* The white space is gone: a name is all the letters and digits that follow. *)
name_scan(words) ==
  LET next == SelectInSeq(words, LAMBDA text : text \in DOMAIN tab_toks)
  IN [token |-> IF firsttoken = "IMPLICIT" /\ Head(words) = "none" THEN "NONE" ELSE "NAME",
      rest |-> SubSeq(words, next, Len(words))]
number_scan(words) == [token |-> "INTEGER", rest |-> Tail(words)]

------------------------------------------------------------------------------
(* Sale's algorithm: what collapse_white_space notes of the statement outside  *)
(* parentheses.                                                                *)
Texts(words) == [i \in DOMAIN words |-> words[i].text]
Count(words, text, i) == Cardinality({k \in 1..i : words[k].text = text})
Outside(i) == Count(line_buffer, "(", i) = Count(line_buffer, ")", i)
Seen(text) == \E i \in DOMAIN line_buffer : line_buffer[i].text = text /\ Outside(i)
commaseen == Seen(",")
equalseen == Seen("=")
letterseen == \E i \in 1..Len(line_buffer) - 1 :
                line_buffer[i].text = ")" /\ Outside(i) /\ isalpha(line_buffer[i + 1].text)
IsAssignment == ~commaseen /\ equalseen /\ ~letterseen

------------------------------------------------------------------------------
(* The parser takes a token; with the NL that ends the line it reduces the      *)
(* line, and a comment takes the buffered lines with it.                        *)
MutantTake(token) ==
  /\ line' = IF token = "NL" THEN <<>> ELSE Append(line, token)
  /\ delivered' = IF token = "NL" /\ line # <<"COMMENT">> THEN Append(delivered, line) ELSE delivered
  /\ UNCHANGED comment_buffer
Take(token) ==
  IF token # "NL"
  THEN /\ line' = Append(line, token)
       /\ UNCHANGED <<delivered, comment_buffer>>
  ELSE /\ line' = <<>>
       /\ IF line = <<"COMMENT">>
          THEN comment_buffer' = 0 /\ UNCHANGED delivered
          ELSE delivered' = Append(delivered, line) /\ UNCHANGED comment_buffer

------------------------------------------------------------------------------
(* The files being read, as one value that prelex works on.                     *)
Files == [open |-> Append(file_stack, current_file_info), lineno |-> lineno, opened |-> opened]
Text(files) == program[Last(files.open).name]
AtEnd(file) == file.fp > Len(program[file.name])
SetFiles(files) ==
  /\ file_stack' = Front(files.open)
  /\ current_file_info' = Last(files.open)
  /\ lineno' = files.lineno /\ opened' = files.opened

(* At the end of a file prelex goes back to the one that included it.           *)
Pop(files) ==
  LET depth == Max({i \in DOMAIN files.open : ~AtEnd(files.open[i])})
  IN IF depth = Len(files.open) THEN files
     ELSE [files EXCEPT !.open = SubSeq(@, 1, depth), !.lineno = files.open[depth].line_num]

f2j_fgets(files, lines) ==
  [files EXCEPT !.open[Len(files.open)].fp = @ + lines, !.lineno = @ + lines]

(* check_continued_lines: the lines after the first that belong to the statement *)
(* or are comments between and behind them.                                      *)
MutantContinuedLines(files) ==
  LET text == Text(files)
      fp == Last(files.open).fp
      next == Min({j \in fp + 1..Len(text) + 1 : j = Len(text) + 1 \/ text[j].kind # "continued"})
  IN SubSeq(text, fp + 1, next - 1)
check_continued_lines(files) ==
  LET text == Text(files)
      fp == Last(files.open).fp
      next == Min({j \in fp + 1..Len(text) + 1 :
                    j = Len(text) + 1 \/ text[j].kind \notin {"comment", "continued"}})
  IN SubSeq(text, fp + 1, next - 1)

(* A comment line of its own, or the name of an included file, goes to the       *)
(* parser as a comment and the buffer is left with the NL.                        *)
ReturnComment(files, text) ==
  /\ SetFiles(files)
  /\ buffer' = <<"\n">>
  /\ lexeme' = text
  /\ Take("COMMENT")

(* The include file is opened unless it is on the stack; what is returned is a   *)
(* comment either way.  If it cannot be opened f2java exits.                      *)
MutantInStack(files, name) == FALSE
InStack(files, name) == \E i \in DOMAIN Front(files.open) : files.open[i].name = name
open_included_file(files, name) == name \in DOMAIN program /\ files.opened < MaxOpen
lex_included_file(files, name) ==
  IF InStack(files, name) THEN files
  ELSE [open |-> Append([files.open EXCEPT ![Len(files.open)].line_num = files.lineno + 1],
                        [name |-> name, fp |-> 1, line_num |-> 0]),
        lineno |-> 0, opened |-> files.opened + 1]
ReturnInclude(files, name) ==
  /\ InStack(files, name) \/ open_included_file(files, name)
  /\ ReturnComment(lex_included_file(files, name), "include")

------------------------------------------------------------------------------
(* Tokens looked ahead at are returned first.                                    *)
SavedToken ==
  /\ next_tok # <<>>
  /\ next_tok' = Tail(next_tok)
  /\ Take(Head(next_tok))
  /\ UNCHANGED <<program, fileVars, buffer, line_buffer, incomplete_prelex, statementVars,
                 progseen, func_stmt_num, lexeme>>

IsInclude(words) == words # <<>> /\ Head(words) = "include"

(* The statement assembled already is an INCLUDE that had to wait until the      *)
(* comments after it were handed over.                                            *)
WaitingInclude == buffer # <<>> /\ incomplete_prelex /\ tokennumber = 0 /\ IsInclude(buffer)
IncludeFile ==
  /\ next_tok = <<>> /\ WaitingInclude
  /\ incomplete_prelex' = FALSE
  /\ ReturnInclude(Files, buffer[2])
  /\ UNCHANGED <<program, line_buffer, statementVars, progseen, func_stmt_num, next_tok>>

(* prelex: the next line of the innermost file that has one.                     *)
NewLine ==
  /\ next_tok = <<>> /\ buffer = <<>> /\ current_file_info # NoFile
  /\ tokennumber' = 0 /\ firsttoken' = "none" /\ parencount' = 0
  /\ UNCHANGED <<program, progseen>>
SomeLine == \E i \in DOMAIN Files.open : ~AtEnd(Files.open[i])
NextLine(files) == Text(files)[Last(files.open).fp]

PrelexComment ==
  /\ NewLine /\ SomeLine
  /\ LET files == Pop(Files)
     IN /\ NextLine(files).kind \in {"comment", "blank"}
        /\ ReturnComment(f2j_fgets(files, 1), "comment")
  /\ UNCHANGED <<line_buffer, incomplete_prelex, func_stmt_num, next_tok>>

(* A statement: if comments came with it they go first, and yylex finds the      *)
(* statement in the buffer later; then it is not counted.                        *)
PrelexStatement ==
  /\ NewLine /\ SomeLine
  /\ LET files == Pop(Files)
         more == check_continued_lines(files)
         words == FlattenSeq([i \in DOMAIN more |-> more[i].words])
         read == f2j_fgets(files, 1 + Len(more))
         comments == Len(SelectSeq(more, LAMBDA l : l.kind = "comment"))
     IN /\ NextLine(files).kind \notin {"comment", "blank"}
        /\ line_buffer' = NextLine(files).words \o words
        /\ IF comments > 0
           THEN /\ incomplete_prelex' = TRUE
                /\ comment_buffer' = comments
                /\ next_tok' = <<"NL">>
                /\ line' = Append(line, "COMMENT")
                /\ buffer' = Texts(line_buffer') \o <<"\n">>
                /\ SetFiles(read)
                /\ UNCHANGED <<func_stmt_num, lexeme, delivered>>
           ELSE /\ IF IsInclude(Texts(line_buffer'))
                   THEN /\ ReturnInclude(read, line_buffer'[2].text)
                        /\ UNCHANGED func_stmt_num
                   ELSE /\ func_stmt_num' = func_stmt_num + 1
                        /\ buffer' = Texts(line_buffer') \o <<"\n">>
                        /\ SetFiles(read)
                        /\ UNCHANGED <<lexeme, parserVars>>
                /\ UNCHANGED <<incomplete_prelex, next_tok>>

EndOfFile ==
  /\ NewLine /\ ~SomeLine
  /\ current_file_info' = NoFile
  /\ file_stack' = <<>>
  /\ lineno' = IF file_stack = <<>> THEN lineno ELSE Head(file_stack).line_num
  /\ UNCHANGED <<opened, buffer, line_buffer, incomplete_prelex, func_stmt_num, next_tok, lexeme,
                 parserVars>>

------------------------------------------------------------------------------
(* The first token of a statement.                                               *)
Scanning == next_tok = <<>> /\ buffer # <<>> /\ ~WaitingInclude
FirstKind ==
  IF tokennumber # 0 THEN "other"
  ELSE IF IsAssignment THEN IF isalpha(Head(buffer)) THEN "name" ELSE "other"
  ELSE IF InTab(tab_type, buffer) THEN "type"
  ELSE IF InTab(tab_stmt, buffer) THEN "keyword"
  ELSE IF isdigit(Head(buffer)) THEN "label" ELSE "other"

(* While no heading has been seen NO_PROGRAM comes first and the token waits.    *)
AfterHeading(token) ==
  /\ progseen' = TRUE
  /\ IF progseen THEN Take(token) /\ UNCHANGED next_tok
     ELSE Take("NO_PROGRAM") /\ next_tok' = <<token>>

FirstName ==
  /\ Scanning /\ FirstKind = "name"
  /\ AfterHeading("NAME")
  /\ buffer' = name_scan(buffer).rest
  /\ tokennumber' = IF progseen THEN 1 ELSE 0
  /\ UNCHANGED <<program, fileVars, line_buffer, incomplete_prelex, firsttoken, parencount,
                 func_stmt_num, lexeme>>

FirstLabel ==
  /\ Scanning /\ FirstKind = "label"
  /\ firsttoken' = "INTEGER" /\ tokennumber' = 1
  /\ LET rest == number_scan(buffer).rest
         keyword == keyscan(tab_stmt, rest)
     IN IF Head(rest) \in {"else", "endif"}     \* the label is not passed on
        THEN Take(keyword.token) /\ buffer' = keyword.rest /\ UNCHANGED <<progseen, next_tok>>
        ELSE AfterHeading("INTEGER") /\ buffer' = rest
  /\ UNCHANGED <<program, fileVars, line_buffer, incomplete_prelex, parencount, func_stmt_num, lexeme>>

(* A type opens a declaration or a FUNCTION: in front of the first heading yylex *)
(* calls itself to see which, with no token of the statement counted yet.        *)
Declared(words) ==
  IF InTab(tab_type, words) THEN keyscan(tab_type, words)
  ELSE IF InTab(tab_stmt, words) THEN keyscan(tab_stmt, words)
  ELSE name_scan(words)
FirstType ==
  /\ Scanning /\ FirstKind = "type"
  /\ LET type == keyscan(tab_type, buffer)
         second == Declared(type.rest)
     IN IF progseen
        THEN /\ Take(type.token)
             /\ buffer' = type.rest
             /\ firsttoken' = type.token
             /\ UNCHANGED next_tok
        ELSE /\ IF second.token = "FUNCTION"
                THEN Take(type.token) /\ next_tok' = <<"FUNCTION">>
                ELSE Take("NO_PROGRAM") /\ next_tok' = <<type.token, second.token>>
             /\ buffer' = second.rest
             /\ firsttoken' = IF second.token = "NAME" THEN "none" ELSE second.token
  /\ progseen' = TRUE /\ tokennumber' = 1
  /\ UNCHANGED <<program, fileVars, line_buffer, incomplete_prelex, parencount, func_stmt_num, lexeme>>

(* END is announced by DUMMY; the next statement opens another unit.             *)
FirstKeyword ==
  /\ Scanning /\ FirstKind = "keyword"
  /\ LET keyword == keyscan(tab_stmt, buffer)
     IN /\ firsttoken' = keyword.token
        /\ buffer' = keyword.rest
        /\ func_stmt_num' = IF keyword.token = "END" THEN 0 ELSE func_stmt_num
        /\ \/ /\ keyword.token \in {"PROGRAM", "SUBROUTINE", "FUNCTION"}
              /\ progseen' = TRUE
              /\ Take(keyword.token)
              /\ UNCHANGED next_tok
           \/ /\ keyword.token \notin {"PROGRAM", "SUBROUTINE", "FUNCTION", "END"}
              /\ AfterHeading(keyword.token)
           \/ /\ keyword.token = "END" /\ progseen
              /\ progseen' = FALSE
              /\ Take("DUMMY") /\ next_tok' = <<"END">>
           \/ /\ keyword.token = "END" /\ ~progseen
              /\ progseen' = TRUE
              /\ Take("NO_PROGRAM") /\ next_tok' = <<"DUMMY", "END">>
  /\ tokennumber' = 1
  /\ UNCHANGED <<program, fileVars, line_buffer, incomplete_prelex, parencount, lexeme>>

------------------------------------------------------------------------------
(* The other tokens, by the first rule that applies.                             *)

(* After a type that opens the first statement of a unit: is it FUNCTION?        *)
FunctionRule ==
  func_stmt_num = 0 /\ firsttoken \in {"ARITH_TYPE", "CHAR_TYPE"} /\ tokennumber = 1
    /\ InTab(tab_stmt, buffer)

ImplicitToken ==
  IF parencount > 0
  THEN IF isalpha(Head(buffer)) THEN name_scan(buffer) ELSE NoToken
  ELSE keyscan(tab_type, buffer)

(* After IF (...) and after a label the statement proper begins.  In an          *)
(* assignment only DO and IF right after a label are keywords.                   *)
InContext ==
  \/ letterseen /\ firsttoken \in {"IF", "ELSEIF"} /\ parencount = 0
  \/ firsttoken = "INTEGER"
MisplacedKeyword(token, keywords) ==
  /\ token \in keywords
  /\ IF firsttoken = "INTEGER" THEN tokennumber # 1 ELSE tokennumber # 0
ContextToken ==
  LET keyword == keyscan(tab_stmt, buffer)
  IN IF equalseen
     THEN IF keyword.token \in {"DO", "IF"} /\ ~MisplacedKeyword(keyword.token, {"DO", "IF"})
          THEN keyword
          ELSE IF isalpha(Head(buffer)) THEN name_scan(buffer) ELSE NoToken
     ELSE IF keyword # NoToken
     THEN IF MisplacedKeyword(keyword.token, {"DO", "IF", "DATA"}) THEN NoToken ELSE keyword
     ELSE IF ~commaseen /\ tokennumber = 3 THEN keyscan(assign_toks, buffer) ELSE NoToken

NextToken ==
  IF FunctionRule THEN keyscan(tab_stmt, buffer)
  ELSE IF firsttoken = "IMPLICIT" /\ ImplicitToken # NoToken THEN ImplicitToken
  ELSE IF InTab(tab_toks, buffer) THEN keyscan(tab_toks, buffer)
  ELSE IF InContext /\ ContextToken # NoToken THEN ContextToken
  ELSE IF firsttoken = "ASSIGN" /\ tokennumber = 2 /\ InTab(assign_toks, buffer)
       THEN keyscan(assign_toks, buffer)
  ELSE IF isalpha(Head(buffer)) THEN name_scan(buffer)
  ELSE number_scan(buffer)

(* The DO of a labelled statement is the one token that is not counted.          *)
OtherToken ==
  /\ Scanning /\ FirstKind = "other"
  /\ LET next == NextToken
     IN /\ Take(next.token)
        /\ buffer' = next.rest
        /\ tokennumber' = tokennumber
             + IF InContext /\ equalseen /\ next.token \in {"DO", "IF"} THEN 0 ELSE 1
        /\ parencount' = parencount + (IF next.token = "OP" THEN 1 ELSE 0)
                                    - (IF next.token = "CP" THEN 1 ELSE 0)
  /\ UNCHANGED <<program, fileVars, line_buffer, incomplete_prelex, firsttoken, progseen,
                 func_stmt_num, next_tok, lexeme>>

yylex ==
  \/ SavedToken \/ IncludeFile
  \/ PrelexComment \/ PrelexStatement \/ EndOfFile
  \/ FirstName \/ FirstLabel \/ FirstType \/ FirstKeyword \/ OtherToken

Init ==
  /\ program \in Programs
  /\ current_file_info = [name |-> Main, fp |-> 1, line_num |-> 0]
  /\ file_stack = <<>> /\ lineno = 0 /\ opened = 1
  /\ buffer = <<>> /\ line_buffer = <<>>
  /\ comment_buffer = 0 /\ incomplete_prelex = FALSE
  /\ tokennumber = 0 /\ firsttoken = "none" /\ parencount = 0
  /\ progseen = FALSE /\ func_stmt_num = 0
  /\ next_tok = <<>> /\ lexeme = "none"
  /\ line = <<>> /\ delivered = <<>>

(* The parser calls yylex until it returns 0 for the end of the program.         *)
Spec == Init /\ [][yylex]_vars /\ WF_vars(yylex)

------------------------------------------------------------------------------
(* The bookkeeping between calls: at most NT_NUM tokens are looked ahead at,     *)
(* comments are buffered only until the parser has read the comment they are,    *)
(* no token is counted while there is no statement, and parentheses balance.     *)
TypeOK ==
  /\ current_file_info = NoFile \/ current_file_info.fp \in 1..Len(program[current_file_info.name]) + 1
  /\ Len(next_tok) <= NT_NUM
  /\ comment_buffer > 0 => line = <<"COMMENT">> /\ next_tok = <<"NL">>
  /\ parencount \in 0..Len(line_buffer) /\ tokennumber \in 0..Len(line_buffer) + 1
  /\ buffer = <<>> => parencount = 0
  /\ progseen \in BOOLEAN /\ incomplete_prelex \in BOOLEAN

(* The lexer hands over the program as written: statements in order, each word   *)
(* as the token it was meant as, with the included files' statements in place    *)
(* and every program unit opened and closed - whatever comments, continuation    *)
(* lines and includes come between - and it comes to the end.                     *)
Pending ==
  IF buffer = <<>> \/ (line = <<"COMMENT">> /\ buffer = <<"\n">>) THEN <<>>
  ELSE <<[kind |-> "statement", words |-> line_buffer]>>
Buffered ==
  [i \in 1..IF comment_buffer > 0 THEN comment_buffer
            ELSE IF line = <<"COMMENT">> /\ lexeme = "comment" /\ next_tok = <<>> THEN 1 ELSE 0
     |-> CommentLine]
Unread(file) == Statements(SubSeq(program[file.name], file.fp, Len(program[file.name])))
todo ==
  IF current_file_info = NoFile THEN <<>>
  ELSE SkipEnds(Pending \o Buffered \o
         Concat(Reverse([i \in DOMAIN Files.open |->
           Unread(Files.open[i]) \o <<EndOf(Files.open[i].name)>>])))
inUnit == delivered # <<>> /\ Last(Last(delivered)) # "END"
Reader == INSTANCE FortranSource
ReadsSource == Reader!Spec

(* A program is read to its end, include files that include one another too.     *)
Ends == <>(current_file_info = NoFile)

(* func_stmt_num is the number, within its unit, of the statement that is being    *)
(* cut into tokens: once the unit's first statement has been handed over it is not  *)
(* 0, by which the search for FUNCTION behind a type knows that first statement.     *)
StatementsCounted ==
  LET ends == {i \in DOMAIN delivered : Last(delivered[i]) = "END"}
      before == Len(delivered) - (IF ends = {} THEN 0 ELSE Max(ends))
  IN before > 0 /\ Pending # <<>> /\ tokennumber > 0 /\ "END" \notin ToSet(line) \cup ToSet(next_tok)
       => func_stmt_num > 0

(* No file is being read twice at a time, unless it includes itself (README,       *)
(* section 4).                                                                     *)
NoCycle == \A i, j \in DOMAIN Files.open : i # j => Files.open[i].name # Files.open[j].name

(* lineno, which the parser's messages give, counts the lines of the file read,    *)
(* until a file has been included (README, section 4).                             *)
LineNumbersExact == current_file_info # NoFile => lineno = current_file_info.fp - 1
=============================================================================
