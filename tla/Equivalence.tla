---------------------------- MODULE Equivalence ----------------------------
(***************************************************************************)
(* EQUIVALENCE statements, from the parser (f2jparse.y) over the merging of  *)
(* their lists (typecheck.c) to the static fields that stand for the         *)
(* variables (codegen.c).                                                    *)
(*                                                                          *)
(* One action is one turn of the outer loop of its function.  A list of      *)
(* idents is a sequence of nodes [name, id]; a merged name is the sequence   *)
(* of the names it joins.  The statements and the merged list share their    *)
(* nodes, and the statements keep their own heads.                           *)
(*                                                                          *)
(* Left out: arrays among the variables, and the Java declarations, which    *)
(* equiv_emit writes for the same heads as insert_fields.                    *)
(***************************************************************************)
EXTENDS Integers, SequencesExt

CONSTANTS
  Names,       \* the variables
  Groups,      \* the lists of names that occur: sequences over Names
  Types,       \* the types of variables that occur: functions on Names
  MaxGroups,   \* bound: lists in the EQUIVALENCE statements of a unit
  Hash(_), NumEntries

Table == INSTANCE SymTable

ASSUME HashAssumption == NumEntries \in Nat \ {0} /\ \A n \in Names : Hash(n) \in Nat
ASSUME GroupsAssumption == MaxGroups \in Nat /\ \A g \in Groups : g \in Seq(Names) /\ g # <<>>

VARIABLES
  type,        \* chk_type_table: the type of each variable
  groups,      \* the lists of the statements, in order
  equivList,   \* the list of lists that is merged: [token, clist]
  needsMerge,
  temp,        \* the outer loop of the active function: the position of its turn
  table,       \* equivalence_table: name -> merged_name
  mismatch,    \* of check_equivalences
  reported,    \* the positions for which it wrote an error
  fields,      \* the fields that insert_fields added to the class, by name
  phase        \* "parse", "tokens", "merge", "insert", "check", "fields", "done"

vars == <<type, groups, equivList, needsMerge, temp, table, mismatch, reported, fields, phase>>

NamesIn(list) == {list[k].name : k \in DOMAIN list}
Nodes(g, id)  == [k \in DOMAIN g |-> [name |-> g[k], id |-> <<id, k>>]]
At(p)   == phase = p /\ temp \in DOMAIN equivList
Turn    == temp' = temp + 1 /\ phase' = phase
Over(p, q) == phase = p /\ temp = Len(equivList) + 1 /\ phase' = q /\ temp' = 1
-----------------------------------------------------------------------------
(* addEquiv puts each list before those already there.                      *)
AddEquiv(g) ==
  LET id == Len(groups) + 1 IN
  /\ phase = "parse" /\ Len(groups) < MaxGroups
  /\ groups' = Append(groups, Nodes(g, id))
  /\ equivList' = <<[token |-> id, clist |-> Nodes(g, id)]>> \o equivList
  /\ UNCHANGED <<type, needsMerge, temp, table, mismatch, reported, fields, phase>>

(* merge_equivalences, the first loop: every list that has a name of this   *)
(* one and another token gets the token of this one.                        *)
Overlap(i, j) == /\ NamesIn(equivList[i].clist) \cap NamesIn(equivList[j].clist) # {}
                 /\ equivList[i].token # equivList[j].token
Tokens ==
  /\ At("tokens") /\ Turn
  /\ equivList' = [j \in DOMAIN equivList |->
                     IF Overlap(temp, j) THEN [equivList[j] EXCEPT !.token = equivList[temp].token]
                                         ELSE equivList[j]]
  /\ needsMerge' = (needsMerge \/ \E j \in DOMAIN equivList : Overlap(temp, j))
  /\ UNCHANGED <<type, groups, table, mismatch, reported, fields>>

(* The entries of a list at the positions in S, in their order.             *)
Keep(list, S) == FoldLeftDomain(LAMBDA acc, k : IF k \in S THEN Append(acc, list[k]) ELSE acc, <<>>, list)

(* remove_duplicates, one turn: of the other nodes of this name, which the  *)
(* head is never taken from, and of those in a row every second stays: its  *)
(* prev is a node that has just been taken out.                             *)
MutantRemoveOthers(list, node) ==    \* forgets that temp is not a duplicate of itself
  SelectSeq(list, LAMBDA other : other = list[1] \/ other.name # node.name)
RemoveOthers(list, node) ==
  LET Other(q) == list[q].name = node.name /\ list[q] # node
      Start(q) == CHOOSE s \in 2..q : /\ \A r \in s..q : Other(r)
                                      /\ s = 2 \/ ~Other(s - 1)
      Stays(q) == q = 1 \/ ~Other(q) \/ (q - Start(q)) % 2 = 1
  IN Keep(list, {q \in DOMAIN list : Stays(q)})
RemoveDuplicates(list) ==
  FoldLeft(LAMBDA acc, node : IF node \in ToSet(acc) THEN RemoveOthers(acc, node) ELSE acc, list, list)

(* merge_equivalences, the second loop: append the other lists of the same  *)
(* token, take them out of the list of lists, remove duplicates.            *)
MutantMergeable(j) == j = temp + 1 /\ equivList[j].token = equivList[temp].token
Mergeable(j) == j # temp /\ equivList[j].token = equivList[temp].token
Joined == FoldLeftDomain(LAMBDA acc, j : IF Mergeable(j) THEN acc \o equivList[j].clist ELSE acc,
                         equivList[temp].clist, equivList)
MutantMerge ==       \* forgets to take the other lists out
  /\ At("merge") /\ Turn
  /\ equivList' = [equivList EXCEPT ![temp].clist = RemoveDuplicates(Joined)]
  /\ UNCHANGED <<type, groups, needsMerge, table, mismatch, reported, fields>>
Merge ==
  /\ At("merge") /\ Turn
  /\ equivList' = Keep([equivList EXCEPT ![temp].clist = RemoveDuplicates(Joined)],
                       {j \in DOMAIN equivList : ~Mergeable(j)})
  /\ UNCHANGED <<type, groups, needsMerge, table, mismatch, reported, fields>>

(* insertEquivalences, with the merged name of merge_names                  *)
MergeNames(list) == [k \in DOMAIN list |-> list[k].name]
Insert ==
  LET list == equivList[temp].clist
      name == MergeNames(list)
  IN /\ At("insert") /\ Turn
     /\ table' = FoldLeft(LAMBDA t, node : Table!TypeInsert(t, node.name, name), table, list)
     /\ UNCHANGED <<type, groups, equivList, needsMerge, mismatch, reported, fields>>

(* check_equivalences: each type is compared with the one before; mismatch  *)
(* is not reset for the next list.                                          *)
MutantDiffer(list) == type[list[1].name] # type[Last(list).name]
Differ(list) == \E k \in 2..Len(list) : type[list[k].name] # type[list[k - 1].name]
Check ==
  /\ At("check") /\ Turn
  /\ mismatch' = (mismatch \/ Differ(equivList[temp].clist))
  /\ reported' = IF mismatch' THEN reported \cup {temp} ELSE reported
  /\ UNCHANGED <<type, groups, equivList, needsMerge, table, fields>>

(* insert_fields, field_emit: a field for the first variable of each list   *)
(* of the statements, under its merged name.                                *)
MergedName(n) == IF Table!InTable(table, n) THEN Table!TypeLookup(table, n) ELSE <<n>>
MutantFields == \* declares one field for each list that is left
  /\ phase = "fields" /\ phase' = "done"
  /\ fields' = [j \in DOMAIN equivList |-> <<equivList[j].clist[1].name>>]
  /\ UNCHANGED <<type, groups, equivList, needsMerge, temp, table, mismatch, reported>>
Fields ==
  /\ phase = "fields" /\ phase' = "done"
  /\ fields' = [j \in DOMAIN groups |-> MergedName(groups[j][1].name)]
  /\ UNCHANGED <<type, groups, equivList, needsMerge, temp, table, mismatch, reported>>

(* The order of typecheck, and then of the code generator.                  *)
Proceed ==
  /\ \/ phase = "parse" /\ groups # <<>> /\ phase' = "tokens" /\ temp' = temp
     \/ Over("tokens", IF needsMerge THEN "merge" ELSE "insert")
     \/ Over("merge", "insert") \/ Over("insert", "check") \/ Over("check", "fields")
  /\ UNCHANGED <<type, groups, equivList, needsMerge, table, mismatch, reported, fields>>

Done == phase = "done" /\ UNCHANGED vars
-----------------------------------------------------------------------------
Init ==
  /\ type \in Types
  /\ groups = <<>> /\ equivList = <<>> /\ needsMerge = FALSE /\ temp = 1
  /\ table = Table!NewTable /\ mismatch = FALSE /\ reported = {} /\ fields = <<>>
  /\ phase = "parse"

Next == (\E g \in Groups : AddEquiv(g)) \/ Tokens \/ Merge \/ Insert \/ Check \/ Fields \/ Proceed \/ Done

Spec == Init /\ [][Next]_vars
-----------------------------------------------------------------------------
(* The types of the state; no node is in two lists.                         *)
TypeOK ==
  /\ phase \in {"parse", "tokens", "merge", "insert", "check", "fields", "done"}
  /\ temp \in 1..(Len(equivList) + 1)
  /\ mismatch \in BOOLEAN /\ needsMerge \in BOOLEAN /\ reported \subseteq DOMAIN equivList
  /\ \A i, j \in DOMAIN equivList : i # j => ToSet(equivList[i].clist) \cap ToSet(equivList[j].clist) = {}

(* The variables that the statements tie to n, over any number of lists:    *)
(* those in every set of variables that has n and that no list leaves.      *)
Used == UNION {NamesIn(groups[j]) : j \in DOMAIN groups}
Kept(C) == \A j \in DOMAIN groups : NamesIn(groups[j]) \cap C # {} => NamesIn(groups[j]) \subseteq C
Class(n) == {m \in Names : \A C \in SUBSET Names : n \in C /\ Kept(C) => m \in C}

(* Variables share a field exactly if the statements tie them together.     *)
Inserted == phase \in {"check", "fields", "done"}
OneNamePerClass ==
  Inserted => \A a, b \in Used : (MergedName(a) = MergedName(b)) <=> b \in Class(a)

(* Merging never ties variables that the statements do not, and loses none: *)
(* every variable of the statements is in some list, and the variables of a *)
(* list are all of one class.                                               *)
NoneLostNoneTied ==
  /\ UNION {NamesIn(equivList[i].clist) : i \in DOMAIN equivList} = Used
  /\ \A i \in DOMAIN equivList : \A n \in NamesIn(equivList[i].clist) :
       NamesIn(equivList[i].clist) \subseteq Class(n)

(* Every variable is accessed under a name that the class has a field for.  *)
AccessesDeclared == phase = "done" => \A n \in Used : MergedName(n) \in ToSet(fields)

(* Variables of different types that share a field are reported.            *)
MismatchReported ==
  phase = "done" => \A i \in DOMAIN equivList :
    (\E a, b \in NamesIn(equivList[i].clist) : type[a] # type[b]) => i \in reported

(* equiv_emit (codegen.c): "we just merge the equivalenced names into one   *)
(* name and generate one Java declaration".  It generates more (README,     *)
(* section 4).                                                              *)
OneDeclaration == IsInjective(fields)
=============================================================================
