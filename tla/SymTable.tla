------------------------------ MODULE SymTable ------------------------------
(***************************************************************************)
(* The hash tables of symtab.c.  A table is an array of lists; every entry   *)
(* is put at the head of the list its name hashes to, so that a later entry  *)
(* hides an earlier one of the same name.                                    *)
(***************************************************************************)
EXTENDS Integers, SequencesExt

CONSTANTS
  Hash(_),        \* HASH(tag), a natural number
  NumEntries      \* numentries of new_symtable

NewTable == [idx \in 0..(NumEntries - 1) |-> <<>>]

TypeInsert(table, tag, variable) ==
  [table EXCEPT ![Hash(tag) % NumEntries] = <<[ident |-> tag, variable |-> variable]>> \o @]

InTable(table, id) ==
  LET list == table[Hash(id) % NumEntries] IN \E k \in DOMAIN list : list[k].ident = id

(* search_hashlist: the nearest entry of that name, in a list that has one. *)
SearchHashlist(list, id) ==
  list[CHOOSE k \in DOMAIN list : /\ list[k].ident = id
                                  /\ \A m \in 1..(k - 1) : list[m].ident # id]
TypeLookup(table, id) == SearchHashlist(table[Hash(id) % NumEntries], id).variable
=============================================================================
