---------------------------- MODULE ConstantPool ----------------------------
(***************************************************************************)
(* The constant pool of the class being built (constant_pool.c) and the     *)
(* calls of api.c that put constants into it and take indices out of it.    *)
(*                                                                          *)
(* The operations on the pool are operators that return the pool after the  *)
(* call and the index the C function returns.  A call inserts what it needs *)
(* bottom up: a reference needs a class and a name-and-type, those need     *)
(* Utf8 strings, and each of them may be there already.                     *)
(*                                                                          *)
(* Left out: failed allocations; Fieldref and InterfaceMethodref, which     *)
(* differ from Methodref in nothing but their tag; the byte order of        *)
(* numbers; class names of length zero.                                     *)
(***************************************************************************)
EXTENDS Integers, Sequences, FiniteSets

CONSTANTS
  Text,           \* strings
  Slashed,        \* char_substitute(s, '.', '/')
  Number,         \* numeric constants, as bit patterns
  NumTag,         \* the tag of a numeric constant
  Equal,          \* the number that a number equals under C's ==: 0.0 for -0.0
  Literal,        \* numbers that an instruction pushes without the pool
  NoBytes,        \* the payload of an entry that only refers to others
  ClassName,      \* the strings that clients pass as class names
  VerbatimName,   \* those among them passed to calls that do not convert dots
  Name,           \* names of fields, methods and attributes
  IdxMax,         \* CP_IDX_MAX: the largest index ldc can hold
  IndexLimit,     \* the number of values of a u2
  MaxUses         \* bound: the most operands and literals clients ask for

NumTags  == {"Integer", "Float", "Long", "Double"}
Tags     == {"Utf8", "Class", "String", "Methodref", "NameAndType"} \cup NumTags

(* cp_entry_width.  A Mutant... here and below is a definition with a       *)
(* plausible bug in it, which the project's mutation runs put in the place  *)
(* of the one that follows it.                                              *)
MutantEntryWidth(tag) == IF tag = "Long" THEN 2 ELSE 1   \* forgets doubles
EntryWidth(tag) == IF tag \in {"Long", "Double"} THEN 2 ELSE 1

ASSUME TextAssumption       == Slashed \in [Text -> Text] /\ NoBytes \notin Text \cup Number
ASSUME SlashedAssumption    == \A s \in Text : Slashed[Slashed[s]] = Slashed[s]   \* no dot is left
ASSUME NumberAssumption     == NumTag \in [Number -> NumTags] /\ Equal \in [Number -> Number]
ASSUME LiteralAssumption    == Literal \subseteq Number
ASSUME NamesAssumption      == VerbatimName \subseteq ClassName /\ ClassName \subseteq Text /\ Name \subseteq Text
ASSUME IdxMaxAssumption     == IdxMax \in Nat
ASSUME IndexLimitAssumption == IndexLimit \in Nat \ {0}
ASSUME MaxUsesAssumption    == MaxUses \in Nat

VARIABLES
  pool,       \* constant_pool
  operands,   \* the references to the pool in instructions, fields, attributes
  literals,   \* the numbers pushed without it: what was asked, what is pushed
  count       \* constant_pool_count, 0 until the class is written

vars == <<pool, operands, literals, count>>
-----------------------------------------------------------------------------
(* The list and its lookups. *)

Entry == [tag : Tags, bytes : Text \cup Number \cup {NoBytes},
          first : Nat, second : Nat, index : Nat, next : Nat]

NextIdx(p) == IF p = <<>> THEN 1 ELSE p[Len(p)].next

(* The index of the first entry at one of the positions S: -1 if none. *)
FirstIndex(p, S) ==
  IF S = {} THEN -1 ELSE p[CHOOSE k \in S : \A j \in S : k <= j].index

(* cp_entry_by_index, for an index that is there *)
ByIndex(p, i) == p[CHOOSE k \in 1..Len(p) : p[k].index = i]
TextAt(p, i)  == ByIndex(p, i).bytes

Tagged(p, tag) == {k \in 1..Len(p) : p[k].tag = tag}

LookupUtf8(p, s)   == FirstIndex(p, {k \in Tagged(p, "Utf8") : p[k].bytes = s})
LookupNumber(p, n) == FirstIndex(p, {k \in Tagged(p, NumTag[n]) : p[k].bytes = n})
LookupClass(p, s)  == FirstIndex(p, {k \in Tagged(p, "Class") : TextAt(p, p[k].first) = s})
LookupString(p, s) == FirstIndex(p, {k \in Tagged(p, "String") : TextAt(p, p[k].first) = s})
LookupNameAndType(p, n, d) ==
  FirstIndex(p, {k \in Tagged(p, "NameAndType") :
                   TextAt(p, p[k].first) = n /\ TextAt(p, p[k].second) = d})
LookupRef(p, c, n, d) ==
  FirstIndex(p, {k \in Tagged(p, "Methodref") :
                   /\ TextAt(p, ByIndex(p, p[k].first).first) = c
                   /\ TextAt(p, ByIndex(p, p[k].second).first) = n
                   /\ TextAt(p, ByIndex(p, p[k].second).second) = d})
-----------------------------------------------------------------------------
(* cp_find_or_insert. *)

(* cp_insert; the indices an entry holds are u2. *)
Insert(p, tag, bytes, first, second) ==
  LET i == NextIdx(p) IN
    [pool  |-> Append(p, [tag |-> tag, bytes |-> bytes,
                          first |-> first % IndexLimit, second |-> second % IndexLimit,
                          index |-> i, next |-> i + EntryWidth(tag)]),
     index |-> i]

(* The entry found at index i, or else what inserting it comes to. *)
FoundOr(p, i, inserted) == IF i # -1 THEN [pool |-> p, index |-> i] ELSE inserted

FindUtf8(p, s) == FoundOr(p, LookupUtf8(p, s), Insert(p, "Utf8", s, 0, 0))

(* insert_class converts the name; cp_lookup_class did not. *)
FindClass(p, s) ==
  LET u == FindUtf8(p, Slashed[s]) IN
    FoundOr(p, LookupClass(p, s), Insert(u.pool, "Class", NoBytes, u.index, 0))

(* inserts the text without looking for it *)
MutantFindString(p, s) ==
  LET u == Insert(p, "Utf8", s, 0, 0) IN
    FoundOr(p, LookupString(p, s), Insert(u.pool, "String", NoBytes, u.index, 0))

FindString(p, s) ==
  LET u == FindUtf8(p, s) IN
    FoundOr(p, LookupString(p, s), Insert(u.pool, "String", NoBytes, u.index, 0))

FindNameAndType(p, n, d) ==
  LET a == FindUtf8(p, n)
      b == FindUtf8(a.pool, d)
  IN FoundOr(p, LookupNameAndType(p, n, d), Insert(b.pool, "NameAndType", NoBytes, a.index, b.index))

FindRef(p, c, n, d) ==
  LET a == FindClass(p, c)
      b == FindNameAndType(a.pool, n, d)
  IN FoundOr(p, LookupRef(p, c, n, d), Insert(b.pool, "Methodref", NoBytes, a.index, b.index))

(* Numbers that equal one with an instruction of its own are not inserted,  *)
(* unless forced (cp_manual_insert).                                        *)
FindNumber(p, n, force) ==
  FoundOr(p, LookupNumber(p, n),
          IF Equal[n] \in Literal /\ ~ force THEN [pool |-> p, index |-> -1]
                                             ELSE Insert(p, NumTag[n], n, 0, 0))
-----------------------------------------------------------------------------
(* The clients. *)

Init == pool = <<>> /\ operands = {} /\ literals = {} /\ count = 0

(* A constant, independent of the pool. *)
Utf8(s)              == <<"Utf8", s>>
Class(s)             == <<"Class", s>>
StringConst(s)       == <<"String", s>>
NumberConst(n)       == <<NumTag[n], n>>
NameAndType(n, d)    == <<"NameAndType", n, d>>
Methodref(c, n, d)   == <<"Methodref", c, n, d>>

Constant == {Utf8(s) : s \in Text} \cup {Class(s) : s \in Text}
            \cup {StringConst(s) : s \in Text} \cup {NumberConst(n) : n \in Number}
            \cup {NameAndType(n, d) : n \in Text, d \in Text}
            \cup {Methodref(c, n, d) : c \in Text, n \in Text, d \in Text}

(* A call takes the index of what it found or inserted as an operand of one *)
(* or two bytes.  Clients stop after MaxUses such operands, or once the     *)
(* pool has outgrown its count and lookups would follow cut indices.        *)
MayUse == Cardinality(operands) + Cardinality(literals) < MaxUses
Fits(p) == NextIdx(p) < IndexLimit
Open   == count = 0 /\ MayUse /\ Fits(pool)

Take(found, bytes, constant) ==
  /\ Open
  /\ pool' = found.pool
  /\ operands' = operands \cup {[index |-> found.index, bytes |-> bytes, constant |-> constant]}
  /\ UNCHANGED <<literals, count>>

MutantLoadBytes(i) == IF i > IdxMax + 1 THEN 2 ELSE 1
LoadBytes(i) == IF i > IdxMax THEN 2 ELSE 1   \* ldc_w or ldc

(* The names and descriptors of fields, methods and attributes. *)
AddName(s) == Take(FindUtf8(pool, s), 2, Utf8(s))

(* new, anewarray, superclasses, interfaces and exceptions: the name's dots *)
(* have been converted.                                                     *)
UseClass(s) ==
  LET t == Slashed[s] IN Take(FindClass(pool, t), 2, Class(t))

(* instanceof, checkcast, multianewarray: the name as the client gave it. *)
UseClassVerbatim(s) == Take(FindClass(pool, s), 2, Class(Slashed[s]))

UseNameAndType(n, d) ==
  LET t == Slashed[d] IN Take(FindNameAndType(pool, n, t), 2, NameAndType(n, t))

UseRef(c, n, d) ==
  LET t == Slashed[c]
      u == Slashed[d]
  IN Take(FindRef(pool, t, n, u), 2, Methodref(t, n, u))

PushString(s) ==
  LET f == FindString(pool, s) IN Take(f, LoadBytes(f.index), StringConst(s))

(* does not ask whether the pool had the number *)
MutantPushNumber(n) ==
  LET f == FindNumber(pool, n, FALSE) IN Take(f, LoadBytes(f.index), NumberConst(n))

(* bc_push_int_const and its like: an index, or an instruction for a number *)
(* that compares equal.                                                     *)
PushNumber(n) ==
  LET f == FindNumber(pool, n, FALSE) IN
    \/ /\ f.index # -1
       /\ Take(f, IF EntryWidth(NumTag[n]) = 2 THEN 2 ELSE LoadBytes(f.index), NumberConst(n))
    \/ /\ f.index = -1
       /\ Open
       /\ literals' = literals \cup {<<n, Equal[n]>>}
       /\ UNCHANGED <<pool, operands, count>>

(* bc_set_constant_value_attr *)
SetConstantValue(n) == Take(FindNumber(pool, n, TRUE), 2, NumberConst(n))

(* bc_write_class: the count is a u2 too. *)
WriteClass ==
  /\ count = 0
  /\ pool # <<>>
  /\ count' = NextIdx(pool) % IndexLimit
  /\ UNCHANGED <<pool, operands, literals>>

Written == ~ Open /\ UNCHANGED vars

Next ==
  \/ \E s \in Name : AddName(s) \/ PushString(s)
  \/ \E s \in ClassName : UseClass(s)
  \/ \E s \in VerbatimName : UseClassVerbatim(s)
  \/ \E n \in Name, d \in ClassName : UseNameAndType(n, d)
  \/ \E c \in ClassName, n \in Name, d \in ClassName : UseRef(c, n, d)
  \/ \E n \in Number : PushNumber(n) \/ SetConstantValue(n)
  \/ WriteClass
  \/ Written

Spec == Init /\ [][Next]_vars
-----------------------------------------------------------------------------
(* Properties. *)

TypeOK ==
  /\ pool \in Seq(Entry)
  /\ operands \subseteq [index : Nat, bytes : {1, 2}, constant : Constant]
  /\ literals \subseteq Number \X Number
  /\ count \in 0..(IndexLimit - 1)

(* Indices count the slots before an entry, two for each long and double,   *)
(* and an entry refers only to entries before it, of the tags the class     *)
(* file format asks for: as long as the indices fit a u2.                   *)
RefersTo(p, k, i, tag) ==
  \E j \in 1..(k - 1) : p[j].index = i /\ p[j].tag = tag
RefsOK(p, k) ==
  /\ p[k].tag \in {"Class", "String"} => RefersTo(p, k, p[k].first, "Utf8")
  /\ p[k].tag = "NameAndType" =>
       RefersTo(p, k, p[k].first, "Utf8") /\ RefersTo(p, k, p[k].second, "Utf8")
  /\ p[k].tag = "Methodref" =>
       RefersTo(p, k, p[k].first, "Class") /\ RefersTo(p, k, p[k].second, "NameAndType")
SlotsOK(p, k) ==
  p[k].index = IF k = 1 THEN 1
               ELSE p[k - 1].index + (IF p[k - 1].tag \in {"Long", "Double"} THEN 2 ELSE 1)
WellFormed ==
  \A k \in 1..Len(pool) :
    SlotsOK(pool, k) /\ (pool[k].index < IndexLimit => RefsOK(pool, k))

(* What the class file's reader makes of an entry. *)
Meaning(p, e) ==
  IF e.tag = "Class" THEN Class(TextAt(p, e.first))
  ELSE IF e.tag = "String" THEN StringConst(TextAt(p, e.first))
  ELSE IF e.tag = "NameAndType" THEN NameAndType(TextAt(p, e.first), TextAt(p, e.second))
  ELSE IF e.tag = "Methodref"
    THEN LET nt == ByIndex(p, e.second) IN
           Methodref(TextAt(p, ByIndex(p, e.first).first), TextAt(p, nt.first), TextAt(p, nt.second))
  ELSE <<e.tag, e.bytes>>

InRange == {k \in 1..Len(pool) : pool[k].index < IndexLimit}

(* Once the class is written, every operand, cut to its bytes, is an index  *)
(* below the count and stands for the constant that was asked for, whatever *)
(* was inserted before and since.                                           *)
Cut(o) == IF o.bytes = 1 THEN o.index % (IdxMax + 1) ELSE o.index % IndexLimit
OperandsResolve ==
  count # 0 /\ Fits(pool) =>
    \A o \in operands :
      /\ Cut(o) < count
      /\ \E k \in 1..Len(pool) : pool[k].index = Cut(o) /\ Meaning(pool, pool[k]) = o.constant

(* The pool implements the table of its clients' view. *)
Meanings  == {<<pool[k].index, Meaning(pool, pool[k])>> : k \in InRange}
Table     == INSTANCE InternTable WITH meaning <- Meanings
TableSpec == Table!Spec

(* "Find the constant pool index for the given constant if it exists in the *)
(* constant pool.  If not, create a new entry": no constant has two.        *)
(* Names with dots break this (README, section 4).                          *)
OneEntryEach ==
  \A j, k \in InRange :
    Meaning(pool, pool[j]) = Meaning(pool, pool[k]) => j = k

(* "This function will not insert constant values for which there exist     *)
(* shorthand instructions for pushing those values": a push without the     *)
(* pool pushes the value it was asked to push, which fails for -0.0 (README,*)
(* section 4).                                                              *)
LiteralsExact == \A l \in literals : l[1] = l[2]
=============================================================================
