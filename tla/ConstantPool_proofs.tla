------------------------ MODULE ConstantPool_proofs -------------------------
(***************************************************************************)
(* Proofs about ConstantPool, for every set of strings and numbers, every   *)
(* number of calls and every limit on indices.                              *)
(***************************************************************************)
EXTENDS ConstantPool, Induction, TLAPS

-----------------------------------------------------------------------------
(* Pools. *)

(* Each entry takes the slots after its predecessor's. *)
Slots(p) ==
  /\ p \in Seq(Entry)
  /\ \A k \in 1..Len(p) :
       p[k].index > 0 /\ p[k].next = p[k].index + EntryWidth(p[k].tag) /\ SlotsOK(p, k)
  /\ \A j, k \in 1..Len(p) : j < k => p[j].next <= p[k].index

(* What an entry holds is what its tag says. *)
Payload(p) ==
  \A k \in 1..Len(p) :
    /\ p[k].tag = "Utf8" => p[k].bytes \in Text
    /\ p[k].tag \in NumTags => p[k].bytes \in Number /\ NumTag[p[k].bytes] = p[k].tag

(* References are right as long as indices fit, and names of classes have   *)
(* no dots.                                                                 *)
Converted(p, k) == p[k].tag = "Class" => TextAt(p, p[k].first) = Slashed[TextAt(p, p[k].first)]
Refs(p) ==
  \A k \in 1..Len(p) : p[k].index < IndexLimit => RefsOK(p, k) /\ Converted(p, k)

Good(p) == Slots(p) /\ Payload(p) /\ Refs(p)

(* q is p with entries added at the end. *)
Extends(p, q) == Len(p) <= Len(q) /\ \A k \in 1..Len(p) : q[k] = p[k]

(* The types of an entry's parts. *)
LEMMA EntryFacts ==
  ASSUME NEW p \in Seq(Entry), NEW k \in 1..Len(p)
  PROVE  /\ p[k].tag \in Tags
         /\ p[k].bytes \in Text \cup Number \cup {NoBytes}
         /\ p[k].first \in Nat /\ p[k].second \in Nat
         /\ p[k].index \in Nat /\ p[k].next \in Nat
<1>1. p[k] \in Entry
  OBVIOUS
<1> QED BY <1>1 DEF Entry

(* An entry is wider than nothing. *)
LEMMA WidthFacts == \A tag : EntryWidth(tag) \in {1, 2}
  BY DEF EntryWidth

(* Indices rise, so an index belongs to one entry. *)
LEMMA IndexUnique ==
  ASSUME NEW p, Slots(p), NEW j \in 1..Len(p), NEW k \in 1..Len(p)
  PROVE  /\ j < k => p[j].index < p[k].index
         /\ p[j].index = p[k].index => j = k
<1>1. ASSUME NEW m \in 1..Len(p), NEW n \in 1..Len(p), m < n
      PROVE  p[m].index < p[n].index
  <2>1. p[m].next <= p[n].index /\ p[m].next = p[m].index + EntryWidth(p[m].tag)
    BY <1>1 DEF Slots
  <2>2. p[m].index \in Nat /\ p[n].index \in Nat
    BY EntryFacts DEF Slots
  <2> QED BY <2>1, <2>2, WidthFacts
<1>2. p[j].index \in Nat /\ p[k].index \in Nat
  BY EntryFacts DEF Slots
<1>3. Len(p) \in Nat
  BY DEF Slots
<1> QED BY <1>1, <1>2, <1>3

(* cp_entry_by_index finds the entry that has the index.                     *)
LEMMA ByIndexFound ==
  ASSUME NEW p, Slots(p), NEW k \in 1..Len(p)
  PROVE  ByIndex(p, p[k].index) = p[k]
<1>1. \A j \in 1..Len(p) : p[j].index = p[k].index <=> j = k
  BY IndexUnique
<1>2. (CHOOSE j \in 1..Len(p) : p[j].index = p[k].index) = k
  BY <1>1
<1> QED BY <1>2 DEF ByIndex

(* Looking among the positions S finds the index of one of them. *)
LEMMA FirstIndexFound ==
  ASSUME NEW p \in Seq(Entry), NEW S \in SUBSET (1..Len(p))
  PROVE  /\ S = {} => FirstIndex(p, S) = -1
         /\ S # {} => \E k \in S : FirstIndex(p, S) = p[k].index
<1>1. CASE S # {}
  <2>1. S \in SUBSET Nat
    OBVIOUS
  <2>2. PICK x \in S : \A y \in S : x <= y
    BY <1>1, <2>1, Least
  <2> QED BY <1>1, <2>2 DEF FirstIndex
<1> QED BY <1>1 DEF FirstIndex

(* The next free index is above all that are taken. *)
LEMMA NextIdxFacts ==
  ASSUME NEW p, Slots(p)
  PROVE  /\ NextIdx(p) \in Nat \ {0}
         /\ \A k \in 1..Len(p) : p[k].next <= NextIdx(p) /\ p[k].index < NextIdx(p)
<1>1. p \in Seq(Entry) /\ Len(p) \in Nat /\ (p = <<>> <=> Len(p) = 0)
  BY DEF Slots
<1>2. CASE p = <<>>
  BY <1>1, <1>2 DEF NextIdx
<1>3. CASE p # <<>>
  <2>1. Len(p) \in 1..Len(p)
    BY <1>1, <1>3
  <2>2. NextIdx(p) = p[Len(p)].next
    BY <1>3 DEF NextIdx
  <2>3. \A k \in 1..Len(p) : /\ p[k].index \in Nat /\ p[k].next \in Nat /\ p[k].index > 0
                             /\ p[k].next = p[k].index + EntryWidth(p[k].tag)
    BY EntryFacts DEF Slots
  <2>4. \A k \in 1..Len(p) : k < Len(p) => p[k].next <= p[Len(p)].index
    BY <2>1 DEF Slots
  <2>5. ASSUME NEW k \in 1..Len(p) PROVE p[k].next <= NextIdx(p) /\ p[k].index < NextIdx(p)
    <3>1. p[k].index < p[k].next /\ p[Len(p)].index < p[Len(p)].next
      BY <2>1, <2>3, WidthFacts
    <3>2. k < Len(p) \/ k = Len(p)
      BY <1>1
    <3> QED BY <2>1, <2>2, <2>3, <2>4, <3>1, <3>2
  <2>6. NextIdx(p) > 0
    BY <2>1, <2>2, <2>3, <2>5
  <2> QED BY <2>1, <2>2, <2>3, <2>5, <2>6
<1> QED BY <1>2, <1>3

(* The indices of a pool that fits its count are cut nowhere. *)
LEMMA FitsFacts ==
  ASSUME NEW p, Slots(p), Fits(p)
  PROVE  \A k \in 1..Len(p) : p[k].index < IndexLimit
<1>1. \A k \in 1..Len(p) : p[k].index \in Nat
  BY EntryFacts DEF Slots
<1> QED BY <1>1, NextIdxFacts, IndexLimitAssumption DEF Fits

(* An entry stays where it was found. *)
LEMMA ExtendsByIndex ==
  ASSUME NEW p, NEW q, Slots(p), Slots(q), Extends(p, q), NEW k \in 1..Len(p)
  PROVE  ByIndex(q, p[k].index) = p[k] /\ ByIndex(p, p[k].index) = p[k]
<1>1. k \in 1..Len(q) /\ q[k] = p[k]
  BY DEF Extends, Slots
<1>2. ByIndex(q, q[k].index) = q[k]
  BY <1>1, ByIndexFound
<1> QED BY <1>1, <1>2, ByIndexFound

(* A pool that extends an extension extends the pool.                        *)
LEMMA ExtendsTransitive ==
  ASSUME NEW p, NEW q, NEW r, Slots(p), Slots(q), Slots(r), Extends(p, q), Extends(q, r)
  PROVE  Extends(p, r)
<1>1. Len(p) \in Nat /\ Len(q) \in Nat /\ Len(r) \in Nat
  BY DEF Slots
<1> QED BY <1>1 DEF Extends

(* An entry with index i and this tag. *)
Has(p, i, tag) == \E j \in 1..Len(p) : p[j].index = i /\ p[j].tag = tag

(* What a reference refers to, in this pool and in those that extend it. *)
LEMMA Referred ==
  ASSUME NEW p, NEW q, Slots(p), Slots(q), Extends(p, q),
         NEW k \in 1..Len(p), NEW i, NEW tag, RefersTo(p, k, i, tag)
  PROVE  \E j \in 1..(k - 1) : /\ j \in 1..Len(p)
                               /\ p[j].index = i /\ p[j].tag = tag
                               /\ ByIndex(p, i) = p[j] /\ ByIndex(q, i) = p[j]
                               /\ p[j].index < p[k].index
<1>1. PICK j \in 1..(k - 1) : p[j].index = i /\ p[j].tag = tag
  BY DEF RefersTo
<1>2. j \in 1..Len(p) /\ j < k
  BY DEF Slots
<1> QED BY <1>1, <1>2, ExtendsByIndex, IndexUnique

(* What an entry means is settled when it is inserted. *)
LEMMA MeaningStable ==
  ASSUME NEW p, NEW q, Good(p), Slots(q), Extends(p, q),
         NEW k \in 1..Len(p), p[k].index < IndexLimit
  PROVE  /\ Meaning(q, p[k]) = Meaning(p, p[k])
         /\ p[k].tag = "Class" => TextAt(q, p[k].first) = TextAt(p, p[k].first)
<1>1. Slots(p) /\ RefsOK(p, k)
  BY DEF Good, Refs
<1>2. CASE p[k].tag \in {"Class", "String"}
  <2>1. RefersTo(p, k, p[k].first, "Utf8")
    BY <1>1, <1>2 DEF RefsOK
  <2>2. ByIndex(p, p[k].first) = ByIndex(q, p[k].first)
    BY <1>1, <2>1, Referred
  <2> QED BY <1>2, <2>2 DEF Meaning, TextAt
<1>3. CASE p[k].tag = "NameAndType"
  <2>1. RefersTo(p, k, p[k].first, "Utf8") /\ RefersTo(p, k, p[k].second, "Utf8")
    BY <1>1, <1>3 DEF RefsOK
  <2>2. ByIndex(p, p[k].first) = ByIndex(q, p[k].first)
    BY <1>1, <2>1, Referred
  <2>3. ByIndex(p, p[k].second) = ByIndex(q, p[k].second)
    BY <1>1, <2>1, Referred
  <2> QED BY <1>3, <2>2, <2>3 DEF Meaning, TextAt
<1>4. CASE p[k].tag = "Methodref"
  <2>1. RefersTo(p, k, p[k].first, "Class") /\ RefersTo(p, k, p[k].second, "NameAndType")
    BY <1>1, <1>4 DEF RefsOK
  <2>2. PICK c \in 1..Len(p) : /\ p[c].tag = "Class" /\ p[c].index < p[k].index
                               /\ ByIndex(p, p[k].first) = p[c] /\ ByIndex(q, p[k].first) = p[c]
    BY <1>1, <2>1, Referred
  <2>3. PICK n \in 1..Len(p) : /\ p[n].tag = "NameAndType" /\ p[n].index < p[k].index
                               /\ ByIndex(p, p[k].second) = p[n] /\ ByIndex(q, p[k].second) = p[n]
    BY <1>1, <2>1, Referred
  <2>4. p[c].index < IndexLimit /\ p[n].index < IndexLimit
    <3>1. p[c].index \in Nat /\ p[n].index \in Nat /\ p[k].index \in Nat
      BY <1>1, EntryFacts DEF Slots
    <3> QED BY <2>2, <2>3, <3>1, IndexLimitAssumption
  <2>5. /\ RefersTo(p, c, p[c].first, "Utf8")
        /\ RefersTo(p, n, p[n].first, "Utf8") /\ RefersTo(p, n, p[n].second, "Utf8")
    BY <2>2, <2>3, <2>4 DEF Good, Refs, RefsOK
  <2>6. ByIndex(p, p[c].first) = ByIndex(q, p[c].first)
    BY <1>1, <2>5, Referred
  <2>7. ByIndex(p, p[n].first) = ByIndex(q, p[n].first)
    BY <1>1, <2>5, Referred
  <2>8. ByIndex(p, p[n].second) = ByIndex(q, p[n].second)
    BY <1>1, <2>5, Referred
  <2> QED BY <1>4, <2>2, <2>3, <2>6, <2>7, <2>8 DEF Meaning, TextAt
<1>5. CASE p[k].tag \notin {"Class", "String", "NameAndType", "Methodref"}
  BY <1>5 DEF Meaning
<1> QED BY <1>2, <1>3, <1>4, <1>5

(* An index that fits is kept as it is.                                      *)
LEMMA ModSmall == \A a \in Nat : a % IndexLimit \in Nat /\ (a < IndexLimit => a % IndexLimit = a)
  BY IndexLimitAssumption
-----------------------------------------------------------------------------
(* Inserting. *)

(* The payload and the references that an entry of this tag may be given. *)
Insertable(p, tag, bytes, a, b) ==
  /\ tag \in Tags /\ bytes \in Text \cup Number \cup {NoBytes} /\ a \in Nat /\ b \in Nat
  /\ a < NextIdx(p) /\ b < NextIdx(p)
  /\ tag = "Utf8" => bytes \in Text
  /\ tag \in NumTags => bytes \in Number /\ NumTag[bytes] = tag
  /\ tag \in {"Class", "String"} => Has(p, a, "Utf8")
  /\ tag = "NameAndType" => Has(p, a, "Utf8") /\ Has(p, b, "Utf8")
  /\ tag = "Methodref" => Has(p, a, "Class") /\ Has(p, b, "NameAndType")
  /\ tag = "Class" /\ NextIdx(p) < IndexLimit => TextAt(p, a) = Slashed[TextAt(p, a)]

(* The entry cp_insert adds takes the next free index.                       *)
LEMMA InsertSlots ==
  ASSUME NEW p, Slots(p), NEW tag, NEW bytes, NEW a, NEW b, Insertable(p, tag, bytes, a, b),
         NEW r, r = Insert(p, tag, bytes, a, b)
  PROVE  /\ Slots(r.pool) /\ Extends(p, r.pool) /\ Len(r.pool) = Len(p) + 1
         /\ r.index = NextIdx(p)
         /\ r.pool[Len(p) + 1].index = r.index
         /\ r.pool[Len(p) + 1].tag = tag /\ r.pool[Len(p) + 1].bytes = bytes
         /\ r.index < IndexLimit => /\ r.pool[Len(p) + 1].first = a
                                    /\ r.pool[Len(p) + 1].second = b
<1> DEFINE i == NextIdx(p)
           e == [tag |-> tag, bytes |-> bytes, first |-> a % IndexLimit, second |-> b % IndexLimit,
                 index |-> i, next |-> i + EntryWidth(tag)]
           q == Append(p, e)
<1>1. r = [pool |-> q, index |-> i]
  BY DEF Insert
<1>2. r.pool = q /\ r.index = i
  BY <1>1
<1>3. i \in Nat \ {0} /\ \A k \in 1..Len(p) : p[k].next <= i
  BY NextIdxFacts
<1>4. e \in Entry
  <2>1. a % IndexLimit \in Nat /\ b % IndexLimit \in Nat
    BY ModSmall DEF Insertable
  <2>2. i + EntryWidth(tag) \in Nat
    BY <1>3, WidthFacts
  <2> HIDE DEF i
  <2> QED BY <1>3, <2>1, <2>2 DEF Entry, Insertable
<1>5. /\ e.tag = tag /\ e.bytes = bytes /\ e.index = i /\ e.next = i + EntryWidth(tag)
      /\ i < IndexLimit => e.first = a /\ e.second = b
  <2>1. i < IndexLimit => a < IndexLimit /\ b < IndexLimit
    BY <1>3, IndexLimitAssumption DEF Insertable
  <2> QED BY <2>1, ModSmall DEF Insertable
<1> HIDE DEF e, i
<1>6. /\ q \in Seq(Entry) /\ Len(q) = Len(p) + 1 /\ q[Len(p) + 1] = e
      /\ \A k \in 1..Len(p) : q[k] = p[k]
      /\ Len(p) \in Nat
  BY <1>4 DEF Slots
<1> HIDE DEF q
<1>7. Extends(p, q)
  BY <1>6 DEF Extends
<1>8. ASSUME NEW k \in 1..Len(q)
      PROVE  q[k].index > 0 /\ q[k].next = q[k].index + EntryWidth(q[k].tag) /\ SlotsOK(q, k)
  <2>1. CASE k \in 1..Len(p)
    <3>1. k # 1 => k - 1 \in 1..Len(p)
      BY <2>1
    <3> QED BY <1>6, <2>1, <3>1 DEF Slots, SlotsOK
  <2>2. CASE k = Len(p) + 1 /\ p = <<>>
    BY <1>3, <1>5, <1>6, <2>2 DEF SlotsOK, NextIdx, i
  <2>3. CASE k = Len(p) + 1 /\ p # <<>>
    <3>1. Len(p) \in 1..Len(p) /\ i = p[Len(p)].next
      BY <2>3, <1>6 DEF NextIdx, i, Slots
    <3>2. p[Len(p)].next = p[Len(p)].index + EntryWidth(p[Len(p)].tag)
      BY <3>1 DEF Slots
    <3>3. k - 1 = Len(p) /\ k # 1 /\ q[k - 1] = p[Len(p)]
      BY <1>6, <2>3, <3>1
    <3> QED BY <1>3, <1>5, <1>6, <2>3, <3>1, <3>2, <3>3 DEF SlotsOK, EntryWidth
  <2> QED BY <1>6, <2>1, <2>2, <2>3
<1>9. ASSUME NEW j \in 1..Len(q), NEW k \in 1..Len(q), j < k
      PROVE  q[j].next <= q[k].index
  <2>1. j \in 1..Len(p)
    BY <1>6, <1>9
  <2>2. CASE k \in 1..Len(p)
    BY <1>6, <1>9, <2>1, <2>2 DEF Slots
  <2>3. CASE k = Len(p) + 1
    BY <1>3, <1>5, <1>6, <2>1, <2>3
  <2> QED BY <1>6, <2>2, <2>3
<1>10. Slots(q)
  BY <1>6, <1>8, <1>9 DEF Slots
<1> QED BY <1>2, <1>5, <1>6, <1>7, <1>10 DEF i

(* An entry's meaning begins with its tag. *)
LEMMA MeaningTag == \A p, e : Meaning(p, e)[1] = e.tag
  BY DEF Meaning, Class, StringConst, NameAndType, Methodref

(* cp_insert keeps the pool well formed.                                     *)
LEMMA InsertGood ==
  ASSUME NEW p, Good(p), NEW tag, NEW bytes, NEW a, NEW b, Insertable(p, tag, bytes, a, b),
         NEW r, r = Insert(p, tag, bytes, a, b)
  PROVE  Good(r.pool)
<1> DEFINE q == r.pool
           n == Len(p) + 1
<1>1. /\ Slots(p) /\ Slots(q) /\ Extends(p, q) /\ Len(q) = n /\ Len(p) \in Nat
      /\ q[n].index = r.index /\ q[n].tag = tag /\ q[n].bytes = bytes
      /\ r.index < IndexLimit => q[n].first = a /\ q[n].second = b
      /\ r.index = NextIdx(p)
  BY InsertSlots DEF Good, Slots
<1> HIDE DEF q
<1>2. \A k \in 1..n : (k \in 1..Len(p) /\ q[k] = p[k]) \/ k = n
  BY <1>1 DEF Extends
<1>3. Payload(q)
  BY <1>1, <1>2 DEF Payload, Good, Insertable
<1>4. ASSUME NEW k \in 1..Len(p), p[k].index < IndexLimit
      PROVE  RefsOK(q, k) /\ Converted(q, k)
  <2>1. q[k] = p[k] /\ \A j \in 1..(k - 1) : q[j] = p[j]
    BY <1>1 DEF Extends
  <2>2. RefsOK(p, k) /\ Converted(p, k)
    BY <1>4 DEF Good, Refs
  <2>3. RefsOK(q, k)
    BY <2>1, <2>2 DEF RefsOK, RefersTo
  <2>4. p[k].tag = "Class" => TextAt(q, p[k].first) = TextAt(p, p[k].first)
    BY <1>1, <1>4, MeaningStable
  <2> QED BY <2>1, <2>2, <2>3, <2>4 DEF Converted
<1>5. ASSUME r.index < IndexLimit
      PROVE  RefsOK(q, n) /\ Converted(q, n)
  <2>1. q[n].first = a /\ q[n].second = b
    BY <1>1, <1>5
  <2>2. \A i, t : Has(p, i, t) => RefersTo(q, n, i, t)
    BY <1>1 DEF Has, RefersTo, Extends
  <2>3. RefsOK(q, n)
    BY <1>1, <2>1, <2>2 DEF RefsOK, Insertable
  <2>4. tag = "Class" => TextAt(q, a) = TextAt(p, a)
    BY <1>1, ExtendsByIndex DEF Insertable, Has, TextAt
  <2> QED BY <1>1, <1>5, <2>1, <2>3, <2>4 DEF Converted, Insertable
<1>6. Refs(q)
  BY <1>1, <1>2, <1>4, <1>5 DEF Refs, Extends
<1> QED BY <1>1, <1>3, <1>6 DEF Good, q

(* No two entries whose indices fit mean the same. *)
Distinct(p) ==
  \A j, k \in 1..Len(p) :
    p[j].index < IndexLimit /\ p[k].index < IndexLimit /\ Meaning(p, p[j]) = Meaning(p, p[k])
    => j = k

(* Names passed to calls that do not convert dots have none. *)
NoDots  == \A s \in VerbatimName : Slashed[s] = s
Tidy(p) == NoDots => Distinct(p)

(* No such entry means c. *)
Absent(p, c) == \A k \in 1..Len(p) : p[k].index < IndexLimit => Meaning(p, p[k]) # c

Adds(p, q, T) == \A k \in (Len(p) + 1)..Len(q) : q[k].tag \in T

(* Entries of other tags do not make c present. *)
LEMMA AbsentStable ==
  ASSUME NEW p, NEW q, Good(p), Good(q), Extends(p, q),
         NEW c, Absent(p, c), NEW T, Adds(p, q, T), c[1] \notin T
  PROVE  Absent(q, c)
<1> SUFFICES ASSUME NEW k \in 1..Len(q), q[k].index < IndexLimit
             PROVE  Meaning(q, q[k]) # c
  BY DEF Absent
<1>1. CASE k \in 1..Len(p)
  <2>1. q[k] = p[k]
    BY <1>1 DEF Extends
  <2>2. Meaning(q, p[k]) = Meaning(p, p[k])
    BY <1>1, <2>1, MeaningStable DEF Good
  <2> QED BY <1>1, <2>1, <2>2 DEF Absent
<1>2. CASE k \in (Len(p) + 1)..Len(q)
  BY <1>2, MeaningTag DEF Adds
<1>3. Len(p) \in Nat /\ Len(q) \in Nat
  BY DEF Good, Slots
<1> QED BY <1>1, <1>2, <1>3

(* cp_insert keeps the constants apart, given one that is new.               *)
LEMMA InsertDistinct ==
  ASSUME NEW p, NEW q, Good(p), Good(q), Extends(p, q), Len(q) = Len(p) + 1, Distinct(p),
         q[Len(q)].index < IndexLimit => Absent(p, Meaning(q, q[Len(q)]))
  PROVE  Distinct(q)
<1>1. Len(p) \in Nat /\ Len(q) \in Nat /\ Slots(p) /\ Slots(q)
  BY DEF Good, Slots
<1>2. \A k \in 1..Len(p) :
        q[k] = p[k] /\ (p[k].index < IndexLimit => Meaning(q, q[k]) = Meaning(p, p[k]))
  BY <1>1, MeaningStable DEF Extends
<1>3. \A k \in 1..Len(q) : k \in 1..Len(p) \/ k = Len(q)
  BY <1>1
<1> QED BY <1>1, <1>2, <1>3 DEF Distinct, Absent
-----------------------------------------------------------------------------
(* Finding or inserting: what each call promises.  The pool it leaves       *)
(* extends p by entries with tags in T; the index is that of an entry that  *)
(* means c, which has the tag; and as long as names have no dots, no second *)
(* entry means what another means.                                          *)

Stands(q, i, c) ==
  \E k \in 1..Len(q) :
    q[k].index = i /\ q[k].tag = c[1] /\ (i < IndexLimit => Meaning(q, q[k]) = c)

Found(p, r, c, T) ==
  /\ Good(r.pool) /\ Extends(p, r.pool) /\ Adds(p, r.pool, T)
  /\ Stands(r.pool, r.index, c)
  /\ Tidy(p) => Tidy(r.pool)

(* An entry that means the constant already is found.                        *)
LEMMA FoundAlready ==
  ASSUME NEW p, Good(p), NEW c, NEW T, NEW k \in 1..Len(p), Meaning(p, p[k]) = c,
         NEW r, r = [pool |-> p, index |-> p[k].index]
  PROVE  Found(p, r, c, T)
<1>1. r.pool = p /\ r.index = p[k].index
  OBVIOUS
<1>2. Extends(p, p) /\ Adds(p, p, T)
  BY DEF Extends, Adds, Good, Slots
<1>3. Stands(p, p[k].index, c)
  BY MeaningTag DEF Stands
<1> QED BY <1>1, <1>2, <1>3 DEF Found

(* What was found stays found. *)
LEMMA StandsStable ==
  ASSUME NEW p, NEW q, Good(p), Good(q), Extends(p, q), NEW i, NEW c, Stands(p, i, c)
  PROVE  /\ Stands(q, i, c) /\ Has(q, i, c[1])
         /\ i \in Nat /\ i < NextIdx(q)
         /\ ByIndex(q, i).tag = c[1]
         /\ i < IndexLimit => Meaning(q, ByIndex(q, i)) = c
<1>1. PICK k \in 1..Len(p) :
        p[k].index = i /\ p[k].tag = c[1] /\ (i < IndexLimit => Meaning(p, p[k]) = c)
  BY DEF Stands
<1>2. k \in 1..Len(q) /\ q[k] = p[k] /\ Slots(p) /\ Slots(q)
  BY DEF Extends, Good, Slots
<1>3. ByIndex(q, i) = q[k] /\ (i < IndexLimit => Meaning(q, q[k]) = c)
  BY <1>1, <1>2, MeaningStable, ByIndexFound
<1>4. i \in Nat /\ i < NextIdx(q)
  BY <1>1, <1>2, NextIdxFacts, EntryFacts DEF Slots
<1> QED BY <1>1, <1>2, <1>3, <1>4 DEF Stands, Has

(* A call that inserts ends with the entry it asked for. *)
LEMMA FoundInserted ==
  ASSUME NEW p, NEW u, Good(p), Good(u), Extends(p, u), NEW c, NEW T, Adds(p, u, T),
         Tidy(p) => Tidy(u),
         NEW tag, NEW bytes, NEW a, NEW b, Insertable(u, tag, bytes, a, b),
         NEW r, r = Insert(u, tag, bytes, a, b),
         tag \in T, c[1] = tag,
         r.index < IndexLimit => Meaning(r.pool, r.pool[Len(u) + 1]) = c,
         NoDots => Absent(u, c)
  PROVE  Found(p, r, c, T)
<1>1. /\ Slots(p) /\ Slots(u)
      /\ Slots(r.pool) /\ Extends(u, r.pool) /\ Len(r.pool) = Len(u) + 1
      /\ r.pool[Len(u) + 1].index = r.index /\ r.pool[Len(u) + 1].tag = tag
      /\ Len(p) \in Nat /\ Len(u) \in Nat /\ Len(p) <= Len(u)
  BY InsertSlots, SMTT(30) DEF Good, Slots, Extends
<1>2. Good(r.pool)
  BY InsertGood
<1>3. Extends(p, r.pool)
  BY <1>1, ExtendsTransitive
<1>4. Adds(p, r.pool, T)
  <2> SUFFICES ASSUME NEW k \in (Len(p) + 1)..Len(r.pool)
               PROVE  r.pool[k].tag \in T
    BY DEF Adds
  <2>1. k \in (Len(p) + 1)..Len(u) \/ k = Len(u) + 1
    BY <1>1
  <2>2. k \in (Len(p) + 1)..Len(u) => r.pool[k] = u[k]
    BY <1>1 DEF Extends
  <2> QED BY <1>1, <2>1, <2>2 DEF Adds
<1>5. Stands(r.pool, r.index, c)
  BY <1>1 DEF Stands
<1>6. Tidy(u) => Tidy(r.pool)
  BY <1>1, <1>2, InsertDistinct DEF Tidy
<1> QED BY <1>2, <1>3, <1>4, <1>5, <1>6 DEF Found

(* What cp_find_or_insert returns for a string stands for it.                *)
LEMMA FindUtf8Found ==
  ASSUME NEW p, Good(p), NEW s \in Text
  PROVE  Found(p, FindUtf8(p, s), Utf8(s), {"Utf8"})
<1> DEFINE S == {k \in Tagged(p, "Utf8") : p[k].bytes = s}
           c == Utf8(s)
<1>1. S \in SUBSET (1..Len(p)) /\ p \in Seq(Entry) /\ Slots(p)
  BY DEF Tagged, Good, Slots
<1>2. \A k \in S : Meaning(p, p[k]) = c /\ p[k].index # -1
  BY <1>1, EntryFacts DEF Tagged, Meaning, Utf8
<1>3. \A k \in 1..Len(p) : Meaning(p, p[k]) = c => k \in S
  <2> SUFFICES ASSUME NEW k \in 1..Len(p), Meaning(p, p[k]) = c PROVE k \in S
    OBVIOUS
  <2>1. p[k].tag = "Utf8"
    BY MeaningTag DEF Utf8
  <2> QED BY <2>1 DEF Meaning, Utf8, Tagged
<1>4. LookupUtf8(p, s) = FirstIndex(p, S)
  BY DEF LookupUtf8
<1> HIDE DEF S, c
<1>5. CASE S = {}
  <2> DEFINE r == Insert(p, "Utf8", s, 0, 0)
  <2>1. FindUtf8(p, s) = r
    BY <1>1, <1>4, <1>5, FirstIndexFound DEF FindUtf8, FoundOr
  <2>2. Insertable(p, "Utf8", s, 0, 0)
    BY <1>1, NextIdxFacts DEF Insertable, Tags, NumTags
  <2>3. Absent(p, c)
    BY <1>3, <1>5 DEF Absent
  <2>4. Meaning(r.pool, r.pool[Len(p) + 1]) = c
    BY <1>1, <2>2, InsertSlots DEF Meaning, c, Utf8
  <2>5. c[1] = "Utf8"
    BY DEF c, Utf8
  <2>6. Extends(p, p) /\ Adds(p, p, {"Utf8"})
    BY DEF Extends, Adds, Good, Slots
  <2> HIDE DEF r
  <2>7. r = Insert(p, "Utf8", s, 0, 0)
    BY DEF r
  <2>8. Found(p, r, c, {"Utf8"})
    BY <2>2, <2>3, <2>4, <2>5, <2>6, <2>7, FoundInserted
  <2> QED BY <2>1, <2>8 DEF c
<1>6. CASE S # {}
  <2>1. PICK k \in S : FirstIndex(p, S) = p[k].index
    BY <1>1, <1>6, FirstIndexFound
  <2>2. FindUtf8(p, s) = [pool |-> p, index |-> p[k].index]
    BY <1>2, <1>4, <2>1 DEF FindUtf8, FoundOr
  <2>3. Found(p, FindUtf8(p, s), c, {"Utf8"})
    BY <1>1, <1>2, <2>1, <2>2, FoundAlready
  <2> QED BY <2>3 DEF c
<1> QED BY <1>5, <1>6

(* The entries a lookup follows references from have indices that fit. *)
TagFits(p, tag) == \A k \in 1..Len(p) : p[k].tag = tag => p[k].index < IndexLimit

(* What a lookup among the entries that mean c comes to. *)
LEMMA LookupFound ==
  ASSUME NEW p, Good(p), NEW c, NEW S \in SUBSET (1..Len(p)),
         \A k \in S : Meaning(p, p[k]) = c,
         NEW T, NEW inserted,
         S = {} => Found(p, inserted, c, T)
  PROVE  Found(p, FoundOr(p, FirstIndex(p, S), inserted), c, T)
<1>1. p \in Seq(Entry) /\ Slots(p)
  BY DEF Good, Slots
<1>2. CASE S = {}
  BY <1>1, <1>2, FirstIndexFound DEF FoundOr
<1>3. CASE S # {}
  <2>1. PICK k \in S : FirstIndex(p, S) = p[k].index
    BY <1>1, <1>3, FirstIndexFound
  <2>2. k \in 1..Len(p) /\ p[k].index # -1
    BY <1>1, EntryFacts
  <2>3. FoundOr(p, FirstIndex(p, S), inserted) = [pool |-> p, index |-> p[k].index]
    BY <2>1, <2>2 DEF FoundOr
  <2> QED BY <2>1, <2>2, <2>3, FoundAlready
<1> QED BY <1>2, <1>3

(* What it returns for a class stands for it.                                *)
LEMMA FindClassFound ==
  ASSUME NEW p, Good(p), TagFits(p, "Class"), NEW s \in Text, NoDots => Slashed[s] = s
  PROVE  Found(p, FindClass(p, s), Class(Slashed[s]), {"Utf8", "Class"})
<1> DEFINE S == {k \in Tagged(p, "Class") : TextAt(p, p[k].first) = s}
           c == Class(Slashed[s])
           u == FindUtf8(p, Slashed[s])
           T == {"Utf8", "Class"}
           r == Insert(u.pool, "Class", NoBytes, u.index, 0)
<1>1. S \in SUBSET (1..Len(p)) /\ Slashed[s] \in Text /\ Slashed[Slashed[s]] = Slashed[s]
  BY TextAssumption, SlashedAssumption DEF Tagged
<1>2. \A k \in S : Meaning(p, p[k]) = c
  <2> SUFFICES ASSUME NEW k \in S PROVE Meaning(p, p[k]) = c
    OBVIOUS
  <2>1. k \in 1..Len(p) /\ p[k].tag = "Class" /\ p[k].index < IndexLimit /\ TextAt(p, p[k].first) = s
    BY DEF Tagged, TagFits
  <2>2. s = Slashed[s]
    BY <2>1 DEF Good, Refs, Converted
  <2> QED BY <2>1, <2>2 DEF Meaning
<1>3. Found(p, u, Utf8(Slashed[s]), {"Utf8"})
  BY <1>1, FindUtf8Found
<1>4. FindClass(p, s) = FoundOr(p, FirstIndex(p, S), r)
  BY DEF FindClass, LookupClass
<1>5. c[1] = "Class" /\ Utf8(Slashed[s])[1] = "Utf8"
  BY DEF Class, Utf8
<1> HIDE DEF u
<1>6. ASSUME S = {} PROVE Found(p, r, c, T)
  <2>1. Good(u.pool) /\ Slots(u.pool) /\ Extends(p, u.pool) /\ Adds(p, u.pool, T)
    BY <1>3 DEF Found, Good, Adds
  <2>2. Extends(u.pool, u.pool)
    BY <2>1 DEF Extends, Slots
  <2>3. PICK k \in 1..Len(u.pool) :
          /\ u.pool[k].index = u.index /\ u.pool[k].tag = "Utf8"
          /\ ByIndex(u.pool, u.index) = u.pool[k]
          /\ u.index \in Nat /\ u.index < NextIdx(u.pool)
    BY <1>3, <1>5, <2>1, <2>2, StandsStable, ByIndexFound DEF Found, Stands
  <2>4. u.index < IndexLimit => TextAt(u.pool, u.index) = Slashed[s]
    <3>1. u.index < IndexLimit => Meaning(u.pool, u.pool[k]) = Utf8(Slashed[s])
      BY <1>3, <2>1, <2>2, <2>3, StandsStable DEF Found
    <3> QED BY <2>3, <3>1 DEF Meaning, Utf8, TextAt
  <2>5. Insertable(u.pool, "Class", NoBytes, u.index, 0)
    <3>1. NextIdx(u.pool) \in Nat \ {0}
      BY <2>1, NextIdxFacts
    <3>2. NextIdx(u.pool) < IndexLimit => TextAt(u.pool, u.index) = Slashed[TextAt(u.pool, u.index)]
      BY <1>1, <2>3, <2>4, <3>1, IndexLimitAssumption
    <3> QED BY <2>3, <3>1, <3>2 DEF Insertable, Tags, NumTags, Has
  <2>6. NoDots => Absent(u.pool, c)
    <3> SUFFICES ASSUME NoDots PROVE Absent(u.pool, c)
      OBVIOUS
    <3>1. Absent(p, c)
      <4> SUFFICES ASSUME NEW j \in 1..Len(p), Meaning(p, p[j]) = c PROVE FALSE
        BY DEF Absent
      <4>1. p[j].tag = "Class"
        BY <1>5, MeaningTag
      <4>2. TextAt(p, p[j].first) = Slashed[s]
        BY <4>1 DEF Meaning, Class
      <4> QED BY <1>6, <4>1, <4>2 DEF Tagged
    <3>2. Adds(p, u.pool, {"Utf8"})
      BY <1>3 DEF Found
    <3> QED BY <1>5, <2>1, <3>1, <3>2, AbsentStable
  <2>7. r.index < IndexLimit => Meaning(r.pool, r.pool[Len(u.pool) + 1]) = c
    <3> SUFFICES ASSUME r.index < IndexLimit
                 PROVE  Meaning(r.pool, r.pool[Len(u.pool) + 1]) = c
      OBVIOUS
    <3>1. /\ Slots(r.pool) /\ Extends(u.pool, r.pool) /\ r.index = NextIdx(u.pool)
          /\ r.pool[Len(u.pool) + 1].tag = "Class" /\ r.pool[Len(u.pool) + 1].first = u.index
      BY <2>1, <2>5, InsertSlots
    <3>2. u.index < IndexLimit
      BY <2>1, <2>3, <3>1, NextIdxFacts, IndexLimitAssumption
    <3>3. TextAt(r.pool, u.index) = TextAt(u.pool, u.index)
      BY <2>1, <2>3, <3>1, ExtendsByIndex DEF TextAt
    <3> QED BY <2>4, <3>1, <3>2, <3>3 DEF Meaning
  <2>8. Tidy(p) => Tidy(u.pool)
    BY <1>3 DEF Found
  <2> HIDE DEF r
  <2>9. r = Insert(u.pool, "Class", NoBytes, u.index, 0)
    BY DEF r
  <2> QED BY <1>5, <2>1, <2>5, <2>6, <2>7, <2>8, <2>9, FoundInserted
<1> HIDE DEF r
<1>7. Found(p, FoundOr(p, FirstIndex(p, S), r), c, T)
  BY <1>1, <1>2, <1>6, LookupFound
<1> QED BY <1>4, <1>7

(* What it returns for a string constant stands for it.                      *)
LEMMA FindStringFound ==
  ASSUME NEW p, Good(p), TagFits(p, "String"), NEW s \in Text
  PROVE  Found(p, FindString(p, s), StringConst(s), {"Utf8", "String"})
<1> DEFINE S == {k \in Tagged(p, "String") : TextAt(p, p[k].first) = s}
           c == StringConst(s)
           u == FindUtf8(p, s)
           T == {"Utf8", "String"}
           r == Insert(u.pool, "String", NoBytes, u.index, 0)
<1>1. S \in SUBSET (1..Len(p))
  BY DEF Tagged
<1>2. \A k \in S : Meaning(p, p[k]) = c
  BY DEF Meaning, Tagged
<1>3. Found(p, u, Utf8(s), {"Utf8"})
  BY FindUtf8Found
<1>4. FindString(p, s) = FoundOr(p, FirstIndex(p, S), r)
  BY DEF FindString, LookupString
<1>5. c[1] = "String" /\ Utf8(s)[1] = "Utf8"
  BY DEF StringConst, Utf8
<1> HIDE DEF u
<1>6. ASSUME S = {} PROVE Found(p, r, c, T)
  <2>1. Good(u.pool) /\ Slots(u.pool) /\ Extends(p, u.pool) /\ Adds(p, u.pool, T)
    BY <1>3 DEF Found, Good, Adds
  <2>2. Extends(u.pool, u.pool)
    BY <2>1 DEF Extends, Slots
  <2>3. /\ Has(u.pool, u.index, "Utf8") /\ ByIndex(u.pool, u.index).tag = "Utf8"
        /\ u.index \in Nat /\ u.index < NextIdx(u.pool)
        /\ u.index < IndexLimit => Meaning(u.pool, ByIndex(u.pool, u.index)) = Utf8(s)
    BY <1>3, <1>5, <2>1, <2>2, StandsStable DEF Found
  <2>4. u.index < IndexLimit => TextAt(u.pool, u.index) = s
    BY <2>3 DEF Meaning, Utf8, TextAt
  <2>5. Insertable(u.pool, "String", NoBytes, u.index, 0)
    BY <2>1, <2>3, NextIdxFacts DEF Insertable, Tags, NumTags
  <2>6. Absent(u.pool, c)
    <3>1. Absent(p, c)
      <4> SUFFICES ASSUME NEW j \in 1..Len(p), Meaning(p, p[j]) = c PROVE FALSE
        BY DEF Absent
      <4>1. p[j].tag = "String"
        BY <1>5, MeaningTag
      <4>2. TextAt(p, p[j].first) = s
        BY <4>1 DEF Meaning, StringConst
      <4> QED BY <1>6, <4>1, <4>2 DEF Tagged
    <3>2. Adds(p, u.pool, {"Utf8"})
      BY <1>3 DEF Found
    <3> QED BY <1>5, <2>1, <3>1, <3>2, AbsentStable
  <2>7. r.index < IndexLimit => Meaning(r.pool, r.pool[Len(u.pool) + 1]) = c
    <3> SUFFICES ASSUME r.index < IndexLimit
                 PROVE  Meaning(r.pool, r.pool[Len(u.pool) + 1]) = c
      OBVIOUS
    <3>1. /\ Slots(r.pool) /\ Extends(u.pool, r.pool) /\ r.index = NextIdx(u.pool)
          /\ r.pool[Len(u.pool) + 1].tag = "String" /\ r.pool[Len(u.pool) + 1].first = u.index
      BY <2>1, <2>5, InsertSlots
    <3>2. u.index < IndexLimit
      BY <2>1, <2>3, <3>1, NextIdxFacts, IndexLimitAssumption
    <3>3. TextAt(r.pool, u.index) = TextAt(u.pool, u.index)
      BY <2>1, <2>3, <3>1, ExtendsByIndex DEF TextAt, Has
    <3> QED BY <2>4, <3>1, <3>2, <3>3 DEF Meaning
  <2>8. Tidy(p) => Tidy(u.pool)
    BY <1>3 DEF Found
  <2> HIDE DEF r
  <2>9. r = Insert(u.pool, "String", NoBytes, u.index, 0)
    BY DEF r
  <2> QED BY <1>5, <2>1, <2>5, <2>6, <2>7, <2>8, <2>9, FoundInserted
<1> HIDE DEF r
<1>7. Found(p, FoundOr(p, FirstIndex(p, S), r), c, T)
  BY <1>1, <1>2, <1>6, LookupFound
<1> QED BY <1>4, <1>7

(* Two calls, one after the other. *)
LEMMA FoundTwice ==
  ASSUME NEW p, Good(p), NEW a, NEW b, NEW c, NEW d, NEW T, NEW U,
         Found(p, a, c, T), Found(a.pool, b, d, U)
  PROVE  /\ Good(a.pool) /\ Good(b.pool) /\ Extends(a.pool, b.pool) /\ Extends(p, b.pool)
         /\ Adds(p, b.pool, T \cup U)
         /\ Tidy(p) => Tidy(b.pool)
         /\ Stands(b.pool, a.index, c) /\ Stands(b.pool, b.index, d)
<1>1. /\ Good(a.pool) /\ Good(b.pool) /\ Extends(p, a.pool) /\ Extends(a.pool, b.pool)
      /\ Slots(p) /\ Slots(a.pool) /\ Slots(b.pool)
      /\ Len(p) \in Nat /\ Len(a.pool) \in Nat /\ Len(b.pool) \in Nat
  BY DEF Found, Good, Slots
<1>2. Extends(p, b.pool)
  BY <1>1, ExtendsTransitive
<1>3. Adds(p, b.pool, T \cup U)
  <2> SUFFICES ASSUME NEW k \in (Len(p) + 1)..Len(b.pool) PROVE b.pool[k].tag \in T \cup U
    BY DEF Adds
  <2>1. k \in (Len(p) + 1)..Len(a.pool) \/ k \in (Len(a.pool) + 1)..Len(b.pool)
    BY <1>1 DEF Extends
  <2>2. k \in (Len(p) + 1)..Len(a.pool) => b.pool[k] = a.pool[k]
    BY <1>1 DEF Extends
  <2> QED BY <2>1, <2>2 DEF Found, Adds
<1>4. Stands(b.pool, a.index, c)
  BY <1>1, StandsStable DEF Found
<1> QED BY <1>1, <1>2, <1>3, <1>4 DEF Found

(* What it returns for a name and a type stands for them.                    *)
LEMMA FindNameAndTypeFound ==
  ASSUME NEW p, Good(p), TagFits(p, "NameAndType"), NEW n \in Text, NEW d \in Text
  PROVE  Found(p, FindNameAndType(p, n, d), NameAndType(n, d), {"Utf8", "NameAndType"})
<1> DEFINE S == {k \in Tagged(p, "NameAndType") :
                   TextAt(p, p[k].first) = n /\ TextAt(p, p[k].second) = d}
           c == NameAndType(n, d)
           a == FindUtf8(p, n)
           b == FindUtf8(a.pool, d)
           T == {"Utf8", "NameAndType"}
           r == Insert(b.pool, "NameAndType", NoBytes, a.index, b.index)
<1>1. S \in SUBSET (1..Len(p))
  BY DEF Tagged
<1>2. \A k \in S : Meaning(p, p[k]) = c
  BY DEF Meaning, Tagged
<1>3. Found(p, a, Utf8(n), {"Utf8"})
  BY FindUtf8Found
<1>4. Found(a.pool, b, Utf8(d), {"Utf8"})
  BY <1>3, FindUtf8Found DEF Found
<1>5. FindNameAndType(p, n, d) = FoundOr(p, FirstIndex(p, S), r)
  BY DEF FindNameAndType, LookupNameAndType
<1>6. c[1] = "NameAndType" /\ Utf8(n)[1] = "Utf8" /\ Utf8(d)[1] = "Utf8"
  BY DEF NameAndType, Utf8
<1> HIDE DEF a, b
<1>7. ASSUME S = {} PROVE Found(p, r, c, T)
  <2> DEFINE q == b.pool
  <2>1. /\ Good(q) /\ Slots(q) /\ Extends(p, q) /\ Adds(p, q, {"Utf8"}) /\ Extends(q, q)
        /\ Stands(q, a.index, Utf8(n)) /\ Stands(q, b.index, Utf8(d))
        /\ Tidy(p) => Tidy(q)
    <3>1. {"Utf8"} \cup {"Utf8"} = {"Utf8"}
      OBVIOUS
    <3>2. /\ Good(q) /\ Extends(p, q) /\ Adds(p, q, {"Utf8"})
          /\ Stands(q, a.index, Utf8(n)) /\ Stands(q, b.index, Utf8(d))
          /\ Tidy(p) => Tidy(q)
      BY <1>3, <1>4, <3>1, FoundTwice
    <3> QED BY <3>2 DEF Good, Slots, Extends
  <2> HIDE DEF q
  <2>2. /\ Has(q, a.index, "Utf8") /\ ByIndex(q, a.index).tag = "Utf8"
        /\ a.index \in Nat /\ a.index < NextIdx(q)
        /\ a.index < IndexLimit => Meaning(q, ByIndex(q, a.index)) = Utf8(n)
    BY <1>6, <2>1, StandsStable
  <2>3. /\ Has(q, b.index, "Utf8") /\ ByIndex(q, b.index).tag = "Utf8"
        /\ b.index \in Nat /\ b.index < NextIdx(q)
        /\ b.index < IndexLimit => Meaning(q, ByIndex(q, b.index)) = Utf8(d)
    BY <1>6, <2>1, StandsStable
  <2>4. /\ a.index < IndexLimit => TextAt(q, a.index) = n
        /\ b.index < IndexLimit => TextAt(q, b.index) = d
    BY <2>2, <2>3 DEF Meaning, Utf8, TextAt
  <2>5. Insertable(q, "NameAndType", NoBytes, a.index, b.index)
    BY <2>1, <2>2, <2>3 DEF Insertable, Tags, NumTags
  <2>6. Absent(q, c)
    <3>1. Absent(p, c)
      <4> SUFFICES ASSUME NEW j \in 1..Len(p), Meaning(p, p[j]) = c PROVE FALSE
        BY DEF Absent
      <4>1. p[j].tag = "NameAndType"
        BY <1>6, MeaningTag
      <4>2. TextAt(p, p[j].first) = n /\ TextAt(p, p[j].second) = d
        BY <4>1 DEF Meaning, NameAndType
      <4> QED BY <1>7, <4>1, <4>2 DEF Tagged
    <3> QED BY <1>6, <2>1, <3>1, AbsentStable
  <2>7. r.index < IndexLimit => Meaning(r.pool, r.pool[Len(q) + 1]) = c
    <3> SUFFICES ASSUME r.index < IndexLimit
                 PROVE  Meaning(r.pool, r.pool[Len(q) + 1]) = c
      OBVIOUS
    <3>1. /\ Slots(r.pool) /\ Extends(q, r.pool) /\ r.index = NextIdx(q)
          /\ r.pool[Len(q) + 1].tag = "NameAndType"
          /\ r.pool[Len(q) + 1].first = a.index /\ r.pool[Len(q) + 1].second = b.index
      BY <2>1, <2>5, InsertSlots DEF q
    <3>2. a.index < IndexLimit /\ b.index < IndexLimit
      BY <2>1, <2>2, <2>3, <3>1, NextIdxFacts, IndexLimitAssumption
    <3>3. TextAt(r.pool, a.index) = TextAt(q, a.index) /\ TextAt(r.pool, b.index) = TextAt(q, b.index)
      BY <2>1, <2>2, <2>3, <3>1, ExtendsByIndex DEF TextAt, Has
    <3> QED BY <2>4, <3>1, <3>2, <3>3 DEF Meaning
  <2>8. Adds(p, q, T)
    BY <2>1 DEF Adds
  <2> HIDE DEF r
  <2>9. r = Insert(q, "NameAndType", NoBytes, a.index, b.index)
    BY DEF r, q
  <2> QED BY <1>6, <2>1, <2>5, <2>6, <2>7, <2>8, <2>9, FoundInserted
<1> HIDE DEF r
<1>8. Found(p, FoundOr(p, FirstIndex(p, S), r), c, T)
  BY <1>1, <1>2, <1>7, LookupFound
<1> QED BY <1>5, <1>8

(* What it returns for a field or a method stands for it.                    *)
LEMMA FindRefFound ==
  ASSUME NEW p, Good(p), TagFits(p, "Class"), TagFits(p, "NameAndType"), TagFits(p, "Methodref"),
         NEW s \in Text, Slashed[s] = s, NEW n \in Text, NEW d \in Text
  PROVE  Found(p, FindRef(p, s, n, d), Methodref(s, n, d),
               {"Utf8", "Class", "NameAndType", "Methodref"})
<1> DEFINE S == {k \in Tagged(p, "Methodref") :
                   /\ TextAt(p, ByIndex(p, p[k].first).first) = s
                   /\ TextAt(p, ByIndex(p, p[k].second).first) = n
                   /\ TextAt(p, ByIndex(p, p[k].second).second) = d}
           c == Methodref(s, n, d)
           a == FindClass(p, s)
           b == FindNameAndType(a.pool, n, d)
           T == {"Utf8", "Class", "NameAndType", "Methodref"}
           r == Insert(b.pool, "Methodref", NoBytes, a.index, b.index)
<1>1. S \in SUBSET (1..Len(p))
  BY DEF Tagged
<1>2. \A k \in S : Meaning(p, p[k]) = c
  BY DEF Meaning, Tagged
<1>3. Found(p, a, Class(s), {"Utf8", "Class"})
  BY FindClassFound
<1>4. Found(a.pool, b, NameAndType(n, d), {"Utf8", "NameAndType"})
  <2>1. Good(a.pool) /\ Extends(p, a.pool) /\ Adds(p, a.pool, {"Utf8", "Class"})
    BY <1>3 DEF Found
  <2>2. TagFits(a.pool, "NameAndType")
    <3> SUFFICES ASSUME NEW k \in 1..Len(a.pool), a.pool[k].tag = "NameAndType"
                 PROVE  a.pool[k].index < IndexLimit
      BY DEF TagFits
    <3>1. k \in 1..Len(p) \/ k \in (Len(p) + 1)..Len(a.pool)
      BY <2>1 DEF Good, Slots
    <3>2. k \in 1..Len(p)
      BY <2>1, <3>1 DEF Adds
    <3> QED BY <2>1, <3>2 DEF TagFits, Extends
  <2> QED BY <2>1, <2>2, FindNameAndTypeFound
<1>5. FindRef(p, s, n, d) = FoundOr(p, FirstIndex(p, S), r)
  BY DEF FindRef, LookupRef
<1>6. c[1] = "Methodref" /\ Class(s)[1] = "Class" /\ NameAndType(n, d)[1] = "NameAndType"
  BY DEF NameAndType, Class, Methodref
<1> HIDE DEF a, b
<1>7. ASSUME S = {} PROVE Found(p, r, c, T)
  <2> DEFINE q == b.pool
             U == {"Utf8", "Class", "NameAndType"}
  <2>1. /\ Good(q) /\ Slots(q) /\ Extends(p, q) /\ Adds(p, q, U) /\ Extends(q, q)
        /\ Stands(q, a.index, Class(s)) /\ Stands(q, b.index, NameAndType(n, d))
        /\ Tidy(p) => Tidy(q)
    <3>1. {"Utf8", "Class"} \cup {"Utf8", "NameAndType"} = U
      OBVIOUS
    <3>2. /\ Good(q) /\ Extends(p, q) /\ Adds(p, q, {"Utf8", "Class"} \cup {"Utf8", "NameAndType"})
          /\ Stands(q, a.index, Class(s)) /\ Stands(q, b.index, NameAndType(n, d))
          /\ Tidy(p) => Tidy(q)
      BY <1>3, <1>4, FoundTwice
    <3>3. Slots(q)
      BY <3>2 DEF Good
    <3>4. Extends(q, q)
      BY <3>3 DEF Extends, Slots
    <3> HIDE DEF q, U
    <3> QED BY <3>1, <3>2, <3>3, <3>4
  <2> HIDE DEF q
  <2>2. /\ Has(q, a.index, "Class") /\ ByIndex(q, a.index).tag = "Class"
        /\ a.index \in Nat /\ a.index < NextIdx(q)
        /\ a.index < IndexLimit => Meaning(q, ByIndex(q, a.index)) = Class(s)
    BY <1>6, <2>1, StandsStable
  <2>3. /\ Has(q, b.index, "NameAndType") /\ ByIndex(q, b.index).tag = "NameAndType"
        /\ b.index \in Nat /\ b.index < NextIdx(q)
        /\ b.index < IndexLimit => Meaning(q, ByIndex(q, b.index)) = NameAndType(n, d)
    BY <1>6, <2>1, StandsStable
  <2>5. Insertable(q, "Methodref", NoBytes, a.index, b.index)
    BY <2>1, <2>2, <2>3 DEF Insertable, Tags, NumTags
  <2>6. Absent(q, c)
    <3>1. Absent(p, c)
      <4> SUFFICES ASSUME NEW j \in 1..Len(p), Meaning(p, p[j]) = c PROVE FALSE
        BY DEF Absent
      <4>1. p[j].tag = "Methodref"
        BY <1>6, MeaningTag
      <4>2. /\ TextAt(p, ByIndex(p, p[j].first).first) = s
            /\ TextAt(p, ByIndex(p, p[j].second).first) = n
            /\ TextAt(p, ByIndex(p, p[j].second).second) = d
        BY <4>1 DEF Meaning, Methodref
      <4> QED BY <1>7, <4>1, <4>2 DEF Tagged
    <3> QED BY <1>6, <2>1, <3>1, AbsentStable
  <2>7. r.index < IndexLimit => Meaning(r.pool, r.pool[Len(q) + 1]) = c
    <3> SUFFICES ASSUME r.index < IndexLimit
                 PROVE  Meaning(r.pool, r.pool[Len(q) + 1]) = c
      OBVIOUS
    <3>1. /\ Slots(r.pool) /\ Extends(q, r.pool) /\ r.index = NextIdx(q)
          /\ r.pool[Len(q) + 1].tag = "Methodref"
          /\ r.pool[Len(q) + 1].first = a.index /\ r.pool[Len(q) + 1].second = b.index
      BY <2>1, <2>5, InsertSlots DEF q
    <3>2. a.index < IndexLimit /\ b.index < IndexLimit
      BY <2>1, <2>2, <2>3, <3>1, NextIdxFacts, IndexLimitAssumption
    <3>3. Good(r.pool)
      BY <2>1, <2>5, InsertGood DEF q
    <3>4. /\ ByIndex(r.pool, a.index).tag = "Class"
          /\ Meaning(r.pool, ByIndex(r.pool, a.index)) = Class(s)
      BY <1>6, <2>1, <3>1, <3>2, <3>3, StandsStable
    <3>5. /\ ByIndex(r.pool, b.index).tag = "NameAndType"
          /\ Meaning(r.pool, ByIndex(r.pool, b.index)) = NameAndType(n, d)
      BY <1>6, <2>1, <3>1, <3>2, <3>3, StandsStable
    <3>6. TextAt(r.pool, ByIndex(r.pool, a.index).first) = s
      BY <3>4 DEF Meaning, Class
    <3>7. /\ TextAt(r.pool, ByIndex(r.pool, b.index).first) = n
          /\ TextAt(r.pool, ByIndex(r.pool, b.index).second) = d
      BY <3>5 DEF Meaning, NameAndType
    <3> QED BY <3>1, <3>6, <3>7 DEF Meaning
  <2>8. Adds(p, q, T)
    BY <2>1 DEF Adds
  <2> HIDE DEF r
  <2>9. r = Insert(q, "Methodref", NoBytes, a.index, b.index)
    BY DEF r, q
  <2> QED BY <1>6, <2>1, <2>5, <2>6, <2>7, <2>8, <2>9, FoundInserted
<1> HIDE DEF r
<1>8. Found(p, FoundOr(p, FirstIndex(p, S), r), c, T)
  BY <1>1, <1>2, <1>7, LookupFound
<1> QED BY <1>5, <1>8

(* A number that an instruction pushes is not inserted unless forced. *)
LEMMA FindNumberFound ==
  ASSUME NEW p, Good(p), NEW n \in Number, NEW force \in BOOLEAN
  PROVE  \/ Found(p, FindNumber(p, n, force), NumberConst(n), {NumTag[n]})
         \/ ~ force /\ FindNumber(p, n, force) = [pool |-> p, index |-> -1]
<1> DEFINE S == {k \in Tagged(p, NumTag[n]) : p[k].bytes = n}
           c == NumberConst(n)
           T == {NumTag[n]}
           r == Insert(p, NumTag[n], n, 0, 0)
<1>1. S \in SUBSET (1..Len(p)) /\ Slots(p) /\ p \in Seq(Entry)
  BY DEF Tagged, Good, Slots
<1>2. NumTag[n] \in NumTags /\ c[1] = NumTag[n]
  BY NumberAssumption DEF NumberConst
<1>3. \A k \in S : Meaning(p, p[k]) = c
  BY <1>2 DEF Meaning, Tagged, NumberConst, NumTags
<1>4. ASSUME S = {} PROVE Found(p, r, c, T)
  <2>1. Insertable(p, NumTag[n], n, 0, 0)
    BY <1>1, <1>2, NextIdxFacts DEF Insertable, Tags, NumTags
  <2>2. Absent(p, c)
    <3> SUFFICES ASSUME NEW k \in 1..Len(p), Meaning(p, p[k]) = c PROVE FALSE
      BY DEF Absent
    <3>1. p[k].tag = NumTag[n]
      BY <1>2, MeaningTag
    <3>2. p[k].bytes = n
      BY <1>2, <3>1 DEF Meaning, NumberConst, NumTags
    <3> QED BY <1>4, <3>1, <3>2 DEF Tagged
  <2>3. Meaning(r.pool, r.pool[Len(p) + 1]) = c
    <3>1. r.pool[Len(p) + 1].tag = NumTag[n] /\ r.pool[Len(p) + 1].bytes = n
      BY <1>1, <2>1, InsertSlots
    <3> QED BY <1>2, <3>1 DEF Meaning, NumberConst, NumTags
  <2>4. Extends(p, p) /\ Adds(p, p, T)
    BY <1>1 DEF Extends, Adds, Slots
  <2> HIDE DEF r
  <2>5. r = Insert(p, NumTag[n], n, 0, 0)
    BY DEF r
  <2> QED BY <1>2, <2>1, <2>2, <2>3, <2>4, <2>5, FoundInserted
<1> DEFINE e == IF Equal[n] \in Literal /\ ~ force THEN [pool |-> p, index |-> -1] ELSE r
<1>5. FindNumber(p, n, force) = FoundOr(p, FirstIndex(p, S), e)
  BY DEF FindNumber, LookupNumber
<1>0. /\ Equal[n] \in Literal /\ ~ force => e = [pool |-> p, index |-> -1]
      /\ ~ (Equal[n] \in Literal /\ ~ force) => e = r
  OBVIOUS
<1> HIDE DEF r, e, S
<1>6. CASE Equal[n] \in Literal /\ ~ force /\ S = {}
  <2>1. FirstIndex(p, S) = -1
    BY <1>1, <1>6, FirstIndexFound
  <2> QED BY <1>5, <1>0, <1>6, <2>1 DEF FoundOr
<1>7. CASE S # {}
  <2>1. S = {} => Found(p, e, c, T)
    BY <1>7
  <2>2. Found(p, FoundOr(p, FirstIndex(p, S), e), c, T)
    BY <1>1, <1>3, <2>1, LookupFound
  <2> QED BY <1>5, <2>2
<1>8. CASE ~ (Equal[n] \in Literal /\ ~ force)
  <2>1. S = {} => Found(p, e, c, T)
    BY <1>0, <1>4, <1>8
  <2>2. Found(p, FoundOr(p, FirstIndex(p, S), e), c, T)
    BY <1>1, <1>3, <2>1, LookupFound
  <2> QED BY <1>5, <2>2
<1> QED BY <1>6, <1>7, <1>8
-----------------------------------------------------------------------------
(* The invariant. *)

(* What an operand stands for, and that a short one is small enough. *)
Operand(p, o) ==
  /\ o \in [index : Nat, bytes : {1, 2}, constant : Constant]
  /\ o.bytes = 1 => o.index <= IdxMax
  /\ Stands(p, o.index, o.constant)

Inv ==
  /\ Good(pool) /\ Tidy(pool)
  /\ \A o \in operands : Operand(pool, o)
  /\ literals \subseteq Number \X Number
  /\ count \in 0..(IndexLimit - 1)
  /\ count # 0 => count = NextIdx(pool) % IndexLimit

(* The invariant holds of a new class.                                       *)
LEMMA InitInv == Init => Inv
<1> SUFFICES ASSUME Init PROVE Inv
  OBVIOUS
<1>1. pool = <<>> /\ operands = {} /\ literals = {} /\ count = 0
  BY DEF Init
<1>2. Good(pool)
  BY <1>1 DEF Good, Slots, Payload, Refs
<1>3. Tidy(pool)
  BY <1>1 DEF Tidy, Distinct
<1> QED BY <1>1, <1>2, <1>3, IndexLimitAssumption DEF Inv

(* While the class is open, every index of the pool fits. *)
LEMMA OpenFits ==
  ASSUME Inv, Open
  PROVE  \A tag : TagFits(pool, tag)
  BY FitsFacts DEF Inv, Open, Good, TagFits

(* Handing out an operand keeps the invariant.                               *)
LEMMA TakeInv ==
  ASSUME Inv, NEW found, NEW bytes \in {1, 2}, NEW constant \in Constant, NEW T,
         Open => Found(pool, found, constant, T), bytes = 1 => found.index <= IdxMax,
         Take(found, bytes, constant)
  PROVE  Inv' /\ Extends(pool, pool')
<1>1. /\ Good(pool) /\ Good(pool') /\ Extends(pool, pool') /\ Tidy(pool')
      /\ Stands(pool', found.index, constant) /\ pool' = found.pool
  BY DEF Take, Found, Inv
<1>2. operands' = operands \cup {[index |-> found.index, bytes |-> bytes, constant |-> constant]}
  BY DEF Take
<1>3. \A o \in operands : Operand(pool', o)
  BY <1>1, StandsStable DEF Inv, Operand
<1>4. Operand(pool', [index |-> found.index, bytes |-> bytes, constant |-> constant])
  <2>1. Extends(pool', pool')
    BY <1>1 DEF Extends, Good, Slots
  <2>2. found.index \in Nat
    BY <1>1, <2>1, StandsStable
  <2> QED BY <1>1, <2>2 DEF Operand
<1>5. count' = count /\ count = 0 /\ literals' = literals
  BY DEF Take, Open
<1> QED BY <1>1, <1>2, <1>3, <1>4, <1>5 DEF Inv

(* An ldc has one byte for the index, an ldc_w two.                          *)
LEMMA LoadBytesFacts ==
  \A i : LoadBytes(i) \in {1, 2} /\ (i \in Nat /\ LoadBytes(i) = 1 => i <= IdxMax)
  BY IdxMaxAssumption DEF LoadBytes

(* The index found is a number. *)
LEMMA FoundIndex ==
  ASSUME NEW p, NEW r, NEW c, NEW T, Found(p, r, c, T)
  PROVE  r.index \in Nat
<1>1. Extends(r.pool, r.pool) /\ Good(r.pool)
  BY DEF Found, Extends, Good, Slots
<1> QED BY <1>1, StandsStable DEF Found

(* Adding a name keeps the invariant.                                        *)
LEMMA AddNameInv ==
  ASSUME Inv, NEW s \in Name, AddName(s)
  PROVE  Inv' /\ Extends(pool, pool')
<1>1. s \in Text /\ Utf8(s) \in Constant
  BY NamesAssumption DEF Constant
<1>2. Found(pool, FindUtf8(pool, s), Utf8(s), {"Utf8"})
  BY <1>1, FindUtf8Found DEF Inv
<1> QED BY <1>1, <1>2, TakeInv DEF AddName

(* Pushing a string keeps the invariant.                                     *)
LEMMA PushStringInv ==
  ASSUME Inv, NEW s \in Name, PushString(s)
  PROVE  Inv' /\ Extends(pool, pool')
<1> DEFINE f == FindString(pool, s)
<1>1. s \in Text /\ StringConst(s) \in Constant
  BY NamesAssumption DEF Constant
<1>2. Take(f, LoadBytes(f.index), StringConst(s))
  BY DEF PushString
<1>3. Found(pool, f, StringConst(s), {"Utf8", "String"})
  BY <1>1, <1>2, OpenFits, FindStringFound DEF Inv, Take
<1>4. f.index \in Nat
  BY <1>3, FoundIndex
<1> HIDE DEF f
<1> QED BY <1>1, <1>2, <1>3, <1>4, LoadBytesFacts, TakeInv

(* Referring to a class keeps the invariant.                                 *)
LEMMA UseClassInv ==
  ASSUME Inv, NEW s \in ClassName, UseClass(s)
  PROVE  Inv' /\ Extends(pool, pool')
<1> DEFINE t == Slashed[s]
           f == FindClass(pool, t)
<1>1. t \in Text /\ Slashed[t] = t /\ Class(t) \in Constant
  BY NamesAssumption, TextAssumption, SlashedAssumption DEF Constant
<1>2. Take(f, 2, Class(t))
  BY DEF UseClass
<1> HIDE DEF t
<1>3. Found(pool, f, Class(t), {"Utf8", "Class"})
  <2>1. Found(pool, f, Class(Slashed[t]), {"Utf8", "Class"})
    BY <1>1, <1>2, OpenFits, FindClassFound DEF Inv, Take
  <2> QED BY <1>1, <2>1
<1> HIDE DEF f
<1> QED BY <1>1, <1>2, <1>3, TakeInv

(* So does referring to one by the name as it is given.                      *)
LEMMA UseClassVerbatimInv ==
  ASSUME Inv, NEW s \in VerbatimName, UseClassVerbatim(s)
  PROVE  Inv' /\ Extends(pool, pool')
<1> DEFINE f == FindClass(pool, s)
<1>1. s \in Text /\ Slashed[s] \in Text /\ Class(Slashed[s]) \in Constant
  BY NamesAssumption, TextAssumption DEF Constant
<1>2. Take(f, 2, Class(Slashed[s]))
  BY DEF UseClassVerbatim
<1>3. Found(pool, f, Class(Slashed[s]), {"Utf8", "Class"})
  BY <1>1, <1>2, OpenFits, FindClassFound DEF Inv, Take, NoDots
<1> HIDE DEF f
<1> QED BY <1>1, <1>2, <1>3, TakeInv

(* Referring to a name and a type keeps the invariant.                       *)
LEMMA UseNameAndTypeInv ==
  ASSUME Inv, NEW n \in Name, NEW d \in ClassName, UseNameAndType(n, d)
  PROVE  Inv' /\ Extends(pool, pool')
<1> DEFINE t == Slashed[d]
           f == FindNameAndType(pool, n, t)
<1>1. t \in Text /\ n \in Text /\ NameAndType(n, t) \in Constant
  BY NamesAssumption, TextAssumption DEF Constant
<1>2. Take(f, 2, NameAndType(n, t))
  BY DEF UseNameAndType
<1> HIDE DEF t
<1>3. Found(pool, f, NameAndType(n, t), {"Utf8", "NameAndType"})
  BY <1>1, <1>2, OpenFits, FindNameAndTypeFound DEF Inv, Take
<1> HIDE DEF f
<1> QED BY <1>1, <1>2, <1>3, TakeInv

(* Referring to a field or a method keeps the invariant.                     *)
LEMMA UseRefInv ==
  ASSUME Inv, NEW c \in ClassName, NEW n \in Name, NEW d \in ClassName, UseRef(c, n, d)
  PROVE  Inv' /\ Extends(pool, pool')
<1> DEFINE t == Slashed[c]
           u == Slashed[d]
           f == FindRef(pool, t, n, u)
           T == {"Utf8", "Class", "NameAndType", "Methodref"}
<1>1. t \in Text /\ Slashed[t] = t /\ n \in Text /\ u \in Text
  BY NamesAssumption, TextAssumption, SlashedAssumption
<1>2. Take(f, 2, Methodref(t, n, u))
  BY DEF UseRef
<1> HIDE DEF t, u
<1>3. Methodref(t, n, u) \in Constant
  BY <1>1 DEF Constant
<1>4. Found(pool, f, Methodref(t, n, u), T)
  BY <1>1, <1>2, OpenFits, FindRefFound DEF Inv, Take
<1> HIDE DEF f, T
<1> QED BY <1>2, <1>3, <1>4, TakeInv

(* Pushing a number keeps the invariant.                                     *)
LEMMA PushNumberInv ==
  ASSUME Inv, NEW n \in Number, PushNumber(n)
  PROVE  Inv' /\ Extends(pool, pool')
<1> DEFINE f == FindNumber(pool, n, FALSE)
           b == IF EntryWidth(NumTag[n]) = 2 THEN 2 ELSE LoadBytes(f.index)
<1>1. NumberConst(n) \in Constant
  BY DEF Constant
<1>2. Found(pool, f, NumberConst(n), {NumTag[n]}) \/ f = [pool |-> pool, index |-> -1]
  BY FindNumberFound DEF Inv
<1>3. CASE f.index # -1 /\ Take(f, b, NumberConst(n))
  <2>1. Found(pool, f, NumberConst(n), {NumTag[n]})
    <3> HIDE DEF f
    <3> QED BY <1>2, <1>3
  <2>2. f.index \in Nat
    BY <2>1, FoundIndex
  <2>3. b \in {1, 2} /\ (b = 1 => f.index <= IdxMax)
    BY <2>2, LoadBytesFacts
  <2> HIDE DEF f, b
  <2> QED BY <1>1, <1>3, <2>1, <2>3, TakeInv
<1>4. CASE literals' = literals \cup {<<n, Equal[n]>>} /\ UNCHANGED <<pool, operands, count>>
  <2> HIDE DEF f, b
  <2>1. Equal[n] \in Number
    BY NumberAssumption
  <2>2. Extends(pool, pool')
    BY <1>4 DEF Extends, Inv, Good, Slots
  <2>3. literals' \subseteq Number \X Number
    BY <1>4, <2>1 DEF Inv
  <2> QED BY <1>4, <2>2, <2>3 DEF Inv
<1> QED BY <1>3, <1>4 DEF PushNumber

(* The value of a constant field keeps the invariant.                        *)
LEMMA SetConstantValueInv ==
  ASSUME Inv, NEW n \in Number, SetConstantValue(n)
  PROVE  Inv' /\ Extends(pool, pool')
<1>1. NumberConst(n) \in Constant
  BY DEF Constant
<1> DEFINE f == FindNumber(pool, n, TRUE)
<1>2. Found(pool, f, NumberConst(n), {NumTag[n]})
  BY FindNumberFound DEF Inv
<1>3. Take(f, 2, NumberConst(n))
  BY DEF SetConstantValue
<1> HIDE DEF f
<1> QED BY <1>1, <1>2, <1>3, TakeInv

(* Writing the class keeps the invariant.                                    *)
LEMMA WriteClassInv ==
  ASSUME Inv, WriteClass
  PROVE  Inv' /\ Extends(pool, pool')
<1>1. pool' = pool /\ operands' = operands /\ literals' = literals
      /\ count' = NextIdx(pool) % IndexLimit
  BY DEF WriteClass
<1>2. NextIdx(pool) % IndexLimit \in 0..(IndexLimit - 1)
  BY NextIdxFacts, IndexLimitAssumption DEF Inv, Good
<1>3. Extends(pool, pool')
  BY <1>1 DEF Extends, Inv, Good, Slots
<1>4. NextIdx(pool') = NextIdx(pool)
  BY <1>1
<1> QED BY <1>1, <1>2, <1>3, <1>4 DEF Inv

(* A step that changes nothing keeps the invariant.                          *)
LEMMA StutterInv ==
  ASSUME Inv, UNCHANGED vars
  PROVE  Inv' /\ Extends(pool, pool')
  BY DEF Inv, vars, Extends, Good, Slots, NextIdx

(* Every step keeps the invariant.                                           *)
LEMMA NextInv ==
  ASSUME Inv, [Next]_vars
  PROVE  Inv' /\ Extends(pool, pool')
  BY AddNameInv, PushStringInv, UseClassInv, UseClassVerbatimInv, UseNameAndTypeInv, UseRefInv,
     PushNumberInv, SetConstantValueInv, WriteClassInv, StutterInv DEF Next, Written

(* The invariant always holds.                                               *)
LEMMA InvCorrect == Spec => []Inv
<1>1. Inv /\ [Next]_vars => Inv'
  BY NextInv
<1> QED BY <1>1, InitInv, PTL DEF Spec
-----------------------------------------------------------------------------
(* The theorems. *)

(* The pool, the operands taken from it and the count keep their types.     *)
THEOREM TypeCorrect == Spec => []TypeOK
<1>1. Inv => TypeOK
  BY DEF Inv, Good, Slots, Operand, TypeOK
<1> QED BY <1>1, InvCorrect, PTL

(* Whatever was inserted in whatever order, cp_insert numbers the entries   *)
(* by the slots before them, and an entry whose index fits a u2 refers back *)
(* to entries of the tags the class file format asks for.                   *)
THEOREM WellFormedCorrect == Spec => []WellFormed
<1>1. Inv => WellFormed
  BY DEF Inv, Good, Slots, Refs, WellFormed
<1> QED BY <1>1, InvCorrect, PTL

(* In a class whose constants fit, every operand that cp_find_or_insert     *)
(* handed out, cut to the width of its instruction, still stands for the    *)
(* constant its client asked for.                                           *)
THEOREM OperandsResolveCorrect == Spec => []OperandsResolve
<1>1. ASSUME Inv PROVE OperandsResolve
  <2> SUFFICES ASSUME count # 0, Fits(pool), NEW o \in operands
               PROVE  /\ Cut(o) < count
                      /\ \E k \in 1..Len(pool) :
                           pool[k].index = Cut(o) /\ Meaning(pool, pool[k]) = o.constant
    BY DEF OperandsResolve
  <2>1. count = NextIdx(pool) /\ NextIdx(pool) < IndexLimit /\ NextIdx(pool) \in Nat
    BY <1>1, NextIdxFacts, ModSmall DEF Inv, Good, Fits
  <2>2. /\ o.index \in Nat /\ o.bytes \in {1, 2} /\ (o.bytes = 1 => o.index <= IdxMax)
        /\ Stands(pool, o.index, o.constant)
    BY <1>1 DEF Inv, Operand
  <2>3. PICK k \in 1..Len(pool) :
          pool[k].index = o.index /\ (o.index < IndexLimit => Meaning(pool, pool[k]) = o.constant)
    BY <2>2 DEF Stands
  <2>4. o.index < NextIdx(pool) /\ o.index < IndexLimit
    <3>1. Slots(pool)
      BY <1>1 DEF Inv, Good
    <3>2. pool[k].index < NextIdx(pool)
      BY <3>1, NextIdxFacts
    <3> QED BY <2>1, <2>2, <2>3, <3>2, IndexLimitAssumption
  <2>5. Cut(o) = o.index
    <3>1. o.bytes = 1 => o.index % (IdxMax + 1) = o.index
      BY <2>2, IdxMaxAssumption
    <3> QED BY <2>2, <2>4, <3>1, ModSmall DEF Cut
  <2> QED BY <2>1, <2>3, <2>4, <2>5
<1> QED BY <1>1, InvCorrect, PTL

(* Where clients convert the dots of the names they pass, every call of the *)
(* constant pool's interface is a step of a table that gives each constant  *)
(* one index and never takes it away.                                       *)
THEOREM TableCorrect ==
  ASSUME NoDots
  PROVE  Spec => TableSpec
<1>1. Init => Table!Init
  BY DEF Init, Table!Init, Meanings, InRange
<1>2. ASSUME Inv, Inv', [Next]_vars
      PROVE  [Table!Intern]_Meanings
  <2>1. Extends(pool, pool') /\ Good(pool) /\ Good(pool') /\ Distinct(pool')
    BY <1>2, NextInv DEF Inv, Tidy
  <2>2. Meanings \subseteq Meanings'
    <3> SUFFICES ASSUME NEW k \in InRange
                 PROVE  <<pool[k].index, Meaning(pool, pool[k])>> \in Meanings'
      BY DEF Meanings
    <3>1. k \in 1..Len(pool) /\ pool[k].index < IndexLimit
      BY DEF InRange
    <3>2. k \in 1..Len(pool') /\ pool'[k] = pool[k]
      BY <2>1, <3>1 DEF Extends, Good, Slots
    <3>3. Meaning(pool', pool'[k]) = Meaning(pool, pool[k])
      BY <2>1, <3>1, <3>2, MeaningStable DEF Good
    <3> QED BY <3>1, <3>2, <3>3 DEF Meanings, InRange
  <2>3. Table!OneToOne(Meanings')
    <3> SUFFICES ASSUME NEW j \in InRange', NEW k \in InRange'
                 PROVE  pool'[j].index = pool'[k].index
                        <=> Meaning(pool', pool'[j]) = Meaning(pool', pool'[k])
      BY DEF Table!OneToOne, Meanings
    <3>1. /\ j \in 1..Len(pool') /\ pool'[j].index < IndexLimit
          /\ k \in 1..Len(pool') /\ pool'[k].index < IndexLimit
      BY DEF InRange
    <3> QED BY <2>1, <3>1, IndexUnique DEF Good, Distinct
  <2> QED BY <2>2, <2>3 DEF Table!Intern
<1> QED BY <1>1, <1>2, InvCorrect, PTL DEF Spec, TableSpec, Table!Spec
=============================================================================
