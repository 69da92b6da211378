-------------------------- MODULE Equivalence_proofs --------------------------
(***************************************************************************)
(* Proofs about Equivalence: that merging the lists loses no variable and    *)
(* ties none that the statements do not, that a mismatch of types is        *)
(* reported, and that with at most three lists the merged names are right.  *)
(***************************************************************************)
EXTENDS Equivalence, Induction, TLAPS

USE HashAssumption, GroupsAssumption

-----------------------------------------------------------------------------
(* The values of a fold. *)

(* The greatest element of a set that has one.                              *)
LEMMA MaxIs ==
  ASSUME NEW s, NEW m \in s, \A x \in s : m >= x, s \subseteq Int
  PROVE  Max(s) = m
<1>1. Max(s) \in s /\ \A x \in s : Max(s) >= x
  BY DEF Max
<1> DEFINE x == Max(s)
<1>2. x \in Int /\ m \in Int /\ x >= m /\ m >= x
  BY <1>1
<1> HIDE DEF x
<1>3. x = m
  BY <1>2
<1> QED BY <1>3 DEF x

(* A set of numbers up to n that is not empty has a greatest.               *)
LEMMA MaxIn ==
  ASSUME NEW n \in Nat, NEW s \in SUBSET (1..n), s # {}
  PROVE  Max(s) \in s /\ \A x \in s : Max(s) >= x
<1> DEFINE D == {n - x : x \in s}
<1>1. D \in SUBSET Nat /\ D # {}
  <2>1. \A x \in s : n - x \in Nat OBVIOUS
  <2> QED BY <2>1
<1>2. PICK d \in D : \A y \in D : d <= y
  BY <1>1, Least
<1>3. PICK m \in s : d = n - m
  BY <1>2
<1>4. \A x \in s : m >= x
  <2> TAKE x \in s
  <2>1. n - x \in D OBVIOUS
  <2>2. d <= n - x BY <1>2, <2>1
  <2> QED BY <1>3, <2>2
<1>5. Max(s) = m
  <2>1. s \subseteq Int OBVIOUS
  <2> QED BY <1>4, <2>1, MaxIs
<1> QED BY <1>4, <1>5

(* The table of values that MapThenFoldSet computes for FoldLeft over q, if *)
(* F does the step.                                                         *)
IsFold(it, base, q, F) ==
  \A s \in SUBSET (DOMAIN q) :
    it[s] = IF s = {} THEN base ELSE F[<<it[s \ {Max(s)}], q[Max(s)]>>]

(* There is one for every step F.                                           *)
LEMMA FoldTable ==
  ASSUME NEW A, NEW S, NEW base \in A, NEW q \in Seq(S), NEW F \in [A \X S -> A]
  PROVE  \E it \in [SUBSET (DOMAIN q) -> A] : IsFold(it, base, q, F)
<1> DEFINE Values(it, s) == it[s] = IF s = {} THEN base ELSE F[<<it[s \ {Max(s)}], q[Max(s)]>>]
           Has(n) == \E it \in [SUBSET (1..n) -> A] : \A s \in SUBSET (1..n) : Values(it, s)
           P == {n \in 0..Len(q) : Has(n)}
<1>1. Len(q) \in Nat /\ DOMAIN q = 1..Len(q)
  OBVIOUS
<1>2. 0 \in P
  <2> DEFINE it == [s \in SUBSET (1..0) |-> base]
  <2>1. \A s \in SUBSET (1..0) : s = {}
    OBVIOUS
  <2>2. it \in [SUBSET (1..0) -> A] /\ \A s \in SUBSET (1..0) : Values(it, s)
    BY <2>1
  <2> HIDE DEF Values, it
  <2>3. Has(0)
    BY <2>2
  <2> HIDE DEF Has
  <2>4. 0 \in 0..Len(q)
    BY <1>1
  <2> QED BY <2>3, <2>4
<1>3. ASSUME NEW n \in 1..Len(q), n - 1 \in P PROVE n \in P
  <2>1. PICK it \in [SUBSET (1..(n - 1)) -> A] : \A s \in SUBSET (1..(n - 1)) : Values(it, s)
    BY <1>3
  <2> DEFINE new == [s \in SUBSET (1..n) |-> IF n \in s THEN F[<<it[s \ {n}], q[n]>>] ELSE it[s]]
  <2>2. \A s \in SUBSET (1..n) : s \ {n} \in SUBSET (1..(n - 1))
    BY <1>1
  <2>3. q[n] \in S
    OBVIOUS
  <2>4. \A s \in SUBSET (1..n) : n \notin s => s \in SUBSET (1..(n - 1))
    BY <1>1
  <2>5. new \in [SUBSET (1..n) -> A]
    BY <2>2, <2>3, <2>4
  <2>6. ASSUME NEW s \in SUBSET (1..n) PROVE Values(new, s)
    <3>1. CASE n \in s
      <4>1. Max(s) = n
        <5>1. \A x \in s : n >= x BY <1>1
        <5>2. s \subseteq Int BY <1>1
        <5> QED BY <3>1, <5>1, <5>2, MaxIs
      <4>2. s \ {n} \in SUBSET (1..n) /\ n \notin s \ {n}
        OBVIOUS
      <4>3. new[s \ {n}] = it[s \ {n}]
        BY <4>2
      <4>4. new[s] = F[<<it[s \ {n}], q[n]>>]
        BY <3>1
      <4> QED BY <3>1, <4>1, <4>3, <4>4
    <3>2. CASE n \notin s
      <4>1. s \in SUBSET (1..(n - 1)) /\ new[s] = it[s] /\ Values(it, s)
        BY <2>1, <2>4, <3>2
      <4>2. CASE s = {}
        BY <4>1, <4>2
      <4>3. CASE s # {}
        <5>1. s \ {Max(s)} \in SUBSET (1..n) /\ n \notin s \ {Max(s)}
          BY <3>2
        <5>2. new[s \ {Max(s)}] = it[s \ {Max(s)}]
          BY <5>1
        <5> QED BY <4>1, <5>2
      <4> QED BY <4>2, <4>3
    <3> QED BY <3>1, <3>2
  <2> HIDE DEF Values, new
  <2>7. Has(n)
    BY <2>5, <2>6
  <2> QED BY <2>7, <1>1
<1>4. Len(q) \in P
  <2>1. \A k \in 1..Len(q) : k - 1 \in P => k \in P
    BY <1>3
  <2> HIDE DEF P
  <2>2. \A k \in 0..Len(q) : k \in P
    BY <1>1, <1>2, <2>1, UpTo
  <2> QED BY <1>1, <2>2
<1> QED BY <1>1, <1>4 DEF IsFold

(* The sets that a fold over a sequence of length n goes through.           *)
LEMMA Initial ==
  ASSUME NEW n \in Nat
  PROVE  /\ 1..0 = {} /\ \A k \in 0..n : 1..k \in SUBSET (1..n)
         /\ \A k \in 1..n : 1..k # {} /\ Max(1..k) = k /\ (1..k) \ {k} = 1..(k - 1)
<1>1. ASSUME NEW k \in 1..n PROVE 1..k # {} /\ Max(1..k) = k /\ (1..k) \ {k} = 1..(k - 1)
  <2>1. k \in 1..k /\ 1..k \subseteq Int /\ \A x \in 1..k : k >= x
    OBVIOUS
  <2>2. Max(1..k) = k
    BY <2>1, MaxIs
  <2>3. (1..k) \ {k} = 1..(k - 1)
    OBVIOUS
  <2> QED BY <2>1, <2>2, <2>3
<1>2. ASSUME NEW k \in 0..n PROVE 1..k \in SUBSET (1..n)
  OBVIOUS
<1> QED BY <1>1, <1>2

(* A table that does the steps of F on A, and the values that a fold goes    *)
(* through on its way to v.                                                  *)
Does(fold, A, base, q, F) ==
  /\ fold[{}] = base
  /\ \A s \in SUBSET (DOMAIN q) : s # {} /\ fold[s \ {Max(s)}] \in A =>
       fold[s] = F[<<fold[s \ {Max(s)}], q[Max(s)]>>]
Passes(f, base, q, F, v) ==
  f[0] = base /\ f[Len(q)] = v /\ \A k \in 1..Len(q) : f[k] = F[<<f[k - 1], q[k]>>]

(* The values of a fold one after the other.                                *)
LEMMA FoldSteps ==
  ASSUME NEW A, NEW S, NEW base \in A, NEW q \in Seq(S), NEW F \in [A \X S -> A], NEW fold,
         Does(fold, A, base, q, F)
  PROVE  \E f \in [0..Len(q) -> A] : Passes(f, base, q, F, fold[DOMAIN q])
<1> DEFINE n == Len(q)
           f == [k \in 0..n |-> fold[1..k]]
           P == {k \in 0..n : f[k] \in A}
<1>1. n \in Nat /\ DOMAIN q = 1..n /\ 0 \in 0..n /\ n \in 0..n /\ \A k \in 1..n : q[k] \in S
  OBVIOUS
<1>2. f[0] = base
  BY <1>1, Initial DEF Does
<1>3. f[n] = fold[DOMAIN q]
  BY <1>1
<1> HIDE DEF n
<1>4. ASSUME NEW k \in 1..n, f[k - 1] \in A PROVE f[k] = F[<<f[k - 1], q[k]>>]
  <2>1. k \in 0..n /\ k - 1 \in 0..n
    BY <1>1
  <2>2. 1..k \in SUBSET (DOMAIN q) /\ 1..k # {} /\ Max(1..k) = k /\ (1..k) \ {k} = 1..(k - 1)
    BY <1>1, <2>1, Initial
  <2>3. f[k - 1] = fold[1..(k - 1)] /\ f[k] = fold[1..k]
    BY <2>1
  <2> QED BY <1>4, <2>2, <2>3, ZenonT(60) DEF Does
<1> HIDE DEF f
<1>5. \A k \in 1..n : k - 1 \in P => k \in P
  <2> SUFFICES ASSUME NEW k \in 1..n, f[k - 1] \in A PROVE f[k] \in A /\ k \in 0..n
    OBVIOUS
  <2>1. q[k] \in S /\ k \in 0..n
    BY <1>1
  <2> QED BY <1>4, <2>1
<1>6. 0 \in P
  BY <1>1, <1>2
<1> HIDE DEF P
<1>7. \A k \in 0..n : k \in P
  BY <1>1, <1>5, <1>6, UpTo
<1> USE DEF P
<1>8. \A k \in 0..n : f[k] \in A
  BY <1>7
<1>9. \A k \in 1..n : k - 1 \in 0..n
  BY <1>1
<1>10. f \in [0..n -> A]
  BY <1>8 DEF f
<1> QED BY <1>2, <1>3, <1>4, <1>8, <1>9, <1>10 DEF n, Passes

-----------------------------------------------------------------------------
(* The parts of the state. *)

Node == [name : Names, id : Nat \X Nat]
EqList == [token : Nat, clist : Seq(Node)]
Entry == [ident : Names, variable : Seq(Names)]
Tables == [0..(NumEntries - 1) -> Seq(Entry)]

(* A list of nodes in the list of lists. *)
LEMMA ListTypes ==
  ASSUME NEW l \in Seq(EqList)
  PROVE  \A j \in DOMAIN l : l[j] \in EqList /\ l[j].clist \in Seq(Node) /\ l[j].token \in Nat
<1> TAKE j \in DOMAIN l
<1>1. l[j] \in EqList
  OBVIOUS
<1> QED BY <1>1 DEF EqList

(* The entries of two sequences in a row.                                   *)
LEMMA SetOfJoin ==
  ASSUME NEW S, NEW p \in Seq(S), NEW q \in Seq(S)
  PROVE  p \o q \in Seq(S) /\ (p # <<>> => p \o q # <<>>) /\ ToSet(p \o q) = ToSet(p) \cup ToSet(q)
<1> DEFINE r == p \o q
<1>1. /\ r \in Seq(S) /\ Len(r) = Len(p) + Len(q) /\ Len(p) \in Nat /\ Len(q) \in Nat
      /\ \A i \in 1..Len(p) : r[i] = p[i]
      /\ \A i \in 1..Len(q) : r[Len(p) + i] = q[i]
  OBVIOUS
<1>2. p # <<>> => Len(p) > 0
  OBVIOUS
<1>3. DOMAIN r = 1..Len(r) /\ DOMAIN p = 1..Len(p) /\ DOMAIN q = 1..Len(q)
  BY <1>1
<1> HIDE DEF r
<1>4. \A i \in 1..Len(r) : i \in 1..Len(p) \/ (i - Len(p) \in 1..Len(q) /\ r[i] = q[i - Len(p)])
  <2> TAKE i \in 1..Len(r)
  <2>1. CASE i > Len(p)
    <3>1. i - Len(p) \in 1..Len(q) /\ Len(p) + (i - Len(p)) = i BY <1>1, <2>1
    <3> QED BY <1>1, <3>1
  <2>2. CASE ~ (i > Len(p))
    BY <1>1, <2>2
  <2> QED BY <2>1, <2>2
<1>5. \A i \in 1..Len(p) : i \in 1..Len(r)
  BY <1>1
<1>6. \A i \in 1..Len(q) : Len(p) + i \in 1..Len(r)
  BY <1>1
<1>7. ToSet(r) = ToSet(p) \cup ToSet(q)
  BY <1>1, <1>3, <1>4, <1>5, <1>6 DEF ToSet
<1>8. p # <<>> => r # <<>>
  BY <1>1, <1>2
<1> QED BY <1>1, <1>7, <1>8 DEF r

-----------------------------------------------------------------------------
(* Keep. *)

(* Keep appends the entries at the positions in S one after the other.      *)
Keeps(f, list, S) ==
  /\ f[0] = <<>> /\ Keep(list, S) = f[Len(list)]
  /\ \A k \in 1..Len(list) : f[k] = IF k \in S THEN Append(f[k - 1], list[k]) ELSE f[k - 1]

(* The fold step by step.                                                   *)
LEMMA KeepFold ==
  ASSUME NEW T, NEW list \in Seq(T), NEW S
  PROVE  \E f \in [0..Len(list) -> Seq(T)] : Keeps(f, list, S)
<1> DEFINE n == Len(list)
           q == [i \in DOMAIN list |-> i]
           base == <<>>
           Step(a, x) == IF x \in S THEN Append(a, list[x]) ELSE a
           F == [p \in Seq(T) \X (1..Len(list)) |-> Step(p[1], p[2])]
           G(it) == [s \in SUBSET (DOMAIN q) |->
                      IF s = {} THEN base ELSE Step(it[s \ {Max(s)}], q[Max(s)])]
           fold == CHOOSE it : it = G(it)
<1>1. Keep(list, S) = fold[DOMAIN q]
  BY DEF Keep, FoldLeftDomain, FoldLeft, MapThenFoldSet
<1>2. n \in Nat /\ DOMAIN list = 1..n
  OBVIOUS
<1>3. q \in Seq((1..Len(list))) /\ Len(q) = n /\ DOMAIN q = 1..n /\ \A k \in 1..n : q[k] \in (1..Len(list))
  BY <1>2
<1>4. \A k \in 1..n : q[k] = k
  BY <1>2
<1>5. \A a \in Seq(T), x \in (1..Len(list)) : Step(a, x) \in Seq(T)
  BY <1>2
<1>6. base \in Seq(T)
  OBVIOUS
<1> HIDE DEF Step, q, n, base
<1>7. F \in [Seq(T) \X (1..Len(list)) -> Seq(T)] /\ \A a \in Seq(T), x \in (1..Len(list)) : F[<<a, x>>] = Step(a, x)
  BY <1>5
<1> HIDE DEF F
<1>8. PICK it \in [SUBSET (DOMAIN q) -> Seq(T)] : IsFold(it, base, q, F)
  BY <1>3, <1>6, <1>7, FoldTable
<1>9. it = G(it)
  <2>1. ASSUME NEW s \in SUBSET (DOMAIN q), s # {}
        PROVE  it[s] = Step(it[s \ {Max(s)}], q[Max(s)])
    <3>1. s \in SUBSET (1..n)
      BY <1>3
    <3>2. Max(s) \in 1..n /\ q[Max(s)] \in (1..Len(list))
      BY <1>2, <1>3, <2>1, <3>1, MaxIn
    <3>3. it[s \ {Max(s)}] \in Seq(T)
      BY <1>8
    <3> QED BY <1>7, <1>8, <2>1, <3>2, <3>3 DEF IsFold
  <2> QED BY <1>8, <2>1 DEF IsFold
<1>10. fold = G(fold)
  BY <1>9
<1> HIDE DEF fold
<1>11. Does(fold, Seq(T), base, q, F)
  <2>1. ASSUME NEW s \in SUBSET (DOMAIN q), s # {}, fold[s \ {Max(s)}] \in Seq(T)
        PROVE  fold[s] = F[<<fold[s \ {Max(s)}], q[Max(s)]>>]
    <3>1. s \in SUBSET (1..n)
      BY <1>3
    <3>2. q[Max(s)] \in (1..Len(list))
      BY <1>2, <1>3, <2>1, <3>1, MaxIn
    <3> QED BY <1>7, <1>10, <2>1, <3>2
  <2>2. fold[{}] = base
    BY <1>10
  <2> QED BY <2>1, <2>2 DEF Does
<1>12. PICK f \in [0..Len(q) -> Seq(T)] : Passes(f, base, q, F, fold[DOMAIN q])
  BY <1>3, <1>6, <1>7, <1>11, FoldSteps
<1>13. /\ f \in [0..n -> Seq(T)] /\ f[0] = base /\ f[n] = fold[DOMAIN q]
       /\ \A k \in 1..n : f[k] = F[<<f[k - 1], q[k]>>]
  BY <1>3, <1>12 DEF Passes
<1>14. \A k \in 1..n : f[k] = Step(f[k - 1], k)
  <2> TAKE k \in 1..n
  <2>1. k - 1 \in 0..n
    BY <1>2
  <2>2. f[k - 1] \in Seq(T) /\ q[k] = k /\ q[k] \in (1..Len(list))
    BY <1>3, <1>4, <1>13, <2>1
  <2> QED BY <1>7, <1>13, <2>2
<1> QED BY <1>1, <1>13, <1>14 DEF n, Step, base, Keeps

(* The positions that Keep takes, in their order; nothing is taken out      *)
(* before the first position that is not in S.                              *)
Takes(K, list, S, g) ==
  /\ g \in [1..Len(K) -> 1..Len(list)]
  /\ \A j \in 1..Len(K) : g[j] \in S /\ K[j] = list[g[j]]
  /\ \A i, j \in 1..Len(K) : g[i] = g[j] => i = j
  /\ \A k \in 1..Len(list) : k \in S => \E j \in 1..Len(K) : g[j] = k
  /\ \A m \in 0..Len(list) : (1..m) \subseteq S => m <= Len(K) /\ \A j \in 1..m : g[j] = j

(* Keep takes exactly the entries at the positions in S.                    *)
LEMMA KeepTakes ==
  ASSUME NEW T, NEW list \in Seq(T), NEW S
  PROVE  Keep(list, S) \in Seq(T) /\ \E g : Takes(Keep(list, S), list, S, g)
<1> DEFINE n == Len(list)
           Sized(K, len, k, g) ==
             /\ g \in [1..len -> 1..k] /\ len <= k
             /\ \A j \in 1..len : g[j] \in S /\ K[j] = list[g[j]]
             /\ \A i, j \in 1..len : g[i] = g[j] => i = j
             /\ \A x \in 1..k : x \in S => \E j \in 1..len : g[j] = x
             /\ \A m \in 0..k : (1..m) \subseteq S => m <= len /\ \A j \in 1..m : g[j] = j
           Part(K, k, g) == Sized(K, Len(K), k, g)
<1>0. PICK f \in [0..n -> Seq(T)] : Keeps(f, list, S)
  BY KeepFold
<1>1. /\ f[0] = <<>> /\ Keep(list, S) = f[n]
      /\ \A k \in 1..n : f[k] = IF k \in S THEN Append(f[k - 1], list[k]) ELSE f[k - 1]
  BY <1>0 DEF Keeps
<1>2. n \in Nat /\ \A k \in 1..n : list[k] \in T
  OBVIOUS
<1> DEFINE P == {k \in 0..n : \E g : Part(f[k], k, g)}
<1>3. 0 \in P
  <2> DEFINE g == [j \in 1..0 |-> 0]
  <2>1. f[0] = <<>> /\ Len(f[0]) = 0
    BY <1>1
  <2>2. g \in [1..0 -> 1..0]
    OBVIOUS
  <2>3. Part(f[0], 0, g)
    BY <2>1, <2>2
  <2> HIDE DEF Part, g
  <2> QED BY <1>2, <2>3
<1>4. ASSUME NEW k \in 1..n, k - 1 \in P PROVE k \in P
  <2>0. k \in 0..n /\ k - 1 \in 0..n
    BY <1>2
  <2>1. PICK K \in Seq(T) : K = f[k - 1]
    BY <2>0
  <2>2. PICK L \in Seq(T) : L = f[k]
    BY <2>0
  <2> HIDE DEF Part
  <2>3. PICK g : Part(K, k - 1, g)
    BY <1>4, <2>1
  <2> USE DEF Part
  <2>4. CASE k \notin S
    <3>1. L = K
      BY <1>1, <2>1, <2>2, <2>4
    <3>2. Part(K, k, g)
      <4>1. g \in [1..Len(K) -> 1..k] /\ Len(K) <= k
        BY <2>0, <2>3
      <4>2. \A x \in 1..k : x \in S => \E j \in 1..Len(K) : g[j] = x
        BY <2>0, <2>3, <2>4
      <4>3. \A m \in 0..k : (1..m) \subseteq S => m <= Len(K) /\ \A j \in 1..m : g[j] = j
        <5> SUFFICES ASSUME NEW m \in 0..k, (1..m) \subseteq S
                     PROVE  m <= Len(K) /\ \A j \in 1..m : g[j] = j
          OBVIOUS
        <5>1. m # k
          <6>1. m = k => k \in 1..m BY <2>0
          <6> QED BY <2>4, <6>1
        <5>2. m \in 0..(k - 1)
          BY <2>0, <5>1
        <5> QED BY <2>3, <5>2
      <4> QED BY <2>3, <4>1, <4>2, <4>3
    <3> HIDE DEF Part
    <3> QED BY <2>0, <2>2, <3>1, <3>2
  <2>5. CASE k \in S
    <3> DEFINE len == Len(K)
               h == [j \in 1..(len + 1) |-> IF j = len + 1 THEN k ELSE g[j]]
    <3>1. L = Append(K, list[k])
      BY <1>1, <2>1, <2>2, <2>5
    <3>2. len \in Nat /\ Len(L) = len + 1 /\ L[len + 1] = list[k] /\ \A j \in 1..len : L[j] = K[j]
      BY <1>2, <3>1
    <3> HIDE DEF len
    <3>3. /\ g \in [1..len -> 1..(k - 1)] /\ len <= k - 1
          /\ \A j \in 1..len : g[j] \in S /\ K[j] = list[g[j]]
          /\ \A i, j \in 1..len : g[i] = g[j] => i = j
          /\ \A x \in 1..(k - 1) : x \in S => \E j \in 1..len : g[j] = x
          /\ \A m \in 0..(k - 1) : (1..m) \subseteq S => m <= len /\ \A j \in 1..m : g[j] = j
      BY <2>3 DEF len
    <3>4. /\ DOMAIN h = 1..(len + 1) /\ h[len + 1] = k /\ \A j \in 1..len : h[j] = g[j]
          /\ \A j \in 1..(len + 1) : j = len + 1 \/ j \in 1..len
          /\ \A j \in 1..len : j \in 1..(len + 1) /\ g[j] \in 1..(k - 1)
          /\ len + 1 \in 1..(len + 1)
      BY <3>2, <3>3
    <3>5. h \in [1..(len + 1) -> 1..k]
      BY <2>0, <3>3, <3>4
    <3> HIDE DEF h
    <3>6. \A j \in 1..(len + 1) : h[j] \in S /\ L[j] = list[h[j]]
      BY <2>5, <3>2, <3>3, <3>4
    <3>7. \A i, j \in 1..(len + 1) : h[i] = h[j] => i = j
      <4>1. \A j \in 1..len : h[j] # k
        BY <2>0, <3>4
      <4> QED BY <3>3, <3>4, <4>1
    <3>8. \A x \in 1..k : x \in S => \E j \in 1..(len + 1) : h[j] = x
      <4>1. \A x \in 1..k : x = k \/ x \in 1..(k - 1)
        BY <2>0
      <4> QED BY <3>3, <3>4, <4>1
    <3>9. ASSUME NEW m \in 0..k, (1..m) \subseteq S
          PROVE  m <= len + 1 /\ \A j \in 1..m : h[j] = j
      <4>1. CASE m # k
        <5>1. m \in 0..(k - 1)
          BY <2>0, <4>1
        <5>2. m <= len /\ \A j \in 1..m : g[j] = j
          BY <3>3, <3>9, <5>1
        <5>3. \A j \in 1..m : j \in 1..len
          BY <3>2, <5>1, <5>2
        <5> QED BY <3>2, <3>4, <5>2, <5>3
      <4>2. CASE m = k
        <5>1. k - 1 \in 0..(k - 1) /\ (1..(k - 1)) \subseteq S
          BY <2>0, <3>9, <4>2
        <5>2. k - 1 <= len /\ \A j \in 1..(k - 1) : g[j] = j
          BY <3>3, <5>1
        <5>3. len + 1 = k /\ len + 1 \in Nat
          BY <2>0, <3>2, <3>3, <5>2
        <5>4. \A j \in 1..m : j = len + 1 \/ (j \in 1..(k - 1) /\ j \in 1..len)
          BY <2>0, <3>2, <4>2, <5>3
        <5>5. \A j \in 1..m : h[j] = j
          BY <3>4, <5>2, <5>3, <5>4
        <5> QED BY <4>2, <5>3, <5>5
      <4> QED BY <4>1, <4>2
    <3>10. len + 1 <= k
      BY <2>0, <3>2, <3>3
    <3>11. Part(L, k, h)
      <4>1. \A m \in 0..k : (1..m) \subseteq S => m <= len + 1 /\ \A j \in 1..m : h[j] = j
        BY <3>9
      <4>2. Sized(L, len + 1, k, h)
        BY <3>5, <3>6, <3>7, <3>8, <3>10, <4>1
      <4> HIDE DEF Sized
      <4> QED BY <3>2, <4>2
    <3> HIDE DEF Part
    <3> QED BY <2>0, <2>2, <3>11
  <2> QED BY <2>4, <2>5
<1> HIDE DEF P
<1>5. n \in P
  <2>1. \A k \in 0..n : k \in P
    BY <1>2, <1>3, <1>4, UpTo
  <2> QED BY <1>2, <2>1
<1>6. PICK g : Part(f[n], n, g)
  BY <1>5 DEF P
<1>7. f[n] \in Seq(T)
  <2>1. n \in 0..n BY <1>2
  <2> QED BY <2>1
<1>8. Takes(f[n], list, S, g)
  BY <1>6 DEF Takes
<1> QED BY <1>1, <1>7, <1>8

(* The nodes that removing the others of a name leaves: no name is lost.    *)
LEMMA OthersRemoved ==
  ASSUME NEW list \in Seq(Node), NEW node \in Node
  PROVE  /\ RemoveOthers(list, node) \in Seq(Node)
         /\ list # <<>> => RemoveOthers(list, node) # <<>>
         /\ ToSet(RemoveOthers(list, node)) \subseteq ToSet(list)
         /\ node \in ToSet(list) => NamesIn(RemoveOthers(list, node)) = NamesIn(list)
<1> DEFINE Other(q) == list[q].name = node.name /\ list[q] # node
           Start(q) == CHOOSE s \in 2..q : (\A r \in s..q : Other(r)) /\ (s = 2 \/ ~ Other(s - 1))
           S == {q \in DOMAIN list : q = 1 \/ ~ Other(q) \/ (q - Start(q)) % 2 = 1}
           K == RemoveOthers(list, node)
<1>1. K = Keep(list, S)
  BY DEF RemoveOthers
<1>2. S \subseteq DOMAIN list /\ \A q \in DOMAIN list : q = 1 \/ ~ Other(q) => q \in S
  OBVIOUS
<1> HIDE DEF S, K, Other
<1>3. DOMAIN list = 1..Len(list) /\ Len(list) \in Nat /\ \A q \in DOMAIN list : list[q] \in Node
  OBVIOUS
<1>4. K \in Seq(Node)
  BY <1>1, KeepTakes
<1>5. PICK g : Takes(K, list, S, g)
  BY <1>1, KeepTakes
<1>6. DOMAIN K = 1..Len(K) /\ Len(K) \in Nat
  BY <1>4
<1>7. /\ \A j \in DOMAIN K : g[j] \in DOMAIN list /\ K[j] = list[g[j]]
      /\ \A q \in S : \E j \in DOMAIN K : K[j] = list[q]
  <2>1. \A j \in 1..Len(K) : g[j] \in 1..Len(list) /\ K[j] = list[g[j]]
    BY <1>5 DEF Takes
  <2>2. \A q \in S : \E j \in 1..Len(K) : g[j] = q
    BY <1>2, <1>3, <1>5 DEF Takes
  <2> QED BY <1>3, <1>6, <2>1, <2>2
<1>8. ASSUME list # <<>> PROVE K # <<>>
  <2>1. 1 \in DOMAIN list
    BY <1>3, <1>8
  <2>2. \E j \in DOMAIN K : TRUE
    BY <1>2, <1>7, <2>1
  <2> QED BY <1>6, <2>2
<1>9. ToSet(K) \subseteq ToSet(list)
  BY <1>7 DEF ToSet
<1>10. ASSUME node \in ToSet(list) PROVE NamesIn(K) = NamesIn(list)
  <2>1. NamesIn(K) \subseteq NamesIn(list)
    BY <1>7 DEF NamesIn
  <2>2. ASSUME NEW q \in DOMAIN list PROVE \E j \in DOMAIN K : K[j].name = list[q].name
    <3>1. CASE q \in S
      BY <1>7, <3>1
    <3>2. CASE q \notin S
      <4>1. list[q].name = node.name
        BY <1>2, <3>2 DEF Other
      <4>2. PICK p \in DOMAIN list : list[p] = node
        BY <1>10 DEF ToSet
      <4>3. p \in S
        BY <1>2, <4>2 DEF Other
      <4> QED BY <1>7, <4>1, <4>2, <4>3
    <3> QED BY <3>1, <3>2
  <2> QED BY <2>1, <2>2 DEF NamesIn
<1> QED BY <1>4, <1>8, <1>9, <1>10 DEF K

(* remove_duplicates deals with one node after the other.                   *)
Clears(f, list) ==
  /\ f[0] = list /\ RemoveDuplicates(list) = f[Len(list)]
  /\ \A k \in 1..Len(list) : f[k] = IF list[k] \in ToSet(f[k - 1]) THEN RemoveOthers(f[k - 1], list[k])
                                                                  ELSE f[k - 1]

(* The fold step by step.                                                   *)
LEMMA DuplicatesFold ==
  ASSUME NEW list \in Seq(Node)
  PROVE  \E f \in [0..Len(list) -> Seq(Node)] : Clears(f, list)
<1> DEFINE n == Len(list)
           q == list
           base == list
           Step(a, x) == IF x \in ToSet(a) THEN RemoveOthers(a, x) ELSE a
           F == [p \in Seq(Node) \X Node |-> Step(p[1], p[2])]
           G(it) == [s \in SUBSET (DOMAIN q) |->
                      IF s = {} THEN base ELSE Step(it[s \ {Max(s)}], q[Max(s)])]
           fold == CHOOSE it : it = G(it)
<1>1. RemoveDuplicates(list) = fold[DOMAIN q]
  BY DEF RemoveDuplicates, FoldLeft, MapThenFoldSet
<1>2. n \in Nat /\ DOMAIN list = 1..n
  OBVIOUS
<1>3. q \in Seq(Node) /\ Len(q) = n /\ DOMAIN q = 1..n /\ \A k \in 1..n : q[k] \in Node
  BY <1>2
<1>4. \A k \in 1..n : q[k] = list[k]
  BY <1>2
<1>5. \A a \in Seq(Node), x \in Node : Step(a, x) \in Seq(Node)
  BY OthersRemoved
<1>6. base \in Seq(Node)
  OBVIOUS
<1> HIDE DEF Step, q, n, base
<1>7. F \in [Seq(Node) \X Node -> Seq(Node)] /\ \A a \in Seq(Node), x \in Node : F[<<a, x>>] = Step(a, x)
  BY <1>5
<1> HIDE DEF F
<1>8. PICK it \in [SUBSET (DOMAIN q) -> Seq(Node)] : IsFold(it, base, q, F)
  BY <1>3, <1>6, <1>7, FoldTable
<1>9. it = G(it)
  <2>1. ASSUME NEW s \in SUBSET (DOMAIN q), s # {}
        PROVE  it[s] = Step(it[s \ {Max(s)}], q[Max(s)])
    <3>1. s \in SUBSET (1..n)
      BY <1>3
    <3>2. Max(s) \in 1..n /\ q[Max(s)] \in Node
      BY <1>2, <1>3, <2>1, <3>1, MaxIn
    <3>3. it[s \ {Max(s)}] \in Seq(Node)
      BY <1>8
    <3> QED BY <1>7, <1>8, <2>1, <3>2, <3>3 DEF IsFold
  <2> QED BY <1>8, <2>1 DEF IsFold
<1>10. fold = G(fold)
  BY <1>9
<1> HIDE DEF fold
<1>11. Does(fold, Seq(Node), base, q, F)
  <2>1. ASSUME NEW s \in SUBSET (DOMAIN q), s # {}, fold[s \ {Max(s)}] \in Seq(Node)
        PROVE  fold[s] = F[<<fold[s \ {Max(s)}], q[Max(s)]>>]
    <3>1. s \in SUBSET (1..n)
      BY <1>3
    <3>2. q[Max(s)] \in Node
      BY <1>2, <1>3, <2>1, <3>1, MaxIn
    <3> QED BY <1>7, <1>10, <2>1, <3>2
  <2>2. fold[{}] = base
    BY <1>10
  <2> QED BY <2>1, <2>2 DEF Does
<1>12. PICK f \in [0..Len(q) -> Seq(Node)] : Passes(f, base, q, F, fold[DOMAIN q])
  BY <1>3, <1>6, <1>7, <1>11, FoldSteps
<1>13. /\ f \in [0..n -> Seq(Node)] /\ f[0] = base /\ f[n] = fold[DOMAIN q]
       /\ \A k \in 1..n : f[k] = F[<<f[k - 1], q[k]>>]
  BY <1>3, <1>12 DEF Passes
<1>14. \A k \in 1..n : f[k] = Step(f[k - 1], list[k])
  <2> TAKE k \in 1..n
  <2>1. k - 1 \in 0..n
    BY <1>2
  <2>2. f[k - 1] \in Seq(Node) /\ q[k] = list[k] /\ q[k] \in Node
    BY <1>3, <1>4, <1>13, <2>1
  <2> QED BY <1>7, <1>13, <2>2
<1> QED BY <1>1, <1>13, <1>14 DEF n, Step, base, Clears

(* remove_duplicates loses no name and makes no node.                       *)
LEMMA DuplicatesRemoved ==
  ASSUME NEW list \in Seq(Node)
  PROVE  /\ RemoveDuplicates(list) \in Seq(Node)
         /\ list # <<>> => RemoveDuplicates(list) # <<>>
         /\ ToSet(RemoveDuplicates(list)) \subseteq ToSet(list)
         /\ NamesIn(RemoveDuplicates(list)) = NamesIn(list)
<1> DEFINE n == Len(list)
           Good(K) == /\ K \in Seq(Node) /\ (list # <<>> => K # <<>>)
                      /\ ToSet(K) \subseteq ToSet(list) /\ NamesIn(K) = NamesIn(list)
<1>1. PICK f \in [0..n -> Seq(Node)] : Clears(f, list)
  BY DuplicatesFold
<1>2. n \in Nat /\ \A k \in 1..n : list[k] \in Node
  OBVIOUS
<1> DEFINE P == {k \in 0..n : Good(f[k])}
<1>3. 0 \in P
  BY <1>1, <1>2 DEF Clears
<1>4. ASSUME NEW k \in 1..n, k - 1 \in P PROVE k \in P
  <2>0. k \in 0..n /\ k - 1 \in 0..n
    BY <1>2
  <2>1. Good(f[k - 1])
    BY <1>4
  <2>2. f[k] = IF list[k] \in ToSet(f[k - 1]) THEN RemoveOthers(f[k - 1], list[k]) ELSE f[k - 1]
    BY <1>1 DEF Clears
  <2>3. CASE list[k] \in ToSet(f[k - 1])
    <3>1. /\ f[k] \in Seq(Node) /\ (f[k - 1] # <<>> => f[k] # <<>>)
          /\ ToSet(f[k]) \subseteq ToSet(f[k - 1]) /\ NamesIn(f[k]) = NamesIn(f[k - 1])
      BY <1>2, <2>1, <2>2, <2>3, OthersRemoved
    <3>2. Good(f[k])
      BY <2>1, <3>1
    <3> QED BY <2>0, <3>2
  <2>4. CASE list[k] \notin ToSet(f[k - 1])
    BY <2>0, <2>1, <2>2, <2>4
  <2> QED BY <2>3, <2>4
<1> HIDE DEF P
<1>5. n \in P
  <2>1. \A k \in 0..n : k \in P
    BY <1>2, <1>3, <1>4, UpTo
  <2> QED BY <1>2, <2>1
<1> QED BY <1>1, <1>5 DEF P, Clears

(* The lists that Merge joins, one after the other.                         *)
Joins(f) ==
  /\ f[0] = equivList[temp].clist /\ Joined = f[Len(equivList)]
  /\ \A k \in 1..Len(equivList) : f[k] = IF Mergeable(k) THEN f[k - 1] \o equivList[k].clist ELSE f[k - 1]

(* The fold step by step.                                                   *)
LEMMA JoinedFold ==
  ASSUME equivList \in Seq(EqList), temp \in DOMAIN equivList
  PROVE  \E f \in [0..Len(equivList) -> Seq(Node)] : Joins(f)
<1> DEFINE n == Len(equivList)
           q == [i \in DOMAIN equivList |-> i]
           base == equivList[temp].clist
           Step(a, x) == IF Mergeable(x) THEN a \o equivList[x].clist ELSE a
           F == [p \in Seq(Node) \X (1..Len(equivList)) |-> Step(p[1], p[2])]
           G(it) == [s \in SUBSET (DOMAIN q) |->
                      IF s = {} THEN base ELSE Step(it[s \ {Max(s)}], q[Max(s)])]
           fold == CHOOSE it : it = G(it)
<1>1. Joined = fold[DOMAIN q]
  BY DEF Joined, FoldLeftDomain, FoldLeft, MapThenFoldSet
<1>2. n \in Nat /\ DOMAIN equivList = 1..n
  OBVIOUS
<1>3. q \in Seq((1..Len(equivList))) /\ Len(q) = n /\ DOMAIN q = 1..n /\ \A k \in 1..n : q[k] \in (1..Len(equivList))
  BY <1>2
<1>4. \A k \in 1..n : q[k] = k
  BY <1>2
<1>5. \A a \in Seq(Node), x \in (1..Len(equivList)) : Step(a, x) \in Seq(Node)
  <2>1. \A x \in 1..n : equivList[x].clist \in Seq(Node)
    BY <1>2, ListTypes
  <2> QED BY <2>1
<1>6. base \in Seq(Node)
  BY ListTypes
<1> HIDE DEF Step, q, n, base
<1>7. F \in [Seq(Node) \X (1..Len(equivList)) -> Seq(Node)] /\ \A a \in Seq(Node), x \in (1..Len(equivList)) : F[<<a, x>>] = Step(a, x)
  BY <1>5
<1> HIDE DEF F
<1>8. PICK it \in [SUBSET (DOMAIN q) -> Seq(Node)] : IsFold(it, base, q, F)
  BY <1>3, <1>6, <1>7, FoldTable
<1>9. it = G(it)
  <2>1. ASSUME NEW s \in SUBSET (DOMAIN q), s # {}
        PROVE  it[s] = Step(it[s \ {Max(s)}], q[Max(s)])
    <3>1. s \in SUBSET (1..n)
      BY <1>3
    <3>2. Max(s) \in 1..n /\ q[Max(s)] \in (1..Len(equivList))
      BY <1>2, <1>3, <2>1, <3>1, MaxIn
    <3>3. it[s \ {Max(s)}] \in Seq(Node)
      BY <1>8
    <3> QED BY <1>7, <1>8, <2>1, <3>2, <3>3 DEF IsFold
  <2> QED BY <1>8, <2>1 DEF IsFold
<1>10. fold = G(fold)
  BY <1>9
<1> HIDE DEF fold
<1>11. Does(fold, Seq(Node), base, q, F)
  <2>1. ASSUME NEW s \in SUBSET (DOMAIN q), s # {}, fold[s \ {Max(s)}] \in Seq(Node)
        PROVE  fold[s] = F[<<fold[s \ {Max(s)}], q[Max(s)]>>]
    <3>1. s \in SUBSET (1..n)
      BY <1>3
    <3>2. q[Max(s)] \in (1..Len(equivList))
      BY <1>2, <1>3, <2>1, <3>1, MaxIn
    <3> QED BY <1>7, <1>10, <2>1, <3>2
  <2>2. fold[{}] = base
    BY <1>10
  <2> QED BY <2>1, <2>2 DEF Does
<1>12. PICK f \in [0..Len(q) -> Seq(Node)] : Passes(f, base, q, F, fold[DOMAIN q])
  BY <1>3, <1>6, <1>7, <1>11, FoldSteps
<1>13. /\ f \in [0..n -> Seq(Node)] /\ f[0] = base /\ f[n] = fold[DOMAIN q]
       /\ \A k \in 1..n : f[k] = F[<<f[k - 1], q[k]>>]
  BY <1>3, <1>12 DEF Passes
<1>14. \A k \in 1..n : f[k] = Step(f[k - 1], k)
  <2> TAKE k \in 1..n
  <2>1. k - 1 \in 0..n
    BY <1>2
  <2>2. f[k - 1] \in Seq(Node) /\ q[k] = k /\ q[k] \in (1..Len(equivList))
    BY <1>3, <1>4, <1>13, <2>1
  <2> QED BY <1>7, <1>13, <2>2
<1> QED BY <1>1, <1>13, <1>14 DEF n, Step, base, Joins

(* The nodes of the first list and those of the lists that are joined to it. *)
LEMMA JoinedFacts ==
  ASSUME equivList \in Seq(EqList), temp \in DOMAIN equivList, equivList[temp].clist # <<>>
  PROVE  /\ Joined \in Seq(Node) /\ Joined # <<>>
         /\ \A x : x \in ToSet(Joined) <=>
              \E j \in DOMAIN equivList : (j = temp \/ Mergeable(j)) /\ x \in ToSet(equivList[j].clist)
<1> DEFINE n == Len(equivList)
           first == equivList[temp].clist
           Has(K, k) == \A x : x \in ToSet(K) <=>
                          \/ x \in ToSet(first)
                          \/ \E j \in 1..k : Mergeable(j) /\ x \in ToSet(equivList[j].clist)
           Good(K, k) == K \in Seq(Node) /\ K # <<>> /\ Has(K, k)
<1>1. PICK f \in [0..n -> Seq(Node)] : Joins(f)
  BY JoinedFold
<1>2. n \in Nat /\ DOMAIN equivList = 1..n
  OBVIOUS
<1>3. first \in Seq(Node) /\ first # <<>> /\ \A j \in 1..n : equivList[j].clist \in Seq(Node)
  BY <1>2, ListTypes
<1> DEFINE P == {k \in 0..n : Good(f[k], k)}
<1>4. 0 \in P
  <2>1. f[0] = first /\ 0 \in 0..n
    BY <1>1, <1>2 DEF Joins
  <2>2. Has(first, 0)
    OBVIOUS
  <2> HIDE DEF Has
  <2> QED BY <1>3, <2>1, <2>2
<1>5. ASSUME NEW k \in 1..n, k - 1 \in P PROVE k \in P
  <2>0. k \in 0..n /\ k - 1 \in 0..n
    BY <1>2
  <2>1. Good(f[k - 1], k - 1)
    BY <1>5
  <2>2. f[k] = IF Mergeable(k) THEN f[k - 1] \o equivList[k].clist ELSE f[k - 1]
    BY <1>1 DEF Joins
  <2>3. \A j : j \in 1..k <=> (j = k \/ j \in 1..(k - 1))
    BY <2>0
  <2>4. CASE Mergeable(k)
    <3>1. PICK K \in Seq(Node) : K = f[k - 1]
      BY <2>1
    <3>2. PICK L \in Seq(Node) : L = equivList[k].clist
      BY <1>3
    <3>3. f[k] = K \o L
      BY <2>2, <2>4, <3>1, <3>2
    <3>4. K \o L \in Seq(Node) /\ (K # <<>> => K \o L # <<>>) /\ ToSet(K \o L) = ToSet(K) \cup ToSet(L)
      BY SetOfJoin
    <3>5. Has(K \o L, k)
      BY <2>1, <2>3, <2>4, <3>1, <3>2, <3>4
    <3> HIDE DEF Has
    <3> QED BY <2>0, <2>1, <3>1, <3>3, <3>4, <3>5
  <2>5. CASE ~ Mergeable(k)
    <3>1. Has(f[k - 1], k)
      BY <2>1, <2>3, <2>5
    <3> HIDE DEF Has
    <3> QED BY <2>0, <2>1, <2>2, <2>5, <3>1
  <2> QED BY <2>4, <2>5
<1> HIDE DEF P
<1>6. n \in P
  <2>1. \A k \in 0..n : k \in P
    BY <1>2, <1>4, <1>5, UpTo
  <2> QED BY <1>2, <2>1
<1>7. Good(Joined, n)
  BY <1>1, <1>6 DEF P, Joins
<1> QED BY <1>2, <1>7

-----------------------------------------------------------------------------
(* The table of merged names. *)

Slot(n) == Hash(n) % NumEntries
Found(t, n) == \E k \in DOMAIN t[Slot(n)] : t[Slot(n)][k].ident = n
Lookup(t, n) == Table!TypeLookup(t, n)

(* HASH(tag) % num_entries is an index of the table.                        *)
LEMMA SlotType == \A n \in Names : Slot(n) \in 0..(NumEntries - 1)
<1> TAKE n \in Names
<1>1. PICK h \in Nat : h = Hash(n)
  OBVIOUS
<1>2. PICK N \in Nat \ {0} : N = NumEntries
  OBVIOUS
<1>3. h % N \in 0..(N - 1)
  OBVIOUS
<1> QED BY <1>1, <1>2, <1>3 DEF Slot

(* search_hashlist finds the first entry of a name.                         *)
LEMMA SearchIs ==
  ASSUME NEW list \in Seq(Entry), NEW n, NEW k \in DOMAIN list,
         list[k].ident = n, \A m \in 1..(k - 1) : list[m].ident # n
  PROVE  Table!SearchHashlist(list, n) = list[k]
<1> DEFINE First(x) == list[x].ident = n /\ \A m \in 1..(x - 1) : list[m].ident # n
           c == CHOOSE x \in DOMAIN list : First(x)
<1>1. DOMAIN list = 1..Len(list) /\ Len(list) \in Nat
  OBVIOUS
<1>2. First(k)
  OBVIOUS
<1>3. c \in DOMAIN list /\ First(c)
  BY <1>2
<1>4. Table!SearchHashlist(list, n) = list[c]
  BY DEF Table!SearchHashlist
<1> HIDE DEF c
<1>5. c = k
  <2>1. ~ (k \in 1..(c - 1)) /\ ~ (c \in 1..(k - 1))
    BY <1>2, <1>3
  <2> QED BY <1>1, <1>3, <2>1
<1> QED BY <1>4, <1>5

(* A name that a list has is first somewhere.                               *)
LEMMA FirstEntry ==
  ASSUME NEW list \in Seq(Entry), NEW n, NEW x \in DOMAIN list, list[x].ident = n
  PROVE  \E k \in DOMAIN list : list[k].ident = n /\ \A m \in 1..(k - 1) : list[m].ident # n
<1> DEFINE B == {k \in DOMAIN list : list[k].ident = n}
<1>1. DOMAIN list = 1..Len(list) /\ Len(list) \in Nat
  OBVIOUS
<1>2. B \in SUBSET Nat /\ B # {}
  BY <1>1
<1>3. PICK k \in B : \A m \in B : k <= m
  BY <1>2, Least
<1>4. \A m \in 1..(k - 1) : m \in DOMAIN list /\ ~ (k <= m)
  BY <1>1, <1>3
<1> QED BY <1>3, <1>4

(* type_insert: the table has the new entry before those of the same name.  *)
LEMMA InsertTypes ==
  ASSUME NEW t \in Tables, NEW node \in Node, NEW name \in Seq(Names)
  PROVE  Table!TypeInsert(t, node.name, name) \in Tables
<1>1. [ident |-> node.name, variable |-> name] \in Entry
  BY DEF Node, Entry
<1>2. node.name \in Names
  BY DEF Node
<1>3. t[Slot(node.name)] \in Seq(Entry)
  BY <1>2, SlotType DEF Tables
<1>4. <<[ident |-> node.name, variable |-> name]>> \o t[Slot(node.name)] \in Seq(Entry)
  BY <1>1, <1>3
<1> QED BY <1>4 DEF Table!TypeInsert, Slot, Tables

(* The name inserted is found with its variable, the others as before.      *)
LEMMA InsertOne ==
  ASSUME NEW t \in Tables, NEW node \in Node, NEW name \in Seq(Names), NEW n \in Names,
         NEW u, u = Table!TypeInsert(t, node.name, name)
  PROVE  /\ n = node.name => Found(u, n) /\ Lookup(u, n) = name
         /\ n # node.name /\ Found(t, n) => Found(u, n) /\ Lookup(u, n) = Lookup(t, n)
<1>1. PICK e \in Entry : e = [ident |-> node.name, variable |-> name]
  BY DEF Node, Entry
<1>2. node.name \in Names
  BY DEF Node
<1>3. PICK old \in Seq(Entry) : old = t[Slot(n)]
  BY SlotType DEF Tables
<1>4. u \in Tables
  BY InsertTypes
<1>5. PICK new \in Seq(Entry) : new = u[Slot(n)]
  BY <1>4, SlotType DEF Tables
<1>6. Slot(n) = Slot(node.name) => new = <<e>> \o old
  BY <1>1, <1>2, <1>3, <1>5, SlotType DEF Table!TypeInsert, Slot, Tables
<1>7. Slot(n) # Slot(node.name) => new = old
  BY <1>1, <1>2, <1>3, <1>5, SlotType DEF Table!TypeInsert, Slot, Tables
<1>8. Lookup(u, n) = Table!SearchHashlist(new, n).variable /\ Lookup(t, n) = Table!SearchHashlist(old, n).variable
  BY <1>3, <1>5 DEF Lookup, Table!TypeLookup, Slot
<1>9. new = <<e>> \o old => /\ Len(new) = Len(old) + 1 /\ new[1] = e
                            /\ \A k \in 1..Len(old) : new[k + 1] = old[k]
  OBVIOUS
<1>10. /\ DOMAIN old = 1..Len(old) /\ Len(old) \in Nat /\ DOMAIN new = 1..Len(new) /\ Len(new) \in Nat
  OBVIOUS
<1>11. ASSUME n = node.name PROVE Found(u, n) /\ Lookup(u, n) = name
  <2>1. new = <<e>> \o old
    BY <1>6, <1>11
  <2>2. 1 \in DOMAIN new /\ new[1] = e /\ e.ident = n /\ e.variable = name
    BY <1>1, <1>9, <1>10, <1>11, <2>1
  <2>3. Table!SearchHashlist(new, n) = new[1]
    BY <2>2, SearchIs
  <2> QED BY <1>5, <1>8, <2>2, <2>3 DEF Found
<1>12. ASSUME n # node.name, Found(t, n) PROVE Found(u, n) /\ Lookup(u, n) = Lookup(t, n)
  <2>1. PICK k \in DOMAIN old : old[k].ident = n /\ \A m \in 1..(k - 1) : old[m].ident # n
    BY <1>3, <1>12, FirstEntry DEF Found
  <2>2. Table!SearchHashlist(old, n) = old[k]
    BY <2>1, SearchIs
  <2>3. CASE Slot(n) # Slot(node.name)
    BY <1>3, <1>5, <1>7, <1>8, <1>12, <2>3 DEF Found
  <2>4. CASE Slot(n) = Slot(node.name)
    <3>1. new = <<e>> \o old
      BY <1>6, <2>4
    <3>2. k + 1 \in DOMAIN new /\ new[k + 1] = old[k]
      BY <1>9, <1>10, <2>1, <3>1
    <3>3. new[1].ident # n
      BY <1>1, <1>9, <1>12, <3>1
    <3>4. \A m \in 1..((k + 1) - 1) : new[m].ident # n
      <4> TAKE m \in 1..((k + 1) - 1)
      <4>1. CASE m = 1
        BY <3>3, <4>1
      <4>2. CASE m # 1
        <5>1. m - 1 \in 1..(k - 1) /\ m - 1 \in 1..Len(old) /\ (m - 1) + 1 = m
          BY <1>10, <2>1, <4>2
        <5>2. new[m] = old[m - 1]
          BY <1>9, <3>1, <5>1
        <5> QED BY <2>1, <5>1, <5>2
      <4> QED BY <4>1, <4>2
    <3>5. Table!SearchHashlist(new, n) = new[k + 1]
      <4>1. PICK x \in DOMAIN new : x = k + 1
        BY <3>2
      <4>2. new[x].ident = n /\ \A m \in 1..(x - 1) : new[m].ident # n
        BY <2>1, <3>2, <3>4, <4>1
      <4>3. Table!SearchHashlist(new, n) = new[x]
        BY <4>2, SearchIs
      <4> QED BY <4>1, <4>3
    <3> QED BY <1>5, <1>8, <2>1, <2>2, <3>2, <3>5 DEF Found
  <2> QED BY <2>3, <2>4
<1> QED BY <1>11, <1>12

(* insertEquivalences inserts the names of a list one after the other.      *)
InsertAll(t, list, name) == FoldLeft(LAMBDA u, node : Table!TypeInsert(u, node.name, name), t, list)
Inserts(f, t, list, name) ==
  /\ f[0] = t /\ InsertAll(t, list, name) = f[Len(list)]
  /\ \A k \in 1..Len(list) : f[k] = Table!TypeInsert(f[k - 1], list[k].name, name)

(* The fold step by step.                                                   *)
LEMMA InsertFold ==
  ASSUME NEW t \in Tables, NEW list \in Seq(Node), NEW name \in Seq(Names)
  PROVE  \E f \in [0..Len(list) -> Tables] : Inserts(f, t, list, name)
<1> DEFINE n == Len(list)
           q == list
           base == t
           Step(a, x) == Table!TypeInsert(a, x.name, name)
           F == [p \in Tables \X Node |-> Step(p[1], p[2])]
           G(it) == [s \in SUBSET (DOMAIN q) |->
                      IF s = {} THEN base ELSE Step(it[s \ {Max(s)}], q[Max(s)])]
           fold == CHOOSE it : it = G(it)
<1>1. InsertAll(t, list, name) = fold[DOMAIN q]
  BY DEF InsertAll, FoldLeft, MapThenFoldSet
<1>2. n \in Nat /\ DOMAIN list = 1..n
  OBVIOUS
<1>3. q \in Seq(Node) /\ Len(q) = n /\ DOMAIN q = 1..n /\ \A k \in 1..n : q[k] \in Node
  BY <1>2
<1>4. \A k \in 1..n : q[k] = list[k]
  BY <1>2
<1>5. \A a \in Tables, x \in Node : Step(a, x) \in Tables
  BY InsertTypes
<1>6. base \in Tables
  OBVIOUS
<1> HIDE DEF Step, q, n, base
<1>7. F \in [Tables \X Node -> Tables] /\ \A a \in Tables, x \in Node : F[<<a, x>>] = Step(a, x)
  BY <1>5
<1> HIDE DEF F
<1>8. PICK it \in [SUBSET (DOMAIN q) -> Tables] : IsFold(it, base, q, F)
  BY <1>3, <1>6, <1>7, FoldTable
<1>9. it = G(it)
  <2>1. ASSUME NEW s \in SUBSET (DOMAIN q), s # {}
        PROVE  it[s] = Step(it[s \ {Max(s)}], q[Max(s)])
    <3>1. s \in SUBSET (1..n)
      BY <1>3
    <3>2. Max(s) \in 1..n /\ q[Max(s)] \in Node
      BY <1>2, <1>3, <2>1, <3>1, MaxIn
    <3>3. it[s \ {Max(s)}] \in Tables
      BY <1>8
    <3> QED BY <1>7, <1>8, <2>1, <3>2, <3>3 DEF IsFold
  <2> QED BY <1>8, <2>1 DEF IsFold
<1>10. fold = G(fold)
  BY <1>9
<1> HIDE DEF fold
<1>11. Does(fold, Tables, base, q, F)
  <2>1. ASSUME NEW s \in SUBSET (DOMAIN q), s # {}, fold[s \ {Max(s)}] \in Tables
        PROVE  fold[s] = F[<<fold[s \ {Max(s)}], q[Max(s)]>>]
    <3>1. s \in SUBSET (1..n)
      BY <1>3
    <3>2. q[Max(s)] \in Node
      BY <1>2, <1>3, <2>1, <3>1, MaxIn
    <3> QED BY <1>7, <1>10, <2>1, <3>2
  <2>2. fold[{}] = base
    BY <1>10
  <2> QED BY <2>1, <2>2 DEF Does
<1>12. PICK f \in [0..Len(q) -> Tables] : Passes(f, base, q, F, fold[DOMAIN q])
  BY <1>3, <1>6, <1>7, <1>11, FoldSteps
<1>13. /\ f \in [0..n -> Tables] /\ f[0] = base /\ f[n] = fold[DOMAIN q]
       /\ \A k \in 1..n : f[k] = F[<<f[k - 1], q[k]>>]
  BY <1>3, <1>12 DEF Passes
<1>14. \A k \in 1..n : f[k] = Step(f[k - 1], list[k])
  <2> TAKE k \in 1..n
  <2>1. k - 1 \in 0..n
    BY <1>2
  <2>2. f[k - 1] \in Tables /\ q[k] = list[k] /\ q[k] \in Node
    BY <1>3, <1>4, <1>13, <2>1
  <2> QED BY <1>7, <1>13, <2>2
<1> QED BY <1>1, <1>13, <1>14 DEF n, Step, base, Inserts

(* After that the names of the list are found with the merged name, and the *)
(* others as before.                                                        *)
LEMMA InsertFacts ==
  ASSUME NEW t \in Tables, NEW list \in Seq(Node), NEW name \in Seq(Names)
  PROVE  /\ InsertAll(t, list, name) \in Tables
         /\ \A n \in NamesIn(list) : Found(InsertAll(t, list, name), n) /\ Lookup(InsertAll(t, list, name), n) = name
         /\ \A n \in Names \ NamesIn(list) : Found(t, n) =>
              Found(InsertAll(t, list, name), n) /\ Lookup(InsertAll(t, list, name), n) = Lookup(t, n)
<1> DEFINE len == Len(list)
           Part(k) == {list[j].name : j \in 1..k}
           Good(u, k) == /\ u \in Tables
                         /\ \A n \in Part(k) : Found(u, n) /\ Lookup(u, n) = name
                         /\ \A n \in Names \ Part(k) : Found(t, n) => Found(u, n) /\ Lookup(u, n) = Lookup(t, n)
<1>1. PICK f \in [0..len -> Tables] : Inserts(f, t, list, name)
  BY InsertFold
<1>2. len \in Nat /\ \A k \in 1..len : list[k] \in Node /\ list[k].name \in Names
  <2>1. len \in Nat /\ \A k \in 1..len : list[k] \in Node
    OBVIOUS
  <2>2. \A x \in Node : x.name \in Names
    BY DEF Node
  <2> QED BY <2>1, <2>2
<1> DEFINE P == {k \in 0..len : Good(f[k], k)}
<1>3. 0 \in P
  <2>1. f[0] = t /\ 0 \in 0..len /\ Part(0) = {}
    BY <1>1, <1>2 DEF Inserts
  <2> HIDE DEF Part
  <2> QED BY <2>1
<1>4. ASSUME NEW k \in 1..len, k - 1 \in P PROVE k \in P
  <2>0. k \in 0..len /\ k - 1 \in 0..len
    BY <1>2
  <2>1. Good(f[k - 1], k - 1)
    BY <1>4
  <2>2. f[k] = Table!TypeInsert(f[k - 1], list[k].name, name) /\ f[k] \in Tables /\ f[k - 1] \in Tables
    BY <1>1, <2>0 DEF Inserts
  <2>3. Part(k) = Part(k - 1) \cup {list[k].name}
    <3>1. \A j : j \in 1..k <=> (j = k \/ j \in 1..(k - 1))
      BY <2>0
    <3> QED BY <3>1
  <2>4. Part(k) \subseteq Names /\ list[k].name \in Names /\ list[k] \in Node
    <3>1. \A j \in 1..k : j \in 1..len
      BY <1>2, <2>0
    <3> QED BY <1>2, <3>1
  <2> HIDE DEF Part
  <2>5. ASSUME NEW n \in Names
        PROVE  /\ n = list[k].name => Found(f[k], n) /\ Lookup(f[k], n) = name
               /\ n # list[k].name /\ Found(f[k - 1], n) => Found(f[k], n) /\ Lookup(f[k], n) = Lookup(f[k - 1], n)
    BY <2>2, <2>4, InsertOne
  <2>6. Good(f[k], k)
    BY <2>1, <2>2, <2>3, <2>4, <2>5
  <2> QED BY <2>0, <2>6
<1> HIDE DEF P
<1>5. len \in P
  <2>1. \A k \in 0..len : k \in P
    BY <1>2, <1>3, <1>4, UpTo
  <2> QED BY <1>2, <2>1
<1>6. Good(InsertAll(t, list, name), len)
  BY <1>1, <1>5 DEF P, Inserts
<1>7. Part(len) = NamesIn(list)
  BY <1>2 DEF NamesIn
<1> QED BY <1>6, <1>7

-----------------------------------------------------------------------------
(* The types of the state. *)

Lists == DOMAIN equivList

(* TypeOK, with what the parts of the state are.  While the lists are read  *)
(* every node and token is of a list that has been read; while they are     *)
(* merged nothing is left to merge with the lists before temp.              *)
TypeInv ==
  /\ phase \in {"parse", "tokens", "merge", "insert", "check", "fields", "done"}
  /\ groups \in Seq(Seq(Node)) /\ \A j \in DOMAIN groups : groups[j] # <<>>
  /\ equivList \in Seq(EqList) /\ \A i \in Lists : equivList[i].clist # <<>>
  /\ temp \in 1..(Len(equivList) + 1)
  /\ mismatch \in BOOLEAN /\ needsMerge \in BOOLEAN /\ reported \subseteq Lists
  /\ phase \in {"parse", "tokens", "merge", "insert"} => reported = {}
  /\ table \in Tables
  /\ \A i, j \in Lists : i # j => ToSet(equivList[i].clist) \cap ToSet(equivList[j].clist) = {}
  /\ phase = "parse" =>
       /\ temp = 1
       /\ \A i \in Lists : /\ equivList[i].token \in 1..Len(groups)
                           /\ \A x \in ToSet(equivList[i].clist) : x.id[1] \in 1..Len(groups)
  /\ phase = "merge" =>
       \A i \in 1..(temp - 1), j \in Lists : equivList[i].token = equivList[j].token => i = j

(* The part of TypeInv that the run checks.                                 *)
LEMMA TypeEnough == TypeInv => TypeOK
  BY DEF TypeInv, TypeOK, Lists

(* The names of a list are those of its nodes.                              *)
LEMMA NamesOf ==
  ASSUME NEW list
  PROVE  \A n : n \in NamesIn(list) <=> \E x \in ToSet(list) : x.name = n
  BY DEF NamesIn, ToSet

(* Nodes makes a list of its own of the names of a statement.               *)
LEMMA NodesTypes ==
  ASSUME NEW g \in Seq(Names), g # <<>>, NEW id \in Nat
  PROVE  /\ Nodes(g, id) \in Seq(Node) /\ Nodes(g, id) # <<>>
         /\ \A x \in ToSet(Nodes(g, id)) : x.id[1] = id
<1> DEFINE N == Nodes(g, id)
<1>1. DOMAIN g = 1..Len(g) /\ Len(g) \in Nat /\ Len(g) > 0 /\ \A k \in 1..Len(g) : g[k] \in Names
  OBVIOUS
<1>2. DOMAIN N = 1..Len(g) /\ \A k \in 1..Len(g) : N[k] = [name |-> g[k], id |-> <<id, k>>]
  BY <1>1 DEF Nodes
<1>3. \A k \in 1..Len(g) : [name |-> g[k], id |-> <<id, k>>] \in Node
  BY <1>1 DEF Node
<1>4. N = [k \in 1..Len(g) |-> [name |-> g[k], id |-> <<id, k>>]]
  BY <1>1 DEF Nodes
<1>5. N \in Seq(Node) /\ Len(N) = Len(g)
  BY <1>1, <1>3, <1>4
<1>6. N # <<>>
  BY <1>1, <1>5
<1>7. \A x \in ToSet(N) : x.id[1] = id
  <2> SUFFICES ASSUME NEW k \in 1..Len(g) PROVE N[k].id[1] = id
    BY <1>2 DEF ToSet
  <2> QED BY <1>2
<1> QED BY <1>5, <1>6, <1>7

(* The names of a list in a row.                                            *)
LEMMA ListNames ==
  ASSUME NEW list \in Seq(Node)
  PROVE  MergeNames(list) \in Seq(Names)
<1>1. DOMAIN list = 1..Len(list) /\ Len(list) \in Nat /\ \A k \in 1..Len(list) : list[k].name \in Names
  <2>1. \A x \in Node : x.name \in Names
    BY DEF Node
  <2> QED BY <2>1
<1>2. MergeNames(list) = [k \in 1..Len(list) |-> list[k].name]
  BY <1>1 DEF MergeNames
<1> QED BY <1>1, <1>2

(* TypeInv holds before the first list.                                     *)
LEMMA InitType == Init => TypeInv
<1> SUFFICES ASSUME Init PROVE TypeInv
  OBVIOUS
<1>1. table \in Tables
  <2>1. Table!NewTable \in Tables
    BY DEF Table!NewTable, Tables
  <2> QED BY <2>1 DEF Init
<1>2. Lists = {} /\ Len(equivList) = 0 /\ DOMAIN groups = {}
  BY DEF Init, Lists
<1>3. equivList \in Seq(EqList) /\ groups \in Seq(Seq(Node))
  BY DEF Init
<1>4. phase = "parse" /\ temp = 1 /\ mismatch = FALSE /\ needsMerge = FALSE /\ reported = {}
  BY DEF Init
<1>5. temp \in 1..(Len(equivList) + 1)
  BY <1>2, <1>4
<1> QED BY <1>1, <1>2, <1>3, <1>4, <1>5 DEF TypeInv

(* What Merge makes of the lists, which the positions g of the old lists    *)
(* say: the list of temp is now L, and the others of its token are gone.    *)
Same(j) == j \in Lists /\ equivList[j].token = equivList[temp].token
Merged(g, new, L) ==
  /\ new \in Seq(EqList) /\ temp \in 1..Len(new)
  /\ g \in [1..Len(new) -> Lists]
  /\ \A i, j \in 1..Len(new) : g[i] = g[j] => i = j
  /\ \A k \in 1..Len(new) :
       /\ g[k] = temp => new[k].token = equivList[temp].token /\ new[k].clist = L
       /\ g[k] # temp => new[k] = equivList[g[k]] /\ ~ Same(g[k])
  /\ \A j \in Lists : j = temp \/ ~ Same(j) => \E k \in 1..Len(new) : g[k] = j
  /\ \A k \in 1..temp : g[k] = k
  /\ L \in Seq(Node) /\ L # <<>>
  /\ \A x \in ToSet(L) : \E j \in Lists : Same(j) /\ x \in ToSet(equivList[j].clist)
  /\ \A n : n \in NamesIn(L) <=> \E j \in Lists : Same(j) /\ n \in NamesIn(equivList[j].clist)

(* Merge does what Merged says.                                             *)
LEMMA MergeEffect ==
  ASSUME TypeInv, Merge
  PROVE  \E g, L : Merged(g, equivList', L)
<1> DEFINE L == RemoveDuplicates(Joined)
           S == {j \in DOMAIN equivList : ~ Mergeable(j)}
           mid == [equivList EXCEPT ![temp].clist = L]
           new == Keep(mid, S)
<1>1. equivList' = new /\ phase = "merge" /\ temp \in Lists
  BY DEF Merge, At, Lists
<1>2. equivList \in Seq(EqList) /\ equivList[temp].clist # <<>> /\ Lists = 1..Len(equivList) /\ Len(equivList) \in Nat
  BY <1>1 DEF TypeInv, Lists
<1>3. /\ Joined \in Seq(Node) /\ Joined # <<>>
      /\ \A x : x \in ToSet(Joined) <=>
           \E j \in Lists : (j = temp \/ Mergeable(j)) /\ x \in ToSet(equivList[j].clist)
  BY <1>1, <1>2, JoinedFacts DEF Lists
<1>4. \A j \in Lists : (j = temp \/ Mergeable(j)) <=> Same(j)
  BY <1>1 DEF Mergeable, Same
<1>5. /\ L \in Seq(Node) /\ L # <<>> /\ ToSet(L) \subseteq ToSet(Joined) /\ NamesIn(L) = NamesIn(Joined)
  BY <1>3, DuplicatesRemoved
<1> HIDE DEF L
<1>6. \A x \in ToSet(L) : \E j \in Lists : Same(j) /\ x \in ToSet(equivList[j].clist)
  BY <1>3, <1>4, <1>5
<1>7. \A n : n \in NamesIn(L) <=> \E j \in Lists : Same(j) /\ n \in NamesIn(equivList[j].clist)
  <2> TAKE n
  <2>1. n \in NamesIn(L) <=> \E x \in ToSet(Joined) : x.name = n
    BY <1>5, NamesOf
  <2>2. (\E x \in ToSet(Joined) : x.name = n)
        <=> \E j \in Lists : Same(j) /\ \E x \in ToSet(equivList[j].clist) : x.name = n
    BY <1>3, <1>4
  <2> QED BY <2>1, <2>2, NamesOf
<1>8. /\ mid \in Seq(EqList) /\ Len(mid) = Len(equivList)
      /\ mid[temp].token = equivList[temp].token /\ mid[temp].clist = L
      /\ \A j \in Lists : j # temp => mid[j] = equivList[j]
  <2>1. [equivList[temp] EXCEPT !.clist = L] \in EqList
    BY <1>1, <1>2, <1>5, ListTypes DEF EqList, Lists
  <2>2. mid = [equivList EXCEPT ![temp] = [equivList[temp] EXCEPT !.clist = L]]
    OBVIOUS
  <2>3. equivList[temp] \in EqList
    BY <1>1, <1>2, ListTypes DEF Lists
  <2>4. mid[temp] = [equivList[temp] EXCEPT !.clist = L]
    BY <1>1, <1>2, <2>2
  <2> QED BY <1>1, <1>2, <2>1, <2>2, <2>3, <2>4 DEF EqList
<1> HIDE DEF mid
<1>9. PICK g : Takes(new, mid, S, g)
  BY <1>8, KeepTakes
<1>10. new \in Seq(EqList)
  BY <1>8, KeepTakes
<1>11. S \subseteq Lists /\ \A j \in Lists : j \in S <=> j = temp \/ ~ Same(j)
  BY <1>1 DEF Mergeable, Same, Lists
<1>12. temp \in 0..Len(mid) /\ (1..temp) \subseteq S
  <2>1. \A i \in 1..(temp - 1) : i \in Lists /\ ~ Same(i)
    BY <1>1, <1>2 DEF TypeInv, Same
  <2>2. \A i \in 1..temp : i = temp \/ i \in 1..(temp - 1)
    BY <1>1, <1>2
  <2>3. temp \in 0..Len(mid)
    BY <1>1, <1>2, <1>8
  <2> QED BY <1>1, <1>11, <2>1, <2>2, <2>3
<1> HIDE DEF S, new
<1>13. temp \in 1..Len(new) /\ \A k \in 1..temp : g[k] = k
  <2>1. temp <= Len(new) /\ \A k \in 1..temp : g[k] = k
    BY <1>9, <1>12 DEF Takes
  <2>2. Len(new) \in Nat
    BY <1>10
  <2> QED BY <1>1, <1>2, <2>1, <2>2
<1>14. /\ g \in [1..Len(new) -> Lists] /\ \A i, j \in 1..Len(new) : g[i] = g[j] => i = j
  BY <1>2, <1>8, <1>9 DEF Takes
<1>15. \A k \in 1..Len(new) :
         /\ g[k] = temp => new[k].token = equivList[temp].token /\ new[k].clist = L
         /\ g[k] # temp => new[k] = equivList[g[k]] /\ ~ Same(g[k])
  <2>1. \A k \in 1..Len(new) : g[k] \in S /\ new[k] = mid[g[k]]
    BY <1>9 DEF Takes
  <2> QED BY <1>8, <1>11, <1>14, <2>1
<1>16. \A j \in Lists : j = temp \/ ~ Same(j) => \E k \in 1..Len(new) : g[k] = j
  BY <1>2, <1>8, <1>9, <1>11 DEF Takes
<1>17. Merged(g, new, L)
  BY <1>5, <1>6, <1>7, <1>10, <1>13, <1>14, <1>15, <1>16 DEF Merged
<1> QED BY <1>1, <1>17

(* What AddEquiv makes of the lists.                                        *)
LEMMA AddEffect ==
  ASSUME TypeInv, NEW g \in Groups, AddEquiv(g)
  PROVE  \E list \in Seq(Node) :
           /\ list = Nodes(g, Len(groups) + 1) /\ list # <<>>
           /\ \A x \in ToSet(list) : x.id[1] = Len(groups) + 1
           /\ groups' \in Seq(Seq(Node)) /\ Len(groups') = Len(groups) + 1 /\ Len(groups) \in Nat
           /\ groups'[Len(groups) + 1] = list
           /\ \A j \in DOMAIN groups : groups'[j] = groups[j]
           /\ equivList' \in Seq(EqList) /\ Len(equivList') = Len(equivList) + 1
           /\ equivList'[1].token = Len(groups) + 1 /\ equivList'[1].clist = list
           /\ \A k \in Lists : equivList'[k + 1] = equivList[k]
<1>1. PICK n \in Nat : n = Len(groups)
  BY DEF TypeInv
<1>2. g \in Seq(Names) /\ g # <<>> /\ n + 1 \in Nat
  BY <1>1
<1>3. PICK list \in Seq(Node) : list = Nodes(g, n + 1)
  BY <1>2, NodesTypes
<1>4. list # <<>> /\ \A x \in ToSet(list) : x.id[1] = n + 1
  BY <1>2, <1>3, NodesTypes
<1>5. PICK e \in EqList : e = [token |-> n + 1, clist |-> list]
  BY <1>2, <1>3 DEF EqList
<1>6. groups' = Append(groups, list) /\ equivList' = <<e>> \o equivList
  BY <1>1, <1>3, <1>5 DEF AddEquiv
<1>7. /\ groups \in Seq(Seq(Node)) /\ DOMAIN groups = 1..n
      /\ equivList \in Seq(EqList) /\ Lists = 1..Len(equivList) /\ Len(equivList) \in Nat
  BY <1>1 DEF TypeInv, Lists
<1>8. /\ groups' \in Seq(Seq(Node)) /\ Len(groups') = n + 1 /\ groups'[n + 1] = list
      /\ \A j \in DOMAIN groups : groups'[j] = groups[j]
  BY <1>1, <1>6, <1>7
<1>9. /\ equivList' \in Seq(EqList) /\ Len(equivList') = Len(equivList) + 1
      /\ equivList'[1] = e /\ \A k \in Lists : equivList'[k + 1] = equivList[k]
  BY <1>6, <1>7
<1>10. equivList'[1].token = n + 1 /\ equivList'[1].clist = list
  BY <1>5, <1>9
<1> QED BY <1>1, <1>3, <1>4, <1>8, <1>9, <1>10

(* What Tokens makes of the lists.                                          *)
LEMMA TokensEffect ==
  ASSUME TypeInv, Tokens
  PROVE  /\ equivList' \in Seq(EqList) /\ Len(equivList') = Len(equivList) /\ temp \in Lists
         /\ \A j \in Lists :
              /\ equivList'[j].clist = equivList[j].clist
              /\ equivList'[j].token = IF Overlap(temp, j) THEN equivList[temp].token ELSE equivList[j].token
<1>1. /\ equivList \in Seq(EqList) /\ Lists = 1..Len(equivList) /\ Len(equivList) \in Nat /\ temp \in Lists
  BY DEF TypeInv, Lists, Tokens, At
<1>2. \A j \in Lists : equivList[j] \in EqList /\ equivList[j].clist \in Seq(Node) /\ equivList[j].token \in Nat
  BY <1>1, ListTypes DEF Lists
<1> DEFINE new(j) == IF Overlap(temp, j) THEN [equivList[j] EXCEPT !.token = equivList[temp].token] ELSE equivList[j]
<1>3. \A j \in Lists : /\ new(j) \in EqList
                       /\ new(j).clist = equivList[j].clist
                       /\ new(j).token = IF Overlap(temp, j) THEN equivList[temp].token ELSE equivList[j].token
  BY <1>1, <1>2 DEF EqList
<1>4. equivList' = [j \in 1..Len(equivList) |-> new(j)]
  BY <1>1 DEF Tokens, Lists
<1> HIDE DEF new
<1>5. equivList' \in Seq(EqList) /\ Len(equivList') = Len(equivList) /\ \A j \in Lists : equivList'[j] = new(j)
  BY <1>1, <1>3, <1>4
<1> QED BY <1>1, <1>3, <1>5

(* Every action keeps TypeInv.                                              *)
LEMMA TypeStep == TypeInv /\ [Next]_vars => TypeInv'
<1> SUFFICES ASSUME TypeInv, [Next]_vars PROVE TypeInv'
  OBVIOUS
<1>0. /\ equivList \in Seq(EqList) /\ Lists = 1..Len(equivList) /\ Len(equivList) \in Nat
      /\ temp \in 1..(Len(equivList) + 1)
  BY DEF TypeInv, Lists
<1>1. ASSUME NEW g \in Groups, AddEquiv(g) PROVE TypeInv'
  <2>1. PICK list \in Seq(Node) :
           /\ list = Nodes(g, Len(groups) + 1) /\ list # <<>>
           /\ \A x \in ToSet(list) : x.id[1] = Len(groups) + 1
           /\ groups' \in Seq(Seq(Node)) /\ Len(groups') = Len(groups) + 1 /\ Len(groups) \in Nat
           /\ groups'[Len(groups) + 1] = list
           /\ \A j \in DOMAIN groups : groups'[j] = groups[j]
           /\ equivList' \in Seq(EqList) /\ Len(equivList') = Len(equivList) + 1
           /\ equivList'[1].token = Len(groups) + 1 /\ equivList'[1].clist = list
           /\ \A k \in Lists : equivList'[k + 1] = equivList[k]
    BY <1>1, AddEffect
  <2>2. /\ phase = "parse" /\ phase' = "parse" /\ temp' = 1 /\ temp = 1 /\ reported' = {} /\ reported = {}
        /\ needsMerge' = needsMerge /\ mismatch' = mismatch /\ table' = table
    BY <1>1 DEF AddEquiv, TypeInv
  <2>3. \A k \in Lists' : k = 1 \/ (k - 1 \in Lists /\ equivList'[k] = equivList[k - 1])
    <3> TAKE k \in Lists'
    <3>1. k \in 1..(Len(equivList) + 1)
      BY <1>0, <2>1 DEF Lists
    <3>2. CASE k # 1
      <4>1. k - 1 \in Lists /\ (k - 1) + 1 = k
        BY <1>0, <3>1, <3>2
      <4> QED BY <2>1, <4>1
    <3> QED BY <3>2
  <2>4. DOMAIN groups' = 1..(Len(groups) + 1) /\ DOMAIN groups = 1..Len(groups)
    BY <2>1 DEF TypeInv
  <2>5. \A j \in DOMAIN groups' : groups'[j] # <<>>
    <3>1. \A j \in DOMAIN groups' : j = Len(groups) + 1 \/ j \in DOMAIN groups
      BY <2>1, <2>4
    <3> QED BY <2>1, <3>1 DEF TypeInv
  <2>6. \A k \in Lists' : equivList'[k].clist # <<>>
    <3> TAKE k \in Lists'
    <3>1. CASE k = 1
      BY <2>1, <3>1
    <3>2. CASE k # 1
      <4>1. k - 1 \in Lists /\ equivList'[k] = equivList[k - 1]
        BY <2>3, <3>2
      <4>2. equivList[k - 1].clist # <<>>
        BY <4>1 DEF TypeInv
      <4> QED BY <4>1, <4>2
    <3> QED BY <3>1, <3>2
  <2>7. \A k \in Lists' : /\ equivList'[k].token \in 1..(Len(groups) + 1)
                           /\ \A x \in ToSet(equivList'[k].clist) : x.id[1] \in 1..(Len(groups) + 1)
    <3>1. \A n \in 1..Len(groups) : n \in 1..(Len(groups) + 1)
      BY <2>1
    <3>2. Len(groups) + 1 \in 1..(Len(groups) + 1)
      BY <2>1
    <3> TAKE k \in Lists'
    <3>3. CASE k = 1
      BY <2>1, <3>2, <3>3
    <3>4. CASE k # 1
      <4>1. k - 1 \in Lists /\ equivList'[k] = equivList[k - 1]
        BY <2>3, <3>4
      <4>2. /\ equivList[k - 1].token \in 1..Len(groups)
            /\ \A x \in ToSet(equivList[k - 1].clist) : x.id[1] \in 1..Len(groups)
        BY <2>2, <4>1 DEF TypeInv
      <4> QED BY <3>1, <4>1, <4>2
    <3> QED BY <3>3, <3>4
  <2>8. \A k \in Lists : \A x \in ToSet(equivList[k].clist) : x \notin ToSet(list)
    <3> SUFFICES ASSUME NEW k \in Lists, NEW x \in ToSet(equivList[k].clist), x \in ToSet(list) PROVE FALSE
      OBVIOUS
    <3>1. x.id[1] = Len(groups) + 1 /\ x.id[1] \in 1..Len(groups)
      BY <2>1, <2>2 DEF TypeInv
    <3> QED BY <2>1, <3>1
  <2>9. \A i, j \in Lists' : i # j => ToSet(equivList'[i].clist) \cap ToSet(equivList'[j].clist) = {}
    <3> SUFFICES ASSUME NEW i \in Lists', NEW j \in Lists', i # j, NEW x,
                        x \in ToSet(equivList'[i].clist), x \in ToSet(equivList'[j].clist)
                 PROVE  FALSE
      OBVIOUS
    <3>1. CASE i = 1 \/ j = 1
      BY <2>1, <2>3, <2>8, <3>1
    <3>2. CASE i # 1 /\ j # 1
      <4>1. i - 1 # j - 1
        BY <1>0, <2>1 DEF Lists
      <4> QED BY <2>3, <3>2, <4>1 DEF TypeInv
    <3> QED BY <3>1, <3>2
  <2>10. temp' \in 1..(Len(equivList') + 1)
    BY <1>0, <2>1, <2>2
  <2>11. /\ \A j \in DOMAIN groups' : groups'[j] # <<>>
         /\ \A i \in Lists' : equivList'[i].clist # <<>>
         /\ mismatch' \in BOOLEAN /\ needsMerge' \in BOOLEAN /\ reported' \subseteq Lists' /\ table' \in Tables
    BY <2>2, <2>5, <2>6 DEF TypeInv
  <2> QED BY <2>1, <2>2, <2>7, <2>9, <2>10, <2>11 DEF TypeInv
<1>2. ASSUME Tokens PROVE TypeInv'
  <2>1. /\ equivList' \in Seq(EqList) /\ Len(equivList') = Len(equivList) /\ temp \in Lists
        /\ \A j \in Lists : equivList'[j].clist = equivList[j].clist
    BY <1>2, TokensEffect
  <2>2. phase' = "tokens" /\ temp' = temp + 1 /\ phase = "tokens"
    BY <1>2 DEF Tokens, At, Turn
  <2>3. Lists' = Lists
    BY <1>0, <2>1 DEF Lists
  <2>4. temp' \in 1..(Len(equivList') + 1)
    BY <1>0, <2>1, <2>2
  <2>5. needsMerge' \in BOOLEAN /\ UNCHANGED <<groups, table, mismatch, reported>>
    BY <1>2 DEF Tokens, TypeInv
  <2> QED BY <2>1, <2>2, <2>3, <2>4, <2>5 DEF TypeInv
<1>3. ASSUME Merge PROVE TypeInv'
  <2>1. PICK g, L : Merged(g, equivList', L)
    BY <1>3, MergeEffect
  <2>2. /\ phase = "merge" /\ phase' = "merge" /\ temp' = temp + 1 /\ reported = {} /\ temp \in Lists
        /\ UNCHANGED <<groups, table, mismatch, reported, needsMerge>>
    BY <1>3 DEF Merge, At, Turn, TypeInv, Lists
  <2>3. equivList' \in Seq(EqList) /\ Lists' = 1..Len(equivList') /\ Len(equivList') \in Nat /\ temp \in Lists'
    BY <2>1 DEF Merged, Lists
  <2>4. /\ g \in [Lists' -> Lists]
        /\ \A i, j \in Lists' : g[i] = g[j] => i = j
        /\ \A k \in Lists' :
             /\ g[k] = temp => equivList'[k].token = equivList[temp].token /\ equivList'[k].clist = L
             /\ g[k] # temp => equivList'[k] = equivList[g[k]] /\ ~ Same(g[k])
        /\ \A k \in 1..temp : g[k] = k
        /\ L # <<>>
        /\ \A x \in ToSet(L) : \E j \in Lists : Same(j) /\ x \in ToSet(equivList[j].clist)
    BY <2>1, <2>3 DEF Merged
  <2>5. temp' \in 1..(Len(equivList') + 1)
    BY <2>2, <2>3
  <2>6. \A i \in Lists' : equivList'[i].clist # <<>>
    BY <2>4 DEF TypeInv
  <2>7. \A i, j \in Lists' : i # j => ToSet(equivList'[i].clist) \cap ToSet(equivList'[j].clist) = {}
    <3> SUFFICES ASSUME NEW i \in Lists', NEW j \in Lists', i # j, NEW x,
                        x \in ToSet(equivList'[i].clist), x \in ToSet(equivList'[j].clist)
                 PROVE  FALSE
      OBVIOUS
    <3>1. g[i] # g[j] /\ g[i] \in Lists /\ g[j] \in Lists
      BY <2>4
    <3>2. CASE g[i] # temp /\ g[j] # temp
      <4>1. x \in ToSet(equivList[g[i]].clist) /\ x \in ToSet(equivList[g[j]].clist)
        BY <2>4, <3>2
      <4> QED BY <3>1, <4>1 DEF TypeInv
    <3>3. CASE g[i] = temp
      <4>1. g[j] # temp /\ x \in ToSet(equivList[g[j]].clist) /\ ~ Same(g[j]) /\ x \in ToSet(L)
        BY <2>4, <3>1, <3>3
      <4>2. PICK m \in Lists : Same(m) /\ x \in ToSet(equivList[m].clist)
        BY <2>4, <4>1
      <4>3. (m # g[i] /\ m # g[j]) \/ m = g[i] \/ m = g[j]
        OBVIOUS
      <4> QED BY <3>1, <4>1, <4>2, <4>3 DEF TypeInv
    <3>4. CASE g[j] = temp
      <4>1. g[i] # temp /\ x \in ToSet(equivList[g[i]].clist) /\ ~ Same(g[i]) /\ x \in ToSet(L)
        BY <2>4, <3>1, <3>4
      <4>2. PICK m \in Lists : Same(m) /\ x \in ToSet(equivList[m].clist)
        BY <2>4, <4>1
      <4>3. (m # g[i] /\ m # g[j]) \/ m = g[i] \/ m = g[j]
        OBVIOUS
      <4> QED BY <3>1, <4>1, <4>2, <4>3 DEF TypeInv
    <3> QED BY <3>2, <3>3, <3>4
  <2>8. \A i \in 1..(temp' - 1), j \in Lists' : equivList'[i].token = equivList'[j].token => i = j
    <3> SUFFICES ASSUME NEW i \in 1..(temp' - 1), NEW j \in Lists', equivList'[i].token = equivList'[j].token
                 PROVE  i = j
      OBVIOUS
    <3>1. i \in 1..temp /\ i \in Lists' /\ g[i] = i /\ (i # temp => i \in 1..(temp - 1))
      BY <2>2, <2>3, <2>4
    <3>2. g[j] \in Lists /\ g[i] \in Lists /\ g[temp] = temp
      BY <1>0, <2>3, <2>4, <3>1
    <3>3. CASE i = temp
      BY <2>4, <3>1, <3>2, <3>3 DEF Same
    <3>4. CASE i # temp
      <4>1. equivList'[i].token = equivList[i].token /\ ~ Same(i)
        BY <2>4, <3>1, <3>4
      <4>2. equivList'[j].token = equivList[g[j]].token
        BY <2>4, <3>2
      <4>3. i = g[j]
        BY <2>2, <3>1, <3>2, <3>4, <4>1, <4>2 DEF TypeInv
      <4> QED BY <2>4, <3>1, <4>3
    <3> QED BY <3>3, <3>4
  <2>9. /\ mismatch' \in BOOLEAN /\ needsMerge' \in BOOLEAN /\ reported' \subseteq Lists' /\ table' \in Tables
        /\ groups' \in Seq(Seq(Node)) /\ \A j \in DOMAIN groups' : groups'[j] # <<>>
        /\ reported' = {}
    BY <2>2 DEF TypeInv
  <2> QED BY <2>2, <2>3, <2>5, <2>6, <2>7, <2>8, <2>9 DEF TypeInv
<1>4. ASSUME Insert PROVE TypeInv'
  <2> DEFINE list == equivList[temp].clist
  <2>1. list \in Seq(Node)
    BY <1>0, <1>4, ListTypes DEF Insert, At
  <2>3. table' = InsertAll(table, list, MergeNames(list))
    BY <1>4 DEF Insert, InsertAll
  <2> HIDE DEF list
  <2>2. MergeNames(list) \in Seq(Names)
    BY <2>1, ListNames
  <2>4. table' \in Tables
    BY <2>1, <2>2, <2>3, InsertFacts DEF TypeInv
  <2>5. phase = "insert" /\ phase' = "insert" /\ temp' = temp + 1 /\ temp \in Lists
    BY <1>4 DEF Insert, At, Turn, Lists
  <2>6. temp' \in 1..(Len(equivList) + 1)
    BY <1>0, <2>5
  <2>7. UNCHANGED <<groups, equivList, needsMerge, mismatch, reported>> /\ Lists' = Lists
    BY <1>4 DEF Insert, Lists
  <2> QED BY <2>4, <2>5, <2>6, <2>7 DEF TypeInv
<1>5. ASSUME Check PROVE TypeInv'
  <2>1. phase = "check" /\ phase' = "check" /\ temp' = temp + 1 /\ temp \in Lists
    BY <1>5 DEF Check, At, Turn, Lists
  <2>2. temp' \in 1..(Len(equivList) + 1)
    BY <1>0, <2>1
  <2>3. UNCHANGED <<groups, equivList, needsMerge, table>> /\ Lists' = Lists
    BY <1>5 DEF Check, Lists
  <2>4. mismatch' \in BOOLEAN /\ reported' \subseteq Lists
    BY <1>5, <2>1 DEF Check, TypeInv
  <2> QED BY <2>1, <2>2, <2>3, <2>4 DEF TypeInv
<1>6. ASSUME Fields PROVE TypeInv'
  <2>1. phase' = "done" /\ UNCHANGED <<groups, equivList, needsMerge, temp, table, mismatch, reported>> /\ Lists' = Lists
    BY <1>6 DEF Fields, Lists
  <2> QED BY <2>1 DEF TypeInv
<1>7. ASSUME Proceed PROVE TypeInv'
  <2>1. UNCHANGED <<groups, equivList, needsMerge, table, mismatch, reported>> /\ Lists' = Lists
    BY <1>7 DEF Proceed, Lists
  <2>2. /\ phase \in {"parse", "tokens", "merge", "insert", "check"}
        /\ phase' \in {"tokens", "merge", "insert", "check", "fields"}
        /\ phase' \in {"tokens", "merge", "insert"} => phase \in {"parse", "tokens", "merge", "insert"}
        /\ temp' = temp \/ temp' = 1
        /\ phase' = "merge" => temp' = 1
    BY <1>7 DEF Proceed, Over
  <2>3. temp' \in 1..(Len(equivList) + 1)
    BY <1>0, <2>2
  <2>4. phase' = "merge" => 1..(temp' - 1) = {}
    BY <2>2
  <2> QED BY <2>1, <2>2, <2>3, <2>4 DEF TypeInv
<1>8. ASSUME Done \/ UNCHANGED vars PROVE TypeInv'
  <2>1. UNCHANGED <<groups, equivList, needsMerge, temp, table, mismatch, reported, phase>> /\ Lists' = Lists
    BY <1>8 DEF Done, vars, Lists
  <2> QED BY <2>1 DEF TypeInv
<1> QED BY <1>1, <1>2, <1>3, <1>4, <1>5, <1>6, <1>7, <1>8 DEF Next

(* TypeInv holds in every state.                                            *)
LEMMA TypeAlways == Spec => []TypeInv
  BY InitType, TypeStep, PTL DEF Spec

(* The parts of the state keep their types, and no node is ever in two of   *)
(* the lists that are merged (f2jparse.y, typecheck.c, codegen.c).          *)
THEOREM TypeCorrect == Spec => []TypeOK
  BY TypeAlways, TypeEnough, PTL

-----------------------------------------------------------------------------
(* The variables that the statements tie together. *)

(* The names of a list are variables, and a list that has a node has one.   *)
LEMMA NamesOfList ==
  ASSUME NEW list \in Seq(Node)
  PROVE  NamesIn(list) \subseteq Names /\ (list # <<>> => NamesIn(list) # {})
<1>1. DOMAIN list = 1..Len(list) /\ Len(list) \in Nat /\ \A k \in 1..Len(list) : list[k] \in Node
  OBVIOUS
<1>2. \A x \in Node : x.name \in Names
  BY DEF Node
<1>3. list # <<>> => 1 \in DOMAIN list
  BY <1>1
<1> QED BY <1>1, <1>2, <1>3 DEF NamesIn

ListNamesIn(i) == NamesIn(equivList[i].clist)

(* The names in the lists are variables, and every list has one.            *)
LEMMA NamesTyped ==
  ASSUME TypeInv
  PROVE  /\ \A j \in DOMAIN groups : NamesIn(groups[j]) \subseteq Names /\ NamesIn(groups[j]) # {}
         /\ \A i \in Lists : ListNamesIn(i) \subseteq Names /\ ListNamesIn(i) # {}
<1>1. \A j \in DOMAIN groups : groups[j] \in Seq(Node) /\ groups[j] # <<>>
  BY DEF TypeInv
<1>2. \A i \in Lists : equivList[i].clist \in Seq(Node) /\ equivList[i].clist # <<>>
  BY ListTypes DEF TypeInv, Lists
<1> QED BY <1>1, <1>2, NamesOfList DEF ListNamesIn

(* What is tied to one that is tied is tied.                                *)
LEMMA ClassOfClass ==
  ASSUME NEW a, NEW b \in Class(a)
  PROVE  Class(b) \subseteq Class(a)
  BY DEF Class

(* If b is tied to a, the rest of the variables is not a Kept set with a.   *)
LEMMA ClassBack ==
  ASSUME TypeInv, NEW a \in Names, NEW b \in Class(a)
  PROVE  a \in Class(b)
<1> SUFFICES ASSUME NEW C \in SUBSET Names, b \in C, Kept(C), a \notin C
             PROVE  FALSE
  BY DEF Class
<1> DEFINE D == Names \ C
<1>1. \A j \in DOMAIN groups : NamesIn(groups[j]) \subseteq Names
  BY NamesTyped
<1>2. Kept(D)
  BY <1>1 DEF Kept
<1>3. D \in SUBSET Names /\ a \in D
  OBVIOUS
<1>4. b \in D
  BY <1>2, <1>3 DEF Class
<1> QED BY <1>4

(* A list of the statements ties its variables.                             *)
LEMMA ClassOfGroup ==
  ASSUME TypeInv, NEW j \in DOMAIN groups, NEW a \in NamesIn(groups[j]), NEW b \in NamesIn(groups[j])
  PROVE  b \in Class(a)
<1>1. b \in Names
  BY NamesTyped
<1> QED BY <1>1 DEF Class, Kept

(* All variables of one list are tied to all of the other.                  *)
Tied(i, j) == \A a \in ListNamesIn(i), b \in ListNamesIn(j) : b \in Class(a)

(* Tied is symmetric.                                                       *)
LEMMA TiedBack ==
  ASSUME TypeInv, NEW i \in Lists, NEW j \in Lists, Tied(i, j)
  PROVE  Tied(j, i)
  BY NamesTyped, ClassBack DEF Tied

(* Tied is transitive, since no list is empty.                              *)
LEMMA TiedOver ==
  ASSUME TypeInv, NEW i \in Lists, NEW j \in Lists, NEW k \in Lists, Tied(i, j), Tied(j, k)
  PROVE  Tied(i, k)
<1>1. PICK n : n \in ListNamesIn(j)
  BY NamesTyped
<1> SUFFICES ASSUME NEW a \in ListNamesIn(i), NEW b \in ListNamesIn(k) PROVE b \in Class(a)
  BY DEF Tied
<1>2. n \in Class(a) /\ b \in Class(n)
  BY <1>1 DEF Tied
<1> QED BY <1>2, ClassOfClass

(* A name that two lists share ties them.                                   *)
LEMMA TiedByName ==
  ASSUME NEW i \in Lists, NEW j \in Lists, Tied(i, i), Tied(j, j), NEW n, n \in ListNamesIn(i), n \in ListNamesIn(j)
  PROVE  Tied(i, j)
<1> SUFFICES ASSUME NEW a \in ListNamesIn(i), NEW b \in ListNamesIn(j) PROVE b \in Class(a)
  BY DEF Tied
<1>1. n \in Class(a) /\ b \in Class(n)
  BY DEF Tied
<1> QED BY <1>1, ClassOfClass

(* Lists with one token are tied, every list of the statements is inside    *)
(* one of the lists, and these have no other names.                         *)
TieInv ==
  /\ \A n : n \in Used <=> \E i \in Lists : n \in ListNamesIn(i)
  /\ \A i, j \in Lists : equivList[i].token = equivList[j].token => Tied(i, j)
  /\ \A k \in DOMAIN groups : \E i \in Lists : NamesIn(groups[k]) \subseteq ListNamesIn(i)

(* What the run checks follows from TieInv.                                 *)
LEMMA TieEnough == TieInv => NoneLostNoneTied
<1> SUFFICES ASSUME TieInv PROVE NoneLostNoneTied
  OBVIOUS
<1>1. \A i \in Lists : Tied(i, i)
  BY DEF TieInv
<1>2. \A i \in Lists : \A n \in ListNamesIn(i) : ListNamesIn(i) \subseteq Class(n)
  BY <1>1 DEF Tied
<1> QED BY <1>2 DEF TieInv, NoneLostNoneTied, Lists, ListNamesIn

(* Merge takes no name from any list, and adds none.                        *)
LEMMA MergeNone ==
  ASSUME TypeInv, NEW g, NEW new, NEW L, Merged(g, new, L)
  PROVE  /\ \A j \in Lists : \E k \in 1..Len(new) :
              g[k] = (IF Same(j) THEN temp ELSE j) /\ ListNamesIn(j) \subseteq NamesIn(new[k].clist)
         /\ \A k \in 1..Len(new) : \A n \in NamesIn(new[k].clist) :
              \E j \in Lists : n \in ListNamesIn(j) /\ (IF g[k] = temp THEN Same(j) ELSE j = g[k])
<1>0. PICK len \in Nat : len = Len(new)
  BY DEF Merged
<1>1. /\ temp \in 1..len
      /\ g \in [1..len -> Lists]
      /\ \A k \in 1..len :
           /\ g[k] = temp => new[k].clist = L
           /\ g[k] # temp => new[k] = equivList[g[k]] /\ ~ Same(g[k])
      /\ \A j \in Lists : j = temp \/ ~ Same(j) => \E k \in 1..len : g[k] = j
      /\ g[temp] = temp
      /\ \A n : n \in NamesIn(L) <=> \E j \in Lists : Same(j) /\ n \in NamesIn(equivList[j].clist)
  <2>1. temp \in 1..temp
    BY <1>0 DEF Merged
  <2> QED BY <1>0, <2>1 DEF Merged
<1>2. Same(temp)
  BY <1>1 DEF Same
<1>3. ASSUME NEW j \in Lists
      PROVE  \E k \in 1..len : g[k] = (IF Same(j) THEN temp ELSE j) /\ ListNamesIn(j) \subseteq NamesIn(new[k].clist)
  <2>1. CASE Same(j)
    BY <1>1, <2>1 DEF ListNamesIn
  <2>2. CASE ~ Same(j)
    BY <1>1, <1>2, <2>2 DEF ListNamesIn
  <2> QED BY <2>1, <2>2
<1>4. ASSUME NEW k \in 1..len, NEW n \in NamesIn(new[k].clist)
      PROVE  \E j \in Lists : n \in ListNamesIn(j) /\ (IF g[k] = temp THEN Same(j) ELSE j = g[k])
  <2>1. CASE g[k] = temp
    BY <1>1, <1>4, <2>1 DEF ListNamesIn
  <2>2. CASE g[k] # temp
    BY <1>1, <1>4, <2>2 DEF ListNamesIn
  <2> QED BY <2>1, <2>2
<1> QED BY <1>0, <1>3, <1>4

(* TieInv holds before the first list.                                      *)
LEMMA InitTie == Init => TieInv
<1> SUFFICES ASSUME Init PROVE TieInv
  OBVIOUS
<1>1. Lists = {} /\ DOMAIN groups = {}
  BY DEF Init, Lists
<1> QED BY <1>1 DEF TieInv, Used

(* Every action keeps TieInv.                                               *)
LEMMA TieStep == TypeInv /\ TypeInv' /\ TieInv /\ [Next]_vars => TieInv'
<1> SUFFICES ASSUME TypeInv, TypeInv', TieInv, [Next]_vars PROVE TieInv'
  OBVIOUS
<1>0. /\ equivList \in Seq(EqList) /\ Lists = 1..Len(equivList) /\ Len(equivList) \in Nat
      /\ \A i \in Lists : Tied(i, i)
  BY DEF TypeInv, TieInv, Lists
<1>1. ASSUME NEW g \in Groups, AddEquiv(g) PROVE TieInv'
  <2>1. PICK list \in Seq(Node) :
           /\ list = Nodes(g, Len(groups) + 1) /\ list # <<>>
           /\ \A x \in ToSet(list) : x.id[1] = Len(groups) + 1
           /\ groups' \in Seq(Seq(Node)) /\ Len(groups') = Len(groups) + 1 /\ Len(groups) \in Nat
           /\ groups'[Len(groups) + 1] = list
           /\ \A j \in DOMAIN groups : groups'[j] = groups[j]
           /\ equivList' \in Seq(EqList) /\ Len(equivList') = Len(equivList) + 1
           /\ equivList'[1].token = Len(groups) + 1 /\ equivList'[1].clist = list
           /\ \A k \in Lists : equivList'[k + 1] = equivList[k]
    BY <1>1, AddEffect
  <2>2. PICK len \in Nat : len = Len(groups)
    BY <2>1
  <2>3. DOMAIN groups = 1..len /\ DOMAIN groups' = 1..(len + 1) /\ Lists' = 1..(Len(equivList) + 1)
    BY <2>1, <2>2 DEF TypeInv, Lists
  <2>4. \A j \in DOMAIN groups' : j = len + 1 \/ (j \in DOMAIN groups /\ groups'[j] = groups[j])
    BY <2>1, <2>2, <2>3
  <2>5. len + 1 \in DOMAIN groups' /\ groups'[len + 1] = list /\ \A j \in DOMAIN groups : j \in DOMAIN groups'
    BY <2>1, <2>2, <2>3
  <2>6. \A k \in Lists' : k = 1 \/ (k - 1 \in Lists /\ equivList'[k] = equivList[k - 1])
    <3> TAKE k \in Lists'
    <3>1. CASE k # 1
      <4>1. k - 1 \in Lists /\ (k - 1) + 1 = k
        BY <1>0, <2>3, <3>1
      <4> QED BY <2>1, <4>1
    <3> QED BY <3>1
  <2>7. 1 \in Lists' /\ \A k \in Lists : k + 1 \in Lists' /\ equivList'[k + 1] = equivList[k]
    BY <1>0, <2>1, <2>3
  <2>8. /\ ListNamesIn(1)' = NamesIn(list)
        /\ \A k \in Lists' : k # 1 => k - 1 \in Lists /\ ListNamesIn(k)' = ListNamesIn(k - 1)
        /\ \A k \in Lists : k + 1 \in Lists' /\ ListNamesIn(k + 1)' = ListNamesIn(k)
    BY <2>1, <2>6, <2>7 DEF ListNamesIn
  <2>9. \A n : n \in Used' <=> n \in Used \/ n \in NamesIn(list)
    <3>1. \A n : n \in Used <=> \E j \in DOMAIN groups : n \in NamesIn(groups[j])
      BY DEF Used
    <3>2. \A n : n \in Used' <=> \E j \in DOMAIN groups' : n \in NamesIn(groups'[j])
      BY DEF Used
    <3> TAKE n
    <3>3. ASSUME n \in Used' PROVE n \in Used \/ n \in NamesIn(list)
      <4>1. PICK j \in DOMAIN groups' : n \in NamesIn(groups'[j])
        BY <3>2, <3>3
      <4>2. CASE j = len + 1
        BY <2>5, <4>1, <4>2
      <4>3. CASE j # len + 1
        <5>1. j \in DOMAIN groups /\ groups'[j] = groups[j]
          BY <2>4, <4>3
        <5> QED BY <3>1, <4>1, <5>1
      <4> QED BY <4>2, <4>3
    <3>4. ASSUME n \in Used PROVE n \in Used'
      <4>1. PICK j \in DOMAIN groups : n \in NamesIn(groups[j])
        BY <3>1, <3>4
      <4>2. j \in DOMAIN groups' /\ groups'[j] = groups[j]
        BY <2>1, <2>5
      <4> QED BY <3>2, <4>1, <4>2
    <3>5. ASSUME n \in NamesIn(list) PROVE n \in Used'
      BY <2>5, <3>2, <3>5
    <3> QED BY <3>3, <3>4, <3>5
  <2>10. ASSUME NEW n PROVE n \in Used' <=> \E k \in Lists' : n \in ListNamesIn(k)'
    <3>1. n \in Used <=> \E k \in Lists : n \in ListNamesIn(k)
      BY DEF TieInv
    <3>2. ASSUME n \in Used' PROVE \E k \in Lists' : n \in ListNamesIn(k)'
      <4>1. CASE n \in NamesIn(list)
        BY <2>7, <2>8, <4>1
      <4>2. CASE n \in Used
        BY <2>8, <3>1, <4>2
      <4> QED BY <2>9, <3>2, <4>1, <4>2
    <3>3. ASSUME NEW k \in Lists', n \in ListNamesIn(k)' PROVE n \in Used'
      <4>1. CASE k = 1
        BY <2>8, <2>9, <3>3, <4>1
      <4>2. CASE k # 1
        BY <2>8, <2>9, <3>1, <3>3, <4>2
      <4> QED BY <4>1, <4>2
    <3> QED BY <3>2, <3>3
  <2>11. \A n : Class(n) \subseteq Class(n)'
    <3>1. \A C : Kept(C)' => Kept(C)
      BY <2>1, <2>5 DEF Kept
    <3> QED BY <3>1 DEF Class
  <2>12. \A j \in DOMAIN groups : \A a, b \in NamesIn(groups[j]) : b \in Class(a)
    BY ClassOfGroup
  <2>13. \A a, b \in NamesIn(list) : b \in Class(a)'
    <3>1. \A b \in NamesIn(list) : b \in Names
      BY NamesOfList
    <3> QED BY <2>5, <3>1 DEF Class, Kept
  <2>14. ASSUME NEW i \in Lists', NEW j \in Lists', equivList'[i].token = equivList'[j].token PROVE Tied(i, j)'
    <3>1. \A k \in Lists : equivList[k].token \in 1..len
      BY <1>1, <2>2 DEF TypeInv, AddEquiv
    <3>2. CASE i = 1 /\ j = 1
      BY <2>8, <2>13, <3>2 DEF Tied
    <3>3. CASE i # 1 /\ j # 1
      <4>1. Tied(i - 1, j - 1)
        BY <2>6, <2>14, <3>3 DEF TieInv
      <4> QED BY <2>8, <2>11, <3>3, <4>1 DEF Tied
    <3>4. CASE (i = 1) # (j = 1)
      <4>1. len + 1 \notin 1..len /\ equivList'[1].token = len + 1
        BY <2>1, <2>2
      <4> QED BY <2>6, <2>14, <3>1, <3>4, <4>1
    <3> QED BY <3>2, <3>3, <3>4
  <2>15. ASSUME NEW k \in DOMAIN groups' PROVE \E i \in Lists' : NamesIn(groups'[k]) \subseteq ListNamesIn(i)'
    <3>1. CASE k = len + 1
      BY <2>5, <2>7, <2>8, <3>1
    <3>2. CASE k # len + 1
      <4>1. PICK i \in Lists : NamesIn(groups[k]) \subseteq ListNamesIn(i)
        BY <2>4, <3>2 DEF TieInv
      <4> QED BY <2>4, <2>8, <3>2, <4>1
    <3> QED BY <3>1, <3>2
  <2> QED BY <2>10, <2>14, <2>15 DEF TieInv
<1>2. ASSUME Tokens PROVE TieInv'
  <2>1. /\ equivList' \in Seq(EqList) /\ Len(equivList') = Len(equivList) /\ temp \in Lists
        /\ \A j \in Lists :
             /\ equivList'[j].clist = equivList[j].clist
             /\ equivList'[j].token = IF Overlap(temp, j) THEN equivList[temp].token ELSE equivList[j].token
    BY <1>2, TokensEffect
  <2>2. groups' = groups /\ Lists' = Lists
    BY <1>0, <1>2, <2>1 DEF Tokens, Lists
  <2>3. \A j \in Lists : ListNamesIn(j)' = ListNamesIn(j)
    BY <2>1 DEF ListNamesIn
  <2>4. Used' = Used /\ \A n : Class(n)' = Class(n)
    BY <2>2 DEF Used, Class, Kept
  <2>5. \A i, j \in Lists : Tied(i, j) => Tied(i, j)'
    BY <2>3, <2>4 DEF Tied
  <2>6. ASSUME NEW j \in Lists, Overlap(temp, j) \/ equivList[j].token = equivList[temp].token
        PROVE  Tied(temp, j) /\ Tied(j, temp)
    <3>1. CASE Overlap(temp, j)
      <4>1. PICK n : n \in ListNamesIn(temp) /\ n \in ListNamesIn(j)
        BY <3>1 DEF Overlap, ListNamesIn
      <4>2. Tied(temp, j)
        BY <1>0, <2>1, <4>1, TiedByName
      <4> QED BY <2>1, <4>2, TiedBack
    <3>2. CASE equivList[j].token = equivList[temp].token
      BY <2>1, <3>2 DEF TieInv
    <3> QED BY <2>6, <3>1, <3>2
  <2>7. ASSUME NEW i \in Lists, NEW j \in Lists, equivList'[i].token = equivList'[j].token PROVE Tied(i, j)
    <3> DEFINE Here(k) == Overlap(temp, k) \/ equivList[k].token = equivList[temp].token
    <3>1. \A k \in Lists : Here(k) => equivList'[k].token = equivList[temp].token
      BY <2>1
    <3>2. \A k \in Lists : ~ Here(k) => equivList'[k].token = equivList[k].token /\ equivList[k].token # equivList[temp].token
      BY <2>1
    <3>3. Here(i) <=> Here(j)
      BY <2>7, <3>1, <3>2
    <3>4. CASE Here(i) /\ Here(j)
      BY <2>1, <2>6, <3>4, TiedOver
    <3>5. CASE ~ Here(i) /\ ~ Here(j)
      BY <2>7, <3>2, <3>5 DEF TieInv
    <3> QED BY <3>3, <3>4, <3>5
  <2>8. \A n : n \in Used' <=> \E i \in Lists' : n \in ListNamesIn(i)'
    BY <2>2, <2>3, <2>4 DEF TieInv
  <2>9. \A k \in DOMAIN groups' : \E i \in Lists' : NamesIn(groups'[k]) \subseteq ListNamesIn(i)'
    BY <2>2, <2>3 DEF TieInv
  <2>10. \A i, j \in Lists' : equivList'[i].token = equivList'[j].token => Tied(i, j)'
    BY <2>2, <2>5, <2>7
  <2> QED BY <2>8, <2>9, <2>10 DEF TieInv
<1>3. ASSUME Merge PROVE TieInv'
  <2>1. PICK g, L : Merged(g, equivList', L)
    BY <1>3, MergeEffect
  <2>2. Lists' = 1..Len(equivList') /\ groups' = groups
    BY <1>3, <2>1 DEF Merged, Lists, Merge
  <2>3. /\ \A j \in Lists : \E k \in Lists' : ListNamesIn(j) \subseteq ListNamesIn(k)'
        /\ \A k \in Lists' : \A n \in ListNamesIn(k)' :
             \E j \in Lists : n \in ListNamesIn(j) /\ (IF g[k] = temp THEN Same(j) ELSE j = g[k])
    BY <2>1, <2>2, MergeNone, ZenonT(60) DEF ListNamesIn
  <2>4. Used' = Used /\ \A n : Class(n)' = Class(n)
    BY <2>2 DEF Used, Class, Kept
  <2>5. \A n : n \in Used' <=> \E i \in Lists' : n \in ListNamesIn(i)'
    <3>1. ASSUME NEW k \in Lists', NEW n \in ListNamesIn(k)' PROVE \E j \in Lists : n \in ListNamesIn(j)
      BY <2>3, <3>1
    <3>2. ASSUME NEW j \in Lists, NEW n \in ListNamesIn(j) PROVE \E k \in Lists' : n \in ListNamesIn(k)'
      BY <2>3, <3>2
    <3> QED BY <2>4, <3>1, <3>2 DEF TieInv
  <2>6. ASSUME NEW k \in DOMAIN groups PROVE \E i \in Lists' : NamesIn(groups[k]) \subseteq ListNamesIn(i)'
    <3>1. PICK i \in Lists : NamesIn(groups[k]) \subseteq ListNamesIn(i)
      BY DEF TieInv
    <3>2. PICK m \in Lists' : ListNamesIn(i) \subseteq ListNamesIn(m)'
      BY <2>3
    <3> QED BY <3>1, <3>2
  <2>7. ASSUME NEW i \in Lists', NEW j \in Lists', equivList'[i].token = equivList'[j].token PROVE Tied(i, j)'
    <3> SUFFICES ASSUME NEW a \in ListNamesIn(i)', NEW b \in ListNamesIn(j)' PROVE b \in Class(a)
      BY <2>4 DEF Tied
    <3>1. PICK p \in Lists : a \in ListNamesIn(p) /\ (IF g[i] = temp THEN Same(p) ELSE p = g[i])
      BY <2>3
    <3>2. PICK q \in Lists : b \in ListNamesIn(q) /\ (IF g[j] = temp THEN Same(q) ELSE q = g[j])
      BY <2>3
    <3>3. \A k \in Lists' :
            /\ g[k] = temp => equivList'[k].token = equivList[temp].token
            /\ g[k] # temp => equivList'[k] = equivList[g[k]]
      BY <2>1, <2>2 DEF Merged
    <3>4. equivList[p].token = equivList'[i].token
      BY <3>1, <3>3 DEF Same
    <3>5. equivList[q].token = equivList'[j].token
      BY <3>2, <3>3 DEF Same
    <3>6. Tied(p, q)
      BY <2>7, <3>4, <3>5 DEF TieInv
    <3> QED BY <3>1, <3>2, <3>6 DEF Tied
  <2> QED BY <2>2, <2>4, <2>5, <2>6, <2>7 DEF TieInv
<1>4. ASSUME UNCHANGED <<groups, equivList>> PROVE TieInv'
  <2>1. /\ Lists' = Lists /\ Used' = Used /\ (\A n : Class(n)' = Class(n)) /\ \A i : ListNamesIn(i)' = ListNamesIn(i)
    BY <1>4 DEF Lists, Used, Class, Kept, ListNamesIn
  <2>2. \A i, j : Tied(i, j)' <=> Tied(i, j)
    BY <2>1 DEF Tied
  <2> QED BY <1>4, <2>1, <2>2 DEF TieInv
<1>5. ASSUME Insert \/ Check \/ Fields \/ Proceed \/ Done \/ UNCHANGED vars PROVE UNCHANGED <<groups, equivList>>
  BY <1>5 DEF Insert, Check, Fields, Proceed, Done, vars
<1> QED BY <1>1, <1>2, <1>3, <1>4, <1>5 DEF Next

(* TieInv holds in every state.                                             *)
LEMMA TieAlways == Spec => [](TypeInv /\ TieInv)
<1>1. TypeInv /\ TieInv /\ [Next]_vars => TypeInv' /\ TieInv'
  BY TypeStep, TieStep
<1> QED BY <1>1, InitType, InitTie, PTL DEF Spec

(* merge_equivalences loses no variable of the EQUIVALENCE statements, and  *)
(* never brings two together that no chain of lists ties (typecheck.c),     *)
(* however many lists there are and in whatever order.                      *)
THEOREM NoneLostNoneTiedCorrect == Spec => []NoneLostNoneTied
  BY TieAlways, TieEnough, PTL

-----------------------------------------------------------------------------
(* Variables of different types. *)

(* If no type differs from the one before, all are one.                     *)
LEMMA AllOneType ==
  ASSUME NEW list \in Seq(Node), ~ Differ(list), NEW a \in NamesIn(list), NEW b \in NamesIn(list)
  PROVE  type[a] = type[b]
<1> DEFINE n == Len(list)
           Of(k) == type[list[k].name]
           P == {k \in 0..n : \A j \in 1..k : Of(j) = Of(1)}
<1>1. n \in Nat /\ DOMAIN list = 1..n
  OBVIOUS
<1>2. \A k \in 2..n : Of(k) = Of(k - 1)
  BY DEF Differ
<1> HIDE DEF Of, n
<1>3. 0 \in P
  BY <1>1
<1>4. ASSUME NEW k \in 1..n, k - 1 \in P PROVE k \in P
  <2>1. k = 1 \/ (k \in 2..n /\ k - 1 \in 1..(k - 1))
    BY <1>1
  <2>2. Of(k) = Of(1)
    BY <1>2, <1>4, <2>1
  <2>3. \A j \in 1..k : j = k \/ j \in 1..(k - 1)
    BY <1>1
  <2> QED BY <1>1, <1>4, <2>2, <2>3
<1>5. n \in P
  <2> HIDE DEF P
  <2>1. \A k \in 0..n : k \in P
    BY <1>1, <1>3, <1>4, UpTo
  <2> QED BY <1>1, <2>1
<1>6. \A j \in DOMAIN list : Of(j) = Of(1)
  BY <1>1, <1>5
<1>7. \A x \in NamesIn(list) : type[x] = Of(1)
  BY <1>6 DEF NamesIn, Of
<1> QED BY <1>7

(* check_equivalences has written an error for each list that it has seen   *)
(* and whose types differ.                                                  *)
MismatchInv ==
  /\ phase = "check" => \A i \in 1..(temp - 1) : Differ(equivList[i].clist) => i \in reported
  /\ phase \in {"fields", "done"} => \A i \in Lists : Differ(equivList[i].clist) => i \in reported

(* What the run checks follows from MismatchInv.                            *)
LEMMA MismatchEnough == TypeInv /\ MismatchInv => MismatchReported
<1> SUFFICES ASSUME TypeInv, MismatchInv, phase = "done", NEW i \in Lists,
                    NEW a \in NamesIn(equivList[i].clist), NEW b \in NamesIn(equivList[i].clist), type[a] # type[b]
             PROVE  i \in reported
  BY DEF MismatchReported, Lists
<1>1. equivList[i].clist \in Seq(Node)
  BY ListTypes DEF TypeInv, Lists
<1>2. Differ(equivList[i].clist)
  BY <1>1, AllOneType
<1> QED BY <1>2 DEF MismatchInv

(* Every action keeps MismatchInv.                                          *)
LEMMA MismatchStep == TypeInv /\ MismatchInv /\ [Next]_vars => MismatchInv'
<1> SUFFICES ASSUME TypeInv, MismatchInv, [Next]_vars PROVE MismatchInv'
  OBVIOUS
<1>1. ASSUME NEW g \in Groups, AddEquiv(g) PROVE MismatchInv'
  BY <1>1 DEF AddEquiv, MismatchInv
<1>2. ASSUME Tokens \/ Merge \/ Insert PROVE MismatchInv'
  BY <1>2 DEF Tokens, Merge, Insert, At, Turn, MismatchInv
<1>3. ASSUME Check PROVE MismatchInv'
  <2>1. /\ phase = "check" /\ phase' = "check" /\ temp \in Lists /\ temp' = temp + 1
        /\ mismatch' = (mismatch \/ Differ(equivList[temp].clist))
        /\ reported' = IF mismatch' THEN reported \cup {temp} ELSE reported
        /\ equivList' = equivList /\ type' = type
    BY <1>3 DEF Check, At, Turn, Lists
  <2>2. \A list : Differ(list)' <=> Differ(list)
    BY <2>1 DEF Differ
  <2>3. \A i \in 1..(temp' - 1) : i = temp \/ i \in 1..(temp - 1)
    BY <2>1 DEF TypeInv
  <2>4. ASSUME NEW i \in 1..(temp' - 1), Differ(equivList[i].clist) PROVE i \in reported'
    BY <2>1, <2>3, <2>4 DEF MismatchInv
  <2> QED BY <2>1, <2>2, <2>4 DEF MismatchInv, Differ
<1>4. ASSUME Fields PROVE MismatchInv'
  BY <1>4 DEF Fields, MismatchInv, Lists, Differ
<1>5. ASSUME Proceed PROVE MismatchInv'
  <2>1. UNCHANGED <<equivList, type, reported>> /\ Lists' = Lists
    BY <1>5 DEF Proceed, Lists
  <2>2. CASE phase' = "fields"
    <3>1. phase = "check" /\ temp = Len(equivList) + 1
      BY <1>5, <2>2 DEF Proceed, Over
    <3>2. \A i \in Lists : i \in 1..(temp - 1)
      BY <3>1 DEF TypeInv, Lists
    <3> QED BY <2>1, <2>2, <3>1, <3>2 DEF MismatchInv, Differ
  <2>3. CASE phase' # "fields"
    <3>1. phase' \in {"tokens", "merge", "insert", "check"} /\ (phase' = "check" => temp' = 1)
      BY <1>5, <2>3 DEF Proceed, Over
    <3>2. phase' = "check" => 1..(temp' - 1) = {}
      BY <3>1
    <3> QED BY <3>1, <3>2 DEF MismatchInv
  <2> QED BY <2>2, <2>3
<1>6. ASSUME Done \/ UNCHANGED vars PROVE MismatchInv'
  BY <1>6 DEF Done, vars, MismatchInv, Lists, Differ
<1> QED BY <1>1, <1>2, <1>3, <1>4, <1>5, <1>6 DEF Next

(* Whenever variables of different types share a field, check_equivalences  *)
(* reports the list they are in (typecheck.c:731-770), although it compares *)
(* each type only with the one before.                                      *)
THEOREM MismatchReportedCorrect == Spec => []MismatchReported
<1>1. Init => MismatchInv
  BY DEF Init, MismatchInv
<1> QED BY <1>1, InitType, TypeStep, MismatchStep, MismatchEnough, PTL DEF Spec

-----------------------------------------------------------------------------
(* The merged names, when the lists that are left share no variable. *)

Meet(i, j) == ListNamesIn(i) \cap ListNamesIn(j) # {}
Apart == \A i, j \in Lists : Meet(i, j) => i = j

(* The names of the list are found with its merged name.                    *)
Named(i) == \A n \in ListNamesIn(i) : Found(table, n) /\ Lookup(table, n) = MergeNames(equivList[i].clist)

InsertInv ==
  /\ Apart /\ phase = "insert" => \A i \in 1..(temp - 1) : Named(i)
  /\ Apart /\ Inserted => \A i \in Lists : Named(i)
  /\ phase = "done" => fields = [j \in DOMAIN groups |-> MergedName(groups[j][1].name)]

(* Every action keeps InsertInv.                                            *)
LEMMA InsertStep == TypeInv /\ InsertInv /\ [Next]_vars => InsertInv'
<1> SUFFICES ASSUME TypeInv, InsertInv, [Next]_vars PROVE InsertInv'
  OBVIOUS
<1>0. UNCHANGED <<equivList, table>> => /\ Lists' = Lists /\ (Apart' <=> Apart)
                                        /\ \A i : Named(i)' <=> Named(i)
  <2> SUFFICES ASSUME UNCHANGED <<equivList, table>>
               PROVE  Lists' = Lists /\ (Apart' <=> Apart) /\ \A i : Named(i)' <=> Named(i)
    OBVIOUS
  <2>1. Lists' = Lists /\ \A i : ListNamesIn(i)' = ListNamesIn(i)
    BY DEF Lists, ListNamesIn
  <2>2. \A i, j : Meet(i, j)' <=> Meet(i, j)
    BY <2>1 DEF Meet
  <2>3. \A i : Named(i)' <=> Named(i)
    BY <2>1 DEF Named, Found
  <2> QED BY <2>1, <2>2, <2>3 DEF Apart
<1>1. ASSUME NEW g \in Groups, AddEquiv(g) PROVE InsertInv'
  BY <1>1 DEF AddEquiv, InsertInv, Inserted
<1>2. ASSUME Tokens \/ Merge PROVE InsertInv'
  BY <1>2 DEF Tokens, Merge, At, Turn, InsertInv, Inserted
<1>3. ASSUME Insert PROVE InsertInv'
  <2>1. phase = "insert" /\ phase' = "insert" /\ temp \in Lists /\ temp' = temp + 1 /\ equivList' = equivList
    BY <1>3 DEF Insert, At, Turn, Lists
  <2> DEFINE list == equivList[temp].clist
  <2>2. list \in Seq(Node)
    BY <2>1, ListTypes DEF TypeInv, Lists
  <2>3. table' = InsertAll(table, list, MergeNames(list))
    BY <1>3 DEF Insert, InsertAll
  <2>4. NamesIn(list) = ListNamesIn(temp)
    BY DEF ListNamesIn
  <2> HIDE DEF list
  <2>5. MergeNames(list) \in Seq(Names)
    BY <2>2, ListNames
  <2>6. /\ \A n \in NamesIn(list) : Found(table', n) /\ Lookup(table', n) = MergeNames(list)
        /\ \A n \in Names \ NamesIn(list) : Found(table, n) =>
             Found(table', n) /\ Lookup(table', n) = Lookup(table, n)
    BY <2>2, <2>3, <2>5, InsertFacts DEF TypeInv
  <2>7. ASSUME Apart, NEW i \in 1..(temp' - 1), NEW n \in ListNamesIn(i)
        PROVE  Found(table', n) /\ Lookup(table', n) = MergeNames(equivList[i].clist)
    <3>1. CASE i = temp
      BY <2>4, <2>6, <2>7, <3>1 DEF list
    <3>2. CASE i # temp
      <4>1. i \in 1..(temp - 1) /\ i \in Lists
        BY <2>1, <3>2 DEF TypeInv, Lists
      <4>2. n \notin ListNamesIn(temp)
        BY <2>1, <2>7, <3>2, <4>1 DEF Apart, Meet
      <4>3. Found(table, n) /\ Lookup(table, n) = MergeNames(equivList[i].clist)
        BY <2>1, <2>7, <4>1 DEF InsertInv, Named
      <4>4. n \in Names
        BY <2>7, <4>1, NamesTyped
      <4> QED BY <2>4, <2>6, <4>2, <4>3, <4>4
    <3> QED BY <3>1, <3>2
  <2>8. Lists' = Lists /\ \A i : ListNamesIn(i)' = ListNamesIn(i)
    BY <2>1 DEF Lists, ListNamesIn
  <2>9. Apart' <=> Apart
    BY <2>8 DEF Apart, Meet
  <2>10. Apart' => \A i \in 1..(temp' - 1) : Named(i)'
    BY <2>1, <2>7, <2>8, <2>9 DEF Named, Found
  <2> QED BY <2>1, <2>10 DEF InsertInv, Inserted
<1>4. ASSUME Check PROVE InsertInv'
  <2>1. phase = "check" /\ phase' = "check" /\ UNCHANGED <<equivList, table>>
    BY <1>4 DEF Check, At, Turn
  <2> QED BY <1>0, <2>1 DEF InsertInv, Inserted
<1>5. ASSUME Fields PROVE InsertInv'
  <2>1. /\ phase = "fields" /\ phase' = "done" /\ UNCHANGED <<equivList, table, groups>>
        /\ fields' = [j \in DOMAIN groups |-> MergedName(groups[j][1].name)]
    BY <1>5 DEF Fields
  <2>2. \A n : MergedName(n)' = MergedName(n)
    BY <2>1 DEF MergedName
  <2>3. fields' = [j \in DOMAIN groups' |-> MergedName(groups[j][1].name)']
    BY <2>1, <2>2
  <2> QED BY <1>0, <2>1, <2>3 DEF InsertInv, Inserted
<1>6. ASSUME Proceed PROVE InsertInv'
  <2>1. UNCHANGED <<equivList, table>>
    BY <1>6 DEF Proceed
  <2>2. CASE phase' = "check"
    <3>1. phase = "insert" /\ temp = Len(equivList) + 1
      BY <1>6, <2>2 DEF Proceed, Over
    <3>2. \A i \in Lists : i \in 1..(temp - 1)
      BY <3>1 DEF TypeInv, Lists
    <3> QED BY <1>0, <2>1, <2>2, <3>1, <3>2 DEF InsertInv, Inserted
  <2>3. CASE phase' = "fields"
    <3>1. phase = "check"
      BY <1>6, <2>3 DEF Proceed, Over
    <3> QED BY <1>0, <2>1, <2>3, <3>1 DEF InsertInv, Inserted
  <2>4. CASE phase' \notin {"check", "fields"}
    <3>1. phase' \in {"tokens", "merge", "insert"} /\ (phase' = "insert" => temp' = 1)
      BY <1>6, <2>4 DEF Proceed, Over
    <3>2. phase' = "insert" => 1..(temp' - 1) = {}
      BY <3>1
    <3> QED BY <3>1, <3>2 DEF InsertInv, Inserted
  <2> QED BY <2>2, <2>3, <2>4
<1>7. ASSUME Done \/ UNCHANGED vars PROVE InsertInv'
  <2>1. UNCHANGED <<equivList, table, phase, temp, fields, groups>>
    BY <1>7 DEF Done, vars
  <2>2. \A n : MergedName(n)' = MergedName(n)
    BY <2>1 DEF MergedName
  <2> QED BY <1>0, <2>1, <2>2 DEF InsertInv, Inserted
<1> QED BY <1>1, <1>2, <1>3, <1>4, <1>5, <1>6, <1>7 DEF Next

(* InsertInv holds before the first list.                                   *)
LEMMA InitInsert == Init => InsertInv
  BY DEF Init, InsertInv, Inserted

(* What the merged names of the variables of a list are.                    *)
LEMMA MergedNames ==
  ASSUME InsertInv, Apart, Inserted, NEW i \in Lists, NEW n \in ListNamesIn(i)
  PROVE  MergedName(n) = MergeNames(equivList[i].clist)
  BY DEF InsertInv, Named, Lookup, MergedName, Found, Slot, Table!InTable

(* If no two lists share a variable, a class is the names of one list.      *)
LEMMA OneNameEnough == TypeInv /\ TieInv /\ InsertInv /\ Apart => OneNamePerClass
<1> SUFFICES ASSUME TypeInv, TieInv, InsertInv, Apart, Inserted, NEW a \in Used, NEW b \in Used
             PROVE  (MergedName(a) = MergedName(b)) <=> b \in Class(a)
  BY DEF OneNamePerClass
<1>1. PICK i \in Lists : a \in ListNamesIn(i)
  BY DEF TieInv
<1>2. PICK j \in Lists : b \in ListNamesIn(j)
  BY DEF TieInv
<1>3. MergedName(a) = MergeNames(equivList[i].clist) /\ MergedName(b) = MergeNames(equivList[j].clist)
  BY <1>1, <1>2, MergedNames
<1>4. ASSUME MergedName(a) = MergedName(b) PROVE b \in Class(a)
  <2>1. \A k : {MergeNames(equivList[k].clist)[m] : m \in DOMAIN MergeNames(equivList[k].clist)} = ListNamesIn(k)
    BY DEF MergeNames, ListNamesIn, NamesIn
  <2>2. ListNamesIn(i) = ListNamesIn(j)
    BY <1>3, <1>4, <2>1
  <2> QED BY <1>1, <1>2, <2>2 DEF TieInv, Tied
<1>5. ASSUME b \in Class(a) PROVE MergedName(a) = MergedName(b)
  <2>1. Kept(ListNamesIn(i))
    <3> SUFFICES ASSUME NEW k \in DOMAIN groups, NEW n \in NamesIn(groups[k]), n \in ListNamesIn(i)
                 PROVE  NamesIn(groups[k]) \subseteq ListNamesIn(i)
      BY DEF Kept
    <3>1. PICK m \in Lists : NamesIn(groups[k]) \subseteq ListNamesIn(m)
      BY DEF TieInv
    <3>2. m = i
      BY <3>1 DEF Apart, Meet
    <3> QED BY <3>1, <3>2
  <2>2. ListNamesIn(i) \in SUBSET Names
    BY NamesTyped
  <2>3. b \in ListNamesIn(i)
    BY <1>1, <1>5, <2>1, <2>2 DEF Class
  <2> QED BY <1>3, <2>3, MergedNames
<1> QED BY <1>4, <1>5

(* The head of a list of the statements is of the class of its variables.   *)
LEMMA AccessesEnough == TypeInv /\ TieInv /\ InsertInv /\ Apart => AccessesDeclared
<1> SUFFICES ASSUME TypeInv, TieInv, InsertInv, Apart, phase = "done", NEW n \in Used
             PROVE  MergedName(n) \in ToSet(fields)
  BY DEF AccessesDeclared
<1>1. Inserted
  BY DEF Inserted
<1>2. PICK j \in DOMAIN groups : n \in NamesIn(groups[j])
  BY DEF Used
<1>3. PICK i \in Lists : NamesIn(groups[j]) \subseteq ListNamesIn(i)
  BY DEF TieInv
<1>4. groups[j][1].name \in NamesIn(groups[j])
  <2>1. groups[j] \in Seq(Node) /\ groups[j] # <<>>
    BY DEF TypeInv
  <2>2. 1 \in DOMAIN groups[j]
    BY <2>1
  <2> QED BY <2>2 DEF NamesIn
<1>5. MergedName(n) = MergedName(groups[j][1].name)
  BY <1>1, <1>2, <1>3, <1>4, MergedNames
<1>6. fields = [k \in DOMAIN groups |-> MergedName(groups[k][1].name)]
  BY DEF InsertInv
<1>7. j \in DOMAIN fields /\ fields[j] = MergedName(groups[j][1].name)
  BY <1>6
<1> QED BY <1>5, <1>7 DEF ToSet

-----------------------------------------------------------------------------
(* At the end no two lists share a variable, if there are at most three. *)

OneToken(i, j) == equivList[i].token = equivList[j].token

(* The first loop of merge_equivalences, before the turn of each of three   *)
(* lists.  With four the token that the first turn gave to the third list   *)
(* may change for good.                                                     *)
TokensInv ==
  /\ temp = 2 => \A j \in Lists : Meet(1, j) => OneToken(1, j)
  /\ temp = 3 => /\ \A j \in Lists : Meet(2, j) => OneToken(2, j)
                 /\ 3 \in Lists /\ Meet(1, 2) /\ Meet(1, 3) => OneToken(1, 3)
  /\ temp = 4 => \A i, j \in Lists : Meet(i, j) => OneToken(i, j)

(* Lists that share a variable have one token when the second loop starts,  *)
(* or there are none and needsMerge says so.                                *)
ApartInv ==
  /\ phase = "parse" => Len(groups) = Len(equivList) /\ Len(groups) <= MaxGroups /\ ~ needsMerge
  /\ phase = "tokens" => Len(equivList) <= MaxGroups /\ TokensInv
  /\ phase \in {"parse", "tokens"} /\ ~ needsMerge =>
       /\ \A i, j \in Lists : OneToken(i, j) => i = j
       /\ \A i \in 1..(temp - 1), j \in Lists : Meet(i, j) => i = j
  /\ phase = "merge" => \A i, j \in Lists : Meet(i, j) => OneToken(i, j)
  /\ phase \in {"insert", "check", "fields", "done"} => Apart

(* ApartInv holds before the first list.                                    *)
LEMMA InitApart == Init => ApartInv
<1> SUFFICES ASSUME Init PROVE ApartInv
  OBVIOUS
<1>1. /\ Lists = {} /\ Len(groups) = 0 /\ Len(equivList) = 0 /\ phase = "parse" /\ needsMerge = FALSE
      /\ 1..(temp - 1) = {}
  BY DEF Init, Lists
<1>2. 0 <= MaxGroups
  OBVIOUS
<1> QED BY <1>1, <1>2 DEF ApartInv

(* A turn of the first loop, for two lists.                                 *)
LEMMA TokensTurn ==
  ASSUME TypeInv, Tokens
  PROVE  /\ temp \in Lists /\ Lists' = Lists /\ (\A i, j \in Lists : Meet(i, j)' <=> Meet(i, j))
         /\ \A i, j : Meet(i, j) <=> Meet(j, i)
         /\ \A j \in Lists : equivList'[j].token = IF Meet(temp, j) THEN equivList[temp].token ELSE equivList[j].token
         /\ equivList'[temp].token = equivList[temp].token
<1>1. /\ equivList' \in Seq(EqList) /\ Len(equivList') = Len(equivList) /\ temp \in Lists
      /\ \A j \in Lists :
           /\ equivList'[j].clist = equivList[j].clist
           /\ equivList'[j].token = IF Overlap(temp, j) THEN equivList[temp].token ELSE equivList[j].token
  BY TokensEffect
<1>2. Lists' = Lists
  BY <1>1 DEF Lists, TypeInv
<1>3. \A j \in Lists : ListNamesIn(j)' = ListNamesIn(j)
  BY <1>1 DEF ListNamesIn
<1>4. \A j \in Lists : Overlap(temp, j) <=> Meet(temp, j) /\ equivList[temp].token # equivList[j].token
  BY DEF Overlap, Meet, ListNamesIn
<1> QED BY <1>1, <1>2, <1>3, <1>4 DEF Meet

(* Every action keeps ApartInv, with at most three lists.                   *)
LEMMA ApartStep ==
  ASSUME MaxGroups <= 3
  PROVE  TypeInv /\ TypeInv' /\ ApartInv /\ [Next]_vars => ApartInv'
<1> SUFFICES ASSUME TypeInv, TypeInv', ApartInv, [Next]_vars PROVE ApartInv'
  OBVIOUS
<1>0. /\ equivList \in Seq(EqList) /\ Lists = 1..Len(equivList) /\ Len(equivList) \in Nat
      /\ temp \in 1..(Len(equivList) + 1)
  BY DEF TypeInv, Lists
<1>1. ASSUME NEW g \in Groups, AddEquiv(g) PROVE ApartInv'
  <2>1. PICK list \in Seq(Node) :
           /\ list = Nodes(g, Len(groups) + 1) /\ list # <<>>
           /\ \A x \in ToSet(list) : x.id[1] = Len(groups) + 1
           /\ groups' \in Seq(Seq(Node)) /\ Len(groups') = Len(groups) + 1 /\ Len(groups) \in Nat
           /\ groups'[Len(groups) + 1] = list
           /\ \A j \in DOMAIN groups : groups'[j] = groups[j]
           /\ equivList' \in Seq(EqList) /\ Len(equivList') = Len(equivList) + 1
           /\ equivList'[1].token = Len(groups) + 1 /\ equivList'[1].clist = list
           /\ \A k \in Lists : equivList'[k + 1] = equivList[k]
    BY <1>1, AddEffect
  <2>2. /\ phase = "parse" /\ phase' = "parse" /\ temp' = 1 /\ needsMerge' = needsMerge
        /\ Len(groups) < MaxGroups
    BY <1>1 DEF AddEquiv, TypeInv
  <2>3. Len(groups') <= MaxGroups /\ Len(groups') = Len(equivList') /\ ~ needsMerge'
    BY <2>1, <2>2 DEF ApartInv
  <2>4. \A k \in Lists' : k = 1 \/ (k - 1 \in Lists /\ equivList'[k] = equivList[k - 1])
    <3> TAKE k \in Lists'
    <3>1. k \in 1..(Len(equivList) + 1)
      BY <1>0, <2>1 DEF Lists
    <3>2. CASE k # 1
      <4>1. k - 1 \in Lists /\ (k - 1) + 1 = k
        BY <1>0, <3>1, <3>2
      <4> QED BY <2>1, <4>1
    <3> QED BY <3>2
  <2>5. ASSUME NEW i \in Lists', NEW j \in Lists', equivList'[i].token = equivList'[j].token PROVE i = j
    <3>1. \A k \in Lists : equivList[k].token \in 1..Len(groups)
      BY <2>2 DEF TypeInv
    <3>2. Len(groups) + 1 \notin 1..Len(groups)
      BY <2>1
    <3>3. CASE i # 1 /\ j # 1
      <4>1. i - 1 = j - 1
        BY <2>2, <2>4, <2>5, <3>3 DEF ApartInv, OneToken
      <4>2. i \in Int /\ j \in Int
        BY <2>1 DEF Lists
      <4> QED BY <4>1, <4>2
    <3>4. CASE i = 1 \/ j = 1
      <4>1. equivList'[i].token = Len(groups) + 1 /\ equivList'[j].token = Len(groups) + 1
        BY <2>1, <2>5, <3>4
      <4>2. \A k \in Lists' : k # 1 => equivList'[k].token \in 1..Len(groups)
        BY <2>4, <3>1
      <4> QED BY <3>2, <4>1, <4>2
    <3> QED BY <3>3, <3>4
  <2>6. 1..(temp' - 1) = {}
    BY <2>2
  <2> QED BY <2>2, <2>3, <2>5, <2>6 DEF ApartInv, OneToken
<1>2. ASSUME Tokens PROVE ApartInv'
  <2>1. /\ temp \in Lists /\ Lists' = Lists /\ (\A i, j \in Lists : Meet(i, j)' <=> Meet(i, j))
        /\ \A i, j : Meet(i, j) <=> Meet(j, i)
        /\ \A j \in Lists : equivList'[j].token = IF Meet(temp, j) THEN equivList[temp].token ELSE equivList[j].token
        /\ equivList'[temp].token = equivList[temp].token
    BY <1>2, TokensTurn
  <2>2. /\ phase = "tokens" /\ phase' = "tokens" /\ temp' = temp + 1 /\ Len(equivList') = Len(equivList)
        /\ needsMerge' = (needsMerge \/ \E j \in Lists : Overlap(temp, j))
    BY <1>2, TokensEffect DEF Tokens, At, Turn, Lists
  <2>3. Len(equivList) <= 3 /\ Len(equivList) <= MaxGroups /\ TokensInv /\ temp \in 1..3
    <3>1. Len(equivList) <= MaxGroups /\ TokensInv
      BY <2>2 DEF ApartInv
    <3>2. Len(equivList) <= 3
      BY <1>0, <3>1
    <3> QED BY <1>0, <2>1, <3>1, <3>2
  <2>4. \A i, j \in Lists : OneToken(i, j)' <=> equivList'[i].token = equivList'[j].token
    BY DEF OneToken
  <2>0. PICK turn \in 1..3 : turn = temp
    BY <2>3
  <2>5. \A j \in Lists : Meet(turn, j) => OneToken(turn, j)'
    BY <2>0, <2>1, <2>4
  <2>6. \A i, j \in Lists : OneToken(i, j) /\ OneToken(i, temp) => OneToken(i, j)'
    BY <2>1, <2>4 DEF OneToken
  <2>7. TokensInv'
    <3>1. CASE temp = 1
      <4>1. temp' = 2 /\ turn = 1 /\ 1 \in Lists
        BY <2>0, <2>1, <2>2, <3>1
      <4>2. \A j \in Lists' : Meet(1, j)' => OneToken(1, j)'
        BY <2>1, <2>5, <4>1
      <4> QED BY <4>1, <4>2 DEF TokensInv
    <3>2. CASE temp = 2
      <4>1. 1 \in Lists /\ 2 \in Lists
        BY <1>0, <2>1, <3>2
      <4>2. ASSUME 3 \in Lists, Meet(1, 2), Meet(1, 3) PROVE OneToken(1, 3)'
        <5>1. OneToken(1, 2) /\ OneToken(1, 3)
          BY <2>3, <3>2, <4>1, <4>2 DEF TokensInv
        <5> QED BY <2>6, <3>2, <4>1, <4>2, <5>1
      <4>3. temp' = 3
        BY <2>2, <3>2
      <4>4. \A j \in Lists' : Meet(2, j)' => OneToken(2, j)'
        BY <2>0, <2>1, <2>5, <3>2, <4>1
      <4>5. 3 \in Lists' /\ Meet(1, 2)' /\ Meet(1, 3)' => OneToken(1, 3)'
        BY <2>1, <4>1, <4>2
      <4> QED BY <4>3, <4>4, <4>5 DEF TokensInv
    <3>3. CASE temp = 3
      <4>1. 1 \in Lists /\ 2 \in Lists /\ 3 \in Lists /\ Lists = 1..3
        BY <1>0, <2>1, <2>3, <3>3
      <4>2. \A j \in Lists : Meet(2, j) => OneToken(2, j)
        BY <2>3, <3>3 DEF TokensInv
      <4>3. Meet(1, 2) /\ Meet(1, 3) => OneToken(1, 3)
        BY <2>3, <3>3, <4>1 DEF TokensInv
      <4>4. Meet(1, 2) => OneToken(1, 2)'
        <5> SUFFICES ASSUME Meet(1, 2) PROVE OneToken(1, 2)'
          OBVIOUS
        <5>1. OneToken(1, 2)
          BY <2>1, <4>1, <4>2 DEF OneToken
        <5>2. CASE Meet(3, 1)
          <6>1. OneToken(1, 3)
            BY <2>1, <4>3, <5>2
          <6> QED BY <2>6, <3>3, <4>1, <5>1, <6>1
        <5>3. CASE Meet(3, 2)
          <6>1. OneToken(2, 3)
            BY <2>1, <4>1, <4>2, <5>3
          <6>2. OneToken(1, 3)
            BY <5>1, <6>1 DEF OneToken
          <6> QED BY <2>6, <3>3, <4>1, <5>1, <6>2
        <5>4. CASE ~ Meet(3, 1) /\ ~ Meet(3, 2)
          BY <2>1, <2>4, <3>3, <4>1, <5>1, <5>4 DEF OneToken
        <5> QED BY <5>2, <5>3, <5>4
      <4>5. \A i, j \in Lists : OneToken(i, j)' => OneToken(j, i)'
        BY <2>4
      <4>6. ASSUME NEW i \in Lists, NEW j \in Lists, Meet(i, j) PROVE OneToken(i, j)'
        <5>1. CASE i = 3
          BY <2>0, <2>5, <3>3, <4>6, <5>1
        <5>2. CASE j = 3
          BY <2>0, <2>1, <2>5, <3>3, <4>5, <4>6, <5>2
        <5>3. CASE i = j
          BY <2>4, <5>3
        <5>4. CASE i # 3 /\ j # 3 /\ i # j
          <6>1. (i = 1 /\ j = 2) \/ (i = 2 /\ j = 1)
            BY <4>1, <5>4
          <6> QED BY <2>1, <4>1, <4>4, <4>5, <4>6, <6>1
        <5> QED BY <5>1, <5>2, <5>3, <5>4
      <4>7. temp' = 4
        BY <2>2, <3>3
      <4> QED BY <2>1, <4>6, <4>7 DEF TokensInv
    <3> QED BY <2>3, <3>1, <3>2, <3>3
  <2>8. ASSUME ~ needsMerge'
        PROVE  /\ \A i, j \in Lists : OneToken(i, j)' => i = j
               /\ \A i \in 1..(temp' - 1), j \in Lists : Meet(i, j)' => i = j
    <3>1. ~ needsMerge /\ \A j \in Lists : ~ Overlap(temp, j)
      BY <2>2, <2>8
    <3>2. /\ \A i, j \in Lists : OneToken(i, j) => i = j
          /\ \A i \in 1..(temp - 1), j \in Lists : Meet(i, j) => i = j
      BY <2>2, <3>1 DEF ApartInv
    <3>3. \A j \in Lists : Meet(temp, j) => j = temp
      BY <2>1, <3>1, <3>2 DEF Overlap, Meet, ListNamesIn, OneToken
    <3>4. \A j \in Lists : equivList'[j].token = equivList[j].token
      BY <2>1, <3>3
    <3>5. \A i \in 1..(temp' - 1) : i \in Lists /\ (i = temp \/ i \in 1..(temp - 1))
      BY <1>0, <2>1, <2>2
    <3>6. \A i, j \in Lists : OneToken(i, j)' => i = j
      BY <2>4, <3>2, <3>4 DEF OneToken
    <3>7. \A i \in 1..(temp' - 1), j \in Lists : Meet(i, j)' => i = j
      BY <2>1, <3>2, <3>3, <3>5
    <3> QED BY <3>6, <3>7
  <2> QED BY <2>1, <2>2, <2>3, <2>7, <2>8 DEF ApartInv
<1>3. ASSUME Merge PROVE ApartInv'
  <2>1. PICK g, L : Merged(g, equivList', L)
    BY <1>3, MergeEffect
  <2>2. Lists' = 1..Len(equivList') /\ phase = "merge" /\ phase' = "merge"
    BY <1>3, <2>1 DEF Merged, Lists, Merge, At, Turn
  <2>3. \A k \in Lists' : \A n \in ListNamesIn(k)' :
             \E j \in Lists : n \in ListNamesIn(j) /\ (IF g[k] = temp THEN Same(j) ELSE j = g[k])
    BY <2>1, <2>2, MergeNone DEF ListNamesIn
  <2>4. \A k \in Lists' :
            /\ g[k] = temp => equivList'[k].token = equivList[temp].token
            /\ g[k] # temp => equivList'[k] = equivList[g[k]]
    BY <2>1, <2>2 DEF Merged
  <2>5. ASSUME NEW i \in Lists', NEW j \in Lists', Meet(i, j)' PROVE OneToken(i, j)'
    <3>1. PICK n : n \in ListNamesIn(i)' /\ n \in ListNamesIn(j)'
      BY <2>5 DEF Meet
    <3>2. PICK p \in Lists : n \in ListNamesIn(p) /\ (IF g[i] = temp THEN Same(p) ELSE p = g[i])
      BY <2>3, <3>1
    <3>3. PICK q \in Lists : n \in ListNamesIn(q) /\ (IF g[j] = temp THEN Same(q) ELSE q = g[j])
      BY <2>3, <3>1
    <3>4. equivList[p].token = equivList'[i].token
      BY <2>4, <3>2 DEF Same
    <3>5. equivList[q].token = equivList'[j].token
      BY <2>4, <3>3 DEF Same
    <3>6. OneToken(p, q)
      BY <2>2, <3>2, <3>3 DEF ApartInv, Meet
    <3> QED BY <3>4, <3>5, <3>6 DEF OneToken
  <2> QED BY <2>2, <2>5 DEF ApartInv
<1>4. ASSUME UNCHANGED equivList PROVE Lists' = Lists /\ (Apart' <=> Apart)
                                     /\ \A i, j : (Meet(i, j)' <=> Meet(i, j)) /\ (OneToken(i, j)' <=> OneToken(i, j))
  <2>1. Lists' = Lists /\ \A i : ListNamesIn(i)' = ListNamesIn(i)
    BY <1>4 DEF Lists, ListNamesIn
  <2>2. \A i, j : (Meet(i, j)' <=> Meet(i, j)) /\ (OneToken(i, j)' <=> OneToken(i, j))
    BY <1>4, <2>1 DEF Meet, OneToken
  <2> QED BY <2>1, <2>2 DEF Apart
<1>5. ASSUME Insert \/ Check \/ Fields PROVE ApartInv'
  <2>1. /\ UNCHANGED equivList /\ phase \in {"insert", "check", "fields"}
        /\ phase' \in {"insert", "check", "done"}
    BY <1>5 DEF Insert, Check, Fields, At, Turn
  <2> QED BY <1>4, <2>1 DEF ApartInv
<1>6. ASSUME Proceed PROVE ApartInv'
  <2>1. UNCHANGED <<equivList, groups, needsMerge>>
    BY <1>6 DEF Proceed
  <2>2. CASE phase = "parse"
    <3>1. phase' = "tokens" /\ temp' = 1 /\ temp = 1
      BY <1>6, <2>2 DEF Proceed, Over, TypeInv
    <3>2. TokensInv' /\ Len(equivList') <= MaxGroups
      BY <2>1, <2>2, <3>1 DEF TokensInv, ApartInv
    <3>3. 1..(temp' - 1) = {} /\ ~ needsMerge /\ \A i, j \in Lists : OneToken(i, j) => i = j
      BY <2>2, <3>1 DEF ApartInv
    <3> QED BY <1>4, <2>1, <3>1, <3>2, <3>3 DEF ApartInv
  <2>3. CASE phase = "tokens"
    <3>1. temp = Len(equivList) + 1 /\ phase' = IF needsMerge THEN "merge" ELSE "insert"
      BY <1>6, <2>3 DEF Proceed, Over
    <3>2. Lists = 1..(temp - 1) /\ Len(equivList) <= 3 /\ TokensInv
      BY <1>0, <2>3, <3>1 DEF ApartInv
    <3>3. CASE needsMerge
      <4>1. \A i, j \in Lists : OneToken(i, j) => OneToken(j, i)
        BY DEF OneToken
      <4>2. \A i \in Lists : OneToken(i, i)
        BY DEF OneToken
      <4>3. \A i, j \in Lists : Meet(i, j) => Meet(j, i)
        BY DEF Meet
      <4>4. temp \in 1..4
        BY <1>0, <3>1, <3>2
      <4>5. ASSUME NEW i \in Lists, NEW j \in Lists, Meet(i, j) PROVE OneToken(i, j)
        <5>1. CASE temp = 4
          BY <3>2, <4>5, <5>1 DEF TokensInv
        <5>2. CASE temp = 3
          <6>1. i \in 1..2 /\ j \in 1..2 /\ \A k \in Lists : Meet(2, k) => OneToken(2, k)
            BY <3>2, <5>2 DEF TokensInv
          <6>2. i = j \/ i = 2 \/ j = 2
            BY <6>1
          <6> QED BY <4>1, <4>2, <4>3, <4>5, <6>1, <6>2
        <5>3. CASE temp \in 1..2
          <6>1. i = j
            BY <3>2, <5>3
          <6> QED BY <4>2, <6>1
        <5> QED BY <4>4, <5>1, <5>2, <5>3
      <4> QED BY <1>4, <2>1, <3>1, <3>3, <4>5 DEF ApartInv
    <3>4. CASE ~ needsMerge
      <4>1. Apart
        BY <2>3, <3>2, <3>4 DEF ApartInv, Apart
      <4> QED BY <1>4, <2>1, <3>1, <3>4, <4>1 DEF ApartInv
    <3> QED BY <3>3, <3>4
  <2>4. CASE phase = "merge"
    <3>1. phase' = "insert" /\ temp = Len(equivList) + 1
      BY <1>6, <2>4 DEF Proceed, Over
    <3>2. Lists = 1..(temp - 1)
      BY <1>0, <3>1
    <3>3. Apart
      BY <2>4, <3>2 DEF ApartInv, Apart, OneToken, TypeInv
    <3> QED BY <1>4, <2>1, <3>1, <3>3 DEF ApartInv
  <2>5. CASE phase \in {"insert", "check"}
    <3>1. phase' \in {"check", "fields"}
      BY <1>6, <2>5 DEF Proceed, Over
    <3> QED BY <1>4, <2>1, <2>5, <3>1 DEF ApartInv
  <2>6. phase \in {"parse", "tokens", "merge", "insert", "check"}
    BY <1>6 DEF Proceed, Over
  <2> QED BY <2>2, <2>3, <2>4, <2>5, <2>6
<1>7. ASSUME Done \/ UNCHANGED vars PROVE ApartInv'
  <2>1. UNCHANGED <<equivList, groups, needsMerge, temp, phase>>
    BY <1>7 DEF Done, vars
  <2>2. TokensInv' <=> TokensInv
    BY <1>4, <2>1 DEF TokensInv
  <2> QED BY <1>4, <2>1, <2>2 DEF ApartInv
<1> QED BY <1>1, <1>2, <1>3, <1>5, <1>6, <1>7 DEF Next

(* The whole invariant, with at most three lists.                           *)
LEMMA ApartAlways ==
  ASSUME MaxGroups <= 3
  PROVE  Spec => [](TypeInv /\ TieInv /\ InsertInv /\ ApartInv)
<1>1. TypeInv /\ TieInv /\ InsertInv /\ ApartInv /\ [Next]_vars =>
        TypeInv' /\ TieInv' /\ InsertInv' /\ ApartInv'
  BY TypeStep, TieStep, InsertStep, ApartStep
<1> QED BY <1>1, InitType, InitTie, InitInsert, InitApart, PTL DEF Spec

(* With at most three lists in the EQUIVALENCE statements of a unit, two    *)
(* variables get one merged name exactly if the statements tie them         *)
(* (typecheck.c merge_equivalences, insertEquivalences).                    *)
THEOREM OneNamePerClassCorrect ==
  ASSUME MaxGroups <= 3
  PROVE  Spec => []OneNamePerClass
<1>1. TypeInv /\ TieInv /\ InsertInv /\ ApartInv => OneNamePerClass
  <2>1. ApartInv /\ Inserted => Apart
    BY DEF ApartInv, Inserted
  <2>2. ~ Inserted => OneNamePerClass
    BY DEF OneNamePerClass
  <2> QED BY <2>1, <2>2, OneNameEnough
<1> QED BY <1>1, ApartAlways, PTL

(* And every variable is then accessed under a name that insert_fields has  *)
(* declared a field for (codegen.c).                                        *)
THEOREM AccessesDeclaredCorrect ==
  ASSUME MaxGroups <= 3
  PROVE  Spec => []AccessesDeclared
<1>1. TypeInv /\ TieInv /\ InsertInv /\ ApartInv => AccessesDeclared
  <2>1. ApartInv /\ phase = "done" => Apart
    BY DEF ApartInv
  <2>2. phase # "done" => AccessesDeclared
    BY DEF AccessesDeclared
  <2> QED BY <2>1, <2>2, AccessesEnough
<1> QED BY <1>1, ApartAlways, PTL

(* With more lists the names still are right whenever no two of the lists   *)
(* that are left share a variable, which the second loop was to achieve.    *)
THEOREM NamesCorrectIfApart == Spec => [](Apart => OneNamePerClass /\ AccessesDeclared)
<1>1. TypeInv /\ TieInv /\ InsertInv /\ [Next]_vars => TypeInv' /\ TieInv' /\ InsertInv'
  BY TypeStep, TieStep, InsertStep
<1>2. TypeInv /\ TieInv /\ InsertInv => (Apart => OneNamePerClass /\ AccessesDeclared)
  BY OneNameEnough, AccessesEnough
<1> QED BY <1>1, <1>2, InitType, InitTie, InitInsert, PTL DEF Spec

=============================================================================
