-------------------------- MODULE MapRecordsProofs --------------------------
(***************************************************************************)
(* Records, locks and hash table of a Map, for any number of records, keys *)
(* and iterators, and any nesting of forEach: counts are exact, no walk is *)
(* at a record that was freed, table and list agree, and the whole         *)
(* implements MapData.                                                     *)
(***************************************************************************)
EXTENDS MapRecords, FiniteSetTheorems, SequenceTheorems, WellFoundedInduction, TLAPS

----------------------------------------------------------------------------
(* The inductive invariant *)

\* The records of the list that are not empty
Filled == {r \in Allocated : key[r] # None}

\* The list is in the order of the serial numbers, each used once.
Sorted(s, f) == \A i, j \in DOMAIN s : i < j => f[s[i]] < f[s[j]]
OrderInv ==
  /\ Sorted(records, serial)
  /\ \A r \in Allocated : serial[r] \in 1..added

\* Who walks is at a record of the list, or nowhere.
WalkInv ==
  /\ IsFiniteSet(live)
  /\ WalksAreAtRecords
  /\ \A i \in Iter : i \notin live \/ i \in ended => cur_record[i] = None

\* What is in the list counts; what is not in the list, or is empty, holds nothing.
HeldInv ==
  /\ \A r \in Allocated : ref_count[r] > 0
  /\ \A r \in Rec \ Allocated : key[r] = None
  /\ \A r \in Rec : key[r] = None => value[r] = None
  /\ \A r \in Rec : value[r] \in live \cup {None}

TableInv ==
  /\ table = IF clearing = None /\ ~crashed THEN Filled ELSE {}
  /\ \A r, q \in Filled : key[r] = key[q] => r = q
  /\ IsFiniteSet(Filled)
  /\ record_count = Cardinality(Filled)

\* js_map_clear leaves nothing behind.
ClearInv ==
  clearing \in Allocated /\ ~crashed =>
     \A r \in Allocated : serial[r] < serial[clearing] => key[r] = None

IInv == /\ TypeOK /\ CountsExact /\ OrderInv /\ WalkInv /\ HeldInv /\ TableInv /\ ClearInv

----------------------------------------------------------------------------
(* Sequences and finite sets *)

\* A set of natural numbers that is not empty has a least element.
LEMMA Least ==
  ASSUME NEW T \in SUBSET Nat, T # {}
  PROVE  \E n \in T : \A m \in T : n <= m
<1> DEFINE R == OpToRel(<, Nat)
<1>1. IsWellFoundedOn(R, Nat)
  BY NatLessThanWellFounded
<1>2. \A x, y \in Nat : y < x => <<y, x>> \in R
  BY DEF OpToRel
<1> HIDE DEF R
<1>3. PICK x \in T : \A y \in T : ~ (<<y, x>> \in R)
  BY <1>1, WFMin
<1>4. \A y \in T : y \in Nat
  OBVIOUS
<1>5. \A y \in T : ~ (y < x)
  BY <1>2, <1>3, <1>4, Zenon
<1> QED BY <1>4, <1>5

\* The place of an element in a sequence.
LEMMA Place ==
  ASSUME NEW S, NEW s \in Seq(S), NEW x \in Range(s)
  PROVE  LET p == CHOOSE j \in DOMAIN s : s[j] = x
         IN  p \in 1..Len(s) /\ s[p] = x /\ x \in S
<1>1. PICK j \in DOMAIN s : s[j] = x
  BY DEF Range
<1>2. \A l \in DOMAIN s : s[l] \in S
  OBVIOUS
<1> QED BY <1>1, <1>2

\* The list without one of its records.
LEMMA RemoveOne ==
  ASSUME NEW S, NEW s \in Seq(S), IsInjective(s), NEW x \in Range(s)
  PROVE  LET t == RemoveAt(s, CHOOSE j \in DOMAIN s : s[j] = x)
         IN  /\ t \in Seq(S)
             /\ IsInjective(t)
             /\ Range(t) = Range(s) \ {x}
             /\ \A f : Sorted(s, f) => Sorted(t, f)
<1> DEFINE p == CHOOSE j \in DOMAIN s : s[j] = x
           t == RemoveAt(s, p)
           a == SubSeq(s, 1, p - 1)
           b == SubSeq(s, p + 1, Len(s))
           from(i) == IF i < p THEN i ELSE i + 1
<1>1. p \in 1..Len(s) /\ s[p] = x
  BY Place
<1>2. Len(s) \in Nat /\ DOMAIN s = 1..Len(s) /\ \A i \in 1..Len(s) : s[i] \in S
  OBVIOUS
<1> HIDE DEF p
<1>3. /\ a \in Seq(S) /\ Len(a) = p - 1
      /\ \A i \in 1..p - 1 : a[i] = s[i]
  <2>1. 1 \in Int /\ p - 1 \in Int /\ \A i \in 1..p - 1 : s[i] \in S
    BY <1>1, <1>2
  <2>2. /\ a \in Seq(S)
        /\ Len(a) = IF 1 <= p - 1 THEN p - 1 - 1 + 1 ELSE 0
        /\ \A i \in 1..p - 1 - 1 + 1 : a[i] = s[1 + i - 1]
    BY <2>1, SubSeqProperties
  <2> QED BY <1>1, <1>2, <2>2
<1>4. /\ b \in Seq(S) /\ Len(b) = Len(s) - p
      /\ \A i \in 1..Len(s) - p : b[i] = s[p + i]
  <2>1. p + 1 \in Int /\ Len(s) \in Int /\ \A i \in p + 1..Len(s) : s[i] \in S
    BY <1>1, <1>2
  <2>2. /\ b \in Seq(S)
        /\ Len(b) = IF p + 1 <= Len(s) THEN Len(s) - (p + 1) + 1 ELSE 0
        /\ \A i \in 1..Len(s) - (p + 1) + 1 : b[i] = s[p + 1 + i - 1]
    BY <2>1, SubSeqProperties
  <2>3. Len(s) - (p + 1) + 1 = Len(s) - p
    BY <1>1, <1>2
  <2>4. \A i \in 1..Len(s) - p : p + 1 + i - 1 = p + i
    BY <1>1, <1>2
  <2>5. \A i \in 1..Len(s) - p : b[i] = s[p + i]
    BY <2>2, <2>3, <2>4
  <2>6. Len(b) = Len(s) - p
    <3>1. Len(b) = IF p + 1 <= Len(s) THEN Len(s) - (p + 1) + 1 ELSE 0
      BY <2>2
    <3> HIDE DEF b
    <3>2. p \in Nat /\ p <= Len(s) /\ Len(s) \in Nat
      BY <1>1, <1>2
    <3>3. CASE p + 1 <= Len(s)
      BY <3>1, <3>2, <3>3
    <3>4. CASE ~ (p + 1 <= Len(s))
      BY <3>1, <3>2, <3>4
    <3> QED BY <3>3, <3>4
  <2> QED BY <2>2, <2>5, <2>6
<1> HIDE DEF a, b
<1>5. t = a \o b
  BY DEF RemoveAt, a, b
<1> HIDE DEF t
<1>6. /\ t \in Seq(S) /\ Len(t) = Len(a) + Len(b)
      /\ \A i \in 1..Len(a) + Len(b) : t[i] = IF i <= Len(a) THEN a[i] ELSE b[i - Len(a)]
  BY <1>3, <1>4, <1>5, ConcatProperties
<1>7. /\ Len(t) = Len(s) - 1 /\ DOMAIN t = 1..Len(s) - 1
      /\ \A i \in 1..Len(s) - 1 : t[i] = s[from(i)]
  <2>1. Len(t) = Len(s) - 1 /\ DOMAIN t = 1..Len(s) - 1
    BY <1>1, <1>2, <1>3, <1>4, <1>6
  <2>2. ASSUME NEW i \in 1..Len(s) - 1 PROVE t[i] = s[from(i)]
    <3>1. CASE i < p
      <4>1. i \in 1..p - 1 /\ i <= Len(a) /\ i \in 1..Len(a) + Len(b)
        BY <1>1, <1>2, <1>3, <1>4, <3>1
      <4>2. t[i] = a[i]
        BY <1>6, <4>1
      <4> QED BY <1>3, <3>1, <4>1, <4>2
    <3>2. CASE ~ (i < p)
      <4>1. t[i] = b[i - (p - 1)]
        BY SMTT(30), <1>1, <1>2, <1>3, <1>4, <1>6, <3>2
      <4>2. i - (p - 1) \in 1..Len(s) - p
        BY <1>1, <1>2, <3>2
      <4>3. b[i - (p - 1)] = s[p + (i - (p - 1))]
        BY <1>4, <4>2
      <4>4. p + (i - (p - 1)) = i + 1
        BY <1>1, <1>2
      <4> QED BY <3>2, <4>1, <4>3, <4>4
    <3> QED BY <3>1, <3>2
  <2> QED BY <2>1, <2>2
<1>8. \A i \in 1..Len(s) - 1 : from(i) \in 1..Len(s) /\ from(i) # p
  BY <1>1, <1>2
<1>9. \A i, j \in 1..Len(s) - 1 : i < j => from(i) < from(j)
  BY <1>1, <1>2
<1>10. \A j \in 1..Len(s) : j # p => \E i \in 1..Len(s) - 1 : from(i) = j
  <2> TAKE j \in 1..Len(s)
  <2> HAVE j # p
  <2>1. CASE j < p
    <3>1. j \in 1..Len(s) - 1 /\ from(j) = j
      BY <1>1, <1>2, <2>1
    <3> QED BY <3>1
  <2>2. CASE ~ (j < p)
    <3>1. j - 1 \in 1..Len(s) - 1 /\ from(j - 1) = j
      BY <1>1, <1>2, <2>2
    <3> QED BY <3>1
  <2> QED BY <2>1, <2>2
<1>11. IsInjective(t)
  <2> SUFFICES ASSUME NEW i \in 1..Len(s) - 1, NEW j \in 1..Len(s) - 1, t[i] = t[j]
               PROVE  i = j
    BY <1>7 DEF IsInjective
  <2>1. from(i) = from(j)
    BY <1>2, <1>7, <1>8 DEF IsInjective
  <2> QED BY <1>1, <1>2, <2>1
<1> HIDE DEF from
<1>12. Range(t) = Range(s) \ {x}
  <2>1. ASSUME NEW y \in Range(t) PROVE y \in Range(s) \ {x}
    <3>1. PICK i \in 1..Len(s) - 1 : t[i] = y
      BY <1>7 DEF Range
    <3>2. y = s[from(i)] /\ from(i) \in 1..Len(s) /\ from(i) # p
      BY <1>7, <1>8, <3>1
    <3>3. y # x
      BY <1>1, <1>2, <3>2 DEF IsInjective
    <3> QED BY <1>2, <3>2, <3>3 DEF Range
  <2>2. ASSUME NEW y \in Range(s), y # x PROVE y \in Range(t)
    <3>1. PICK j \in 1..Len(s) : s[j] = y
      BY <1>2 DEF Range
    <3>2. PICK i \in 1..Len(s) - 1 : from(i) = j
      BY <1>1, <1>10, <2>2, <3>1
    <3> QED BY <1>7, <3>1, <3>2 DEF Range
  <2> QED BY <2>1, <2>2
<1>13. ASSUME NEW f, Sorted(s, f) PROVE Sorted(t, f)
  BY <1>2, <1>7, <1>8, <1>9, <1>13 DEF Sorted
<1> QED BY <1>6, <1>11, <1>12, <1>13 DEF t, p

\* The same, if it is to be removed at all.
LEMMA UnlinkedIs ==
  ASSUME NEW S, NEW s \in Seq(S), IsInjective(s), NEW x, NEW F, x \in F => x \in Range(s)
  PROVE  /\ Unlinked(s, x, F) \in Seq(S)
         /\ IsInjective(Unlinked(s, x, F))
         /\ Range(Unlinked(s, x, F)) = Range(s) \ (F \cap {x})
         /\ \A f : Sorted(s, f) => Sorted(Unlinked(s, x, F), f)
<1>1. CASE x \in F
  <2>1. F \cap {x} = {x}
    BY <1>1
  <2> QED BY <1>1, <2>1, RemoveOne DEF Unlinked
<1>2. CASE x \notin F
  BY <1>2 DEF Unlinked
<1> QED BY <1>1, <1>2

\* How many of T the function f maps to x
Many(T, f, x) == Cardinality({j \in T : f[j] = x})

\* One of them and the others.
LEMMA CountOne ==
  ASSUME NEW T, IsFiniteSet(T), NEW i \in T, NEW f, NEW x
  PROVE  /\ Many(T, f, x) \in Nat /\ Many(T \ {i}, f, x) \in Nat
         /\ Many(T, f, x) = Many(T \ {i}, f, x) + (IF f[i] = x THEN 1 ELSE 0)
<1> DEFINE A == {j \in T : f[j] = x}
           B == {j \in T \ {i} : f[j] = x}
<1>1. IsFiniteSet(A) /\ IsFiniteSet(B)
  <2>1. A \in SUBSET T /\ B \in SUBSET T
    OBVIOUS
  <2> QED BY <2>1, FS_Subset
<1>2. Cardinality(A) \in Nat /\ Cardinality(B) \in Nat
  BY <1>1, FS_CardinalityType
<1>3. IF f[i] = x THEN A = B \cup {i} ELSE A = B
  OBVIOUS
<1>4. i \notin B
  OBVIOUS
<1> HIDE DEF A, B
<1>5. Cardinality(B \cup {i}) = Cardinality(B) + 1
  BY <1>1, <1>4, FS_AddElement
<1>6. Cardinality(A) = Cardinality(B) + (IF f[i] = x THEN 1 ELSE 0)
  <2>1. CASE f[i] = x
    <3>1. A = B \cup {i}
      BY <1>3, <2>1
    <3> QED BY <1>5, <2>1, <3>1
  <2>2. CASE f[i] # x
    <3>1. A = B
      BY <1>3, <2>2
    <3> QED BY <1>2, <2>2, <3>1
  <2> QED BY <2>1, <2>2
<1>7. Many(T, f, x) = Cardinality(A) /\ Many(T \ {i}, f, x) = Cardinality(B)
  BY DEF Many, A, B
<1> QED BY <1>2, <1>6, <1>7

\* None of them is.
LEMMA CountNone ==
  ASSUME NEW T, IsFiniteSet(T), NEW f, NEW x
  PROVE  /\ Many(T, f, x) \in Nat
         /\ Many(T, f, x) = 0 <=> \A j \in T : f[j] # x
<1> DEFINE A == {j \in T : f[j] = x}
<1>1. IsFiniteSet(A)
  <2>1. A \in SUBSET T
    OBVIOUS
  <2> QED BY <2>1, FS_Subset
<1>2. Cardinality(A) \in Nat /\ (Cardinality(A) = 0 <=> A = {})
  BY <1>1, FS_CardinalityType, FS_EmptySet
<1>3. A = {} <=> \A j \in T : f[j] # x
  OBVIOUS
<1> HIDE DEF A
<1>4. Many(T, f, x) = Cardinality(A)
  BY DEF Many, A
<1> QED BY <1>2, <1>3, <1>4

\* One more that is not.
LEMMA CountMore ==
  ASSUME NEW T, IsFiniteSet(T), NEW i, i \notin T, NEW f, NEW x, f[i] # x
  PROVE  Many(T \cup {i}, f, x) = Many(T, f, x)
<1>1. {j \in T \cup {i} : f[j] = x} = {j \in T : f[j] = x}
  OBVIOUS
<1> QED BY <1>1 DEF Many

\* It depends on the values on T only.
LEMMA CountSame ==
  ASSUME NEW T, NEW f, NEW g, \A j \in T : f[j] = g[j], NEW x
  PROVE  Many(T, f, x) = Many(T, g, x)
<1>1. {j \in T : f[j] = x} = {j \in T : g[j] = x}
  OBVIOUS
<1> QED BY <1>1 DEF Many


----------------------------------------------------------------------------
(* The order of the list *)

\* The list is typed, without duplicates, and sorted.
ListOK ==
  /\ records \in Seq(Rec) /\ IsInjective(records)
  /\ key \in [Rec -> Key \cup {None}]
  /\ serial \in [Rec -> Nat]
  /\ OrderInv

\* The record x is the first with a key whose number is greater than n.
NextFilled(n, x) ==
  IF x = None
    THEN \A r \in Filled : serial[r] <= n
    ELSE /\ x \in Filled /\ serial[x] > n
         /\ \A r \in Filled : serial[r] > n => serial[x] <= serial[r]

\* Places in the list and serial numbers compare alike.
LEMMA PlaceOrder ==
  ASSUME ListOK, NEW i \in 1..Len(records), NEW j \in 1..Len(records)
  PROVE  /\ records[i] \in Rec /\ records[i] \in Allocated
         /\ serial[records[i]] \in Nat /\ serial[records[i]] \in 1..added
         /\ i < j <=> serial[records[i]] < serial[records[j]]
         /\ i <= j <=> serial[records[i]] <= serial[records[j]]
<1>1. Len(records) \in Nat /\ DOMAIN records = 1..Len(records)
  BY DEF ListOK
<1>2. \A l \in 1..Len(records) :
         records[l] \in Rec /\ records[l] \in Allocated /\ serial[records[l]] \in Nat
  BY <1>1 DEF ListOK, Allocated, Range
<1>3. serial[records[i]] \in 1..added
  BY <1>2 DEF ListOK, OrderInv
<1>4. \A l, m \in 1..Len(records) : l < m => serial[records[l]] < serial[records[m]]
  BY <1>1 DEF ListOK, OrderInv, Sorted
<1>5. CASE i < j
  BY <1>1, <1>2, <1>3, <1>4, <1>5
<1>6. CASE i = j
  BY <1>1, <1>2, <1>3, <1>6
<1>7. CASE j < i
  BY <1>1, <1>2, <1>3, <1>4, <1>7
<1> QED BY <1>1, <1>5, <1>6, <1>7

\* A serial number is that of one record.
LEMMA SerialUnique ==
  ASSUME ListOK, NEW r \in Allocated, NEW q \in Allocated, serial[r] = serial[q]
  PROVE  r = q
<1>1. PICK i \in 1..Len(records) : records[i] = r
  BY DEF ListOK, Allocated, Range
<1>2. PICK j \in 1..Len(records) : records[j] = q
  BY DEF ListOK, Allocated, Range
<1>3. ~ (i < j) /\ ~ (j < i)
  BY <1>1, <1>2, PlaceOrder
<1> QED BY <1>1, <1>2, <1>3

\* From returns the first record with a key at a place from n on.
LEMMA FromIs ==
  ASSUME ListOK, NEW n \in 1..Len(records) + 1
  PROVE  \/ /\ From(n) = None
            /\ \A l \in n..Len(records) : key[records[l]] = None
         \/ \E j \in n..Len(records) :
              /\ From(n) = records[j] /\ key[records[j]] # None
              /\ \A l \in n..Len(records) : key[records[l]] # None => j <= l
<1> DEFINE there == {j \in n..Len(records) : NotEmpty(records[j])}
<1>1. Len(records) \in Nat
  BY DEF ListOK
<1>2. CASE there = {}
  <2>1. From(n) = None
    BY <1>2 DEF From
  <2>2. \A l \in n..Len(records) : key[records[l]] = None
    BY <1>2 DEF NotEmpty
  <2> QED BY <2>1, <2>2
<1>3. CASE there # {}
  <2> DEFINE c == CHOOSE j \in there : \A l \in there : j <= l
  <2>1. there \in SUBSET Nat
    BY <1>1
  <2>2. \E j \in there : \A l \in there : j <= l
    BY <1>3, <2>1, Least
  <2>3. c \in there /\ \A l \in there : c <= l
    BY <2>2
  <2>4. From(n) = records[c]
    BY <1>3 DEF From
  <2> HIDE DEF c
  <2> QED BY <2>3, <2>4 DEF NotEmpty
<1> QED BY <1>2, <1>3

\* The first record with a key.
LEMMA FromFirst ==
  ASSUME ListOK
  PROVE  NextFilled(0, From(1)) /\ From(1) \in Filled \cup {None}
<1>1. Len(records) \in Nat /\ 1 \in 1..Len(records) + 1 /\ DOMAIN records = 1..Len(records)
  BY DEF ListOK
<1>2. \A r \in Filled : \E l \in 1..Len(records) : records[l] = r /\ key[records[l]] # None
  BY <1>1 DEF Filled, Allocated, Range
<1>3. CASE From(1) = None /\ \A l \in 1..Len(records) : key[records[l]] = None
  BY <1>2, <1>3 DEF NextFilled
<1>4. CASE \E j \in 1..Len(records) :
             /\ From(1) = records[j] /\ key[records[j]] # None
             /\ \A l \in 1..Len(records) : key[records[l]] # None => j <= l
  <2>1. PICK j \in 1..Len(records) :
             /\ From(1) = records[j] /\ key[records[j]] # None
             /\ \A l \in 1..Len(records) : key[records[l]] # None => j <= l
    BY <1>4
  <2>2. From(1) \in Filled /\ serial[From(1)] \in Nat /\ serial[From(1)] \in 1..added
    BY <2>1, PlaceOrder DEF Filled
  <2>3. ASSUME NEW r \in Filled PROVE serial[From(1)] <= serial[r]
    <3>1. PICK l \in 1..Len(records) : records[l] = r /\ key[records[l]] # None
      BY <1>2
    <3> QED BY <2>1, <3>1, PlaceOrder
  <2>4. serial[From(1)] > 0
    BY <2>2
  <2>5. From(1) # None
    BY <2>1, PlaceOrder, NoneAssumption
  <2> QED BY <2>2, <2>3, <2>4, <2>5 DEF NextFilled
<1> QED BY <1>1, <1>3, <1>4, FromIs

\* The next record with a key.
LEMMA FromNext ==
  ASSUME ListOK, NEW q \in Allocated
  PROVE  NextFilled(serial[q], Next1(q)) /\ Next1(q) \in Filled \cup {None}
<1> DEFINE p == CHOOSE j \in DOMAIN records : records[j] = q
<1>1. Len(records) \in Nat /\ DOMAIN records = 1..Len(records)
  BY DEF ListOK
<1>2. p \in 1..Len(records) /\ records[p] = q
  BY Place DEF ListOK, Allocated
<1>3. Next1(q) = From(1 + p)
  BY DEF Next1
<1> HIDE DEF p
<1>4. p + 1 = 1 + p /\ 1 + p \in 1..Len(records) + 1
  BY <1>1, <1>2
<1>5. \A r \in Filled : \E l \in 1..Len(records) : records[l] = r /\ key[records[l]] # None
  BY <1>1 DEF Filled, Allocated, Range
<1>6. CASE From(1 + p) = None /\ \A l \in 1 + p..Len(records) : key[records[l]] = None
  <2>1. ASSUME NEW r \in Filled PROVE serial[r] <= serial[q]
    <3>1. PICK l \in 1..Len(records) : records[l] = r /\ key[records[l]] # None
      BY <1>5
    <3>2. l <= p
      BY <1>1, <1>2, <1>6, <3>1
    <3> QED BY <1>2, <3>1, <3>2, PlaceOrder
  <2> QED BY <1>3, <1>6, <2>1 DEF NextFilled
<1>7. CASE \E j \in 1 + p..Len(records) :
             /\ From(1 + p) = records[j] /\ key[records[j]] # None
             /\ \A l \in 1 + p..Len(records) : key[records[l]] # None => j <= l
  <2>1. PICK j \in 1 + p..Len(records) :
             /\ From(1 + p) = records[j] /\ key[records[j]] # None
             /\ \A l \in 1 + p..Len(records) : key[records[l]] # None => j <= l
    BY <1>7
  <2>2. j \in 1..Len(records) /\ p < j
    BY <1>1, <1>2, <2>1
  <2>3. Next1(q) \in Filled /\ Next1(q) # None
    BY <1>3, <2>1, <2>2, PlaceOrder, NoneAssumption DEF Filled
  <2>4. serial[Next1(q)] > serial[q]
    <3>1. serial[q] < serial[Next1(q)] /\ serial[q] \in Nat /\ serial[Next1(q)] \in Nat
      BY <1>2, <1>3, <2>1, <2>2, PlaceOrder
    <3> QED BY <3>1
  <2>5. ASSUME NEW r \in Filled, serial[r] > serial[q]
        PROVE  serial[Next1(q)] <= serial[r]
    <3>1. PICK l \in 1..Len(records) : records[l] = r /\ key[records[l]] # None
      BY <1>5
    <3>2. serial[q] \in Nat /\ serial[r] \in Nat
      BY <1>2, <3>1, PlaceOrder
    <3>3. p < l
      <4>1. serial[records[p]] < serial[records[l]]
        BY <1>2, <2>5, <3>1, <3>2
      <4> QED BY <1>2, <4>1, PlaceOrder
    <3>4. j <= l
      BY <1>1, <1>2, <2>1, <3>1, <3>3
    <3> QED BY <1>3, <2>1, <2>2, <3>1, <3>4, PlaceOrder
  <2> QED BY <2>3, <2>4, <2>5 DEF NextFilled
<1> QED BY <1>3, <1>4, <1>6, <1>7, FromIs

\* The next record of the list, empty or not: none is between them.
LEMMA AfterRecIs ==
  ASSUME ListOK, NEW q \in Allocated
  PROVE  \/ /\ AfterRec(q) = None
            /\ \A r \in Allocated : serial[r] <= serial[q]
         \/ /\ AfterRec(q) \in Allocated /\ AfterRec(q) # q
            /\ \A r \in Allocated : serial[r] < serial[AfterRec(q)] => serial[r] <= serial[q]
<1> DEFINE p == CHOOSE j \in DOMAIN records : records[j] = q
<1>1. Len(records) \in Nat /\ DOMAIN records = 1..Len(records)
  BY DEF ListOK
<1>2. p \in 1..Len(records) /\ records[p] = q
  BY Place DEF ListOK, Allocated
<1>3. AfterRec(q) = IF p = Len(records) THEN None ELSE records[p + 1]
  BY DEF AfterRec
<1> HIDE DEF p
<1>4. \A r \in Allocated : \E l \in 1..Len(records) : records[l] = r
  BY <1>1 DEF Allocated, Range
<1>5. CASE p = Len(records)
  <2>1. ASSUME NEW r \in Allocated PROVE serial[r] <= serial[q]
    <3>1. PICK l \in 1..Len(records) : records[l] = r
      BY <1>4
    <3>2. l <= p
      BY <1>1, <1>5
    <3> QED BY <1>2, <3>1, <3>2, PlaceOrder
  <2> QED BY <1>3, <1>5, <2>1
<1>6. CASE p # Len(records)
  <2>1. p + 1 \in 1..Len(records) /\ AfterRec(q) = records[p + 1]
    <3>1. p + 1 \in 1..Len(records)
      <4>1. p \in Int /\ 1 <= p /\ p <= Len(records)
        BY <1>1, <1>2
      <4>2. \A a, b \in Int : a <= b /\ a # b => a < b
        OBVIOUS
      <4>3. Len(records) \in Int
        BY <1>1
      <4>4. p < Len(records)
        BY <1>6, <4>1, <4>2, <4>3, Zenon
      <4> QED BY <1>1, <4>1, <4>4
    <3>2. AfterRec(q) = records[p + 1]
      BY <1>3, <1>6, Zenon
    <3> QED BY <3>1, <3>2
  <2>2. AfterRec(q) \in Allocated
    BY <2>1, PlaceOrder
  <2>3. AfterRec(q) # q
    BY <1>1, <1>2, <2>1 DEF ListOK, IsInjective
  <2>4. ASSUME NEW r \in Allocated, serial[r] < serial[AfterRec(q)]
        PROVE  serial[r] <= serial[q]
    <3>1. PICK l \in 1..Len(records) : records[l] = r
      BY <1>4
    <3>2. l < p + 1
      BY <2>1, <2>4, <3>1, PlaceOrder
    <3>3. l <= p
      BY <1>1, <1>2, <3>2
    <3> QED BY <1>2, <3>1, <3>3, PlaceOrder
  <2> QED BY <2>2, <2>3, <2>4
<1> QED BY <1>5, <1>6

\* The first record of the list, empty or not.
LEMMA FirstIs ==
  ASSUME ListOK
  PROVE  \/ First = None /\ Allocated = {}
         \/ First \in Allocated /\ \A r \in Allocated : serial[First] <= serial[r]
<1>1. Len(records) \in Nat /\ DOMAIN records = 1..Len(records)
  BY DEF ListOK
<1>2. CASE records = <<>>
  BY <1>2 DEF First, Allocated, Range
<1>3. CASE records # <<>>
  <2>1. 1 \in 1..Len(records) /\ First = records[1]
    BY <1>1, <1>3 DEF First, ListOK
  <2>2. ASSUME NEW r \in Allocated PROVE serial[First] <= serial[r]
    <3>1. PICK l \in 1..Len(records) : records[l] = r
      BY <1>1 DEF Allocated, Range
    <3>2. 1 <= l
      BY <1>1
    <3> QED BY <2>1, <3>1, <3>2, PlaceOrder
  <2> QED BY <2>1, <2>2, PlaceOrder
<1> QED BY <1>2, <1>3

----------------------------------------------------------------------------
(* What Count does, given who counts on the records afterwards: D locks *)

One(P) == IF P THEN 1 ELSE 0

\* A record is counted for its key and for its locks
Balanced(r, q, locked, keys, D) ==
  \A x \in Rec : ref_count[x] + One(x = locked) - One(x = r) - One(x = q)
                   = One(keys[x] # None) + D[x]

\* Who has no key has no value, and is kept by nobody
Holds(keys, values) ==
  /\ \A x \in Rec : keys[x] = None => values[x] = None
  /\ \A x \in Rec \ Allocated : keys[x] = None
  /\ \A x \in Rec : values[x] \in live' \cup {None}

\* After the step the walks are at records that are in the list before it
WalksNext ==
  /\ live' \subseteq Iter /\ ended' \subseteq live' /\ script' \subseteq live'
  /\ cur_record' \in [Iter -> Rec \cup {None}]
  /\ calls' \in Seq(Rec) /\ table' \subseteq Rec /\ record_count' \in Nat
  /\ clearing' \in Rec \cup {None} /\ added' = added
  /\ IsFiniteSet(live')
  /\ \A i \in live' : cur_record'[i] \in Allocated \cup {None}
  /\ Range(calls') \subseteq Allocated
  /\ \A i \in Iter : i \notin live' \/ i \in ended' => cur_record'[i] = None

\* D gives the locks after the step
IsLocksNext(D) == \A x \in Rec : D[x] = Locks(x)'

\* The step takes the records F from the list
Shrinks(F, keys, values, D) ==
  /\ \A x \in F : keys[x] = None /\ D[x] = 0
  /\ records' \in Seq(Rec) /\ IsInjective(records')
  /\ Allocated' = Allocated \ F
  /\ serial' = [x \in Rec |-> IF x \in F THEN 0 ELSE serial[x]]
  /\ Sorted(records', serial')
  /\ ref_count' \in [Rec -> Nat]
  /\ \A x \in Rec : ref_count'[x] = (IF keys[x] # None THEN 1 ELSE 0) + D[x]
  /\ \A x \in Allocated \ F : ref_count'[x] > 0
  /\ key' = keys /\ value' = values /\ crashed' = crashed

\* Count keeps the counts exact, and frees nothing that has a key or a lock.
LEMMA CountStep ==
  ASSUME TypeOK, OrderInv, HeldInv,
         NEW r \in Rec \cup {None}, NEW q \in Rec \cup {None}, NEW locked \in Rec \cup {None},
         NEW keys \in [Rec -> Key \cup {None}], NEW values \in [Rec -> Iter \cup {None}],
         NEW D \in [Rec -> Nat],
         Count(r, q, locked, keys, values),
         Balanced(r, q, locked, keys, D),
         Holds(keys, values)
  PROVE  \E F \in SUBSET Allocated : Shrinks(F, keys, values, D)
<1> DEFINE count == [x \in Rec |-> ref_count[x] + (IF x = locked THEN 1 ELSE 0)
                       - (IF x = r THEN 1 ELSE 0) - (IF x = q THEN 1 ELSE 0)]
           F == {x \in {r, q} \cap Allocated : count[x] = 0}
           s1 == Unlinked(records, r, F)
           s2 == Unlinked(s1, q, F \ {r})
<1>1. /\ ref_count' = count
      /\ records' = s2
      /\ key' = [x \in Rec |-> IF x \in F THEN None ELSE keys[x]]
      /\ value' = [x \in Rec |-> IF x \in F THEN None ELSE values[x]]
      /\ serial' = [x \in Rec |-> IF x \in F THEN 0 ELSE serial[x]]
      /\ crashed' = (crashed \/ \E x \in F : keys[x] # None)
  BY DEF Count
<1>2. /\ records \in Seq(Rec) /\ IsInjective(records) /\ Range(records) = Allocated
      /\ Allocated \subseteq Rec /\ ref_count \in [Rec -> Nat] /\ crashed \in BOOLEAN
      /\ serial \in [Rec -> Nat]
  BY DEF TypeOK, Allocated, Range
<1>3. \A x \in Rec : count[x] = One(keys[x] # None) + D[x]
  BY DEF Balanced, One
<1>4. F \subseteq Allocated /\ F \subseteq {r, q}
  OBVIOUS
<1>5. \A x \in F : x \in Rec /\ count[x] = 0
  BY <1>2
<1>6. \A x \in Allocated \ F : count[x] # 0
  <2> TAKE x \in Allocated \ F
  <2>1. CASE x \in {r, q}
    BY <2>1
  <2>2. CASE x \notin {r, q}
    <3>1. x \in Rec /\ ref_count[x] > 0 /\ ref_count[x] \in Nat
      BY <1>2 DEF HeldInv
    <3>2. count[x] = ref_count[x] + (IF x = locked THEN 1 ELSE 0) - 0 - 0
      BY <2>2, <3>1
    <3> HIDE DEF count
    <3> QED BY <3>1, <3>2
  <2> QED BY <2>1, <2>2
<1> HIDE DEF count, F
<1>7. count \in [Rec -> Nat]
  <2>1. count = [x \in Rec |-> count[x]]
    BY DEF count
  <2>2. \A x \in Rec : count[x] \in Nat
    BY <1>3 DEF One
  <2> QED BY <2>1, <2>2
<1>8. \A x \in F : keys[x] = None /\ D[x] = 0
  <2> TAKE x \in F
  <2>1. x \in Rec /\ count[x] = 0 /\ count[x] = One(keys[x] # None) + D[x] /\ D[x] \in Nat
    BY <1>3, <1>5
  <2>2. CASE keys[x] # None
    <3>1. count[x] = 1 + D[x]
      BY <2>1, <2>2 DEF One
    <3> QED BY <2>1, <3>1
  <2>3. CASE keys[x] = None
    <3>1. count[x] = 0 + D[x]
      BY <2>1, <2>3 DEF One
    <3> QED BY <2>1, <2>3, <3>1
  <2> QED BY <2>2, <2>3
<1>9. /\ s1 \in Seq(Rec) /\ IsInjective(s1) /\ Range(s1) = Allocated \ (F \cap {r})
      /\ \A f : Sorted(records, f) => Sorted(s1, f)
  <2>1. r \in F => r \in Range(records)
    BY <1>2, <1>4
  <2> QED BY <1>2, <2>1, UnlinkedIs
<1>10. /\ s2 \in Seq(Rec) /\ IsInjective(s2)
       /\ Range(s2) = Range(s1) \ ((F \ {r}) \cap {q})
       /\ \A f : Sorted(s1, f) => Sorted(s2, f)
  <2>1. q \in F \ {r} => q \in Range(s1)
    BY <1>4, <1>9
  <2> DEFINE G == F \ {r}
  <2>2. q \in G => q \in Range(s1)
    BY <2>1
  <2> HIDE DEF s1, G
  <2>3. /\ Unlinked(s1, q, G) \in Seq(Rec)
        /\ IsInjective(Unlinked(s1, q, G))
        /\ Range(Unlinked(s1, q, G)) = Range(s1) \ (G \cap {q})
        /\ \A f : Sorted(s1, f) => Sorted(Unlinked(s1, q, G), f)
    BY <1>9, <2>2, UnlinkedIs
  <2> QED BY <2>3 DEF G
<1> HIDE DEF s1, s2
<1>11. Range(s2) = Allocated \ F
  BY <1>4, <1>9, <1>10
<1>12. records' \in Seq(Rec) /\ IsInjective(records') /\ Allocated' = Allocated \ F
  BY <1>1, <1>10, <1>11 DEF Allocated, IsInjective, Range
<1>13. Sorted(records', serial')
  <2>1. Sorted(s2, serial)
    BY <1>9, <1>10 DEF OrderInv
  <2>2. \A j \in DOMAIN s2 : s2[j] \in Allocated \ F /\ s2[j] \in Rec
    BY <1>2, <1>11 DEF Range
  <2>3. \A j \in DOMAIN s2 : serial'[s2[j]] = serial[s2[j]]
    BY <1>1, <2>2
  <2>4. Sorted(s2, serial')
    BY <2>1, <2>3 DEF Sorted
  <2> QED BY <1>1, <2>4
<1>14. key' = keys
  BY <1>1, <1>8
<1>15. value' = values
  BY <1>1, <1>5, <1>8 DEF Holds
<1>16. crashed' = crashed
  BY <1>1, <1>2, <1>8
<1>17. \A x \in Allocated \ F : ref_count'[x] > 0
  <2> TAKE x \in Allocated \ F
  <2>1. count[x] # 0 /\ count[x] \in Nat
    BY <1>2, <1>6, <1>7
  <2>2. count[x] > 0
    BY <2>1
  <2> QED BY <1>1, <2>2
<1>18. \A x \in Rec : ref_count'[x] = (IF keys[x] # None THEN 1 ELSE 0) + D[x]
  BY <1>1, <1>3 DEF One
<1>19. Shrinks(F, keys, values, D)
  BY <1>1, <1>7, <1>8, <1>12, <1>13, <1>14, <1>15, <1>16, <1>17, <1>18 DEF Shrinks
<1> QED BY <1>4, <1>19

\* Locks that nobody has; the primed form is used of the state after a step.
LEMMA LocksNext ==
  ASSUME IsFiniteSet(live'), calls' \in Seq(Rec), NEW x
  PROVE  /\ Locks(x)' \in Nat
         /\ Locks(x)' = 0 <=> /\ \A i \in live' : cur_record'[i] # x
                              /\ \A j \in DOMAIN calls' : calls'[j] # x
<1> DEFINE T == live'
           f == cur_record'
           g == calls'
<1>1. IsFiniteSet(T) /\ IsFiniteSet(DOMAIN g)
  <2>1. DOMAIN g = 1..Len(g) /\ Len(g) \in Nat
    OBVIOUS
  <2> QED BY <2>1, FS_Interval
<1>2. Locks(x)' = Many(T, f, x) + Many(DOMAIN g, g, x)
  BY DEF Locks, Many
<1> HIDE DEF T, f, g
<1> DEFINE a == Many(T, f, x)
           b == Many(DOMAIN g, g, x)
<1>3. a \in Nat /\ (a = 0 <=> \A i \in T : f[i] # x)
  BY <1>1, CountNone
<1>4. b \in Nat /\ (b = 0 <=> \A j \in DOMAIN g : g[j] # x)
  BY <1>1, CountNone
<1>5. Locks(x)' = a + b
  BY <1>2
<1> HIDE DEF a, b
<1>6. Locks(x)' \in Nat /\ (Locks(x)' = 0 <=> a = 0 /\ b = 0)
  BY <1>3, <1>4, <1>5
<1> QED BY <1>3, <1>4, <1>6 DEF T, f, g

\* What a step keeps that calls Count: hypotheses on who walks and holds what after it.
LEMMA CountInv ==
  ASSUME TypeOK, OrderInv, HeldInv,
         NEW r \in Rec \cup {None}, NEW q \in Rec \cup {None}, NEW locked \in Rec \cup {None},
         NEW keys \in [Rec -> Key \cup {None}], NEW values \in [Rec -> Iter \cup {None}],
         Count(r, q, locked, keys, values),
         WalksNext, Holds(keys, values),
         NEW D \in [Rec -> Nat], IsLocksNext(D),
         Balanced(r, q, locked, keys, D)
  PROVE  /\ TypeOK' /\ CountsExact' /\ OrderInv' /\ WalkInv' /\ HeldInv'
         /\ key' = keys /\ value' = values /\ crashed' = crashed
         /\ Allocated' \subseteq Allocated
         /\ \A x \in Allocated' : serial'[x] = serial[x]
         /\ \A x \in Allocated \ Allocated' : keys[x] = None
<1>1. PICK F \in SUBSET Allocated : Shrinks(F, keys, values, D)
  BY CountStep
<1>4. /\ \A x \in F : keys[x] = None /\ D[x] = 0
      /\ records' \in Seq(Rec) /\ IsInjective(records')
      /\ Allocated' = Allocated \ F
      /\ serial' = [x \in Rec |-> IF x \in F THEN 0 ELSE serial[x]]
      /\ Sorted(records', serial')
      /\ ref_count' \in [Rec -> Nat]
      /\ \A x \in Rec : ref_count'[x] = (IF keys[x] # None THEN 1 ELSE 0) + D[x]
      /\ \A x \in Allocated \ F : ref_count'[x] > 0
      /\ key' = keys /\ value' = values /\ crashed' = crashed
  BY <1>1 DEF Shrinks
<1>5. Allocated \subseteq Rec /\ serial \in [Rec -> Nat] /\ crashed \in BOOLEAN /\ added \in 0..MaxAdds
  BY DEF TypeOK, Allocated, Range
<1>6. serial' \in [Rec -> Nat] /\ \A x \in Allocated \ F : serial'[x] = serial[x]
  BY <1>4, <1>5
<1>7. \A x \in F : /\ \A i \in live' : cur_record'[i] # x
                   /\ \A j \in DOMAIN calls' : calls'[j] # x
  <2> TAKE x \in F
  <2>1. Locks(x)' = 0
    BY <1>4, <1>5 DEF IsLocksNext
  <2> QED BY <2>1, LocksNext DEF WalksNext
<1>8. TypeOK'
  BY <1>4, <1>5, <1>6 DEF TypeOK, IsInjective, WalksNext
<1>9. CountsExact'
  <2>1. \A x \in Rec : ref_count'[x] = (IF key'[x] # None THEN 1 ELSE 0) + Locks(x)'
    <3> TAKE x \in Rec
    <3>1. ref_count'[x] = (IF keys[x] # None THEN 1 ELSE 0) + D[x]
      BY <1>4 DEF One
    <3> QED BY <1>4, <3>1 DEF IsLocksNext
  <2> QED BY <2>1 DEF CountsExact
<1>10. OrderInv'
  <2>1. \A x \in Allocated' : serial'[x] \in 1..added'
    BY <1>4, <1>6 DEF OrderInv, WalksNext
  <2>2. Sorted(records', serial')
    BY <1>4
  <2> QED BY <2>1, <2>2 DEF OrderInv, Sorted
<1>11. WalkInv'
  <2>1. \A i \in live' : cur_record'[i] \in Allocated' \cup {None}
    BY <1>4, <1>7 DEF WalksNext
  <2>2. Range(calls') \subseteq Allocated'
    BY SMTT(30), <1>4, <1>7 DEF Range, WalksNext
  <2> QED BY <2>1, <2>2 DEF WalkInv, WalksAreAtRecords, Range, WalksNext
<1>12. HeldInv'
  BY <1>4, <1>5 DEF HeldInv, Holds
<1> QED BY <1>4, <1>6, <1>8, <1>9, <1>10, <1>11, <1>12

----------------------------------------------------------------------------
(* How many locks there are on a record, by the kinds of steps *)

\* forEach calls its function for the first time: one more call.
LEMMA AppendCount ==
  ASSUME NEW S, NEW s \in Seq(S), NEW e \in S, NEW x
  PROVE  Many(DOMAIN Append(s, e), Append(s, e), x)
           = Many(DOMAIN s, s, x) + (IF e = x THEN 1 ELSE 0)
<1> DEFINE t == Append(s, e)
           n == Len(s) + 1
<1>1. /\ DOMAIN t = 1..n /\ n \in Nat \ {0} /\ DOMAIN s = 1..n - 1
      /\ \A j \in 1..n - 1 : t[j] = s[j]
      /\ t[n] = e
  BY AppendProperties
<1> HIDE DEF t, n
<1>2. DOMAIN t \ {n} = DOMAIN s /\ n \in DOMAIN t
  BY <1>1
<1>3. IsFiniteSet(DOMAIN t)
  BY <1>1, FS_Interval
<1>4. Many(DOMAIN t \ {n}, t, x) = Many(DOMAIN s, s, x)
  <2>1. \A j \in DOMAIN s : t[j] = s[j]
    BY <1>1
  <2> QED BY <1>2, <2>1, CountSame
<1>5. Many(DOMAIN t, t, x) =
        Many(DOMAIN t \ {n}, t, x) + (IF t[n] = x THEN 1 ELSE 0)
  BY <1>2, <1>3, CountOne
<1> QED BY <1>1, <1>4, <1>5 DEF t

\* forEach returns: the innermost call is gone.
LEMMA FrontCount ==
  ASSUME NEW S, NEW s \in Seq(S), s # <<>>, NEW x
  PROVE  /\ Front(s) \in Seq(S) /\ Range(Front(s)) \subseteq Range(s)
         /\ Last(s) \in Range(s)
         /\ Len(Front(s)) = Len(s) - 1 /\ \A j \in 1..Len(s) - 1 : Front(s)[j] = s[j]
         /\ Many(DOMAIN Front(s), Front(s), x) \in Nat
         /\ Many(DOMAIN s, s, x)
              = Many(DOMAIN Front(s), Front(s), x)
                  + (IF Last(s) = x THEN 1 ELSE 0)
<1> DEFINE t == Front(s)
           n == Len(s)
<1>1. DOMAIN s = 1..n /\ n \in Nat \ {0} /\ \A j \in 1..n : s[j] \in S
  OBVIOUS
<1>2. /\ t \in Seq(S) /\ Len(t) = n - 1
      /\ \A j \in 1..n - 1 : t[j] = s[j]
  <2>1. 1 \in Int /\ n - 1 \in Int /\ \A j \in 1..n - 1 : s[j] \in S
    BY <1>1
  <2>2. /\ SubSeq(s, 1, n - 1) \in Seq(S)
        /\ Len(SubSeq(s, 1, n - 1)) = IF 1 <= n - 1 THEN n - 1 - 1 + 1 ELSE 0
        /\ \A j \in 1..n - 1 - 1 + 1 : SubSeq(s, 1, n - 1)[j] = s[1 + j - 1]
    BY <2>1, SubSeqProperties
  <2>3. t = SubSeq(s, 1, n - 1)
    BY DEF Front
  <2>4. n - 1 - 1 + 1 = n - 1 /\ \A j \in 1..n - 1 : 1 + j - 1 = j
    BY <1>1
  <2> HIDE DEF t, n
  <2>5. Len(t) = n - 1
    BY <1>1, <2>2, <2>3
  <2> QED BY <2>2, <2>3, <2>4, <2>5
<1>3. Last(s) = s[n]
  BY DEF Last
<1> HIDE DEF t, n
<1>4. DOMAIN t = 1..n - 1
  BY <1>1, <1>2
<1>5. DOMAIN s \ {n} = DOMAIN t /\ n \in DOMAIN s
  BY <1>1, <1>4
<1>6. IsFiniteSet(DOMAIN s)
  BY <1>1, FS_Interval
<1>7. Many(DOMAIN s \ {n}, s, x) = Many(DOMAIN t, t, x)
  <2>1. \A j \in DOMAIN t : s[j] = t[j]
    BY <1>2, <1>4
  <2> QED BY <1>5, <2>1, CountSame
<1>8. /\ Many(DOMAIN s \ {n}, s, x) \in Nat
      /\ Many(DOMAIN s, s, x) =
           Many(DOMAIN s \ {n}, s, x) + (IF s[n] = x THEN 1 ELSE 0)
  BY <1>5, <1>6, CountOne
<1>9. Range(t) \subseteq Range(s) /\ s[n] \in Range(s)
  BY <1>1, <1>2, <1>4 DEF Range
<1>10. Len(t) = Len(s) - 1 /\ \A j \in 1..Len(s) - 1 : t[j] = s[j]
  BY <1>2 DEF n
<1> QED BY <1>2, <1>3, <1>7, <1>8, <1>9, <1>10 DEF t

\* The locks of iterators and those of calls are numbers.
LEMMA LocksNat ==
  ASSUME TypeOK, WalkInv, NEW x
  PROVE  /\ Many(live, cur_record, x) \in Nat
         /\ Many(DOMAIN calls, calls, x) \in Nat
         /\ Locks(x) \in Nat
<1>1. IsFiniteSet(DOMAIN calls) /\ IsFiniteSet(live)
  <2>1. DOMAIN calls = 1..Len(calls) /\ Len(calls) \in Nat
    BY DEF TypeOK
  <2> QED BY <2>1, FS_Interval DEF WalkInv
<1>2. /\ Many(live, cur_record, x) \in Nat
      /\ Many(DOMAIN calls, calls, x) \in Nat
  BY <1>1, CountNone
<1> QED BY <1>2 DEF Locks, Many

\* An iterator that dies takes its lock with it.
LEMMA LocksFinalize ==
  ASSUME TypeOK, WalkInv, NEW v, NEW I, NEW u,
         I = {} \/ (I = {v} /\ v \in live),
         u = IF I = {} THEN None ELSE cur_record[v],
         Finalize(I), calls' = calls, NEW x \in Rec
  PROVE  Locks(x)' = Locks(x) - (IF x = u THEN 1 ELSE 0)
<1> DEFINE a == Many(live, cur_record, x)
           b == Many(DOMAIN calls, calls, x)
           c == Many(live', cur_record', x)
<1>1. Locks(x) = a + b /\ Locks(x)' = c + b
  BY DEF Locks, Many
<1>2. a \in Nat /\ b \in Nat
  BY LocksNat
<1>3. CASE I = {}
  <2>1. Many(live', cur_record', x) = Many(live, cur_record, x)
    <3>1. live' = live /\ \A i \in live : cur_record'[i] = cur_record[i]
      BY <1>3 DEF Finalize, TypeOK
    <3> QED BY <3>1, CountSame
  <2>2. x # u
    BY <1>3, NoneAssumption
  <2>3. c = a
    BY <2>1
  <2> HIDE DEF a, b, c
  <2> QED BY <1>1, <1>2, <2>2, <2>3
<1>4. CASE I = {v} /\ v \in live
  <2>1. Many(live', cur_record', x) = Many(live \ {v}, cur_record, x)
    <3>1. live' = live \ {v} /\ \A i \in live \ {v} : cur_record'[i] = cur_record[i]
      BY <1>4 DEF Finalize, TypeOK
    <3> QED BY <3>1, CountSame
  <2>2. /\ Many(live \ {v}, cur_record, x) \in Nat
        /\ a = Many(live \ {v}, cur_record, x)
                 + (IF cur_record[v] = x THEN 1 ELSE 0)
    BY <1>4, CountOne DEF WalkInv
  <2>3. a = c + (IF x = u THEN 1 ELSE 0) /\ c \in Nat
    BY <1>4, <2>1, <2>2
  <2> HIDE DEF a, b, c
  <2> QED BY <1>1, <1>2, <2>3
<1> QED BY <1>3, <1>4

\* An iterator that moves on takes its lock along.
LEMMA LocksMove ==
  ASSUME TypeOK, WalkInv, NEW i \in live, NEW new,
         live' = live, cur_record' = [cur_record EXCEPT ![i] = new], calls' = calls,
         NEW x \in Rec
  PROVE  Locks(x)' = Locks(x) + (IF x = new THEN 1 ELSE 0) - (IF x = cur_record[i] THEN 1 ELSE 0)
<1> DEFINE a == Many(live, cur_record, x)
           b == Many(DOMAIN calls, calls, x)
           c == Many(live, cur_record', x)
           d == Many(live \ {i}, cur_record, x)
<1>1. Locks(x) = a + b /\ Locks(x)' = c + b
  BY DEF Locks, Many
<1>2. a \in Nat /\ b \in Nat
  BY LocksNat
<1>3. IsFiniteSet(live) /\ i \in Iter /\ live \subseteq Iter
  BY DEF WalkInv, TypeOK
<1>4. d \in Nat /\ a = d + (IF cur_record[i] = x THEN 1 ELSE 0)
  BY <1>3, CountOne
<1>5. c = d + (IF new = x THEN 1 ELSE 0)
  <2> DEFINE g == [cur_record EXCEPT ![i] = new]
  <2>1. g[i] = new /\ \A j \in live \ {i} : g[j] = cur_record[j]
    BY <1>3 DEF TypeOK
  <2> HIDE DEF a, b, c, d, g
  <2>2. Many(live \ {i}, g, x) = Many(live \ {i}, cur_record, x)
    BY <2>1, CountSame
  <2>3. ASSUME NEW h
        PROVE  Many(live, h, x) = Many(live \ {i}, h, x) + (IF h[i] = x THEN 1 ELSE 0)
    BY <1>3, CountOne
  <2>4. c = Many(live, g, x) /\ d = Many(live \ {i}, cur_record, x)
    BY DEF c, d, g
  <2> QED BY <2>1, <2>2, <2>3, <2>4
<1> HIDE DEF a, b, c, d
<1> QED BY <1>1, <1>2, <1>4, <1>5

\* An iterator that is made has no lock.
LEMMA LocksCreate ==
  ASSUME TypeOK, WalkInv, NEW i \in Iter \ live,
         live' = live \cup {i}, cur_record' = cur_record, calls' = calls, NEW x \in Rec
  PROVE  Locks(x)' = Locks(x)
<1>1. cur_record[i] # x
  BY NoneAssumption DEF WalkInv
<1>2. Many(live \cup {i}, cur_record, x) = Many(live, cur_record, x)
  BY <1>1, CountMore DEF WalkInv
<1>6. Locks(x) = Many(live, cur_record, x) + Many(DOMAIN calls, calls, x)
  BY DEF Locks, Many
<1>7. Locks(x)' = Many(live', cur_record', x) + Many(DOMAIN calls', calls', x)
  BY DEF Locks, Many
<1> QED BY <1>2, <1>6, <1>7

\* The call of forEach's function at new begins.
LEMMA LocksCall ==
  ASSUME TypeOK, WalkInv, NEW new \in Rec,
         live' = live, cur_record' = cur_record, calls' = Append(calls, new), NEW x \in Rec
  PROVE  Locks(x)' = Locks(x) + (IF x = new THEN 1 ELSE 0)
<1>1. Locks(x) = Many(live, cur_record, x) + Many(DOMAIN calls, calls, x)
  BY DEF Locks, Many
<1>2. Locks(x)' = Many(live', cur_record', x) + Many(DOMAIN calls', calls', x)
  BY DEF Locks, Many
<1> DEFINE t == Append(calls, new)
<1>3. Many(DOMAIN t, t, x) = Many(DOMAIN calls, calls, x) + (IF new = x THEN 1 ELSE 0)
  BY AppendCount DEF TypeOK
<1>4. calls' = t
  OBVIOUS
<1>5. Many(live, cur_record, x) \in Nat /\ Many(DOMAIN calls, calls, x) \in Nat
  BY LocksNat DEF Many
<1> HIDE DEF t
<1>6. Locks(x)' = Many(live, cur_record, x) + Many(DOMAIN t, t, x)
  BY <1>2, <1>4
<1> QED BY <1>1, <1>3, <1>5, <1>6

\* The call of forEach's function returns and, unless new is None, the next one begins.
LEMMA LocksReturn ==
  ASSUME TypeOK, WalkInv, calls # <<>>, NEW new \in Rec \cup {None},
         live' = live, cur_record' = cur_record,
         calls' = IF new = None THEN Front(calls) ELSE Append(Front(calls), new),
         NEW x \in Rec
  PROVE  Locks(x)' = Locks(x) + (IF x = new THEN 1 ELSE 0) - (IF x = Last(calls) THEN 1 ELSE 0)
<1> DEFINE f == Front(calls)
           t == calls'
           a == Many(live, cur_record, x)
           b == Many(DOMAIN calls, calls, x)
           c == Many(DOMAIN f, f, x)
           d == Many(DOMAIN t, t, x)
<1>1. Locks(x) = a + b
  BY DEF Locks, Many
<1>2. Locks(x)' = Many(live', cur_record', x) + d
  BY DEF Locks, Many
<1>3. f \in Seq(Rec) /\ c \in Nat /\ b = c + (IF Last(calls) = x THEN 1 ELSE 0)
  BY FrontCount DEF TypeOK
<1>4. a \in Nat /\ b \in Nat
  BY LocksNat DEF Many
<1>5. d = c + (IF x = new THEN 1 ELSE 0)
  <2>1. CASE new = None
    <3>1. x # new /\ t = f
      BY <2>1, NoneAssumption
    <3>2. d = c
      BY <3>1
    <3> HIDE DEF a, b, c, d, f, t
    <3> QED BY <1>3, <3>1, <3>2
  <2>2. CASE new # None
    <3> DEFINE e == Append(f, new)
    <3>1. new \in Rec /\ t = e
      BY <2>2
    <3> HIDE DEF f, t
    <3>2. Many(DOMAIN e, e, x) = c + (IF new = x THEN 1 ELSE 0)
      BY <1>3, <3>1, AppendCount
    <3> QED BY <3>1, <3>2
  <2> QED BY <2>1, <2>2
<1>6. Locks(x)' = a + d
  BY <1>2
<1> HIDE DEF a, b, c, d
<1> QED BY <1>1, <1>3, <1>4, <1>5, <1>6

----------------------------------------------------------------------------
(* The invariant over the steps that count *)

\* The locks after the step balance what it counts
BalancedNext(r, q, locked, keys) ==
  \A x \in Rec : ref_count[x] + One(x = locked) - One(x = r) - One(x = q)
                   = One(keys[x] # None) + Locks(x)'

\* Records may have left the list; the others have their numbers
SerialsStay == Allocated' \subseteq Allocated /\ \A x \in Allocated' : serial'[x] = serial[x]

\* What CountInv gives
Kept(keys) ==
  /\ TypeOK' /\ CountsExact' /\ OrderInv' /\ WalkInv' /\ HeldInv'
  /\ key' = keys /\ crashed' = crashed
  /\ SerialsStay
  /\ Filled' = {x \in Allocated : keys[x] # None}

LEMMA CountKeeps ==
  ASSUME TypeOK, OrderInv, HeldInv,
         NEW r \in Rec \cup {None}, NEW q \in Rec \cup {None}, NEW locked \in Rec \cup {None},
         NEW keys \in [Rec -> Key \cup {None}], NEW values \in [Rec -> Iter \cup {None}],
         Count(r, q, locked, keys, values),
         WalksNext, Holds(keys, values), BalancedNext(r, q, locked, keys)
  PROVE  Kept(keys)
<1> DEFINE D == [x \in Rec |-> Locks(x)']
<1>1. D \in [Rec -> Nat]
  BY LocksNext DEF WalksNext
<1>2. IsLocksNext(D)
  BY DEF IsLocksNext
<1>3. Balanced(r, q, locked, keys, D)
  BY DEF Balanced, BalancedNext, One
<1> HIDE DEF D
<1>4. /\ TypeOK' /\ CountsExact' /\ OrderInv' /\ WalkInv' /\ HeldInv'
      /\ key' = keys /\ value' = values /\ crashed' = crashed
      /\ Allocated' \subseteq Allocated
      /\ \A x \in Allocated' : serial'[x] = serial[x]
      /\ \A x \in Allocated \ Allocated' : keys[x] = None
  BY <1>1, <1>2, <1>3, CountInv
<1>5. Filled' = {x \in Allocated : keys[x] # None}
  BY <1>4 DEF Filled
<1> QED BY <1>4, <1>5 DEF Kept, SerialsStay

\* The script's calls that leave keys, table and number of records alone.
LEMMA ScriptCount ==
  ASSUME IInv, Script, Kept(key),
         table' = table, clearing' = clearing, record_count' = record_count
  PROVE  IInv'
<1>1. Filled' = Filled /\ key' = key /\ crashed' = crashed
  BY DEF Kept, Filled
<1>2. TableInv'
  BY <1>1 DEF IInv, TableInv
<1>3. ClearInv'
  <2>1. clearing' = None
    BY DEF Script
  <2>2. clearing' \notin Allocated'
    BY <2>1, NoneAssumption DEF Kept, TypeOK, Allocated, Range
  <2> QED BY <2>2 DEF ClearInv
<1> QED BY <1>2, <1>3 DEF IInv, Kept

\* What dies leaves the walks of the others alone.
LEMMA FinalizeWalks ==
  ASSUME TypeOK, WalkInv, NEW I \in SUBSET Iter, Finalize(I),
         script' \subseteq live', calls' = calls, table' \subseteq Rec,
         record_count' \in Nat, clearing' \in Rec \cup {None}, added' = added
  PROVE  WalksNext
<1>1. /\ live' = live \ I /\ ended' = ended \ I
      /\ cur_record' = [i \in Iter |-> IF i \in I THEN None ELSE cur_record[i]]
  BY DEF Finalize
<1>2. /\ live \subseteq Iter /\ ended \subseteq live /\ calls \in Seq(Rec)
      /\ cur_record \in [Iter -> Rec \cup {None}]
  BY DEF TypeOK
<1>3. cur_record' \in [Iter -> Rec \cup {None}]
  BY <1>1, <1>2
<1>4. IsFiniteSet(live')
  BY <1>1, FS_Subset DEF WalkInv
<1>5. \A i \in live' : cur_record'[i] \in Allocated \cup {None}
  BY <1>1, <1>2 DEF WalkInv, WalksAreAtRecords
<1>6. Range(calls') \subseteq Allocated
  BY DEF WalkInv, WalksAreAtRecords
<1>7. \A i \in Iter : i \notin live' \/ i \in ended' => cur_record'[i] = None
  BY <1>1 DEF WalkInv
<1>8. live' \subseteq Iter /\ ended' \subseteq live'
  BY <1>1, <1>2
<1> QED BY <1>2, <1>3, <1>4, <1>5, <1>6, <1>7, <1>8 DEF WalksNext

\* A lookup finds a record that is not empty.
LEMMA FoundIs ==
  ASSUME IInv, Script, NEW k \in Key, NEW r \in Found(k)
  PROVE  r \in Filled /\ r \in Rec /\ r \in Allocated /\ key[r] = k /\ k # None
<1>1. r \in table /\ key[r] = k /\ table = Filled
  BY DEF Found, IInv, TableInv, Script
<1>2. k # None
  BY NoneAssumption
<1> QED BY <1>1, <1>2 DEF Filled, IInv, TypeOK, Allocated, Range

\* map_delete_record: the invariant's parts that do not speak of the table.
LEMMA DeleteRecordKeeps ==
  ASSUME IInv, NEW r \in Filled, DeleteRecord(r),
         script' = script, calls' = calls, table' \subseteq Rec,
         clearing' \in Rec \cup {None}, added' = added
  PROVE  /\ Kept([key EXCEPT ![r] = None])
         /\ Filled' = Filled \ {r}
         /\ IsFiniteSet(Filled') /\ record_count' = Cardinality(Filled')
         /\ \E I \in SUBSET Iter : Finalize(I)
<1> DEFINE v == value[r]
           I == IF Dies(v, r) THEN {v} ELSE {}
           u == IF I = {} THEN None ELSE Unlocked(v)
           keys == [key EXCEPT ![r] = None]
           values == [value EXCEPT ![r] = None]
<1>1. Count(r, u, None, keys, values) /\ Finalize(I) /\ record_count' = record_count - 1
  BY DEF DeleteRecord
<1>2. TypeOK /\ CountsExact /\ OrderInv /\ WalkInv /\ HeldInv /\ TableInv
  BY DEF IInv
<1>3. r \in Rec /\ r \in Allocated /\ key[r] # None /\ Allocated \subseteq Rec
  BY <1>2 DEF Filled, TypeOK, Allocated, Range
<1>4. v \in live \cup {None} /\ (Dies(v, r) => v # None /\ v \notin script)
  BY <1>2, <1>3, NoneAssumption DEF HeldInv, Dies
<1>5. I = {} \/ (I = {v} /\ v \in live)
  <2>1. CASE Dies(v, r)
    <3>1. I = {v} /\ v \in live
      BY <1>4, <2>1
    <3> QED BY <3>1
  <2>2. CASE ~ Dies(v, r)
    <3>1. I = {}
      BY <2>2
    <3> HIDE DEF I
    <3> QED BY <3>1
  <2> QED BY <2>1, <2>2
<1>6. u = IF I = {} THEN None ELSE cur_record[v]
  BY DEF Unlocked
<1>7. I \in SUBSET Iter /\ u \in Rec \cup {None}
  BY <1>2, <1>4 DEF TypeOK, Unlocked
<1>8. /\ keys \in [Rec -> Key \cup {None}] /\ values \in [Rec -> Iter \cup {None}]
      /\ keys[r] = None /\ values[r] = None
      /\ \A x \in Rec : x # r => keys[x] = key[x] /\ values[x] = value[x]
  BY <1>2, <1>3 DEF TypeOK
<1>9. IsFiniteSet(Filled \ {r}) /\ record_count' = Cardinality(Filled \ {r}) /\ record_count' \in Nat
  <2>1. /\ IsFiniteSet(Filled) /\ record_count = Cardinality(Filled)
    BY <1>2 DEF TableInv
  <2>2. IsFiniteSet(Filled \ {r}) /\ Cardinality(Filled \ {r}) = Cardinality(Filled) - 1
    BY <2>1, FS_RemoveElement
  <2> QED BY <1>1, <2>1, <2>2, FS_CardinalityType
<1>10. script' \subseteq live'
  BY <1>1, <1>2, <1>4 DEF TypeOK, Finalize
<1>11. Holds(keys, values)
  <2>1. \A x \in Rec : keys[x] = None => values[x] = None
    BY <1>2, <1>8 DEF HeldInv
  <2>2. \A x \in Rec \ Allocated : keys[x] = None
    BY <1>2, <1>3, <1>8 DEF HeldInv
  <2>3. ASSUME NEW x \in Rec PROVE values[x] \in live' \cup {None}
    <3>1. CASE x = r
      BY <1>8, <3>1
    <3>2. CASE x # r /\ x \notin Allocated
      BY <1>2, <1>8, <3>2 DEF HeldInv
    <3>3. CASE x # r /\ x \in Allocated
      <4>1. values[x] = value[x] /\ value[x] \in live \cup {None}
        BY <1>2, <1>8, <3>3 DEF HeldInv
      <4>2. Dies(v, r) => value[x] # v
        BY <3>3 DEF Dies
      <4>3. live' = live \ I
        BY <1>1 DEF Finalize
      <4> QED BY <4>1, <4>2, <4>3
    <3> QED BY <3>1, <3>2, <3>3
  <2> QED BY <2>1, <2>2, <2>3 DEF Holds
<1> HIDE DEF v, I, u, keys, values
<1>12. WalksNext
  BY <1>1, <1>2, <1>7, <1>9, <1>10, FinalizeWalks
<1>13. BalancedNext(r, u, None, keys)
  <2> SUFFICES ASSUME NEW x \in Rec
               PROVE  ref_count[x] + One(x = None) - One(x = r) - One(x = u)
                        = One(keys[x] # None) + Locks(x)'
    BY DEF BalancedNext
  <2>1. Locks(x)' = Locks(x) - (IF x = u THEN 1 ELSE 0)
    BY <1>1, <1>2, <1>5, <1>6, LocksFinalize
  <2>2. ref_count[x] = (IF key[x] # None THEN 1 ELSE 0) + Locks(x) /\ Locks(x) \in Nat
    BY <1>2, LocksNat DEF CountsExact
  <2>3. x # None
    BY NoneAssumption
  <2>4. IF x = r THEN key[x] # None /\ keys[x] = None ELSE keys[x] = key[x]
    BY <1>3, <1>8
  <2> QED BY <2>1, <2>2, <2>3, <2>4 DEF One
<1>14. Kept(keys)
  <2>1. None \in Rec \cup {None} /\ r \in Rec \cup {None}
    BY <1>3
  <2> QED BY <1>1, <1>2, <1>7, <1>8, <1>11, <1>12, <1>13, <2>1, CountKeeps
<1>15. Filled' = Filled \ {r}
  BY <1>3, <1>8, <1>14 DEF Kept, Filled
<1> QED BY <1>1, <1>7, <1>9, <1>14, <1>15 DEF keys

----------------------------------------------------------------------------
(* The invariant over every step *)

LEMMA SetOldKeeps ==
  ASSUME IInv, NEW k \in Key, NEW w \in Iter \cup {None}, SetOld(k, w)
  PROVE  IInv' /\ Kept(key) /\ \E I \in SUBSET Iter : Finalize(I)
<1>1. PICK r \in Found(k) :
        LET I == IF value[r] # w /\ Dies(value[r], r) THEN {value[r]} ELSE {}
            unlocked == IF I = {} THEN None ELSE Unlocked(value[r])
        IN  /\ Count(unlocked, None, None, key, [value EXCEPT ![r] = w])
            /\ Finalize(I)
  BY DEF SetOld
<1> DEFINE v == value[r]
           I == IF v # w /\ Dies(v, r) THEN {v} ELSE {}
           u == IF I = {} THEN None ELSE Unlocked(v)
           values == [value EXCEPT ![r] = w]
<1>2. Count(u, None, None, key, values) /\ Finalize(I)
  BY <1>1
<1>3. /\ Script /\ w \in script \cup {None}
      /\ table' = table /\ record_count' = record_count /\ script' = script
      /\ calls' = calls /\ clearing' = clearing /\ added' = added
  BY DEF SetOld
<1>4. TypeOK /\ CountsExact /\ OrderInv /\ WalkInv /\ HeldInv
  BY DEF IInv
<1>5. r \in Rec /\ r \in Allocated /\ key[r] # None
  BY <1>3, FoundIs
<1>6. v \in live \cup {None} /\ (Dies(v, r) => v # None /\ v \notin script)
  BY <1>4, <1>5, NoneAssumption DEF HeldInv, Dies
<1>7. I = {} \/ (I = {v} /\ v \in live /\ Dies(v, r))
  <2>1. CASE v # w /\ Dies(v, r)
    <3>1. I = {v} /\ v \in live
      BY <1>6, <2>1
    <3> QED BY <2>1, <3>1
  <2>2. CASE ~ (v # w /\ Dies(v, r))
    <3>1. I = {}
      BY <2>2
    <3> HIDE DEF I
    <3> QED BY <3>1
  <2> QED BY <2>1, <2>2
<1>8. u = IF I = {} THEN None ELSE cur_record[v]
  BY DEF Unlocked
<1>9. I \in SUBSET Iter /\ u \in Rec \cup {None}
  BY <1>4, <1>6 DEF TypeOK, Unlocked
<1>10. /\ values \in [Rec -> Iter \cup {None}] /\ values[r] = w
       /\ \A x \in Rec : x # r => values[x] = value[x]
  BY <1>4, <1>5 DEF TypeOK
<1> HIDE DEF v, I, u, values
<1>11. live' = live \ I
  BY <1>2 DEF Finalize
<1>12. script' \subseteq live'
  BY <1>3, <1>4, <1>6, <1>7, <1>11 DEF TypeOK
<1>13. Holds(key, values)
  <2>1. \A x \in Rec : key[x] = None => values[x] = None
    BY <1>4, <1>5, <1>10 DEF HeldInv
  <2>2. \A x \in Rec \ Allocated : key[x] = None
    BY <1>4 DEF HeldInv
  <2>3. ASSUME NEW x \in Rec PROVE values[x] \in live' \cup {None}
    <3>1. CASE x = r
      BY <1>3, <1>10, <1>12, <3>1
    <3>2. CASE x # r /\ x \notin Allocated
      BY <1>4, <1>10, <3>2 DEF HeldInv
    <3>3. CASE x # r /\ x \in Allocated
      <4>1. values[x] = value[x] /\ value[x] \in live \cup {None}
        BY <1>4, <1>10, <3>3 DEF HeldInv
      <4>2. Dies(v, r) => value[x] # v
        BY <3>3 DEF Dies
      <4> QED BY <1>7, <1>11, <4>1, <4>2
    <3> QED BY <3>1, <3>2, <3>3
  <2> QED BY <2>1, <2>2, <2>3 DEF Holds
<1>14. WalksNext
  <2>1. table' \subseteq Rec /\ record_count' \in Nat /\ clearing' \in Rec \cup {None}
    BY <1>3, <1>4 DEF TypeOK
  <2> QED BY <1>2, <1>3, <1>4, <1>9, <1>12, <2>1, FinalizeWalks
<1>15. BalancedNext(u, None, None, key)
  <2> SUFFICES ASSUME NEW x \in Rec
               PROVE  ref_count[x] + One(x = None) - One(x = u) - One(x = None)
                        = One(key[x] # None) + Locks(x)'
    BY DEF BalancedNext
  <2>1. Locks(x)' = Locks(x) - (IF x = u THEN 1 ELSE 0)
    BY <1>2, <1>3, <1>4, <1>7, <1>8, LocksFinalize
  <2>2. ref_count[x] = (IF key[x] # None THEN 1 ELSE 0) + Locks(x) /\ Locks(x) \in Nat
    BY <1>4, LocksNat DEF CountsExact
  <2>3. x # None
    BY NoneAssumption
  <2> QED BY <2>1, <2>2, <2>3 DEF One
<1>16. Kept(key)
  <2>1. None \in Rec \cup {None} /\ key \in [Rec -> Key \cup {None}]
    BY <1>4 DEF TypeOK
  <2> QED BY <1>2, <1>4, <1>9, <1>10, <1>13, <1>14, <1>15, <2>1, CountKeeps
<1>17. IInv'
  BY <1>3, <1>16, ScriptCount
<1> QED BY <1>2, <1>9, <1>16, <1>17

LEMMA DropKeeps ==
  ASSUME IInv, NEW i \in Iter, Drop(i)
  PROVE  IInv' /\ Kept(key) /\ \E I \in SUBSET Iter : Finalize(I)
<1> DEFINE I == IF Dies(i, None) THEN {i} ELSE {}
           u == IF I = {} THEN None ELSE Unlocked(i)
<1>1. Count(u, None, None, key, value) /\ Finalize(I)
  BY DEF Drop
<1>2. /\ Script /\ i \in script /\ script' = script \ {i}
      /\ table' = table /\ record_count' = record_count
      /\ calls' = calls /\ clearing' = clearing /\ added' = added
  BY DEF Drop
<1>3. TypeOK /\ CountsExact /\ OrderInv /\ WalkInv /\ HeldInv
  BY DEF IInv
<1>4. i \in live
  BY <1>2, <1>3 DEF TypeOK
<1>5. I = {} \/ (I = {i} /\ i \in live /\ Dies(i, None))
  <2>1. CASE Dies(i, None)
    <3>1. I = {i}
      BY <2>1
    <3> QED BY <1>4, <2>1, <3>1
  <2>2. CASE ~ Dies(i, None)
    <3>1. I = {}
      BY <2>2
    <3> HIDE DEF I
    <3> QED BY <3>1
  <2> QED BY <2>1, <2>2
<1>6. u = IF I = {} THEN None ELSE cur_record[i]
  BY DEF Unlocked
<1>7. I \in SUBSET Iter /\ u \in Rec \cup {None}
  BY <1>3 DEF TypeOK, Unlocked
<1> HIDE DEF I, u
<1>8. live' = live \ I
  BY <1>1 DEF Finalize
<1>9. script' \subseteq live'
  BY <1>2, <1>3, <1>5, <1>8 DEF TypeOK
<1>10. Holds(key, value)
  <2>1. ASSUME NEW x \in Rec PROVE value[x] \in live' \cup {None}
    <3>1. CASE x \notin Allocated
      BY <1>3, <3>1 DEF HeldInv
    <3>2. CASE x \in Allocated
      <4>1. value[x] \in live \cup {None} /\ x # None
        BY <1>3, NoneAssumption DEF HeldInv
      <4>2. Dies(i, None) => value[x] # i
        BY <3>2, <4>1 DEF Dies
      <4> QED BY <1>5, <1>8, <4>1, <4>2
    <3> QED BY <3>1, <3>2
  <2> QED BY <1>3, <2>1 DEF Holds, HeldInv
<1>11. WalksNext
  <2>1. table' \subseteq Rec /\ record_count' \in Nat /\ clearing' \in Rec \cup {None}
    BY <1>2, <1>3 DEF TypeOK
  <2> QED BY <1>1, <1>2, <1>3, <1>7, <1>9, <2>1, FinalizeWalks
<1>12. BalancedNext(u, None, None, key)
  <2> SUFFICES ASSUME NEW x \in Rec
               PROVE  ref_count[x] + One(x = None) - One(x = u) - One(x = None)
                        = One(key[x] # None) + Locks(x)'
    BY DEF BalancedNext
  <2>1. Locks(x)' = Locks(x) - (IF x = u THEN 1 ELSE 0)
    BY <1>1, <1>2, <1>3, <1>5, <1>6, LocksFinalize
  <2>2. ref_count[x] = (IF key[x] # None THEN 1 ELSE 0) + Locks(x) /\ Locks(x) \in Nat
    BY <1>3, LocksNat DEF CountsExact
  <2>3. x # None
    BY NoneAssumption
  <2> QED BY <2>1, <2>2, <2>3 DEF One
<1>13. Kept(key)
  <2>1. /\ None \in Rec \cup {None} /\ key \in [Rec -> Key \cup {None}]
        /\ value \in [Rec -> Iter \cup {None}]
    BY <1>3 DEF TypeOK
  <2> QED BY <1>1, <1>3, <1>7, <1>10, <1>11, <1>12, <2>1, CountKeeps
<1>14. IInv'
  BY <1>2, <1>13, ScriptCount
<1> QED BY <1>1, <1>7, <1>13, <1>14

LEMMA SetNewKeeps ==
  ASSUME IInv, NEW k \in Key, NEW w \in Iter \cup {None}, SetNew(k, w)
  PROVE  /\ IInv'
         /\ \E r \in Rec \ Allocated :
              /\ Allocated' = Allocated \cup {r}
              /\ key' = [key EXCEPT ![r] = k] /\ table' = table \cup {r}
              /\ serial' = [serial EXCEPT ![r] = added + 1]
<1>1. PICK r \in Rec \ Allocated :
        /\ records' = Append(records, r)
        /\ key' = [key EXCEPT ![r] = k]
        /\ value' = [value EXCEPT ![r] = w]
        /\ ref_count' = [ref_count EXCEPT ![r] = 1]
        /\ table' = table \cup {r}
        /\ serial' = [serial EXCEPT ![r] = added + 1]
  BY DEF SetNew
<1>2. /\ Script /\ w \in script \cup {None} /\ Found(k) = {} /\ added < MaxAdds
      /\ record_count' = record_count + 1 /\ added' = added + 1
      /\ live' = live /\ cur_record' = cur_record /\ ended' = ended
      /\ script' = script /\ calls' = calls /\ clearing' = clearing /\ crashed' = crashed
  BY DEF SetNew, iterVars
<1>3. TypeOK /\ CountsExact /\ OrderInv /\ WalkInv /\ HeldInv /\ TableInv
  BY DEF IInv
<1>4. /\ records \in Seq(Rec) /\ IsInjective(records) /\ Allocated \subseteq Rec
      /\ Range(records) = Allocated /\ Len(records) \in Nat /\ DOMAIN records = 1..Len(records)
      /\ added \in Nat /\ added + 1 \in 0..MaxAdds
  BY <1>2, <1>3, BoundsAssumption DEF TypeOK, Allocated, Range
<1>5. k # None /\ r \in Rec /\ r # None
  BY NoneAssumption
<1> DEFINE n == Len(records)
<1>6. /\ records' \in Seq(Rec) /\ Len(records') = n + 1 /\ DOMAIN records' = 1..n + 1
      /\ \A j \in 1..n : records'[j] = records[j] /\ records'[j] \in Allocated
      /\ records'[n + 1] = r
  <2>1. /\ Append(records, r) \in Seq(Rec) /\ Len(Append(records, r)) = n + 1
        /\ \A j \in 1..n : Append(records, r)[j] = records[j]
        /\ Append(records, r)[n + 1] = r
    BY <1>4, AppendProperties
  <2>2. \A j \in 1..n : records[j] \in Allocated
    BY <1>4 DEF Range
  <2> QED BY <1>1, <2>1, <2>2
<1> HIDE DEF n
<1>7. n \in Nat /\ \A j \in 1..n + 1 : j \in 1..n \/ j = n + 1
  BY <1>4 DEF n
<1>8. IsInjective(records')
  <2>1. \A i, j \in 1..n : records[i] = records[j] => i = j
    BY <1>4 DEF IsInjective, n
  <2>2. ASSUME NEW i \in 1..n + 1, NEW j \in 1..n + 1, records'[i] = records'[j]
        PROVE  i = j
    BY <1>6, <1>7, <2>1, <2>2
  <2> QED BY <1>6, <2>2 DEF IsInjective
<1>9. Range(records') = Allocated \cup {r}
  <2>1. \A x \in Allocated : \E j \in 1..n : records[j] = x
    BY <1>4 DEF Range, n
  <2>2. \A j \in 1..n + 1 : records'[j] \in Allocated \cup {r}
    BY <1>6, <1>7
  <2>3. \A j \in 1..n : j \in 1..n + 1
    BY <1>7
  <2>4. n + 1 \in 1..n + 1
    BY <1>7
  <2>5. \A x \in Allocated \cup {r} : \E j \in 1..n + 1 : records'[j] = x
    BY <1>6, <2>1, <2>3, <2>4
  <2> QED BY <1>6, <2>2, <2>5 DEF Range
<1>10. Allocated' = Allocated \cup {r}
  BY <1>9 DEF Allocated, Range
<1>11. /\ serial' \in [Rec -> Nat] /\ serial'[r] = added + 1
       /\ \A x \in Allocated : serial'[x] = serial[x] /\ serial[x] \in 1..added
  BY <1>1, <1>3, <1>4 DEF TypeOK, OrderInv
<1>12. /\ key' \in [Rec -> Key \cup {None}] /\ key'[r] = k
       /\ value' \in [Rec -> Iter \cup {None}] /\ value'[r] = w
       /\ ref_count' \in [Rec -> Nat] /\ ref_count'[r] = 1
       /\ \A x \in Rec : x # r => /\ key'[x] = key[x] /\ value'[x] = value[x]
                                  /\ ref_count'[x] = ref_count[x]
  BY <1>1, <1>3 DEF TypeOK
<1>13. TypeOK'
  <2>1. table' \subseteq Rec /\ record_count' \in Nat
    BY <1>1, <1>2, <1>3 DEF TypeOK
  <2> QED BY <1>2, <1>3, <1>4, <1>6, <1>8, <1>11, <1>12, <2>1 DEF TypeOK, IsInjective
<1>14. CountsExact'
  <2>1. ASSUME NEW x \in Rec
        PROVE  ref_count'[x] = (IF key'[x] # None THEN 1 ELSE 0) + Locks(x)'
    <3>1. Locks(x)' = Locks(x) /\ Locks(x) \in Nat
      BY <1>2, <1>3, LocksNat DEF Locks
    <3>2. ref_count[x] = (IF key[x] # None THEN 1 ELSE 0) + Locks(x)
      BY <1>3 DEF CountsExact
    <3>3. CASE x # r
      BY <1>12, <3>1, <3>2, <3>3
    <3>4. CASE x = r
      <4>1. Locks(x)' = 0
        <5>1. IsFiniteSet(live') /\ calls' \in Seq(Rec)
          BY <1>2, <1>3 DEF WalkInv, TypeOK
        <5>2. \A i \in live' : cur_record'[i] # x
          BY <1>2, <1>3, <1>5, <3>4 DEF WalkInv, WalksAreAtRecords
        <5>3. \A j \in DOMAIN calls' : calls'[j] # x
          BY <1>2, <1>3, <3>4 DEF WalkInv, WalksAreAtRecords, Range
        <5> QED BY <5>1, <5>2, <5>3, LocksNext
      <4> QED BY <1>5, <1>12, <3>4, <4>1
    <3> QED BY <3>3, <3>4
  <2> QED BY <2>1 DEF CountsExact
<1>15. OrderInv'
  <2>1. \A x \in Allocated' : serial'[x] \in 1..added'
    BY <1>2, <1>4, <1>10, <1>11
  <2>2. \A i, j \in 1..n : i < j => serial[records[i]] < serial[records[j]]
    BY <1>3, <1>4 DEF OrderInv, Sorted, n
  <2>3. ASSUME NEW i \in 1..n + 1, NEW j \in 1..n + 1, i < j
        PROVE  serial'[records'[i]] < serial'[records'[j]]
    <3>1. i \in 1..n
      BY <1>7, <2>3
    <3>2. CASE j \in 1..n
      <4>1. serial[records[i]] < serial[records[j]]
        BY <2>2, <2>3, <3>1, <3>2
      <4> QED BY <1>6, <1>11, <3>1, <3>2, <4>1
    <3>3. CASE j = n + 1
      <4>1. serial'[records'[i]] \in 1..added
        BY <1>6, <1>11, <3>1
      <4>2. serial'[records'[j]] = added + 1
        BY <1>6, <1>11, <3>3
      <4> QED BY <1>4, <4>1, <4>2
    <3> QED BY <1>7, <3>2, <3>3
  <2> QED BY <1>6, <2>1, <2>3 DEF OrderInv, Sorted
<1>16. WalkInv'
  <2>1. Range(calls') = Range(calls)
    BY <1>2
  <2>2. WalksAreAtRecords'
    BY <1>2, <1>3, <1>10, <2>1 DEF WalkInv, WalksAreAtRecords, Range
  <2> QED BY <1>2, <1>3, <2>2 DEF WalkInv
<1>17. HeldInv'
  <2>1. ASSUME NEW x \in Rec PROVE value'[x] \in live' \cup {None}
    BY <1>2, <1>3, <1>12 DEF HeldInv, TypeOK
  <2>2. \A x \in Allocated' : ref_count'[x] > 0
    BY <1>3, <1>4, <1>10, <1>12 DEF HeldInv
  <2>3. \A x \in Rec \ Allocated' : key'[x] = None
    BY <1>3, <1>10, <1>12 DEF HeldInv
  <2>4. \A x \in Rec : key'[x] = None => value'[x] = None
    BY <1>3, <1>5, <1>12 DEF HeldInv
  <2> QED BY <2>1, <2>2, <2>3, <2>4 DEF HeldInv
<1>18. TableInv'
  <2>1. table = Filled /\ clearing' = None /\ ~crashed'
    BY <1>2, <1>3 DEF TableInv, Script
  <2>2. Filled' = Filled \cup {r} /\ r \notin Filled
    BY <1>4, <1>5, <1>10, <1>12 DEF Filled
  <2>3. \A x \in Filled : key[x] # k /\ key'[x] = key[x]
    BY <1>2, <1>4, <1>12, <2>1, <2>2 DEF Found, Filled
  <2>4. \A x, q \in Filled' : key'[x] = key'[q] => x = q
    BY <1>3, <1>12, <2>2, <2>3 DEF TableInv
  <2>5. IsFiniteSet(Filled') /\ record_count' = Cardinality(Filled')
    <3>1. IsFiniteSet(Filled) /\ record_count = Cardinality(Filled)
      BY <1>3 DEF TableInv
    <3>2. IsFiniteSet(Filled \cup {r}) /\ Cardinality(Filled \cup {r}) = Cardinality(Filled) + 1
      BY <2>2, <3>1, FS_AddElement
    <3> QED BY <1>2, <2>2, <3>1, <3>2
  <2>6. table' = Filled'
    BY <1>1, <2>1, <2>2
  <2> QED BY <2>1, <2>4, <2>5, <2>6 DEF TableInv
<1>19. ClearInv'
  <2>1. clearing' \notin Allocated'
    BY <1>2, <1>4, <1>5, <1>10, NoneAssumption DEF Script
  <2> QED BY <2>1 DEF ClearInv
<1> QED BY <1>1, <1>10, <1>13, <1>14, <1>15, <1>16, <1>17, <1>18, <1>19 DEF IInv

LEMMA DeleteKeeps ==
  ASSUME IInv, NEW k \in Key, Delete(k)
  PROVE  /\ IInv' /\ SerialsStay /\ crashed' = crashed
         /\ \E I \in SUBSET Iter : Finalize(I)
         /\ \E r \in Found(k) : table' = table \ {r} /\ key' = [key EXCEPT ![r] = None]
<1>1. PICK r \in Found(k) : table' = Unchained(r) /\ DeleteRecord(r)
  BY DEF Delete
<1>2. /\ Script /\ script' = script /\ calls' = calls
      /\ clearing' = clearing /\ added' = added
  BY DEF Delete
<1>3. r \in Filled /\ TypeOK /\ TableInv
  BY <1>2, FoundIs DEF IInv
<1>4. table' = table \ {r} /\ table' \subseteq Rec /\ clearing' \in Rec \cup {None}
  BY <1>1, <1>2, <1>3 DEF Unchained, TypeOK
<1>5. /\ Kept([key EXCEPT ![r] = None])
      /\ Filled' = Filled \ {r}
      /\ IsFiniteSet(Filled') /\ record_count' = Cardinality(Filled')
      /\ \E I \in SUBSET Iter : Finalize(I)
  BY <1>1, <1>2, <1>3, <1>4, DeleteRecordKeeps
<1>6. TypeOK' /\ key' = [key EXCEPT ![r] = None] /\ crashed' = crashed
  BY <1>5 DEF Kept
<1>7. TableInv'
  <2>1. table' = Filled' /\ clearing' = None /\ ~crashed'
    BY <1>2, <1>3, <1>4, <1>5, <1>6 DEF Script, TableInv
  <2>2. \A x \in Filled' : x \in Filled /\ key'[x] = key[x]
    BY SMTT(30), <1>3, <1>5, <1>6 DEF Filled, TypeOK
  <2>3. \A x, q \in Filled' : key'[x] = key'[q] => x = q
    BY <1>3, <2>2 DEF TableInv
  <2> QED BY <1>5, <2>1, <2>3 DEF TableInv
<1>8. ClearInv'
  <2>1. clearing' \notin Allocated'
    BY <1>2, <1>6, NoneAssumption DEF Script, TypeOK, Allocated, Range
  <2> QED BY <2>1 DEF ClearInv
<1> QED BY <1>1, <1>4, <1>5, <1>6, <1>7, <1>8 DEF IInv, Kept

LEMMA ListIsOK ==
  ASSUME IInv
  PROVE  ListOK
BY DEF IInv, TypeOK, ListOK

LEMMA ClearKeeps ==
  ASSUME IInv, Clear
  PROVE  IInv'
<1>1. /\ Script /\ table' = {} /\ clearing' = First /\ UNCHANGED <<listVars, iterVars>>
      /\ script' = script /\ calls' = calls /\ crashed' = crashed /\ UNCHANGED histVars
  BY DEF Clear
<1>2. /\ records' = records /\ key' = key /\ value' = value /\ ref_count' = ref_count
      /\ record_count' = record_count /\ live' = live /\ cur_record' = cur_record
      /\ ended' = ended /\ serial' = serial /\ added' = added
  BY <1>1 DEF listVars, iterVars, histVars
<1>3. TypeOK /\ CountsExact /\ OrderInv /\ WalkInv /\ HeldInv /\ TableInv
  BY DEF IInv
<1>4. \/ First = None /\ Allocated = {}
      \/ First \in Allocated /\ \A r \in Allocated : serial[First] <= serial[r]
  BY ListIsOK, FirstIs
<1>5. Allocated \subseteq Rec /\ Allocated' = Allocated /\ Filled' = Filled
  BY <1>2, <1>3 DEF TypeOK, Allocated, Range, Filled
<1>6. TypeOK'
  BY <1>1, <1>2, <1>3, <1>4, <1>5 DEF TypeOK, IsInjective
<1>7. CountsExact'
  BY <1>1, <1>2, <1>3 DEF CountsExact, Locks
<1>8. OrderInv' /\ HeldInv'
  BY <1>2, <1>3, <1>5 DEF OrderInv, HeldInv, Sorted
<1>9. WalkInv'
  BY <1>1, <1>2, <1>3, <1>5 DEF WalkInv, WalksAreAtRecords, Range
<1>10. TableInv'
  <2>1. clearing' = None => Filled = {}
    BY <1>1, <1>4, <1>5, NoneAssumption DEF Filled
  <2>2. table' = IF clearing' = None /\ ~crashed' THEN Filled' ELSE {}
    BY <1>1, <1>5, <2>1
  <2> QED BY <1>2, <1>3, <1>5, <2>2 DEF TableInv
<1>11. ClearInv'
  <2>1. ASSUME First \in Allocated, NEW r \in Allocated, serial[r] < serial[First]
        PROVE  FALSE
    <3>1. serial[First] <= serial[r]
      BY <1>4, <1>5, <2>1, NoneAssumption
    <3>2. serial[First] \in Nat /\ serial[r] \in Nat
      BY <1>3, <1>5, <2>1 DEF TypeOK
    <3> QED BY <2>1, <3>1, <3>2
  <2> QED BY <1>1, <1>2, <1>5, <2>1 DEF ClearInv
<1> QED BY <1>6, <1>7, <1>8, <1>9, <1>10, <1>11 DEF IInv

LEMMA ClearRecordKeeps ==
  ASSUME IInv, ClearRecord
  PROVE  /\ IInv' /\ table' = {} /\ table = {} /\ added' = added /\ calls' = calls
         /\ SerialsStay /\ \E I \in SUBSET Iter : Finalize(I)
         /\ crashed' => clearing' = clearing /\ clearing \notin Allocated' \cup {None}
<1>1. /\ clearing # None /\ ~crashed
      /\ table' = table /\ script' = script /\ calls' = calls /\ added' = added
  BY DEF ClearRecord
<1>2. TypeOK /\ CountsExact /\ OrderInv /\ WalkInv /\ HeldInv /\ TableInv /\ ClearInv
  BY DEF IInv
<1>3. table = {} /\ Allocated \subseteq Rec
  BY <1>1, <1>2 DEF TableInv, TypeOK, Allocated, Range
<1>4. UNCHANGED iterVars => Finalize({})
  <2>1. UNCHANGED iterVars => live' = live /\ cur_record' = cur_record /\ ended' = ended
    BY DEF iterVars
  <2>2. cur_record = [i \in Iter |-> IF i \in {} THEN None ELSE cur_record[i]]
    BY <1>2 DEF TypeOK
  <2> QED BY <2>1, <2>2 DEF Finalize
<1>5. CASE clearing \notin Allocated
  <2>1. crashed' = TRUE /\ UNCHANGED <<listVars, iterVars, clearing, serial>>
    BY <1>5 DEF ClearRecord
  <2>2. /\ records' = records /\ key' = key /\ value' = value /\ ref_count' = ref_count
        /\ record_count' = record_count /\ live' = live /\ cur_record' = cur_record
        /\ ended' = ended /\ serial' = serial /\ clearing' = clearing
    BY <2>1 DEF listVars, iterVars
  <2>3. Allocated' = Allocated /\ Filled' = Filled
    BY <2>2 DEF Allocated, Range, Filled
  <2>4. TypeOK'
    BY <1>1, <1>2, <2>1, <2>2 DEF TypeOK, IsInjective
  <2>5. CountsExact'
    BY <1>1, <1>2, <2>2 DEF CountsExact, Locks
  <2>6. OrderInv' /\ HeldInv'
    BY <1>1, <1>2, <2>2, <2>3 DEF OrderInv, HeldInv, Sorted
  <2>7. WalkInv'
    BY <1>1, <1>2, <2>2, <2>3 DEF WalkInv, WalksAreAtRecords, Range
  <2>8. TableInv'
    BY <1>1, <1>2, <1>3, <2>1, <2>2, <2>3 DEF TableInv
  <2>9. ClearInv'
    BY <2>1 DEF ClearInv
  <2>10. SerialsStay /\ Finalize({})
    BY <1>4, <2>1, <2>2, <2>3 DEF SerialsStay
  <2>11. clearing' = clearing /\ clearing \notin Allocated' \cup {None}
    BY <1>1, <1>5, <2>2, <2>3
  <2> QED BY <1>1, <1>3, <2>4, <2>5, <2>6, <2>7, <2>8, <2>9, <2>10, <2>11 DEF IInv
<1>6. CASE clearing \in Allocated
  <2> DEFINE c == clearing
  <2>1. clearing' = AfterRec(c)
    BY <1>6 DEF ClearRecord
  <2>2. \/ /\ AfterRec(c) = None
           /\ \A r \in Allocated : serial[r] <= serial[c]
        \/ /\ AfterRec(c) \in Allocated /\ AfterRec(c) # c
           /\ \A r \in Allocated : serial[r] < serial[AfterRec(c)] => serial[r] <= serial[c]
    BY <1>6, ListIsOK, AfterRecIs
  <2>3. clearing' \in Rec \cup {None} /\ c \in Rec
    BY <1>3, <1>6, <2>1, <2>2
  <2>4. \A r \in Allocated : serial[r] <= serial[c] => r = c \/ key[r] = None
    <3> TAKE r \in Allocated
    <3> HAVE serial[r] <= serial[c]
    <3>1. CASE serial[r] < serial[c]
      BY <1>1, <1>2, <1>6, <3>1 DEF ClearInv
    <3>2. CASE serial[r] = serial[c]
      BY <1>6, <3>2, ListIsOK, SerialUnique
    <3>3. serial[r] \in Nat /\ serial[c] \in Nat
      BY <1>2, <1>3, <1>6 DEF TypeOK
    <3> QED BY <3>1, <3>2, <3>3
  <2>5. CASE Empty(c)
    <3>1. UNCHANGED <<listVars, iterVars, crashed, serial>> /\ key[c] = None
      BY <1>6, <2>5 DEF ClearRecord, Empty
    <3>2. /\ records' = records /\ key' = key /\ value' = value /\ ref_count' = ref_count
          /\ record_count' = record_count /\ live' = live /\ cur_record' = cur_record
          /\ ended' = ended /\ serial' = serial /\ crashed' = crashed
      BY <3>1 DEF listVars, iterVars
    <3>3. Allocated' = Allocated /\ Filled' = Filled
      BY <3>2 DEF Allocated, Range, Filled
    <3>4. TypeOK'
      BY <1>1, <1>2, <2>3, <3>2 DEF TypeOK, IsInjective
    <3>5. CountsExact'
      BY <1>1, <1>2, <3>2 DEF CountsExact, Locks
    <3>6. OrderInv' /\ HeldInv'
      BY <1>1, <1>2, <3>2, <3>3 DEF OrderInv, HeldInv, Sorted
    <3>7. WalkInv'
      BY <1>1, <1>2, <3>2, <3>3 DEF WalkInv, WalksAreAtRecords, Range
    <3>8. clearing' = None => Filled = {}
      BY <2>1, <2>2, <2>4, <3>1, <1>3, NoneAssumption DEF Filled
    <3>9. TableInv'
      BY <1>1, <1>2, <1>3, <3>2, <3>3, <3>8 DEF TableInv
    <3>10. ClearInv'
      BY <1>3, <2>1, <2>2, <2>4, <3>1, <3>2, <3>3, NoneAssumption DEF ClearInv
    <3>11. SerialsStay /\ Finalize({})
      BY <1>4, <3>1, <3>2, <3>3 DEF SerialsStay
    <3> QED BY <1>1, <1>3, <3>2, <3>4, <3>5, <3>6, <3>7, <3>9, <3>10, <3>11 DEF IInv
  <2>6. CASE ~ Empty(c)
    <3>1. DeleteRecord(c) /\ c \in Filled
      BY <1>6, <2>6 DEF ClearRecord, Empty, Filled
    <3>2. /\ Kept([key EXCEPT ![c] = None])
          /\ Filled' = Filled \ {c}
          /\ IsFiniteSet(Filled') /\ record_count' = Cardinality(Filled')
          /\ \E I \in SUBSET Iter : Finalize(I)
      <4>1. table' \subseteq Rec
        BY <1>1, <1>3
      <4> HIDE DEF c
      <4> QED BY <1>1, <2>3, <3>1, <4>1, DeleteRecordKeeps
    <3>3. /\ TypeOK' /\ CountsExact' /\ OrderInv' /\ WalkInv' /\ HeldInv' /\ SerialsStay
          /\ key' = [key EXCEPT ![c] = None] /\ crashed' = crashed
      BY <3>2 DEF Kept
    <3>4. clearing' = None => Filled' = {}
      BY <1>3, <2>1, <2>2, <2>4, <3>2, NoneAssumption DEF Filled
    <3>5. TableInv'
      <4>1. \A x \in Filled' : x \in Filled /\ key'[x] = key[x]
        BY <1>2, <1>3, <3>2, <3>3 DEF Filled, TypeOK
      <4>2. \A x, q \in Filled' : key'[x] = key'[q] => x = q
        BY <1>2, <4>1 DEF TableInv
      <4>3. table' = IF clearing' = None /\ ~crashed' THEN Filled' ELSE {}
        BY <1>1, <1>3, <3>4
      <4> QED BY <3>2, <4>2, <4>3 DEF TableInv
    <3>6. ClearInv'
      <4>1. SUFFICES ASSUME clearing' \in Allocated', NEW r \in Allocated',
                            serial'[r] < serial'[clearing']
                     PROVE  key'[r] = None
        BY DEF ClearInv
      <4>2. /\ r \in Allocated /\ clearing' \in Allocated
            /\ serial'[r] = serial[r] /\ serial'[clearing'] = serial[clearing']
        BY <3>3, <4>1 DEF SerialsStay
      <4>3. clearing' # None
        BY <1>3, <4>2, NoneAssumption
      <4>4. serial[r] <= serial[c]
        BY <2>1, <2>2, <4>1, <4>2, <4>3
      <4> QED BY <1>2, <1>3, <2>3, <2>4, <3>3, <4>2, <4>4 DEF TypeOK
    <3> QED BY <1>1, <1>3, <3>2, <3>3, <3>5, <3>6 DEF IInv
  <2> QED BY <2>5, <2>6
<1> QED BY <1>5, <1>6

\* The script takes an iterator, new or from the map: no record is touched.
LEMMA TakeKeeps ==
  ASSUME IInv, NEW i \in Iter, Create(i) \/ Load(i)
  PROVE  IInv'
<1>1. /\ Script /\ table' = table /\ calls' = calls /\ crashed' = crashed
      /\ clearing' = clearing /\ cur_record' = cur_record /\ ended' = ended
      /\ records' = records /\ key' = key /\ value' = value /\ ref_count' = ref_count
      /\ record_count' = record_count /\ serial' = serial /\ added' = added
  BY DEF Create, Load, listVars, iterVars, histVars
<1>2. script' = script \cup {i}
  BY DEF Create, Load
<1>3. TypeOK /\ CountsExact /\ OrderInv /\ WalkInv /\ HeldInv /\ TableInv
  BY DEF IInv
<1>4. live' = live \cup {i} /\ (live' = live \/ i \notin live)
  <2>1. CASE Create(i)
    BY <2>1 DEF Create
  <2>2. CASE Load(i)
    <3>1. PICK r \in table : value[r] = i
      BY <2>2 DEF Load
    <3>2. i \in live
      BY <1>3, <3>1, NoneAssumption DEF HeldInv, TypeOK
    <3>3. live' = live
      BY <2>2 DEF Load, iterVars
    <3> QED BY <3>2, <3>3
  <2> QED BY <2>1, <2>2
<1>5. Allocated' = Allocated /\ Filled' = Filled
  BY <1>1 DEF Allocated, Range, Filled
<1>6. TypeOK'
  BY <1>1, <1>2, <1>3, <1>4 DEF TypeOK, IsInjective
<1>7. CountsExact'
  <2>1. ASSUME NEW x \in Rec PROVE Locks(x)' = Locks(x)
    <3>1. CASE live' = live
      BY <1>1, <3>1 DEF Locks
    <3>2. CASE i \notin live
      BY <1>1, <1>3, <1>4, <3>2, LocksCreate
    <3> QED BY <1>4, <3>1, <3>2
  <2> QED BY <1>1, <1>3, <2>1 DEF CountsExact
<1>8. OrderInv'
  BY <1>1, <1>3, <1>5 DEF OrderInv, Sorted
<1>9. HeldInv'
  BY <1>1, <1>3, <1>4, <1>5 DEF HeldInv
<1>10. WalkInv'
  <2>1. IsFiniteSet(live')
    BY <1>3, <1>4, FS_AddElement DEF WalkInv
  <2>2. i \notin live => cur_record[i] = None
    BY <1>3 DEF WalkInv
  <2> QED BY <1>1, <1>3, <1>4, <1>5, <2>1, <2>2 DEF WalkInv, WalksAreAtRecords, Range
<1>11. TableInv'
  BY <1>1, <1>3, <1>5 DEF TableInv
<1>12. ClearInv'
  <2>1. clearing' \notin Allocated'
    BY <1>1, <1>3, <1>5, NoneAssumption DEF Script, TypeOK, Allocated, Range
  <2> QED BY <2>1 DEF ClearInv
<1> QED BY <1>6, <1>7, <1>8, <1>9, <1>10, <1>11, <1>12 DEF IInv

\* Nothing is freed from the map but by its records; a walk that moves on.
LEMMA MoveKeeps ==
  ASSUME IInv, Script, NEW old \in Rec \cup {None}, NEW new \in Allocated \cup {None},
         Count(old, None, new, key, value), WalksNext, live' = live,
         \A x \in Rec : Locks(x)' = Locks(x) + One(x = new) - One(x = old),
         table' = table, clearing' = clearing, record_count' = record_count
  PROVE  IInv' /\ Kept(key)
<1>1. TypeOK /\ CountsExact /\ OrderInv /\ WalkInv /\ HeldInv
  BY DEF IInv
<1>2. Holds(key, value)
  BY <1>1 DEF Holds, HeldInv
<1>3. BalancedNext(old, None, new, key)
  <2> SUFFICES ASSUME NEW x \in Rec
               PROVE  ref_count[x] + One(x = new) - One(x = old) - One(x = None)
                        = One(key[x] # None) + Locks(x)'
    BY DEF BalancedNext
  <2>1. Locks(x)' = Locks(x) + (IF x = new THEN 1 ELSE 0) - (IF x = old THEN 1 ELSE 0)
    BY DEF One
  <2>2. ref_count[x] = (IF key[x] # None THEN 1 ELSE 0) + Locks(x) /\ Locks(x) \in Nat
    BY <1>1, LocksNat DEF CountsExact
  <2>3. x # None
    BY NoneAssumption
  <2> QED BY <2>1, <2>2, <2>3 DEF One
<1>4. Kept(key)
  <2>1. /\ None \in Rec \cup {None} /\ key \in [Rec -> Key \cup {None}]
        /\ value \in [Rec -> Iter \cup {None}] /\ new \in Rec \cup {None}
    BY <1>1 DEF TypeOK, Allocated, Range
  <2> QED BY <1>1, <1>2, <1>3, <2>1, CountKeeps
<1> QED BY <1>4, ScriptCount

\* Where an iterator goes
NextOf(i) == IF cur_record[i] = None THEN From(1) ELSE Next1(cur_record[i])

LEMMA IteratorNextKeeps ==
  ASSUME IInv, NEW i \in Iter, IteratorNext(i)
  PROVE  /\ IInv' /\ Kept(key)
         /\ i \in live \ ended /\ NextOf(i) \in Filled \cup {None}
<1> DEFINE old == cur_record[i]
           new == NextOf(i)
<1>1. /\ Script /\ i \in script /\ i \notin ended
      /\ Count(old, None, new, key, value)
      /\ cur_record' = [cur_record EXCEPT ![i] = new]
      /\ ended' = IF new = None THEN ended \cup {i} ELSE ended
      /\ record_count' = record_count /\ table' = table /\ live' = live
      /\ script' = script /\ calls' = calls /\ clearing' = clearing /\ added' = added
  BY DEF IteratorNext, NextOf
<1>2. TypeOK /\ WalkInv
  BY DEF IInv
<1>3. i \in live /\ old \in Allocated \cup {None}
  BY <1>1, <1>2 DEF TypeOK, WalkInv, WalksAreAtRecords
<1>4. new \in Filled \cup {None}
  BY <1>3, ListIsOK, FromFirst, FromNext DEF NextOf
<1>5. new \in Allocated \cup {None} /\ new \in Rec \cup {None} /\ old \in Rec \cup {None}
  BY <1>2, <1>3, <1>4 DEF Filled, TypeOK, Allocated, Range
<1> HIDE DEF old, new
<1>6. /\ cur_record' \in [Iter -> Rec \cup {None}] /\ cur_record'[i] = new
      /\ \A j \in Iter : j # i => cur_record'[j] = cur_record[j]
  BY <1>1, <1>2, <1>5 DEF TypeOK
<1>7. WalksNext
  <2>1. \A j \in live' : cur_record'[j] \in Allocated \cup {None}
    BY <1>1, <1>2, <1>5, <1>6 DEF WalkInv, WalksAreAtRecords, TypeOK
  <2>2. \A j \in Iter : j \notin live' \/ j \in ended' => cur_record'[j] = None
    BY <1>1, <1>2, <1>3, <1>6 DEF WalkInv
  <2>3. Range(calls') \subseteq Allocated /\ IsFiniteSet(live')
    BY <1>1, <1>2 DEF WalkInv, WalksAreAtRecords
  <2>4. ended' \subseteq live'
    BY <1>1, <1>2, <1>3 DEF TypeOK
  <2> QED BY <1>1, <1>2, <1>6, <2>1, <2>2, <2>3, <2>4 DEF WalksNext, TypeOK
<1>8. \A x \in Rec : Locks(x)' = Locks(x) + One(x = new) - One(x = old)
  BY <1>1, <1>2, <1>3, LocksMove DEF One, old
<1>9. IInv' /\ Kept(key)
  BY <1>1, <1>5, <1>7, <1>8, MoveKeeps
<1> QED BY <1>1, <1>3, <1>4, <1>9 DEF new

LEMMA ForEachKeeps ==
  ASSUME IInv, ForEach
  PROVE  IInv' /\ Kept(key) /\ From(1) \in Filled
<1> DEFINE new == From(1)
<1>1. /\ Script /\ new # None /\ calls' = Append(calls, new)
      /\ Count(None, None, new, key, value)
      /\ record_count' = record_count /\ table' = table
      /\ live' = live /\ cur_record' = cur_record /\ ended' = ended
      /\ script' = script /\ clearing' = clearing /\ added' = added
  BY DEF ForEach, iterVars
<1>2. TypeOK /\ WalkInv
  BY DEF IInv
<1>3. new \in Filled
  BY <1>1, ListIsOK, FromFirst
<1>4. new \in Allocated \cup {None} /\ new \in Allocated /\ new \in Rec /\ None \in Rec \cup {None}
  BY <1>2, <1>3 DEF Filled, TypeOK, Allocated, Range
<1> HIDE DEF new
<1>5. calls' \in Seq(Rec) /\ Range(calls') \subseteq Allocated
  <2>1. calls \in Seq(Rec) /\ \A j \in 1..Len(calls) : calls[j] \in Allocated
    BY <1>2 DEF TypeOK, WalkInv, WalksAreAtRecords, Range
  <2>2. /\ Append(calls, new) \in Seq(Rec) /\ Len(Append(calls, new)) = Len(calls) + 1
        /\ \A j \in 1..Len(calls) : Append(calls, new)[j] = calls[j]
        /\ Append(calls, new)[Len(calls) + 1] = new
    BY <1>4, <2>1, AppendProperties
  <2>3. \A j \in 1..Len(calls) + 1 : j \in 1..Len(calls) \/ j = Len(calls) + 1
    BY <2>1
  <2>4. \A j \in DOMAIN Append(calls, new) : Append(calls, new)[j] \in Allocated
    BY <1>4, <2>1, <2>2, <2>3
  <2> QED BY <1>1, <2>2, <2>4 DEF Range
<1>6. WalksNext
  BY <1>1, <1>2, <1>5 DEF WalksNext, TypeOK, WalkInv, WalksAreAtRecords
<1>7. \A x \in Rec : Locks(x)' = Locks(x) + One(x = new) - One(x = None)
  <2> TAKE x \in Rec
  <2>1. Locks(x)' = Locks(x) + (IF x = new THEN 1 ELSE 0)
    BY <1>1, <1>2, <1>4, LocksCall
  <2>2. x # None /\ Locks(x) \in Nat
    BY <1>2, NoneAssumption, LocksNat
  <2> QED BY <2>1, <2>2 DEF One
<1>8. IInv' /\ Kept(key)
  BY <1>1, <1>4, <1>6, <1>7, MoveKeeps
<1> QED BY <1>3, <1>8 DEF new

LEMMA ForEachNextKeeps ==
  ASSUME IInv, ForEachNext
  PROVE  /\ IInv' /\ Kept(key)
         /\ calls # <<>> /\ Last(calls) \in Allocated
<1>1. PICK new \in {Next1(Last(calls)), None} :
        /\ calls' = IF new = None THEN Front(calls) ELSE Append(Front(calls), new)
        /\ Count(Last(calls), None, new, key, value)
  BY DEF ForEachNext
<1>2. /\ Script /\ calls # <<>> /\ record_count' = record_count /\ table' = table
      /\ live' = live /\ cur_record' = cur_record /\ ended' = ended
      /\ script' = script /\ clearing' = clearing /\ added' = added
  BY DEF ForEachNext, iterVars
<1>3. TypeOK /\ WalkInv
  BY DEF IInv
<1> DEFINE old == Last(calls)
           f == Front(calls)
<1>4. f \in Seq(Rec) /\ Range(f) \subseteq Allocated /\ old \in Allocated
  <2>1. calls \in Seq(Rec)
    BY <1>3 DEF TypeOK
  <2>2. f \in Seq(Rec) /\ Range(f) \subseteq Range(calls) /\ old \in Range(calls)
    BY <1>2, <2>1, FrontCount
  <2> QED BY <1>3, <2>2 DEF WalkInv, WalksAreAtRecords
<1>5. /\ new \in Allocated \cup {None} /\ new \in Rec \cup {None}
      /\ old \in Rec /\ old \in Rec \cup {None}
  <2>1. Allocated \subseteq Rec
    BY <1>3 DEF TypeOK, Allocated, Range
  <2>2. Next1(Last(calls)) \in Filled \cup {None}
    BY <1>4, ListIsOK, FromNext
  <2>3. new \in Allocated \cup {None}
    BY <1>1, <2>2 DEF Filled
  <2> QED BY <1>4, <2>1, <2>3
<1> HIDE DEF old, f
<1>6. calls' \in Seq(Rec) /\ Range(calls') \subseteq Allocated
  <2>1. CASE new = None
    BY <1>1, <1>4, <2>1 DEF f
  <2>2. CASE new # None
    <3>1. \A j \in 1..Len(f) : f[j] \in Allocated
      BY <1>4 DEF Range
    <3>2. new \in Rec /\ new \in Allocated
      BY <1>5, <2>2
    <3>3. /\ Append(f, new) \in Seq(Rec) /\ Len(Append(f, new)) = Len(f) + 1
          /\ \A j \in 1..Len(f) : Append(f, new)[j] = f[j]
          /\ Append(f, new)[Len(f) + 1] = new
      BY <1>4, <3>2, AppendProperties
    <3>4. \A j \in 1..Len(f) + 1 : j \in 1..Len(f) \/ j = Len(f) + 1
      BY <1>4
    <3>5. \A j \in DOMAIN Append(f, new) : Append(f, new)[j] \in Allocated
      BY <3>1, <3>2, <3>3, <3>4
    <3>6. calls' = Append(f, new)
      BY <1>1, <2>2 DEF f
    <3> QED BY <3>3, <3>5, <3>6 DEF Range
  <2> QED BY <2>1, <2>2
<1>7. WalksNext
  BY <1>2, <1>3, <1>6 DEF WalksNext, TypeOK, WalkInv, WalksAreAtRecords
<1>8. \A x \in Rec : Locks(x)' = Locks(x) + One(x = new) - One(x = old)
  BY <1>1, <1>2, <1>3, <1>5, LocksReturn DEF One, old
<1>9. Count(old, None, new, key, value)
  BY <1>1 DEF old
<1>10. IInv' /\ Kept(key)
  BY <1>2, <1>5, <1>7, <1>8, <1>9, MoveKeeps
<1> QED BY <1>2, <1>4, <1>10 DEF old

LEMMA InitInv ==
  ASSUME Init
  PROVE  IInv
<1>1. TypeOK
  <2>1. <<>> \in Seq(Rec) /\ DOMAIN <<>> = {}
    OBVIOUS
  <2>2. IsInjective(records)
    BY <2>1 DEF Init, IsInjective
  <2>3. added \in 0..MaxAdds
    BY BoundsAssumption DEF Init
  <2>4. /\ key \in [Rec -> Key \cup {None}] /\ value \in [Rec -> Iter \cup {None}]
        /\ ref_count \in [Rec -> Nat] /\ serial \in [Rec -> Nat]
        /\ cur_record \in [Iter -> Rec \cup {None}]
    BY DEF Init
  <2> QED BY <2>1, <2>2, <2>3, <2>4 DEF Init, TypeOK
<1>2. Allocated = {} /\ Filled = {}
  BY DEF Init, Allocated, Range, Filled
<1>3. \A x : Locks(x) = 0
  <2> TAKE x
  <2>1. Locks(x) = Cardinality({}) + Cardinality({})
    <3>1. {i \in live : cur_record[i] = x} = {} /\ {j \in DOMAIN calls : calls[j] = x} = {}
      BY DEF Init
    <3> QED BY <3>1 DEF Locks
  <2> QED BY <2>1, FS_EmptySet
<1>4. CountsExact
  BY <1>3 DEF Init, CountsExact
<1>5. OrderInv
  BY <1>2 DEF Init, OrderInv, Sorted
<1>6. WalkInv
  BY <1>2, FS_EmptySet DEF Init, WalkInv, WalksAreAtRecords, Range
<1>7. HeldInv
  BY <1>2 DEF Init, HeldInv
<1>8. TableInv
  BY <1>2, FS_EmptySet DEF Init, TableInv
<1>9. ClearInv
  BY <1>2 DEF ClearInv
<1> QED BY <1>1, <1>4, <1>5, <1>6, <1>7, <1>8, <1>9 DEF IInv

LEMMA StutterKeeps ==
  ASSUME IInv, UNCHANGED vars
  PROVE  IInv'
<1>1. /\ records' = records /\ key' = key /\ value' = value /\ ref_count' = ref_count
      /\ record_count' = record_count /\ table' = table
      /\ live' = live /\ cur_record' = cur_record /\ ended' = ended
      /\ script' = script /\ calls' = calls /\ clearing' = clearing
      /\ crashed' = crashed /\ serial' = serial /\ added' = added
  BY DEF vars, listVars, iterVars, histVars
<1>2. Allocated' = Allocated /\ Filled' = Filled
  BY <1>1 DEF Allocated, Range, Filled
<1>3. TypeOK'
  BY <1>1 DEF IInv, TypeOK, IsInjective
<1>4. CountsExact'
  BY <1>1 DEF IInv, CountsExact, Locks
<1>5. OrderInv' /\ HeldInv'
  BY <1>1, <1>2 DEF IInv, OrderInv, HeldInv, Sorted
<1>6. WalkInv'
  BY <1>1, <1>2 DEF IInv, WalkInv, WalksAreAtRecords, Range
<1>7. TableInv' /\ ClearInv'
  BY <1>1, <1>2 DEF IInv, TableInv, ClearInv
<1> QED BY <1>3, <1>4, <1>5, <1>6, <1>7 DEF IInv

\* Records, locks, table and order hold in every state the code reaches.
THEOREM Invariant == Spec => []IInv
<1>1. Init => IInv
  BY InitInv
<1>2. IInv /\ [Next]_vars => IInv'
  <2> SUFFICES ASSUME IInv, [Next]_vars
               PROVE  IInv'
    OBVIOUS
  <2>1. ASSUME NEW k \in Key, NEW w \in Iter \cup {None}, SetOld(k, w)
        PROVE  IInv'
    BY <2>1, SetOldKeeps
  <2>2. ASSUME NEW k \in Key, NEW w \in Iter \cup {None}, SetNew(k, w)
        PROVE  IInv'
    BY <2>2, SetNewKeeps
  <2>3. ASSUME NEW k \in Key, Delete(k)
        PROVE  IInv'
    BY <2>3, DeleteKeeps
  <2>4. CASE Clear
    BY <2>4, ClearKeeps
  <2>5. CASE ClearRecord
    BY <2>5, ClearRecordKeeps
  <2>6. ASSUME NEW i \in Iter, Create(i) \/ Load(i)
        PROVE  IInv'
    BY <2>6, TakeKeeps
  <2>7. ASSUME NEW i \in Iter, Drop(i)
        PROVE  IInv'
    BY <2>7, DropKeeps
  <2>8. ASSUME NEW i \in Iter, IteratorNext(i)
        PROVE  IInv'
    BY <2>8, IteratorNextKeeps
  <2>9. CASE ForEach
    BY <2>9, ForEachKeeps
  <2>10. CASE ForEachNext
    BY <2>10, ForEachNextKeeps
  <2>11. CASE UNCHANGED vars
    BY <2>11, StutterKeeps
  <2> QED
    BY <2>1, <2>2, <2>3, <2>4, <2>5, <2>6, <2>7, <2>8, <2>9, <2>10, <2>11 DEF Next
<1> QED BY <1>1, <1>2, PTL DEF Spec

\* map_decref_record and js_map_iterator_next: a record is counted once for its
\* key and once per walk that is at it, and no walk is at a freed record,
\* whatever is set, deleted, cleared or finalized meanwhile.
THEOREM RecordsAlways == Spec => []RecordsInv
<1>1. IInv => RecordsInv
  BY DEF IInv, RecordsInv, WalkInv
<1> QED BY <1>1, Invariant, PTL

\* js_map_set, js_map_delete and js_map_clear: outside js_map_clear, the hash
\* table holds the records of the list that have a key, one per key, and size
\* is their number.
THEOREM TableAlways == Spec => []TableAgrees
<1>1. IInv => TableAgrees
  BY DEF IInv, TableInv, TableAgrees, Filled
<1> QED BY <1>1, Invariant, PTL

----------------------------------------------------------------------------
(* MapRecords implements MapData *)

\* An entry has the key of the record of the table that has its number.
EntriesOK ==
  /\ \A r \in table : /\ r \in Rec /\ serial[r] \in 1..added
                      /\ key[r] \in Key /\ EntryKey(serial[r]) = key[r]
  /\ \A n : EntryKey(n) = None \/ \E r \in table : serial[r] = n /\ key[r] = EntryKey(n)

LEMMA EntriesAre == IInv => EntriesOK
<1> SUFFICES ASSUME IInv PROVE EntriesOK
  OBVIOUS
<1>1. table \subseteq Filled /\ Allocated \subseteq Rec /\ table \subseteq Allocated
  BY DEF IInv, TableInv, TypeOK, Allocated, Range, Filled
<1>2. ASSUME NEW r \in table
      PROVE  /\ r \in Rec /\ serial[r] \in 1..added
             /\ key[r] \in Key /\ EntryKey(serial[r]) = key[r]
  <2> DEFINE c == CHOOSE q \in table : serial[q] = serial[r]
  <2>1. c \in table /\ serial[c] = serial[r]
    OBVIOUS
  <2>2. EntryKey(serial[r]) = key[c]
    BY <1>2 DEF EntryKey
  <2> HIDE DEF c
  <2>3. c = r
    BY <1>1, <2>1, ListIsOK, SerialUnique
  <2>4. serial[r] \in 1..added
    BY <1>1 DEF IInv, OrderInv
  <2>5. key[r] \in Key
    BY <1>1 DEF Filled, IInv, TypeOK
  <2> QED BY <1>1, <2>2, <2>3, <2>4, <2>5
<1>3. ASSUME NEW n, EntryKey(n) # None
      PROVE  \E r \in table : serial[r] = n /\ key[r] = EntryKey(n)
  <2>1. \E r \in table : serial[r] = n
    BY <1>3 DEF EntryKey
  <2> QED BY <1>2, <2>1
<1> QED BY <1>2, <1>3 DEF EntriesOK

LEMMA EntriesAreNext == IInv' => EntriesOK'
BY EntriesAre, PTL

\* Entries is a sequence as long as there have been additions.
LEMMA EntriesSeq ==
  ASSUME IInv
  PROVE  /\ Entries \in Seq(Key \cup {None}) /\ Len(Entries) = added /\ added \in Nat
         /\ DOMAIN Entries = 1..added
         /\ \A n \in 1..added : Entries[n] = EntryKey(n) /\ EntryKey(n) \in Key \cup {None}
<1>1. added \in Nat
  BY BoundsAssumption DEF IInv, TypeOK
<1>2. \A n : EntryKey(n) \in Key \cup {None}
  BY EntriesAre DEF EntriesOK
<1>3. Entries = [n \in 1..added |-> EntryKey(n)]
  BY DEF Entries
<1> QED BY <1>1, <1>2, <1>3

\* Nothing happens to the entries while the table stays.
LEMMA EntriesSame ==
  ASSUME IInv, IInv', table' = table, added' = added,
         \A r \in table : serial'[r] = serial[r] /\ key'[r] = key[r]
  PROVE  Entries' = Entries
<1>1. EntriesOK /\ EntriesOK'
  BY EntriesAre, EntriesAreNext
<1>2. ASSUME NEW n PROVE EntryKey(n)' = EntryKey(n)
  <2>1. CASE \E r \in table : serial[r] = n
    <3>1. PICK r \in table : serial[r] = n
      BY <2>1
    <3>2. EntryKey(n) = key[r]
      BY <1>1, <3>1 DEF EntriesOK
    <3>3. EntryKey(n)' = key'[r]
      <4>1. r \in table' /\ serial'[r] = n
        BY <3>1
      <4> QED BY <1>1, <4>1 DEF EntriesOK
    <3> QED BY <3>1, <3>2, <3>3
  <2>2. CASE ~ \E r \in table : serial[r] = n
    <3>1. EntryKey(n) = None
      BY <2>2 DEF EntryKey
    <3>2. ~ \E r \in table' : serial'[r] = n
      BY <2>2
    <3>3. EntryKey(n)' = None
      BY <3>2 DEF EntryKey
    <3> QED BY <3>1, <3>3
  <2> QED BY <2>1, <2>2
<1> QED BY <1>2 DEF Entries

\* Where a walk goes from entry n is where the list has its next key.
LEMMA AfterIs ==
  ASSUME IInv, Script, NEW n \in Nat, NEW x, NextFilled(n, x)
  PROVE  Data!After(n) = IF x = None THEN -1 ELSE serial[x]
<1>1. table = Filled
  BY DEF IInv, TableInv, Script
<1>2. EntriesOK
  BY EntriesAre
<1> DEFINE there == {j \in n + 1..Len(Entries) : Entries[j] # None}
<1>3. Data!After(n) = IF there = {} THEN -1
                      ELSE CHOOSE j \in there : \A l \in there : j <= l
  BY DEF Data!After, Data!Done
<1>4. \A j : j \in there <=> j \in Nat /\ j > n /\ \E r \in Filled : serial[r] = j
  <2> TAKE j
  <2>1. ASSUME j \in there PROVE j \in Nat /\ j > n /\ \E r \in Filled : serial[r] = j
    <3>1. j \in 1..added /\ j > n /\ Entries[j] # None
      BY <2>1, EntriesSeq
    <3>2. EntryKey(j) # None
      BY <3>1, EntriesSeq
    <3> QED BY <1>1, <1>2, <3>1, <3>2 DEF EntriesOK
  <2>2. ASSUME j \in Nat, j > n, NEW r \in Filled, serial[r] = j PROVE j \in there
    <3>1. j \in 1..added /\ EntryKey(j) # None
      BY <1>1, <1>2, <2>2, NoneAssumption DEF EntriesOK
    <3>2. Entries[j] # None /\ j \in n + 1..Len(Entries)
      BY <2>2, <3>1, EntriesSeq
    <3> QED BY <3>2
  <2> QED BY <2>1, <2>2
<1> HIDE DEF there
<1>5. CASE x = None
  <2>1. \A r \in Filled : serial[r] <= n /\ serial[r] \in Nat
    BY <1>1, <1>2, <1>5 DEF NextFilled, EntriesOK
  <2>2. there = {}
    BY <1>4, <2>1
  <2> QED BY <1>3, <1>5, <2>2
<1>6. CASE x # None
  <2>1. /\ x \in Filled /\ serial[x] > n
        /\ \A r \in Filled : serial[r] > n => serial[x] <= serial[r]
    BY <1>6 DEF NextFilled
  <2>2. serial[x] \in Nat
    BY <1>1, <1>2, <2>1 DEF EntriesOK
  <2>3. serial[x] \in there /\ \A l \in there : serial[x] <= l /\ l \in Nat
    BY <1>4, <2>1, <2>2
  <2> DEFINE c == CHOOSE j \in there : \A l \in there : j <= l
  <2>4. c \in there /\ \A l \in there : c <= l
    BY <2>3
  <2> HIDE DEF c
  <2>5. c = serial[x]
    BY <2>2, <2>3, <2>4
  <2>6. Data!After(n) = c
    BY <1>3, <2>3 DEF c
  <2> QED BY <1>6, <2>5, <2>6
<1> QED BY <1>5, <1>6

\* Iterators that go are gone, the others are where they were.
LEMMA AtGoes ==
  ASSUME IInv, IInv', SerialsStay, NEW I \in SUBSET Iter, Finalize(I)
  PROVE  Data!LetGo(I)
<1>1. /\ live' = live \ I /\ ended' = ended \ I
      /\ \A i \in Iter : cur_record'[i] = IF i \in I THEN None ELSE cur_record[i]
  BY DEF Finalize
<1>2. \A i \in live' : cur_record'[i] \in Allocated' \cup {None}
  BY DEF IInv, WalkInv, WalksAreAtRecords
<1>3. ASSUME NEW i \in Iter
      PROVE  At'[i] = IF i \in I THEN -1 ELSE At[i]
  <2>1. At'[i] = IF i \notin live' \/ i \in ended' THEN -1
                 ELSE IF cur_record'[i] = None THEN 0 ELSE serial'[cur_record'[i]]
    BY DEF At
  <2>2. At[i] = IF i \notin live \/ i \in ended THEN -1
                ELSE IF cur_record[i] = None THEN 0 ELSE serial[cur_record[i]]
    BY DEF At
  <2>3. CASE i \in I
    BY <1>1, <2>1, <2>3
  <2>4. CASE i \notin I
    <3>1. cur_record'[i] = cur_record[i]
      BY <1>1, <2>4
    <3>2. CASE i \in live' /\ cur_record'[i] # None
      <4>1. serial'[cur_record'[i]] = serial[cur_record[i]]
        BY <1>2, <3>1, <3>2 DEF SerialsStay
      <4> QED BY <1>1, <2>1, <2>2, <2>4, <3>1, <4>1
    <3>3. CASE ~ (i \in live' /\ cur_record'[i] # None)
      BY <1>1, <2>1, <2>2, <2>4, <3>1, <3>3
    <3> QED BY <3>2, <3>3
  <2> QED BY <2>3, <2>4
<1>4. At' = [i \in Iter |-> At'[i]]
  BY DEF At
<1>5. At' = [i \in Iter |-> IF i \in I THEN -1 ELSE At[i]]
  BY <1>3, <1>4
<1> QED BY <1>5 DEF Data!LetGo, Data!Done

LEMMA VisitedSame ==
  ASSUME IInv', SerialsStay, calls' = calls
  PROVE  Visited' = Visited
<1>1. \A j \in DOMAIN calls' : calls'[j] \in Allocated'
  BY DEF IInv, WalkInv, WalksAreAtRecords, Range
<1>2. \A j \in DOMAIN calls : serial'[calls'[j]] = serial[calls[j]]
  BY <1>1 DEF SerialsStay
<1> QED BY <1>2 DEF Visited

\* An iterator is where it was unless it moves.
LEMMA AtStays ==
  ASSUME IInv, IInv', NEW i \in Iter, i \in live' <=> i \in live, i \in ended' <=> i \in ended,
         cur_record'[i] = cur_record[i],
         \A r \in Allocated \cap Allocated' : serial'[r] = serial[r]
  PROVE  At'[i] = At[i]
<1>1. At'[i] = IF i \notin live' \/ i \in ended' THEN -1
               ELSE IF cur_record'[i] = None THEN 0 ELSE serial'[cur_record'[i]]
  BY DEF At
<1>2. At[i] = IF i \notin live \/ i \in ended THEN -1
              ELSE IF cur_record[i] = None THEN 0 ELSE serial[cur_record[i]]
  BY DEF At
<1>3. i \in live => cur_record[i] \in Allocated \cup {None}
  BY DEF IInv, WalkInv, WalksAreAtRecords
<1>4. i \in live' => cur_record'[i] \in Allocated' \cup {None}
  BY DEF IInv, WalkInv, WalksAreAtRecords
<1>5. CASE i \in live /\ cur_record[i] # None
  <2>1. serial'[cur_record'[i]] = serial[cur_record[i]]
    BY <1>3, <1>4, <1>5
  <2> QED BY <1>1, <1>2, <1>5, <2>1
<1>6. CASE ~ (i \in live /\ cur_record[i] # None)
  BY <1>1, <1>2, <1>6
<1> QED BY <1>5, <1>6

LEMMA AtSame ==
  ASSUME IInv, IInv', live' = live, ended' = ended, cur_record' = cur_record,
         \A r \in Allocated \cap Allocated' : serial'[r] = serial[r]
  PROVE  At' = At
<1>1. \A i \in Iter : At'[i] = At[i]
  BY AtStays
<1>2. At' = [i \in Iter |-> At'[i]] /\ At = [i \in Iter |-> At[i]]
  BY DEF At
<1> HIDE DEF At
<1>3. [i \in Iter |-> At'[i]] = [i \in Iter |-> At[i]]
  BY <1>1
<1> QED BY <1>2, <1>3

\* The image of a sequence
Image(s, g) == [j \in DOMAIN s |-> g[s[j]]]

\* It grows and shrinks with the sequence.
LEMMA ImageAppend ==
  ASSUME NEW S, NEW s \in Seq(S), NEW e \in S, NEW g \in [S -> Nat]
  PROVE  Image(Append(s, e), g) = Append(Image(s, g), g[e])
<1> DEFINE t == Append(s, e)
           u == [j \in DOMAIN s |-> g[s[j]]]
           w == [j \in DOMAIN t |-> g[t[j]]]
           n == Len(s)
<1>1. /\ t \in Seq(S) /\ Len(t) = n + 1 /\ DOMAIN t = 1..n + 1
      /\ \A j \in 1..n : t[j] = s[j]
      /\ t[n + 1] = e
  BY AppendProperties
<1>2. DOMAIN s = 1..n /\ n \in Nat /\ \A j \in 1..n : s[j] \in S
  OBVIOUS
<1>3. u \in Seq(Nat) /\ Len(u) = n /\ \A j \in 1..n : u[j] = g[s[j]]
  BY <1>2
<1>4. w \in Seq(Nat) /\ Len(w) = n + 1 /\ \A j \in 1..n + 1 : w[j] = g[t[j]]
  <2>1. \A j \in 1..n + 1 : g[t[j]] \in Nat
    BY <1>1
  <2> DEFINE m == n + 1
  <2>2. m \in Nat /\ DOMAIN t = 1..m /\ \A j \in 1..m : g[t[j]] \in Nat
    BY <1>1, <1>2, <2>1
  <2> HIDE DEF t, n, m
  <2>3. w \in Seq(Nat) /\ Len(w) = m /\ \A j \in 1..m : w[j] = g[t[j]]
    BY <2>2
  <2> QED BY <2>3 DEF m
<1> HIDE DEF t, u, w, n
<1>5. g[e] \in Nat
  OBVIOUS
<1>6. /\ Append(u, g[e]) \in Seq(Nat) /\ Len(Append(u, g[e])) = n + 1
      /\ \A j \in 1..n : Append(u, g[e])[j] = u[j]
      /\ Append(u, g[e])[n + 1] = g[e]
  BY <1>3, <1>5, AppendProperties
<1>7. \A j \in 1..n + 1 : w[j] = Append(u, g[e])[j]
  <2> TAKE j \in 1..n + 1
  <2>1. j \in 1..n \/ j = n + 1
    BY <1>2
  <2>2. CASE j \in 1..n
    <3>1. w[j] = g[t[j]] /\ t[j] = s[j]
      BY <1>1, <1>4, <2>2
    <3>2. Append(u, g[e])[j] = g[s[j]]
      BY <1>3, <1>6, <2>2
    <3> QED BY <3>1, <3>2
  <2>3. CASE j = n + 1
    <3>1. w[j] = g[t[j]] /\ t[j] = e
      BY <1>1, <1>4, <2>3
    <3> QED BY <1>6, <2>3, <3>1
  <2> QED BY <2>1, <2>2, <2>3
<1>8. w = Append(u, g[e])
  BY <1>4, <1>6, <1>7, SeqEqual
<1> QED BY <1>8 DEF w, u, t, Image

LEMMA ImageFront ==
  ASSUME NEW S, NEW s \in Seq(S), s # <<>>, NEW g \in [S -> Nat]
  PROVE  /\ Image(Front(s), g) = SubSeq(Image(s, g), 1, Len(Image(s, g)) - 1)
         /\ Image(s, g) # <<>> /\ Image(s, g)[Len(Image(s, g))] = g[Last(s)]
<1> DEFINE t == Front(s)
           u == [j \in DOMAIN s |-> g[s[j]]]
           w == [j \in DOMAIN t |-> g[t[j]]]
           n == Len(s)
           v == SubSeq(u, 1, n - 1)
<1>1. DOMAIN s = 1..n /\ n \in Nat \ {0} /\ \A j \in 1..n : s[j] \in S
  OBVIOUS
<1>2. t \in Seq(S) /\ Len(t) = n - 1 /\ \A j \in 1..n - 1 : t[j] = s[j]
  BY FrontCount
<1>3. u \in Seq(Nat) /\ Len(u) = n /\ \A j \in 1..n : u[j] = g[s[j]] /\ u[j] \in Nat
  BY <1>1
<1>4. Last(s) = s[n]
  BY DEF Last
<1>5. w \in Seq(Nat) /\ Len(w) = n - 1 /\ \A j \in 1..n - 1 : w[j] = g[t[j]]
  <2>1. DOMAIN t = 1..n - 1 /\ n - 1 \in Nat
    BY <1>1, <1>2
  <2>2. \A j \in 1..n - 1 : g[t[j]] \in Nat
    BY <1>1, <1>2
  <2> HIDE DEF t, n
  <2> QED BY SMTT(30), <2>1, <2>2
<1> HIDE DEF t, u, w, n
<1>6. v \in Seq(Nat) /\ Len(v) = n - 1 /\ \A j \in 1..n - 1 : v[j] = u[j]
  <2>1. 1 \in Int /\ n - 1 \in Int /\ \A j \in 1..n - 1 : u[j] \in Nat
    BY <1>1, <1>3
  <2>2. /\ v \in Seq(Nat)
        /\ Len(v) = IF 1 <= n - 1 THEN n - 1 - 1 + 1 ELSE 0
        /\ \A j \in 1..n - 1 - 1 + 1 : v[j] = u[1 + j - 1]
    BY <2>1, SubSeqProperties
  <2>3. n - 1 - 1 + 1 = n - 1 /\ \A j \in 1..n - 1 : 1 + j - 1 = j
    BY <1>1
  <2> HIDE DEF v
  <2>4. Len(v) = n - 1
    BY <1>1, <2>2
  <2> QED BY <2>2, <2>3, <2>4
<1> HIDE DEF v
<1>7. \A j \in 1..n - 1 : w[j] = v[j]
  <2>1. \A j \in 1..n - 1 : j \in 1..n
    BY <1>1
  <2> TAKE j \in 1..n - 1
  <2>2. w[j] = g[t[j]] /\ t[j] = s[j]
    BY <1>2, <1>5
  <2>3. v[j] = u[j] /\ u[j] = g[s[j]]
    BY <1>3, <1>6, <2>1
  <2> QED BY <2>2, <2>3
<1>8. w = v
  BY <1>5, <1>6, <1>7, SeqEqual
<1>9. n \in 1..n /\ u # <<>>
  BY <1>1, <1>3
<1>10. /\ w = SubSeq(u, 1, Len(u) - 1) /\ u # <<>>
       /\ u[Len(u)] = g[Last(s)]
  BY <1>3, <1>4, <1>8, <1>9 DEF v, n
<1>11. Image(s, g) = u /\ Image(t, g) = w
  BY DEF Image, u, w
<1> QED BY <1>10, <1>11 DEF t

\* A new entry comes last.
LEMMA AddRefines ==
  ASSUME IInv, NEW k \in Key, NEW w \in Iter \cup {None}, SetNew(k, w)
  PROVE  Data!Modify
<1>1. PICK r \in Rec \ Allocated :
         /\ Allocated' = Allocated \cup {r}
         /\ key' = [key EXCEPT ![r] = k] /\ table' = table \cup {r}
         /\ serial' = [serial EXCEPT ![r] = added + 1]
  BY SetNewKeeps
<1>2. IInv' /\ EntriesOK /\ EntriesOK'
  BY SetNewKeeps, EntriesAre, EntriesAreNext
<1>3. /\ added' = added + 1 /\ live' = live /\ cur_record' = cur_record
      /\ ended' = ended /\ calls' = calls /\ Found(k) = {}
  BY DEF SetNew, iterVars
<1>4. /\ added \in Nat /\ key' \in [Rec -> Key \cup {None}]
      /\ key'[r] = k /\ serial'[r] = added + 1
      /\ \A x \in Rec : x # r => key'[x] = key[x] /\ serial'[x] = serial[x]
  BY <1>1, EntriesSeq DEF IInv, TypeOK
<1>5. Allocated \subseteq Rec /\ table \subseteq Allocated
  BY DEF IInv, TypeOK, TableInv, Filled, Allocated, Range
<1>6. ASSUME NEW n \in 1..added PROVE EntryKey(n)' = EntryKey(n)
  <2>1. CASE EntryKey(n) # None
    <3>1. PICK x \in table : serial[x] = n /\ key[x] = EntryKey(n)
      BY <1>2, <2>1 DEF EntriesOK
    <3>2. x \in table' /\ serial'[x] = n /\ key'[x] = EntryKey(n)
      BY <1>1, <1>4, <1>5, <3>1
    <3> QED BY <1>2, <3>2 DEF EntriesOK
  <2>2. CASE EntryKey(n) = None
    <3>1. ASSUME NEW x \in table', serial'[x] = n PROVE FALSE
      <4>1. x # r
        BY <1>4, <3>1
      <4>2. x \in table /\ serial[x] = n
        BY <1>1, <1>4, <1>5, <3>1, <4>1
      <4>3. key[x] \in Key /\ EntryKey(n) = key[x]
        BY <1>2, <4>2 DEF EntriesOK
      <4> QED BY <2>2, <4>3, NoneAssumption
    <3> QED BY <1>2, <2>2, <3>1 DEF EntriesOK
  <2> QED BY <2>1, <2>2
<1>7. ASSUME NEW n, n = added + 1 PROVE EntryKey(n)' = k
  <2>1. r \in table' /\ serial'[r] = n /\ key'[r] = k
    BY <1>1, <1>4, <1>7
  <2> QED BY <1>2, <2>1 DEF EntriesOK
<1> DEFINE e == Entries
           a == Append(e, k)
           m == added + 1
           next(n) == EntryKey(n)'
<1>8. /\ e \in Seq(Key \cup {None}) /\ Len(e) = added
      /\ \A n \in 1..added : e[n] = EntryKey(n) /\ EntryKey(n) \in Key \cup {None}
  BY EntriesSeq
<1>9. Entries' = [n \in 1..m |-> next(n)]
  BY <1>3 DEF Entries
<1> HIDE DEF e
<1>10. /\ a \in Seq(Key \cup {None}) /\ Len(a) = added + 1
       /\ \A n \in 1..added : a[n] = e[n]
       /\ a[added + 1] = k
  BY <1>8, AppendProperties
<1>11. \A n \in 1..m : next(n) = a[n] /\ next(n) \in Key \cup {None}
  <2> TAKE n \in 1..m
  <2>1. n \in 1..added \/ n = added + 1
    BY <1>4
  <2> HIDE DEF a
  <2>2. CASE n \in 1..added
    <3>1. a[n] = e[n]
      BY <1>10, <2>2
    <3> QED BY <1>6, <1>8, <2>2, <3>1
  <2>3. CASE n = added + 1
    <3>1. next(n) = k
      BY <1>7, <2>3
    <3> QED BY <1>10, <2>3, <3>1
  <2> QED BY <2>1, <2>2, <2>3
<1>12. m \in Nat
  BY <1>4
<1> HIDE DEF a, m, next
<1>13. /\ Entries' \in Seq(Key \cup {None}) /\ Len(Entries') = m
       /\ \A n \in 1..m : Entries'[n] = a[n]
  BY <1>9, <1>11, <1>12
<1>14. Len(a) = m
  BY <1>10 DEF m
<1>15. Entries' = a
  BY <1>10, <1>13, <1>14, SeqEqual
<1>16. k \notin Data!Range(Entries)
  <2>1. ASSUME NEW n \in 1..added, Entries[n] = k PROVE FALSE
    <3>1. EntryKey(n) = k /\ k # None
      BY <2>1, NoneAssumption, EntriesSeq
    <3>2. PICK x \in table : key[x] = k
      BY <1>2, <3>1 DEF EntriesOK
    <3> QED BY <1>3, <3>2 DEF Found
  <2> QED BY <2>1, EntriesSeq DEF Data!Range
<1>17. \A x \in Allocated \cap Allocated' : serial'[x] = serial[x]
  BY <1>1, <1>4, <1>5
<1>18. At' = At
  BY <1>2, <1>3, <1>17, AtSame
<1>19. Visited' = Visited
  <2>1. \A j \in DOMAIN calls : calls[j] \in Allocated
    BY DEF IInv, WalkInv, WalksAreAtRecords, Range
  <2>2. \A j \in DOMAIN calls : serial'[calls[j]] = serial[calls[j]]
    BY <1>1, <1>17, <2>1
  <2> QED BY <1>3, <2>2 DEF Visited
<1>20. Data!Add(k)
  BY <1>15, <1>16 DEF Data!Add, a, e
<1> QED BY <1>18, <1>19, <1>20 DEF Data!Modify

\* A deleted entry is a hole; the iterators it held are gone.
LEMMA DeleteRefines ==
  ASSUME IInv, NEW k \in Key, Delete(k)
  PROVE  \E I \in SUBSET Iter : Data!LetGo(I) /\ Data!Remove({k}) /\ UNCHANGED Visited
<1>1. IInv' /\ SerialsStay /\ EntriesOK /\ EntriesOK'
  BY DeleteKeeps, EntriesAre, EntriesAreNext
<1>2. PICK r \in Found(k) : table' = table \ {r} /\ key' = [key EXCEPT ![r] = None]
  BY DeleteKeeps
<1>3. PICK I \in SUBSET Iter : Finalize(I)
  BY DeleteKeeps
<1>4. /\ added' = added /\ calls' = calls /\ Script
      /\ r \in table /\ key[r] = k /\ k # None
  BY NoneAssumption DEF Delete, Found
<1>5. Allocated \subseteq Rec /\ table = Filled /\ table \subseteq Allocated
  BY <1>4 DEF IInv, TypeOK, TableInv, Filled, Allocated, Range, Script
<1>6. \A x \in table' : x \in table /\ x # r /\ serial'[x] = serial[x] /\ key'[x] = key[x]
  <2>1. table' \subseteq Allocated'
    BY <1>1 DEF IInv, TableInv, Filled
  <2> QED BY <1>1, <1>2, <1>5, <2>1 DEF SerialsStay, IInv, TypeOK
<1>7. ASSUME NEW n PROVE EntryKey(n)' = IF EntryKey(n) = k THEN None ELSE EntryKey(n)
  <2>1. ASSUME NEW x \in table', serial'[x] = n
        PROVE  x \in table /\ x # r /\ EntryKey(n) = key[x] /\ key[x] \in Key
    BY <1>1, <1>6, <2>1 DEF EntriesOK
  <2>2. CASE EntryKey(n) = k
    <3>1. ASSUME NEW x \in table', serial'[x] = n PROVE FALSE
      <4>1. x \in Filled /\ r \in Filled /\ key[x] = key[r] /\ x # r
        BY <1>4, <1>5, <2>1, <2>2, <3>1
      <4> QED BY <4>1 DEF IInv, TableInv
    <3> QED BY <1>1, <2>2, <3>1 DEF EntriesOK
  <2>3. CASE EntryKey(n) # k /\ EntryKey(n) # None
    <3>1. PICK x \in table : serial[x] = n /\ key[x] = EntryKey(n)
      BY <1>1, <2>3 DEF EntriesOK
    <3>2. x \in table'
      BY <1>2, <1>4, <2>3, <3>1
    <3>3. serial'[x] = n /\ key'[x] = EntryKey(n)
      BY <1>6, <3>1, <3>2
    <3> QED BY <1>1, <2>3, <3>2, <3>3 DEF EntriesOK
  <2>4. CASE EntryKey(n) # k /\ EntryKey(n) = None
    <3>1. ASSUME NEW x \in table', serial'[x] = n PROVE FALSE
      BY <2>1, <2>4, <3>1, NoneAssumption
    <3> QED BY <1>1, <2>4, <3>1 DEF EntriesOK
  <2> QED BY <2>2, <2>3, <2>4
<1>8. Data!Remove({k})
  <2>1. Entries' = [n \in 1..added |-> IF EntryKey(n) = k THEN None ELSE EntryKey(n)]
    BY <1>4, <1>7 DEF Entries
  <2>2. DOMAIN Entries = 1..added /\ \A n \in 1..added : Entries[n] = EntryKey(n)
    BY EntriesSeq
  <2> QED BY <2>1, <2>2 DEF Data!Remove
<1>9. Data!LetGo(I)
  BY <1>1, <1>3, AtGoes
<1> QED BY <1>1, <1>4, <1>8, <1>9, VisitedSame

\* js_map_clear makes holes of all the entries at once.
LEMMA ClearRefines ==
  ASSUME IInv, Clear
  PROVE  Data!Modify
<1>1. IInv' /\ table' = {} /\ UNCHANGED <<listVars, iterVars, histVars>> /\ calls' = calls
  BY ClearKeeps DEF Clear
<1>2. /\ records' = records /\ key' = key /\ live' = live /\ cur_record' = cur_record
      /\ ended' = ended /\ serial' = serial /\ added' = added
  BY <1>1 DEF listVars, iterVars, histVars
<1>3. At' = At /\ Visited' = Visited
  BY <1>1, <1>2 DEF At, Visited
<1>4. \A n : EntryKey(n)' = None
  BY <1>1 DEF EntryKey
<1>5. Data!Remove(Key)
  <2>1. Entries' = [n \in 1..added |-> None]
    BY <1>2, <1>4 DEF Entries
  <2>2. /\ DOMAIN Entries = 1..added
        /\ \A n \in 1..added : (IF Entries[n] \in Key THEN None ELSE Entries[n]) = None
    BY EntriesSeq
  <2> QED BY <2>1, <2>2 DEF Data!Remove
<1> QED BY <1>3, <1>5 DEF Data!Modify

\* The steps in which iterators may die and no entry is touched.
LEMMA LetGoRefines ==
  ASSUME IInv, IInv', SerialsStay, NEW I \in SUBSET Iter, Finalize(I),
         table' = table, added' = added, calls' = calls, \A r \in table : key'[r] = key[r]
  PROVE  Data!LetGo(I) /\ UNCHANGED <<Entries, Visited>>
<1>1. \A r \in table : serial'[r] = serial[r]
  <2>1. table' \subseteq Allocated'
    BY DEF IInv, TableInv, Filled
  <2> QED BY <2>1 DEF SerialsStay
<1> QED BY <1>1, AtGoes, EntriesSame, VisitedSame

\* An iterator that is made is before the first entry.
LEMMA CreateRefines ==
  ASSUME IInv, NEW i \in Iter, Create(i)
  PROVE  Data!Walk(i)
<1>1. /\ i \notin live /\ live' = live \cup {i} /\ table' = table /\ calls' = calls
      /\ cur_record' = cur_record /\ ended' = ended /\ UNCHANGED <<listVars, histVars>>
  BY DEF Create
<1>2. records' = records /\ key' = key /\ serial' = serial /\ added' = added
  BY <1>1 DEF listVars, histVars
<1>3. IInv'
  BY TakeKeeps
<1>4. Entries' = Entries
  BY <1>1, <1>2, <1>3, EntriesSame
<1>5. Visited' = Visited
  BY <1>1, <1>2 DEF Visited
<1>6. cur_record[i] = None /\ i \notin ended
  BY <1>1 DEF IInv, WalkInv, TypeOK
<1>7. ASSUME NEW j \in Iter PROVE At'[j] = IF j = i THEN 0 ELSE At[j]
  <2>1. CASE j = i
    BY <1>1, <1>6, <2>1 DEF At
  <2>2. CASE j # i
    <3>1. At'[j] = At[j]
      BY <1>1, <1>2, <1>3, <2>2, AtStays
    <3> QED BY <2>2, <3>1
  <2> QED BY <2>1, <2>2
<1>8. At' = [j \in Iter |-> At'[j]] /\ At = [j \in Iter |-> At[j]]
  BY DEF At
<1> HIDE DEF At
<1>9. At' = [At EXCEPT ![i] = 0]
  BY <1>7, <1>8
<1> QED BY <1>4, <1>5, <1>9 DEF Data!Walk

\* js_map_iterator_next goes to the next entry that is no hole, or to the end.
LEMMA IteratorNextRefines ==
  ASSUME IInv, NEW i \in Iter, IteratorNext(i)
  PROVE  Data!Walk(i)
<1> DEFINE new == NextOf(i)
           n == At[i]
<1>1. /\ IInv' /\ Kept(key) /\ i \in live \ ended /\ new \in Filled \cup {None}
  BY IteratorNextKeeps
<1>2. /\ Script /\ cur_record' = [cur_record EXCEPT ![i] = new]
      /\ ended' = IF new = None THEN ended \cup {i} ELSE ended
      /\ table' = table /\ live' = live /\ calls' = calls /\ added' = added
  BY DEF IteratorNext, NextOf
<1>3. SerialsStay /\ key' = key
  BY <1>1 DEF Kept
<1> HIDE DEF new
<1>4. /\ cur_record'[i] = new /\ \A j \in Iter : j # i => cur_record'[j] = cur_record[j]
  BY <1>2 DEF IInv, TypeOK
<1>5. cur_record[i] \in Allocated \cup {None}
  BY <1>1 DEF IInv, WalkInv, WalksAreAtRecords
<1>6. n \in Nat /\ NextFilled(n, new)
  <2>1. n = IF cur_record[i] = None THEN 0 ELSE serial[cur_record[i]]
    BY <1>1 DEF At
  <2>2. CASE cur_record[i] = None
    BY <2>1, <2>2, ListIsOK, FromFirst DEF new, NextOf
  <2>3. CASE cur_record[i] # None
    <3>1. cur_record[i] \in Allocated /\ serial[cur_record[i]] \in Nat
      BY <1>5, <2>3 DEF IInv, TypeOK, Allocated, Range
    <3>2. NextFilled(serial[cur_record[i]], Next1(cur_record[i]))
      BY <3>1, ListIsOK, FromNext
    <3> QED BY <2>1, <2>3, <3>1, <3>2 DEF new, NextOf
  <2> QED BY <2>2, <2>3
<1>7. Data!After(n) = IF new = None THEN -1 ELSE serial[new]
  <2> HIDE DEF n
  <2> QED BY <1>2, <1>6, AfterIs
<1>8. At'[i] = Data!After(n)
  <2>1. CASE new = None
    <3>1. i \in ended'
      BY <1>2, <2>1
    <3> QED BY <1>7, <2>1, <3>1 DEF At
  <2>2. CASE new # None
    <3>1. i \in live' /\ i \notin ended'
      BY <1>1, <1>2, <2>2
    <3>2. new \in Allocated'
      BY <1>1, <1>4, <2>2, <3>1 DEF IInv, WalkInv, WalksAreAtRecords
    <3>3. serial'[new] = serial[new]
      BY <1>3, <3>2 DEF SerialsStay
    <3>4. At'[i] = serial'[new]
      BY <1>4, <2>2, <3>1 DEF At
    <3> QED BY <1>7, <2>2, <3>3, <3>4
  <2> QED BY <2>1, <2>2
<1>9. ASSUME NEW j \in Iter, j # i PROVE At'[j] = At[j]
  <2>1. j \in ended' <=> j \in ended
    BY <1>2, <1>9
  <2>2. \A r \in Allocated \cap Allocated' : serial'[r] = serial[r]
    BY <1>3 DEF SerialsStay
  <2> QED BY <1>1, <1>2, <1>4, <1>9, <2>1, <2>2, AtStays
<1>10. At' = [j \in Iter |-> At'[j]] /\ At = [j \in Iter |-> At[j]]
  BY DEF At
<1>11. Entries' = Entries
  <2>1. \A r \in table : serial'[r] = serial[r] /\ key'[r] = key[r]
    <3>1. table' \subseteq Allocated'
      BY <1>1 DEF IInv, TableInv, Filled
    <3> QED BY <1>2, <1>3, <3>1 DEF SerialsStay
  <2> QED BY <1>1, <1>2, <2>1, EntriesSame
<1>12. Visited' = Visited
  BY <1>1, <1>2, <1>3, VisitedSame
<1>13. At[i] # Data!Done
  BY <1>6 DEF Data!Done
<1> DEFINE a == At
           b == At'
           x == Data!After(n)
<1>14. b[i] = x /\ (\A j \in Iter : j # i => b[j] = a[j])
       /\ b = [j \in Iter |-> b[j]] /\ a = [j \in Iter |-> a[j]]
  BY <1>8, <1>9, <1>10
<1>15. At' = [At EXCEPT ![i] = Data!After(At[i])]
  <2> HIDE DEF a, b, x
  <2>1. b = [a EXCEPT ![i] = x]
    BY <1>14
  <2> QED BY <2>1 DEF a, b, x
<1> QED BY <1>11, <1>12, <1>13, <1>15 DEF Data!Walk

\* The walks of forEach: what the step shows of them, and that the rest stays.
LEMMA CallsRefine ==
  ASSUME IInv, IInv', Kept(key), table' = table, added' = added,
         live' = live, ended' = ended, cur_record' = cur_record
  PROVE  /\ Entries' = Entries /\ At' = At
         /\ Visited' = Image(calls', serial)
<1>1. SerialsStay /\ key' = key
  BY DEF Kept
<1>2. Entries' = Entries
  <2>1. \A r \in table : serial'[r] = serial[r] /\ key'[r] = key[r]
    <3>1. table' \subseteq Allocated'
      BY DEF IInv, TableInv, Filled
    <3> QED BY <1>1, <3>1 DEF SerialsStay
  <2> QED BY <2>1, EntriesSame
<1>3. At' = At
  <2>1. \A r \in Allocated \cap Allocated' : serial'[r] = serial[r]
    BY <1>1 DEF SerialsStay
  <2> QED BY <2>1, AtSame
<1>4. \A j \in DOMAIN calls' : calls'[j] \in Allocated'
  BY DEF IInv, WalkInv, WalksAreAtRecords, Range
<1>5. \A j \in DOMAIN calls' : serial'[calls'[j]] = serial[calls'[j]]
  BY <1>1, <1>4 DEF SerialsStay
<1>6. Visited' = Image(calls', serial)
  BY <1>5 DEF Visited, Image
<1> QED BY <1>2, <1>3, <1>6

\* forEach calls its function for the first entry that is no hole.
LEMMA ForEachRefines ==
  ASSUME IInv, ForEach
  PROVE  Data!ForEach
<1> DEFINE new == From(1)
<1>1. IInv' /\ Kept(key) /\ new \in Filled
  BY ForEachKeeps
<1>2. /\ Script /\ new # None /\ calls' = Append(calls, new) /\ table' = table
      /\ live' = live /\ cur_record' = cur_record /\ ended' = ended /\ added' = added
  BY DEF ForEach, iterVars
<1>3. NextFilled(0, new)
  BY ListIsOK, FromFirst
<1> HIDE DEF new
<1>4. new \in Rec /\ calls \in Seq(Rec) /\ serial \in [Rec -> Nat]
  BY <1>1 DEF Filled, IInv, TypeOK, Allocated, Range
<1>5. Data!After(0) = serial[new]
  BY <1>2, <1>3, AfterIs
<1>6. /\ Entries' = Entries /\ At' = At
      /\ Visited' = Image(calls', serial)
  BY <1>1, <1>2, CallsRefine
<1>7. Image(Append(calls, new), serial) = Append(Image(calls, serial), serial[new])
  BY <1>4, ImageAppend
<1>8. Visited' = Append(Visited, serial[new])
  BY <1>2, <1>6, <1>7 DEF Visited, Image
<1>9. serial[new] # -1
  BY <1>4
<1>10. Data!Visit(Visited, 0)
  BY <1>5, <1>8, <1>9 DEF Data!Visit, Data!Done
<1> QED BY <1>6, <1>10 DEF Data!ForEach

\* Its function returns: on to the next entry that is no hole, or forEach is over.
LEMMA ForEachNextRefines ==
  ASSUME IInv, ForEachNext
  PROVE  Data!ForEach
<1> DEFINE old == Last(calls)
           f == Front(calls)
           rest == SubSeq(Visited, 1, Len(Visited) - 1)
           last == Visited[Len(Visited)]
<1>1. IInv' /\ Kept(key) /\ calls # <<>> /\ old \in Allocated
  BY ForEachNextKeeps
<1>2. PICK new \in {Next1(old), None} :
        calls' = IF new = None THEN f ELSE Append(f, new)
  BY DEF ForEachNext
<1>3. /\ Script /\ table' = table /\ live' = live /\ cur_record' = cur_record
      /\ ended' = ended /\ added' = added
  BY DEF ForEachNext, iterVars
<1>4. calls \in Seq(Rec) /\ serial \in [Rec -> Nat]
  BY DEF IInv, TypeOK
<1>5. /\ Entries' = Entries /\ At' = At
      /\ Visited' = Image(calls', serial)
  BY <1>1, <1>3, CallsRefine
<1>6. /\ Image(f, serial) = rest
      /\ Visited # <<>> /\ last = serial[old]
  <2>1. Visited = Image(calls, serial)
    BY DEF Visited, Image
  <2> QED BY <1>1, <1>4, <2>1, ImageFront
<1>7. f \in Seq(Rec) /\ old \in Rec
  <2>1. f \in Seq(Rec)
    BY <1>1, <1>4, FrontCount
  <2> QED BY <1>1, <2>1 DEF Allocated, Range, IInv, TypeOK
<1>8. NextFilled(serial[old], Next1(old)) /\ Next1(old) \in Filled \cup {None}
  BY <1>1, ListIsOK, FromNext
<1> HIDE DEF old, f, rest, last
<1>9. serial[old] \in Nat
  BY <1>4, <1>7
<1>10. CASE new = None
  <2>1. calls' = f
    BY <1>2, <1>10
  <2>2. Visited' = rest
    BY <1>5, <1>6, <2>1
  <2> QED BY <1>5, <1>6, <2>2 DEF Data!ForEach, rest
<1>11. CASE new # None
  <2>1. calls' = Append(f, new) /\ new = Next1(old) /\ new \in Filled
    BY <1>2, <1>8, <1>11
  <2>2. new \in Rec
    BY <2>1 DEF Filled, IInv, TypeOK, Allocated, Range
  <2>3. Image(Append(f, new), serial) = Append(Image(f, serial), serial[new])
    BY <1>4, <1>7, <2>2, ImageAppend
  <2>4. Visited' = Append(rest, serial[new])
    BY <1>5, <1>6, <2>1, <2>3
  <2>5. Data!After(serial[old]) = serial[new]
    BY <1>3, <1>8, <1>9, <1>11, <2>1, AfterIs
  <2>6. serial[new] # -1
    BY <1>4, <2>2
  <2>7. Data!Visit(rest, last)
    BY <1>6, <2>4, <2>5, <2>6 DEF Data!Visit, Data!Done
  <2> QED BY <1>5, <1>6, <2>7 DEF Data!ForEach, rest, last
<1> QED BY <1>10, <1>11

LEMMA InitRefines ==
  ASSUME Init
  PROVE  Data!DInit
<1>1. added = 0 /\ calls = <<>> /\ live = {}
  BY DEF Init
<1>2. Entries = <<>>
  <2>1. 1..0 = {}
    OBVIOUS
  <2>2. Entries = [n \in {} |-> EntryKey(n)]
    BY <1>1, <2>1 DEF Entries
  <2> QED BY <2>2
<1>3. At = [i \in Iter |-> -1]
  BY <1>1 DEF At
<1>4. Visited = <<>>
  <2>1. Visited = [j \in {} |-> serial[calls[j]]]
    BY <1>1 DEF Visited
  <2> QED BY <2>1
<1> QED BY <1>2, <1>3, <1>4 DEF Data!DInit, Data!Done

LEMMA NextRefines ==
  ASSUME IInv, [Next]_vars
  PROVE  [Data!DNext]_<<Entries, At, Visited>>
<1>1. ASSUME NEW I \in SUBSET Iter, Data!LetGo(I), UNCHANGED <<Entries, Visited>>
      PROVE  Data!DNext
  BY <1>1 DEF Data!DNext
<1>2. ASSUME NEW k \in Key, NEW w \in Iter \cup {None}, SetOld(k, w)
      PROVE  Data!DNext
  <2>1. IInv' /\ Kept(key) /\ \E I \in SUBSET Iter : Finalize(I)
    BY <1>2, SetOldKeeps
  <2>2. table' = table /\ added' = added /\ calls' = calls
    BY <1>2 DEF SetOld
  <2>3. SerialsStay /\ key' = key
    BY <2>1 DEF Kept
  <2> QED BY <1>1, <2>1, <2>2, <2>3, LetGoRefines
<1>3. ASSUME NEW k \in Key, NEW w \in Iter \cup {None}, SetNew(k, w)
      PROVE  Data!DNext
  BY <1>3, AddRefines DEF Data!DNext
<1>4. ASSUME NEW k \in Key, Delete(k)
      PROVE  Data!DNext
  BY <1>4, DeleteRefines DEF Data!DNext
<1>5. CASE Clear
  BY <1>5, ClearRefines DEF Data!DNext
<1>6. CASE ClearRecord
  <2>1. /\ IInv' /\ table' = {} /\ table = {} /\ added' = added /\ calls' = calls
        /\ SerialsStay /\ \E I \in SUBSET Iter : Finalize(I)
    BY <1>6, ClearRecordKeeps
  <2> QED BY <1>1, <2>1, LetGoRefines
<1>7. ASSUME NEW i \in Iter, Create(i)
      PROVE  Data!DNext
  BY <1>7, CreateRefines DEF Data!DNext
<1>8. ASSUME NEW i \in Iter, Load(i)
      PROVE  UNCHANGED <<Entries, At, Visited>>
  <2>1. /\ table' = table /\ calls' = calls /\ live' = live /\ ended' = ended
        /\ cur_record' = cur_record /\ serial' = serial /\ key' = key /\ added' = added
    BY <1>8 DEF Load, listVars, iterVars, histVars
  <2>2. IInv'
    BY <1>8, TakeKeeps
  <2>3. Entries' = Entries
    BY <2>1, <2>2, EntriesSame
  <2>4. At' = At /\ Visited' = Visited
    BY <2>1 DEF At, Visited
  <2> QED BY <2>3, <2>4
<1>9. ASSUME NEW i \in Iter, Drop(i)
      PROVE  Data!DNext
  <2>1. IInv' /\ Kept(key) /\ \E I \in SUBSET Iter : Finalize(I)
    BY <1>9, DropKeeps
  <2>2. table' = table /\ added' = added /\ calls' = calls
    BY <1>9 DEF Drop
  <2>3. SerialsStay /\ key' = key
    BY <2>1 DEF Kept
  <2> QED BY <1>1, <2>1, <2>2, <2>3, LetGoRefines
<1>10. ASSUME NEW i \in Iter, IteratorNext(i)
       PROVE  Data!DNext
  BY <1>10, IteratorNextRefines DEF Data!DNext
<1>11. CASE ForEach
  BY <1>11, ForEachRefines DEF Data!DNext
<1>12. CASE ForEachNext
  BY <1>12, ForEachNextRefines DEF Data!DNext
<1>13. CASE UNCHANGED vars
  <2>1. /\ table' = table /\ calls' = calls /\ live' = live /\ ended' = ended
        /\ cur_record' = cur_record /\ serial' = serial /\ key' = key /\ added' = added
    BY <1>13 DEF vars, listVars, iterVars, histVars
  <2>2. IInv'
    BY <1>13, StutterKeeps
  <2>3. Entries' = Entries
    BY <2>1, <2>2, EntriesSame
  <2>4. At' = At /\ Visited' = Visited
    BY <2>1 DEF At, Visited
  <2> QED BY <2>3, <2>4
<1> QED
  BY <1>2, <1>3, <1>4, <1>5, <1>6, <1>7, <1>8, <1>9, <1>10, <1>11, <1>12, <1>13 DEF Next

\* js_map_iterator_next and js_map_forEach with the records they lock implement
\* walks over a list from which nothing is ever removed: in the order of
\* insertion, past what was deleted, on to what was added, no entry twice.
THEOREM Refinement == Spec => DataSpec
<1>1. Init => Data!DInit
  BY InitRefines
<1>2. IInv /\ [Next]_vars => [Data!DNext]_<<Entries, At, Visited>>
  BY NextRefines
<1> QED BY <1>1, <1>2, Invariant, PTL DEF Spec, DataSpec, Data!MSpec

----------------------------------------------------------------------------
(* Where a freed record can be used *)

\* The loop of js_map_clear is at a record that has been freed
OnlyInClear == crashed => clearing \notin Allocated \cup {None}

\* map_decref_record: assert(mr->empty) does not fail, and no walk, lookup or
\* deletion by the script uses a freed record: js_map_clear is the only place
\* that can, when the iterator of a value it frees was the last lock on the
\* record its list_for_each_safe comes to next.
THEOREM FreedOnlyInClear == Spec => []OnlyInClear
<1>1. Init => OnlyInClear
  BY DEF Init, OnlyInClear
<1>2. IInv /\ OnlyInClear /\ [Next]_vars => OnlyInClear'
  <2> SUFFICES ASSUME IInv, OnlyInClear, [Next]_vars
               PROVE  OnlyInClear'
    OBVIOUS
  <2>1. ASSUME NEW k \in Key, NEW w \in Iter \cup {None}, SetOld(k, w)
        PROVE  ~crashed'
    BY <2>1, SetOldKeeps DEF Kept, SetOld, Script
  <2>2. ASSUME NEW k \in Key, NEW w \in Iter \cup {None}, SetNew(k, w)
        PROVE  ~crashed'
    BY <2>2 DEF SetNew, Script
  <2>3. ASSUME NEW k \in Key, Delete(k)
        PROVE  ~crashed'
    BY <2>3, DeleteKeeps DEF Delete, Script
  <2>4. ASSUME Clear
        PROVE  ~crashed'
    BY <2>4 DEF Clear, Script
  <2>5. ASSUME ClearRecord
        PROVE  OnlyInClear'
    <3>1. crashed' => clearing' = clearing /\ clearing \notin Allocated' \cup {None}
      BY <2>5, ClearRecordKeeps
    <3> QED BY <3>1 DEF OnlyInClear
  <2>6. ASSUME NEW i \in Iter, Create(i) \/ Load(i)
        PROVE  ~crashed'
    BY <2>6 DEF Create, Load, Script
  <2>7. ASSUME NEW i \in Iter, Drop(i)
        PROVE  ~crashed'
    BY <2>7, DropKeeps DEF Kept, Drop, Script
  <2>8. ASSUME NEW i \in Iter, IteratorNext(i)
        PROVE  ~crashed'
    BY <2>8, IteratorNextKeeps DEF Kept, IteratorNext, Script
  <2>9. ASSUME ForEach
        PROVE  ~crashed'
    BY <2>9, ForEachKeeps DEF Kept, ForEach, Script
  <2>10. ASSUME ForEachNext
        PROVE  ~crashed'
    BY <2>10, ForEachNextKeeps DEF Kept, ForEachNext, Script
  <2>11. CASE UNCHANGED vars
    BY <2>11 DEF vars, listVars, OnlyInClear, Allocated, Range
  <2>12. ~crashed' => OnlyInClear'
    BY DEF OnlyInClear
  <2> QED
    BY <2>1, <2>2, <2>3, <2>4, <2>5, <2>6, <2>7, <2>8, <2>9, <2>10, <2>11, <2>12 DEF Next
<1> QED BY <1>1, <1>2, Invariant, PTL DEF Spec
=============================================================================
