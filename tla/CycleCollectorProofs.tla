------------------------ MODULE CycleCollectorProofs ------------------------
(***************************************************************************)
(* Reference counts and trial deletion, for heaps of any size: counts are  *)
(* exact, no reference dangles, a collection frees what cannot be reached  *)
(* and only that, and no zombie is kept for nothing.                       *)
(***************************************************************************)
EXTENDS CycleCollector, FiniteSetTheorems, TLAPS

----------------------------------------------------------------------------
(* The inductive invariant *)

\* The slots with a reference to x from an object of C; those with a weak one
Into(x, C) == {e \in slots : e.to = x /\ e.from \in C}
WeakOf(x)  == {e \in slots : e.key = x}

CountInv ==
  /\ IsFiniteSet(slots)
  /\ \A x \in Obj : ref_count[x] = Cardinality(Into(x, Counted))
                                     + (IF x \in held THEN 1 ELSE 0)
  /\ \A x \in Obj : weakref_count[x] = Cardinality(WeakOf(x))

\* Which lists are in use, and how far a pass has come
ListInv ==
  /\ gc_obj_list \cap tmp_obj_list = {}
  /\ gc_obj_list \cap gc_zero_ref_count_list = {}
  /\ tmp_obj_list \cap gc_zero_ref_count_list = {}
  /\ pc \in {"idle", "zero", "weak", "weakZero"} => tmp_obj_list = {}
  /\ pc \in {"idle", "decref", "scan", "restore"} => gc_zero_ref_count_list = {}
  /\ pc \in {"decref", "scan"} => todo \subseteq gc_obj_list
  /\ pc = "restore" => todo \subseteq tmp_obj_list
  /\ pc = "weak" => visit \subseteq slots /\ \A e \in visit : e.key # None

\* A value that is referenced is on a list, the list of dead ones only while
\* cycles are taken apart.
ToInv ==
  \A e \in slots :
    /\ e.to # None \/ e.key # None
    /\ e.to # None => \/ e.to \in gc_obj_list \cup tmp_obj_list
                      \/ pc = "cycles" /\ e.to \in gc_zero_ref_count_list

\* What count and mark say of the objects of each list; the rest are zombies
MarkInv ==
  /\ \A x \in alloc \ (gc_obj_list \cup tmp_obj_list \cup gc_zero_ref_count_list) :
        ref_count[x] = 0 /\ weakref_count[x] > 0 /\ mark[x] = 0
  /\ \A x \in gc_zero_ref_count_list : mark[x] = 1
  /\ \A x \in tmp_obj_list : mark[x] = 1
  /\ pc \in {"idle", "zero", "weak", "weakZero"} =>
        /\ \A x \in gc_obj_list : ref_count[x] > 0 /\ mark[x] = 0
        /\ \A x \in gc_zero_ref_count_list : ref_count[x] = 0
  /\ pc = "decref" =>
        /\ \A x \in todo : mark[x] = 0
        /\ \A x \in gc_obj_list \ todo : mark[x] = 1 /\ ref_count[x] > 0
        /\ \A x \in tmp_obj_list : ref_count[x] = 0
  /\ pc = "scan" =>
        /\ \A x \in gc_obj_list : ref_count[x] > 0
        /\ \A x \in gc_obj_list \ todo : mark[x] = 0
        /\ \A x \in tmp_obj_list : ref_count[x] = 0
  /\ pc \in {"restore", "cycles"} => \A x \in gc_obj_list : mark[x] = 0

\* What has been kept: it refers to nothing else, and whatever contains all the
\* program holds and what that refers to contains it.
KeptInv ==
  /\ pc = "scan" =>
        \A e \in slots : e.from \in gc_obj_list \ todo => e.to \in gc_obj_list \cup {None}
  /\ pc \in {"restore", "cycles"} =>
        /\ held \subseteq gc_obj_list
        /\ \A e \in slots : e.from \in gc_obj_list => e.to \in gc_obj_list \cup {None}
        /\ \A x \in gc_obj_list :
              x \in held \/ \E e \in slots : e.to = x /\ e.from \in gc_obj_list
  /\ pc \in {"scan", "restore", "cycles"} =>
        \A S \in SUBSET Obj : held \subseteq S /\ ClosedUnderRefs(S) => gc_obj_list \subseteq S
  /\ pc = "cycles" => \A e \in slots : e.from \notin gc_zero_ref_count_list

IInv == TypeOK /\ CountInv /\ ListInv /\ NoDangling /\ ToInv /\ MarkInv /\ KeptInv

----------------------------------------------------------------------------
(* Counting *)

LEMMA Fewer ==
  ASSUME NEW A, IsFiniteSet(A), NEW B \in SUBSET A
  PROVE  /\ IsFiniteSet(A \ B) /\ IsFiniteSet(B)
         /\ Cardinality(A) \in Nat /\ Cardinality(B) \in Nat
         /\ Cardinality(A \ B) \in Nat
         /\ Cardinality(A \ B) = Cardinality(A) - Cardinality(B)
<1>1. IsFiniteSet(B)
  BY FS_Subset
<1>2. A \cap B = B
  OBVIOUS
<1>3. IsFiniteSet(A \ B) /\ Cardinality(A \ B) = Cardinality(A) - Cardinality(A \cap B)
  BY FS_Difference
<1>4. Cardinality(A) \in Nat /\ Cardinality(B) \in Nat /\ Cardinality(A \ B) \in Nat
  BY <1>1, <1>3, FS_CardinalityType
<1> QED
  BY <1>1, <1>2, <1>3, <1>4

LEMMA Nobody ==
  ASSUME NEW A, IsFiniteSet(A)
  PROVE  Cardinality(A) \in Nat /\ (Cardinality(A) = 0 <=> A = {})
  BY FS_CardinalityType, FS_EmptySet

\* What the counts of x mean
LEMMA Meaning ==
  ASSUME CountInv, NEW x \in Obj
  PROVE  /\ ref_count[x] \in Nat /\ weakref_count[x] \in Nat
         /\ ref_count[x] = 0 <=> x \notin held /\ Into(x, Counted) = {}
         /\ weakref_count[x] = 0 <=> WeakOf(x) = {}
<1>1. IsFiniteSet(Into(x, Counted)) /\ IsFiniteSet(WeakOf(x))
  <2>1. Into(x, Counted) \subseteq slots /\ WeakOf(x) \subseteq slots
    BY DEF Into, WeakOf
  <2> QED
    BY <2>1, FS_Subset DEF CountInv
<1>2. /\ Cardinality(Into(x, Counted)) \in Nat /\ Cardinality(WeakOf(x)) \in Nat
      /\ Cardinality(Into(x, Counted)) = 0 <=> Into(x, Counted) = {}
      /\ Cardinality(WeakOf(x)) = 0 <=> WeakOf(x) = {}
  BY <1>1, Nobody
<1>3. /\ ref_count[x] = Cardinality(Into(x, Counted)) + (IF x \in held THEN 1 ELSE 0)
      /\ weakref_count[x] = Cardinality(WeakOf(x))
  BY DEF CountInv
<1> QED
  BY <1>2, <1>3

\* ... also after a step
LEMMA MeaningNext ==
  ASSUME CountInv', NEW x \in Obj
  PROVE  /\ ref_count'[x] \in Nat /\ weakref_count'[x] \in Nat
         /\ ref_count'[x] = 0 <=> x \notin held' /\ Into(x, Counted)' = {}
         /\ weakref_count'[x] = 0 <=> WeakOf(x)' = {}
<1>1. IsFiniteSet(Into(x, Counted)') /\ IsFiniteSet(WeakOf(x)')
  <2>1. Into(x, Counted)' \subseteq slots' /\ WeakOf(x)' \subseteq slots'
    BY DEF Into, WeakOf
  <2> QED
    BY <2>1, FS_Subset DEF CountInv
<1>2. /\ Cardinality(Into(x, Counted)') \in Nat /\ Cardinality(WeakOf(x)') \in Nat
      /\ Cardinality(Into(x, Counted)') = 0 <=> Into(x, Counted)' = {}
      /\ Cardinality(WeakOf(x)') = 0 <=> WeakOf(x)' = {}
  BY <1>1, Nobody
<1>3. /\ ref_count'[x] = Cardinality(Into(x, Counted)') + (IF x \in held' THEN 1 ELSE 0)
      /\ weakref_count'[x] = Cardinality(WeakOf(x)')
  BY DEF CountInv
<1> QED
  BY <1>2, <1>3

\* What the slots of S refer to x with, taken out of a set of slots or put in
ToIn(S, x) == {e \in S : e.to = x}

LEMMA Moved ==
  ASSUME NEW x \in Obj, NEW S, NEW A, IsFiniteSet(A), ToIn(S, x) \subseteq A
  PROVE  /\ Cardinality(A) \in Nat /\ Refs(S)[x] \in Nat
         /\ Cardinality(A \ ToIn(S, x)) \in Nat
         /\ Cardinality(A \ ToIn(S, x)) = Cardinality(A) - Refs(S)[x]
         /\ Cardinality(A) = Cardinality(A \ ToIn(S, x)) + Refs(S)[x]
<1>1. Refs(S)[x] = Cardinality(ToIn(S, x))
  BY DEF Refs, ToIn
<1>2. /\ Cardinality(A) \in Nat /\ Cardinality(ToIn(S, x)) \in Nat
      /\ Cardinality(A \ ToIn(S, x)) \in Nat
      /\ Cardinality(A \ ToIn(S, x)) = Cardinality(A) - Cardinality(ToIn(S, x))
  BY Fewer
<1> QED
  BY <1>1, <1>2

LEMMA IntoFinite ==
  ASSUME CountInv, NEW x
  PROVE  IsFiniteSet(Into(x, Counted))
<1>1. Into(x, Counted) \subseteq slots
  BY DEF Into
<1> QED
  BY <1>1, FS_Subset DEF CountInv

LEMMA SlotType ==
  ASSUME TypeOK, NEW e \in slots
  PROVE  e.from \in Obj /\ e.to \in Obj \cup {None} /\ e.key \in Obj \cup {None}
  BY DEF TypeOK, Slot

LEMMA CountedObj ==
  /\ pc \notin {"decref", "scan", "restore"} => Counted = Obj
  /\ pc' \notin {"decref", "scan", "restore"} => Counted' = Obj
  BY DEF Counted

LEMMA CountRelease ==
  ASSUME TypeOK, CountInv, NEW S \in SUBSET slots, Release(S), held' = held,
         Counted = Obj, Counted' = Obj
  PROVE  CountInv'
<1>1. IsFiniteSet(slots') /\ slots' \subseteq slots /\ slots' = slots \ S
  BY FS_Subset DEF CountInv, Release
<1>2. ASSUME NEW x \in Obj
      PROVE  ref_count'[x] = Cardinality(Into(x, Counted)') + (IF x \in held' THEN 1 ELSE 0)
  <2>1. Into(x, Counted)' = Into(x, Counted) \ ToIn(S, x)
    BY <1>1 DEF Into, ToIn
  <2>2. ToIn(S, x) \subseteq Into(x, Counted)
    BY SlotType DEF Into, ToIn
  <2>3. /\ Cardinality(Into(x, Counted)) \in Nat /\ Refs(S)[x] \in Nat
        /\ Cardinality(Into(x, Counted)') = Cardinality(Into(x, Counted)) - Refs(S)[x]
    BY <2>1, <2>2, IntoFinite, Moved
  <2>4. /\ ref_count'[x] = ref_count[x] - Refs(S)[x]
        /\ ref_count[x] = Cardinality(Into(x, Counted)) + (IF x \in held THEN 1 ELSE 0)
    BY DEF Release, Minus, CountInv
  <2> QED
    BY <2>3, <2>4
<1>3. ASSUME NEW x \in Obj
      PROVE  weakref_count'[x] = Cardinality(WeakOf(x)')
  <2> DEFINE B == {e \in S : e.key = x}
  <2>1. WeakOf(x) \subseteq slots /\ B \subseteq WeakOf(x) /\ WeakOf(x)' = WeakOf(x) \ B
    BY <1>1 DEF WeakOf
  <2>2. IsFiniteSet(WeakOf(x))
    BY <2>1, FS_Subset DEF CountInv
  <2>3. Cardinality(WeakOf(x)') = Cardinality(WeakOf(x)) - Cardinality(B)
    BY <2>1, <2>2, Fewer
  <2>4. weakref_count'[x] = weakref_count[x] - Cardinality(B)
    BY DEF Release, Minus, Weak
  <2> QED
    BY <2>3, <2>4 DEF CountInv
<1> QED
  BY <1>1, <1>2, <1>3 DEF CountInv

\* Steps of a pass, that take the references of one object away or give them back
LEMMA CountPass ==
  ASSUME TypeOK, CountInv, NEW p \in Obj, UNCHANGED <<slots, held, weakref_count>>,
         \/ ref_count' = Minus(ref_count, Refs(Own(p))) /\ p \in Counted
              /\ Counted' = Counted \ {p}
         \/ ref_count' = Plus(ref_count, Refs(Own(p))) /\ p \notin Counted
              /\ Counted' = Counted \cup {p}
  PROVE  CountInv'
<1>1. IsFiniteSet(slots)
  BY DEF CountInv
<1>2. ASSUME NEW x \in Obj
      PROVE  ref_count'[x] = Cardinality(Into(x, Counted)') + (IF x \in held' THEN 1 ELSE 0)
  <2>1. ref_count[x] = Cardinality(Into(x, Counted)) + (IF x \in held THEN 1 ELSE 0)
    BY DEF CountInv
  <2>2. IsFiniteSet(Into(x, Counted)) /\ IsFiniteSet(Into(x, Counted)')
    <3>1. Into(x, Counted)' \subseteq slots
      BY DEF Into
    <3> QED
      BY <1>1, <3>1, IntoFinite, FS_Subset
  <2>3. CASE ref_count' = Minus(ref_count, Refs(Own(p))) /\ p \in Counted
               /\ Counted' = Counted \ {p}
    <3>1. /\ ToIn(Own(p), x) \subseteq Into(x, Counted)
          /\ Into(x, Counted)' = Into(x, Counted) \ ToIn(Own(p), x)
      BY <2>3 DEF Into, ToIn, Own
    <3>2. /\ Cardinality(Into(x, Counted)) \in Nat /\ Refs(Own(p))[x] \in Nat
          /\ Cardinality(Into(x, Counted)') = Cardinality(Into(x, Counted)) - Refs(Own(p))[x]
      BY <2>2, <3>1, Moved
    <3>3. ref_count'[x] = ref_count[x] - Refs(Own(p))[x]
      BY <2>3 DEF Minus
    <3> QED
      BY <2>1, <3>2, <3>3
  <2>4. CASE ref_count' = Plus(ref_count, Refs(Own(p))) /\ p \notin Counted
               /\ Counted' = Counted \cup {p}
    <3>1. /\ ToIn(Own(p), x) \subseteq Into(x, Counted)'
          /\ Into(x, Counted) = Into(x, Counted)' \ ToIn(Own(p), x)
      BY <2>4 DEF Into, ToIn, Own
    <3> DEFINE A == Into(x, Counted)
               D == Into(x, Counted)'
    <3>2. IsFiniteSet(D) /\ ToIn(Own(p), x) \subseteq D /\ A = D \ ToIn(Own(p), x)
      BY <2>2, <3>1
    <3> HIDE DEF A, D
    <3>3. /\ Cardinality(A) \in Nat /\ Refs(Own(p))[x] \in Nat
          /\ Cardinality(D) = Cardinality(A) + Refs(Own(p))[x]
      BY <3>2, Moved
    <3>4. ref_count'[x] = ref_count[x] + Refs(Own(p))[x]
      BY <2>4 DEF Plus
    <3> QED
      BY <2>1, <3>3, <3>4 DEF A, D
  <2> QED
    BY <2>3, <2>4
<1>3. ASSUME NEW x \in Obj
      PROVE  weakref_count'[x] = Cardinality(WeakOf(x)')
  BY DEF CountInv, WeakOf
<1> QED
  BY <1>1, <1>2, <1>3 DEF CountInv

\* Steps that count from the same slots as before
LEMMA CountSame ==
  ASSUME CountInv, UNCHANGED <<slots, held, counts>>,
         \A e \in slots : e.from \in Counted <=> e.from \in Counted'
  PROVE  CountInv'
<1>1. \A x : Into(x, Counted)' = Into(x, Counted) /\ WeakOf(x)' = WeakOf(x)
  BY DEF Into, WeakOf
<1> QED
  BY <1>1 DEF CountInv, counts

\* The program takes or gives back a reference of its own.
LEMMA CountHeld ==
  ASSUME CountInv, UNCHANGED <<slots, weakref_count>>, Counted' = Counted, NEW x \in Obj,
         \/ /\ x \notin held /\ held' = held \cup {x}
            /\ \A y \in Obj : ref_count'[y] = IF y = x THEN ref_count[x] + 1 ELSE ref_count[y]
         \/ /\ x \in held /\ held' = held \ {x}
            /\ \A y \in Obj : ref_count'[y] = IF y = x THEN ref_count[x] - 1 ELSE ref_count[y]
  PROVE  CountInv'
<1>1. /\ \A y : Into(y, Counted)' = Into(y, Counted) /\ WeakOf(y)' = WeakOf(y)
  BY DEF Into, WeakOf
<1>2. \A y \in Obj : Cardinality(Into(y, Counted)) \in Nat
  <2>1. \A y : Into(y, Counted) \subseteq slots
    BY DEF Into
  <2> QED
    BY <2>1, FS_Subset, FS_CardinalityType DEF CountInv
<1>3. \A y \in Obj : ref_count'[y] = Cardinality(Into(y, Counted)) + (IF y \in held' THEN 1 ELSE 0)
  <2> TAKE y \in Obj
  <2>1. ref_count[y] = Cardinality(Into(y, Counted)) + (IF y \in held THEN 1 ELSE 0)
    BY DEF CountInv
  <2> QED
    BY <1>2, <2>1
<1> QED
  BY <1>1, <1>3 DEF CountInv

----------------------------------------------------------------------------
(* Steps outside a pass *)

Quiet == {"idle", "zero", "weak", "weakZero"}

LEMMA QuietCounted ==
  /\ pc \in Quiet \cup {"cycles"} => Counted = Obj
  /\ pc' \in Quiet \cup {"cycles"} => Counted' = Obj
  BY DEF Quiet, Counted

\* Nothing refers to an object whose count is zero after a step.
LEMMA NoneLeft ==
  ASSUME TypeOK', CountInv', pc' \in Quiet \cup {"cycles"}, NEW x \in Obj
  PROVE  /\ ref_count'[x] = 0 <=> x \notin held' /\ \A e \in slots' : e.to # x
         /\ weakref_count'[x] = 0 <=> \A e \in slots' : e.key # x
<1>1. Counted' = Obj /\ \A e \in slots' : e.from \in Obj
  BY QuietCounted DEF TypeOK, Slot
<1> QED
  BY <1>1, MeaningNext DEF Into, WeakOf

\* A structure that goes with its last weak reference is on no list, and
\* nothing leads to it.
LEMMA WeakGoneFree ==
  ASSUME IInv, TypeOK', CountInv', slots' \subseteq slots,
         pc \in Quiet \cup {"cycles"}, pc' \in Quiet \cup {"cycles"},
         NEW k \in WeakGone
  PROVE  /\ k \notin gc_obj_list \cup tmp_obj_list \cup gc_zero_ref_count_list
         /\ \A e \in slots' : e.to # k /\ e.key # k
<1>1. k \in Obj /\ k # None /\ mark[k] = 0 /\ ref_count[k] = 0 /\ weakref_count'[k] = 0
  BY ObjAssumption DEF IInv, TypeOK, WeakGone, LastWeak
<1>2. k \notin tmp_obj_list \cup gc_zero_ref_count_list
  BY <1>1 DEF IInv, MarkInv
<1>3. Counted = Obj /\ \A e \in slots : e.from \in Obj
  BY QuietCounted DEF IInv, TypeOK, Slot
<1>4. k \notin held /\ \A e \in slots : e.to # k
  BY <1>1, <1>3, Meaning DEF IInv, Into
<1>5. k \notin gc_obj_list
  <2>1. CASE pc \in Quiet
    BY <1>1, <2>1 DEF IInv, MarkInv, Quiet
  <2>2. CASE pc = "cycles"
    BY <1>4, <2>2 DEF IInv, KeptInv
  <2> QED
    BY <2>1, <2>2
<1> QED
  BY <1>1, <1>2, <1>4, <1>5, NoneLeft

\* A step that only takes references away, and takes the objects P off the list
\* of dead ones, F with their structures.
LEMMA QuietStep ==
  ASSUME IInv, TypeOK', CountInv', pc \in Quiet, pc' \in Quiet,
         NEW P \in SUBSET gc_zero_ref_count_list, NEW F \in SUBSET P,
         slots' \subseteq slots, held' \subseteq held, tmp_obj_list' = {},
         gc_obj_list' = gc_obj_list \ ReachZero,
         gc_zero_ref_count_list' = (gc_zero_ref_count_list \cup ReachZero) \ P,
         alloc' = alloc \ (WeakGone \cup F),
         \A y \in Obj : mark'[y] = IF y \in ReachZero THEN 1
                                   ELSE IF y \in P THEN 0 ELSE mark[y],
         \A x \in P : weakref_count'[x] = 0 <=> x \in F,
         \A e \in slots' : e.from \notin P,
         pc' = "idle" => gc_zero_ref_count_list' = {},
         pc' = "weak" => visit' \subseteq slots' /\ \A e \in visit' : e.key # None
  PROVE  IInv'
<1>1. /\ tmp_obj_list = {} /\ gc_obj_list \cap gc_zero_ref_count_list = {}
      /\ gc_obj_list \subseteq Obj /\ gc_zero_ref_count_list \subseteq Obj
      /\ None \notin Obj
  BY ObjAssumption DEF IInv, ListInv, TypeOK, Quiet
<1>2. ReachZero \subseteq gc_obj_list /\ \A y \in ReachZero : ref_count'[y] = 0
  BY DEF ReachZero
<1>3. \A y \in ReachZero : y \notin held' /\ \A e \in slots' : e.to # y
  BY <1>1, <1>2, NoneLeft
<1>4. \A k \in WeakGone : /\ k \notin gc_obj_list \cup gc_zero_ref_count_list
                          /\ \A e \in slots' : e.to # k /\ e.key # k
  BY WeakGoneFree
<1>5. \A e \in slots' : /\ e.to # None \/ e.key # None
                        /\ e.to # None => e.to \in gc_obj_list
                        /\ e.from \in gc_obj_list \cup gc_zero_ref_count_list
                        /\ {e.to, e.key} \subseteq alloc \cup {None}
  BY <1>1 DEF IInv, ToInv, NoDangling, Quiet
<1>6. ListInv'
  BY <1>1, <1>2 DEF ListInv, Quiet
<1>7. NoDangling'
  <2>1. held' \subseteq gc_obj_list'
    BY <1>1, <1>3 DEF IInv, NoDangling
  <2>2. gc_obj_list' \cup tmp_obj_list' \cup gc_zero_ref_count_list' \subseteq alloc'
    BY <1>1, <1>2, <1>4 DEF IInv, NoDangling
  <2>3. ASSUME NEW e \in slots'
        PROVE  /\ e.from \in gc_obj_list' \cup gc_zero_ref_count_list'
               /\ {e.to, e.key} \subseteq alloc' \cup {None}
    <3>1. e.from \in gc_obj_list' \cup gc_zero_ref_count_list'
      BY <1>2, <1>5
    <3>2. \A x \in F : e.key # x /\ e.to # x
      BY <1>1, <1>5, NoneLeft
    <3> QED
      BY <1>4, <1>5, <3>1, <3>2
  <2> QED
    BY <2>1, <2>2, <2>3 DEF NoDangling
<1>8. ToInv'
  <2>1. \A e \in slots' : /\ e.to # None \/ e.key # None
                          /\ e.to # None => e.to \in gc_obj_list' \cup tmp_obj_list'
    BY <1>3, <1>5
  <2> QED
    BY <2>1 DEF ToInv
<1>9. MarkInv'
  <2>1. \A x \in Obj : ref_count[x] \in Nat /\ ref_count'[x] \in Nat
                       /\ weakref_count[x] \in Nat /\ weakref_count'[x] \in Nat
    BY DEF IInv, TypeOK
  <2>2. /\ \A x \in gc_obj_list : ref_count[x] > 0 /\ mark[x] = 0
        /\ \A x \in gc_zero_ref_count_list : ref_count[x] = 0 /\ mark[x] = 1
        /\ \A x \in alloc \ (gc_obj_list \cup gc_zero_ref_count_list) :
              ref_count[x] = 0 /\ weakref_count[x] > 0 /\ mark[x] = 0
    BY <1>1 DEF IInv, MarkInv, Quiet
  <2>3. \A x \in Obj : ref_count[x] = 0 => ref_count'[x] = 0
    <3>1. ASSUME NEW x \in Obj, ref_count[x] = 0
          PROVE  ref_count'[x] = 0
      <4>1. Counted = Obj /\ \A e \in slots : e.from \in Obj
        BY QuietCounted DEF IInv, TypeOK, Slot
      <4>2. x \notin held /\ \A e \in slots : e.to # x
        BY <3>1, <4>1, Meaning DEF IInv, Into
      <4> QED
        BY <4>2, NoneLeft
    <3> QED
      BY <3>1
  <2>4. ASSUME NEW x \in alloc' \ (gc_obj_list' \cup tmp_obj_list' \cup gc_zero_ref_count_list')
        PROVE  ref_count'[x] = 0 /\ weakref_count'[x] > 0 /\ mark'[x] = 0
    <3>1. x \in alloc /\ x \in Obj /\ x \notin WeakGone /\ x \notin F /\ x \notin ReachZero
      BY <1>1, <1>2 DEF IInv, TypeOK
    <3>2. CASE x \in P
      BY <2>1, <2>2, <2>3, <3>1, <3>2
    <3>3. CASE x \notin P
      <4>1. x \in alloc \ (gc_obj_list \cup gc_zero_ref_count_list)
        BY <3>1, <3>3
      <4>2. ref_count[x] = 0 /\ weakref_count[x] > 0 /\ mark[x] = 0
        BY <2>2, <4>1
      <4>3. weakref_count'[x] # 0
        BY <3>1, <4>2 DEF WeakGone, LastWeak
      <4> QED
        BY <2>1, <2>3, <3>1, <3>3, <4>2, <4>3
    <3> QED
      BY <3>2, <3>3
  <2>5. \A x \in gc_zero_ref_count_list' : mark'[x] = 1 /\ ref_count'[x] = 0
    BY <1>1, <1>2, <2>2, <2>3
  <2>6. \A x \in gc_obj_list' : mark'[x] = 0 /\ ref_count'[x] > 0
    <3>1. \A x \in gc_obj_list' : x \in Obj /\ x \notin P /\ x \notin ReachZero /\ x \in gc_obj_list
      BY <1>1
    <3> QED
      BY <2>1, <2>2, <3>1 DEF ReachZero
  <2> QED
    BY <2>4, <2>5, <2>6 DEF MarkInv, Quiet
<1>10. KeptInv'
  BY DEF KeptInv, Quiet
<1> QED
  BY <1>6, <1>7, <1>8, <1>9, <1>10 DEF IInv

\* Delete, Drop, FreeObject and VisitWeak are such steps.
LEMMA ReleaseType ==
  ASSUME TypeOK, CountInv, CountInv', NEW S, Release(S)
  PROVE  ref_count' \in [Obj -> Nat] /\ weakref_count' \in [Obj -> Nat]
<1>1. \A x \in Obj : ref_count'[x] \in Nat /\ weakref_count'[x] \in Nat
  BY MeaningNext
<1> QED
  BY <1>1 DEF Release, Minus

LEMMA DeleteKeeps ==
  ASSUME IInv, NEW e \in slots, Delete(e)
  PROVE  IInv'
<1>1. pc \in Quiet /\ pc' \in Quiet /\ Release({e}) /\ FreeValues /\ held' = held
  BY DEF Delete, FreeValues, Quiet
<1>2. CountInv'
  BY <1>1, QuietCounted, CountRelease DEF IInv
<1>3. TypeOK'
  <2>1. ref_count' \in [Obj -> Nat] /\ weakref_count' \in [Obj -> Nat]
    BY <1>1, <1>2, ReleaseType DEF IInv
  <2> QED
    BY <1>1, <2>1 DEF IInv, TypeOK, Delete, Release, FreeValues, ToZeroList, ReachZero
<1>4. gc_zero_ref_count_list = {} /\ tmp_obj_list = {}
  BY DEF IInv, ListInv, Delete
<1>5. /\ slots' \subseteq slots /\ tmp_obj_list' = {} /\ gc_obj_list' = gc_obj_list \ ReachZero
      /\ gc_zero_ref_count_list' = (gc_zero_ref_count_list \cup ReachZero) \ {}
      /\ alloc' = alloc \ (WeakGone \cup {})
      /\ \A y \in Obj : mark'[y] = IF y \in ReachZero THEN 1
                                   ELSE IF y \in {} THEN 0 ELSE mark[y]
      /\ pc' = "idle" => gc_zero_ref_count_list' = {}
      /\ pc' # "weak"
  BY <1>1, <1>4 DEF Delete, Release, FreeValues, ToZeroList
<1> QED
  BY <1>1, <1>2, <1>3, <1>5, QuietStep

LEMMA DropKeeps ==
  ASSUME IInv, NEW x \in Obj, Drop(x)
  PROVE  IInv'
<1>1. /\ pc \in Quiet /\ pc' \in Quiet /\ FreeValues
      /\ x \in held /\ held' = held \ {x} /\ UNCHANGED <<slots, weakref_count, alloc>>
  BY DEF Drop, FreeValues, Quiet
<1>2. \A y \in Obj : ref_count'[y] = IF y = x THEN ref_count[x] - 1 ELSE ref_count[y]
  <2>1. \A y \in Obj : ref_count[y] \in Nat /\ ref_count'[y] = ref_count[y] - (IF y = x THEN 1 ELSE 0)
    BY DEF IInv, TypeOK, Drop, Minus, One
  <2> QED
    BY <2>1
<1>3. CountInv'
  BY <1>1, <1>2, QuietCounted, CountHeld DEF IInv
<1>4. TypeOK'
  <2>1. \A y \in Obj : ref_count'[y] \in Nat
    BY <1>3, MeaningNext
  <2>2. ref_count' \in [Obj -> Nat]
    BY <2>1 DEF Drop, Minus
  <2> QED
    BY <1>1, <2>2 DEF IInv, TypeOK, FreeValues, ToZeroList, ReachZero
<1>5. gc_zero_ref_count_list = {} /\ tmp_obj_list = {}
  BY DEF IInv, ListInv, Drop
<1>6. WeakGone = {}
  BY <1>1 DEF WeakGone, LastWeak
<1>7. /\ tmp_obj_list' = {} /\ gc_obj_list' = gc_obj_list \ ReachZero
      /\ gc_zero_ref_count_list' = (gc_zero_ref_count_list \cup ReachZero) \ {}
      /\ alloc' = alloc \ (WeakGone \cup {})
      /\ \A y \in Obj : mark'[y] = IF y \in ReachZero THEN 1
                                   ELSE IF y \in {} THEN 0 ELSE mark[y]
      /\ pc' = "idle" => gc_zero_ref_count_list' = {}
      /\ pc' # "weak"
  BY <1>1, <1>5, <1>6 DEF FreeValues, ToZeroList
<1> QED
  BY <1>1, <1>3, <1>4, <1>7, QuietStep

LEMMA FreeObjectKeeps ==
  ASSUME IInv, NEW p \in Obj, FreeObject(p)
  PROVE  IInv'
<1>1. /\ pc \in Quiet /\ pc' = pc /\ pc # "idle" /\ pc # "weak" /\ Release(Own(p))
      /\ held' = held /\ Own(p) \subseteq slots /\ p \in gc_zero_ref_count_list
  BY DEF FreeObject, Quiet, Own
<1>2. CountInv'
  BY <1>1, QuietCounted, CountRelease DEF IInv
<1>3. TypeOK'
  <2>1. ref_count' \in [Obj -> Nat] /\ weakref_count' \in [Obj -> Nat]
    BY <1>1, <1>2, ReleaseType DEF IInv
  <2> QED
    BY <1>1, <2>1 DEF IInv, TypeOK, FreeObject, Release, ReachZero, ZombieMark
<1> DEFINE F == IF weakref_count'[p] = 0 THEN {p} ELSE {}
<1>4. tmp_obj_list = {} /\ p \notin ReachZero
  BY <1>1 DEF IInv, ListInv, Quiet, ReachZero
<1>5. /\ slots' \subseteq slots /\ tmp_obj_list' = {} /\ gc_obj_list' = gc_obj_list \ ReachZero
      /\ gc_zero_ref_count_list' = (gc_zero_ref_count_list \cup ReachZero) \ {p}
      /\ alloc' = alloc \ (WeakGone \cup F)
      /\ \A y \in Obj : mark'[y] = IF y \in ReachZero THEN 1
                                   ELSE IF y \in {p} THEN 0 ELSE mark[y]
      /\ \A e \in slots' : e.from \notin {p}
  BY <1>1, <1>4 DEF FreeObject, Release, Own, ZombieMark
<1>6. F \subseteq {p} /\ \A x \in {p} : weakref_count'[x] = 0 <=> x \in F
  OBVIOUS
<1> HIDE DEF F
<1> QED
  BY <1>1, <1>2, <1>3, <1>5, <1>6, QuietStep

LEMMA VisitWeakKeeps ==
  ASSUME IInv, NEW e \in visit, VisitWeak(e)
  PROVE  IInv'
<1>1. /\ pc \in Quiet /\ pc' = pc /\ pc = "weak" /\ held' = held /\ e \in slots
      /\ visit' = visit \ {e} /\ tmp_obj_list' = tmp_obj_list /\ todo' = todo
  BY DEF IInv, ListInv, VisitWeak, Quiet
<1>2. CASE IsLive(e.key)
  <2>1. UNCHANGED <<slots, held, counts, alloc, mark, lists, pc, todo>>
    BY <1>1, <1>2 DEF VisitWeak, lists
  <2>2. CountInv'
    BY <2>1, CountSame DEF IInv, Counted
  <2> QED
    BY <1>1, <2>1, <2>2 DEF IInv, TypeOK, ListInv, NoDangling, ToInv, MarkInv, KeptInv,
                            ClosedUnderRefs, counts, lists
<1>3. CASE ~IsLive(e.key)
  <2>1. /\ Release({e}) /\ ToZeroList /\ alloc' = alloc \ WeakGone
        /\ gc_zero_ref_count_list' = gc_zero_ref_count_list \cup ReachZero
    BY <1>3 DEF VisitWeak
  <2>2. CountInv'
    BY <1>1, <2>1, QuietCounted, CountRelease DEF IInv
  <2>3. TypeOK'
    <3>1. ref_count' \in [Obj -> Nat] /\ weakref_count' \in [Obj -> Nat]
      BY <2>1, <2>2, ReleaseType DEF IInv
    <3> QED
      BY <1>1, <2>1, <3>1 DEF IInv, TypeOK, Release, ToZeroList, ReachZero
  <2>4. /\ slots' \subseteq slots /\ tmp_obj_list' = {} /\ gc_obj_list' = gc_obj_list \ ReachZero
        /\ gc_zero_ref_count_list' = (gc_zero_ref_count_list \cup ReachZero) \ {}
        /\ alloc' = alloc \ (WeakGone \cup {})
        /\ \A y \in Obj : mark'[y] = IF y \in ReachZero THEN 1
                                     ELSE IF y \in {} THEN 0 ELSE mark[y]
    BY <1>1, <2>1 DEF IInv, ListInv, Release, ToZeroList
  <2>5. visit' \subseteq slots' /\ \A d \in visit' : d.key # None
    BY <1>1, <2>1 DEF IInv, ListInv, Release
  <2> QED
    BY <1>1, <2>2, <2>3, <2>4, <2>5, QuietStep
<1> QED
  BY <1>2, <1>3

\* What holds of the heap between the operations of the program
LEMMA Idle ==
  ASSUME IInv, pc = "idle"
  PROVE  /\ tmp_obj_list = {} /\ gc_zero_ref_count_list = {}
         /\ held \subseteq gc_obj_list /\ gc_obj_list \subseteq alloc /\ alloc \subseteq Obj
         /\ \A e \in slots : /\ e.from \in gc_obj_list
                             /\ e.to \in gc_obj_list \cup {None}
                             /\ e.key \in alloc \cup {None}
                             /\ e.to # None \/ e.key # None
         /\ \A x \in gc_obj_list : ref_count[x] > 0 /\ mark[x] = 0
         /\ \A x \in alloc \ gc_obj_list :
               ref_count[x] = 0 /\ weakref_count[x] > 0 /\ mark[x] = 0
         /\ Counted = Obj
<1>1. tmp_obj_list = {} /\ gc_zero_ref_count_list = {}
  BY DEF IInv, ListInv
<1>2. /\ held \subseteq gc_obj_list /\ gc_obj_list \subseteq alloc /\ alloc \subseteq Obj
  BY <1>1 DEF IInv, NoDangling, TypeOK
<1>3. \A e \in slots : /\ e.from \in gc_obj_list
                       /\ e.to \in gc_obj_list \cup {None}
                       /\ e.key \in alloc \cup {None}
                       /\ e.to # None \/ e.key # None
  BY <1>1 DEF IInv, NoDangling, ToInv
<1>4. /\ \A x \in gc_obj_list : ref_count[x] > 0 /\ mark[x] = 0
      /\ \A x \in alloc \ gc_obj_list :
            ref_count[x] = 0 /\ weakref_count[x] > 0 /\ mark[x] = 0
  BY <1>1 DEF IInv, MarkInv
<1> QED
  BY <1>1, <1>2, <1>3, <1>4, QuietCounted DEF Quiet

\* A step of the program that frees nothing
LEMMA IdleStep ==
  ASSUME TypeOK', CountInv', pc' = "idle", None \notin Obj,
         tmp_obj_list' = {}, gc_zero_ref_count_list' = {},
         held' \subseteq gc_obj_list', gc_obj_list' \subseteq alloc',
         \A e \in slots' : /\ e.from \in gc_obj_list'
                           /\ e.to \in gc_obj_list' \cup {None}
                           /\ e.key \in alloc' \cup {None}
                           /\ e.to # None \/ e.key # None,
         \A x \in gc_obj_list' : ref_count'[x] > 0 /\ mark'[x] = 0,
         \A x \in alloc' \ gc_obj_list' :
            ref_count'[x] = 0 /\ weakref_count'[x] > 0 /\ mark'[x] = 0
  PROVE  IInv'
<1>1. ListInv'
  BY DEF ListInv
<1>2. NoDangling'
  BY DEF NoDangling
<1>3. ToInv'
  BY DEF ToInv
<1>4. MarkInv'
  BY DEF MarkInv
<1>5. KeptInv'
  BY DEF KeptInv
<1> QED
  BY <1>1, <1>2, <1>3, <1>4, <1>5 DEF IInv

LEMMA NewKeeps ==
  ASSUME IInv, NEW x \in Obj, New(x)
  PROVE  IInv'
<1> USE ObjAssumption
<1>1. pc = "idle" /\ pc' = "idle" /\ x \notin alloc /\ slots' = slots
  BY DEF New
<1>2. /\ tmp_obj_list = {} /\ gc_zero_ref_count_list = {}
      /\ held \subseteq gc_obj_list /\ gc_obj_list \subseteq alloc /\ alloc \subseteq Obj
      /\ \A e \in slots : /\ e.from \in gc_obj_list
                          /\ e.to \in gc_obj_list \cup {None}
                          /\ e.key \in alloc \cup {None}
                          /\ e.to # None \/ e.key # None
      /\ \A y \in gc_obj_list : ref_count[y] > 0 /\ mark[y] = 0
      /\ \A y \in alloc \ gc_obj_list :
            ref_count[y] = 0 /\ weakref_count[y] > 0 /\ mark[y] = 0
  BY <1>1, Idle
<1>3. TypeOK'
  BY DEF IInv, TypeOK, New
<1>4. /\ \A y \in Obj : ref_count'[y] = IF y = x THEN 1 ELSE ref_count[y]
      /\ \A y \in Obj : weakref_count'[y] = IF y = x THEN 0 ELSE weakref_count[y]
      /\ \A y \in Obj : mark'[y] = IF y = x THEN 0 ELSE mark[y]
  BY DEF IInv, TypeOK, New
<1>5. CountInv'
  <2>1. \A y : Into(y, Counted)' = Into(y, Counted) /\ WeakOf(y)' = WeakOf(y)
    BY <1>1 DEF Into, WeakOf, Counted
  <2>2. Into(x, Counted) = {} /\ WeakOf(x) = {}
    BY <1>1, <1>2 DEF Into, WeakOf
  <2>3. Cardinality({}) = 0
    BY FS_EmptySet
  <2>4. x \in held' /\ \A y \in Obj : y # x => (y \in held' <=> y \in held)
    BY DEF New
  <2>5. \A y \in Obj : ref_count'[y] = Cardinality(Into(y, Counted)') + (IF y \in held' THEN 1 ELSE 0)
    <3> TAKE y \in Obj
    <3>1. CASE y = x
      <4>1. Into(x, Counted)' = {}
        BY <2>1, <2>2
      <4> QED
        BY <1>4, <2>3, <2>4, <3>1, <4>1
    <3>2. CASE y # x
      BY <1>4, <2>1, <2>4, <3>2 DEF IInv, CountInv
    <3> QED
      BY <3>1, <3>2
  <2>6. \A y \in Obj : weakref_count'[y] = Cardinality(WeakOf(y)')
    <3> TAKE y \in Obj
    <3>1. CASE y = x
      BY <1>4, <2>1, <2>2, <2>3, <3>1
    <3>2. CASE y # x
      BY <1>4, <2>1, <3>2 DEF IInv, CountInv
    <3> QED
      BY <3>1, <3>2
  <2> QED
    BY <1>1, <2>5, <2>6 DEF IInv, CountInv
<1>6. /\ tmp_obj_list' = {} /\ gc_zero_ref_count_list' = {}
      /\ gc_obj_list' = gc_obj_list \cup {x} /\ alloc' = alloc \cup {x}
      /\ held' \subseteq gc_obj_list'
  BY <1>2 DEF New
<1>7. \A e \in slots' : /\ e.from \in gc_obj_list'
                        /\ e.to \in gc_obj_list' \cup {None}
                        /\ e.key \in alloc' \cup {None}
                        /\ e.to # None \/ e.key # None
  BY <1>1, <1>2, <1>6
<1>8. \A y \in gc_obj_list' : ref_count'[y] > 0 /\ mark'[y] = 0
  BY <1>2, <1>4, <1>6
<1>9. \A y \in alloc' \ gc_obj_list' :
         ref_count'[y] = 0 /\ weakref_count'[y] > 0 /\ mark'[y] = 0
  BY <1>2, <1>4, <1>6
<1> QED
  BY <1>1, <1>2, <1>3, <1>5, <1>6, <1>7, <1>8, <1>9, IdleStep

LEMMA TakeKeeps ==
  ASSUME IInv, pc = "idle", NEW x \in gc_obj_list, x \notin held, Take(x)
  PROVE  IInv'
<1> USE ObjAssumption
<1>1. /\ tmp_obj_list = {} /\ gc_zero_ref_count_list = {}
      /\ held \subseteq gc_obj_list /\ gc_obj_list \subseteq alloc /\ alloc \subseteq Obj
      /\ \A e \in slots : /\ e.from \in gc_obj_list
                          /\ e.to \in gc_obj_list \cup {None}
                          /\ e.key \in alloc \cup {None}
                          /\ e.to # None \/ e.key # None
      /\ \A y \in gc_obj_list : ref_count[y] > 0 /\ mark[y] = 0
      /\ \A y \in alloc \ gc_obj_list :
            ref_count[y] = 0 /\ weakref_count[y] > 0 /\ mark[y] = 0
  BY Idle
<1>2. /\ UNCHANGED <<slots, alloc, weakref_count, mark, pc>> /\ held' = held \cup {x}
      /\ gc_obj_list' = gc_obj_list /\ tmp_obj_list' = {} /\ gc_zero_ref_count_list' = {}
  BY <1>1 DEF Take, lists
<1>3. /\ x \in Obj /\ \A y \in Obj : ref_count[y] \in Nat
      /\ \A y \in Obj : ref_count'[y] = IF y = x THEN ref_count[x] + 1 ELSE ref_count[y]
  BY <1>1 DEF IInv, TypeOK, Take
<1>4. TypeOK'
  BY <1>3 DEF IInv, TypeOK, Take, lists
<1>5. CountInv'
  BY <1>2, <1>3, CountHeld DEF IInv, Counted
<1>6. \A y \in gc_obj_list' : ref_count'[y] > 0 /\ mark'[y] = 0
  BY <1>1, <1>2, <1>3
<1>7. \A y \in alloc' \ gc_obj_list' :
         ref_count'[y] = 0 /\ weakref_count'[y] > 0 /\ mark'[y] = 0
  BY <1>1, <1>2, <1>3
<1> QED
  BY <1>1, <1>2, <1>4, <1>5, <1>6, <1>7, IdleStep

LEMMA LoadKeeps ==
  ASSUME IInv, NEW e \in slots, Load(e) \/ Deref(e)
  PROVE  IInv'
<1> USE ObjAssumption
<1>1. pc = "idle"
  BY DEF Load, Deref
<1>2. CASE Load(e)
  <2>1. e.to \in gc_obj_list /\ e.to \notin held /\ Take(e.to)
    BY <1>1, <1>2, Idle DEF Load
  <2> QED
    BY <1>1, <2>1, TakeKeeps
<1>3. CASE Deref(e)
  <2>1. e.key \in gc_obj_list /\ e.key \notin held /\ Take(e.key)
    BY <1>1, <1>3, Idle DEF Deref
  <2> QED
    BY <1>1, <2>1, TakeKeeps
<1> QED
  BY <1>2, <1>3

LEMMA StoreKeeps ==
  ASSUME IInv, NEW e \in Slot, Store(e)
  PROVE  IInv'
<1> USE ObjAssumption
<1>1. pc = "idle" /\ pc' = "idle" /\ slots' = slots \cup {e} /\ e \notin slots
  BY DEF Store
<1>2. /\ tmp_obj_list = {} /\ gc_zero_ref_count_list = {}
      /\ held \subseteq gc_obj_list /\ gc_obj_list \subseteq alloc /\ alloc \subseteq Obj
      /\ \A d \in slots : /\ d.from \in gc_obj_list
                          /\ d.to \in gc_obj_list \cup {None}
                          /\ d.key \in alloc \cup {None}
                          /\ d.to # None \/ d.key # None
      /\ \A y \in gc_obj_list : ref_count[y] > 0 /\ mark[y] = 0
      /\ \A y \in alloc \ gc_obj_list :
            ref_count[y] = 0 /\ weakref_count[y] > 0 /\ mark[y] = 0
  BY <1>1, Idle
<1>3. /\ e.from \in gc_obj_list /\ e.to \in gc_obj_list \cup {None}
      /\ e.key \in alloc \cup {None}
      /\ e.to # None \/ e.key # None
  BY <1>2 DEF Store
<1>4. /\ UNCHANGED <<held, alloc, mark>>
      /\ gc_obj_list' = gc_obj_list /\ tmp_obj_list' = {} /\ gc_zero_ref_count_list' = {}
  BY <1>2 DEF Store, lists
<1> DEFINE R == Refs({e})
           W == Weak({e})
<1>5. /\ \A x \in Obj : ref_count'[x] = ref_count[x] + R[x]
      /\ \A x \in Obj : weakref_count'[x] = weakref_count[x] + W[x]
  BY DEF Store, Plus
<1>6. IsFiniteSet(slots) /\ IsFiniteSet(slots')
  BY <1>1, FS_AddElement DEF IInv, CountInv
<1>7. ASSUME NEW x \in Obj
      PROVE  /\ R[x] \in Nat
             /\ Cardinality(Into(x, Counted)') = Cardinality(Into(x, Counted)) + R[x]
             /\ Cardinality(Into(x, Counted)) \in Nat
  <2> DEFINE A == Into(x, Counted)
             D == Into(x, Counted)'
  <2>1. Counted = Obj /\ Counted' = Obj
    BY <1>1, QuietCounted DEF Quiet
  <2>2. /\ D = {d \in slots' : d.to = x /\ d.from \in Obj}
        /\ A = {d \in slots : d.to = x /\ d.from \in Obj}
    BY <2>1 DEF Into
  <2>3. ToIn({e}, x) \subseteq D /\ A = D \ ToIn({e}, x) /\ D \subseteq slots'
    BY <1>1, <2>2 DEF ToIn, Slot
  <2> HIDE DEF A, D
  <2>4. IsFiniteSet(D)
    BY <1>6, <2>3, FS_Subset
  <2>5. /\ Cardinality(D) = Cardinality(A) + R[x]
        /\ R[x] \in Nat /\ Cardinality(A) \in Nat
    BY <2>3, <2>4, Moved
  <2> QED
    BY <2>5 DEF A, D
<1>8. ASSUME NEW x \in Obj
      PROVE  /\ W[x] \in Nat
             /\ Cardinality(WeakOf(x)') = Cardinality(WeakOf(x)) + W[x]
  <2> DEFINE A == WeakOf(x)
             D == WeakOf(x)'
             B == {d \in {e} : d.key = x}
  <2>1. B \subseteq D /\ A = D \ B /\ D \subseteq slots'
    BY <1>1 DEF WeakOf
  <2>2. W[x] = Cardinality(B)
    BY DEF Weak
  <2> HIDE DEF A, B, D
  <2>3. IsFiniteSet(D)
    BY <1>6, <2>1, FS_Subset
  <2>4. /\ Cardinality(A) = Cardinality(D) - Cardinality(B)
        /\ Cardinality(D) \in Nat /\ Cardinality(B) \in Nat
    BY <2>1, <2>3, Fewer
  <2>5. Cardinality(D) = Cardinality(A) + Cardinality(B)
    BY <2>4
  <2> QED
    BY <2>2, <2>4, <2>5 DEF A, D
<1> HIDE DEF R, W
<1>9. CountInv'
  <2>1. ASSUME NEW x \in Obj
        PROVE  /\ ref_count'[x] = Cardinality(Into(x, Counted)') + (IF x \in held' THEN 1 ELSE 0)
               /\ weakref_count'[x] = Cardinality(WeakOf(x)')
    <3>1. /\ ref_count[x] = Cardinality(Into(x, Counted)) + (IF x \in held THEN 1 ELSE 0)
          /\ weakref_count[x] = Cardinality(WeakOf(x))
      BY DEF IInv, CountInv
    <3>2. weakref_count'[x] = Cardinality(WeakOf(x)')
      BY <1>5, <1>8, <3>1
    <3>3. ref_count'[x] = Cardinality(Into(x, Counted)') + (IF x \in held' THEN 1 ELSE 0)
      BY <1>4, <1>5, <1>7, <3>1
    <3> QED
      BY <3>2, <3>3
  <2> QED
    BY <1>6, <2>1 DEF CountInv
<1>10. /\ \A x \in Obj : ref_count[x] \in Nat /\ ref_count'[x] \in Nat /\ ref_count'[x] >= ref_count[x]
       /\ \A x \in Obj : weakref_count[x] \in Nat /\ weakref_count'[x] \in Nat
                           /\ weakref_count'[x] >= weakref_count[x]
  <2>1. \A x \in Obj : ref_count[x] \in Nat /\ weakref_count[x] \in Nat
    BY DEF IInv, TypeOK
  <2> QED
    BY <1>5, <1>7, <1>8, <2>1
<1>11. TypeOK'
  <2>1. ref_count' \in [Obj -> Nat] /\ weakref_count' \in [Obj -> Nat]
    BY <1>10 DEF Store, Plus
  <2> QED
    BY <1>1, <2>1 DEF IInv, TypeOK, Store, lists
<1>12. \A d \in slots' : /\ d.from \in gc_obj_list'
                         /\ d.to \in gc_obj_list' \cup {None}
                         /\ d.key \in alloc' \cup {None}
                         /\ d.to # None \/ d.key # None
  <2> TAKE d \in slots'
  <2>1. CASE d = e
    BY <1>3, <1>4, <2>1
  <2>2. CASE d \in slots
    BY <1>2, <1>4, <2>2
  <2> QED
    BY <1>1, <2>1, <2>2
<1>13. \A y \in gc_obj_list' : ref_count'[y] > 0 /\ mark'[y] = 0
  BY <1>2, <1>4, <1>10
<1>14. \A y \in alloc' \ gc_obj_list' :
          ref_count'[y] = 0 /\ weakref_count'[y] > 0 /\ mark'[y] = 0
  <2> TAKE y \in alloc' \ gc_obj_list'
  <2>1. y \in Obj /\ y # None /\ y \notin gc_obj_list /\ y \in alloc
    BY <1>2, <1>4
  <2>2. y \notin held' /\ \A d \in slots' : d.to # y
    BY <1>2, <1>4, <1>12, <2>1
  <2>3. ref_count'[y] = 0
    BY <1>1, <1>9, <1>11, <2>1, <2>2, NoneLeft DEF Quiet
  <2> QED
    BY <1>2, <1>4, <1>10, <2>1, <2>3
<1> QED
  BY <1>1, <1>2, <1>4, <1>9, <1>11, <1>12, <1>13, <1>14, IdleStep

----------------------------------------------------------------------------
(* The passes of a collection *)

\* Between passes nothing but pc, todo and visit changes.
LEMMA BetweenPasses ==
  ASSUME IInv, TypeOK', UNCHANGED <<slots, held, alloc, counts, mark, lists>>,
         \A e \in slots : e.from \in Counted <=> e.from \in Counted',
         ListInv', ToInv', MarkInv', KeptInv'
  PROVE  IInv'
<1>1. CountInv'
  BY CountSame DEF IInv
<1>2. NoDangling'
  BY DEF IInv, NoDangling, lists
<1> QED
  BY <1>1, <1>2 DEF IInv

LEMMA StartKeeps ==
  ASSUME IInv,
         (\E b \in BOOLEAN : RunGC(b)) \/ WeakEnd \/ ZeroEnd
  PROVE  IInv'
<1> USE ObjAssumption
<1>1. /\ pc \in Quiet /\ UNCHANGED <<slots, held, alloc, counts, mark, lists>>
      /\ UNCHANGED <<ref_count, weakref_count>>
      /\ UNCHANGED <<gc_obj_list, tmp_obj_list, gc_zero_ref_count_list>>
  BY DEF RunGC, WeakEnd, ZeroEnd, Quiet, counts, lists
<1>2. tmp_obj_list = {}
  BY <1>1 DEF IInv, ListInv, Quiet
<1>3. /\ \A x \in gc_obj_list : ref_count[x] > 0 /\ mark[x] = 0
      /\ \A x \in gc_zero_ref_count_list : ref_count[x] = 0
  BY <1>1 DEF IInv, MarkInv, Quiet
<1>4. CASE /\ pc' \in Quiet
           /\ pc' = "idle" => gc_zero_ref_count_list = {}
           /\ pc' = "weak" => visit' \subseteq slots /\ \A e \in visit' : e.key # None
           /\ visit' \subseteq slots \cup visit /\ todo' = todo
  <2>1. \A e \in slots : e.from \in Counted <=> e.from \in Counted'
    BY <1>1, <1>4, QuietCounted
  <2>2. TypeOK'
    BY <1>1, <1>4 DEF IInv, TypeOK, Quiet, counts, lists
  <2>3. ListInv' /\ ToInv' /\ KeptInv'
    BY <1>1, <1>2, <1>4 DEF IInv, ListInv, ToInv, KeptInv, Quiet, lists
  <2>4. MarkInv'
    BY <1>1, <1>3, <1>4 DEF IInv, MarkInv, Quiet, counts, lists
  <2> QED
    BY <1>1, <2>1, <2>2, <2>3, <2>4, BetweenPasses
<1>5. CASE /\ pc' = "decref" /\ todo' = gc_obj_list /\ visit' = visit
           /\ gc_zero_ref_count_list = {}
  <2>1. \A e \in slots : e.from \in Counted <=> e.from \in Counted'
    <3>1. Counted = Obj /\ Counted' = gc_obj_list
      BY <1>1, <1>5, QuietCounted DEF Counted
    <3>2. \A e \in slots : e.from \in gc_obj_list /\ e.from \in Obj
      BY <1>2, <1>5 DEF IInv, NoDangling, TypeOK
    <3> QED
      BY <3>1, <3>2
  <2>2. TypeOK'
    BY <1>1, <1>5 DEF IInv, TypeOK, counts, lists
  <2>3. ListInv' /\ ToInv' /\ KeptInv'
    BY <1>1, <1>2, <1>5 DEF IInv, ListInv, ToInv, KeptInv, Quiet, lists
  <2>4. MarkInv'
    BY <1>1, <1>2, <1>3, <1>5 DEF IInv, MarkInv, counts, lists
  <2> QED
    BY <1>1, <2>1, <2>2, <2>3, <2>4, BetweenPasses
<1>6. CASE \E b \in BOOLEAN : RunGC(b)
  <2> PICK b \in BOOLEAN : RunGC(b)
    BY <1>6
  <2>1. gc_zero_ref_count_list = {}
    BY DEF IInv, ListInv, RunGC
  <2>2. CASE b
    <3>1. /\ pc' = "weak" /\ visit' = {e \in slots : e.key # None} /\ todo' = todo
      BY <2>2 DEF RunGC
    <3> QED
      BY <1>4, <2>1, <3>1 DEF Quiet
  <2>3. CASE ~b
    BY <1>5, <2>1, <2>3 DEF RunGC
  <2> QED
    BY <2>2, <2>3
<1>7. CASE WeakEnd
  BY <1>4, <1>7 DEF WeakEnd, Quiet
<1>8. CASE ZeroEnd
  <2>1. gc_zero_ref_count_list = {} /\ visit' = visit
    BY <1>8 DEF ZeroEnd
  <2>2. CASE pc = "zero"
    BY <1>4, <1>8, <2>1, <2>2 DEF ZeroEnd, Quiet
  <2>3. CASE pc # "zero"
    BY <1>5, <1>8, <2>1, <2>3 DEF ZeroEnd
  <2> QED
    BY <2>2, <2>3
<1> QED
  BY <1>6, <1>7, <1>8

LEMMA EndPassKeeps ==
  ASSUME IInv,
         \/ EndPass("decref", "scan", gc_obj_list)
         \/ EndPass("scan", "restore", tmp_obj_list)
         \/ EndPass("restore", "cycles", {})
  PROVE  IInv'
<1> USE ObjAssumption
<1>1. /\ todo = {} /\ UNCHANGED <<slots, held, alloc, counts, mark, lists, visit>>
      /\ UNCHANGED <<ref_count, weakref_count>>
      /\ UNCHANGED <<gc_obj_list, tmp_obj_list, gc_zero_ref_count_list>>
  BY DEF EndPass, counts, lists
<1>2. /\ pc \in {"decref", "scan", "restore"} /\ gc_zero_ref_count_list = {}
      /\ gc_obj_list \subseteq Obj /\ tmp_obj_list \subseteq Obj
      /\ gc_obj_list \cap tmp_obj_list = {}
      /\ held \subseteq gc_obj_list \cup tmp_obj_list
      /\ \A e \in slots : e.from \in gc_obj_list \cup tmp_obj_list
      /\ \A x \in Obj : ref_count[x] \in Nat
  BY DEF EndPass, IInv, ListInv, NoDangling, TypeOK
<1>3. CASE EndPass("decref", "scan", gc_obj_list)
  <2>1. pc = "decref" /\ pc' = "scan" /\ todo' = gc_obj_list
    BY <1>3 DEF EndPass
  <2>2. Counted = {} /\ Counted' = {}
    BY <1>1, <2>1 DEF Counted
  <2>3. TypeOK' /\ ListInv' /\ ToInv'
    BY <1>1, <2>1 DEF IInv, TypeOK, ListInv, ToInv, counts, lists
  <2>4. MarkInv'
    BY <1>1, <2>1 DEF IInv, MarkInv
  <2>5. \A x \in gc_obj_list : x \in held
    <3> TAKE x \in gc_obj_list
    <3>1. x \in Obj /\ ref_count[x] # 0
      BY <1>1, <1>2, <2>1 DEF IInv, MarkInv
    <3> QED
      BY <2>2, <3>1, Meaning DEF IInv, Into
  <2>6. KeptInv'
    BY <1>1, <2>1, <2>5 DEF KeptInv
  <2> QED
    BY <1>1, <2>2, <2>3, <2>4, <2>6, BetweenPasses
<1>4. CASE EndPass("scan", "restore", tmp_obj_list)
  <2>1. pc = "scan" /\ pc' = "restore" /\ todo' = tmp_obj_list
    BY <1>4 DEF EndPass
  <2>2. Counted = gc_obj_list /\ Counted' = gc_obj_list
    BY <1>1, <2>1 DEF Counted
  <2>3. TypeOK' /\ ListInv' /\ ToInv'
    BY <1>1, <2>1 DEF IInv, TypeOK, ListInv, ToInv, counts, lists
  <2>4. MarkInv'
    BY <1>1, <2>1 DEF IInv, MarkInv
  <2>5. held \subseteq gc_obj_list
    <3>1. ASSUME NEW x \in held PROVE x \notin tmp_obj_list
      <4>1. x \in Obj /\ ref_count[x] # 0
        BY <3>1, Meaning DEF IInv, TypeOK
      <4> QED
        BY <2>1, <4>1 DEF IInv, MarkInv
    <3> QED
      BY <1>2, <3>1
  <2>6. \A x \in gc_obj_list : x \in held \/ \E e \in slots : e.to = x /\ e.from \in gc_obj_list
    <3> TAKE x \in gc_obj_list
    <3>1. x \in Obj /\ ref_count[x] # 0
      BY <1>2, <2>1 DEF IInv, MarkInv
    <3> QED
      BY <2>2, <3>1, Meaning DEF IInv, Into
  <2>7. /\ \A e \in slots : e.from \in gc_obj_list => e.to \in gc_obj_list \cup {None}
        /\ \A S \in SUBSET Obj : held \subseteq S /\ ClosedUnderRefs(S) => gc_obj_list \subseteq S
    BY <1>1, <2>1 DEF IInv, KeptInv
  <2>8. KeptInv'
    BY <1>1, <2>1, <2>5, <2>6, <2>7 DEF KeptInv, ClosedUnderRefs
  <2> QED
    BY <1>1, <2>2, <2>3, <2>4, <2>8, BetweenPasses
<1>5. CASE EndPass("restore", "cycles", {})
  <2>1. pc = "restore" /\ pc' = "cycles" /\ todo' = {}
    BY <1>5 DEF EndPass
  <2>2. \A e \in slots : e.from \in Counted <=> e.from \in Counted'
    <3>1. Counted = gc_obj_list \cup tmp_obj_list /\ Counted' = Obj
      BY <1>1, <2>1 DEF Counted
    <3> QED
      BY <1>2, <3>1
  <2>3. TypeOK' /\ ListInv' /\ ToInv'
    BY <1>1, <2>1 DEF IInv, TypeOK, ListInv, ToInv, counts, lists
  <2>4. MarkInv'
    BY <1>1, <2>1 DEF IInv, MarkInv
  <2>5. KeptInv'
    BY <1>1, <1>2, <2>1 DEF IInv, KeptInv, ClosedUnderRefs
  <2> QED
    BY <1>1, <2>2, <2>3, <2>4, <2>5, BetweenPasses
<1> QED
  BY <1>3, <1>4, <1>5

LEMMA GcDecrefKeeps ==
  ASSUME IInv, NEW p \in Obj, GcDecref(p)
  PROVE  IInv'
<1> USE ObjAssumption
<1> DEFINE none == {y \in gc_obj_list : ref_count'[y] = 0 /\ mark'[y] = 1}
<1>1. /\ pc = "decref" /\ pc' = "decref" /\ p \in todo /\ todo' = todo \ {p}
      /\ UNCHANGED <<slots, held, alloc, weakref_count, gc_zero_ref_count_list, visit>>
      /\ ref_count' = Minus(ref_count, Refs(Own(p)))
      /\ gc_obj_list' = gc_obj_list \ none /\ tmp_obj_list' = tmp_obj_list \cup none
      /\ \A y \in Obj : mark'[y] = IF y = p THEN 1 ELSE mark[y]
  BY DEF GcDecref, IInv, TypeOK
<1>2. /\ todo \subseteq gc_obj_list /\ gc_zero_ref_count_list = {}
      /\ gc_obj_list \subseteq Obj /\ tmp_obj_list \subseteq Obj /\ alloc \subseteq Obj
      /\ gc_obj_list \cap tmp_obj_list = {}
  BY <1>1 DEF IInv, ListInv, TypeOK
<1>3. CountInv'
  <2>1. p \in Counted /\ Counted' = Counted \ {p}
    BY <1>1 DEF Counted
  <2> QED
    BY <1>1, <2>1, CountPass DEF IInv
<1>4. \A x \in Obj : ref_count'[x] \in Nat
  BY <1>3, MeaningNext
<1>5. TypeOK'
  <2>1. ref_count' \in [Obj -> Nat]
    BY <1>1, <1>4 DEF Minus
  <2> QED
    BY <2>1 DEF GcDecref, IInv, TypeOK
<1>6. \A x \in Obj : ref_count[x] = 0 => ref_count'[x] = 0
  <2>1. ASSUME NEW x \in Obj, ref_count[x] = 0 PROVE ref_count'[x] = 0
    <3>1. x \notin held /\ Into(x, Counted) = {}
      BY <2>1, Meaning DEF IInv
    <3>2. Into(x, Counted)' = {}
      BY <1>1, <3>1 DEF Into, Counted
    <3> QED
      BY <1>1, <1>3, <3>1, <3>2, MeaningNext
  <2> QED
    BY <2>1
<1>7. /\ \A x \in alloc \ (gc_obj_list \cup tmp_obj_list) :
            ref_count[x] = 0 /\ weakref_count[x] > 0 /\ mark[x] = 0
      /\ \A x \in tmp_obj_list : mark[x] = 1 /\ ref_count[x] = 0
      /\ \A x \in todo : mark[x] = 0
      /\ \A x \in gc_obj_list \ todo : mark[x] = 1
  BY <1>1, <1>2 DEF IInv, MarkInv
<1> HIDE DEF none
<1>8. none \subseteq gc_obj_list /\ \A y \in gc_obj_list : y \in none <=> ref_count'[y] = 0 /\ mark'[y] = 1
  BY DEF none
<1>9. todo' \subseteq gc_obj_list'
  BY <1>1, <1>2, <1>7, <1>8
<1>10. ListInv'
  BY <1>1, <1>2, <1>8, <1>9 DEF ListInv
<1>11. gc_obj_list' \cup tmp_obj_list' = gc_obj_list \cup tmp_obj_list
  BY <1>1, <1>8
<1>12. NoDangling' /\ ToInv'
  BY <1>1, <1>11 DEF IInv, NoDangling, ToInv
<1>13. MarkInv'
  <2>1. \A x \in alloc' \ (gc_obj_list' \cup tmp_obj_list' \cup gc_zero_ref_count_list') :
           ref_count'[x] = 0 /\ weakref_count'[x] > 0 /\ mark'[x] = 0
    BY <1>1, <1>2, <1>6, <1>7, <1>11
  <2>2. \A x \in tmp_obj_list' : mark'[x] = 1 /\ ref_count'[x] = 0
    BY <1>1, <1>2, <1>6, <1>7, <1>8
  <2>3. \A x \in todo' : mark'[x] = 0
    BY <1>1, <1>2, <1>7
  <2>4. \A x \in gc_obj_list' \ todo' : mark'[x] = 1 /\ ref_count'[x] > 0
    <3> TAKE x \in gc_obj_list' \ todo'
    <3>1. x \in gc_obj_list /\ x \in Obj /\ x \notin none /\ (x = p \/ x \notin todo)
      BY <1>1, <1>2
    <3>2. mark'[x] = 1
      BY <1>1, <1>7, <3>1
    <3> QED
      BY <1>4, <1>8, <3>1, <3>2
  <2> QED
    BY <1>1, <1>2, <2>1, <2>2, <2>3, <2>4 DEF MarkInv
<1>14. KeptInv'
  BY <1>1 DEF KeptInv
<1> QED
  BY <1>3, <1>5, <1>10, <1>12, <1>13, <1>14 DEF IInv

\* What no slot refers to and nobody holds has no count, whatever is counted.
LEMMA Unreferenced ==
  ASSUME CountInv', NEW x \in Obj, x \notin held', \A e \in slots' : e.to # x
  PROVE  ref_count'[x] = 0
<1>1. Into(x, Counted)' = {}
  BY DEF Into
<1> QED
  BY <1>1, MeaningNext

LEMMA GcScanKeeps ==
  ASSUME IInv, NEW p \in Obj, GcScan(p)
  PROVE  IInv'
<1> USE ObjAssumption
<1> DEFINE back == Back(p)
<1>1. /\ pc = "scan" /\ pc' = "scan" /\ p \in todo /\ todo' = (todo \cup back) \ {p}
      /\ UNCHANGED <<slots, held, alloc, weakref_count, gc_zero_ref_count_list, visit>>
      /\ ref_count' = Plus(ref_count, Refs(Own(p)))
      /\ gc_obj_list' = gc_obj_list \cup back /\ tmp_obj_list' = tmp_obj_list \ back
      /\ \A y \in Obj : mark'[y] = IF y \in back \cup {p} THEN 0 ELSE mark[y]
  BY DEF GcScan
<1>2. /\ todo \subseteq gc_obj_list /\ gc_zero_ref_count_list = {}
      /\ gc_obj_list \subseteq Obj /\ tmp_obj_list \subseteq Obj /\ alloc \subseteq Obj
      /\ gc_obj_list \cap tmp_obj_list = {}
  BY <1>1 DEF IInv, ListInv, TypeOK
<1>3. /\ back \subseteq tmp_obj_list
      /\ \A y \in tmp_obj_list : y \in back <=> ref_count[y] = 0 /\ ref_count'[y] > 0
  BY DEF Back
<1> HIDE DEF back
<1>4. Counted = gc_obj_list \ todo /\ Counted' = Counted \cup {p} /\ p \notin Counted
  BY <1>1, <1>2, <1>3 DEF Counted
<1>5. CountInv'
  BY <1>1, <1>4, CountPass DEF IInv
<1>6. \A x \in Obj : ref_count'[x] \in Nat /\ ref_count[x] \in Nat
  BY <1>5, MeaningNext DEF IInv, TypeOK
<1>7. TypeOK'
  <2>1. ref_count' \in [Obj -> Nat]
    BY <1>1, <1>6 DEF Plus
  <2>2. Back(p) \subseteq Obj
    BY <1>2 DEF Back
  <2> QED
    BY <2>1, <2>2 DEF GcScan, IInv, TypeOK
<1>8. /\ \A x \in alloc \ (gc_obj_list \cup tmp_obj_list) :
            ref_count[x] = 0 /\ weakref_count[x] > 0 /\ mark[x] = 0
      /\ \A x \in tmp_obj_list : mark[x] = 1 /\ ref_count[x] = 0
      /\ \A x \in gc_obj_list : ref_count[x] > 0
      /\ \A x \in gc_obj_list \ todo : mark[x] = 0
  BY <1>1, <1>2 DEF IInv, MarkInv
<1>9. ListInv'
  BY <1>1, <1>2, <1>3 DEF ListInv
<1>10. gc_obj_list' \cup tmp_obj_list' = gc_obj_list \cup tmp_obj_list
  BY <1>1, <1>3
<1>11. NoDangling' /\ ToInv'
  BY <1>1, <1>10 DEF IInv, NoDangling, ToInv
<1>12. \A x \in Obj : ref_count[x] > 0 => ref_count'[x] > 0
  <2>1. ASSUME NEW x \in Obj, ref_count[x] > 0 PROVE ref_count'[x] # 0
    <3>1. x \in held \/ Into(x, Counted) # {}
      BY <1>6, <2>1, Meaning DEF IInv
    <3>2. Into(x, Counted) \subseteq Into(x, Counted)'
      BY <1>1, <1>4 DEF Into
    <3> QED
      BY <1>1, <1>5, <3>1, <3>2, MeaningNext
  <2> QED
    BY <1>6, <2>1
<1>13. MarkInv'
  <2>1. ASSUME NEW x \in alloc' \ (gc_obj_list' \cup tmp_obj_list' \cup gc_zero_ref_count_list')
        PROVE  ref_count'[x] = 0 /\ weakref_count'[x] > 0 /\ mark'[x] = 0
    <3>1. x \in alloc \ (gc_obj_list \cup tmp_obj_list) /\ x \in Obj /\ x # None
      BY <1>1, <1>2, <1>10
    <3>2. x \notin held /\ \A e \in slots : e.to # x
      BY <1>1, <3>1 DEF IInv, NoDangling, ToInv
    <3>3. ref_count'[x] = 0
      BY <1>1, <1>5, <3>1, <3>2, Unreferenced
    <3> QED
      BY <1>1, <1>8, <3>1, <3>3
  <2>2. \A x \in tmp_obj_list' : mark'[x] = 1 /\ ref_count'[x] = 0
    <3> TAKE x \in tmp_obj_list'
    <3>1. x \in tmp_obj_list /\ x \notin back /\ x # p /\ x \in Obj
      BY <1>1, <1>2
    <3> QED
      BY <1>1, <1>3, <1>6, <1>8, <3>1
  <2>3. \A x \in gc_obj_list' : ref_count'[x] > 0
    BY <1>1, <1>2, <1>3, <1>8, <1>12
  <2>4. \A x \in gc_obj_list' \ todo' : mark'[x] = 0
    BY <1>1, <1>2, <1>3, <1>8
  <2> QED
    BY <1>1, <1>2, <2>1, <2>2, <2>3, <2>4 DEF MarkInv
<1>14. KeptInv'
  <2>1. \A e \in slots : e.from \in gc_obj_list \ todo => e.to \in gc_obj_list \cup {None}
    BY <1>1 DEF IInv, KeptInv
  <2>2. ASSUME NEW e \in slots, e.from = p, e.to # None
        PROVE  e.to \in gc_obj_list'
    <3>1. e.to \in gc_obj_list \cup tmp_obj_list /\ e.to \in Obj
      BY <1>1, <1>2, <2>2 DEF IInv, ToInv
    <3>2. e \in Into(e.to, Counted)'
      BY <1>1, <1>4, <2>2 DEF Into
    <3>3. ref_count'[e.to] > 0
      BY <1>5, <1>6, <3>1, <3>2, MeaningNext
    <3> QED
      BY <1>1, <1>3, <1>8, <3>1, <3>3
  <2>3. \A e \in slots : e.from \in gc_obj_list' \ todo' => e.to \in gc_obj_list' \cup {None}
    <3> TAKE e \in slots
    <3>1. e.from \in gc_obj_list' \ todo' => e.from = p \/ e.from \in gc_obj_list \ todo
      BY <1>1, <1>3
    <3> QED
      BY <1>1, <2>1, <2>2, <3>1
  <2>4. ASSUME NEW S \in SUBSET Obj, held \subseteq S, ClosedUnderRefs(S)
        PROVE  gc_obj_list' \subseteq S
    <3>1. gc_obj_list \subseteq S /\ p \in S
      BY <1>1, <1>2, <2>4 DEF IInv, KeptInv
    <3>2. ASSUME NEW y \in back PROVE y \in S
      <4>1. y \in Obj /\ ref_count[y] = 0 /\ ref_count'[y] > 0 /\ y # None
        BY <1>2, <1>3, <3>2
      <4>2. y \notin held /\ Into(y, Counted) = {}
        BY <4>1, Meaning DEF IInv
      <4>3. Into(y, Counted)' # {}
        BY <1>1, <1>5, <4>1, <4>2, MeaningNext
      <4>4. PICK e \in slots : e.to = y /\ e.from = p
        BY <1>1, <1>4, <4>2, <4>3 DEF Into
      <4> QED
        BY <2>4, <3>1, <4>1, <4>4 DEF ClosedUnderRefs
    <3> QED
      BY <1>1, <3>1, <3>2
  <2>5. \A S : ClosedUnderRefs(S)' <=> ClosedUnderRefs(S)
    BY <1>1 DEF ClosedUnderRefs
  <2> QED
    BY <1>1, <2>3, <2>4, <2>5 DEF KeptInv
<1> QED
  BY <1>5, <1>7, <1>9, <1>11, <1>13, <1>14 DEF IInv

LEMMA GcRestoreKeeps ==
  ASSUME IInv, NEW p \in Obj, GcRestore(p)
  PROVE  IInv'
<1> USE ObjAssumption
<1>1. /\ pc = "restore" /\ pc' = "restore" /\ p \in todo /\ todo' = todo \ {p}
      /\ UNCHANGED <<slots, held, alloc, weakref_count, mark, visit>>
      /\ UNCHANGED <<gc_obj_list, tmp_obj_list, gc_zero_ref_count_list>>
      /\ ref_count' = Plus(ref_count, Refs(Own(p)))
  BY DEF GcRestore, lists, Restored
<1>2. /\ todo \subseteq tmp_obj_list /\ gc_obj_list \cap tmp_obj_list = {}
      /\ gc_zero_ref_count_list = {} /\ alloc \subseteq Obj
  BY <1>1 DEF IInv, ListInv, TypeOK
<1>3. CountInv'
  <2>1. p \notin Counted /\ Counted' = Counted \cup {p}
    BY <1>1, <1>2 DEF Counted
  <2> QED
    BY <1>1, <2>1, CountPass DEF IInv
<1>4. TypeOK'
  <2>1. \A x \in Obj : ref_count'[x] \in Nat
    BY <1>3, MeaningNext
  <2>2. ref_count' \in [Obj -> Nat]
    BY <1>1, <2>1 DEF Plus
  <2> QED
    BY <1>1, <2>2 DEF IInv, TypeOK
<1>5. ListInv' /\ NoDangling' /\ ToInv'
  BY <1>1, <1>2 DEF IInv, ListInv, NoDangling, ToInv
<1>6. MarkInv'
  <2>1. ASSUME NEW x \in alloc \ (gc_obj_list \cup tmp_obj_list \cup gc_zero_ref_count_list)
        PROVE  ref_count'[x] = 0 /\ weakref_count[x] > 0 /\ mark[x] = 0
    <3>1. x \in Obj /\ x # None
      BY <1>2
    <3>2. x \notin held /\ \A e \in slots : e.to # x
      BY <1>1, <2>1, <3>1 DEF IInv, NoDangling, ToInv
    <3>3. ref_count'[x] = 0
      BY <1>1, <1>3, <3>1, <3>2, Unreferenced
    <3> QED
      BY <2>1, <3>3 DEF IInv, MarkInv
  <2> QED
    BY <1>1, <2>1 DEF IInv, MarkInv
<1>7. KeptInv'
  BY <1>1 DEF IInv, KeptInv, ClosedUnderRefs
<1> QED
  BY <1>3, <1>4, <1>5, <1>6, <1>7 DEF IInv

\* What the cycles are taken apart from keeps its references.
LEMMA GcFreeKeeps ==
  ASSUME IInv, NEW p \in Obj, GcFree(p)
  PROVE  IInv'
<1> USE ObjAssumption
<1> DEFINE gone == ref_count'[p] = 0 /\ weakref_count'[p] = 0
           F == IF gone THEN {p} ELSE {}
<1>1. /\ pc = "cycles" /\ pc' = "cycles" /\ p \in tmp_obj_list /\ Release(Own(p))
      /\ Own(p) \subseteq slots /\ slots' \subseteq slots
      /\ \A e \in slots' : e.from # p
      /\ \A e \in slots : e.from # p => e \in slots'
      /\ UNCHANGED <<held, mark, gc_obj_list, todo, visit>>
      /\ tmp_obj_list' = tmp_obj_list \ {p}
      /\ alloc' = alloc \ (WeakGone \cup F)
      /\ gc_zero_ref_count_list' = gc_zero_ref_count_list \cup ({p} \ F)
  BY DEF GcFree, Release, Own
<1>2. CountInv'
  BY <1>1, QuietCounted, CountRelease DEF IInv
<1>3. TypeOK'
  <2>1. ref_count' \in [Obj -> Nat] /\ weakref_count' \in [Obj -> Nat]
    BY <1>1, <1>2, ReleaseType DEF IInv
  <2> QED
    BY <1>1, <2>1 DEF IInv, TypeOK
<1>4. F \subseteq {p} /\ (p \in F => ref_count'[p] = 0 /\ weakref_count'[p] = 0)
      /\ (p \notin F => ref_count'[p] # 0 \/ weakref_count'[p] # 0)
  OBVIOUS
<1> HIDE DEF gone, F
<1>5. /\ gc_obj_list \cap tmp_obj_list = {}
      /\ gc_obj_list \cap gc_zero_ref_count_list = {}
      /\ tmp_obj_list \cap gc_zero_ref_count_list = {}
      /\ gc_obj_list \cup tmp_obj_list \cup gc_zero_ref_count_list \subseteq alloc
      /\ alloc \subseteq Obj
  BY DEF IInv, ListInv, NoDangling, TypeOK
<1>6. /\ held \subseteq gc_obj_list
      /\ \A e \in slots : e.from \in gc_obj_list => e.to \in gc_obj_list \cup {None}
      /\ \A x \in gc_obj_list :
            x \in held \/ \E e \in slots : e.to = x /\ e.from \in gc_obj_list
      /\ \A S \in SUBSET Obj : held \subseteq S /\ ClosedUnderRefs(S) => gc_obj_list \subseteq S
      /\ \A e \in slots : e.from \notin gc_zero_ref_count_list
  BY <1>1 DEF IInv, KeptInv
<1>7. \A k \in WeakGone :
         /\ k \notin gc_obj_list \cup tmp_obj_list \cup gc_zero_ref_count_list
         /\ \A e \in slots' : e.to # k /\ e.key # k
  BY <1>1, <1>2, <1>3, WeakGoneFree
<1>8. \A e \in slots' : \A x \in F : e.to # x /\ e.key # x
  BY <1>1, <1>2, <1>3, <1>4, NoneLeft
<1>9. \A e \in slots : /\ e.from \in gc_obj_list \cup tmp_obj_list
                       /\ {e.to, e.key} \subseteq alloc \cup {None}
                       /\ e.to # None \/ e.key # None
                       /\ e.to # None =>
                            e.to \in gc_obj_list \cup tmp_obj_list \cup gc_zero_ref_count_list
  BY <1>1, <1>6 DEF IInv, NoDangling, ToInv
<1>10. ListInv'
  BY <1>1, <1>5 DEF ListInv
<1>11. NoDangling'
  <2>1. gc_obj_list' \cup tmp_obj_list' \cup gc_zero_ref_count_list' \subseteq alloc'
    BY <1>1, <1>4, <1>5, <1>7
  <2>2. ASSUME NEW e \in slots'
        PROVE  /\ e.from \in gc_obj_list' \cup tmp_obj_list'
               /\ {e.to, e.key} \subseteq alloc' \cup {None}
    <3>1. e.from \in gc_obj_list' \cup tmp_obj_list'
      BY <1>1, <1>9
    <3> QED
      BY <1>1, <1>7, <1>8, <1>9, <3>1
  <2> QED
    BY <1>1, <1>6, <2>1, <2>2 DEF NoDangling
<1>12. ToInv'
  <2>1. \A e \in slots' : /\ e.to # None \/ e.key # None
                          /\ e.to # None =>
                               e.to \in gc_obj_list' \cup tmp_obj_list' \cup gc_zero_ref_count_list'
    BY <1>1, <1>8, <1>9
  <2> QED
    BY <1>1, <2>1 DEF ToInv
<1>13. MarkInv'
  <2>1. /\ \A x \in alloc \ (gc_obj_list \cup tmp_obj_list \cup gc_zero_ref_count_list) :
              ref_count[x] = 0 /\ weakref_count[x] > 0 /\ mark[x] = 0
        /\ \A x \in gc_zero_ref_count_list \cup tmp_obj_list : mark[x] = 1
        /\ \A x \in gc_obj_list : mark[x] = 0
    BY <1>1 DEF IInv, MarkInv
  <2>2. ASSUME NEW x \in alloc' \ (gc_obj_list' \cup tmp_obj_list' \cup gc_zero_ref_count_list')
        PROVE  ref_count'[x] = 0 /\ weakref_count'[x] > 0 /\ mark'[x] = 0
    <3>1. /\ x \in alloc \ (gc_obj_list \cup tmp_obj_list \cup gc_zero_ref_count_list)
          /\ x \notin WeakGone /\ x \in Obj /\ x # None
      BY <1>1, <1>5
    <3>2. x \notin held' /\ \A e \in slots' : e.to # x
      BY <1>1, <1>5, <1>6, <1>9, <3>1
    <3>3. ref_count'[x] = 0
      BY <1>2, <3>1, <3>2, Unreferenced
    <3>4. weakref_count'[x] # 0
      BY <2>1, <3>1 DEF WeakGone, LastWeak
    <3>5. weakref_count'[x] \in Nat
      BY <1>3, <3>1 DEF TypeOK
    <3> QED
      BY <1>1, <2>1, <3>1, <3>3, <3>4, <3>5
  <2> QED
    BY <1>1, <2>1, <2>2 DEF MarkInv
<1>14. KeptInv'
  <2>1. \A x \in gc_obj_list :
           x \in held \/ \E e \in slots' : e.to = x /\ e.from \in gc_obj_list
    BY <1>1, <1>5, <1>6
  <2>2. ASSUME NEW S \in SUBSET Obj, held \subseteq S, ClosedUnderRefs(S)'
        PROVE  gc_obj_list \subseteq S
    <3> DEFINE K == S \cap gc_obj_list
    <3>1. held \subseteq K /\ K \in SUBSET Obj
      BY <1>6, <2>2
    <3>2. ASSUME NEW e \in slots, e.from \in K, e.to # None
          PROVE  e.to \in K
      <4>1. e \in slots' /\ e.to \in gc_obj_list
        BY <1>1, <1>5, <1>6, <3>2
      <4> QED
        BY <2>2, <3>2, <4>1 DEF ClosedUnderRefs
    <3>3. ClosedUnderRefs(K)
      BY <3>2 DEF ClosedUnderRefs
    <3> HIDE DEF K
    <3>4. gc_obj_list \subseteq K
      BY <1>6, <3>1, <3>3
    <3> QED
      BY <3>4 DEF K
  <2>3. \A e \in slots' : e.from \notin gc_zero_ref_count_list'
    BY <1>1, <1>4, <1>6
  <2> QED
    BY <1>1, <1>6, <2>1, <2>2, <2>3 DEF KeptInv
<1> QED
  BY <1>2, <1>3, <1>10, <1>11, <1>12, <1>13, <1>14 DEF IInv

LEMMA GcEndKeeps ==
  ASSUME IInv, GcEnd
  PROVE  IInv'
<1> USE ObjAssumption
<1>1. /\ pc = "cycles" /\ pc' = "idle" /\ tmp_obj_list = {} /\ tmp_obj_list' = {}
      /\ gc_zero_ref_count_list' = {}
      /\ alloc' = alloc \ (gc_zero_ref_count_list \ Zombies)
      /\ UNCHANGED <<slots, held, ref_count, weakref_count, gc_obj_list, todo, visit>>
      /\ \A y \in Obj : mark'[y] = IF y \in Zombies THEN 0 ELSE mark[y]
  BY DEF GcEnd, counts, ZombieMark
<1>2. /\ gc_obj_list \cap gc_zero_ref_count_list = {}
      /\ gc_obj_list \subseteq alloc /\ gc_zero_ref_count_list \subseteq alloc
      /\ alloc \subseteq Obj
  BY DEF IInv, ListInv, NoDangling, TypeOK
<1>3. /\ held \subseteq gc_obj_list
      /\ \A e \in slots : e.from \in gc_obj_list => e.to \in gc_obj_list \cup {None}
      /\ \A x \in gc_obj_list :
            x \in held \/ \E e \in slots : e.to = x /\ e.from \in gc_obj_list
      /\ \A e \in slots : e.from \notin gc_zero_ref_count_list
  BY <1>1 DEF IInv, KeptInv
<1>4. \A e \in slots : /\ e.from \in gc_obj_list /\ e.to \in gc_obj_list \cup {None}
                       /\ e.key \in alloc \cup {None}
                       /\ e.to # None \/ e.key # None
  <2>1. \A e \in slots : /\ e.from \in gc_obj_list
                         /\ e.key \in alloc \cup {None}
                         /\ e.to # None \/ e.key # None
    BY <1>1, <1>3 DEF IInv, NoDangling, ToInv
  <2> QED
    BY <1>3, <2>1
<1>5. CountInv'
  <2>1. Counted = Obj /\ Counted' = Obj
    BY <1>1, QuietCounted DEF Quiet
  <2> QED
    BY <1>1, <2>1, CountSame DEF IInv, counts
<1>6. TypeOK'
  BY DEF IInv, TypeOK, GcEnd, counts, ZombieMark
<1>7. \A x \in Obj : /\ ref_count[x] \in Nat /\ weakref_count[x] \in Nat
                     /\ ref_count[x] = 0 <=> x \notin held /\ \A e \in slots : e.to # x
                     /\ weakref_count[x] = 0 <=> \A e \in slots : e.key # x
  <2>1. \A x \in Obj : ref_count[x] \in Nat /\ weakref_count[x] \in Nat
    BY DEF IInv, TypeOK
  <2>2. \A x \in Obj : /\ ref_count'[x] = 0 <=> x \notin held' /\ \A e \in slots' : e.to # x
                       /\ weakref_count'[x] = 0 <=> \A e \in slots' : e.key # x
    BY <1>1, <1>5, <1>6, NoneLeft DEF Quiet
  <2> QED
    BY <1>1, <2>1, <2>2
<1>8. Zombies \subseteq gc_zero_ref_count_list
      /\ \A x \in gc_zero_ref_count_list : x \in Zombies <=> weakref_count[x] # 0
  BY DEF Zombies
<1>9. \A e \in slots : e.key \in alloc' \cup {None}
  BY <1>1, <1>2, <1>4, <1>7, <1>8
<1>10. \A x \in gc_obj_list : ref_count'[x] > 0 /\ mark'[x] = 0
  <2> TAKE x \in gc_obj_list
  <2>1. x \in Obj /\ x \notin Zombies
    BY <1>2, <1>8
  <2>2. mark[x] = 0
    BY <1>1 DEF IInv, MarkInv
  <2>3. ref_count[x] # 0
    BY <1>3, <1>7, <2>1
  <2> QED
    BY <1>1, <1>7, <2>1, <2>2, <2>3
<1>11. \A x \in alloc' \ gc_obj_list :
          ref_count'[x] = 0 /\ weakref_count'[x] > 0 /\ mark'[x] = 0
  <2> TAKE x \in alloc' \ gc_obj_list
  <2>1. x \in Obj /\ x \in alloc /\ x # None
    BY <1>1, <1>2
  <2>2. ref_count[x] = 0
    BY <1>3, <1>4, <1>7, <2>1
  <2>3. CASE x \in gc_zero_ref_count_list
    BY <1>1, <1>7, <1>8, <2>1, <2>2, <2>3
  <2>4. CASE x \notin gc_zero_ref_count_list
    <3>1. weakref_count[x] > 0 /\ mark[x] = 0
      BY <1>1, <2>1, <2>4 DEF IInv, MarkInv
    <3> QED
      BY <1>1, <1>8, <2>1, <2>2, <2>4, <3>1
  <2> QED
    BY <2>3, <2>4
<1>12. gc_obj_list' \subseteq alloc'
  BY <1>1, <1>2
<1> QED
  BY <1>1, <1>3, <1>4, <1>5, <1>6, <1>9, <1>10, <1>11, <1>12, IdleStep

----------------------------------------------------------------------------
(* The theorems *)

LEMMA InitHolds ==
  Init => IInv
<1> SUFFICES ASSUME Init PROVE IInv
  OBVIOUS
<1>1. TypeOK
  BY DEF Init, TypeOK
<1>2. CountInv
  <2>1. \A x : Into(x, Counted) = {} /\ WeakOf(x) = {}
    BY DEF Init, Into, WeakOf
  <2>2. IsFiniteSet({}) /\ Cardinality({}) = 0
    BY FS_EmptySet
  <2> QED
    BY <2>1, <2>2 DEF Init, CountInv
<1>3. ListInv /\ NoDangling /\ ToInv /\ MarkInv /\ KeptInv
  BY DEF Init, ListInv, NoDangling, ToInv, MarkInv, KeptInv
<1> QED
  BY <1>1, <1>2, <1>3 DEF IInv

LEMMA StutterKeeps ==
  ASSUME IInv, UNCHANGED vars
  PROVE  IInv'
<1>1. /\ UNCHANGED <<slots, held, alloc, mark, pc, todo, visit>>
      /\ UNCHANGED <<counts, lists>>
      /\ UNCHANGED <<ref_count, weakref_count>>
      /\ UNCHANGED <<gc_obj_list, tmp_obj_list, gc_zero_ref_count_list>>
  BY DEF vars, counts, lists
<1>2. Counted' = Counted
  BY <1>1 DEF Counted
<1>3. TypeOK' /\ ListInv' /\ ToInv'
  BY <1>1 DEF IInv, TypeOK, ListInv, ToInv
<1>4. MarkInv'
  BY <1>1 DEF IInv, MarkInv
<1>5. KeptInv'
  BY <1>1 DEF IInv, KeptInv, ClosedUnderRefs
<1> QED
  BY <1>1, <1>2, <1>3, <1>4, <1>5, BetweenPasses

LEMMA NextKeeps ==
  ASSUME IInv, [Next]_vars
  PROVE  IInv'
<1>1. CASE \E x \in Obj : New(x) \/ Drop(x)
  BY <1>1, NewKeeps, DropKeeps
<1>2. CASE \E e \in Slot : Store(e)
  BY <1>2, StoreKeeps
<1>3. CASE \E e \in slots : Load(e) \/ Deref(e) \/ Delete(e)
  BY <1>3, LoadKeeps, DeleteKeeps
<1>4. CASE (\E b \in BOOLEAN : RunGC(b)) \/ WeakEnd \/ ZeroEnd
  BY <1>4, StartKeeps
<1>5. CASE \E e \in visit : VisitWeak(e)
  BY <1>5, VisitWeakKeeps
<1>6. CASE GcEnd
  BY <1>6, GcEndKeeps
<1>7. CASE \/ EndPass("decref", "scan", gc_obj_list)
           \/ EndPass("scan", "restore", tmp_obj_list)
           \/ EndPass("restore", "cycles", {})
  BY <1>7, EndPassKeeps
<1>8. CASE \E p \in Obj : FreeObject(p) \/ GcDecref(p) \/ GcScan(p) \/ GcRestore(p) \/ GcFree(p)
  BY <1>8, FreeObjectKeeps, GcDecrefKeeps, GcScanKeeps, GcRestoreKeeps, GcFreeKeeps
<1>9. CASE UNCHANGED vars
  BY <1>9, StutterKeeps
<1> QED
  BY <1>1, <1>2, <1>3, <1>4, <1>5, <1>6, <1>7, <1>8, <1>9 DEF Next, Mutator, Collect

THEOREM Invariance ==
  Spec => []IInv
<1>1. IInv /\ [Next]_vars => IInv'
  BY NextKeeps
<1> QED
  BY InitHolds, <1>1, PTL DEF Spec

\* CountsExact with the types: trial deletion takes every reference away once
\* and gives it back once, whatever the shape of the heap.
THEOREM Counts ==
  Spec => []HeapInv
<1>1. IInv => HeapInv
  BY DEF IInv, CountInv, Into, HeapInv, CountsExact
<1> QED
  BY <1>1, Invariance, PTL

\* No reference, value or weak, leads to a structure given to js_free_rt.
THEOREM Dangling ==
  Spec => []NoDangling
<1>1. IInv => NoDangling
  BY DEF IInv
<1> QED
  BY <1>1, Invariance, PTL

\* Between operations what is not on gc_obj_list is a zombie that a weak
\* reference leads to: free_object, js_weakref_free and gc_free_cycles leave no
\* structure behind.
THEOREM Zombie ==
  Spec => []NoZombieLeft
<1>1. IInv => NoZombieLeft
  <2> SUFFICES ASSUME IInv, pc = "idle", NEW x \in alloc
               PROVE  /\ mark[x] = 0
                      /\ IF x \in gc_obj_list THEN ref_count[x] > 0
                         ELSE ref_count[x] = 0 /\ weakref_count[x] > 0
    BY DEF NoZombieLeft
  <2> QED
    BY Idle
<1> QED
  BY <1>1, Invariance, PTL

\* gc_decref, gc_scan and gc_free_cycles free exactly what the program cannot
\* reach.
THEOREM Garbage ==
  Spec => []CollectsGarbage
<1>1. IInv => CollectsGarbage
  <2> SUFFICES ASSUME IInv PROVE CollectsGarbage
    OBVIOUS
  <2>1. gc_obj_list \in SUBSET Obj /\ held \subseteq Obj
    BY DEF IInv, TypeOK
  <2>2. ASSUME held \subseteq gc_obj_list, ClosedUnderRefs(gc_obj_list)
        PROVE  Reachable \subseteq gc_obj_list
    BY <2>1, <2>2 DEF Reachable
  <2>3. ASSUME pc \in {"restore", "cycles"}
        PROVE  gc_obj_list = Reachable
    <3>1. held \subseteq gc_obj_list /\ ClosedUnderRefs(gc_obj_list)
      BY <2>3 DEF IInv, KeptInv, ClosedUnderRefs
    <3>2. gc_obj_list \subseteq Reachable
      BY <2>1, <2>3 DEF IInv, KeptInv, Reachable
    <3> QED
      BY <2>2, <3>1, <3>2
  <2>4. ASSUME pc \in Quiet
        PROVE  Reachable \subseteq gc_obj_list
    <3>1. tmp_obj_list = {}
      BY <2>4 DEF IInv, ListInv, Quiet
    <3>2. held \subseteq gc_obj_list
      BY <3>1 DEF IInv, NoDangling
    <3>3. ClosedUnderRefs(gc_obj_list)
      BY <2>4, <3>1 DEF IInv, ToInv, ClosedUnderRefs, Quiet
    <3> QED
      BY <2>2, <3>2, <3>3
  <2> QED
    BY <2>3, <2>4 DEF CollectsGarbage, Quiet, IInv, TypeOK
<1> QED
  BY <1>1, Invariance, PTL
=============================================================================
