--------------------------- MODULE CycleCollector ---------------------------
(***************************************************************************)
(* The memory of quickjs.c: reference counts, the list of objects whose    *)
(* count has reached zero, and JS_RunGC, which finds cycles by trial       *)
(* deletion (gc_decref, gc_scan, gc_free_cycles).  An object with weak     *)
(* references keeps its structure, a zombie, after its fields are freed.   *)
(*                                                                         *)
(* The heap is a set of slots.  A slot with a value `to` counts as a       *)
(* reference; one with a `key` is weak: an entry of a WeakMap has both, a   *)
(* WeakRef a key only, a property a value only.  Lists are sets: an order  *)
(* of visiting them is any order.  js_free_rt of a structure takes it out  *)
(* of alloc, and the address may be given out again.                       *)
(***************************************************************************)
EXTENDS Integers, FiniteSets

CONSTANTS Obj,        \* addresses of JSObject structures
          None,       \* JS_UNDEFINED
          MaxSlots    \* bound on the slots in use

ASSUME ObjAssumption == IsFiniteSet(Obj) /\ None \notin Obj
ASSUME MaxAssumption == MaxSlots \in Nat

Slot == [from : Obj, to : Obj \cup {None}, key : Obj \cup {None}]

VARIABLES
  slots,
  held,         \* objects a running function or the C stack has one reference to
  alloc,        \* structures not given to js_free_rt
  ref_count, weakref_count, mark,
  gc_obj_list, tmp_obj_list, gc_zero_ref_count_list,
  pc,           \* where JS_RunGC or free_zero_refcount is; gives gc_phase
  todo, visit   \* objects, weak slots the current traversal has yet to visit

lists  == <<gc_obj_list, tmp_obj_list, gc_zero_ref_count_list>>
counts == <<ref_count, weakref_count>>
vars   == <<slots, held, alloc, counts, mark, lists, pc, todo, visit>>

TypeOK ==
  /\ slots \subseteq Slot
  /\ held \subseteq Obj
  /\ alloc \subseteq Obj
  /\ ref_count \in [Obj -> Nat]
  /\ weakref_count \in [Obj -> Nat]
  /\ mark \in [Obj -> {0, 1}]
  /\ gc_obj_list \subseteq Obj
  /\ tmp_obj_list \subseteq Obj
  /\ gc_zero_ref_count_list \subseteq Obj
  /\ pc \in {"idle", "zero", "weak", "weakZero", "decref", "scan", "restore", "cycles"}
  /\ todo \subseteq Obj
  /\ visit \subseteq Slot

Init ==
  /\ slots = {} /\ held = {} /\ alloc = {}
  /\ ref_count = [x \in Obj |-> 0]
  /\ weakref_count = [x \in Obj |-> 0]
  /\ mark = [x \in Obj |-> 0]
  /\ gc_obj_list = {} /\ tmp_obj_list = {} /\ gc_zero_ref_count_list = {}
  /\ pc = "idle" /\ todo = {} /\ visit = {}

-----------------------------------------------------------------------------
(* References *)

Own(p) == {e \in slots : e.from = p}
\* How many references the slots S hold on each object, and weak ones
Refs(S) == [x \in Obj |-> Cardinality({e \in S : e.to = x})]
Weak(S) == [x \in Obj |-> Cardinality({e \in S : e.key = x})]
Plus(f, g)  == [x \in Obj |-> f[x] + g[x]]
Minus(f, g) == [x \in Obj |-> f[x] - g[x]]
One(x) == [y \in Obj |-> IF y = x THEN 1 ELSE 0]

\* JS_FreeValueRT: outside gc_free_cycles, an object whose count reaches zero
\* is marked and moved to gc_zero_ref_count_list.
ReachZero == {y \in gc_obj_list : ref_count[y] > 0 /\ ref_count'[y] = 0}
ToZeroList ==
  /\ gc_obj_list' = gc_obj_list \ ReachZero
  /\ mark' = [y \in Obj |-> IF y \in ReachZero THEN 1 ELSE mark[y]]

\* js_weakref_free: the structure of a dead object goes with its last weak
\* reference, unless it is about to be freed anyway (the mark).
LastWeak == {k \in alloc : /\ weakref_count[k] > 0 /\ weakref_count'[k] = 0
                           /\ ref_count[k] = 0}
WeakGoneBug == LastWeak
WeakGone == {k \in LastWeak : mark[k] = 0}

\* The slots S cease to exist.
Release(S) ==
  /\ slots' = slots \ S
  /\ ref_count' = Minus(ref_count, Refs(S))
  /\ weakref_count' = Minus(weakref_count, Weak(S))

-----------------------------------------------------------------------------
(* The program: operations on values it holds *)

New(x) ==
  /\ pc = "idle" /\ x \notin alloc
  /\ alloc' = alloc \cup {x}
  /\ held' = held \cup {x}
  /\ ref_count' = [ref_count EXCEPT ![x] = 1]
  /\ weakref_count' = [weakref_count EXCEPT ![x] = 0]
  /\ mark' = [mark EXCEPT ![x] = 0]
  /\ gc_obj_list' = gc_obj_list \cup {x}
  /\ UNCHANGED <<slots, tmp_obj_list, gc_zero_ref_count_list, pc, todo, visit>>

\* A property is set, a WeakMap entry added, or a WeakRef made.
Store(e) ==
  /\ pc = "idle" /\ e \notin slots
  /\ Cardinality(slots) < MaxSlots
  /\ e.from \in held /\ {e.to, e.key} \subseteq held \cup {None}
  /\ e.to # None \/ e.key # None
  /\ slots' = slots \cup {e}
  /\ ref_count' = Plus(ref_count, Refs({e}))
  /\ weakref_count' = Plus(weakref_count, Weak({e}))
  /\ UNCHANGED <<held, alloc, mark, lists, pc, todo, visit>>

Take(x) ==
  /\ held' = held \cup {x}
  /\ ref_count' = [ref_count EXCEPT ![x] = @ + 1]
  /\ UNCHANGED <<slots, alloc, weakref_count, mark, lists, pc, todo, visit>>

Load(e) ==
  /\ pc = "idle" /\ e \in slots
  /\ e.from \in held /\ e.key \in held \cup {None}
  /\ e.to # None /\ e.to \notin held
  /\ Take(e.to)

\* js_weakref_deref of a live target
Deref(e) ==
  /\ pc = "idle" /\ e \in slots
  /\ e.from \in held /\ e.to = None /\ e.key \notin held
  /\ ref_count[e.key] # 0
  /\ Take(e.key)

\* JS_FreeValue: free_zero_refcount runs when a count has reached zero.
FreeValues ==
  /\ ToZeroList
  /\ gc_zero_ref_count_list' = ReachZero
  /\ pc' = IF ReachZero = {} THEN "idle" ELSE "zero"
  /\ UNCHANGED <<tmp_obj_list, todo, visit>>

\* A property or a WeakMap entry is deleted.
Delete(e) ==
  /\ pc = "idle" /\ e \in slots
  /\ e.from \in held /\ e.to # None /\ e.key \in held \cup {None}
  /\ Release({e})
  /\ FreeValues
  /\ alloc' = alloc \ WeakGone
  /\ UNCHANGED held

Drop(x) ==
  /\ pc = "idle" /\ x \in held
  /\ held' = held \ {x}
  /\ ref_count' = Minus(ref_count, One(x))
  /\ FreeValues
  /\ UNCHANGED <<slots, alloc, weakref_count>>

-----------------------------------------------------------------------------
(* free_zero_refcount *)

\* A zombie is not marked, or its last weak reference would not free it.
ZombieMarkBug == 1
ZombieMark == 0

\* free_object: the fields, then the weak references; a zombie stays behind
\* when there are weak references to p.
FreeObject(p) ==
  /\ pc \in {"zero", "weakZero"} /\ p \in gc_zero_ref_count_list
  /\ Release(Own(p))
  /\ gc_zero_ref_count_list' = (gc_zero_ref_count_list \cup ReachZero) \ {p}
  /\ gc_obj_list' = gc_obj_list \ ReachZero
  /\ alloc' = alloc \ (WeakGone \cup
                       (IF weakref_count'[p] = 0 THEN {p} ELSE {}))
  /\ mark' = [y \in Obj |-> IF y \in ReachZero THEN 1
                            ELSE IF y = p THEN ZombieMark ELSE mark[y]]
  /\ UNCHANGED <<held, tmp_obj_list, pc, todo, visit>>

ZeroEnd ==
  /\ pc \in {"zero", "weakZero"} /\ gc_zero_ref_count_list = {}
  /\ IF pc = "zero" THEN pc' = "idle" /\ UNCHANGED todo
     ELSE pc' = "decref" /\ todo' = gc_obj_list
  /\ UNCHANGED <<slots, held, alloc, counts, mark, lists, visit>>

-----------------------------------------------------------------------------
(* JS_RunGC *)

\* JS_FreeRuntime calls JS_RunGCInternal without the removal of weak objects.
RunGC(remove_weak_objects) ==
  /\ pc = "idle"
  /\ IF remove_weak_objects
     THEN pc' = "weak" /\ visit' = {e \in slots : e.key # None} /\ UNCHANGED todo
     ELSE pc' = "decref" /\ todo' = gc_obj_list /\ UNCHANGED visit
  /\ UNCHANGED <<slots, held, alloc, counts, mark, lists>>

\* gc_remove_weak_objects: a weak slot whose key is dead goes; what its value
\* leaves is freed after the traversal.
IsLive(k) == ref_count[k] # 0

VisitWeak(e) ==
  /\ pc = "weak" /\ e \in visit
  /\ visit' = visit \ {e}
  /\ IF IsLive(e.key)
     THEN UNCHANGED <<slots, counts, alloc, mark, gc_obj_list, gc_zero_ref_count_list>>
     ELSE /\ Release({e})
          /\ ToZeroList
          /\ gc_zero_ref_count_list' = gc_zero_ref_count_list \cup ReachZero
          /\ alloc' = alloc \ WeakGone
  /\ UNCHANGED <<held, tmp_obj_list, pc, todo>>

WeakEnd ==
  /\ pc = "weak" /\ visit = {}
  /\ pc' = "weakZero"
  /\ UNCHANGED <<slots, held, alloc, counts, mark, lists, todo, visit>>

\* gc_decref: p's children lose its references; the objects visited that have
\* no other reference left go to tmp_obj_list.
GcDecref(p) ==
  LET none == {y \in gc_obj_list : ref_count'[y] = 0 /\ mark'[y] = 1}
  IN /\ pc = "decref" /\ p \in todo
     /\ ref_count' = Minus(ref_count, Refs(Own(p)))
     /\ mark' = [mark EXCEPT ![p] = 1]
     /\ gc_obj_list' = gc_obj_list \ none
     /\ tmp_obj_list' = tmp_obj_list \cup none
     /\ todo' = todo \ {p}
     /\ UNCHANGED <<slots, held, alloc, weakref_count, gc_zero_ref_count_list, pc, visit>>

\* gc_scan: what is left is referenced from outside; it and what it references
\* is kept, and gets its references back.
BackBug(p) == {}
Back(p) == {y \in tmp_obj_list : ref_count[y] = 0 /\ ref_count'[y] > 0}

GcScan(p) ==
  /\ pc = "scan" /\ p \in todo
  /\ ref_count' = Plus(ref_count, Refs(Own(p)))
  /\ gc_obj_list' = gc_obj_list \cup Back(p)
  /\ tmp_obj_list' = tmp_obj_list \ Back(p)
  /\ todo' = (todo \cup Back(p)) \ {p}
  /\ mark' = [y \in Obj |-> IF y \in Back(p) \cup {p} THEN 0 ELSE mark[y]]
  /\ UNCHANGED <<slots, held, alloc, weakref_count, gc_zero_ref_count_list, pc, visit>>

\* its second loop: so do the objects that will be freed
RestoredBug(p) == {e \in Own(p) : e.to \in tmp_obj_list}
Restored(p) == Own(p)

GcRestore(p) ==
  /\ pc = "restore" /\ p \in todo
  /\ ref_count' = Plus(ref_count, Refs(Restored(p)))
  /\ todo' = todo \ {p}
  /\ UNCHANGED <<slots, held, alloc, weakref_count, mark, lists, pc, visit>>

EndPass(from, to, next) ==
  /\ pc = from /\ todo = {}
  /\ pc' = to
  /\ todo' = next
  /\ UNCHANGED <<slots, held, alloc, counts, mark, lists, visit>>

\* gc_free_cycles: free_object when gc_phase is REMOVE_CYCLES; a structure
\* something still refers to is put aside.
GcFree(p) ==
  LET gone == ref_count'[p] = 0 /\ weakref_count'[p] = 0
  IN /\ pc = "cycles" /\ p \in tmp_obj_list
     /\ Release(Own(p))
     /\ tmp_obj_list' = tmp_obj_list \ {p}
     /\ alloc' = alloc \ (WeakGone \cup (IF gone THEN {p} ELSE {}))
     /\ gc_zero_ref_count_list' =
          IF gone THEN gc_zero_ref_count_list ELSE gc_zero_ref_count_list \cup {p}
     /\ UNCHANGED <<held, mark, gc_obj_list, pc, todo, visit>>

\* its last loop: what was put aside goes, but for the zombies
Zombies == {x \in gc_zero_ref_count_list : weakref_count[x] # 0}
GcEnd ==
  /\ pc = "cycles" /\ tmp_obj_list = {}
  /\ pc' = "idle"
  /\ alloc' = alloc \ (gc_zero_ref_count_list \ Zombies)
  /\ mark' = [y \in Obj |-> IF y \in Zombies THEN ZombieMark ELSE mark[y]]
  /\ gc_zero_ref_count_list' = {}
  /\ UNCHANGED <<slots, held, counts, gc_obj_list, tmp_obj_list, todo, visit>>

Mutator == \/ \E x \in Obj : New(x) \/ Drop(x)
           \/ \E e \in Slot : Store(e)
           \/ \E e \in slots : Load(e) \/ Deref(e) \/ Delete(e)
Collect == \/ \E b \in BOOLEAN : RunGC(b)
           \/ \E e \in visit : VisitWeak(e)
           \/ WeakEnd \/ ZeroEnd \/ GcEnd
           \/ EndPass("decref", "scan", gc_obj_list)
           \/ EndPass("scan", "restore", tmp_obj_list)
           \/ EndPass("restore", "cycles", {})
           \/ \E p \in Obj : \/ FreeObject(p) \/ GcDecref(p) \/ GcScan(p)
                             \/ GcRestore(p) \/ GcFree(p)
Next == Mutator \/ Collect
Spec == Init /\ [][Next]_vars

-----------------------------------------------------------------------------
(* Properties *)

\* The objects whose references are counted at this point of a collection
Counted ==
  CASE pc = "decref"  -> todo
    [] pc = "scan"    -> gc_obj_list \ todo
    [] pc = "restore" -> gc_obj_list \cup (tmp_obj_list \ todo)
    [] OTHER          -> Obj

\* Trial deletion takes each reference away once and gives it back once: a count
\* is the number of references that are counted, no more, no less.
CountsExact ==
  \A x \in Obj : ref_count[x] =
    Cardinality({e \in slots : e.to = x /\ e.from \in Counted})
      + (IF x \in held THEN 1 ELSE 0)

\* What every pass of a collection keeps
HeapInv == TypeOK /\ CountsExact

\* What the program can get at
ClosedUnderRefs(S) == \A e \in slots : e.from \in S /\ e.to # None => e.to \in S
Reachable == {x \in Obj : \A S \in SUBSET Obj :
                            held \subseteq S /\ ClosedUnderRefs(S) => x \in S}

\* No reference, value or weak, leads to memory given back: in particular no
\* structure is freed while it is on a list, that is twice.
NoDangling ==
  /\ held \subseteq gc_obj_list \cup tmp_obj_list
  /\ gc_obj_list \cup tmp_obj_list \cup gc_zero_ref_count_list \subseteq alloc
  /\ \A e \in slots :
       /\ e.from \in gc_obj_list \cup tmp_obj_list \cup gc_zero_ref_count_list
       /\ {e.to, e.key} \subseteq alloc \cup {None}

\* A collection frees what cannot be reached, cycles or not, and nothing else;
\* all of it, then, when JS_FreeRuntime asserts that gc_obj_list is empty.
CollectsGarbage ==
  /\ pc \in {"restore", "cycles"} => gc_obj_list = Reachable
  /\ pc \notin {"decref", "scan"} => Reachable \subseteq gc_obj_list

\* Between operations an object has a count and no mark, or is a zombie that a
\* weak reference can still ask for: no structure is kept for nothing, and no
\* WeakRef brings back the dead.
NoZombieLeft ==
  pc = "idle" => \A x \in alloc :
    /\ mark[x] = 0
    /\ IF x \in gc_obj_list THEN ref_count[x] > 0
       ELSE ref_count[x] = 0 /\ weakref_count[x] > 0
=============================================================================
