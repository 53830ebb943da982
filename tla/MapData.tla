------------------------------- MODULE MapData -------------------------------
(***************************************************************************)
(* What a Map promises to those who walk over it while it changes: the     *)
(* entries are a list that only grows.  Deleting an entry leaves a hole,   *)
(* a key added again comes last, and a walk is a position that moves on to *)
(* the next entry that is no hole.                                         *)
(***************************************************************************)
EXTENDS Integers, Sequences, Functions

CONSTANTS Key, Iter, Hole

VARIABLES
  entries,   \* the keys in the order of their addition, holes included
  at,        \* per iterator: the entry it returned last, 0 before the first, or Done
  calls      \* the entries of the forEach calls under way, innermost last

Done == -1   \* an iterator that has come to the end, or that does not exist

DInit ==
  /\ entries = <<>>
  /\ at = [i \in Iter |-> Done]
  /\ calls = <<>>

\* Where a walk that is at entry i goes: the next entry that is no hole, or Done
After(i) ==
  LET there == {j \in i + 1..Len(entries) : entries[j] # Hole}
  IN  IF there = {} THEN Done ELSE CHOOSE j \in there : \A l \in there : j <= l

Add(k)    == k \notin Range(entries) /\ entries' = Append(entries, k)
Remove(K) == entries' = [j \in DOMAIN entries |-> IF entries[j] \in K THEN Hole ELSE entries[j]]

Modify ==
  /\ \/ \E k \in Key : Add(k) \/ Remove({k})
     \/ Remove(Key)
  /\ UNCHANGED <<at, calls>>

\* An iterator is created, moves on, or is let go
Walk(i) ==
  /\ \/ at' = [at EXCEPT ![i] = 0]
     \/ at[i] # Done /\ at' = [at EXCEPT ![i] = After(at[i])]
  /\ UNCHANGED <<entries, calls>>

\* forEach calls its function for the first entry, for the next, or returns
Visit(rest, i) ==
  IF After(i) = Done THEN calls' = rest ELSE calls' = Append(rest, After(i))

ForEach ==
  /\ \/ Visit(calls, 0)
     \/ /\ calls # <<>>
        /\ LET rest == SubSeq(calls, 1, Len(calls) - 1) IN
             calls' = rest \/ Visit(rest, calls[Len(calls)])
  /\ UNCHANGED <<entries, at>>

\* Iterators that nobody holds any more are gone, also when an entry that held
\* them is removed
LetGo(gone) == at' = [i \in Iter |-> IF i \in gone THEN Done ELSE at[i]]

DNext ==
  \/ Modify
  \/ \E i \in Iter : Walk(i)
  \/ ForEach
  \/ \E gone \in SUBSET Iter :
        /\ LetGo(gone)
        /\ entries' = entries \/ \E k \in Key : Remove({k})
        /\ UNCHANGED calls

MSpec == DInit /\ [][DNext]_<<entries, at, calls>>
=============================================================================
