----------------------------- MODULE MapRecords -----------------------------
(***************************************************************************)
(* Map and Set of quickjs.c: a list of records in the order of insertion,  *)
(* a hash table for the lookup, and iterators and forEach calls that walk  *)
(* over the list while the script changes it.  A walk locks the record it  *)
(* is at; a deleted record that is locked stays in the list, empty, until  *)
(* the last lock is gone.                                                  *)
(*                                                                         *)
(* JavaScript is the environment.  It runs between the calls and inside    *)
(* the function given to forEach.  Only keys matter, and values that are   *)
(* iterators of this very map: the map may hold the last reference to one, *)
(* whose finalizer then runs inside the deletion of a record.              *)
(***************************************************************************)
EXTENDS Integers, Sequences, SequencesExt

CONSTANTS Rec,      \* addresses of records; a freed one may be used again
          Key, Iter,
          None,
          MaxAdds,  \* bound: records made
          MaxCalls  \* bound: forEach calls inside each other

ASSUME NoneAssumption == None \notin Rec \cup Key \cup Iter
ASSUME BoundsAssumption == MaxAdds \in Nat /\ MaxCalls \in Nat

VARIABLES
  records,      \* the list; a record is allocated iff it is here
  key,          \* None iff empty (key and value are then JS_UNDEFINED)
  value,        \* an iterator, or None for any other value
  ref_count,
  table,        \* the records in the hash table
  record_count,
  live,         \* iterators that exist
  cur_record,   \* None before the first record, and at the end
  ended,        \* iterators that have come to the end: obj is JS_UNDEFINED
  script,       \* iterators the script has a reference to
  calls,        \* the records of the forEach calls under way, innermost last
  clearing,     \* js_map_clear: the record its loop is at, or None
  crashed,      \* history: a freed record has been used, or an assertion failed
  serial, added \* history: numbers the records in the order of their making

listVars == <<records, key, value, ref_count, record_count>>
iterVars == <<live, cur_record, ended>>
histVars == <<serial, added>>
vars == <<listVars, table, iterVars, script, calls, clearing, crashed, histVars>>

Locks(r) ==
  Cardinality({i \in live : cur_record[i] = r}) + Cardinality({j \in DOMAIN calls : calls[j] = r})

TypeOK ==
  /\ records \in Seq(Rec) /\ IsInjective(records)
  /\ key \in [Rec -> Key \cup {None}]
  /\ value \in [Rec -> Iter \cup {None}]
  /\ ref_count \in [Rec -> Nat]
  /\ table \subseteq Rec
  /\ record_count \in Nat
  /\ live \subseteq Iter /\ ended \subseteq live /\ script \subseteq live
  /\ cur_record \in [Iter -> Rec \cup {None}]
  /\ calls \in Seq(Rec)
  /\ clearing \in Rec \cup {None}
  /\ crashed \in BOOLEAN
  /\ serial \in [Rec -> Nat]
  /\ added \in 0..MaxAdds

Init ==
  /\ records = <<>>
  /\ key = [r \in Rec |-> None]
  /\ value = [r \in Rec |-> None]
  /\ ref_count = [r \in Rec |-> 0]
  /\ table = {}
  /\ record_count = 0
  /\ live = {}
  /\ cur_record = [i \in Iter |-> None]
  /\ ended = {}
  /\ script = {}
  /\ calls = <<>>
  /\ clearing = None
  /\ crashed = FALSE
  /\ serial = [r \in Rec |-> 0]
  /\ added = 0

----------------------------------------------------------------------------
Allocated == Range(records)
Script    == clearing = None /\ ~crashed

\* map_find_record
Found(k) == {r \in table : key[r] = k}

\* The record after r in the list, and the first of the list; None at the end
AfterRec(r) ==
  LET n == CHOOSE j \in DOMAIN records : records[j] = r
  IN  IF n = Len(records) THEN None ELSE records[n + 1]
First == IF records = <<>> THEN None ELSE Head(records)

\* The first record that is not empty, from the n-th of the list on.  Fault:
\* does not look at empty
NotEmptyBug(r) == TRUE
NotEmpty(r)    == key[r] # None
From(n) ==
  LET there == {j \in n..Len(records) : NotEmpty(records[j])}
  IN  IF there = {} THEN None ELSE records[CHOOSE j \in there : \A l \in there : j <= l]
Next1(r) == From(1 + CHOOSE j \in DOMAIN records : records[j] = r)

\* The iterator v dies when one reference to it is gone, the one of record r or
\* of the script (r = None)
Dies(v, r) ==
  /\ v # None
  /\ r # None => v \notin script
  /\ \A q \in Allocated \ {r} : value[q] # v

\* js_map_iterator_finalizer unlocks what the iterator v was at.  Fault: does not
UnlockedBug(v) == None
Unlocked(v)    == cur_record[v]
Finalize(I) ==
  /\ live' = live \ I
  /\ ended' = ended \ I
  /\ cur_record' = [i \in Iter |-> IF i \in I THEN None ELSE cur_record[i]]

\* list_del, if the record is among those freed
Unlinked(s, r, freed) ==
  IF r \in freed THEN RemoveAt(s, CHOOSE j \in DOMAIN s : s[j] = r) ELSE s

\* The records r and q are counted once less, the record locked once more (each
\* may be None); those that nobody counts any more leave the list and are freed
Count(r, q, locked, keys, values) ==
  LET count == [x \in Rec |-> ref_count[x] + (IF x = locked THEN 1 ELSE 0)
                                - (IF x = r THEN 1 ELSE 0) - (IF x = q THEN 1 ELSE 0)]
      freed == {x \in {r, q} \cap Allocated : count[x] = 0}
  IN  /\ ref_count' = count
      /\ records' = Unlinked(Unlinked(records, r, freed), q, freed \ {r})
      /\ key' = [x \in Rec |-> IF x \in freed THEN None ELSE keys[x]]
      /\ value' = [x \in Rec |-> IF x \in freed THEN None ELSE values[x]]
      /\ serial' = [x \in Rec |-> IF x \in freed THEN 0 ELSE serial[x]]
      \* assert(mr->empty)
      /\ crashed' = (crashed \/ \E x \in freed : keys[x] # None)

\* map_delete_record: value freed, which may finalize an iterator, then the
\* record is freed, or left empty for those who have locked it
DeleteRecord(r) ==
  LET v == value[r]
      I == IF Dies(v, r) THEN {v} ELSE {}
      unlocked == IF I = {} THEN None ELSE Unlocked(v)
  IN  /\ Count(r, unlocked, None, [key EXCEPT ![r] = None], [value EXCEPT ![r] = None])
      /\ Finalize(I)
      /\ record_count' = record_count - 1

----------------------------------------------------------------------------
\* js_map_set of a key that is there: the old value is freed
SetOld(k, v) ==
  /\ Script
  /\ v \in script \cup {None}
  /\ \E r \in Found(k) :
        LET I == IF value[r] # v /\ Dies(value[r], r) THEN {value[r]} ELSE {}
            unlocked == IF I = {} THEN None ELSE Unlocked(value[r])
        IN  /\ Count(unlocked, None, None, key, [value EXCEPT ![r] = v])
            /\ Finalize(I)
  /\ UNCHANGED <<table, record_count, script, calls, clearing, added>>

\* js_map_set of a new key: map_add_record, whose resize keeps what the table holds
SetNew(k, v) ==
  /\ Script
  /\ v \in script \cup {None}
  /\ Found(k) = {} /\ added < MaxAdds
  /\ \E r \in Rec \ Allocated :
        /\ records' = Append(records, r)
        /\ key' = [key EXCEPT ![r] = k]
        /\ value' = [value EXCEPT ![r] = v]
        /\ ref_count' = [ref_count EXCEPT ![r] = 1]
        /\ table' = table \cup {r}
        /\ serial' = [serial EXCEPT ![r] = added + 1]
  /\ record_count' = record_count + 1
  /\ added' = added + 1
  /\ UNCHANGED <<iterVars, script, calls, clearing, crashed>>

\* js_map_delete takes the record out of its chain of the hash table first.
\* Fault: does not
UnchainedBug(r) == table
Unchained(r)    == table \ {r}

\* js_map_delete of a key that is there
Delete(k) ==
  /\ Script
  /\ \E r \in Found(k) :
        /\ table' = Unchained(r)
        /\ DeleteRecord(r)
  /\ UNCHANGED <<script, calls, clearing, added>>

\* js_map_clear: empties the table, then walks over the list
Clear ==
  /\ Script
  /\ table' = {}
  /\ clearing' = First
  /\ UNCHANGED <<listVars, iterVars, script, calls, crashed, histVars>>

\* map_delete_record does nothing to a record that is empty
Empty(r) == key[r] = None

\* One round of its list_for_each_safe: the next record is looked up before this
\* one is deleted
ClearRecord ==
  /\ clearing # None /\ ~crashed
  /\ IF clearing \notin Allocated
       THEN crashed' = TRUE /\ UNCHANGED <<listVars, iterVars, clearing, serial>>
       ELSE /\ clearing' = AfterRec(clearing)
            /\ IF Empty(clearing)
                 THEN UNCHANGED <<listVars, iterVars, crashed, serial>>
                 ELSE DeleteRecord(clearing)
  /\ UNCHANGED <<table, script, calls, added>>

----------------------------------------------------------------------------
\* js_create_map_iterator
Create(i) ==
  /\ Script /\ i \notin live
  /\ live' = live \cup {i}
  /\ script' = script \cup {i}
  /\ UNCHANGED <<listVars, table, cur_record, ended, calls, clearing, crashed, histVars>>

\* The script gets an iterator out of the map (js_map_get)
Load(i) ==
  /\ Script /\ \E r \in table : value[r] = i
  /\ script' = script \cup {i}
  /\ UNCHANGED <<listVars, table, iterVars, calls, clearing, crashed, histVars>>

\* The script lets go of an iterator
Drop(i) ==
  /\ Script /\ i \in script
  /\ script' = script \ {i}
  /\ LET I == IF Dies(i, None) THEN {i} ELSE {}
         unlocked == IF I = {} THEN None ELSE Unlocked(i)
     IN  Finalize(I) /\ Count(unlocked, None, None, key, value)
  /\ UNCHANGED <<table, record_count, calls, clearing, added>>

\* js_map_iterator_next: unlock the record it is at, which may free it, and lock
\* the next one that is not empty
IteratorNext(i) ==
  /\ Script /\ i \in script \ ended
  /\ LET old == cur_record[i]
         new == IF old = None THEN From(1) ELSE Next1(old)
     IN  /\ Count(old, None, new, key, value)
         /\ cur_record' = [cur_record EXCEPT ![i] = new]
         /\ ended' = IF new = None THEN ended \cup {i} ELSE ended
  /\ UNCHANGED <<record_count, table, live, script, calls, clearing, added>>

\* js_map_forEach up to the first call of its function
ForEach ==
  /\ Script /\ Len(calls) < MaxCalls /\ From(1) # None
  /\ calls' = Append(calls, From(1))
  /\ Count(None, None, From(1), key, value)
  /\ UNCHANGED <<record_count, table, iterVars, script, clearing, added>>

\* The function returns: on to the next record; or it throws, and forEach is over
ForEachNext ==
  /\ Script /\ calls # <<>>
  /\ \E new \in {Next1(Last(calls)), None} :
        /\ calls' = IF new = None THEN Front(calls) ELSE Append(Front(calls), new)
        /\ Count(Last(calls), None, new, key, value)
  /\ UNCHANGED <<record_count, table, iterVars, script, clearing, added>>

Next ==
  \/ \E k \in Key : \E v \in Iter \cup {None} : SetOld(k, v) \/ SetNew(k, v)
  \/ \E k \in Key : Delete(k)
  \/ Clear \/ ClearRecord
  \/ \E i \in Iter : Create(i) \/ Load(i) \/ Drop(i) \/ IteratorNext(i)
  \/ ForEach \/ ForEachNext

Spec == Init /\ [][Next]_vars

----------------------------------------------------------------------------
(* Properties *)

\* map_delete_record and map_decref_record: a record is counted once while it
\* has a key and once per walk that is at it, and is in the list as long as it
\* is counted, so an empty one does not stay for longer than the walks at it.
CountsExact ==
  \A r \in Rec : ref_count[r] = (IF key[r] # None THEN 1 ELSE 0) + Locks(r)

\* No walk is at a record that has been freed, whatever is deleted, cleared or
\* added to the map and whichever iterators die meanwhile.
WalksAreAtRecords ==
  /\ \A i \in live : cur_record[i] \in Allocated \cup {None}
  /\ Range(calls) \subseteq Allocated

\* Records live as long as somebody counts on them
RecordsInv == TypeOK /\ CountsExact /\ WalksAreAtRecords

\* The hash table, the list and the count agree outside js_map_clear: a lookup
\* finds what a walk will come by, and size is their number.
TableAgrees ==
  clearing = None /\ ~crashed =>
     /\ table = {r \in Allocated : key[r] # None}
     /\ record_count = Cardinality(table)
     /\ \A r, q \in table : key[r] = key[q] => r = q

\* "the record can be safely removed", says the comment of map_decref_record:
\* when the last lock on an empty record goes, nobody else needs the record.
SafelyRemoved == ~crashed

\* What a reader of MapData sees: entries by their serial numbers
EntryKey(n) ==
  IF \E r \in table : serial[r] = n THEN key[CHOOSE r \in table : serial[r] = n] ELSE None
Entries == [n \in 1..added |-> EntryKey(n)]
At == [i \in Iter |-> IF i \notin live \/ i \in ended THEN -1
                      ELSE IF cur_record[i] = None THEN 0 ELSE serial[cur_record[i]]]
Visited == [j \in DOMAIN calls |-> serial[calls[j]]]

\* The list with its empty records is as good as one from which nothing is ever
\* removed: walks go on where they were, in the order of insertion, skip what
\* has been deleted, see what has been added, and see no key twice unless it has
\* been added again.
Data == INSTANCE MapData WITH
  Hole <- None, entries <- Entries, at <- At, calls <- Visited

DataSpec == Data!MSpec
=============================================================================
