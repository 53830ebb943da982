----------------------------- MODULE WaiterQueues ------------------------------
(***************************************************************************)
(* What Atomics.wait and Atomics.notify promise: every location has a      *)
(* queue of its own, which threads join at the end and notify takes from   *)
(* the front.  A thread taken returns before it can join again; one that   *)
(* is not taken may give up.  That all queues are one list, and how the    *)
(* threads sleep, is left out: an implementation that hashes on the        *)
(* address, as a comment in quickjs.c wishes, promises the same.           *)
(***************************************************************************)
EXTENDS Naturals, Sequences, SequencesExt

CONSTANTS Agent, Loc

VARIABLES queue,   \* the threads waiting at each location
          due      \* those taken that have not returned yet

qvars == <<queue, due>>

QInit == queue = [l \in Loc |-> <<>>] /\ due = {}

Waiting == UNION {ToSet(queue[l]) : l \in Loc}

Join(a, l) ==
  /\ a \notin Waiting \cup due
  /\ queue' = [queue EXCEPT ![l] = Append(@, a)]
  /\ UNCHANGED due

\* Takes one, or all
Take(l) ==
  \E n \in {1, Len(queue[l])} \cap 1..Len(queue[l]) :
    /\ due' = due \cup ToSet(SubSeq(queue[l], 1, n))
    /\ queue' = [queue EXCEPT ![l] = SubSeq(@, n + 1, Len(@))]

\* The i-th thread gives up, wherever it is
GiveUp(l, i) ==
  /\ i \in 1..Len(queue[l])
  /\ queue' = [queue EXCEPT ![l] = RemoveAt(@, i)]
  /\ UNCHANGED due

Resume(a) == a \in due /\ due' = due \ {a} /\ UNCHANGED queue

QNext == \/ \E a \in Agent, l \in Loc : Join(a, l)
         \/ \E l \in Loc : Take(l) \/ \E i \in 1..Len(queue[l]) : GiveUp(l, i)
         \/ \E a \in Agent : Resume(a)

QSpec == QInit /\ [][QNext]_qvars
=============================================================================
