------------------------------ MODULE AtomicsWait ------------------------------
(***************************************************************************)
(* Atomics.wait and Atomics.notify of quickjs/src/quickjs.c: one mutex,    *)
(* one list of waiters for all addresses, and in each waiter, which lives  *)
(* on the stack of its thread, a condition variable of its own.            *)
(*                                                                         *)
(* The JavaScript is the environment.  A thread that changes a location    *)
(* notifies it afterwards, all waiters, in a second call; some threads     *)
(* also notify without a change, and some of the waiters.                  *)
(*                                                                         *)
(* The list is modelled by its order: ahead[b] are the waiters listed      *)
(* before b.  Calls that throw (not a shared integer array, an index out   *)
(* of range, a thread that must not block) and a notify with count 0       *)
(* change nothing and are left out.  The mutex is modelled explicitly in   *)
(* wait, which other threads can observe half-way because stores do not    *)
(* take it, and is held within one action in notify.                       *)
(***************************************************************************)
EXTENDS Naturals, FiniteSets

CONSTANTS Agent,      \* the threads of the engine, each with a runtime
          CanBlock,   \* those whose can_block is set
          Loc,        \* addresses within shared buffers
          Value,      \* what they may hold
          Zero,       \* what they hold at first
          NoAgent,    \* the owner of a free mutex
          INT32_MAX,  \* the count that stands for all
          Spurious,   \* those whose condition waits may wake up spuriously
          MaxCalls    \* bound: calls per thread

ASSUME AgentAssumption == CanBlock \subseteq Agent /\ NoAgent \notin Agent
ASSUME ValueAssumption == Zero \in Value /\ Loc # {}
ASSUME CountAssumption ==
  IsFiniteSet(Agent) /\ INT32_MAX \in Nat /\ Cardinality(Agent) <= INT32_MAX
ASSUME SpuriousAssumption == Spurious \subseteq Agent
ASSUME CallsAssumption == MaxCalls \in Nat

VARIABLES
  mem,        \* the shared buffers
  mutex,      \* js_atomics_mutex: its owner
  pc,         \* where each thread is; "js" outside of wait and notify
  ptr,        \* the address a thread waits at, or has just changed
  expect,     \* the value it expects there
  timed,      \* its timeout is not INT64_MAX
  linked,     \* waiter->linked
  ahead,      \* js_atomics_waiter_list
  ret,        \* of pthread_cond_wait or _timedwait
  calls       \* calls made

callVars == <<ptr, expect, timed>>
listVars == <<linked, ahead>>
vars == <<mem, mutex, pc, callVars, listVars, ret, calls>>

\* Variants named ...Bug are faults the properties have to notice; no action
\* uses them.

Pc == {"js", "compare", "equal", "asleep", "awake", "changed"}

TypeOK ==
  /\ mem \in [Loc -> Value]
  /\ mutex \in Agent \cup {NoAgent}
  /\ pc \in [Agent -> Pc]
  /\ ptr \in [Agent -> Loc]
  /\ expect \in [Agent -> Value]
  /\ timed \in [Agent -> BOOLEAN]
  /\ linked \in [Agent -> BOOLEAN]
  /\ ahead \in [Agent -> SUBSET Agent]
  /\ ret \in [Agent -> {"0", "ETIMEDOUT"}]
  /\ calls \in [Agent -> 0..MaxCalls]

\* The locals of a call end with it
Nowhere == CHOOSE l \in Loc : TRUE
ForgetCall(a) ==
  /\ ptr' = [ptr EXCEPT ![a] = Nowhere]
  /\ expect' = [expect EXCEPT ![a] = Zero]
  /\ timed' = [timed EXCEPT ![a] = FALSE]
  /\ ret' = [ret EXCEPT ![a] = "0"]

Init ==
  /\ mem = [l \in Loc |-> Zero]
  /\ mutex = NoAgent
  /\ pc = [a \in Agent |-> "js"]
  /\ ptr = [a \in Agent |-> Nowhere]
  /\ expect = [a \in Agent |-> Zero]
  /\ timed = [a \in Agent |-> FALSE]
  /\ linked = [a \in Agent |-> FALSE]
  /\ ahead = [a \in Agent |-> {}]
  /\ ret = [a \in Agent |-> "0"]
  /\ calls = [a \in Agent |-> 0]

MutexFreeBug == TRUE
MutexFree == mutex = NoAgent

Calls(a) == calls[a] < MaxCalls /\ calls' = [calls EXCEPT ![a] = @ + 1]
Goto(a, to) == pc' = [pc EXCEPT ![a] = to]

----------------------------------------------------------------------------
(* The list *)

Listed == {b \in Agent : linked[b]}

\* list_add_tail (fault: list_add)
AddTailBug(a) ==
  /\ linked' = [linked EXCEPT ![a] = TRUE]
  /\ ahead' = [b \in Agent |-> IF linked[b] THEN ahead[b] \cup {a} ELSE {}]
AddTail(a) ==
  /\ linked' = [linked EXCEPT ![a] = TRUE]
  /\ ahead' = [ahead EXCEPT ![a] = Listed]

\* list_del of each of S, as notify does it
DeleteBug(S) ==   \* fault: linked stays set
  /\ ahead' = [b \in Agent |-> IF b \in S THEN {} ELSE ahead[b] \ S]
  /\ UNCHANGED linked
Delete(S) ==
  /\ ahead' = [b \in Agent |-> IF b \in S THEN {} ELSE ahead[b] \ S]
  /\ linked' = [b \in Agent |-> linked[b] /\ b \notin S]

\* "if (waiter->linked) list_del" at the end of wait (fault: none)
UnlinkBug(a) == UNCHANGED listVars
Unlink(a) == IF linked[a] THEN Delete({a}) ELSE UNCHANGED listVars

\* The waiters notify takes: the first so many of those at l
WaitersAt(l) == {b \in Listed : ptr[b] = l}
Taken(l, count) ==
  {b \in WaitersAt(l) : Cardinality(ahead[b] \cap WaitersAt(l)) < count}

----------------------------------------------------------------------------
(* wait *)

\* js_atomics_wait up to pthread_mutex_lock
Lock(a, l, v, t) ==
  /\ pc[a] = "js" /\ a \in CanBlock /\ Calls(a)
  /\ MutexFree
  /\ mutex' = a
  /\ ptr' = [ptr EXCEPT ![a] = l]
  /\ expect' = [expect EXCEPT ![a] = v]
  /\ timed' = [timed EXCEPT ![a] = t]
  /\ Goto(a, "compare")
  /\ UNCHANGED <<mem, listVars, ret>>

\* The value is another one: "not-equal"
NotEqual(a) ==
  /\ pc[a] = "compare"
  /\ mem[ptr[a]] # expect[a]
  /\ mutex' = NoAgent
  /\ Goto(a, "js")
  /\ ForgetCall(a)
  /\ UNCHANGED <<mem, listVars, calls>>

Equal(a) ==
  /\ pc[a] = "compare"
  /\ mem[ptr[a]] = expect[a]
  /\ Goto(a, "equal")
  /\ UNCHANGED <<mem, mutex, callVars, listVars, ret, calls>>

\* The waiter is listed, and the condition wait releases the mutex
Sleep(a) ==
  /\ pc[a] = "equal"
  /\ AddTail(a)
  /\ mutex' = NoAgent
  /\ Goto(a, "asleep")
  /\ UNCHANGED <<mem, callVars, ret, calls>>

TimesOut(a) ==
  /\ pc[a] = "asleep" /\ timed[a]
  /\ ret' = [ret EXCEPT ![a] = "ETIMEDOUT"]
  /\ Goto(a, "awake")
  /\ UNCHANGED <<mem, mutex, callVars, listVars, calls>>

\* What the condition wait returns when it does not time out.  Without a
\* timeout the code sets it itself (fault: it does not).
WokenRetBug(b) == IF timed[b] THEN "0" ELSE "uninitialized"
WokenRet(b) == "0"

SpuriousWakeup(a) ==
  /\ a \in Spurious
  /\ pc[a] = "asleep"
  /\ ret' = [ret EXCEPT ![a] = WokenRet(a)]
  /\ Goto(a, "awake")
  /\ UNCHANGED <<mem, mutex, callVars, listVars, calls>>

\* The condition wait has the mutex again: the waiter is unlinked if notify
\* has not done it, the mutex released, the result made from ret.
Return(a) ==
  /\ pc[a] = "awake"
  /\ MutexFree
  /\ Unlink(a)
  /\ Goto(a, "js")
  /\ ForgetCall(a)
  /\ UNCHANGED <<mem, mutex, calls>>

Told(a) == IF ret[a] = "ETIMEDOUT" THEN "timed-out" ELSE "ok"

----------------------------------------------------------------------------
(* notify, and the stores before it *)

\* Atomics.store, add, exchange...: without the mutex
Change(a, l, v) ==
  /\ pc[a] = "js" /\ Calls(a)
  /\ mem' = [mem EXCEPT ![l] = v]
  /\ ptr' = [ptr EXCEPT ![a] = l]
  /\ Goto(a, "changed")
  /\ UNCHANGED <<mutex, expect, timed, listVars, ret>>

\* The condition of every waiter taken is signalled.  Only its own thread
\* waits for it, and no longer if its timeout has passed.
SignalledBug(S) == {b \in S : pc[b] = "asleep" /\ ahead[b] \cap S = {}}   \* fault: one
Signalled(S) == {b \in S : pc[b] = "asleep"}

NotifyFirst(a, l, count, from) ==
  /\ pc[a] = from
  /\ MutexFree
  /\ LET S == Taken(l, count) IN
       /\ Delete(S)
       /\ pc' = [b \in Agent |-> IF b = a THEN "js"
                                 ELSE IF b \in Signalled(S) THEN "awake" ELSE pc[b]]
       /\ ret' = [b \in Agent |-> IF b \in Signalled(S) THEN WokenRet(b) ELSE ret[b]]
  /\ ptr' = [ptr EXCEPT ![a] = Nowhere]
  /\ UNCHANGED <<mem, mutex, expect, timed>>

\* The call that follows a change
NotifyChange(a) == NotifyFirst(a, ptr[a], INT32_MAX, "changed") /\ UNCHANGED calls

Notify(a, l, count) == NotifyFirst(a, l, count, "js") /\ Calls(a)

----------------------------------------------------------------------------
\* Every thread has ended or sleeps without a timeout
Terminated ==
  /\ \A a \in Agent : pc[a] = "js" \/ (pc[a] = "asleep" /\ ~timed[a])
  /\ UNCHANGED vars

Wait(a) == NotEqual(a) \/ Equal(a) \/ Sleep(a) \/ Return(a)

Next ==
  \/ \E a \in Agent :
       \/ \E l \in Loc, v \in Value, t \in BOOLEAN : Lock(a, l, v, t)
       \/ NotEqual(a) \/ Equal(a) \/ Sleep(a) \/ TimesOut(a) \/ SpuriousWakeup(a) \/ Return(a)
       \/ \E l \in Loc, v \in Value : Change(a, l, v)
       \/ NotifyChange(a)
       \/ \E l \in Loc, count \in {1, INT32_MAX} : Notify(a, l, count)
  \/ Terminated

Spec == Init /\ [][Next]_vars

\* A thread inside wait or between its two calls goes on when the mutex lets
\* it.  Calls are not forced, and neither are timeouts.
FairSpec == Spec /\ \A a \in Agent : WF_vars(Wait(a)) /\ WF_vars(NotifyChange(a))

----------------------------------------------------------------------------
(* Properties *)

\* The list is a list of live waiters: whoever is on it is inside wait (its
\* waiter is on the stack of a function that has not returned), whoever still
\* sleeps is on it, and it is one order without a repetition.
ListSound ==
  /\ \A a \in Agent : pc[a] = "asleep" => linked[a]
  /\ \A a \in Agent : linked[a] => pc[a] \in {"asleep", "awake"}
  /\ \A a \in Agent : ahead[a] \subseteq Listed /\ a \notin ahead[a]
  /\ \A a, b \in Listed : a # b => (a \in ahead[b] <=> b \notin ahead[a])

\* No wakeup is lost between the comparison and the sleep: whoever sleeps for
\* a value that is no longer there is about to be notified.
NoLostWakeup ==
  \A a \in Agent : pc[a] = "asleep" /\ mem[ptr[a]] # expect[a] =>
    \E b \in Agent : pc[b] = "changed" /\ ptr[b] = ptr[a]

\* A wait that returns "ok" was taken off the list, and so counted, by a notify,
\* unless its thread woke up spuriously: a counted wait may return "timed-out",
\* an uncounted one never returns "ok".
OkWasCounted ==
  [][\A a \in Agent \ Spurious : Return(a) /\ Told(a) = "ok" => ~linked[a]]_vars

\* Whoever sleeps for a value that is no longer there wakes up.
SleepersWake ==
  \A a \in Agent : pc[a] = "asleep" /\ mem[ptr[a]] # expect[a] ~> pc[a] # "asleep"

\* The waiters of one location in the order of the list: the i-th has i - 1 of
\* them ahead of it.
Place(b, S) == Cardinality(ahead[b] \cap S) + 1
Queue(l)    == [i \in 1..Cardinality(WaitersAt(l)) |->
                  CHOOSE b \in WaitersAt(l) : Place(b, WaitersAt(l)) = i]

Due      == {a \in Agent : pc[a] = "awake" /\ ~linked[a]}

Queues == INSTANCE WaiterQueues WITH queue <- [l \in Loc |-> Queue(l)], due <- Due

\* wait and notify implement a queue per location: first in, first out, as
\* many as the caller asked for, and nobody twice (the list of all addresses
\* that notify searches, quickjs.c 55417-55436).
QueueSpec == Queues!QSpec
=============================================================================
