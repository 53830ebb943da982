--------------------------- MODULE AtomicsWaitProofs ---------------------------
(***************************************************************************)
(* Atomics.wait and Atomics.notify for any number of threads, locations,   *)
(* values and calls: the list holds live waiters only, no wakeup is lost,  *)
(* "ok" is told to those that were counted, and the one list is a queue    *)
(* per location.                                                           *)
(***************************************************************************)
EXTENDS AtomicsWait, FiniteSetTheorems, SequenceTheorems, TLAPS

\* The mutex is held from the comparison to the sleep
MutexInv == \A a \in Agent : pc[a] \in {"compare", "equal"} <=> mutex = a

\* NoLostWakeup needs the thread that has compared and does not sleep yet: a
\* change after the comparison is not notified before the sleep.
WakeupInv ==
  \A a \in Agent : pc[a] \in {"equal", "asleep"} /\ mem[ptr[a]] # expect[a] =>
    \E b \in Agent : pc[b] = "changed" /\ ptr[b] = ptr[a]

OkInv == \A a \in Agent \ Spurious : pc[a] = "awake" /\ ret[a] = "0" => ~linked[a]

IInv == TypeOK /\ MutexInv /\ ListSound /\ WakeupInv /\ OkInv

----------------------------------------------------------------------------
LEMMA NowhereType == Nowhere \in Loc
  BY ValueAssumption DEF Nowhere

\* A notify of all takes all: the list is no longer than there are threads.
LEMMA TakenAll ==
  ASSUME TypeOK, ListSound, NEW l \in Loc
  PROVE  Taken(l, INT32_MAX) = WaitersAt(l)
<1>1. SUFFICES ASSUME NEW b \in WaitersAt(l)
               PROVE  Cardinality(ahead[b] \cap WaitersAt(l)) < INT32_MAX
  BY <1>1 DEF Taken
<1> DEFINE T == ahead[b] \cap WaitersAt(l)
<1>2. b \in Agent
  BY DEF WaitersAt, Listed
<1>3. T \subseteq Agent /\ T # Agent
  BY <1>2 DEF WaitersAt, Listed, ListSound
<1>4. /\ Cardinality(T) <= Cardinality(Agent)
      /\ Cardinality(T) # Cardinality(Agent)
      /\ IsFiniteSet(T)
  BY <1>3, CountAssumption, FS_Subset
<1>5. Cardinality(T) \in Nat /\ Cardinality(Agent) \in Nat
  BY <1>4, CountAssumption, FS_CardinalityType
<1> QED
  BY <1>4, <1>5, CountAssumption

LEMMA TakenListed ==
  ASSUME NEW l, NEW count
  PROVE  Taken(l, count) \subseteq Listed
  BY DEF Taken, WaitersAt

----------------------------------------------------------------------------
LEMMA InitIInv == Init => IInv
<1> SUFFICES ASSUME Init PROVE IInv
  OBVIOUS
<1>1. TypeOK
  BY NowhereType, ValueAssumption, CallsAssumption DEF Init, TypeOK, Pc
<1>2. MutexInv /\ WakeupInv /\ OkInv
  BY AgentAssumption DEF Init, MutexInv, WakeupInv, OkInv
<1>3. ListSound
  BY DEF Init, ListSound, Listed
<1> QED
  BY <1>1, <1>2, <1>3 DEF IInv

LEMMA DeleteType ==
  ASSUME TypeOK, NEW S, Delete(S)
  PROVE  linked' \in [Agent -> BOOLEAN] /\ ahead' \in [Agent -> SUBSET Agent]
<1>1. linked' \in [Agent -> BOOLEAN]
  BY DEF Delete
<1>2. ASSUME NEW b \in Agent PROVE (IF b \in S THEN {} ELSE ahead[b] \ S) \in SUBSET Agent
  BY DEF TypeOK
<1> QED
  BY <1>1, <1>2 DEF Delete

LEMMA UnlinkType ==
  ASSUME TypeOK, NEW a, Unlink(a)
  PROVE  linked' \in [Agent -> BOOLEAN] /\ ahead' \in [Agent -> SUBSET Agent]
<1>1. CASE linked[a]
  BY <1>1, DeleteType DEF Unlink
<1>2. CASE ~linked[a]
  BY <1>2 DEF Unlink, listVars, TypeOK
<1> QED
  BY <1>1, <1>2

LEMMA CallsType ==
  ASSUME TypeOK, NEW a \in Agent, Calls(a)
  PROVE  calls' \in [Agent -> 0..MaxCalls]
<1>1. calls[a] + 1 \in 0..MaxCalls
  BY CallsAssumption DEF TypeOK, Calls
<1> QED
  BY <1>1 DEF TypeOK, Calls

LEMMA ForgetType ==
  ASSUME TypeOK, NEW a \in Agent, ForgetCall(a)
  PROVE  /\ ptr' \in [Agent -> Loc] /\ expect' \in [Agent -> Value]
         /\ timed' \in [Agent -> BOOLEAN] /\ ret' \in [Agent -> {"0", "ETIMEDOUT"}]
  BY NowhereType, ValueAssumption DEF TypeOK, ForgetCall

LEMMA NotifyType ==
  ASSUME TypeOK, NEW a \in Agent, NEW l, NEW count, NEW from,
         NotifyFirst(a, l, count, from), calls' \in [Agent -> 0..MaxCalls]
  PROVE  TypeOK'
<1>1. linked' \in [Agent -> BOOLEAN] /\ ahead' \in [Agent -> SUBSET Agent]
  BY DeleteType DEF NotifyFirst
<1>2. pc' \in [Agent -> Pc] /\ ret' \in [Agent -> {"0", "ETIMEDOUT"}]
  BY DEF NotifyFirst, TypeOK, Pc, WokenRet
<1> QED
  BY <1>1, <1>2, NowhereType DEF NotifyFirst, TypeOK

LEMMA TypeStep == TypeOK /\ [Next]_vars => TypeOK'
<1> SUFFICES ASSUME TypeOK, [Next]_vars PROVE TypeOK'
  OBVIOUS
<1> USE DEF Goto, Pc
<1>1. ASSUME NEW a \in Agent, NEW l \in Loc, NEW v \in Value, NEW t \in BOOLEAN, Lock(a, l, v, t)
      PROVE  TypeOK'
  BY <1>1, CallsType DEF Lock, TypeOK, listVars
<1>2. ASSUME NEW a \in Agent, NotEqual(a) PROVE TypeOK'
  BY <1>2, ForgetType DEF NotEqual, TypeOK, listVars
<1>3. ASSUME NEW a \in Agent, Equal(a) PROVE TypeOK'
  BY <1>3 DEF Equal, TypeOK, listVars, callVars
<1>4. ASSUME NEW a \in Agent, Sleep(a) PROVE TypeOK'
  <2>1. Listed \subseteq Agent
    BY DEF Listed
  <2> QED
    BY <1>4, <2>1 DEF Sleep, AddTail, TypeOK, callVars
<1>5. ASSUME NEW a \in Agent, TimesOut(a) \/ SpuriousWakeup(a) PROVE TypeOK'
  BY <1>5 DEF TimesOut, SpuriousWakeup, WokenRet, TypeOK, listVars, callVars
<1>6. ASSUME NEW a \in Agent, Return(a) PROVE TypeOK'
  BY <1>6, ForgetType, UnlinkType DEF Return, TypeOK
<1>7. ASSUME NEW a \in Agent, NEW l \in Loc, NEW v \in Value, Change(a, l, v) PROVE TypeOK'
  BY <1>7, CallsType DEF Change, TypeOK, listVars
<1>8. ASSUME NEW a \in Agent, NotifyChange(a) PROVE TypeOK'
  <2>1. calls' \in [Agent -> 0..MaxCalls]
    BY <1>8 DEF NotifyChange, TypeOK
  <2> QED
    BY <1>8, <2>1, NotifyType DEF NotifyChange
<1>9. ASSUME NEW a \in Agent, NEW l \in Loc, NEW count, Notify(a, l, count) PROVE TypeOK'
  BY <1>9, CallsType, NotifyType DEF Notify
<1>10. CASE UNCHANGED vars
  BY <1>10 DEF vars, listVars, callVars, TypeOK
<1> QED
  BY <1>1, <1>2, <1>3, <1>4, <1>5, <1>6, <1>7, <1>8, <1>9, <1>10 DEF Next, Terminated

----------------------------------------------------------------------------
LEMMA MutexStep == TypeOK /\ MutexInv /\ [Next]_vars => MutexInv'
<1> SUFFICES ASSUME TypeOK, MutexInv, [Next]_vars PROVE MutexInv'
  OBVIOUS
<1> USE AgentAssumption DEF Goto, TypeOK, MutexInv, MutexFree
<1>1. ASSUME NEW a \in Agent, NEW l \in Loc, NEW v \in Value, NEW t \in BOOLEAN, Lock(a, l, v, t)
      PROVE  MutexInv'
  BY <1>1 DEF Lock
<1>2. ASSUME NEW a \in Agent, NotEqual(a) \/ Equal(a) \/ Sleep(a) PROVE MutexInv'
  BY <1>2 DEF NotEqual, Equal, Sleep
<1>3. ASSUME NEW a \in Agent, TimesOut(a) \/ SpuriousWakeup(a) \/ Return(a) PROVE MutexInv'
  BY <1>3 DEF TimesOut, SpuriousWakeup, Return
<1>4. ASSUME NEW a \in Agent, NEW l \in Loc, NEW v \in Value, Change(a, l, v) PROVE MutexInv'
  BY <1>4 DEF Change
<1>5. ASSUME NEW a \in Agent, NEW l, NEW count, NEW from \in {"js", "changed"},
             NotifyFirst(a, l, count, from)
      PROVE  MutexInv'
  BY <1>5 DEF NotifyFirst, Signalled
<1>6. CASE UNCHANGED vars
  BY <1>6 DEF vars
<1> QED
  BY <1>1, <1>2, <1>3, <1>4, <1>5, <1>6 DEF Next, Terminated, Notify, NotifyChange

----------------------------------------------------------------------------
\* Deleting from the list keeps it one order of the threads that are left.
LEMMA DeleteOrder ==
  ASSUME TypeOK, ListSound, NEW S, Delete(S)
  PROVE  /\ \A a \in Agent : linked'[a] <=> linked[a] /\ a \notin S
         /\ \A a \in Agent : ahead'[a] \subseteq Listed' /\ a \notin ahead'[a]
         /\ \A a, b \in Listed' : a # b => (a \in ahead'[b] <=> b \notin ahead'[a])
<1>1. \A a \in Agent : linked'[a] <=> linked[a] /\ a \notin S
  BY DEF Delete, TypeOK
<1>2. Listed' = Listed \ S
  BY <1>1 DEF Listed
<1>3. \A a \in Agent : ahead'[a] = IF a \in S THEN {} ELSE ahead[a] \ S
  BY DEF Delete
<1>4. \A a \in Agent : ahead'[a] \subseteq Listed' /\ a \notin ahead'[a]
  <2>1. \A a \in Agent : ahead[a] \subseteq Listed /\ a \notin ahead[a]
    BY DEF ListSound
  <2> QED
    BY <1>2, <1>3, <2>1
<1>5. ASSUME NEW a \in Listed', NEW b \in Listed', a # b
      PROVE  a \in ahead'[b] <=> b \notin ahead'[a]
  <2>1. a \in Agent /\ b \in Agent /\ a \in Listed \ S /\ b \in Listed \ S
    BY <1>2 DEF Listed
  <2>2. a \in ahead[b] <=> b \notin ahead[a]
    BY <1>5, <2>1 DEF ListSound
  <2>3. ahead'[a] = ahead[a] \ S /\ ahead'[b] = ahead[b] \ S
    BY <1>3, <2>1
  <2> QED
    BY <2>1, <2>2, <2>3
<1> QED
  BY <1>1, <1>4, <1>5

LEMMA ListStep == TypeOK /\ MutexInv /\ ListSound /\ [Next]_vars => ListSound'
<1> SUFFICES ASSUME TypeOK, MutexInv, ListSound, [Next]_vars PROVE ListSound'
  OBVIOUS
<1> USE DEF Goto
<1>1. ASSUME UNCHANGED listVars,
             \A b \in Agent : pc'[b] = pc[b] \/ (~linked[b] /\ pc'[b] # "asleep")
                                            \/ (pc[b] = "asleep" /\ pc'[b] = "awake")
      PROVE  ListSound'
  BY <1>1 DEF ListSound, Listed, listVars
<1>2. ASSUME NEW a \in Agent,
             pc[a] \in {"js", "compare"}, UNCHANGED listVars,
             \E to \in {"js", "compare", "equal", "changed"} : Goto(a, to)
      PROVE  ListSound'
  BY <1>1, <1>2 DEF TypeOK, ListSound
<1>3. ASSUME NEW a \in Agent, Sleep(a) PROVE ListSound'
  <2>1. ~linked[a] /\ pc[a] = "equal"
    BY <1>3 DEF Sleep, ListSound
  <2>2. Listed' = Listed \cup {a} /\ a \notin Listed
    BY <1>3, <2>1 DEF Sleep, AddTail, Listed, TypeOK
  <2>3. ahead'[a] = Listed /\ \A b \in Agent : b # a => ahead'[b] = ahead[b]
    BY <1>3 DEF Sleep, AddTail, TypeOK
  <2>4. \A b \in Agent : ahead'[b] \subseteq Listed' /\ b \notin ahead'[b]
    BY <2>2, <2>3 DEF ListSound
  <2>5. ASSUME NEW b \in Listed', NEW c \in Listed', b # c
        PROVE  b \in ahead'[c] <=> c \notin ahead'[b]
    <3>1. b \in Agent /\ c \in Agent
      BY DEF Listed
    <3>2. CASE b = a
      BY <2>2, <2>3, <2>5, <3>1, <3>2 DEF ListSound
    <3>3. CASE c = a
      BY <2>2, <2>3, <2>5, <3>1, <3>3 DEF ListSound
    <3>4. CASE b # a /\ c # a
      BY <2>2, <2>3, <2>5, <3>1, <3>4 DEF ListSound
    <3> QED
      BY <3>2, <3>3, <3>4
  <2>6. \A b \in Agent : /\ pc'[b] = "asleep" => linked'[b]
                         /\ linked'[b] => pc'[b] \in {"asleep", "awake"}
    BY <1>3 DEF Sleep, AddTail, TypeOK, ListSound
  <2> QED
    BY <2>4, <2>5, <2>6 DEF ListSound
<1>4. ASSUME NEW a \in Agent, TimesOut(a) \/ SpuriousWakeup(a) PROVE ListSound'
  BY <1>1, <1>4 DEF TimesOut, SpuriousWakeup, TypeOK
<1>5. ASSUME NEW a \in Agent, Return(a) PROVE ListSound'
  <2>1. pc[a] = "awake" /\ pc'[a] = "js" /\ \A b \in Agent : b # a => pc'[b] = pc[b]
    BY <1>5 DEF Return, TypeOK
  <2>2. CASE linked[a]
    <3>1. Delete({a})
      BY <1>5, <2>2 DEF Return, Unlink
    <3>2. \A b \in Agent : /\ pc'[b] = "asleep" => linked'[b]
                           /\ linked'[b] => pc'[b] \in {"asleep", "awake"}
      BY <2>1, <3>1, DeleteOrder DEF ListSound
    <3> QED
      BY <3>1, <3>2, DeleteOrder DEF ListSound
  <2>3. CASE ~linked[a]
    BY <1>1, <1>5, <2>1, <2>3 DEF Return, Unlink
  <2> QED
    BY <2>2, <2>3
<1>6. ASSUME NEW a \in Agent, NEW l, NEW count, NEW from \in {"js", "changed"},
             NotifyFirst(a, l, count, from)
      PROVE  ListSound'
  <2> DEFINE S == Taken(l, count)
  <2>1. Delete(S)
    BY <1>6 DEF NotifyFirst
  <2>2. /\ pc[a] = from /\ pc'[a] = "js"
        /\ \A b \in Agent : b # a => pc'[b] = IF b \in S /\ pc[b] = "asleep" THEN "awake" ELSE pc[b]
    BY <1>6 DEF NotifyFirst, Signalled, TypeOK
  <2>3. ~linked[a]
    BY <2>2 DEF ListSound
  <2>4. ASSUME NEW b \in Agent
        PROVE  /\ pc'[b] = "asleep" => linked'[b]
               /\ linked'[b] => pc'[b] \in {"asleep", "awake"}
    <3> HIDE DEF S
    <3> QED
      BY <2>1, <2>2, <2>3, DeleteOrder DEF ListSound
  <2> QED
    BY <2>1, <2>4, DeleteOrder DEF ListSound
<1>7. ASSUME NEW a \in Agent, NEW l \in Loc, NEW v \in Value, NEW t \in BOOLEAN, Lock(a, l, v, t)
      PROVE  ListSound'
  BY <1>2, <1>7 DEF Lock
<1>8. ASSUME NEW a \in Agent, NotEqual(a) \/ Equal(a) PROVE ListSound'
  BY <1>2, <1>8 DEF NotEqual, Equal
<1>9. ASSUME NEW a \in Agent, NEW l \in Loc, NEW v \in Value, Change(a, l, v) PROVE ListSound'
  BY <1>2, <1>9 DEF Change
<1>10. CASE UNCHANGED vars
  BY <1>1, <1>10 DEF vars
<1> QED
  BY <1>3, <1>4, <1>5, <1>6, <1>7, <1>8, <1>9, <1>10 DEF Next, Terminated, Notify, NotifyChange

----------------------------------------------------------------------------
LEMMA WakeupStep ==
  TypeOK /\ MutexInv /\ ListSound /\ WakeupInv /\ [Next]_vars => WakeupInv'
<1> SUFFICES ASSUME TypeOK, MutexInv, ListSound, WakeupInv, [Next]_vars PROVE WakeupInv'
  OBVIOUS
<1> USE DEF Goto
\* A step that changes no location, brings no new sleeper whose value is gone
\* and takes no changer away.
<1>1. ASSUME mem' = mem,
             \A b \in Agent : pc[b] = "changed" => pc'[b] = pc[b] /\ ptr'[b] = ptr[b],
             \A b \in Agent : pc'[b] \in {"equal", "asleep"} =>
                 /\ ptr'[b] = ptr[b] /\ expect'[b] = expect[b]
                 /\ pc[b] \in {"equal", "asleep"} \/ mem[ptr[b]] = expect[b]
      PROVE  WakeupInv'
  BY <1>1 DEF WakeupInv
<1>2. ASSUME NEW a \in Agent, NEW l \in Loc, NEW v \in Value, NEW t \in BOOLEAN, Lock(a, l, v, t)
      PROVE  WakeupInv'
  BY <1>1, <1>2 DEF Lock, TypeOK
<1>3. ASSUME NEW a \in Agent, NotEqual(a) PROVE WakeupInv'
  BY <1>1, <1>3 DEF NotEqual, ForgetCall, TypeOK
<1>4. ASSUME NEW a \in Agent, Equal(a) \/ Sleep(a) PROVE WakeupInv'
  BY <1>1, <1>4 DEF Equal, Sleep, callVars, TypeOK
<1>5. ASSUME NEW a \in Agent, TimesOut(a) \/ SpuriousWakeup(a) PROVE WakeupInv'
  BY <1>1, <1>5 DEF TimesOut, SpuriousWakeup, callVars, TypeOK
<1>6. ASSUME NEW a \in Agent, Return(a) PROVE WakeupInv'
  BY <1>1, <1>6 DEF Return, ForgetCall, TypeOK
<1>7. ASSUME NEW a \in Agent, NEW l \in Loc, NEW v \in Value, Change(a, l, v) PROVE WakeupInv'
  <2>1. /\ pc[a] = "js" /\ pc'[a] = "changed" /\ ptr'[a] = l
        /\ \A b \in Agent : b # a => pc'[b] = pc[b] /\ ptr'[b] = ptr[b]
        /\ \A m \in Loc : m # l => mem'[m] = mem[m]
        /\ expect' = expect
    BY <1>7 DEF Change, TypeOK
  <2>2. ASSUME NEW b \in Agent, pc'[b] \in {"equal", "asleep"}, mem'[ptr'[b]] # expect'[b]
        PROVE  \E c \in Agent : pc'[c] = "changed" /\ ptr'[c] = ptr'[b]
    <3>1. b # a /\ pc[b] = pc'[b] /\ ptr'[b] = ptr[b] /\ ptr[b] \in Loc
      BY <2>1, <2>2 DEF TypeOK
    <3>2. CASE ptr[b] = l
      BY <2>1, <3>1, <3>2
    <3>3. CASE ptr[b] # l
      <4>1. PICK c \in Agent : pc[c] = "changed" /\ ptr[c] = ptr[b]
        BY <2>1, <2>2, <3>1, <3>3 DEF WakeupInv
      <4> QED
        BY <2>1, <3>1, <4>1
    <3> QED
      BY <3>2, <3>3
  <2> QED
    BY <2>2 DEF WakeupInv
<1>8. ASSUME NEW a \in Agent, NotifyChange(a) PROVE WakeupInv'
  <2> DEFINE l == ptr[a]
             S == Taken(l, INT32_MAX)
  <2>1. S = WaitersAt(l)
    BY TakenAll DEF TypeOK
  <2>2. /\ pc[a] = "changed" /\ pc'[a] = "js" /\ mutex = NoAgent
        /\ \A b \in Agent : b # a => pc'[b] = IF b \in S /\ pc[b] = "asleep" THEN "awake" ELSE pc[b]
        /\ \A b \in Agent : b # a => ptr'[b] = ptr[b]
        /\ mem' = mem /\ expect' = expect
    BY <1>8 DEF NotifyChange, NotifyFirst, Signalled, MutexFree, TypeOK
  <2>3. ASSUME NEW b \in Agent, pc'[b] \in {"equal", "asleep"}, mem'[ptr'[b]] # expect'[b]
        PROVE  \E c \in Agent : pc'[c] = "changed" /\ ptr'[c] = ptr'[b]
    <3>1. b # a /\ pc[b] = pc'[b] /\ ptr'[b] = ptr[b]
      <4> HIDE DEF S, l
      <4> QED BY <2>2, <2>3
    <3>2. pc[b] = "asleep"
      BY <2>2, <2>3, <3>1, AgentAssumption DEF MutexInv
    <3>3. ptr[b] # l
      <4>1. b \notin S
        BY <2>2, <3>1, <3>2
      <4> QED
        BY <2>1, <3>2, <4>1 DEF WaitersAt, Listed, ListSound
    <3>4. PICK c \in Agent : pc[c] = "changed" /\ ptr[c] = ptr[b]
      BY <2>2, <2>3, <3>1 DEF WakeupInv
    <3>5. c # a
      BY <3>3, <3>4
    <3>6. pc'[c] = "changed" /\ ptr'[c] = ptr[c]
      BY <2>2, <3>4, <3>5
    <3> QED
      BY <3>1, <3>4, <3>6
  <2> QED
    BY <2>3 DEF WakeupInv
<1>9. ASSUME NEW a \in Agent, NEW l \in Loc, NEW count, Notify(a, l, count) PROVE WakeupInv'
  BY <1>1, <1>9 DEF Notify, NotifyFirst, Signalled, TypeOK
<1>10. CASE UNCHANGED vars
  BY <1>1, <1>10 DEF vars, callVars
<1> QED
  BY <1>2, <1>3, <1>4, <1>5, <1>6, <1>7, <1>8, <1>9, <1>10 DEF Next, Terminated

----------------------------------------------------------------------------
LEMMA OkStep == TypeOK /\ ListSound /\ OkInv /\ [Next]_vars => OkInv'
<1> SUFFICES ASSUME TypeOK, ListSound, OkInv, [Next]_vars PROVE OkInv'
  OBVIOUS
<1> USE DEF Goto
<1>1. ASSUME \A b \in Agent : linked'[b] => linked[b] \/ pc'[b] # "awake",
             \A b \in Agent \ Spurious : pc'[b] = "awake" /\ ret'[b] = "0" =>
                 \/ pc[b] = "awake" /\ ret[b] = "0"
                 \/ ~linked'[b]
      PROVE  OkInv'
  BY <1>1 DEF OkInv
<1>2. ASSUME NEW a \in Agent, NEW l \in Loc, NEW v \in Value, NEW t \in BOOLEAN, Lock(a, l, v, t)
      PROVE  OkInv'
  BY <1>1, <1>2 DEF Lock, listVars, TypeOK
<1>3. ASSUME NEW a \in Agent, NotEqual(a) \/ Equal(a) PROVE OkInv'
  BY <1>1, <1>3 DEF NotEqual, Equal, ForgetCall, listVars, TypeOK
<1>4. ASSUME NEW a \in Agent, Sleep(a) PROVE OkInv'
  BY <1>1, <1>4 DEF Sleep, AddTail, TypeOK
<1>5. ASSUME NEW a \in Agent, TimesOut(a) \/ SpuriousWakeup(a) PROVE OkInv'
  BY <1>1, <1>5 DEF TimesOut, SpuriousWakeup, listVars, TypeOK
<1>6. ASSUME NEW a \in Agent, Return(a) PROVE OkInv'
  <2>1. \A b \in Agent : linked'[b] => linked[b]
    BY <1>6 DEF Return, Unlink, Delete, listVars, TypeOK
  <2> QED
    BY <1>1, <1>6, <2>1 DEF Return, ForgetCall, TypeOK
<1>7. ASSUME NEW a \in Agent, NEW l \in Loc, NEW v \in Value, Change(a, l, v) PROVE OkInv'
  BY <1>1, <1>7 DEF Change, listVars, TypeOK
<1>8. ASSUME NEW a \in Agent, NEW l, NEW count, NEW from \in {"js", "changed"},
             NotifyFirst(a, l, count, from)
      PROVE  OkInv'
  <2> DEFINE S == Taken(l, count)
  <2>1. \A b \in Agent : linked'[b] <=> linked[b] /\ b \notin S
    BY <1>8, DeleteOrder DEF NotifyFirst
  <2>2. \A b \in Agent : pc'[b] = "awake" /\ ret'[b] = "0" =>
          \/ pc[b] = "awake" /\ ret[b] = "0"
          \/ b \in S
    BY <1>8 DEF NotifyFirst, Signalled, TypeOK
  <2> QED
    BY <1>1, <2>1, <2>2
<1>9. CASE UNCHANGED vars
  BY <1>1, <1>9 DEF vars, listVars
<1> QED
  BY <1>2, <1>3, <1>4, <1>5, <1>6, <1>7, <1>8, <1>9
     DEF Next, Terminated, Notify, NotifyChange

----------------------------------------------------------------------------
LEMMA Inductive == Spec => []IInv
<1>1. IInv /\ [Next]_vars => IInv'
  BY TypeStep, MutexStep, ListStep, WakeupStep, OkStep DEF IInv
<1> QED
  BY InitIInv, <1>1, PTL DEF Spec

\* Every variable keeps its type.
THEOREM TypeCorrect == Spec => []TypeOK
<1>1. IInv => TypeOK
  BY DEF IInv
<1> QED
  BY Inductive, <1>1, PTL

\* js_atomics_waiter_list holds the waiters of threads inside js_atomics_wait,
\* all that sleep, each once: no pointer to a stack frame that is gone.
THEOREM ListCorrect == Spec => []ListSound
<1>1. IInv => ListSound
  BY DEF IInv
<1> QED
  BY Inductive, <1>1, PTL

\* Comparing and listing under one mutex means that a change which is notified
\* to all wakes everybody who slept for the value it replaced.
THEOREM WakeupsKept == Spec => []NoLostWakeup
<1>1. IInv => NoLostWakeup
  BY DEF IInv, WakeupInv, NoLostWakeup
<1> QED
  BY Inductive, <1>1, PTL

\* Nobody is told "ok" whom no notify has counted, spurious wakeups apart.
THEOREM OkDue == Spec => OkWasCounted
<1>1. ASSUME IInv, NEW a \in Agent \ Spurious, Return(a), Told(a) = "ok"
      PROVE  ~linked[a]
  BY <1>1 DEF IInv, TypeOK, OkInv, Return, Told
<1>2. IInv /\ [Next]_vars =>
        [\A a \in Agent \ Spurious : Return(a) /\ Told(a) = "ok" => ~linked[a]]_vars
  BY <1>1
<1> QED
  BY Inductive, <1>2, PTL DEF OkWasCounted, Spec

----------------------------------------------------------------------------
(* The order of the list, and the queues it stands for *)

\* Who is ahead of b is ahead of everybody behind b
OrderInv ==
  \A a, b, c \in Listed : a \in ahead[b] /\ b \in ahead[c] => a \in ahead[c]

\* Queue(l) lists the waiters at l, each once, in the order of the list
Sorted(l) ==
  LET W == WaitersAt(l)
      q == Queue(l)
  IN  /\ W \subseteq Agent /\ IsFiniteSet(W) /\ Cardinality(W) \in Nat
      /\ q \in Seq(Agent) /\ Len(q) = Cardinality(W)
      /\ \A i \in 1..Len(q) : q[i] \in W /\ Place(q[i], W) = i
      /\ \A b \in W : Place(b, W) \in 1..Len(q) /\ q[Place(b, W)] = b
      /\ \A a, b \in W : a \in ahead[b] <=> Place(a, W) < Place(b, W)

AllSorted == \A l \in Loc : Sorted(l)

LEMMA OrderInit == Init => OrderInv
  BY DEF Init, OrderInv, Listed

LEMMA OrderDelete ==
  ASSUME TypeOK, OrderInv, NEW S, Delete(S)
  PROVE  OrderInv'
<1>1. Listed' = Listed \ S /\ \A b \in Listed' : ahead'[b] = ahead[b] \ S
  BY DEF Delete, Listed, TypeOK
<1> QED BY <1>1 DEF OrderInv

LEMMA OrderStep == TypeOK /\ ListSound /\ OrderInv /\ [Next]_vars => OrderInv'
<1> SUFFICES ASSUME TypeOK, ListSound, OrderInv, [Next]_vars PROVE OrderInv'
  OBVIOUS
<1>1. CASE UNCHANGED listVars
  BY <1>1 DEF OrderInv, Listed, listVars
<1>2. ASSUME NEW a \in Agent, Sleep(a) PROVE OrderInv'
  <2>1. Listed' = Listed \cup {a} /\ a \notin Listed
    BY <1>2 DEF Sleep, AddTail, Listed, TypeOK, ListSound
  <2>2. ahead'[a] = Listed /\ \A b \in Listed : ahead'[b] = ahead[b]
    BY <1>2, <2>1 DEF Sleep, AddTail, Listed, TypeOK
  <2>3. \A b \in Listed : ahead[b] \subseteq Listed
    BY DEF ListSound, Listed
  <2> QED BY <2>1, <2>2, <2>3 DEF OrderInv
<1>3. ASSUME NEW a \in Agent, Return(a) PROVE OrderInv'
  BY <1>1, <1>3, OrderDelete DEF Return, Unlink
<1>4. ASSUME NEW a \in Agent, NEW l, NEW count, NEW from, NotifyFirst(a, l, count, from)
      PROVE  OrderInv'
  BY <1>4, OrderDelete DEF NotifyFirst
<1> QED
  BY <1>1, <1>2, <1>3, <1>4 DEF Next, Lock, NotEqual, Equal, TimesOut, SpuriousWakeup, Change,
     NotifyChange, Notify, Terminated, vars

\* Threads that wait at one location are ordered, so that their places are the
\* numbers from 1, each taken once.
LEMMA QueueSorted ==
  ASSUME TypeOK, ListSound, OrderInv, NEW l \in Loc
  PROVE  Sorted(l)
<1> DEFINE W == WaitersAt(l)
           n == Cardinality(W)
           R(b) == ahead[b] \cap W
           f == [b \in W |-> Place(b, W)]
<1>1. W \subseteq Agent /\ W \subseteq Listed /\ IsFiniteSet(W) /\ n \in Nat
  <2>1. W \subseteq Agent /\ W \subseteq Listed
    BY DEF WaitersAt, Listed
  <2> QED BY <2>1, CountAssumption, FS_Subset, FS_CardinalityType
<1> HIDE DEF W, n
<1>2. ASSUME NEW b \in W
      PROVE  /\ IsFiniteSet(R(b)) /\ Cardinality(R(b)) \in Nat /\ Cardinality(R(b)) < n
             /\ Place(b, W) = Cardinality(R(b)) + 1 /\ Place(b, W) \in 1..n
  <2>1. b \notin ahead[b]
    BY <1>1 DEF ListSound
  <2>2. R(b) \in SUBSET W /\ R(b) # W
    BY <2>1
  <2>3. IsFiniteSet(R(b)) /\ Cardinality(R(b)) <= n /\ Cardinality(R(b)) # n
    BY <1>1, <2>2, FS_Subset DEF n
  <2>4. Cardinality(R(b)) \in Nat
    BY <2>3, FS_CardinalityType
  <2>5. Place(b, W) = Cardinality(R(b)) + 1
    BY DEF Place
  <2> QED BY <1>1, <2>3, <2>4, <2>5
<1>3. ASSUME NEW a \in W, NEW b \in W, a \in ahead[b]
      PROVE  Place(a, W) < Place(b, W)
  <2>1. R(a) \in SUBSET R(b)
    <3>1. a \in Listed /\ b \in Listed /\ a \in Agent
      BY <1>1
    <3>2. \A c \in ahead[a] : c \in Listed
      BY <3>1 DEF ListSound
    <3> QED BY <1>3, <3>1, <3>2 DEF OrderInv
  <2>2. a \in R(b) /\ a \notin R(a)
    BY <1>1, <1>3 DEF ListSound
  <2>3. Cardinality(R(a)) <= Cardinality(R(b)) /\ Cardinality(R(a)) # Cardinality(R(b))
    <3>1. IsFiniteSet(R(b))
      BY <1>2
    <3>2. R(a) # R(b)
      BY <2>2
    <3> QED BY <2>1, <3>1, <3>2, FS_Subset
  <2>4. /\ Cardinality(R(a)) \in Nat /\ Place(a, W) = Cardinality(R(a)) + 1
        /\ Cardinality(R(b)) \in Nat /\ Place(b, W) = Cardinality(R(b)) + 1
    BY <1>2
  <2>5. \A x, y \in Nat : x <= y /\ x # y => x + 1 < y + 1
    OBVIOUS
  <2> HIDE DEF R
  <2> QED BY Zenon, <2>3, <2>4, <2>5
<1>4. \A a, b \in W : a \in ahead[b] <=> Place(a, W) < Place(b, W)
  <2> SUFFICES ASSUME NEW a \in W, NEW b \in W, Place(a, W) < Place(b, W), a \notin ahead[b]
               PROVE  FALSE
    BY <1>3
  <2>0. Place(a, W) \in Nat /\ Place(b, W) \in Nat
    <3>1. Place(a, W) \in 1..n /\ Place(b, W) \in 1..n
      BY <1>2
    <3> QED BY <1>1, <3>1
  <2>1. a # b
    BY <2>0
  <2>2. b \in ahead[a]
    BY <1>1, <2>1 DEF ListSound
  <2>3. Place(b, W) < Place(a, W)
    BY <1>3, <2>2
  <2> QED BY <2>0, <2>3
<1>5. ASSUME NEW a \in W, NEW b \in W, Place(a, W) = Place(b, W) PROVE a = b
  <2>1. a \notin ahead[b] /\ b \notin ahead[a]
    <3>1. Place(a, W) \in 1..n /\ Place(b, W) \in 1..n
      BY <1>2
    <3>2. ~(Place(a, W) < Place(b, W)) /\ ~(Place(b, W) < Place(a, W))
      BY <1>1, <1>5, <3>1
    <3> QED BY <1>4, <3>2
  <2> QED BY <1>1, <2>1 DEF ListSound
<1>6. ASSUME NEW i \in 1..n PROVE \E b \in W : Place(b, W) = i
  <2>1. f \in Injection(W, 1..n)
    BY <1>2, <1>5 DEF Injection, IsInjective
  <2>2. IsFiniteSet(1..n) /\ Cardinality(1..n) = n
    BY <1>1, FS_Interval
  <2>3. f \in Surjection(W, 1..n)
    BY <2>1, <2>2, FS_Injection DEF n
  <2> QED BY <2>3 DEF Surjection
<1>7. Queue(l) = [i \in 1..n |-> CHOOSE b \in W : Place(b, W) = i]
  BY DEF Queue, W, n
<1>8. \A i \in 1..n : Queue(l)[i] \in W /\ Place(Queue(l)[i], W) = i
  BY <1>6, <1>7
<1>9. Queue(l) \in Seq(Agent) /\ Len(Queue(l)) = n
  <2>1. Queue(l) \in [1..n -> Agent]
    BY <1>1, <1>7, <1>8
  <2> QED BY <1>1, <2>1
<1>10. \A b \in W : Queue(l)[Place(b, W)] = b
  BY <1>2, <1>5, <1>8
<1> QED BY <1>1, <1>2, <1>4, <1>8, <1>9, <1>10 DEF Sorted, W, n

LEMMA AllSortedNow == TypeOK /\ ListSound /\ OrderInv => AllSorted
  BY QueueSorted DEF AllSorted

\* A sequence in which every waiter has its place is the queue
LEMMA QueueNow ==
  ASSUME NEW l \in Loc, AllSorted', NEW s \in Seq(Agent),
         Len(s) = Cardinality(WaitersAt(l))',
         \A i \in 1..Len(s) : s[i] \in WaitersAt(l)' /\ Place(s[i], WaitersAt(l))' = i
  PROVE  Queue(l)' = s
<1>1. Sorted(l)'
  BY DEF AllSorted
<1>2. /\ Queue(l)' \in Seq(Agent) /\ Len(Queue(l)') = Len(s)
      /\ \A b \in WaitersAt(l)' : Queue(l)'[Place(b, WaitersAt(l))'] = b
  BY <1>1 DEF Sorted
<1>3. \A i \in 1..Len(s) : Queue(l)'[i] = s[i]
  BY <1>2
<1> QED BY <1>2, <1>3, SeqEqual

LEMMA Untouched ==
  ASSUME AllSorted, AllSorted', NEW l \in Loc, WaitersAt(l)' = WaitersAt(l),
         \A b \in WaitersAt(l) : ahead'[b] \cap WaitersAt(l) = ahead[b] \cap WaitersAt(l)
  PROVE  Queue(l)' = Queue(l)
<1>1. PICK s : s = Queue(l)
  OBVIOUS
<1>2. /\ s \in Seq(Agent) /\ Len(s) = Cardinality(WaitersAt(l))
      /\ \A i \in 1..Len(s) : s[i] \in WaitersAt(l) /\ Place(s[i], WaitersAt(l)) = i
  BY <1>1 DEF AllSorted, Sorted
<1>3. Cardinality(WaitersAt(l))' = Len(s)
  BY <1>2
<1>4. ASSUME NEW i \in 1..Len(s)
      PROVE  s[i] \in WaitersAt(l)' /\ Place(s[i], WaitersAt(l))' = i
  <2>1. s[i] \in WaitersAt(l) /\ Place(s[i], WaitersAt(l)) = i
    BY <1>2
  <2>2. ahead'[s[i]] \cap WaitersAt(l)' = ahead[s[i]] \cap WaitersAt(l)
    BY <2>1
  <2>3. Place(s[i], WaitersAt(l))' = Place(s[i], WaitersAt(l))
    BY <2>2 DEF Place
  <2> QED BY <2>1, <2>3
<1> QED BY <1>1, <1>2, <1>3, <1>4, QueueNow

\* The new waiter is behind all others
LEMMA Appended ==
  ASSUME ListSound, AllSorted, AllSorted', NEW l \in Loc, NEW a \in Agent, ~linked[a],
         WaitersAt(l)' = WaitersAt(l) \cup {a}, ahead' = [ahead EXCEPT ![a] = Listed],
         TypeOK
  PROVE  Queue(l)' = Append(Queue(l), a)
<1> DEFINE W == WaitersAt(l)
<1>1. PICK q, n : q = Queue(l) /\ n = Len(q)
  OBVIOUS
<1>2. PICK s : s = Append(q, a)
  OBVIOUS
<1>3. /\ q \in Seq(Agent) /\ n \in Nat /\ n = Cardinality(W) /\ IsFiniteSet(W) /\ W \subseteq Agent
      /\ \A i \in 1..n : q[i] \in W /\ Place(q[i], W) = i
  BY <1>1 DEF AllSorted, Sorted
<1>4. /\ s \in Seq(Agent) /\ Len(s) = n + 1 /\ s[n + 1] = a
      /\ \A i \in 1..n : s[i] = q[i]
  <2>1. n = Len(q)
    BY <1>1
  <2>2. q \in Seq(Agent) /\ s = Append(q, a)
    BY <1>2, <1>3
  <2> QED BY <2>1, <2>2, AppendProperties
<1>5. a \notin W /\ W \subseteq Listed /\ \A b \in W : a \notin ahead[b] /\ b # a
  BY DEF WaitersAt, Listed, ListSound
<1>6. Cardinality(WaitersAt(l))' = n + 1
  <2>1. Cardinality(W \cup {a}) = n + 1
    BY <1>3, <1>5, FS_AddElement
  <2> QED BY <2>1
<1>7. ASSUME NEW i \in 1..Len(s)
      PROVE  s[i] \in WaitersAt(l)' /\ Place(s[i], WaitersAt(l))' = i
  <2>1. CASE i \in 1..n
    <3>1. s[i] \in W /\ Place(s[i], W) = i
      BY <1>3, <1>4, <2>1
    <3>2. ahead'[s[i]] = ahead[s[i]] /\ a \notin ahead[s[i]]
      BY <1>3, <1>5, <3>1 DEF TypeOK
    <3>3. ahead'[s[i]] \cap WaitersAt(l)' = ahead[s[i]] \cap W
      BY <3>2
    <3>4. Place(s[i], WaitersAt(l))' = Place(s[i], W)
      BY <3>3 DEF Place
    <3> QED BY <3>1, <3>4
  <2>2. CASE i = n + 1
    <3>1. s[i] = a /\ a \in WaitersAt(l)'
      BY <1>4, <2>2
    <3>2. ahead'[a] = Listed
      BY DEF TypeOK
    <3>3. ahead'[a] \cap WaitersAt(l)' = W
      <4>1. a \notin Listed
        BY DEF Listed
      <4> QED BY <1>5, <3>2, <4>1
    <3>4. Place(a, WaitersAt(l))' = n + 1
      BY <1>3, <3>3 DEF Place
    <3> QED BY <2>2, <3>1, <3>4
  <2> QED BY <1>3, <1>4, <2>1, <2>2
<1> QED BY <1>1, <1>2, <1>4, <1>6, <1>7, QueueNow

\* Deleting one waiter moves those behind it up
LEMMA Removed ==
  ASSUME TypeOK, AllSorted, AllSorted', NEW l \in Loc, NEW S, Delete(S),
         WaitersAt(l)' = WaitersAt(l) \ S,
         NEW k \in 1..Len(Queue(l)), S \cap WaitersAt(l) = {Queue(l)[k]},
         NEW s \in Seq(Agent), Len(s) = Len(Queue(l)) - 1,
         \A i \in 1..Len(s) : s[i] = IF i < k THEN Queue(l)[i] ELSE Queue(l)[i + 1]
  PROVE  Queue(l)' = s
<1> DEFINE W == WaitersAt(l)
<1>1. PICK q, n, x : q = Queue(l) /\ n = Len(q) /\ x = q[k]
  OBVIOUS
<1>2. /\ q \in Seq(Agent) /\ n \in Nat /\ n = Cardinality(W) /\ IsFiniteSet(W) /\ W \subseteq Agent
      /\ \A i \in 1..n : q[i] \in W /\ Place(q[i], W) = i
      /\ \A a, b \in W : a \in ahead[b] <=> Place(a, W) < Place(b, W)
  BY <1>1 DEF AllSorted, Sorted
<1>3. x \in W /\ Place(x, W) = k /\ S \cap W = {x} /\ k \in 1..n
  BY <1>1, <1>2
<1>4. WaitersAt(l)' = W \ {x}
  BY <1>3
<1>5. Cardinality(WaitersAt(l))' = n - 1
  <2>1. Cardinality(W \ {x}) = n - 1
    BY <1>2, <1>3, FS_RemoveElement
  <2> QED BY <1>4, <2>1
<1>6. \A b \in W \ {x} : ahead'[b] = ahead[b] \ S
  BY <1>2, <1>3 DEF Delete
<1>7. ASSUME NEW j \in 1..n, j # k
      PROVE  /\ q[j] \in WaitersAt(l)'
             /\ Place(q[j], WaitersAt(l))' = IF k < j THEN j - 1 ELSE j
  <2>1. PICK b : b = q[j]
    OBVIOUS
  <2>2. b \in W /\ Place(b, W) = j /\ b # x
    BY <1>2, <1>3, <1>7, <2>1
  <2> DEFINE R == ahead[b] \cap W
  <2>3. IsFiniteSet(R) /\ Cardinality(R) \in Nat
    BY <1>2, FS_Subset, FS_CardinalityType
  <2>4. Cardinality(R) = j - 1
    <3>1. Cardinality(R) + 1 = j
      BY <2>2 DEF Place
    <3> QED BY <2>3, <3>1
  <2>5. ahead'[b] \cap WaitersAt(l)' = R \ {x}
    BY <1>3, <1>4, <1>6, <2>2
  <2>6. x \in R <=> k < j
    BY <1>2, <1>3, <2>2
  <2>7. Cardinality(R \ {x}) = IF k < j THEN j - 2 ELSE j - 1
    <3>1. Cardinality(R \ {x}) = IF x \in R THEN Cardinality(R) - 1 ELSE Cardinality(R)
      BY <2>3, FS_RemoveElement
    <3> HIDE DEF R
    <3> QED BY <2>4, <2>6, <3>1
  <2>8. Place(b, WaitersAt(l))' = Cardinality(R \ {x}) + 1
    BY <2>5 DEF Place
  <2>9. Place(b, WaitersAt(l))' = IF k < j THEN j - 1 ELSE j
    <3> HIDE DEF R
    <3>1. k < j => Cardinality(R \ {x}) = j - 2 /\ j - 2 + 1 = j - 1
      BY <2>7
    <3>2. ~(k < j) => Cardinality(R \ {x}) = j - 1 /\ j - 1 + 1 = j
      BY <2>7
    <3> QED BY <2>8, <3>1, <3>2
  <2> QED BY <1>4, <2>1, <2>2, <2>9
<1>8. Len(s) = n - 1 /\ \A i \in 1..(n - 1) : s[i] = IF i < k THEN q[i] ELSE q[i + 1]
  BY <1>1
<1>9. ASSUME NEW i \in 1..Len(s)
      PROVE  s[i] \in WaitersAt(l)' /\ Place(s[i], WaitersAt(l))' = i
  <2>1. CASE i < k
    <3>1. i \in 1..n /\ i # k /\ ~(k < i) /\ s[i] = q[i]
      BY <1>2, <1>3, <1>8, <2>1
    <3> QED BY <1>7, <3>1
  <2>2. CASE ~(i < k)
    <3>1. i + 1 \in 1..n /\ i + 1 # k /\ k < i + 1 /\ s[i] = q[i + 1] /\ (i + 1) - 1 = i
      BY <1>2, <1>3, <1>8, <2>2
    <3>2. PICK j : j = i + 1
      OBVIOUS
    <3>3. j \in 1..n /\ j # k /\ k < j /\ s[i] = q[j] /\ j - 1 = i
      BY <3>1, <3>2
    <3> QED BY <1>7, <3>3
  <2> QED BY <2>1, <2>2
<1> QED BY <1>5, <1>8, <1>9, QueueNow

LEMMA Emptied ==
  ASSUME AllSorted', NEW l \in Loc, WaitersAt(l)' = {}
  PROVE  Queue(l)' = <<>>
<1>1. /\ Queue(l)' \in Seq(Agent) /\ Len(Queue(l)') = Cardinality(WaitersAt(l)')
  BY DEF AllSorted, Sorted
<1>2. Len(Queue(l)') = 0
  BY <1>1, FS_EmptySet
<1> QED BY <1>1, <1>2, EmptySeq

----------------------------------------------------------------------------
(* The steps of the queues *)

LEMMA Rest ==
  ASSUME NEW S, NEW q \in Seq(S), q # <<>>
  PROVE  /\ Len(q) \in Nat /\ 1 \in 1..Len(q)
         /\ SubSeq(q, 2, Len(q)) \in Seq(S)
         /\ Len(SubSeq(q, 2, Len(q))) = Len(q) - 1
         /\ \A i \in 1..(Len(q) - 1) : SubSeq(q, 2, Len(q))[i] = q[i + 1]
<1>1. /\ Tail(q) \in Seq(S) /\ Len(Tail(q)) = Len(q) - 1
      /\ \A i \in 1..Len(Tail(q)) : Tail(q)[i] = q[i + 1]
  BY HeadTailProperties
<1>2. Tail(q) = SubSeq(q, 2, Len(q))
  BY TailIsSubSeq
<1>3. Len(q) \in Nat /\ Len(q) # 0
  BY EmptySeq, LenProperties
<1> QED BY <1>1, <1>2, <1>3

LEMMA WithoutOne ==
  ASSUME NEW S, NEW q \in Seq(S), NEW k \in 1..Len(q)
  PROVE  /\ Queues!RemoveAt(q, k) \in Seq(S)
         /\ Len(Queues!RemoveAt(q, k)) = Len(q) - 1
         /\ \A i \in 1..(Len(q) - 1) :
              Queues!RemoveAt(q, k)[i] = IF i < k THEN q[i] ELSE q[i + 1]
<1> DEFINE n == Len(q)
<1>1. n \in Nat /\ k \in Nat /\ 1 <= k /\ k <= n /\ \A i \in 1..n : q[i] \in S
  BY LenProperties, ElementOfSeq
<1>2. PICK s, t : s = SubSeq(q, 1, k - 1) /\ t = SubSeq(q, k + 1, n)
  OBVIOUS
<1>3. s \in Seq(S) /\ Len(s) = k - 1 /\ \A i \in 1..(k - 1) : s[i] = q[i]
  <2>1. 1 \in Int /\ k - 1 \in Int /\ \A i \in 1..(k - 1) : q[i] \in S
    BY <1>1
  <2>2. /\ s \in Seq(S) /\ Len(s) = IF 1 <= k - 1 THEN (k - 1) - 1 + 1 ELSE 0
        /\ \A i \in 1..((k - 1) - 1 + 1) : s[i] = q[1 + i - 1]
    BY <1>2, <2>1, SubSeqProperties
  <2> QED BY <1>1, <2>2
<1>4. t \in Seq(S) /\ Len(t) = n - k /\ \A i \in 1..(n - k) : t[i] = q[k + i]
  <2>1. k + 1 \in Int /\ n \in Int /\ \A i \in (k + 1)..n : q[i] \in S
    BY <1>1
  <2>2. /\ t \in Seq(S) /\ Len(t) = IF k + 1 <= n THEN n - (k + 1) + 1 ELSE 0
        /\ \A i \in 1..(n - (k + 1) + 1) : t[i] = q[(k + 1) + i - 1]
    BY <1>2, <2>1, SubSeqProperties
  <2>3. Len(t) = n - k
    BY <1>1, <2>2
  <2>4. n - (k + 1) + 1 = n - k /\ \A i \in 1..(n - k) : (k + 1) + i - 1 = k + i
    BY <1>1
  <2> QED BY <2>2, <2>3, <2>4
<1>5. /\ s \o t \in Seq(S) /\ Len(s \o t) = (k - 1) + (n - k)
      /\ \A i \in 1..((k - 1) + (n - k)) :
           (s \o t)[i] = IF i <= k - 1 THEN s[i] ELSE t[i - (k - 1)]
  <2>1. PICK a, b : a = Len(s) /\ b = Len(t)
    OBVIOUS
  <2>2. s \in Seq(S) /\ t \in Seq(S)
    BY <1>3, <1>4
  <2>3. /\ s \o t \in Seq(S) /\ Len(s \o t) = a + b
        /\ \A i \in 1..(a + b) : (s \o t)[i] = IF i <= a THEN s[i] ELSE t[i - a]
    BY <2>1, <2>2, ConcatProperties
  <2>4. a = k - 1 /\ b = n - k
    BY <1>3, <1>4, <2>1
  <2> QED BY <2>3, <2>4
<1>6. ASSUME NEW i \in 1..(n - 1) PROVE (s \o t)[i] = IF i < k THEN q[i] ELSE q[i + 1]
  <2>1. i \in 1..((k - 1) + (n - k))
    BY <1>1
  <2>2. CASE i < k
    <3>1. i <= k - 1 /\ i \in 1..(k - 1)
      BY <1>1, <2>2
    <3> QED BY <1>3, <1>5, <2>1, <2>2, <3>1
  <2>3. CASE ~(i < k)
    <3>1. ~(i <= k - 1) /\ i - (k - 1) \in 1..(n - k) /\ k + (i - (k - 1)) = i + 1
      BY <1>1, <2>3
    <3> QED BY <1>4, <1>5, <2>1, <2>3, <3>1
  <2> QED BY <2>2, <2>3
<1>7. Queues!RemoveAt(q, k) = s \o t
  BY <1>2 DEF Queues!RemoveAt
<1>8. (k - 1) + (n - k) = n - 1
  BY <1>1
<1> QED BY <1>5, <1>6, <1>7, <1>8

LEMMA Still ==
  ASSUME \A m \in Loc : Queue(m)' = Queue(m), Due' = Due
  PROVE  UNCHANGED Queues!qvars
  BY DEF Queues!qvars

LEMMA Joins ==
  ASSUME AllSorted, NEW a \in Agent, a \notin Due, a \notin Listed, NEW l \in Loc,
         \A m \in Loc : Queue(m)' = IF m = l THEN Append(Queue(m), a) ELSE Queue(m),
         Due' = Due
  PROVE  Queues!QNext
<1>1. a \notin Queues!Waiting
  <2>1. SUFFICES ASSUME NEW m \in Loc, a \in Queues!ToSet(Queue(m)) PROVE FALSE
    BY <2>1 DEF Queues!Waiting
  <2>2. PICK i \in DOMAIN Queue(m) : a = Queue(m)[i]
    BY <2>1 DEF Queues!ToSet
  <2>3. Queue(m) \in Seq(Agent) /\ \A j \in 1..Len(Queue(m)) : Queue(m)[j] \in WaitersAt(m)
    BY DEF AllSorted, Sorted
  <2>4. a \in WaitersAt(m)
    BY <2>2, <2>3
  <2> QED BY <2>4 DEF WaitersAt
<1>2. [m \in Loc |-> Queue(m)]' = [[m \in Loc |-> Queue(m)] EXCEPT ![l] = Append(@, a)]
  OBVIOUS
<1>3. Queues!Join(a, l)
  BY <1>1, <1>2 DEF Queues!Join
<1> QED BY <1>3 DEF Queues!QNext

LEMMA Takes ==
  ASSUME NEW l \in Loc, NEW n \in {1, Len(Queue(l))} \cap 1..Len(Queue(l)),
         Due' = Due \cup Queues!ToSet(SubSeq(Queue(l), 1, n)),
         \A m \in Loc : Queue(m)' = IF m = l THEN SubSeq(Queue(l), n + 1, Len(Queue(l)))
                                    ELSE Queue(m)
  PROVE  Queues!QNext
<1>1. [m \in Loc |-> Queue(m)]' =
        [[m \in Loc |-> Queue(m)] EXCEPT ![l] = SubSeq(@, n + 1, Len(@))]
  OBVIOUS
<1>2. Queues!Take(l)
  BY <1>1 DEF Queues!Take
<1> QED BY <1>2 DEF Queues!QNext

LEMMA GivesUp ==
  ASSUME NEW l \in Loc, NEW i \in 1..Len(Queue(l)), Due' = Due,
         \A m \in Loc : Queue(m)' = IF m = l THEN Queues!RemoveAt(Queue(l), i) ELSE Queue(m)
  PROVE  Queues!QNext
<1>1. [m \in Loc |-> Queue(m)]' =
        [[m \in Loc |-> Queue(m)] EXCEPT ![l] = Queues!RemoveAt(@, i)]
  OBVIOUS
<1>2. Queues!GiveUp(l, i)
  BY <1>1 DEF Queues!GiveUp
<1> QED BY <1>2 DEF Queues!QNext

LEMMA Resumes ==
  ASSUME NEW a \in Due, Due' = Due \ {a}, \A m \in Loc : Queue(m)' = Queue(m)
  PROVE  Queues!QNext
<1>1. Queues!Resume(a)
  BY DEF Queues!Resume
<1> QED BY <1>1 DEF Queues!QNext, Due

----------------------------------------------------------------------------
(* Every step of AtomicsWait is a step of the queues, or none *)

\* A step that leaves the list alone
LEMMA UnlistedStep ==
  ASSUME AllSorted, AllSorted', UNCHANGED listVars, \A b \in Listed : ptr'[b] = ptr[b]
  PROVE  \A m \in Loc : Queue(m)' = Queue(m)
<1> SUFFICES ASSUME NEW m \in Loc PROVE Queue(m)' = Queue(m)
  OBVIOUS
<1>1. WaitersAt(m)' = WaitersAt(m)
  BY DEF WaitersAt, Listed, listVars
<1>2. \A b \in WaitersAt(m) : ahead'[b] \cap WaitersAt(m) = ahead[b] \cap WaitersAt(m)
  BY DEF listVars
<1> QED BY <1>1, <1>2, Untouched

\* A location of which nobody is deleted keeps its queue
LEMMA OtherQueue ==
  ASSUME AllSorted, AllSorted', NEW m \in Loc, NEW S, Delete(S), S \cap WaitersAt(m) = {},
         WaitersAt(m)' = WaitersAt(m)
  PROVE  Queue(m)' = Queue(m)
<1>1. WaitersAt(m) \subseteq Agent
  BY DEF AllSorted, Sorted
<1>2. \A b \in WaitersAt(m) : ahead'[b] \cap WaitersAt(m) = ahead[b] \cap WaitersAt(m)
  BY <1>1 DEF Delete
<1> QED BY <1>2, Untouched

LEMMA SleepStep ==
  ASSUME TypeOK, ListSound, AllSorted, AllSorted', NEW a \in Agent, Sleep(a)
  PROVE  Queues!QNext
<1>1. /\ pc[a] = "equal" /\ pc' = [pc EXCEPT ![a] = "asleep"]
      /\ linked' = [linked EXCEPT ![a] = TRUE] /\ ahead' = [ahead EXCEPT ![a] = Listed]
      /\ ptr' = ptr
  BY DEF Sleep, AddTail, Goto, callVars
<1>2. ~linked[a] /\ a \notin Listed /\ a \notin Due
  BY <1>1 DEF ListSound, Listed, Due
<1>3. ptr[a] \in Loc
  BY DEF TypeOK
<1>4. Due' = Due
  BY <1>1 DEF TypeOK, Due
<1>5. Listed' = Listed \cup {a}
  BY <1>1 DEF TypeOK, Listed
<1>6. ASSUME NEW m \in Loc
      PROVE  Queue(m)' = IF m = ptr[a] THEN Append(Queue(m), a) ELSE Queue(m)
  <2>1. CASE m = ptr[a]
    <3>1. WaitersAt(m)' = WaitersAt(m) \cup {a}
      BY <1>1, <1>5, <2>1 DEF WaitersAt
    <3> QED BY <1>1, <1>2, <2>1, <3>1, Appended
  <2>2. CASE m # ptr[a]
    <3>1. WaitersAt(m)' = WaitersAt(m)
      BY <1>1, <1>5, <2>2 DEF WaitersAt
    <3>2. \A b \in WaitersAt(m) : ahead'[b] = ahead[b]
      BY <1>1, <1>2 DEF WaitersAt, Listed, TypeOK
    <3> QED BY <2>2, <3>1, <3>2, Untouched
  <2> QED BY <2>1, <2>2
<1> QED BY <1>2, <1>3, <1>4, <1>6, Joins

LEMMA ReturnStep ==
  ASSUME TypeOK, ListSound, AllSorted, AllSorted', NEW a \in Agent, Return(a)
  PROVE  Queues!QNext
<1>1. /\ pc[a] = "awake" /\ pc' = [pc EXCEPT ![a] = "js"]
      /\ Unlink(a) /\ \A b \in Agent : b # a => ptr'[b] = ptr[b]
  BY DEF Return, Goto, ForgetCall, TypeOK
<1>2. CASE linked[a]
  <2>1. Delete({a})
    BY <1>1, <1>2 DEF Unlink
  <2>2. Listed' = Listed \ {a}
    BY <2>1 DEF Delete, Listed, TypeOK
  <2>3. \A m \in Loc : WaitersAt(m)' = WaitersAt(m) \ {a}
    BY <1>1, <2>2 DEF WaitersAt, Listed
  <2>4. Due' = Due
    BY <1>1, <1>2, <2>1 DEF Due, Delete, TypeOK
  <2>5. ptr[a] \in Loc /\ a \in WaitersAt(ptr[a]) /\ \A m \in Loc : m # ptr[a] => a \notin WaitersAt(m)
    BY <1>2 DEF WaitersAt, Listed, TypeOK
  <2>0. PICK l \in Loc : l = ptr[a]
    BY <2>5
  <2>6. PICK q, k : l = ptr[a] /\ q = Queue(l) /\ k = Place(a, WaitersAt(l))
    BY <2>0
  <2>7. q \in Seq(Agent) /\ k \in 1..Len(q) /\ q[k] = a
    BY <2>5, <2>6 DEF AllSorted, Sorted
  <2>8. Queue(l)' = Queues!RemoveAt(q, k)
    <3>1. PICK s : s = Queues!RemoveAt(q, k)
      OBVIOUS
    <3>2. /\ s \in Seq(Agent) /\ Len(s) = Len(q) - 1
          /\ \A i \in 1..(Len(q) - 1) : s[i] = IF i < k THEN q[i] ELSE q[i + 1]
      BY <2>7, <3>1, WithoutOne
    <3>3. {a} \cap WaitersAt(l) = {Queue(l)[k]}
      BY <2>5, <2>6, <2>7
    <3>4. /\ k \in 1..Len(Queue(l)) /\ Len(s) = Len(Queue(l)) - 1
          /\ \A i \in 1..Len(s) : s[i] = IF i < k THEN Queue(l)[i] ELSE Queue(l)[i + 1]
      BY <2>6, <2>7, <3>2
    <3>5. WaitersAt(l)' = WaitersAt(l) \ {a} /\ s \in Seq(Agent)
      BY <2>3, <3>2
    <3>6. Queue(l)' = s
      BY <2>1, <3>3, <3>4, <3>5, Removed
    <3> QED BY <3>1, <3>6
  <2>9. ASSUME NEW m \in Loc, m # l PROVE Queue(m)' = Queue(m)
    <3>1. {a} \cap WaitersAt(m) = {} /\ WaitersAt(m)' = WaitersAt(m)
      BY <2>3, <2>5, <2>6, <2>9
    <3> QED BY <2>1, <3>1, OtherQueue
  <2>10. k \in 1..Len(Queue(l)) /\ \A m \in Loc :
           Queue(m)' = IF m = l THEN Queues!RemoveAt(Queue(m), k) ELSE Queue(m)
    BY <2>6, <2>7, <2>8, <2>9
  <2> QED BY <2>4, <2>10, GivesUp
<1>3. CASE ~linked[a]
  <2>1. UNCHANGED listVars
    BY <1>1, <1>3 DEF Unlink
  <2>2. \A m \in Loc : Queue(m)' = Queue(m)
    <3>1. \A b \in Listed : ptr'[b] = ptr[b]
      BY <1>1, <1>3 DEF Listed
    <3> QED BY <2>1, <3>1, UnlistedStep
  <2>3. a \in Due /\ Due' = Due \ {a}
    BY <1>1, <1>3, <2>1 DEF Due, listVars, TypeOK
  <2> QED BY <2>2, <2>3, Resumes
<1> QED BY <1>2, <1>3

LEMMA NotifyStep ==
  ASSUME TypeOK, ListSound, AllSorted, AllSorted', NEW a \in Agent, NEW l \in Loc,
         NEW count \in {1, INT32_MAX}, NEW from \in {"js", "changed"},
         NotifyFirst(a, l, count, from)
  PROVE  [Queues!QNext]_(Queues!qvars)
<1>1. PICK S, W, q, n : /\ S = Taken(l, count) /\ W = WaitersAt(l)
                        /\ q = Queue(l) /\ n = Len(q)
  OBVIOUS
<1>2. /\ W \subseteq Agent /\ IsFiniteSet(W) /\ n \in Nat /\ n = Cardinality(W)
      /\ q \in Seq(Agent)
      /\ \A i \in 1..n : q[i] \in W /\ Place(q[i], W) = i
      /\ \A b \in W : Place(b, W) \in 1..n /\ q[Place(b, W)] = b
  BY <1>1 DEF AllSorted, Sorted
<1>3. S \subseteq W
  BY <1>1 DEF Taken
<1>4. /\ Delete(S) /\ pc[a] = from
      /\ pc' = [b \in Agent |-> IF b = a THEN "js"
                                ELSE IF b \in Signalled(S) THEN "awake" ELSE pc[b]]
      /\ \A b \in Agent : b # a => ptr'[b] = ptr[b]
  BY <1>1 DEF NotifyFirst, TypeOK
<1>5. ~linked[a] /\ a \notin W
  BY <1>1, <1>4 DEF ListSound, WaitersAt, Listed
<1>6. Listed' = Listed \ S
  BY <1>4 DEF Delete, Listed, TypeOK
<1>7. \A m \in Loc : WaitersAt(m)' = WaitersAt(m) \ S
  BY <1>4, <1>5, <1>6 DEF WaitersAt, Listed
<1>8. \A m \in Loc : m # l => S \cap WaitersAt(m) = {}
  BY <1>1, <1>3 DEF WaitersAt
<1>9. ASSUME NEW m \in Loc, m # l PROVE Queue(m)' = Queue(m)
  <2>1. S \cap WaitersAt(m) = {} /\ WaitersAt(m)' = WaitersAt(m)
    BY <1>7, <1>8, <1>9
  <2> QED BY <1>4, <2>1, OtherQueue
<1>10. Due' = Due \cup S
  <2>1. \A b \in S : b \in Agent /\ linked[b] /\ pc[b] \in {"asleep", "awake"} /\ b # a
    BY <1>1, <1>3, <1>5 DEF WaitersAt, Listed, ListSound
  <2>2. \A b \in Agent : linked'[b] <=> linked[b] /\ b \notin S
    BY <1>4 DEF Delete, TypeOK
  <2>3. \A b \in S : pc'[b] = "awake"
    BY <1>4, <2>1 DEF Signalled
  <2>4. pc[a] # "awake" /\ pc'[a] # "awake"
    BY <1>4
  <2>5. \A b \in Agent : b \notin S /\ b # a => pc'[b] = pc[b]
    BY <1>4 DEF Signalled
  <2> QED BY <2>1, <2>2, <2>3, <2>4, <2>5 DEF Due
<1>11. CASE W = {}
  <2>1. S = {} /\ WaitersAt(l)' = WaitersAt(l)
    BY <1>1, <1>3, <1>7, <1>11
  <2>2. Queue(l)' = Queue(l)
    BY <1>4, <2>1, OtherQueue
  <2> QED BY <1>9, <1>10, <2>1, <2>2, Still
<1>12. CASE W # {} /\ count = 1
  <2>1. q # <<>> /\ 1 \in 1..n
    <3>1. PICK b : b \in W
      BY <1>12
    <3>2. 1..n # {}
      BY <1>2, <3>1
    <3>3. n # 0
      BY <1>2, <3>2
    <3>4. Len(q) # 0 /\ q \in Seq(Agent)
      BY <1>1, <1>2, <3>3
    <3>5. q # <<>>
      BY <3>4, EmptySeq
    <3> QED BY <1>2, <3>3, <3>5
  <2>2. S = {q[1]}
    <3>1. \A b \in W : b \in S <=> Cardinality(ahead[b] \cap W) < 1
      BY <1>1, <1>12 DEF Taken
    <3>2. ASSUME NEW b \in W PROVE Cardinality(ahead[b] \cap W) < 1 <=> Place(b, W) = 1
      <4>1. Cardinality(ahead[b] \cap W) \in Nat
        BY <1>2, FS_Subset, FS_CardinalityType
      <4>2. Place(b, W) = Cardinality(ahead[b] \cap W) + 1
        BY DEF Place
      <4>3. \A x \in Nat : x < 1 <=> x + 1 = 1
        OBVIOUS
      <4> QED BY Zenon, <4>1, <4>2, <4>3
    <3>3. \A b \in W : Place(b, W) = 1 <=> b = q[1]
      BY <1>2, <2>1
    <3>4. q[1] \in W
      BY <1>2, <2>1
    <3> QED BY <1>3, <3>1, <3>2, <3>3, <3>4
  <2>3. PICK s : s = SubSeq(q, 2, n)
    OBVIOUS
  <2>4. s \in Seq(Agent) /\ Len(s) = n - 1 /\ \A i \in 1..(n - 1) : s[i] = q[i + 1]
    BY <1>1, <1>2, <2>1, <2>3, Rest
  <2>5. Queue(l)' = s
    <3>1. PICK k : k = 1
      OBVIOUS
    <3>2. k \in 1..Len(Queue(l)) /\ S \cap WaitersAt(l) = {Queue(l)[k]}
      BY <1>1, <1>3, <2>1, <2>2, <3>1
    <3>3. /\ Len(s) = Len(Queue(l)) - 1
          /\ \A i \in 1..Len(s) : s[i] = IF i < k THEN Queue(l)[i] ELSE Queue(l)[i + 1]
      BY <1>1, <1>2, <2>4, <3>1
    <3>4. WaitersAt(l)' = WaitersAt(l) \ S /\ Delete(S)
      BY <1>4, <1>7
    <3>5. s \in Seq(Agent)
      BY <2>4
    <3> QED BY <3>2, <3>3, <3>4, <3>5, Removed
  <2>6. Queues!ToSet(SubSeq(q, 1, 1)) = {q[1]}
    <3>1. PICK t : t = SubSeq(q, 1, 1)
      OBVIOUS
    <3>2. Len(t) = 1 /\ t \in Seq(Agent) /\ t[1] = q[1]
      <4>1. 1 \in Int /\ \A i \in 1..1 : q[i] \in Agent
        BY <1>2, <2>1
      <4>2. /\ t \in Seq(Agent) /\ Len(t) = IF 1 <= 1 THEN 1 - 1 + 1 ELSE 0
            /\ \A i \in 1..(1 - 1 + 1) : t[i] = q[1 + i - 1]
        BY <3>1, <4>1, SubSeqProperties
      <4> QED BY <4>2
    <3>3. DOMAIN t = {1}
      BY <3>2
    <3> QED BY <3>1, <3>2, <3>3 DEF Queues!ToSet
  <2>7. Due' = Due \cup Queues!ToSet(SubSeq(Queue(l), 1, 1))
    BY <1>1, <1>10, <2>2, <2>6
  <2>8. 1 \in {1, Len(Queue(l))} \cap 1..Len(Queue(l))
    BY <1>1, <2>1
  <2>9. \A m \in Loc : Queue(m)' = IF m = l THEN SubSeq(Queue(l), 1 + 1, Len(Queue(l)))
                                   ELSE Queue(m)
    BY <1>1, <1>9, <2>3, <2>5
  <2> QED BY <2>7, <2>8, <2>9, Takes
<1>13. CASE W # {} /\ count = INT32_MAX
  <2>1. S = W
    BY <1>1, <1>13, TakenAll
  <2>2. n \in {1, n} \cap 1..n
    <3>1. PICK b : b \in W
      BY <1>13
    <3>2. Place(b, W) \in 1..n
      BY <1>2, <3>1
    <3> QED BY <1>2, <3>2
  <2>3. Queue(l)' = <<>>
    <3>1. WaitersAt(l)' = {}
      BY <1>1, <1>7, <2>1
    <3> QED BY <3>1, Emptied
  <2>4. SubSeq(q, n + 1, n) = <<>>
    <3>1. n + 1 \in Int /\ n \in Int /\ n < n + 1
      BY <1>2
    <3> QED BY <3>1, SubSeqEmpty
  <2>5. SubSeq(q, 1, n) = q
    BY <1>1, <1>2, SubSeqFull
  <2>6. Queues!ToSet(q) = W
    <3>1. DOMAIN q = 1..n
      <4>1. q \in Seq(Agent)
        BY <1>2
      <4>2. DOMAIN q = 1..Len(q)
        BY <4>1, LenProperties
      <4> QED BY <1>1, <4>2
    <3> QED BY <1>2, <3>1 DEF Queues!ToSet
  <2>7. Due' = Due \cup Queues!ToSet(SubSeq(q, 1, n))
    BY <1>10, <2>1, <2>5, <2>6
  <2>8. \A m \in Loc : Queue(m)' = IF m = l THEN SubSeq(q, n + 1, n) ELSE Queue(m)
    BY <1>9, <2>3, <2>4
  <2> QED BY <1>1, <2>2, <2>7, <2>8, Takes
<1> QED BY <1>11, <1>12, <1>13

LEMMA QueueInit == Init => Queues!QInit
<1> SUFFICES ASSUME Init PROVE Queues!QInit
  OBVIOUS
<1>1. AllSorted
  BY InitIInv, OrderInit, AllSortedNow DEF IInv
<1>2. ASSUME NEW m \in Loc PROVE Queue(m) = <<>>
  <2>1. WaitersAt(m) = {}
    BY DEF Init, WaitersAt, Listed
  <2>2. Queue(m) \in Seq(Agent) /\ Len(Queue(m)) = Cardinality(WaitersAt(m))
    BY <1>1 DEF AllSorted, Sorted
  <2>3. Len(Queue(m)) = 0
    BY <2>1, <2>2, FS_EmptySet
  <2> QED BY <2>2, <2>3, EmptySeq
<1>3. Due = {}
  BY DEF Init, Due
<1> QED BY <1>2, <1>3 DEF Queues!QInit

LEMMA QueueStep ==
  ASSUME TypeOK, ListSound, AllSorted, AllSorted', [Next]_vars
  PROVE  [Queues!QNext]_(Queues!qvars)
<1>1. ASSUME UNCHANGED listVars, \A b \in Listed : ptr'[b] = ptr[b], Due' = Due
      PROVE  UNCHANGED Queues!qvars
  BY <1>1, UnlistedStep, Still
<1> USE DEF Goto
<1>2. ASSUME NEW a \in Agent, NEW l \in Loc, NEW v \in Value, NEW t \in BOOLEAN, Lock(a, l, v, t)
      PROVE  UNCHANGED Queues!qvars
  BY <1>1, <1>2 DEF Lock, listVars, Listed, ListSound, Due, TypeOK
<1>3. ASSUME NEW a \in Agent, NotEqual(a) \/ Equal(a) PROVE UNCHANGED Queues!qvars
  BY <1>1, <1>3 DEF NotEqual, Equal, ForgetCall, callVars, listVars, Listed, ListSound, Due, TypeOK
<1>4. ASSUME NEW a \in Agent, TimesOut(a) \/ SpuriousWakeup(a) PROVE UNCHANGED Queues!qvars
  BY <1>1, <1>4 DEF TimesOut, SpuriousWakeup, callVars, listVars, ListSound, Due, TypeOK
<1>5. ASSUME NEW a \in Agent, NEW l \in Loc, NEW v \in Value, Change(a, l, v)
      PROVE  UNCHANGED Queues!qvars
  BY <1>1, <1>5 DEF Change, listVars, Listed, ListSound, Due, TypeOK
<1>6. CASE UNCHANGED vars
  BY <1>1, <1>6 DEF vars, callVars, listVars, Due
<1>7. ASSUME NEW a \in Agent, NotifyChange(a) PROVE [Queues!QNext]_(Queues!qvars)
  <2>1. ptr[a] \in Loc
    BY DEF TypeOK
  <2> QED BY <1>7, <2>1, NotifyStep DEF NotifyChange
<1>8. ASSUME NEW a \in Agent, NEW l \in Loc, NEW count \in {1, INT32_MAX}, Notify(a, l, count)
      PROVE  [Queues!QNext]_(Queues!qvars)
  BY <1>8, NotifyStep DEF Notify
<1> QED
  BY <1>2, <1>3, <1>4, <1>5, <1>6, <1>7, <1>8, SleepStep, ReturnStep DEF Next, Terminated

\* The one list of all addresses keeps a queue per location: threads join at
\* the end, a notify takes the first or all, each once, and whoever is taken
\* returns before it can wait again.
THEOREM QueuesKept == Spec => QueueSpec
<1>1. Spec => [](IInv /\ OrderInv)
  <2>1. Init => OrderInv
    BY OrderInit
  <2>2. IInv /\ OrderInv /\ [Next]_vars => OrderInv'
    BY OrderStep DEF IInv
  <2> QED BY Inductive, <2>1, <2>2, PTL DEF Spec
<1>2. IInv /\ OrderInv => TypeOK /\ ListSound /\ AllSorted
  BY AllSortedNow DEF IInv
<1>3. TypeOK /\ ListSound /\ AllSorted /\ AllSorted' /\ [Next]_vars =>
        [Queues!QNext]_(Queues!qvars)
  BY QueueStep
<1> QED BY QueueInit, <1>1, <1>2, <1>3, PTL DEF Spec, QueueSpec, Queues!QSpec
================================================================================
