---------------------------- MODULE Test262Agents ----------------------------
(***************************************************************************)
(* The $262.agent threads of quickjs/src/run-test262.c: the test's main    *)
(* thread starts agents, broadcasts a SharedArrayBuffer to them through    *)
(* one mutex and ONE condition variable shared by everybody, collects      *)
(* their reports, and joins and frees them when the test ends.  Several    *)
(* tests run one after the other in one process.                           *)
(*                                                                         *)
(* The JavaScript is the environment: a test is the sequence of agent      *)
(* calls its main script makes and, per agent, the calls made by each turn *)
(* (the script itself, then each callback).  "await" in an agent's turn    *)
(* ends the synchronous part and queues the rest as a pending job; in the  *)
(* main script it is the harness's getReport-until-not-null loop.          *)
(*                                                                         *)
(* A critical section of agent_mutex that nobody can observe half-way is   *)
(* one action.  The main thread's is not: agents read their broadcast_*    *)
(* fields without the lock, so it is split at every write they can see.    *)
(***************************************************************************)
EXTENDS Integers, Sequences, FiniteSets, Functions

CONSTANTS Agent,   \* thread ids: the Test262Agent structures
          Main,    \* the main thread
          Plans    \* the sequences of tests one process may be given

MainOp  == {"start", "broadcast", "poll", "await"}
AgentOp == {"receive", "report", "await", "throw", "fail"}
Test    == [main : Seq(MainOp), agents : Seq(Seq(Seq(AgentOp)))]

ASSUME MainAssumption  == Main \notin Agent
ASSUME PlansAssumption == Plans \subseteq Seq(Test)

VARIABLES
  tests,              \* tests still to run, the current one first
  todo,               \* what is left of the current main script
  scripts,            \* agent scripts not started yet
  mpc,                \* where the main thread is
  fill,               \* agents the broadcast loop has yet to visit
  agent_list,
  apc,                \* where each agent thread is
  turns, cur, job,    \* its later turns, the rest of this one, its pending job
  broadcast_func,     \* TRUE iff not JS_UNDEFINED
  broadcast_pending,
  broadcast_sab,      \* the value to release, by the number of its broadcast
  broadcast_buf,      \* broadcast_sab_buf and broadcast_sab_size
  broadcast_val,
  argBuf, argVal,     \* the arguments the callback is given
  bno,                \* broadcasts made by this test; names the SAB of each
  dups,               \* references made by JS_DupValue and not yet freed
  taken,              \* history: broadcast in force when pending was cleared
  held,               \* history: buffers this agent's thread was handed
  report_list,
  sent, got           \* history: reports in the order queued and returned

testVars  == <<tests, todo, scripts>>
turnVars  == <<turns, cur, job, broadcast_func>>
fieldVars == <<broadcast_sab, broadcast_buf, broadcast_val>>
argVars   == <<argBuf, argVal, held>>
repVars   == <<report_list, sent, got>>
vars == <<testVars, mpc, fill, agent_list, apc, turnVars, broadcast_pending,
          fieldVars, argVars, bno, dups, taken, repVars>>

\* Variants named ...Bug are faults the properties have to notice; no action
\* uses them.
NoSabBug == -1
NoSab == 0       \* JS_UNDEFINED, and the NULL of the memset

MainPc  == {"script", "fill", "fillVal", "wait", "relock", "join", "end", "abort"}
AgentPc == {"idle", "eval", "loop", "job", "lock", "wait", "buf", "val", "call", "done"}
Report  == [test : Nat, from : Agent]

TypeOK ==
  /\ tests \in Seq(Test)
  /\ todo \in Seq(MainOp)
  /\ scripts \in Seq(Seq(Seq(AgentOp)))
  /\ mpc \in MainPc
  /\ fill \in Seq(Agent)
  /\ agent_list \in Seq(Agent)
  /\ apc \in [Agent -> AgentPc]
  /\ turns \in [Agent -> Seq(Seq(AgentOp))]
  /\ cur \in [Agent -> Seq(AgentOp)]
  /\ job \in [Agent -> Seq(AgentOp)]
  /\ broadcast_func \in [Agent -> BOOLEAN]
  /\ broadcast_pending \in [Agent -> BOOLEAN]
  /\ broadcast_sab \in [Agent -> Nat]
  /\ broadcast_buf \in [Agent -> Nat]
  /\ broadcast_val \in [Agent -> Nat]
  /\ argBuf \in [Agent -> Nat]
  /\ argVal \in [Agent -> Nat]
  /\ bno \in Nat
  /\ dups \subseteq Agent \X Nat
  /\ taken \in [Agent -> Nat]
  /\ held \in [Agent -> SUBSET Nat]
  /\ report_list \in Seq(Report)
  /\ sent \in Seq(Report)
  /\ got \in Seq(Report)

Init ==
  /\ tests \in {p \in Plans : p # <<>>}
  /\ todo = Head(tests).main
  /\ scripts = Head(tests).agents
  /\ mpc = "script"
  /\ fill = <<>>
  /\ agent_list = <<>>
  /\ apc = [a \in Agent |-> "idle"]
  /\ turns = [a \in Agent |-> <<>>]
  /\ cur = [a \in Agent |-> <<>>]
  /\ job = [a \in Agent |-> <<>>]
  /\ broadcast_func = [a \in Agent |-> FALSE]
  /\ broadcast_pending = [a \in Agent |-> FALSE]
  /\ broadcast_sab = [a \in Agent |-> NoSab]
  /\ broadcast_buf = [a \in Agent |-> NoSab]
  /\ broadcast_val = [a \in Agent |-> 0]
  /\ argBuf = [a \in Agent |-> NoSab]
  /\ argVal = [a \in Agent |-> 0]
  /\ bno = 0
  /\ dups = {}
  /\ taken = [a \in Agent |-> 0]
  /\ held = [a \in Agent |-> {}]
  /\ report_list = <<>>
  /\ sent = <<>>
  /\ got = <<>>

(***************************************************************************)
(* agent_mutex and agent_cond.  Agents hold the mutex within one action    *)
(* only, so it is taken exactly while the main thread fills.               *)
(***************************************************************************)
MutexFreeBug == TRUE
MutexFree == mpc \notin {"fill", "fillVal"}
Waiting   == {a \in Agent : apc[a] = "wait"}

\* Fault: no signal
SignalFromBug(a) == apc' = [apc EXCEPT ![a] = "buf"] /\ UNCHANGED mpc

\* pthread_cond_signal: one waiter, whichever the implementation picks, goes
\* on to re-acquire the mutex; nobody if nobody waits.  The caller's own
\* program counter moves to "buf" in the same action.
SignalFrom(a) ==
  \/ /\ mpc = "wait"
     /\ mpc' = "relock"
     /\ apc' = [apc EXCEPT ![a] = "buf"]
  \/ \E b \in Waiting :
        /\ apc' = [apc EXCEPT ![a] = "buf", ![b] = "lock"]
        /\ UNCHANGED mpc
  \/ /\ mpc # "wait" /\ Waiting = {}
     /\ apc' = [apc EXCEPT ![a] = "buf"]
     /\ UNCHANGED mpc

\* Fault: only the first agent of the list is looked at
IsBroadcastPendingBug == agent_list # <<>> /\ broadcast_pending[Head(agent_list)]

\* is_broadcast_pending()
IsBroadcastPending == \E a \in Range(agent_list) : broadcast_pending[a]

\* The next agent call of a script, "end" after the last
MainCall     == IF todo = <<>> THEN "end" ELSE Head(todo)
AgentCall(a) == IF cur[a] = <<>> THEN "end" ELSE Head(cur[a])

\* What the next turn does, nothing when the script says no more
FirstTurn(ts)  == IF ts = <<>> THEN <<>> ELSE Head(ts)
LaterTurns(ts) == IF ts = <<>> THEN <<>> ELSE Tail(ts)

\* The references after JS_DupValue(sab) for agent a.  What broadcast_sab held
\* is overwritten, not released (the fault releases it).
DuplicateBug(a) == (dups \ {<<a, broadcast_sab[a]>>}) \cup {<<a, bno>>}
Duplicate(a)    == dups \cup {<<a, bno>>}

\* The references after JS_FreeValue(agent->broadcast_sab)
ReleaseBug(a) == dups
Release(a)    == dups \ {<<a, broadcast_sab[a]>>}

\* report_list after list_add_tail, and after list_del of its first element
Enqueue(rep)    == Append(report_list, rep)
DequeueBug == report_list
Dequeue    == Tail(report_list)

----------------------------------------------------------------------------
(* The main thread *)

\* js_agent_start.  malloc and memset give a structure in its initial state.
Start(a) ==
  /\ mpc = "script" /\ MainCall = "start" /\ scripts # <<>>
  /\ apc[a] = "idle"
  /\ todo' = Tail(todo)
  /\ scripts' = Tail(scripts)
  /\ agent_list' = Append(agent_list, a)
  /\ apc' = [apc EXCEPT ![a] = "eval"]
  /\ cur' = [cur EXCEPT ![a] = FirstTurn(Head(scripts))]
  /\ turns' = [turns EXCEPT ![a] = LaterTurns(Head(scripts))]
  /\ job' = [job EXCEPT ![a] = <<>>]
  /\ broadcast_func' = [broadcast_func EXCEPT ![a] = FALSE]
  /\ broadcast_pending' = [broadcast_pending EXCEPT ![a] = FALSE]
  /\ broadcast_sab' = [broadcast_sab EXCEPT ![a] = NoSab]
  /\ broadcast_buf' = [broadcast_buf EXCEPT ![a] = NoSab]
  /\ broadcast_val' = [broadcast_val EXCEPT ![a] = 0]
  /\ taken' = [taken EXCEPT ![a] = 0]
  /\ held' = [held EXCEPT ![a] = {}]
  /\ UNCHANGED <<tests, mpc, fill, argBuf, argVal, bno, dups, repVars>>

\* js_agent_broadcast up to the loop over agent_list
Broadcast ==
  /\ mpc = "script" /\ MainCall = "broadcast"
  /\ mpc' = "fill"
  /\ fill' = agent_list
  /\ bno' = bno + 1
  /\ UNCHANGED <<testVars, agent_list, apc, turnVars, broadcast_pending, fieldVars,
                 argVars, dups, taken, repVars>>

\* one agent of the loop, up to the buffer it will be given ...
FillBuf ==
  /\ mpc = "fill" /\ fill # <<>>
  /\ LET a == Head(fill) IN
       /\ broadcast_pending' = [broadcast_pending EXCEPT ![a] = TRUE]
       /\ broadcast_sab' = [broadcast_sab EXCEPT ![a] = bno]
       /\ dups' = Duplicate(a)
       /\ broadcast_buf' = [broadcast_buf EXCEPT ![a] = bno]
  /\ mpc' = "fillVal"
  /\ UNCHANGED <<testVars, fill, agent_list, apc, turnVars, broadcast_val,
                 argVars, bno, taken, repVars>>

\* ... and the value that goes with it
FillVal ==
  /\ mpc = "fillVal"
  /\ broadcast_val' = [broadcast_val EXCEPT ![Head(fill)] = bno]
  /\ fill' = Tail(fill)
  /\ mpc' = "fill"
  /\ UNCHANGED <<testVars, agent_list, apc, turnVars, broadcast_pending,
                 broadcast_sab, broadcast_buf, argVars, bno, dups, taken, repVars>>

\* Fault: if, not while
WaitOrReturnBug ==
  IF mpc = "fill" /\ IsBroadcastPending
    THEN mpc' = "wait" /\ UNCHANGED todo
    ELSE mpc' = "script" /\ todo' = Tail(todo)

\* while (is_broadcast_pending()) pthread_cond_wait(...), then return
WaitOrReturn ==
  IF IsBroadcastPending
    THEN mpc' = "wait" /\ UNCHANGED todo
    ELSE mpc' = "script" /\ todo' = Tail(todo)

\* pthread_cond_broadcast, and the first test of the waiting loop
WakeAll ==
  /\ mpc = "fill" /\ fill = <<>>
  /\ apc' = [a \in Agent |-> IF apc[a] = "wait" THEN "lock" ELSE apc[a]]
  /\ WaitOrReturn
  /\ UNCHANGED <<tests, scripts, fill, agent_list, turnVars, broadcast_pending,
                 fieldVars, argVars, bno, dups, taken, repVars>>

\* the main thread, woken, has the mutex again
Recheck ==
  /\ mpc = "relock"
  /\ WaitOrReturn
  /\ UNCHANGED <<tests, scripts, fill, agent_list, apc, turnVars, broadcast_pending,
                 fieldVars, argVars, bno, dups, taken, repVars>>

\* js_agent_getReport.  A poll of an empty list returns null; a harness that
\* waits for a report polls until there is one.
GetReport ==
  /\ mpc = "script"
  /\ \/ /\ MainCall \in {"poll", "await"} /\ report_list # <<>>
        /\ got' = Append(got, Head(report_list))
        /\ report_list' = Dequeue
     \/ /\ MainCall = "poll" /\ report_list = <<>>
        /\ UNCHANGED <<got, report_list>>
  /\ todo' = Tail(todo)
  /\ UNCHANGED <<tests, scripts, mpc, fill, agent_list, apc, turnVars, broadcast_pending,
                 fieldVars, argVars, bno, dups, taken, sent>>

\* The main script has returned: run_test_buf calls js_agent_free
EndScript ==
  /\ mpc = "script" /\ MainCall = "end"
  /\ mpc' = "join"
  /\ UNCHANGED <<testVars, fill, agent_list, apc, turnVars, broadcast_pending,
                 fieldVars, argVars, bno, dups, taken, repVars>>

\* One agent of js_agent_free: join its thread, release its SAB, free it
JoinAgent ==
  /\ mpc = "join" /\ agent_list # <<>>
  /\ LET a == Head(agent_list) IN
       /\ apc[a] = "done"
       /\ apc' = [apc EXCEPT ![a] = "idle"]
       /\ dups' = Release(a)
  /\ agent_list' = Tail(agent_list)
  /\ UNCHANGED <<testVars, mpc, fill, turnVars, broadcast_pending, fieldVars, argVars,
                 bno, taken, repVars>>

\* JS_FreeContext, JS_FreeRuntime: its assertion fails if an object of the
\* test is still referenced.  Otherwise the next test runs; report_list, a
\* static of the process, is left as it is.
FreeRuntime ==
  /\ mpc = "join" /\ agent_list = <<>>
  /\ IF dups # {}
       THEN mpc' = "abort" /\ UNCHANGED <<testVars, bno>>
       ELSE /\ tests' = Tail(tests)
            /\ bno' = 0
            /\ IF tests' = <<>>
                 THEN mpc' = "end" /\ UNCHANGED <<todo, scripts>>
                 ELSE /\ mpc' = "script"
                      /\ todo' = Head(tests').main
                      /\ scripts' = Head(tests').agents
  /\ UNCHANGED <<fill, agent_list, apc, turnVars, broadcast_pending, fieldVars, argVars,
                 dups, taken, repVars>>

MainStep ==
  \/ \E a \in Agent : Start(a)
  \/ Broadcast \/ FillBuf \/ FillVal \/ WakeAll \/ Recheck
  \/ GetReport \/ EndScript \/ JoinAgent \/ FreeRuntime

----------------------------------------------------------------------------
(* An agent thread: agent_start *)

Running(a) == apc[a] \in {"eval", "call", "job"}

\* js_agent_receiveBroadcast
ReceiveBroadcast(a) ==
  /\ Running(a) /\ AgentCall(a) = "receive"
  /\ cur' = [cur EXCEPT ![a] = Tail(cur[a])]
  /\ broadcast_func' = [broadcast_func EXCEPT ![a] = TRUE]
  /\ UNCHANGED <<testVars, mpc, fill, agent_list, apc, turns, job, broadcast_pending,
                 fieldVars, argVars, bno, dups, taken, repVars>>

\* js_agent_report: the tests left to run tell which test this is
SendReport(a) ==
  /\ Running(a) /\ AgentCall(a) = "report"
  /\ cur' = [cur EXCEPT ![a] = Tail(cur[a])]
  /\ LET rep == [test |-> Len(tests), from |-> a] IN
       /\ report_list' = Enqueue(rep)
       /\ sent' = Append(sent, rep)
  /\ UNCHANGED <<testVars, mpc, fill, agent_list, apc, turns, job, broadcast_func,
                 broadcast_pending, fieldVars, argVars, bno, dups, taken, got>>

\* JavaScript's await: the rest of the turn becomes a pending job
Await(a) ==
  /\ Running(a) /\ AgentCall(a) = "await"
  /\ job' = [job EXCEPT ![a] = Tail(cur[a])]
  /\ cur' = [cur EXCEPT ![a] = <<>>]
  /\ UNCHANGED <<testVars, mpc, fill, agent_list, apc, turns, broadcast_func,
                 broadcast_pending, fieldVars, argVars, bno, dups, taken, repVars>>

\* The script, callback or job ends, by returning or by an exception ("throw";
\* in the continuation of an await it only rejects the promise).  The callback
\* that was called is dropped even when it registered a new one.  A job whose
\* own function fails ("fail": a FinalizationRegistry cleanup that throws) makes
\* JS_ExecutePendingJob return -1, which ends the thread.
EndTurn(a) ==
  /\ Running(a) /\ AgentCall(a) \in {"end", "throw", "fail"}
  /\ cur' = [cur EXCEPT ![a] = <<>>]
  /\ LET exits == apc[a] = "job" /\ AgentCall(a) = "fail" IN
       /\ apc' = [apc EXCEPT ![a] = IF exits THEN "done" ELSE "loop"]
       /\ broadcast_func' = [broadcast_func EXCEPT ![a] = @ /\ apc[a] # "call" /\ ~exits]
  /\ UNCHANGED <<testVars, mpc, fill, agent_list, turns, job, broadcast_pending,
                 fieldVars, argVars, bno, dups, taken, repVars>>

\* The for(;;) of agent_start: run a pending job, or wait for a broadcast, or exit
Loop(a) ==
  /\ apc[a] = "loop"
  /\ IF job[a] # <<>>
       THEN /\ apc' = [apc EXCEPT ![a] = "job"]
            /\ cur' = [cur EXCEPT ![a] = job[a]]
            /\ job' = [job EXCEPT ![a] = <<>>]
       ELSE /\ apc' = [apc EXCEPT ![a] = IF broadcast_func[a] THEN "lock" ELSE "done"]
            /\ UNCHANGED <<cur, job>>
  /\ UNCHANGED <<testVars, mpc, fill, agent_list, turns, broadcast_func, broadcast_pending,
                 fieldVars, argVars, bno, dups, taken, repVars>>

\* with the mutex, nothing pending: pthread_cond_wait
CondWait(a) ==
  /\ apc[a] = "lock" /\ MutexFree /\ ~broadcast_pending[a]
  /\ apc' = [apc EXCEPT ![a] = "wait"]
  /\ UNCHANGED <<testVars, mpc, fill, agent_list, turnVars, broadcast_pending,
                 fieldVars, argVars, bno, dups, taken, repVars>>

\* with the mutex, a broadcast pending: clear it, signal, unlock
Take(a) ==
  /\ apc[a] = "lock" /\ MutexFree /\ broadcast_pending[a]
  /\ broadcast_pending' = [broadcast_pending EXCEPT ![a] = FALSE]
  /\ taken' = [taken EXCEPT ![a] = bno]
  /\ SignalFrom(a)
  /\ UNCHANGED <<testVars, fill, agent_list, turnVars, fieldVars, argVars, bno, dups,
                 repVars>>

\* the arguments, read after the unlock: the buffer and its size ...
ReadBuf(a) ==
  /\ apc[a] = "buf"
  /\ argBuf' = [argBuf EXCEPT ![a] = broadcast_buf[a]]
  /\ held' = [held EXCEPT ![a] = @ \cup {broadcast_buf[a]}]
  /\ apc' = [apc EXCEPT ![a] = "val"]
  /\ UNCHANGED <<testVars, mpc, fill, agent_list, turnVars, broadcast_pending, fieldVars,
                 argVal, bno, dups, taken, repVars>>

\* ... then the value; the callback is entered
ReadVal(a) ==
  /\ apc[a] = "val"
  /\ argVal' = [argVal EXCEPT ![a] = broadcast_val[a]]
  /\ apc' = [apc EXCEPT ![a] = "call"]
  /\ cur' = [cur EXCEPT ![a] = FirstTurn(turns[a])]
  /\ turns' = [turns EXCEPT ![a] = LaterTurns(turns[a])]
  /\ UNCHANGED <<testVars, mpc, fill, agent_list, job, broadcast_func, broadcast_pending,
                 fieldVars, argBuf, held, bno, dups, taken, repVars>>

AgentStep(a) ==
  \/ ReceiveBroadcast(a) \/ SendReport(a) \/ Await(a) \/ EndTurn(a) \/ Loop(a)
  \/ CondWait(a) \/ Take(a) \/ ReadBuf(a) \/ ReadVal(a)

----------------------------------------------------------------------------
\* pthread_cond_wait may return without a signal
SpuriousWakeup ==
  /\ \/ mpc = "wait" /\ mpc' = "relock" /\ UNCHANGED apc
     \/ /\ \E a \in Waiting : apc' = [apc EXCEPT ![a] = "lock"]
        /\ UNCHANGED mpc
  /\ UNCHANGED <<testVars, fill, agent_list, turnVars, broadcast_pending, fieldVars,
                 argVars, bno, dups, taken, repVars>>

Terminated == mpc \in {"end", "abort"} /\ UNCHANGED vars

Next ==
  \/ MainStep
  \/ \E a \in Agent : AgentStep(a)
  \/ SpuriousWakeup
  \/ Terminated

Spec == Init /\ [][Next]_vars

\* The scheduler runs every thread that can run; spurious wakeups are not
\* something to rely on.
FairSpec == Spec /\ WF_vars(MainStep) /\ \A a \in Agent : WF_vars(AgentStep(a))

----------------------------------------------------------------------------
(* Properties *)

Broadcasting == mpc \in {"fill", "fillVal", "wait", "relock"}
Returns      == Broadcasting /\ mpc' = "script"

\* js_agent_broadcast returns only when every agent on agent_list has taken
\* this very broadcast (cleared the pending flag this call set), whatever wakes
\* the caller and in whatever order the agents get the mutex.
TakenBeforeReturn ==
  [][Returns => \A a \in Range(agent_list) : taken[a] = bno]_vars

\* An agent is given a bare pointer: until its thread has exited, each buffer
\* it was ever handed is kept alive by a reference of the main context
\* (JS_DupValue in js_agent_broadcast, JS_FreeValue in js_agent_free).
SabHeldWhileUsed ==
  \A a \in Agent : \A k \in held[a] :
     apc[a] \notin {"idle", "done"} => \E b \in Agent : <<b, k>> \in dups

\* The arguments are read after the mutex is released: they may belong to a
\* later broadcast than the one taken, never to an earlier one, and never to
\* one that has not been made.
ArgsNeverStale ==
  \A a \in Agent : apc[a] = "call" =>
     /\ argBuf[a] \in taken[a]..bno
     /\ argVal[a] \in taken[a]..bno
     /\ taken[a] > 0

\* A test whose main script waits, between two broadcasts, for a report of each
\* agent, and whose agents report once per callback at most.
Paced(t) ==
  /\ \A i, j \in DOMAIN t.main :
        i < j /\ t.main[i] = "broadcast" /\ t.main[j] = "broadcast" =>
          Cardinality({k \in i..j : t.main[k] = "await"}) >= Len(t.agents)
  /\ \A s \in Range(t.agents) : \A i \in DOMAIN s :
        Cardinality({k \in DOMAIN s[i] : s[i][k] = "report"}) <= IF i = 1 THEN 0 ELSE 1

\* In a paced test, with no report of an earlier one left over, waiting for the
\* reports is protection enough for fields that are read without the mutex: a
\* callback is called with the buffer and the value of the broadcast its agent
\* took, both of the same one.
ArgsOfTakenBroadcast ==
  \A a \in Agent :
     (/\ apc[a] = "call"
      /\ Paced(Head(tests))
      /\ \A rep \in Range(sent) : rep.test = Len(tests))
     => argBuf[a] = taken[a] /\ argVal[a] = taken[a]

\* The calls of report() in the scripts of a test's agents, by script, turn and
\* place; a test waits for all its reports if it awaits one for each.
ReportCalls(t) ==
  {c \in UNION {UNION {{<<i, j>>} \X DOMAIN t.agents[i][j] : j \in DOMAIN t.agents[i]}
                   : i \in DOMAIN t.agents} :
     t.agents[c[1][1]][c[1][2]][c[2]] = "report"}
Fetching(t) ==
  Cardinality(ReportCalls(t)) <= Cardinality({k \in DOMAIN t.main : t.main[k] = "await"})

\* Every test that another follows waits for all its reports
LeavesNone(p) == \A i \in 1..(Len(p) - 1) : Fetching(p[i])

\* getReport returns a report of the running test, although report_list
\* outlives tests.
ReportsOfThisTest ==
  [][got' # got => got'[Len(got')].test = Len(tests)]_vars

\* assert(list_empty(&rt->gc_obj_list)) of JS_FreeRuntime: no object outlives a
\* test that broadcasts once, whatever its agents do.  (A second broadcast
\* overwrites broadcast_sab, and the reference to the first buffer leaks.)
NoObjectOutlivesTest == mpc = "abort" => bno > 1

\* A main thread that waits for agents which have all taken the broadcast is
\* woken and returns.
BroadcastReturns == (mpc = "wait" /\ ~IsBroadcastPending) ~> (mpc = "script")

\* The test process ends, when it is given one of these plans: no wait for a
\* broadcast, a report or a join is for ever.
TestsEnd(plans) == tests \in plans => <>(mpc = "end")

\* js_agent_broadcast is the barrier of BroadcastBarrier: an agent owes the
\* current broadcast while the loop has yet to reach it or its flag is set.
Barrier == INSTANCE BroadcastBarrier WITH
  members <- Range(agent_list),
  owing   <- Range(fill) \cup {a \in Agent : broadcast_pending[a]},
  open    <- ~Broadcasting,
  round   <- bno,
  seen    <- taken

BarrierSpec == Barrier!BSpec
=============================================================================
