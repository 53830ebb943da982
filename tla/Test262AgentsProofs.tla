------------------------- MODULE Test262AgentsProofs -------------------------
(***************************************************************************)
(* Theorems about the agents of run-test262.c, for any set of threads and  *)
(* any tests.                                                              *)
(***************************************************************************)
EXTENDS Test262Agents, SequenceTheorems, FiniteSetTheorems, TLAPS

NoDup(s) == \A i, j \in 1..Len(s) : s[i] = s[j] => i = j

(***************************************************************************)
(* The inductive invariant, in the parts the actions disturb.              *)
(***************************************************************************)
Listed == Range(agent_list)

\* agent_list holds each started thread once
ListInv ==
  /\ NoDup(agent_list)
  /\ \A a \in Agent : a \in Listed <=> apc[a] # "idle"

\* The fill loop walks agent_list; flags are set only behind it
FillInv ==
  /\ NoDup(fill)
  /\ Range(fill) \subseteq Listed
  /\ MutexFree => fill = <<>>
  /\ mpc = "fillVal" => fill # <<>> /\ broadcast_pending[Head(fill)]

\* A pending flag belongs to a listed agent and to the broadcast in progress,
\* and an agent that owes nothing has taken it
PendingInv ==
  /\ \A a \in Agent : broadcast_pending[a] => Broadcasting /\ a \in Listed
  /\ Broadcasting => \A a \in Listed :
        a \in Range(fill) \/ broadcast_pending[a] \/ taken[a] = bno

\* What an agent may point at is held by the reference made for it
HeldInv ==
  \A a \in Listed :
    /\ broadcast_buf[a] # NoSab => <<a, broadcast_buf[a]>> \in dups
    /\ \A k \in held[a] : <<a, k>> \in dups

\* The fields are never older than the broadcast taken
ArgsOf(a) ==
  /\ taken[a] <= bno /\ broadcast_buf[a] <= bno /\ broadcast_val[a] <= bno
  /\ taken[a] <= broadcast_buf[a] /\ taken[a] <= broadcast_val[a]
  /\ broadcast_pending[a] =>
       /\ broadcast_buf[a] = bno
       /\ broadcast_val[a] = bno \/ (mpc = "fillVal" /\ a = Head(fill))
  /\ apc[a] \in {"buf", "val", "call"} => taken[a] > 0
  /\ apc[a] \in {"val", "call"} => argBuf[a] \in taken[a]..bno
  /\ apc[a] = "call" => argVal[a] \in taken[a]..bno

ArgsInv == \A a \in Listed : ArgsOf(a)

\* TypeOK by itself is not inductive: there is always a call to drop when a
\* broadcast returns, a test to drop when one ends, and an agent to fill.
TInv == /\ TypeOK
        /\ Broadcasting => todo # <<>>
        /\ mpc # "end" => tests # <<>>
        /\ mpc = "fillVal" => fill # <<>>

BnoInv == Broadcasting => bno > 0

IInv == TInv /\ ListInv /\ FillInv /\ PendingInv /\ HeldInv /\ ArgsInv /\ BnoInv

----------------------------------------------------------------------------
(* Sequences *)

LEMMA RangeAppend ==
  ASSUME NEW S, NEW s \in Seq(S), NEW e \in S
  PROVE  /\ Range(Append(s, e)) = Range(s) \cup {e}
         /\ NoDup(s) /\ e \notin Range(s) => NoDup(Append(s, e))
<1> DEFINE t == Append(s, e)
           n == Len(s)
<1>1. /\ t \in Seq(S) /\ Len(t) = n + 1 /\ n \in Nat
      /\ \A i \in 1..n : t[i] = s[i]
      /\ t[n + 1] = e
  OBVIOUS
<1>2. /\ Range(s) = {s[i] : i \in 1..n}
      /\ Range(t) = {t[i] : i \in 1..n + 1}
  BY <1>1, RangeEquality
<1>3. 1..n + 1 = 1..n \cup {n + 1}
  BY <1>1
<1>4. Range(t) = Range(s) \cup {e}
  BY <1>1, <1>2, <1>3
<1>5. ASSUME NoDup(s), e \notin Range(s), NEW i \in 1..n + 1, NEW j \in 1..n + 1, t[i] = t[j]
      PROVE  i = j
  <2> HIDE DEF t, n
  <2>1. \A k \in 1..n : t[k] # e
    BY <1>1, <1>2, <1>5
  <2>2. CASE i \in 1..n /\ j \in 1..n
    <3>1. s[i] = s[j]
      BY <1>1, <1>5, <2>2
    <3> QED BY <3>1, <2>2, <1>5 DEF NoDup, n
  <2>3. CASE i = n + 1 \/ j = n + 1
    BY <1>1, <1>3, <1>5, <2>1, <2>3
  <2> QED BY <1>3, <2>2, <2>3
<1>6. NoDup(s) /\ e \notin Range(s) => NoDup(t)
  BY <1>1, <1>5 DEF NoDup
<1> QED BY <1>4, <1>6

\* Range of the empty sequence, and of a sequence without its head
LEMMA RangeEmpty == Range(<<>>) = {}
  BY DEF Range

LEMMA RangeTail ==
  ASSUME NEW S, NEW s \in Seq(S), s # <<>>
  PROVE  /\ Head(s) \in S /\ Tail(s) \in Seq(S)
         /\ Range(s) = Range(Tail(s)) \cup {Head(s)}
         /\ NoDup(s) => NoDup(Tail(s)) /\ Head(s) \notin Range(Tail(s))
<1>1. /\ Head(s) \in S /\ Tail(s) \in Seq(S) /\ Len(s) \in Nat \ {0}
      /\ Len(Tail(s)) = Len(s) - 1
      /\ Head(s) = s[1]
      /\ \A i \in 1..Len(Tail(s)) : Tail(s)[i] = s[i + 1]
  BY HeadTailProperties, EmptySeq
<1>2. /\ Range(s) = {s[i] : i \in 1..Len(s)}
      /\ Range(Tail(s)) = {Tail(s)[i] : i \in 1..Len(Tail(s))}
  BY <1>1, RangeEquality
<1>3. Range(s) = Range(Tail(s)) \cup {Head(s)}
  <2>1. ASSUME NEW x \in Range(s) PROVE x \in Range(Tail(s)) \cup {Head(s)}
    <3>1. PICK i \in 1..Len(s) : x = s[i]
      BY <1>2
    <3>2. CASE i = 1
      BY <3>1, <3>2, <1>1
    <3>3. CASE i # 1
      <4>1. i - 1 \in 1..Len(Tail(s)) /\ x = Tail(s)[i - 1]
        BY <3>1, <3>3, <1>1
      <4> QED BY <4>1, <1>2
    <3> QED BY <3>2, <3>3
  <2>2. ASSUME NEW x \in Range(Tail(s)) PROVE x \in Range(s)
    BY <1>1, <1>2
  <2>3. Head(s) \in Range(s)
    BY <1>1, <1>2
  <2> QED BY <2>1, <2>2, <2>3
<1>4. NoDup(s) => NoDup(Tail(s)) /\ Head(s) \notin Range(Tail(s))
  BY <1>1, <1>2 DEF NoDup
<1> QED BY <1>1, <1>3, <1>4

----------------------------------------------------------------------------
(* Type correctness *)

LEMMA TypeInit == Init => TInv
<1> SUFFICES ASSUME Init PROVE TInv
  OBVIOUS
<1>1. /\ tests \in Seq(Test) /\ tests # <<>>
  BY PlansAssumption DEF Init
<1>2. Head(tests) \in Test
  BY <1>1
<1>3. todo \in Seq(MainOp) /\ scripts \in Seq(Seq(Seq(AgentOp)))
  BY <1>2 DEF Init, Test
<1>4. TypeOK
  BY <1>1, <1>3 DEF Init, TypeOK, MainPc, AgentPc, NoSab
<1> QED
  BY <1>1, <1>4 DEF Init, TInv, Broadcasting

\* The part of a script that is run next, and what is left of it
LEMMA TurnsType ==
  ASSUME NEW ts \in Seq(Seq(AgentOp))
  PROVE  FirstTurn(ts) \in Seq(AgentOp) /\ LaterTurns(ts) \in Seq(Seq(AgentOp))
  BY DEF FirstTurn, LaterTurns

\* A call a script is about to make can be dropped from it
LEMMA MainCallTaken ==
  ASSUME TypeOK, MainCall # "end"
  PROVE  todo # <<>> /\ Tail(todo) \in Seq(MainOp)
<1>1. todo # <<>> /\ todo \in Seq(MainOp)
  BY DEF MainCall, TypeOK
<1> QED BY <1>1

LEMMA AgentCallTaken ==
  ASSUME TypeOK, NEW a \in Agent, AgentCall(a) # "end"
  PROVE  cur[a] # <<>> /\ Tail(cur[a]) \in Seq(AgentOp)
<1>1. cur[a] # <<>> /\ cur[a] \in Seq(AgentOp)
  BY DEF AgentCall, TypeOK
<1> QED BY <1>1

LEMMA NoOps == <<>> \in Seq(AgentOp)
  BY EmptySeq

LEMMA TypeNext == TInv /\ [Next]_vars => TInv'
<1> SUFFICES ASSUME TInv, [Next]_vars PROVE TInv'
  OBVIOUS
<1> USE DEF TInv, TypeOK, Broadcasting
<1>1. ASSUME NEW a \in Agent, Start(a) PROVE TInv'
  <2>1. Head(scripts) \in Seq(Seq(AgentOp)) /\ Tail(scripts) \in Seq(Seq(Seq(AgentOp)))
    BY SMTT(30), <1>1 DEF Start
  <2>2. todo # <<>> /\ todo' \in Seq(MainOp)
    BY <1>1, MainCallTaken DEF Start
  <2>3. /\ cur' \in [Agent -> Seq(AgentOp)] /\ turns' \in [Agent -> Seq(Seq(AgentOp))]
        /\ job' \in [Agent -> Seq(AgentOp)] /\ scripts' \in Seq(Seq(Seq(AgentOp)))
    BY <1>1, <2>1, NoOps, TurnsType DEF Start
  <2>4. broadcast_sab' \in [Agent -> Nat] /\ broadcast_buf' \in [Agent -> Nat]
    BY <1>1 DEF Start, NoSab
  <2>5. agent_list' \in Seq(Agent) /\ held' \in [Agent -> SUBSET Nat]
    BY <1>1 DEF Start
  <2> QED
    BY <1>1, <2>2, <2>3, <2>4, <2>5 DEF Start, repVars, AgentPc
<1>2. CASE Broadcast
  <2>1. todo # <<>>
    BY <1>2, MainCallTaken DEF Broadcast
  <2>2. todo' # <<>> /\ tests' # <<>>
    BY <1>2, <2>1 DEF Broadcast, testVars
  <2>3. fill' \in Seq(Agent) /\ bno' \in Nat /\ mpc' = "fill"
    BY <1>2 DEF Broadcast
  <2>4. tests' = tests /\ todo' = todo /\ scripts' = scripts
    BY <1>2 DEF Broadcast, testVars
  <2> QED BY <1>2, <2>2, <2>3, <2>4 DEF Broadcast, testVars, turnVars, fieldVars, argVars, repVars, MainPc
<1>3. CASE FillBuf
  <2>1. Head(fill) \in Agent
    BY <1>3 DEF FillBuf
  <2>2. dups' \subseteq Agent \X Nat
    <3>1. <<Head(fill), bno>> \in Agent \X Nat
      BY <2>1
    <3> QED BY <1>3, <3>1 DEF FillBuf, Duplicate
  <2> QED
    BY <1>3, <2>1, <2>2 DEF FillBuf, testVars, turnVars, argVars, repVars, MainPc
<1>4. CASE FillVal
  <2>1. Head(fill) \in Agent /\ Tail(fill) \in Seq(Agent)
    BY <1>4 DEF FillVal
  <2> QED
    BY <1>4, <2>1 DEF FillVal, testVars, turnVars, argVars, repVars, MainPc
<1>5. ASSUME WaitOrReturn, Broadcasting PROVE mpc' \in MainPc /\ mpc' # "fillVal" /\ mpc' # "end"
             /\ todo' \in Seq(MainOp) /\ (Broadcasting' => todo' # <<>>)
  <2>1. Tail(todo) \in Seq(MainOp)
    BY <1>5
  <2> QED BY <1>5, <2>1 DEF WaitOrReturn, MainPc
<1>6. CASE WakeAll
  BY <1>6, <1>5 DEF WakeAll, turnVars, fieldVars, argVars, repVars, AgentPc
<1>7. CASE Recheck
  BY <1>7, <1>5 DEF Recheck, turnVars, fieldVars, argVars, repVars
<1>8. CASE GetReport
  <2>1. todo # <<>> /\ todo' \in Seq(MainOp)
    BY <1>8, MainCallTaken DEF GetReport
  <2>2. got' \in Seq(Report) /\ report_list' \in Seq(Report)
    <3>1. CASE report_list = <<>>
      BY <1>8, <3>1 DEF GetReport
    <3>2. CASE report_list # <<>>
      <4>1. Head(report_list) \in Report /\ Tail(report_list) \in Seq(Report)
        BY <3>2
      <4>2. \/ got' = Append(got, Head(report_list)) /\ report_list' = Tail(report_list)
            \/ UNCHANGED <<got, report_list>>
        BY <1>8 DEF GetReport, Dequeue
      <4>3. got \in Seq(Report) /\ report_list \in Seq(Report)
        OBVIOUS
      <4>4. Append(got, Head(report_list)) \in Seq(Report)
        BY <4>1, <4>3, AppendProperties
      <4> QED BY <4>1, <4>2, <4>3, <4>4
    <3> QED BY <3>1, <3>2
  <2> QED
    BY <1>8, <2>1, <2>2 DEF GetReport, turnVars, fieldVars, argVars
<1>9. CASE EndScript
  BY <1>9 DEF EndScript, testVars, turnVars, fieldVars, argVars, repVars, MainPc
<1>10. CASE JoinAgent
  <2>1. agent_list' \in Seq(Agent)
    BY <1>10 DEF JoinAgent
  <2>2. apc' \in [Agent -> AgentPc] /\ dups' \subseteq Agent \X Nat
    BY <1>10 DEF JoinAgent, Release, AgentPc
  <2> QED BY <1>10, <2>1, <2>2 DEF JoinAgent, testVars, turnVars, fieldVars, argVars, repVars, AgentPc
<1>11. CASE FreeRuntime
  <2>1. Tail(tests) \in Seq(Test) /\ (Tail(tests) # <<>> => Head(Tail(tests)) \in Test)
    BY SMTT(30), <1>11 DEF FreeRuntime
  <2>2. /\ tests' \in Seq(Test) /\ todo' \in Seq(MainOp)
        /\ scripts' \in Seq(Seq(Seq(AgentOp)))
    BY <1>11, <2>1 DEF FreeRuntime, Test, testVars
  <2>3. mpc' \in {"abort", "end", "script"} /\ bno' \in Nat /\ (mpc' # "end" => tests' # <<>>)
    BY SMTT(30), <1>11, <2>1 DEF FreeRuntime, testVars
  <2> QED
    BY <1>11, <2>2, <2>3 DEF FreeRuntime, turnVars, fieldVars, argVars, repVars, MainPc
<1>12. ASSUME NEW a \in Agent, ReceiveBroadcast(a) PROVE TInv'
  <2>1. cur' \in [Agent -> Seq(AgentOp)]
    BY <1>12, AgentCallTaken DEF ReceiveBroadcast
  <2> QED
    BY <1>12, <2>1 DEF ReceiveBroadcast, testVars, fieldVars, argVars, repVars
<1>13. ASSUME NEW a \in Agent, SendReport(a) PROVE TInv'
  <2>1. cur' \in [Agent -> Seq(AgentOp)]
    BY <1>13, AgentCallTaken DEF SendReport
  <2>2. [test |-> Len(tests), from |-> a] \in Report
    BY DEF Report
  <2>3. report_list' \in Seq(Report) /\ sent' \in Seq(Report)
    BY <1>13, <2>2 DEF SendReport, Enqueue
  <2> QED
    BY <1>13, <2>1, <2>3 DEF SendReport, testVars, fieldVars, argVars
<1>14. ASSUME NEW a \in Agent, Await(a) PROVE TInv'
  <2>1. cur' \in [Agent -> Seq(AgentOp)] /\ job' \in [Agent -> Seq(AgentOp)]
    BY <1>14, NoOps, AgentCallTaken DEF Await
  <2> QED
    BY <1>14, <2>1 DEF Await, testVars, fieldVars, argVars, repVars
<1>15. ASSUME NEW a \in Agent, EndTurn(a) PROVE TInv'
  <2>1. broadcast_func' \in [Agent -> BOOLEAN] /\ cur' \in [Agent -> Seq(AgentOp)]
    BY <1>15, NoOps DEF EndTurn
  <2> QED
    BY <1>15, <2>1 DEF EndTurn, testVars, fieldVars, argVars, repVars, AgentPc
<1>16. ASSUME NEW a \in Agent, Loop(a) PROVE TInv'
  <2>1. cur' \in [Agent -> Seq(AgentOp)] /\ job' \in [Agent -> Seq(AgentOp)]
        /\ apc' \in [Agent -> AgentPc]
    BY <1>16, NoOps DEF Loop, AgentPc
  <2> QED BY <1>16, <2>1 DEF Loop, testVars, fieldVars, argVars, repVars, AgentPc
<1>17. ASSUME NEW a \in Agent, CondWait(a) PROVE TInv'
  BY <1>17 DEF CondWait, testVars, turnVars, fieldVars, argVars, repVars, AgentPc
<1>18. ASSUME NEW a \in Agent, Take(a) PROVE TInv'
  <2>1. apc' \in [Agent -> AgentPc] /\ mpc' \in {mpc, "relock"}
        /\ (mpc' # mpc => mpc = "wait")
    BY <1>18 DEF Take, SignalFrom, AgentPc, Waiting
  <2> QED
    BY <1>18, <2>1 DEF Take, testVars, turnVars, fieldVars, argVars, repVars, MainPc
<1>19. ASSUME NEW a \in Agent, ReadBuf(a) PROVE TInv'
  BY <1>19 DEF ReadBuf, testVars, turnVars, fieldVars, repVars, AgentPc
<1>20. ASSUME NEW a \in Agent, ReadVal(a) PROVE TInv'
  BY <1>20, TurnsType DEF ReadVal, testVars, fieldVars, repVars, AgentPc
<1>21. CASE SpuriousWakeup
  BY <1>21 DEF SpuriousWakeup, Waiting, testVars, turnVars, fieldVars, argVars, repVars,
               AgentPc, MainPc
<1>22. CASE UNCHANGED vars
  BY <1>22 DEF vars, testVars, turnVars, fieldVars, argVars, repVars
<1> QED
  BY <1>1, <1>2, <1>3, <1>4, <1>6, <1>7, <1>8, <1>9, <1>10, <1>11, <1>12, <1>13, <1>14,
     <1>15, <1>16, <1>17, <1>18, <1>19, <1>20, <1>21, <1>22
  DEF Next, MainStep, AgentStep, Terminated

\* Every variable of the agent protocol keeps its type, for any number of
\* threads and any tests.
THEOREM TypeCorrect == Spec => []TypeOK
<1>1. TInv => TypeOK
  BY DEF TInv
<1> QED
  BY <1>1, TypeInit, TypeNext, PTL DEF Spec

----------------------------------------------------------------------------
(* agent_list *)

LEMMA ListNext == TInv /\ ListInv /\ [Next]_vars => ListInv'
<1> SUFFICES ASSUME TInv, ListInv, [Next]_vars PROVE ListInv'
  OBVIOUS
<1> USE DEF TInv, TypeOK
<1>1. ASSUME agent_list' = agent_list,
             \A b \in Agent : apc'[b] = "idle" <=> apc[b] = "idle"
      PROVE  ListInv'
  BY <1>1 DEF ListInv, Listed
<1>2. ASSUME NEW a \in Agent, Start(a) PROVE ListInv'
  <2>1. a \notin Listed
    BY <1>2 DEF Start, ListInv
  <2>2. Listed' = Listed \cup {a}
    BY <1>2, RangeAppend DEF Start, Listed
  <2>3. NoDup(agent_list')
    BY <1>2, <2>1, RangeAppend DEF Start, ListInv, Listed
  <2> QED
    BY <1>2, <2>1, <2>2, <2>3 DEF Start, ListInv
<1>3. CASE JoinAgent
  <2>1. /\ Listed = Listed' \cup {Head(agent_list)} /\ Head(agent_list) \notin Listed'
        /\ NoDup(agent_list') /\ Head(agent_list) \in Agent
    BY <1>3, RangeTail DEF JoinAgent, ListInv, Listed
  <2> QED
    BY <1>3, <2>1 DEF JoinAgent, ListInv
<1>4. CASE Broadcast \/ FillBuf \/ FillVal \/ Recheck \/ GetReport \/ EndScript \/ FreeRuntime
  BY <1>4, <1>1 DEF Broadcast, FillBuf, FillVal, Recheck, GetReport, EndScript, FreeRuntime
<1>5. CASE WakeAll
  BY <1>5, <1>1 DEF WakeAll
<1>6. ASSUME NEW a \in Agent, AgentStep(a) PROVE ListInv'
  <2>1. CASE ReceiveBroadcast(a) \/ SendReport(a) \/ Await(a)
    BY <2>1, <1>1 DEF ReceiveBroadcast, SendReport, Await
  <2>2. CASE EndTurn(a)
    BY <2>2, <1>1 DEF EndTurn, Running
  <2>3. CASE Loop(a)
    BY ZenonT(40), <2>3, <1>1 DEF Loop
  <2>4. CASE CondWait(a)
    BY <2>4, <1>1 DEF CondWait
  <2>5. CASE Take(a)
    BY <2>5, <1>1 DEF Take, SignalFrom, Waiting
  <2>6. CASE ReadBuf(a)
    BY <2>6, <1>1 DEF ReadBuf
  <2>7. CASE ReadVal(a)
    BY <2>7, <1>1 DEF ReadVal
  <2> QED
    BY <1>6, <2>1, <2>2, <2>3, <2>4, <2>5, <2>6, <2>7 DEF AgentStep
<1>7. CASE SpuriousWakeup
  BY <1>7, <1>1 DEF SpuriousWakeup, Waiting
<1>8. CASE UNCHANGED vars
  BY <1>8, <1>1 DEF vars
<1> QED
  BY <1>2, <1>3, <1>4, <1>5, <1>6, <1>7, <1>8 DEF Next, MainStep, Terminated

----------------------------------------------------------------------------
(* The fill loop and the pending flags *)

LEMMA FillNext ==
  TInv /\ ListInv /\ FillInv /\ PendingInv /\ BnoInv /\ [Next]_vars
    => FillInv' /\ PendingInv' /\ BnoInv'
<1> DEFINE Goal == FillInv' /\ PendingInv' /\ BnoInv'
<1> SUFFICES ASSUME TInv, ListInv, FillInv, PendingInv, BnoInv, [Next]_vars PROVE Goal
  OBVIOUS
<1> USE DEF TInv, TypeOK, Broadcasting, MutexFree
<1> HIDE DEF Goal
<1>1. ASSUME UNCHANGED <<mpc, fill, agent_list, broadcast_pending, bno, taken>> PROVE Goal
  BY <1>1 DEF Goal, FillInv, PendingInv, BnoInv, Listed
<1>2. ASSUME NEW a \in Agent, Start(a) PROVE Goal
  <2>1. Listed' = Listed \cup {a}
    BY <1>2, RangeAppend DEF Start, Listed
  <2>2. mpc = "script" /\ mpc' = "script" /\ fill = <<>> /\ fill' = <<>>
    BY <1>2 DEF Start, FillInv
  <2>3. \A b \in Agent : ~broadcast_pending[b]
    BY <2>2 DEF PendingInv
  <2>4. \A b \in Agent : ~broadcast_pending'[b]
    BY <1>2, <2>3 DEF Start
  <2> QED
    BY <2>1, <2>2, <2>4, RangeEmpty DEF Goal, FillInv, PendingInv, BnoInv, NoDup
<1>3. CASE Broadcast
  <2>1. /\ mpc = "script" /\ mpc' = "fill" /\ fill' = agent_list /\ bno' = bno + 1
        /\ UNCHANGED <<agent_list, broadcast_pending>>
    BY <1>3 DEF Broadcast
  <2>2. \A b \in Agent : ~broadcast_pending'[b]
    BY <2>1 DEF PendingInv
  <2> QED
    BY <2>1, <2>2 DEF Goal, FillInv, PendingInv, BnoInv, Listed, ListInv
<1>4. CASE FillBuf
  <2> DEFINE h == Head(fill)
  <2>1. h \in Agent /\ h \in Listed /\ Listed \subseteq Agent
    <3>1. fill \in Seq(Agent) /\ fill # <<>>
      BY <1>4 DEF FillBuf
    <3>2. h \in Agent /\ Range(fill) = Range(Tail(fill)) \cup {h}
      BY <3>1, RangeTail
    <3> QED BY <3>2, RangeOfSeq DEF FillInv, Listed
  <2>2. /\ broadcast_pending' = [broadcast_pending EXCEPT ![h] = TRUE]
        /\ mpc = "fill" /\ mpc' = "fillVal" /\ fill # <<>>
        /\ UNCHANGED <<fill, agent_list, bno, taken>>
    BY <1>4 DEF FillBuf
  <2> HIDE DEF h
  <2>3. FillInv' /\ BnoInv'
    BY <2>1, <2>2 DEF FillInv, BnoInv, Listed, h
  <2>4. PendingInv'
    <3>1. Listed' = Listed
      BY <2>2 DEF Listed
    <3>2. \A a \in Agent : broadcast_pending'[a] <=> a = h \/ broadcast_pending[a]
      BY <2>1, <2>2
    <3> QED
      BY <2>1, <2>2, <3>1, <3>2 DEF PendingInv
  <2> QED
    BY <2>3, <2>4 DEF Goal
<1>5. CASE FillVal
  <2> DEFINE h == Head(fill)
  <2>1. /\ h \in Agent /\ Range(fill) = Range(fill') \cup {h} /\ NoDup(fill')
        /\ broadcast_pending[h]
    BY <1>5, RangeTail DEF FillVal, FillInv
  <2>2. /\ mpc = "fillVal" /\ mpc' = "fill"
        /\ UNCHANGED <<agent_list, bno, taken, broadcast_pending>>
    BY <1>5 DEF FillVal
  <2> HIDE DEF h
  <2> QED
    BY <2>1, <2>2 DEF Goal, FillInv, PendingInv, BnoInv, Listed
<1>6. ASSUME Broadcasting, fill = <<>>, WaitOrReturn,
             UNCHANGED <<fill, agent_list, broadcast_pending, bno, taken>>
      PROVE  Goal
  <2>1. /\ mpc' \in {"wait", "script"}
        /\ mpc' = "script" => \A a \in Agent : ~broadcast_pending[a]
    BY <1>6 DEF WaitOrReturn, IsBroadcastPending, PendingInv, Listed
  <2> QED
    BY <1>6, <2>1 DEF Goal, FillInv, PendingInv, BnoInv, Listed
<1>7. CASE WakeAll
  BY <1>7, <1>6 DEF WakeAll
<1>8. CASE Recheck
  BY <1>8, <1>6 DEF Recheck, FillInv
<1>9. CASE GetReport
  BY <1>9, <1>1 DEF GetReport
<1>10. CASE EndScript
  BY <1>10 DEF EndScript, Goal, FillInv, PendingInv, BnoInv, Listed
<1>11. CASE JoinAgent
  <2>1. mpc = "join" /\ mpc' = "join" /\ fill = <<>> /\ fill' = <<>>
    BY <1>11 DEF JoinAgent, FillInv
  <2>2. \A b \in Agent : ~broadcast_pending'[b]
    BY <1>11, <2>1 DEF JoinAgent, PendingInv
  <2> QED
    BY <2>1, <2>2, RangeEmpty DEF Goal, FillInv, PendingInv, BnoInv, NoDup
<1>12. CASE FreeRuntime
  <2>1. /\ mpc = "join" /\ mpc' \in {"abort", "end", "script"} /\ fill = <<>> /\ fill' = <<>>
        /\ agent_list' = agent_list
    BY <1>12 DEF FreeRuntime, FillInv
  <2>2. \A b \in Agent : ~broadcast_pending'[b]
    BY <1>12, <2>1 DEF FreeRuntime, PendingInv
  <2> QED
    BY <2>1, <2>2, RangeEmpty DEF Goal, FillInv, PendingInv, BnoInv, NoDup
<1>13. ASSUME NEW a \in Agent, AgentStep(a) PROVE Goal
  <2>1. CASE Take(a)
    <3>1. /\ broadcast_pending' = [broadcast_pending EXCEPT ![a] = FALSE]
          /\ taken' = [taken EXCEPT ![a] = bno]
          /\ UNCHANGED <<fill, agent_list, bno>>
          /\ mpc' = mpc \/ (mpc = "wait" /\ mpc' = "relock")
          /\ mpc \notin {"fill", "fillVal"}
      BY <2>1 DEF Take, SignalFrom
    <3> QED
      BY SMTT(30), <3>1 DEF Goal, FillInv, PendingInv, BnoInv, Listed
  <2>2. CASE ~Take(a)
    BY <1>13, <2>2, <1>1 DEF AgentStep, ReceiveBroadcast, SendReport, Await, EndTurn, Loop,
         CondWait, ReadBuf, ReadVal
  <2> QED BY <2>1, <2>2
<1>14. CASE SpuriousWakeup
  <2>1. /\ UNCHANGED <<fill, agent_list, bno, taken, broadcast_pending>>
        /\ mpc' = mpc \/ (mpc = "wait" /\ mpc' = "relock")
    BY <1>14 DEF SpuriousWakeup
  <2> QED
    BY <2>1 DEF Goal, FillInv, PendingInv, BnoInv, Listed
<1>15. CASE UNCHANGED vars
  BY <1>15, <1>1 DEF vars
<1> QED
  BY <1>2, <1>3, <1>4, <1>5, <1>7, <1>8, <1>9, <1>10, <1>11, <1>12, <1>13, <1>14, <1>15
  DEF Next, MainStep, Terminated

----------------------------------------------------------------------------
(* What the agents point at, and the age of what they read *)

LEMMA HeldNext ==
  TInv /\ ListInv /\ FillInv /\ PendingInv /\ ArgsInv /\ HeldInv /\ [Next]_vars => HeldInv'
<1> SUFFICES ASSUME TInv, ListInv, FillInv, PendingInv, ArgsInv, HeldInv, [Next]_vars
             PROVE  HeldInv'
  OBVIOUS
<1> USE DEF TInv, TypeOK
<1>0. Listed \subseteq Agent
  BY RangeOfSeq DEF Listed
<1>1. ASSUME UNCHANGED <<agent_list, broadcast_buf, held, dups>> PROVE HeldInv'
  BY <1>1 DEF HeldInv, Listed
<1>2. ASSUME NEW a \in Agent, Start(a) PROVE HeldInv'
  <2>1. Listed' = Listed \cup {a} /\ a \notin Listed
    BY <1>2, RangeAppend DEF Start, Listed, ListInv
  <2> QED
    BY <1>0, <1>2, <2>1 DEF Start, HeldInv
<1>3. CASE FillBuf
  <2> DEFINE h == Head(fill)
  <2>1. /\ broadcast_buf' = [broadcast_buf EXCEPT ![h] = bno]
        /\ dups' = dups \cup {<<h, bno>>}
        /\ agent_list' = agent_list /\ held' = held
    BY <1>3 DEF FillBuf, Duplicate, argVars
  <2> HIDE DEF h
  <2> QED
    BY <1>0, <2>1 DEF HeldInv, Listed
<1>4. CASE JoinAgent
  <2> DEFINE h == Head(agent_list)
  <2>1. Listed = Listed' \cup {h} /\ h \notin Listed'
    BY <1>4, RangeTail DEF JoinAgent, ListInv, Listed
  <2>2. /\ dups' = dups \ {<<h, broadcast_sab[h]>>}
        /\ UNCHANGED <<broadcast_buf, held>>
    BY <1>4 DEF JoinAgent, Release, fieldVars, argVars
  <2> HIDE DEF h
  <2> QED
    BY <2>1, <2>2 DEF HeldInv
<1>5. ASSUME NEW a \in Agent, ReadBuf(a) PROVE HeldInv'
  <2>1. a \in Listed
    BY <1>5 DEF ReadBuf, ListInv
  <2>3. taken[a] > 0 /\ taken[a] <= broadcast_buf[a]
    BY <1>5, <2>1 DEF ReadBuf, ArgsInv, ArgsOf
  <2>2. /\ held' = [held EXCEPT ![a] = @ \cup {broadcast_buf[a]}]
        /\ UNCHANGED <<agent_list, broadcast_buf, dups>>
    BY <1>5 DEF ReadBuf, fieldVars
  <2> QED
    <3>1. broadcast_buf[a] # NoSab
      BY <1>0, <2>1, <2>3 DEF NoSab
    <3>2. Listed' = Listed
      BY <2>2 DEF Listed
    <3>3. ASSUME NEW b \in Listed, NEW k \in held'[b] PROVE <<b, k>> \in dups
      BY <1>0, <2>1, <2>2, <3>1, <3>3 DEF HeldInv
    <3> QED
      BY <2>2, <3>2, <3>3 DEF HeldInv
<1>6. CASE Broadcast \/ FillVal \/ WakeAll \/ Recheck \/ GetReport \/ EndScript \/ FreeRuntime
  BY <1>6, <1>1 DEF Broadcast, FillVal, WakeAll, Recheck, GetReport, EndScript, FreeRuntime,
     fieldVars, argVars
<1>7. ASSUME NEW a \in Agent, AgentStep(a), ~ReadBuf(a) PROVE HeldInv'
  BY <1>7, <1>1 DEF AgentStep, ReceiveBroadcast, SendReport, Await, EndTurn, Loop, CondWait,
     Take, ReadVal, fieldVars, argVars
<1>8. CASE SpuriousWakeup
  BY <1>8, <1>1 DEF SpuriousWakeup, fieldVars, argVars
<1>9. CASE UNCHANGED vars
  BY <1>9, <1>1 DEF vars, fieldVars, argVars
<1> QED
  BY <1>2, <1>3, <1>4, <1>5, <1>6, <1>7, <1>8, <1>9 DEF Next, MainStep, Terminated

LEMMA ArgsNext ==
  TInv /\ ListInv /\ FillInv /\ PendingInv /\ BnoInv /\ ArgsInv /\ [Next]_vars => ArgsInv'
<1> SUFFICES ASSUME TInv, ListInv, FillInv, PendingInv, BnoInv, ArgsInv, [Next]_vars
             PROVE  ArgsInv'
  OBVIOUS
<1> USE DEF TInv, TypeOK
<1>0. Listed \subseteq Agent
  BY RangeOfSeq DEF Listed
<1>1. ASSUME UNCHANGED <<agent_list, taken, bno, broadcast_buf, broadcast_val, argBuf, argVal,
                         broadcast_pending>>,
             (mpc' = mpc /\ fill' = fill) \/ mpc # "fillVal",
             \A b \in Agent : apc'[b] \in {"buf", "val", "call"} => apc'[b] = apc[b]
      PROVE  ArgsInv'
  BY <1>0, <1>1 DEF ArgsInv, ArgsOf, Listed
<1>2. ASSUME NEW a \in Agent, Start(a) PROVE ArgsInv'
  <2>1. Listed' = Listed \cup {a} /\ a \notin Listed
    BY <1>2, RangeAppend DEF Start, Listed, ListInv
  <2>2. ASSUME NEW b \in Listed PROVE ArgsOf(b)'
    BY <1>0, <1>2, <2>1, <2>2 DEF Start, ArgsInv, ArgsOf
  <2>3. ArgsOf(a)'
    BY <1>2 DEF Start, ArgsOf, NoSab
  <2> QED
    BY <2>1, <2>2, <2>3 DEF ArgsInv, ArgsOf
<1>3. CASE Broadcast
  <2>1. \A b \in Agent : ~broadcast_pending[b]
    BY <1>3 DEF Broadcast, PendingInv, Broadcasting
  <2> QED
    BY SMTT(30), <1>0, <1>3, <2>1 DEF Broadcast, ArgsInv, ArgsOf, Listed, fieldVars, argVars
<1>4. CASE FillBuf
  <2> DEFINE h == Head(fill)
  <2>1. /\ broadcast_buf' = [broadcast_buf EXCEPT ![h] = bno]
        /\ broadcast_pending' = [broadcast_pending EXCEPT ![h] = TRUE]
        /\ mpc = "fill" /\ mpc' = "fillVal" /\ h' = h
        /\ UNCHANGED <<agent_list, broadcast_val, bno, taken, apc, argBuf, argVal>>
    BY <1>4 DEF FillBuf, argVars
  <2> HIDE DEF h
  <2>2. ASSUME NEW b \in Listed PROVE ArgsOf(b)'
    <3>1. ArgsOf(b) /\ b \in Agent
      BY <1>0, <2>2 DEF ArgsInv
    <3>2. CASE b = h
      <4>1. /\ broadcast_buf'[b] = bno /\ broadcast_pending'[b]
            /\ b = Head(fill)' /\ mpc' = "fillVal"
        BY <2>1, <3>1, <3>2 DEF h
      <4> QED BY SMTT(30), <2>1, <3>1, <4>1 DEF ArgsOf
    <3>3. CASE b # h
      BY <2>1, <3>1, <3>3 DEF ArgsOf
    <3> QED BY <3>2, <3>3
  <2> QED
    BY <2>1, <2>2 DEF ArgsInv, ArgsOf, Listed
<1>5. CASE FillVal
  <2> DEFINE h == Head(fill)
  <2>1. /\ broadcast_val' = [broadcast_val EXCEPT ![h] = bno]
        /\ mpc' = "fill" /\ h \in Agent
        /\ UNCHANGED <<agent_list, broadcast_buf, broadcast_pending, bno, taken, apc,
                       argBuf, argVal>>
    BY <1>5 DEF FillVal, argVars
  <2>2. ASSUME NEW b \in Listed PROVE ArgsOf(b)'
    BY <1>0, <2>1, <2>2 DEF ArgsInv, ArgsOf
  <2> QED
    BY <2>1, <2>2 DEF ArgsInv, ArgsOf, Listed
<1>6. CASE WakeAll
  BY <1>6, <1>1 DEF WakeAll, fieldVars, argVars
<1>7. CASE Recheck \/ GetReport \/ EndScript
  BY <1>7, <1>1 DEF Recheck, GetReport, EndScript, fieldVars, argVars
<1>8. CASE JoinAgent
  <2>1. Listed = Listed' \cup {Head(agent_list)} /\ Head(agent_list) \in Agent
    BY <1>8, RangeTail DEF JoinAgent, Listed
  <2>2. ASSUME NEW b \in Listed' PROVE ArgsOf(b)'
    BY <1>0, <1>8, <2>1, <2>2 DEF JoinAgent, ArgsInv, ArgsOf, fieldVars, argVars
  <2> QED
    BY <2>2 DEF ArgsInv
<1>9. CASE FreeRuntime
  <2>1. Listed' = {}
    BY <1>9, RangeEmpty DEF FreeRuntime, Listed
  <2> QED BY <2>1 DEF ArgsInv
<1>10. ASSUME NEW a \in Agent, Take(a) PROVE ArgsInv'
  <2>1. /\ broadcast_pending[a] /\ broadcast_pending' = [broadcast_pending EXCEPT ![a] = FALSE]
        /\ taken' = [taken EXCEPT ![a] = bno]
        /\ mpc # "fillVal" /\ bno > 0
        /\ \A b \in Agent : b # a /\ apc'[b] \in {"buf", "val", "call"} => apc'[b] = apc[b]
        /\ apc'[a] = "buf"
        /\ UNCHANGED <<agent_list, broadcast_buf, broadcast_val, bno, argBuf, argVal>>
    BY <1>10 DEF Take, SignalFrom, Waiting, MutexFree, PendingInv, BnoInv, fieldVars, argVars
  <2>2. ASSUME NEW b \in Listed PROVE ArgsOf(b)'
    BY <1>0, <2>1, <2>2 DEF ArgsInv, ArgsOf
  <2> QED
    BY <2>1, <2>2 DEF ArgsInv, ArgsOf, Listed
<1>11. ASSUME NEW a \in Agent, ReadBuf(a) PROVE ArgsInv'
  <2>2. /\ argBuf' = [argBuf EXCEPT ![a] = broadcast_buf[a]]
        /\ apc[a] = "buf" /\ apc' = [apc EXCEPT ![a] = "val"]
        /\ UNCHANGED <<mpc, fill, agent_list, broadcast_pending, bno, taken, broadcast_buf, broadcast_val, argVal>>
    BY <1>11 DEF ReadBuf, fieldVars
  <2>1. ASSUME NEW b \in Listed PROVE ArgsOf(b)'
    <3>1. ArgsOf(b) /\ b \in Agent
      BY <1>0, <2>1 DEF ArgsInv
    <3>2. CASE b = a
      <4>1. argBuf'[b] \in taken[b]..bno
        BY <2>2, <3>1, <3>2 DEF ArgsOf
      <4> QED BY <2>2, <3>1, <3>2, <4>1 DEF ArgsOf
    <3>3. CASE b # a
      BY <2>2, <3>1, <3>3 DEF ArgsOf
    <3> QED BY <3>2, <3>3
  <2> QED
    BY <1>11, <2>1 DEF ReadBuf, ArgsInv, ArgsOf, Listed
<1>12. ASSUME NEW a \in Agent, ReadVal(a) PROVE ArgsInv'
  <2>2. /\ argVal' = [argVal EXCEPT ![a] = broadcast_val[a]]
        /\ apc[a] = "val" /\ apc' = [apc EXCEPT ![a] = "call"]
        /\ UNCHANGED <<mpc, fill, agent_list, broadcast_pending, bno, taken, broadcast_val, broadcast_buf, argBuf>>
    BY <1>12 DEF ReadVal, fieldVars
  <2>1. ASSUME NEW b \in Listed PROVE ArgsOf(b)'
    <3>1. ArgsOf(b) /\ b \in Agent
      BY <1>0, <2>1 DEF ArgsInv
    <3>2. CASE b = a
      <4>1. argVal'[b] \in taken[b]..bno
        BY <2>2, <3>1, <3>2 DEF ArgsOf
      <4> QED BY <2>2, <3>1, <3>2, <4>1 DEF ArgsOf
    <3>3. CASE b # a
      BY <2>2, <3>1, <3>3 DEF ArgsOf
    <3> QED BY <3>2, <3>3
  <2> QED
    BY <1>12, <2>1 DEF ReadVal, ArgsInv, ArgsOf, Listed
<1>13. ASSUME NEW a \in Agent, AgentStep(a), ~Take(a), ~ReadBuf(a), ~ReadVal(a) PROVE ArgsInv'
  BY ZenonT(40), <1>13, <1>1 DEF AgentStep, ReceiveBroadcast, SendReport, Await, EndTurn, Loop, CondWait,
     fieldVars, argVars
<1>14. CASE SpuriousWakeup
  BY <1>14, <1>1 DEF SpuriousWakeup, Waiting, fieldVars, argVars
<1>15. CASE UNCHANGED vars
  BY <1>15, <1>1 DEF vars, fieldVars, argVars
<1> QED
  BY <1>2, <1>3, <1>4, <1>5, <1>6, <1>7, <1>8, <1>9, <1>10, <1>11, <1>12, <1>13, <1>14, <1>15
  DEF Next, MainStep, Terminated

----------------------------------------------------------------------------
(* The theorems *)

LEMMA InvInit == Init => IInv
<1> SUFFICES ASSUME Init PROVE IInv
  OBVIOUS
<1>1. Listed = {} /\ Range(fill) = {}
  BY RangeEmpty DEF Init, Listed
<1>2. TInv
  BY TypeInit
<1> QED
  BY <1>1, <1>2 DEF Init, IInv, ListInv, FillInv, PendingInv, HeldInv, ArgsInv, BnoInv,
     NoDup, Broadcasting, MutexFree

LEMMA InvNext == IInv /\ [Next]_vars => IInv'
  BY TypeNext, ListNext, FillNext, HeldNext, ArgsNext DEF IInv

THEOREM Invariance == Spec => []IInv
  BY InvInit, InvNext, PTL DEF Spec

\* Whatever the scripts do and however threads interleave, a buffer an agent
\* was handed is referenced until its thread has been joined.
THEOREM SabHeld == Spec => []SabHeldWhileUsed
<1>1. IInv => SabHeldWhileUsed
  BY DEF IInv, ListInv, HeldInv, SabHeldWhileUsed
<1> QED
  BY <1>1, Invariance, PTL

\* A callback's arguments are at least as recent as the broadcast it took.
THEOREM ArgsFresh == Spec => []ArgsNeverStale
<1>1. IInv => ArgsNeverStale
  BY DEF IInv, ListInv, ArgsInv, ArgsOf, ArgsNeverStale
<1> QED
  BY <1>1, Invariance, PTL

\* No flag is set any more when a broadcast returns
LEMMA ReturnMeansTaken ==
  ASSUME IInv, [Next]_vars, Returns
  PROVE  (\A a \in Listed : taken[a] = bno)
         /\ (\A a \in Agent : ~broadcast_pending[a]) /\ fill = <<>>
         /\ UNCHANGED <<agent_list, fill, broadcast_pending, bno, taken>>
<1> USE DEF IInv, TInv, TypeOK
<1>1. CASE WakeAll \/ Recheck
  <2>1. /\ fill = <<>> /\ ~IsBroadcastPending
        /\ UNCHANGED <<agent_list, fill, broadcast_pending, bno, taken>>
    BY <1>1 DEF WakeAll, Recheck, WaitOrReturn, Returns, FillInv, MutexFree
  <2>2. \A a \in Listed : ~broadcast_pending[a] /\ taken[a] = bno
    BY <2>1, RangeEmpty DEF Returns, PendingInv, IsBroadcastPending, Listed
  <2> QED
    BY <2>1, <2>2 DEF PendingInv
<1>2. CASE ~(WakeAll \/ Recheck)
  <2>1. ASSUME NEW a \in Agent PROVE ~Start(a)
    BY DEF Start, Returns, Broadcasting
  <2>2. ~Broadcast /\ ~FillBuf /\ ~FillVal /\ ~GetReport /\ ~EndScript /\ ~JoinAgent /\ ~FreeRuntime
    BY DEF Broadcast, FillBuf, FillVal, GetReport, EndScript, JoinAgent, FreeRuntime,
       Returns, Broadcasting
  <2>3. ASSUME NEW a \in Agent PROVE ~AgentStep(a)
    BY DEF AgentStep, ReceiveBroadcast, SendReport, Await, EndTurn, Loop, CondWait, Take,
       SignalFrom, ReadBuf, ReadVal, Returns, Broadcasting
  <2>4. ~SpuriousWakeup /\ ~UNCHANGED vars
    BY DEF SpuriousWakeup, vars, Returns, Broadcasting
  <2> QED
    BY <1>2, <2>1, <2>2, <2>3, <2>4 DEF Next, MainStep, Terminated
<1> QED BY <1>1, <1>2

\* js_agent_broadcast returns only when every listed agent has taken it.
THEOREM Taken == Spec => TakenBeforeReturn
<1>1. IInv /\ [Next]_vars => [Returns => \A a \in Range(agent_list) : taken[a] = bno]_vars
  BY ReturnMeansTaken DEF Listed
<1> QED
  BY <1>1, Invariance, PTL DEF Spec, TakenBeforeReturn

----------------------------------------------------------------------------
(* Refinement of BroadcastBarrier *)

Owing == Range(fill) \cup {a \in Agent : broadcast_pending[a]}

BarrierStep == [Barrier!BNext]_(Barrier!bvars)

\* A step that leaves the mapped state alone stutters
LEMMA Stutter ==
  ASSUME Listed' = Listed, Owing' = Owing, Broadcasting' <=> Broadcasting,
         bno' = bno, taken' = taken
  PROVE  BarrierStep
  BY DEF BarrierStep, Barrier!bvars, Listed, Owing

LEMMA BarrierNext == IInv /\ [Next]_vars => BarrierStep
<1> SUFFICES ASSUME IInv, [Next]_vars PROVE BarrierStep
  OBVIOUS
<1> USE DEF IInv, TInv, TypeOK
<1>0. Listed \subseteq Agent /\ Range(fill) \subseteq Agent
  BY RangeOfSeq DEF Listed
<1>1. ASSUME UNCHANGED <<agent_list, fill, broadcast_pending, bno, taken>>,
             Broadcasting' <=> Broadcasting
      PROVE  BarrierStep
  BY <1>1, Stutter DEF Listed, Owing
<1>2. ASSUME ~Broadcasting
      PROVE  Owing = {}
  BY <1>2, RangeEmpty DEF Owing, FillInv, PendingInv, MutexFree, Broadcasting
<1>3. ASSUME NEW a \in Agent, Start(a) PROVE BarrierStep
  <2>1. /\ Listed' = Listed \cup {a} /\ a \notin Listed
        /\ taken' = [taken EXCEPT ![a] = 0] /\ bno' = bno
        /\ ~Broadcasting /\ ~Broadcasting'
    BY <1>3, RangeAppend DEF Start, Listed, ListInv, Broadcasting
  <2>2. Owing' = Owing
    <3>1. fill' = fill /\ ~broadcast_pending[a]
          /\ broadcast_pending' = [broadcast_pending EXCEPT ![a] = FALSE]
      BY <1>3, <2>1 DEF Start, PendingInv
    <3> QED BY <3>1 DEF Owing
  <2>3. Barrier!Enrol(a)
    BY <2>1, <2>2 DEF Barrier!Enrol, Listed, Owing
  <2> QED
    BY <2>3 DEF BarrierStep, Barrier!BNext
<1>4. CASE Broadcast
  <2>1. /\ ~Broadcasting /\ Broadcasting' /\ bno' = bno + 1
        /\ UNCHANGED <<agent_list, taken, broadcast_pending>> /\ fill' = agent_list
    BY <1>4 DEF Broadcast, Broadcasting
  <2>2. Owing' = Listed
    BY <2>1 DEF Owing, PendingInv, Listed
  <2>3. Barrier!Issue
    BY <2>1, <2>2 DEF Barrier!Issue, Listed, Owing
  <2> QED
    BY <2>3 DEF BarrierStep, Barrier!BNext
<1>5. CASE FillBuf
  <2> DEFINE h == Head(fill)
  <2>1. fill \in Seq(Agent) /\ fill # <<>>
    BY <1>5 DEF FillBuf
  <2>2. h \in Agent /\ Range(fill) = Range(Tail(fill)) \cup {h}
    BY <2>1, RangeTail
  <2>3. /\ broadcast_pending' = [broadcast_pending EXCEPT ![h] = TRUE]
        /\ UNCHANGED <<fill, agent_list, bno, taken>> /\ Broadcasting /\ Broadcasting'
    BY <1>5 DEF FillBuf, Broadcasting
  <2> HIDE DEF h
  <2>4. Owing' = Owing
    BY <2>2, <2>3 DEF Owing
  <2> QED
    BY <2>3, <2>4, Stutter DEF Listed
<1>6. CASE FillVal
  <2>1. Range(fill) = Range(fill') \cup {Head(fill)} /\ Head(fill) \in Agent
    BY <1>6, RangeTail DEF FillVal
  <2>2. /\ broadcast_pending[Head(fill)]
        /\ UNCHANGED <<broadcast_pending, agent_list, bno, taken>>
        /\ Broadcasting /\ Broadcasting'
    BY <1>6 DEF FillVal, FillInv, Broadcasting
  <2>3. Owing' = Owing
    BY <2>1, <2>2 DEF Owing
  <2> QED
    BY <2>2, <2>3, Stutter DEF Listed
<1>7. CASE WakeAll \/ Recheck
  <2>1. UNCHANGED <<agent_list, fill, broadcast_pending, bno, taken>> /\ Broadcasting
    BY <1>7 DEF WakeAll, Recheck, Broadcasting
  <2>2. CASE mpc' = "script"
    <3>1. Returns
      BY <2>1, <2>2 DEF Returns
    <3>2. Owing = {} /\ Owing' = {}
      BY <2>1, <3>1, ReturnMeansTaken, RangeEmpty DEF Owing
    <3>3. Barrier!Complete
      BY <2>1, <2>2, <3>2 DEF Barrier!Complete, Listed, Owing, Broadcasting
    <3> QED
      BY <3>3 DEF BarrierStep, Barrier!BNext
  <2>3. CASE mpc' # "script"
    <3>1. Broadcasting'
      BY <1>7, <2>3 DEF WakeAll, Recheck, WaitOrReturn, Broadcasting
    <3> QED BY <2>1, <3>1, <1>1
  <2> QED BY <2>2, <2>3
<1>8. CASE GetReport \/ EndScript
  BY <1>8, <1>1 DEF GetReport, EndScript, Broadcasting
<1>9. CASE JoinAgent
  <2> DEFINE h == Head(agent_list)
  <2>1. /\ Listed = Listed' \cup {h} /\ h \notin Listed' /\ h \in Agent
    BY <1>9, RangeTail DEF JoinAgent, ListInv, Listed
  <2>2. /\ UNCHANGED <<fill, broadcast_pending, bno, taken>>
        /\ ~Broadcasting /\ ~Broadcasting'
    BY <1>9 DEF JoinAgent, Broadcasting
  <2> HIDE DEF h
  <2>3. Listed' = Listed \ {h} /\ Owing' = Owing
    BY <2>1, <2>2 DEF Owing
  <2>4. Barrier!Leave(h)
    BY <2>1, <2>2, <2>3 DEF Barrier!Leave, Listed, Owing
  <2> QED
    BY <2>1, <2>4 DEF BarrierStep, Barrier!BNext
<1>10. CASE FreeRuntime
  <2>1. /\ UNCHANGED <<fill, agent_list, broadcast_pending, taken>>
        /\ ~Broadcasting /\ ~Broadcasting' /\ bno' \in {0, bno} /\ Listed = {}
    BY <1>10, RangeEmpty DEF FreeRuntime, Broadcasting, Listed
  <2>2. CASE bno' = bno
    BY <2>1, <2>2, <1>1
  <2>3. CASE bno' = 0
    <3>1. Barrier!Restart
      BY <2>1, <2>3 DEF Barrier!Restart, Listed
    <3> QED BY <3>1 DEF BarrierStep, Barrier!BNext
  <2> QED BY <2>1, <2>2, <2>3
<1>11. ASSUME NEW a \in Agent, Take(a) PROVE BarrierStep
  <2>1. /\ broadcast_pending[a] /\ fill = <<>> /\ fill' = fill
        /\ broadcast_pending' = [broadcast_pending EXCEPT ![a] = FALSE]
        /\ taken' = [taken EXCEPT ![a] = bno]
        /\ bno' = bno /\ agent_list' = agent_list
        /\ Broadcasting' <=> Broadcasting
    BY <1>11 DEF Take, SignalFrom, FillInv, Broadcasting
  <2>2. a \in Owing /\ Owing' = Owing \ {a}
    BY <2>1, RangeEmpty DEF Owing
  <2>3. Barrier!Deliver(a)
    BY <2>1, <2>2 DEF Barrier!Deliver, Listed, Owing
  <2> QED
    BY <2>3 DEF BarrierStep, Barrier!BNext
<1>12. ASSUME NEW a \in Agent, AgentStep(a), ~Take(a) PROVE BarrierStep
  BY <1>12, <1>1 DEF AgentStep, ReceiveBroadcast, SendReport, Await, EndTurn, Loop, CondWait,
     ReadBuf, ReadVal, Broadcasting
<1>13. CASE SpuriousWakeup
  BY <1>13, <1>1 DEF SpuriousWakeup, Broadcasting
<1>14. CASE UNCHANGED vars
  BY <1>14, <1>1 DEF vars, Broadcasting
<1> QED
  BY <1>3, <1>4, <1>5, <1>6, <1>7, <1>8, <1>9, <1>10, <1>11, <1>12, <1>13, <1>14
  DEF Next, MainStep, Terminated

\* js_agent_broadcast with its agents implements the rendezvous its comment
\* describes, except for when callbacks start.
THEOREM Refinement == Spec => BarrierSpec
<1>1. Init => Barrier!BInit
  BY RangeEmpty DEF Init, Barrier!BInit, Broadcasting
<1>2. IInv /\ [Next]_vars => [Barrier!BNext]_(Barrier!bvars)
  BY BarrierNext DEF BarrierStep
<1> QED
  BY <1>1, <1>2, Invariance, PTL DEF Spec, BarrierSpec, Barrier!BSpec

----------------------------------------------------------------------------
(* Objects that outlive a test *)

\* A test's first broadcast is referenced through broadcast_sab of listed
\* agents only, which js_agent_free releases.
FirstInv ==
  /\ bno = 0 => dups = {}
  /\ bno = 1 => \A x \in dups : x[1] \in Listed /\ x[2] = 1 /\ broadcast_sab[x[1]] = 1
  /\ mpc = "abort" => bno > 1

LEMMA FirstInit == Init => FirstInv
  BY DEF Init, FirstInv

LEMMA FirstNext == IInv /\ FirstInv /\ [Next]_vars => FirstInv'
<1> SUFFICES ASSUME IInv, FirstInv, [Next]_vars PROVE FirstInv'
  OBVIOUS
<1> USE DEF IInv, TInv, TypeOK
<1>0. Listed \subseteq Agent
  BY RangeOfSeq DEF Listed
<1>1. ASSUME UNCHANGED <<bno, dups, agent_list, broadcast_sab>>, mpc' # "abort" \/ mpc' = mpc
      PROVE  FirstInv'
  BY <1>1 DEF FirstInv, Listed
<1>2. ASSUME NEW a \in Agent, Start(a) PROVE FirstInv'
  <2>1. Listed' = Listed \cup {a} /\ a \notin Listed
    BY <1>2, RangeAppend DEF Start, Listed, ListInv
  <2>2. /\ broadcast_sab' = [broadcast_sab EXCEPT ![a] = NoSab]
        /\ UNCHANGED <<bno, dups, mpc>>
    BY <1>2 DEF Start
  <2> QED
    BY <1>0, <2>1, <2>2 DEF FirstInv
<1>3. CASE Broadcast
  <2>1. bno' = bno + 1 /\ dups' = dups /\ mpc' = "fill"
    BY <1>3 DEF Broadcast
  <2>2. bno' # 0 /\ (bno' = 1 => dups' = {})
    <3>1. \A n \in Nat : n + 1 # 0 /\ (n + 1 = 1 => n = 0)
      OBVIOUS
    <3>2. bno' # 0 /\ (bno' = 1 => bno = 0)
      BY <2>1, <3>1
    <3> QED BY <2>1, <3>2 DEF FirstInv
  <2> QED BY <2>1, <2>2 DEF FirstInv
<1>4. CASE FillBuf
  <2> DEFINE h == Head(fill)
  <2>1. /\ broadcast_sab' = [broadcast_sab EXCEPT ![h] = bno]
        /\ dups' = dups \cup {<<h, bno>>}
        /\ UNCHANGED <<agent_list, bno>> /\ mpc' = "fillVal" /\ Broadcasting
    BY <1>4 DEF FillBuf, Duplicate, Broadcasting
  <2>2. h \in Listed
    <3>1. fill \in Seq(Agent) /\ fill # <<>>
      BY <1>4 DEF FillBuf
    <3>2. Range(fill) = Range(Tail(fill)) \cup {h}
      BY <3>1, RangeTail
    <3> QED BY <3>2 DEF FillInv
  <2> HIDE DEF h
  <2>3. bno > 0 /\ Listed' = Listed
    BY <2>1 DEF BnoInv, Listed
  <2>4. ASSUME bno = 1, NEW x \in dups'
        PROVE  x[1] \in Listed /\ x[2] = 1 /\ broadcast_sab'[x[1]] = 1
    <3>1. CASE x \in dups
      BY <1>0, <2>1, <2>2, <2>4, <3>1 DEF FirstInv
    <3>2. CASE x = <<h, bno>>
      BY <1>0, <2>1, <2>2, <2>4, <3>2
    <3> QED BY <2>1, <2>4, <3>1, <3>2
  <2> QED
    BY <2>1, <2>3, <2>4 DEF FirstInv
<1>5. CASE JoinAgent
  <2> DEFINE h == Head(agent_list)
  <2>1. Listed = Listed' \cup {h} /\ h \notin Listed'
    BY <1>5, RangeTail DEF JoinAgent, ListInv, Listed
  <2>2. /\ dups' = dups \ {<<h, broadcast_sab[h]>>}
        /\ UNCHANGED <<bno, broadcast_sab, mpc>>
    BY <1>5 DEF JoinAgent, Release, fieldVars
  <2> HIDE DEF h
  <2>3. ASSUME bno = 1, NEW x \in dups'
        PROVE  x[1] \in Listed' /\ x[2] = 1 /\ broadcast_sab[x[1]] = 1
    <3>1. x[1] \in Listed /\ x[2] = 1 /\ broadcast_sab[x[1]] = 1 /\ x \in dups
      BY <2>2, <2>3 DEF FirstInv
    <3>2. x = <<x[1], x[2]>>
      BY SMTT(30), <3>1
    <3>3. x[1] # h
      BY <2>2, <2>3, <3>1, <3>2
    <3> QED BY <2>1, <3>1, <3>3
  <2> QED
    BY <2>2, <2>3 DEF FirstInv
<1>6. CASE FreeRuntime
  <2>1. /\ Listed = {} /\ dups' = dups
        /\ \/ dups # {} /\ mpc' = "abort" /\ bno' = bno
           \/ dups = {} /\ mpc' \in {"end", "script"} /\ bno' = 0
    BY <1>6, RangeEmpty DEF FreeRuntime, Listed
  <2>2. dups # {} => bno # 0 /\ bno # 1
    BY <2>1 DEF FirstInv
  <2>3. \A n \in Nat : n # 0 /\ n # 1 => n > 1
    OBVIOUS
  <2>4. bno \in Nat /\ (dups # {} => bno > 1)
    BY <2>2, <2>3
  <2>5. CASE dups # {} /\ mpc' = "abort" /\ bno' = bno
    BY <2>1, <2>2, <2>4, <2>5 DEF FirstInv
  <2>6. CASE dups = {} /\ mpc' \in {"end", "script"} /\ bno' = 0
    BY <2>1, <2>6 DEF FirstInv
  <2> QED
    BY <2>1, <2>5, <2>6
<1>7. CASE FillVal \/ WakeAll \/ Recheck \/ GetReport \/ EndScript
  BY <1>7, <1>1 DEF FillVal, WakeAll, Recheck, WaitOrReturn, GetReport, EndScript, fieldVars
<1>8. ASSUME NEW a \in Agent, AgentStep(a) PROVE FirstInv'
  BY <1>8, <1>1 DEF AgentStep, ReceiveBroadcast, SendReport, Await, EndTurn, Loop, CondWait,
     Take, SignalFrom, ReadBuf, ReadVal, fieldVars
<1>9. CASE SpuriousWakeup
  BY <1>9, <1>1 DEF SpuriousWakeup, fieldVars
<1>10. CASE UNCHANGED vars
  BY <1>10, <1>1 DEF vars, fieldVars
<1> QED
  BY <1>2, <1>3, <1>4, <1>5, <1>6, <1>7, <1>8, <1>9, <1>10 DEF Next, MainStep, Terminated

\* The assertion of JS_FreeRuntime does not fail after a test with one
\* broadcast, whatever its agents do.
THEOREM NoneOutlives == Spec => []NoObjectOutlivesTest
<1>1. FirstInv => NoObjectOutlivesTest
  BY DEF FirstInv, NoObjectOutlivesTest
<1> QED
  BY <1>1, FirstInit, FirstNext, Invariance, PTL DEF Spec

----------------------------------------------------------------------------
(* Where the scripts are *)

This    == Head(tests)
Playing == mpc = "script" \/ Broadcasting

\* What is left of a script, as the end of it
Suffix(x, y) == /\ Len(x) <= Len(y)
                /\ \A i \in 1..Len(x) : x[i] = y[Len(y) - Len(x) + i]

\* The calls the main script has made
At == Len(This.main) - Len(todo)

MainInv ==
  Playing =>
    /\ Suffix(todo, This.main)
    /\ Suffix(scripts, This.agents)
    /\ Len(agent_list) + Len(scripts) = Len(This.agents)
    /\ Broadcasting => Head(todo) = "broadcast"

\* Between two turns, and while one of them awaits, nothing of it is left
TurnInv ==
  \A a \in Agent :
    /\ apc[a] \in {"loop", "lock", "wait", "buf", "val", "done"} => cur[a] = <<>>
    /\ apc[a] \in {"lock", "wait", "buf", "val", "done"} => job[a] = <<>>
    /\ cur[a] # <<>> => job[a] = <<>>

LEMMA ThisType ==
  ASSUME TInv, tests # <<>>
  PROVE  /\ This \in Test
         /\ This.main \in Seq(MainOp)
         /\ This.agents \in Seq(Seq(Seq(AgentOp)))
<1>1. This \in Test
  BY DEF TInv, TypeOK, This
<1> QED BY <1>1 DEF Test

LEMMA SuffixSelf == ASSUME NEW S, NEW y \in Seq(S) PROVE Suffix(y, y)
  BY DEF Suffix

LEMMA SuffixEmpty == ASSUME NEW S, NEW y \in Seq(S) PROVE Suffix(<<>>, y)
  BY DEF Suffix

LEMMA SuffixTail ==
  ASSUME NEW S, NEW x \in Seq(S), NEW y \in Seq(S), x # <<>>, Suffix(x, y)
  PROVE  /\ Suffix(Tail(x), y)
         /\ Len(Tail(x)) = Len(x) - 1 /\ Len(Tail(x)) \in Nat
         /\ Len(y) - Len(Tail(x)) = Len(y) - Len(x) + 1
         /\ Len(y) - Len(x) + 1 \in 1..Len(y)
         /\ Head(x) = y[Len(y) - Len(x) + 1]
<1> DEFINE n == Len(x)
           m == Len(y)
           t == Tail(x)
<1>1. /\ n \in Nat \ {0} /\ m \in Nat /\ t \in Seq(S) /\ Len(t) = n - 1
      /\ Head(x) = x[1]
      /\ \A i \in 1..Len(t) : t[i] = x[i + 1]
  BY HeadTailProperties, EmptySeq
<1>2. n <= m /\ \A i \in 1..n : x[i] = y[m - n + i]
  BY DEF Suffix
<1> HIDE DEF n, m, t
<1>3. ASSUME NEW i \in 1..Len(t) PROVE t[i] = y[m - Len(t) + i]
  <2>1. i + 1 \in 1..n /\ m - n + (i + 1) = m - Len(t) + i
    BY <1>1
  <2>2. x[i + 1] = y[m - n + (i + 1)]
    BY <1>2, <2>1
  <2> QED BY <1>1, <2>1, <2>2
<1>4. Len(t) <= m /\ m - Len(t) = m - n + 1 /\ m - n + 1 \in 1..m /\ 1 \in 1..n
  BY <1>1, <1>2
<1>5. x[1] = y[m - n + 1]
  BY <1>2, <1>4
<1> QED
  BY <1>1, <1>3, <1>4, <1>5 DEF Suffix, n, m, t

LEMMA MainInit == Init => MainInv
<1> SUFFICES ASSUME Init PROVE MainInv
  OBVIOUS
<1>1. TInv /\ tests # <<>> /\ mpc = "script" /\ agent_list = <<>>
      /\ todo = This.main /\ scripts = This.agents
  BY TypeInit DEF Init, This
<1>2. This.main \in Seq(MainOp) /\ This.agents \in Seq(Seq(Seq(AgentOp)))
  BY <1>1, ThisType
<1>3. Len(agent_list) + Len(scripts) = Len(This.agents)
  BY <1>1, <1>2
<1> QED
  BY <1>1, <1>2, <1>3, SuffixSelf DEF MainInv, Broadcasting

LEMMA MainNext == IInv /\ MainInv /\ [Next]_vars => MainInv'
<1> SUFFICES ASSUME IInv, MainInv, [Next]_vars PROVE MainInv'
  OBVIOUS
<1> USE DEF IInv, TInv, TypeOK
<1>0. Playing => /\ tests # <<>> /\ This.main \in Seq(MainOp)
                 /\ This.agents \in Seq(Seq(Seq(AgentOp)))
  BY ThisType DEF Playing, Broadcasting
<1>1. ASSUME UNCHANGED <<tests, todo, scripts, agent_list>>,
             Playing' => Playing, Broadcasting' => Broadcasting
      PROVE  MainInv'
  BY <1>1 DEF MainInv, This
<1>2. ASSUME Playing, Playing', todo # <<>>, todo' = Tail(todo), ~Broadcasting',
             UNCHANGED <<tests, scripts, agent_list>>
      PROVE  MainInv'
  <2>1. Suffix(todo', This.main)
    BY <1>0, <1>2, SuffixTail DEF MainInv
  <2> QED
    BY <1>2, <2>1 DEF MainInv, This
<1>3. ASSUME NEW a \in Agent, Start(a) PROVE MainInv'
  <2>1. /\ mpc = "script" /\ todo # <<>> /\ scripts # <<>> /\ Playing /\ ~Broadcasting'
        /\ todo' = Tail(todo) /\ scripts' = Tail(scripts)
        /\ agent_list' = Append(agent_list, a) /\ tests' = tests
    BY <1>3, MainCallTaken DEF Start, Playing, Broadcasting
  <2>2. Suffix(todo', This.main)
    BY <1>0, <2>1, SuffixTail DEF MainInv
  <2>3. Suffix(scripts', This.agents) /\ Len(scripts') = Len(scripts) - 1
    <3>1. /\ scripts \in Seq(Seq(Seq(AgentOp))) /\ scripts # <<>>
          /\ This.agents \in Seq(Seq(Seq(AgentOp))) /\ Suffix(scripts, This.agents)
      BY <1>0, <2>1 DEF MainInv
    <3> HIDE DEF IInv, TInv, TypeOK
    <3>2. \A x, y \in Seq(Seq(Seq(AgentOp))) :
             x # <<>> /\ Suffix(x, y) => Suffix(Tail(x), y) /\ Len(Tail(x)) = Len(x) - 1
      BY SuffixTail
    <3> QED BY <2>1, <3>1, <3>2
  <2>4. Len(agent_list') = Len(agent_list) + 1
    BY <2>1, AppendProperties
  <2>5. Len(agent_list) + Len(scripts) = Len(This.agents)
    BY <2>1 DEF MainInv
  <2>6. Len(agent_list') + Len(scripts') = Len(This.agents)
    <3>1. \A m, n, k \in Nat : m + n = k => (m + 1) + (n - 1) = k
      OBVIOUS
    <3>2. Len(agent_list) \in Nat /\ Len(scripts) \in Nat /\ Len(This.agents) \in Nat
      BY <1>0, <2>1, LenProperties
    <3>3. (Len(agent_list) + 1) + (Len(scripts) - 1) = Len(This.agents)
      BY <2>5, <3>1, <3>2
    <3> QED BY <2>3, <2>4, <3>3
  <2> QED
    BY <2>1, <2>2, <2>3, <2>6 DEF MainInv, This
<1>4. CASE Broadcast
  <2>1. /\ mpc = "script" /\ Playing /\ Head(todo) = "broadcast"
        /\ UNCHANGED <<tests, todo, scripts, agent_list>>
    BY <1>4 DEF Broadcast, Playing, MainCall, testVars
  <2> QED
    BY <2>1 DEF MainInv, This
<1>5. CASE FillBuf \/ FillVal
  BY <1>5, <1>1 DEF FillBuf, FillVal, testVars, Playing, Broadcasting
<1>6. CASE WakeAll \/ Recheck
  <2>1. /\ Broadcasting /\ Playing /\ todo # <<>> /\ WaitOrReturn
        /\ UNCHANGED <<tests, scripts, agent_list>>
    BY <1>6 DEF WakeAll, Recheck, Broadcasting, Playing
  <2>2. CASE mpc' = "wait" /\ todo' = todo
    BY <2>1, <2>2, <1>1
  <2>3. CASE mpc' = "script" /\ todo' = Tail(todo)
    BY <2>1, <2>3, <1>2 DEF Playing, Broadcasting
  <2> QED BY <2>1, <2>2, <2>3 DEF WaitOrReturn
<1>7. CASE GetReport
  <2>1. /\ mpc = "script" /\ mpc' = mpc /\ todo # <<>> /\ todo' = Tail(todo)
        /\ UNCHANGED <<tests, scripts, agent_list>>
    BY <1>7, MainCallTaken DEF GetReport
  <2> QED
    BY <2>1, <1>2 DEF Playing, Broadcasting
<1>8. CASE EndScript \/ JoinAgent
  BY <1>8 DEF EndScript, JoinAgent, MainInv, Playing, Broadcasting
<1>9. CASE FreeRuntime
  <2>1. /\ agent_list' = <<>>
        /\ \/ mpc' \in {"abort", "end"}
           \/ /\ mpc' = "script" /\ tests' # <<>>
              /\ todo' = This'.main /\ scripts' = This'.agents
    BY <1>9 DEF FreeRuntime, This
  <2>2. CASE mpc' \in {"abort", "end"}
    BY <2>2 DEF MainInv, Playing, Broadcasting
  <2>3. CASE /\ mpc' = "script" /\ tests' # <<>>
             /\ todo' = This'.main /\ scripts' = This'.agents
    <3>1. TInv'
      BY TypeNext
    <3>2. TInv => (tests # <<>> => This.main \in Seq(MainOp) /\ This.agents \in Seq(Seq(Seq(AgentOp))))
      BY ThisType
    <3>3. This'.main \in Seq(MainOp) /\ This'.agents \in Seq(Seq(Seq(AgentOp)))
      <4>1. tests' \in Seq(Test)
        BY <3>1
      <4>2. Head(tests') \in Test
        BY <2>3, <4>1
      <4> QED BY <4>2 DEF Test, This
    <3>4. Len(agent_list') + Len(scripts') = Len(This'.agents)
      BY <2>1, <2>3, <3>3
    <3> QED
      BY <2>3, <3>3, <3>4, SuffixSelf DEF MainInv, Broadcasting
  <2> QED BY <2>1, <2>2, <2>3
<1>10. ASSUME NEW a \in Agent, AgentStep(a) PROVE MainInv'
  BY <1>10, <1>1 DEF AgentStep, ReceiveBroadcast, SendReport, Await, EndTurn, Loop, CondWait,
     Take, SignalFrom, ReadBuf, ReadVal, testVars, Playing, Broadcasting
<1>11. CASE SpuriousWakeup
  BY <1>11, <1>1 DEF SpuriousWakeup, testVars, Playing, Broadcasting
<1>12. CASE UNCHANGED vars
  BY <1>12, <1>1 DEF vars, testVars, Playing, Broadcasting
<1> QED
  BY <1>3, <1>4, <1>5, <1>6, <1>7, <1>8, <1>9, <1>10, <1>11, <1>12 DEF Next, MainStep, Terminated

LEMMA TurnInit == Init => TurnInv
  BY DEF Init, TurnInv

LEMMA TurnNext == TInv /\ TurnInv /\ [Next]_vars => TurnInv'
<1> SUFFICES ASSUME TInv, TurnInv, [Next]_vars PROVE TurnInv'
  OBVIOUS
<1> USE DEF TInv, TypeOK
<1>1. ASSUME UNCHANGED <<cur, job>>,
             \A b \in Agent : \/ apc'[b] = apc[b] \/ apc'[b] \in {"idle"}
                              \/ apc[b] \in {"lock", "wait", "buf", "val", "done"}
      PROVE  TurnInv'
  BY <1>1 DEF TurnInv
<1>2. ASSUME NEW a \in Agent, Start(a) PROVE TurnInv'
  BY <1>2 DEF Start, TurnInv
<1>3. CASE WakeAll
  BY <1>3, <1>1 DEF WakeAll, turnVars
<1>4. CASE JoinAgent
  <2>1. Head(agent_list) \in Agent
    BY <1>4 DEF JoinAgent
  <2> QED BY <1>4, <2>1, <1>1 DEF JoinAgent, turnVars
<1>5. CASE Broadcast \/ FillBuf \/ FillVal \/ Recheck \/ GetReport \/ EndScript \/ FreeRuntime
  BY <1>5, <1>1 DEF Broadcast, FillBuf, FillVal, Recheck, GetReport, EndScript, FreeRuntime, turnVars
<1>6. ASSUME NEW a \in Agent, ReceiveBroadcast(a) \/ SendReport(a) PROVE TurnInv'
  <2>1. cur[a] # <<>>
    BY <1>6, AgentCallTaken DEF ReceiveBroadcast, SendReport
  <2>2. /\ cur' = [cur EXCEPT ![a] = Tail(cur[a])] /\ UNCHANGED <<job, apc>>
        /\ apc[a] \in {"eval", "call", "job"}
    BY <1>6 DEF ReceiveBroadcast, SendReport, Running
  <2> QED BY <2>1, <2>2 DEF TurnInv
<1>7. ASSUME NEW a \in Agent, Await(a) PROVE TurnInv'
  <2>1. /\ cur' = [cur EXCEPT ![a] = <<>>] /\ job' = [job EXCEPT ![a] = Tail(cur[a])]
        /\ apc' = apc /\ apc[a] \in {"eval", "call", "job"}
    BY <1>7 DEF Await, Running
  <2> QED BY <2>1 DEF TurnInv
<1>8. ASSUME NEW a \in Agent, EndTurn(a) PROVE TurnInv'
  <2>1. AgentCall(a) = "fail" => job[a] = <<>>
    BY <1>8 DEF AgentCall, TurnInv
  <2>2. /\ cur' = [cur EXCEPT ![a] = <<>>] /\ job' = job
        /\ \/ apc' = [apc EXCEPT ![a] = "loop"]
           \/ apc' = [apc EXCEPT ![a] = "done"] /\ job[a] = <<>>
    BY <1>8, <2>1 DEF EndTurn
  <2> QED BY <2>2 DEF TurnInv
<1>9. ASSUME NEW a \in Agent, Loop(a) PROVE TurnInv'
  <2>1. cur[a] = <<>> /\ apc[a] = "loop"
    BY <1>9 DEF Loop, TurnInv
  <2>2. CASE job[a] # <<>>
    BY ZenonT(40), <1>9, <2>1, <2>2 DEF Loop, TurnInv
  <2>3. CASE job[a] = <<>>
    <3>1. /\ UNCHANGED <<cur, job>>
          /\ \/ apc' = [apc EXCEPT ![a] = "lock"]
             \/ apc' = [apc EXCEPT ![a] = "done"]
      BY <1>9, <2>3 DEF Loop
    <3> QED BY <2>1, <2>3, <3>1 DEF TurnInv
  <2> QED BY <2>2, <2>3
<1>10. ASSUME NEW a \in Agent, CondWait(a) \/ Take(a) \/ ReadBuf(a) PROVE TurnInv'
  BY <1>10, <1>1 DEF CondWait, Take, SignalFrom, Waiting, ReadBuf, turnVars
<1>11. ASSUME NEW a \in Agent, ReadVal(a) PROVE TurnInv'
  <2>1. /\ job[a] = <<>> /\ job' = job /\ apc' = [apc EXCEPT ![a] = "call"]
        /\ cur' = [cur EXCEPT ![a] = FirstTurn(turns[a])]
    BY <1>11 DEF ReadVal, TurnInv
  <2> QED BY <2>1 DEF TurnInv
<1>12. CASE SpuriousWakeup
  BY <1>12, <1>1 DEF SpuriousWakeup, Waiting, turnVars
<1>13. CASE UNCHANGED vars
  BY <1>13, <1>1 DEF vars, turnVars
<1> QED
  BY <1>2, <1>3, <1>4, <1>5, <1>6, <1>7, <1>8, <1>9, <1>10, <1>11, <1>12, <1>13
  DEF Next, MainStep, AgentStep, Terminated

----------------------------------------------------------------------------
(* Paced tests: who has reported *)

Reports(s)   == {k \in DOMAIN s : s[k] = "report"}
AtMostOne(s) == \A i, j \in Reports(s) : i = j

\* A script with no report in its first turn, and one in each callback
Calm(s) == \A i \in DOMAIN s : AtMostOne(s[i]) /\ (i = 1 => Reports(s[i]) = {})

ScriptInv ==
  tests # <<>> /\ Paced(This) =>
    \A a \in Listed :
      /\ \A i \in DOMAIN turns[a] : AtMostOne(turns[a][i])
      /\ AtMostOne(cur[a]) /\ AtMostOne(job[a])
      /\ taken[a] = 0 => Reports(cur[a]) = {} /\ Reports(job[a]) = {}

\* Who has yet to take the broadcast in progress took an earlier one
AheadInv == \A a \in Listed : a \in Range(fill) \/ broadcast_pending[a] => taken[a] < bno

\* The reports queued, and whose they are
QueueInv ==
  /\ Len(sent) = Len(got) + Len(report_list)
  /\ \A i \in DOMAIN sent : sent[i].test >= Len(tests)

LEMMA FewReports ==
  ASSUME NEW s \in Seq(AgentOp)
  PROVE  /\ Cardinality(Reports(s)) <= 1 => AtMostOne(s)
         /\ Cardinality(Reports(s)) <= 0 => Reports(s) = {}
<1>1. DOMAIN s = 1..Len(s) /\ Len(s) \in Nat /\ IsFiniteSet(1..Len(s))
  BY FS_Interval
<1>2. IsFiniteSet(Reports(s)) /\ Cardinality(Reports(s)) \in Nat
  BY <1>1, FS_Subset, FS_CardinalityType DEF Reports
<1>3. Cardinality(Reports(s)) = 0 <=> Reports(s) = {}
  BY <1>2, FS_EmptySet
<1>4. Cardinality(Reports(s)) = 1 => \E x : Reports(s) = {x}
  BY <1>2, FS_Singleton
<1>5. Reports(s) = {} \/ (\E x : Reports(s) = {x}) => AtMostOne(s)
  BY DEF AtMostOne
<1>6. Cardinality(Reports(s)) <= 1 => Cardinality(Reports(s)) = 0 \/ Cardinality(Reports(s)) = 1
  BY <1>2
<1>7. Cardinality(Reports(s)) <= 0 => Cardinality(Reports(s)) = 0
  BY <1>2
<1> QED BY <1>3, <1>4, <1>5, <1>6, <1>7

LEMMA ReportsTail ==
  ASSUME NEW s \in Seq(AgentOp), s # <<>>
  PROVE  /\ Reports(s) = {} => Reports(Tail(s)) = {}
         /\ AtMostOne(s) => AtMostOne(Tail(s))
         /\ Head(s) = "report" => Reports(s) # {}
         /\ Head(s) = "report" /\ AtMostOne(s) => Reports(Tail(s)) = {}
<1> DEFINE t == Tail(s)
           n == Len(s)
<1>1. /\ n \in Nat \ {0} /\ t \in Seq(AgentOp) /\ Len(t) = n - 1 /\ Head(s) = s[1]
      /\ \A i \in 1..Len(t) : t[i] = s[i + 1]
      /\ DOMAIN s = 1..n /\ DOMAIN t = 1..Len(t)
  BY HeadTailProperties, EmptySeq
<1> HIDE DEF n, t
<1>2. \A i \in 1..Len(t) : i + 1 \in 1..n /\ i + 1 # 1 /\ i \in Nat
  BY <1>1
<1>3. \A i \in Reports(t) : i + 1 \in Reports(s) /\ i + 1 # 1 /\ i \in Nat
  BY <1>1, <1>2 DEF Reports
<1>4. Head(s) = "report" => 1 \in Reports(s)
  BY <1>1 DEF Reports
<1>5. ASSUME AtMostOne(s), NEW i \in Reports(t), NEW j \in Reports(t) PROVE i = j
  <2>1. i + 1 = j + 1
    BY <1>3, <1>5 DEF AtMostOne
  <2> QED BY <1>3, <2>1
<1>6. AtMostOne(s) => AtMostOne(t)
  BY <1>5 DEF AtMostOne
<1>7. Reports(s) = {} => Reports(t) = {}
  BY <1>3
<1>8. Head(s) = "report" /\ AtMostOne(s) => Reports(t) = {}
  BY <1>3, <1>4 DEF AtMostOne
<1> QED BY <1>4, <1>6, <1>7, <1>8 DEF t

LEMMA NoReports == Reports(<<>>) = {} /\ AtMostOne(<<>>)
  BY DEF Reports, AtMostOne

\* A paced test has calm scripts
LEMMA PacedCalm ==
  ASSUME NEW t \in Test, Paced(t), NEW n \in 1..Len(t.agents)
  PROVE  Calm(t.agents[n])
<1> DEFINE s == t.agents[n]
<1>1. t.agents \in Seq(Seq(Seq(AgentOp))) /\ s \in Seq(Seq(AgentOp))
  BY DEF Test
<1>2. s \in Range(t.agents)
  BY <1>1, RangeEquality
<1>3. \A i \in DOMAIN s : Cardinality(Reports(s[i])) <= IF i = 1 THEN 0 ELSE 1
  BY <1>2 DEF Paced, Reports
<1> HIDE DEF s
<1>4. ASSUME NEW i \in DOMAIN s PROVE AtMostOne(s[i]) /\ (i = 1 => Reports(s[i]) = {})
  <2>1. s[i] \in Seq(AgentOp)
    BY <1>1
  <2>2. i = 1 => Reports(s[i]) = {}
    BY <1>3, <2>1, FewReports
  <2>3. i # 1 => AtMostOne(s[i])
    BY <1>3, <2>1, FewReports
  <2>4. Reports(s[i]) = {} => AtMostOne(s[i])
    BY DEF AtMostOne
  <2> QED BY <2>2, <2>3, <2>4
<1> QED BY <1>4 DEF Calm, s

\* What the next turn of a calm script can do
LEMMA CalmTurns ==
  ASSUME NEW ts \in Seq(Seq(AgentOp)), \A i \in DOMAIN ts : AtMostOne(ts[i])
  PROVE  /\ AtMostOne(FirstTurn(ts))
         /\ \A i \in DOMAIN LaterTurns(ts) : AtMostOne(LaterTurns(ts)[i])
         /\ (\A i \in DOMAIN ts : i = 1 => Reports(ts[i]) = {}) => Reports(FirstTurn(ts)) = {}
<1>1. CASE ts = <<>>
  BY <1>1, NoReports DEF FirstTurn, LaterTurns
<1>2. CASE ts # <<>>
  <2>1. /\ Len(ts) \in Nat \ {0} /\ Tail(ts) \in Seq(Seq(AgentOp)) /\ Len(Tail(ts)) = Len(ts) - 1
        /\ Head(ts) = ts[1] /\ DOMAIN ts = 1..Len(ts) /\ DOMAIN Tail(ts) = 1..Len(Tail(ts))
        /\ \A i \in 1..Len(Tail(ts)) : Tail(ts)[i] = ts[i + 1]
    BY <1>2, HeadTailProperties, EmptySeq
  <2>2. 1 \in DOMAIN ts /\ \A i \in 1..Len(Tail(ts)) : i + 1 \in DOMAIN ts
    BY <2>1
  <2>3. FirstTurn(ts) = ts[1] /\ LaterTurns(ts) = Tail(ts)
    BY <1>2, <2>1 DEF FirstTurn, LaterTurns
  <2> QED BY <2>1, <2>2, <2>3
<1> QED BY <1>1, <1>2

LEMMA ScriptInit == Init => ScriptInv /\ AheadInv /\ QueueInv
<1> SUFFICES ASSUME Init PROVE ScriptInv /\ AheadInv /\ QueueInv
  OBVIOUS
<1>1. Listed = {}
  BY RangeEmpty DEF Init, Listed
<1> QED BY <1>1 DEF Init, ScriptInv, AheadInv, QueueInv

LEMMA ScriptNext == IInv /\ MainInv /\ TurnInv /\ ScriptInv /\ [Next]_vars => ScriptInv'
<1> SUFFICES ASSUME IInv, MainInv, TurnInv, ScriptInv, [Next]_vars PROVE ScriptInv'
  OBVIOUS
<1> USE DEF IInv, TInv, TypeOK
<1> DEFINE Fine(a) ==
             /\ \A i \in DOMAIN turns[a] : AtMostOne(turns[a][i])
             /\ AtMostOne(cur[a]) /\ AtMostOne(job[a])
             /\ taken[a] = 0 => Reports(cur[a]) = {} /\ Reports(job[a]) = {}
<1>0. Listed \subseteq Agent
  BY RangeOfSeq DEF Listed
<1>1. ASSUME UNCHANGED <<tests, agent_list, turns, cur, job, taken>> PROVE ScriptInv'
  BY <1>1 DEF ScriptInv, This, Listed
<1>2. ASSUME tests' = tests, Listed' \subseteq Listed,
             tests # <<>> /\ Paced(This) => \A a \in Listed : Fine(a) => Fine(a)'
      PROVE  ScriptInv'
  BY <1>2 DEF ScriptInv, This
<1>3. ASSUME NEW a \in Agent, Start(a) PROVE ScriptInv'
  <2>1. Listed' = Listed \cup {a}
    BY <1>3, RangeAppend DEF Start, Listed
  <2>2. SUFFICES ASSUME tests # <<>>, Paced(This) PROVE ScriptInv'
    BY <1>3 DEF Start, ScriptInv, This
  <2>3. /\ scripts # <<>> /\ Playing
        /\ cur' = [cur EXCEPT ![a] = FirstTurn(Head(scripts))]
        /\ turns' = [turns EXCEPT ![a] = LaterTurns(Head(scripts))]
        /\ job' = [job EXCEPT ![a] = <<>>]
        /\ taken' = [taken EXCEPT ![a] = 0]
        /\ tests' = tests
    BY <1>3 DEF Start, Playing
  <2>4. Calm(Head(scripts)) /\ Head(scripts) \in Seq(Seq(AgentOp))
    <3>1. This.agents \in Seq(Seq(Seq(AgentOp))) /\ This \in Test
      BY <2>2, ThisType
    <3>2. /\ Len(This.agents) - Len(scripts) + 1 \in 1..Len(This.agents)
          /\ Head(scripts) = This.agents[Len(This.agents) - Len(scripts) + 1]
      BY <2>3, <3>1, SuffixTail DEF MainInv
    <3>3. Calm(Head(scripts))
      BY <2>2, <3>1, <3>2, PacedCalm
    <3> QED BY <2>3, <3>3
  <2>5. /\ AtMostOne(FirstTurn(Head(scripts)))
        /\ Reports(FirstTurn(Head(scripts))) = {}
        /\ \A i \in DOMAIN LaterTurns(Head(scripts)) : AtMostOne(LaterTurns(Head(scripts))[i])
    BY <2>4, CalmTurns DEF Calm
  <2>6. Fine(a)'
    BY <2>3, <2>5, NoReports
  <2>7. ASSUME NEW b \in Listed, b # a PROVE Fine(b)'
    <3>1. Fine(b)
      BY <2>2, <2>7 DEF ScriptInv
    <3>2. /\ turns'[b] = turns[b] /\ cur'[b] = cur[b] /\ job'[b] = job[b] /\ taken'[b] = taken[b]
      BY <1>0, <2>3, <2>7
    <3> QED BY <3>1, <3>2
  <2> QED BY <2>1, <2>6, <2>7 DEF ScriptInv
<1>4. CASE JoinAgent
  <2>1. Listed' \subseteq Listed
    BY <1>4, RangeTail DEF JoinAgent, Listed
  <2> QED BY <1>2, <1>4, <2>1 DEF JoinAgent, testVars, turnVars
<1>5. CASE FreeRuntime
  <2>1. Listed' = {}
    BY <1>5, RangeEmpty DEF FreeRuntime, Listed
  <2> QED BY <2>1 DEF ScriptInv
<1>6. CASE Broadcast \/ FillBuf \/ FillVal \/ WakeAll \/ Recheck \/ GetReport \/ EndScript
  BY <1>6, <1>1 DEF Broadcast, FillBuf, FillVal, WakeAll, Recheck, GetReport, EndScript,
     testVars, turnVars
<1>7. ASSUME NEW a \in Agent, UNCHANGED <<tests, agent_list>>,
             \A b \in Listed : b # a =>
               turns'[b] = turns[b] /\ cur'[b] = cur[b] /\ job'[b] = job[b] /\ taken'[b] = taken[b],
             a \in Listed /\ Fine(a) => Fine(a)'
      PROVE  ScriptInv'
  <2>1. ASSUME NEW b \in Listed, Fine(b) PROVE Fine(b)'
    <3>1. CASE b = a
      BY <2>1, <3>1, <1>7
    <3>2. CASE b # a
      BY <2>1, <3>2, <1>7
    <3> QED BY <3>1, <3>2
  <2>2. Listed' = Listed
    BY <1>7 DEF Listed
  <2> HIDE DEF Fine
  <2> QED BY <1>2, <1>7, <2>1, <2>2
<1>8. ASSUME NEW a \in Agent, ReceiveBroadcast(a) \/ SendReport(a) PROVE ScriptInv'
  <2>1. cur[a] # <<>> /\ cur[a] \in Seq(AgentOp)
    BY <1>8, AgentCallTaken DEF ReceiveBroadcast, SendReport
  <2>2. /\ cur' = [cur EXCEPT ![a] = Tail(cur[a])]
        /\ UNCHANGED <<tests, agent_list, turns, job, taken>>
    BY <1>8 DEF ReceiveBroadcast, SendReport, testVars
  <2>3. Fine(a) => Fine(a)'
    BY <2>1, <2>2, ReportsTail
  <2>4. \A b \in Listed : b # a => cur'[b] = cur[b]
    BY <1>0, <2>2
  <2> HIDE DEF Fine
  <2> QED BY <1>7, <2>2, <2>3, <2>4
<1>9. ASSUME NEW a \in Agent, Await(a) PROVE ScriptInv'
  <2>1. cur[a] # <<>> /\ cur[a] \in Seq(AgentOp)
    BY <1>9, AgentCallTaken DEF Await
  <2>2. /\ cur' = [cur EXCEPT ![a] = <<>>] /\ job' = [job EXCEPT ![a] = Tail(cur[a])]
        /\ UNCHANGED <<tests, agent_list, turns, taken>>
    BY <1>9 DEF Await, testVars
  <2>3. Fine(a) => Fine(a)'
    BY ZenonT(40), <2>1, <2>2, ReportsTail, NoReports
  <2>4. \A b \in Listed : b # a => cur'[b] = cur[b] /\ job'[b] = job[b]
    BY <1>0, <2>2
  <2> HIDE DEF Fine
  <2> QED BY <1>7, <2>2, <2>3, <2>4
<1>10. ASSUME NEW a \in Agent, EndTurn(a) PROVE ScriptInv'
  <2>2. /\ cur' = [cur EXCEPT ![a] = <<>>]
        /\ UNCHANGED <<tests, agent_list, turns, job, taken>>
    BY <1>10 DEF EndTurn, testVars
  <2>3. Fine(a) => Fine(a)'
    BY <2>2, NoReports
  <2>4. \A b \in Listed : b # a => cur'[b] = cur[b]
    BY <1>0, <2>2
  <2> HIDE DEF Fine
  <2> QED BY <1>7, <2>2, <2>3, <2>4
<1>11. ASSUME NEW a \in Agent, Loop(a) PROVE ScriptInv'
  <2>1. UNCHANGED <<tests, agent_list, turns, taken>>
    BY <1>11 DEF Loop, testVars
  <2>2. CASE job[a] = <<>>
    BY <1>11, <2>1, <2>2, <1>1 DEF Loop
  <2>3. CASE job[a] # <<>>
    <3>1. cur' = [cur EXCEPT ![a] = job[a]] /\ job' = [job EXCEPT ![a] = <<>>]
      BY <1>11, <2>3 DEF Loop
    <3>2. Fine(a) => Fine(a)'
      BY <2>1, <3>1, NoReports
    <3>3. \A b \in Listed : b # a => cur'[b] = cur[b] /\ job'[b] = job[b]
      BY <1>0, <3>1
    <3> HIDE DEF Fine
    <3> QED BY <1>7, <2>1, <3>2, <3>3
  <2> QED BY <2>2, <2>3
<1>12. ASSUME NEW a \in Agent, Take(a) PROVE ScriptInv'
  <2>1. /\ taken' = [taken EXCEPT ![a] = bno]
        /\ UNCHANGED <<tests, agent_list, turns, cur, job>>
        /\ cur[a] = <<>> /\ job[a] = <<>>
    BY <1>12 DEF Take, testVars, turnVars, TurnInv
  <2>2. Fine(a) => Fine(a)'
    BY <2>1, NoReports
  <2>3. \A b \in Listed : b # a => taken'[b] = taken[b]
    BY <1>0, <2>1
  <2> HIDE DEF Fine
  <2> QED BY <1>7, <2>1, <2>2, <2>3
<1>13. ASSUME NEW a \in Agent, ReadVal(a) PROVE ScriptInv'
  <2>1. /\ cur' = [cur EXCEPT ![a] = FirstTurn(turns[a])]
        /\ turns' = [turns EXCEPT ![a] = LaterTurns(turns[a])]
        /\ UNCHANGED <<tests, agent_list, job, taken>>
    BY <1>13 DEF ReadVal, testVars
  <2>2. a \in Listed => taken[a] > 0
    BY <1>13 DEF ReadVal, ArgsInv, ArgsOf
  <2>3. turns[a] \in Seq(Seq(AgentOp))
    OBVIOUS
  <2>4. a \in Listed /\ Fine(a) => Fine(a)'
    <3>1. ASSUME a \in Listed, Fine(a) PROVE Fine(a)'
      <4>1. taken'[a] # 0
        BY <2>1, <2>2, <3>1
      <4>2. /\ AtMostOne(FirstTurn(turns[a]))
            /\ \A i \in DOMAIN LaterTurns(turns[a]) : AtMostOne(LaterTurns(turns[a])[i])
        BY <2>3, <3>1, CalmTurns
      <4>3. /\ turns'[a] = LaterTurns(turns[a]) /\ cur'[a] = FirstTurn(turns[a])
            /\ job'[a] = job[a]
        BY <2>1
      <4> QED BY <3>1, <4>1, <4>2, <4>3
    <3> QED BY <3>1
  <2>5. \A b \in Listed : b # a => cur'[b] = cur[b] /\ turns'[b] = turns[b]
    BY <1>0, <2>1
  <2> HIDE DEF Fine
  <2> QED BY <1>7, <2>1, <2>4, <2>5
<1>14. ASSUME NEW a \in Agent, CondWait(a) \/ ReadBuf(a) PROVE ScriptInv'
  BY <1>14, <1>1 DEF CondWait, ReadBuf, testVars, turnVars
<1>15. CASE SpuriousWakeup
  BY <1>15, <1>1 DEF SpuriousWakeup, testVars, turnVars
<1>16. CASE UNCHANGED vars
  BY <1>16, <1>1 DEF vars, testVars, turnVars
<1> QED
  BY <1>3, <1>4, <1>5, <1>6, <1>8, <1>9, <1>10, <1>11, <1>12, <1>13, <1>14, <1>15, <1>16
  DEF Next, MainStep, AgentStep, Terminated

LEMMA AheadNext == IInv /\ AheadInv /\ [Next]_vars => AheadInv'
<1> SUFFICES ASSUME IInv, AheadInv, [Next]_vars PROVE AheadInv'
  OBVIOUS
<1> USE DEF IInv, TInv, TypeOK
<1>0. Listed \subseteq Agent
  BY RangeOfSeq DEF Listed
<1>1. ASSUME UNCHANGED <<agent_list, broadcast_pending, taken>>,
             Range(fill') \subseteq Range(fill), bno' = bno
      PROVE  AheadInv'
  BY <1>1 DEF AheadInv, Listed
<1>2. ASSUME NEW a \in Agent, Start(a) PROVE AheadInv'
  <2>1. /\ Listed' = Listed \cup {a} /\ fill' = <<>>
        /\ bno' = bno /\ taken' = [taken EXCEPT ![a] = 0]
        /\ broadcast_pending' = [broadcast_pending EXCEPT ![a] = FALSE]
    BY <1>2, RangeAppend DEF Start, Listed, FillInv, MutexFree
  <2> QED
    BY <1>0, <2>1, RangeEmpty DEF AheadInv
<1>3. CASE Broadcast
  <2>1. /\ bno' = bno + 1 /\ UNCHANGED <<agent_list, taken>>
    BY <1>3 DEF Broadcast
  <2>2. \A a \in Listed : taken[a] < bno + 1
    BY SMTT(30), <1>0 DEF ArgsInv, ArgsOf
  <2> QED BY <2>1, <2>2 DEF AheadInv, Listed
<1>4. CASE FillBuf
  <2> DEFINE h == Head(fill)
  <2>1. fill \in Seq(Agent) /\ fill # <<>>
    BY <1>4 DEF FillBuf
  <2>2. h \in Agent /\ Range(fill) = Range(Tail(fill)) \cup {h}
    BY <2>1, RangeTail
  <2>3. /\ broadcast_pending' = [broadcast_pending EXCEPT ![h] = TRUE]
        /\ UNCHANGED <<fill, agent_list, bno, taken>>
    BY <1>4 DEF FillBuf
  <2> HIDE DEF h
  <2> QED
    BY <1>0, <2>2, <2>3 DEF AheadInv, Listed
<1>5. CASE FillVal
  <2>1. Range(fill') \subseteq Range(fill)
    BY <1>5, RangeTail DEF FillVal
  <2> QED BY <1>1, <1>5, <2>1 DEF FillVal
<1>6. CASE JoinAgent
  <2>1. Listed' \subseteq Listed
    BY <1>6, RangeTail DEF JoinAgent, Listed
  <2> QED BY <1>6, <2>1 DEF JoinAgent, AheadInv
<1>7. CASE FreeRuntime
  <2>1. Listed' = {}
    BY <1>7, RangeEmpty DEF FreeRuntime, Listed
  <2> QED BY <2>1 DEF AheadInv
<1>8. CASE WakeAll \/ Recheck \/ GetReport \/ EndScript
  BY <1>8, <1>1 DEF WakeAll, Recheck, GetReport, EndScript
<1>9. ASSUME NEW a \in Agent, Take(a) PROVE AheadInv'
  <2>1. /\ fill = <<>> /\ UNCHANGED <<fill, agent_list, bno>>
        /\ broadcast_pending' = [broadcast_pending EXCEPT ![a] = FALSE]
        /\ taken' = [taken EXCEPT ![a] = bno]
    BY <1>9 DEF Take, FillInv
  <2> QED
    BY <1>0, <2>1, RangeEmpty DEF AheadInv, Listed
<1>10. ASSUME NEW a \in Agent, AgentStep(a), ~Take(a) PROVE AheadInv'
  BY <1>10, <1>1 DEF AgentStep, ReceiveBroadcast, SendReport, Await, EndTurn, Loop, CondWait,
     ReadBuf, ReadVal
<1>11. CASE SpuriousWakeup
  BY <1>11, <1>1 DEF SpuriousWakeup
<1>12. CASE UNCHANGED vars
  BY <1>12, <1>1 DEF vars
<1> QED
  BY <1>2, <1>3, <1>4, <1>5, <1>6, <1>7, <1>8, <1>9, <1>10, <1>11, <1>12
  DEF Next, MainStep, Terminated

LEMMA QueueNext == TInv /\ QueueInv /\ [Next]_vars => QueueInv'
<1> SUFFICES ASSUME TInv, QueueInv, [Next]_vars PROVE QueueInv'
  OBVIOUS
<1> USE DEF TInv, TypeOK
<1>1. ASSUME UNCHANGED <<sent, got, report_list, tests>> PROVE QueueInv'
  BY <1>1 DEF QueueInv
<1>2. CASE GetReport
  <2>1. CASE report_list = <<>>
    BY <1>2, <2>1, <1>1 DEF GetReport
  <2>2. CASE report_list # <<>>
    <3>1. /\ got' = Append(got, Head(report_list)) /\ report_list' = Tail(report_list)
          /\ UNCHANGED <<sent, tests>>
      BY <1>2, <2>2 DEF GetReport, Dequeue
    <3>2. /\ Len(report_list') = Len(report_list) - 1 /\ Len(report_list) \in Nat
          /\ Head(report_list) \in Report
      BY <2>2, <3>1, HeadTailProperties
    <3>3. Len(got') = Len(got) + 1 /\ Len(got) \in Nat
      BY <3>1, <3>2, AppendProperties
    <3>4. \A m, n \in Nat : m + n = (m + 1) + (n - 1)
      OBVIOUS
    <3>5. Len(got') + Len(report_list') = Len(got) + Len(report_list)
      BY <3>2, <3>3, <3>4
    <3> QED BY <3>1, <3>5 DEF QueueInv
  <2> QED BY <2>1, <2>2
<1>3. ASSUME NEW a \in Agent, SendReport(a) PROVE QueueInv'
  <2> DEFINE r == [test |-> Len(tests), from |-> a]
  <2>1. /\ report_list' = Append(report_list, r) /\ sent' = Append(sent, r)
        /\ UNCHANGED <<got, tests>>
    BY <1>3 DEF SendReport, Enqueue, testVars
  <2>2. r \in Report /\ r.test = Len(tests) /\ Len(tests) \in Nat
    BY DEF Report
  <2> HIDE DEF r
  <2>3. Len(report_list') = Len(report_list) + 1 /\ Len(report_list) \in Nat
    BY <2>1, <2>2, AppendProperties
  <2> DEFINE n == Len(sent)
  <2>4. /\ Len(sent') = n + 1 /\ n \in Nat /\ Len(got) \in Nat
        /\ DOMAIN sent' = 1..(n + 1) /\ DOMAIN sent = 1..n
        /\ sent'[n + 1] = r
        /\ \A i \in 1..n : sent'[i] = sent[i]
    <3>1. sent \in Seq(Report) /\ sent' = Append(sent, r) /\ got \in Seq(Report)
      BY <2>1
    <3>2. /\ sent' \in Seq(Report) /\ Len(sent') = n + 1 /\ sent'[n + 1] = r
          /\ \A i \in 1..n : sent'[i] = sent[i]
      BY <2>2, <3>1, AppendProperties
    <3> QED BY <3>1, <3>2, LenProperties
  <2>5. Len(sent') = Len(got) + Len(report_list')
    BY <2>3, <2>4 DEF QueueInv
  <2>6. ASSUME NEW i \in DOMAIN sent' PROVE sent'[i].test >= Len(tests)
    <3>1. CASE i = n + 1
      BY SMTT(30), <2>2, <2>4, <3>1
    <3>2. CASE i # n + 1
      <4>1. n \in Nat /\ i \in 1..(n + 1)
        BY <2>4, <2>6
      <4> HIDE DEF n
      <4>2. \A m \in Nat : \A k \in 1..(m + 1) : k # m + 1 => k \in 1..m
        OBVIOUS
      <4>3. i \in 1..n
        BY <3>2, <4>1, <4>2
      <4> QED BY <2>4, <4>3 DEF QueueInv
    <3> QED BY <3>1, <3>2
  <2> QED BY <2>1, <2>5, <2>6 DEF QueueInv
<1>4. CASE FreeRuntime
  <2>1. UNCHANGED <<sent, got, report_list>> /\ (tests' = tests \/ tests' = Tail(tests))
    BY <1>4 DEF FreeRuntime, testVars, repVars
  <2>2. tests' = Tail(tests) => Len(tests') <= Len(tests)
    <3>1. CASE tests = <<>>
      BY <1>4, <3>1 DEF FreeRuntime
    <3>2. CASE tests # <<>>
      BY <3>2, HeadTailProperties, LenProperties
    <3> QED BY <3>1, <3>2
  <2>3. Len(tests') <= Len(tests) /\ Len(tests) \in Nat /\ Len(tests') \in Nat
    <3>1. TInv'
      BY TypeNext
    <3>2. tests \in Seq(Test) /\ tests' \in Seq(Test)
      BY <3>1
    <3>3. Len(tests) \in Nat /\ Len(tests') \in Nat
      BY <3>2, LenProperties
    <3> QED BY <2>1, <2>2, <3>3
  <2>4. \A i \in DOMAIN sent : sent[i].test \in Nat
    <3>1. \A i \in DOMAIN sent : sent[i] \in Report
      BY ElementOfSeq
    <3> QED BY <3>1 DEF Report
  <2>5. \A m, n, k \in Nat : m >= n /\ k <= n => m >= k
    OBVIOUS
  <2>6. ASSUME NEW i \in DOMAIN sent PROVE sent[i].test >= Len(tests')
    <3>1. sent[i].test >= Len(tests)
      BY DEF QueueInv
    <3> QED BY <2>3, <2>4, <2>5, <3>1
  <2> QED BY <2>1, <2>6 DEF QueueInv
<1>5. ASSUME NEW a \in Agent, Start(a) PROVE QueueInv'
  BY <1>5, <1>1 DEF Start, repVars
<1>6. CASE Broadcast \/ FillBuf \/ FillVal \/ WakeAll \/ Recheck \/ EndScript \/ JoinAgent
  BY <1>6, <1>1 DEF Broadcast, FillBuf, FillVal, WakeAll, Recheck, EndScript, JoinAgent,
     testVars, repVars
<1>7. ASSUME NEW a \in Agent, AgentStep(a), ~SendReport(a) PROVE QueueInv'
  BY <1>7, <1>1 DEF AgentStep, ReceiveBroadcast, Await, EndTurn, Loop, CondWait, Take,
     ReadBuf, ReadVal, testVars, repVars
<1>8. CASE SpuriousWakeup
  BY <1>8, <1>1 DEF SpuriousWakeup, testVars, repVars
<1>9. CASE UNCHANGED vars
  BY <1>9, <1>1 DEF vars, testVars, repVars
<1> QED
  BY <1>2, <1>3, <1>4, <1>5, <1>6, <1>7, <1>8, <1>9 DEF Next, MainStep, Terminated

\* A paced test, with no report of an earlier one left over
AllNow == \A i \in DOMAIN sent : sent[i].test = Len(tests)
Steady == tests # <<>> /\ Paced(This) /\ AllNow

AwaitsIn(m, p, q) == {k \in p..q : m[k] = "await"}

\* The main script has waited for the reports of the broadcasts before the
\* last, and after the last for those its script says.
Since(q) ==
  /\ q \in 1..At + 1
  /\ This.main[q] = "broadcast"
  /\ IF Broadcasting THEN q = At + 1 ELSE q <= At
  /\ (bno - 1) * Len(This.agents) + Cardinality(AwaitsIn(This.main, q, At)) <= Len(got)

CollectInv == Playing /\ Steady /\ bno > 0 => \E q \in 1..At + 1 : Since(q)

\* The agent may report for the broadcast it took last
Owes(a) == apc[a] \in {"buf", "val"} \/ Reports(cur[a]) # {} \/ Reports(job[a]) # {}

\* Agents and broadcasts such that the agent will not report for it any more:
\* as many as reports, at least
Counted(a, r) == r < taken[a] \/ (r = taken[a] /\ ~Owes(a))
Answered      == {x \in Listed \X (1..bno) : Counted(x[1], x[2])}
AnsweredInv   == Playing /\ Steady => Len(sent) <= Cardinality(Answered)

\* No broadcast is made between an agent's taking one and its reading of the
\* arguments
RoundOf(a) ==
  /\ apc[a] \in {"buf", "val"} => taken[a] = bno
  /\ apc[a] \in {"val", "call"} => argBuf[a] = taken[a]
  /\ apc[a] = "call" => argVal[a] = taken[a]
RoundInv == Steady => \A a \in Listed : RoundOf(a)

PaceInv == MainInv /\ TurnInv /\ ScriptInv /\ AheadInv /\ QueueInv
           /\ CollectInv /\ AnsweredInv /\ RoundInv

LEMMA AwaitsMore ==
  ASSUME NEW m, NEW p \in Nat, NEW q \in Nat, p <= q + 1
  PROVE  /\ IsFiniteSet(AwaitsIn(m, p, q)) /\ Cardinality(AwaitsIn(m, p, q)) \in Nat
         /\ Cardinality(AwaitsIn(m, p, q + 1)) =
              Cardinality(AwaitsIn(m, p, q)) + IF m[q + 1] = "await" THEN 1 ELSE 0
<1>1. IsFiniteSet(AwaitsIn(m, p, q)) /\ Cardinality(AwaitsIn(m, p, q)) \in Nat
  <2>1. AwaitsIn(m, p, q) \in SUBSET (p..q) /\ p \in Int /\ q \in Int
    BY DEF AwaitsIn
  <2>2. IsFiniteSet(p..q)
    BY <2>1, FS_Interval
  <2> QED BY <2>1, <2>2, FS_Subset, FS_CardinalityType
<1>2. q + 1 \notin p..q /\ p..(q + 1) = (p..q) \cup {q + 1}
  OBVIOUS
<1>3. CASE m[q + 1] = "await"
  <2>1. AwaitsIn(m, p, q + 1) = AwaitsIn(m, p, q) \cup {q + 1} /\ q + 1 \notin AwaitsIn(m, p, q)
    BY <1>2, <1>3 DEF AwaitsIn
  <2>2. Cardinality(AwaitsIn(m, p, q + 1)) = Cardinality(AwaitsIn(m, p, q)) + 1
    BY <1>1, <2>1, FS_AddElement
  <2> QED BY <1>1, <1>3, <2>2
<1>4. CASE m[q + 1] # "await"
  <2>1. AwaitsIn(m, p, q + 1) = AwaitsIn(m, p, q)
    BY <1>2, <1>4 DEF AwaitsIn
  <2> QED BY <1>1, <1>4, <2>1
<1> QED BY <1>3, <1>4

LEMMA NoAwaits ==
  ASSUME NEW m, NEW p \in Nat, NEW q \in Nat, q < p
  PROVE  Cardinality(AwaitsIn(m, p, q)) = 0
<1>1. AwaitsIn(m, p, q) = {}
  BY DEF AwaitsIn
<1> QED BY <1>1, FS_EmptySet

LEMMA SentGrows ==
  TInv /\ [Next]_vars => \A i \in DOMAIN sent : i \in DOMAIN sent' /\ sent'[i] = sent[i]
<1> SUFFICES ASSUME TInv, [Next]_vars
             PROVE  \A i \in DOMAIN sent : i \in DOMAIN sent' /\ sent'[i] = sent[i]
  OBVIOUS
<1>1. ASSUME NEW a \in Agent, SendReport(a)
      PROVE  \A i \in DOMAIN sent : i \in DOMAIN sent' /\ sent'[i] = sent[i]
  <2> DEFINE r == [test |-> Len(tests), from |-> a]
  <2>1. sent' = Append(sent, r) /\ sent \in Seq(Report) /\ r \in Report
    BY <1>1 DEF SendReport, TInv, TypeOK, Report
  <2> HIDE DEF r
  <2>2. /\ sent' \in Seq(Report) /\ Len(sent') = Len(sent) + 1 /\ Len(sent) \in Nat
        /\ \A i \in 1..Len(sent) : sent'[i] = sent[i]
    BY <2>1, AppendProperties
  <2>3. DOMAIN sent = 1..Len(sent) /\ DOMAIN sent' = 1..Len(sent')
    BY <2>1, <2>2
  <2> QED BY <2>2, <2>3
<1>2. CASE UNCHANGED sent
  BY <1>2
<1>3. (\E a \in Agent : SendReport(a)) \/ UNCHANGED sent
  BY DEF Next, MainStep, AgentStep, SpuriousWakeup, Terminated, vars, Start, Broadcast, FillBuf,
     FillVal, WakeAll, Recheck, GetReport, EndScript, JoinAgent, FreeRuntime, ReceiveBroadcast,
     Await, EndTurn, Loop, CondWait, Take, ReadBuf, ReadVal, repVars
<1> QED BY <1>1, <1>2, <1>3

LEMMA SteadyBack ==
  ASSUME TInv, [Next]_vars, tests' = tests, Steady'
  PROVE  Steady
<1>1. \A i \in DOMAIN sent : i \in DOMAIN sent' /\ sent'[i] = sent[i]
  BY SentGrows
<1> QED BY <1>1 DEF Steady, AllNow, This

\* A new test is steady if nothing has been reported at all
LEMMA SteadyAnew ==
  ASSUME TInv, QueueInv, FreeRuntime, Steady', Playing'
  PROVE  sent' = <<>> /\ bno' = 0 /\ Listed' = {}
<1>1. /\ tests' = Tail(tests) /\ tests' # <<>> /\ sent' = sent /\ bno' = 0 /\ agent_list' = <<>>
  BY DEF FreeRuntime, Steady, Playing, Broadcasting, testVars, repVars
<1>2. tests \in Seq(Test) /\ tests # <<>> /\ sent \in Seq(Report)
  BY DEF TInv, TypeOK, FreeRuntime
<1>3. Len(tests') = Len(tests) - 1 /\ Len(tests) \in Nat
  BY <1>1, <1>2, HeadTailProperties
<1>4. ASSUME NEW i \in DOMAIN sent PROVE FALSE
  <2>1. sent[i].test = Len(tests')
    BY <1>1, <1>4 DEF Steady, AllNow
  <2>2. sent[i].test >= Len(tests)
    BY <1>4 DEF QueueInv
  <2> QED BY <1>3, <2>1, <2>2
<1>5. sent = <<>>
  <2>1. DOMAIN sent = 1..Len(sent) /\ Len(sent) \in Nat
    BY <1>2
  <2>2. Len(sent) = 0
    BY <1>4, <2>1
  <2> QED BY <1>2, <2>2, EmptySeq
<1> QED BY <1>1, <1>5, RangeEmpty DEF Listed

LEMMA AnsweredFinite ==
  TInv => /\ IsFiniteSet(Listed) /\ Cardinality(Listed) \in Nat
          /\ Cardinality(Listed) <= Len(agent_list)
          /\ IsFiniteSet(Answered) /\ Cardinality(Answered) \in Nat
<1> SUFFICES ASSUME TInv
             PROVE  /\ IsFiniteSet(Listed) /\ Cardinality(Listed) \in Nat
                    /\ Cardinality(Listed) <= Len(agent_list)
                    /\ IsFiniteSet(Answered) /\ Cardinality(Answered) \in Nat
  OBVIOUS
<1> DEFINE n == Len(agent_list)
<1>1. agent_list \in Seq(Agent) /\ n \in Nat /\ bno \in Nat
  BY DEF TInv, TypeOK
<1>2. Listed = {agent_list[i] : i \in 1..n} /\ agent_list \in [1..n -> Listed]
  BY <1>1, RangeEquality DEF Listed
<1>3. agent_list \in Surjection(1..n, Listed)
  BY <1>2 DEF Surjection
<1>4. IsFiniteSet(1..n) /\ Cardinality(1..n) = n
  BY <1>1, FS_Interval
<1>5. IsFiniteSet(Listed) /\ Cardinality(Listed) <= n
  BY <1>3, <1>4, FS_Surjection
<1>6. IsFiniteSet(1..bno)
  BY <1>1, FS_Interval
<1>7. IsFiniteSet(Listed \X (1..bno))
  BY <1>5, <1>6, FS_Product
<1>8. IsFiniteSet(Answered)
  BY <1>7, FS_Subset DEF Answered
<1> QED BY <1>5, <1>8, FS_CardinalityType

LEMMA AnsweredFiniteNext ==
  TInv /\ [Next]_vars => IsFiniteSet(Answered)' /\ (Cardinality(Answered) \in Nat)'
  BY AnsweredFinite, TypeNext, PTL

LEMMA AnsweredGrows ==
  ASSUME TInv, [Next]_vars, Listed \subseteq Listed', bno <= bno',
         \A a \in Listed : \A r \in 1..bno : Counted(a, r) => Counted(a, r)'
  PROVE  Answered \subseteq Answered' /\ Cardinality(Answered) <= Cardinality(Answered')
<1>1. bno \in Nat /\ bno' \in Nat
  BY TypeNext DEF TInv, TypeOK
<1>2. ASSUME NEW x \in Answered PROVE x \in Answered'
  <2>1. x \in Listed \X (1..bno) /\ Counted(x[1], x[2])
    BY DEF Answered
  <2>2. x[1] \in Listed /\ x[2] \in 1..bno /\ x = <<x[1], x[2]>>
    BY <2>1
  <2>3. Counted(x[1], x[2])'
    BY <2>1, <2>2
  <2>4. x \in Listed' \X (1..bno')
    BY <1>1, <2>2
  <2> QED BY <2>3, <2>4 DEF Answered
<1>3. IsFiniteSet(Answered')
  BY AnsweredFiniteNext
<1> QED BY <1>2, <1>3, FS_Subset

\* When a broadcast is made, the main script has waited for a report of each
\* agent for each of those before
LEMMA RoundsPaid ==
  ASSUME IInv, PaceInv, Steady, Broadcast, bno # 0
  PROVE  bno * Len(This.agents) <= Len(got)
<1> USE DEF IInv, TInv, TypeOK, PaceInv
<1> DEFINE n == Len(This.agents)
           m == This.main
<1>1. /\ mpc = "script" /\ Playing /\ ~Broadcasting
      /\ todo # <<>> /\ Head(todo) = "broadcast"
  BY MainCallTaken DEF Broadcast, MainCall, Playing, Broadcasting
<1>2. This \in Test /\ m \in Seq(MainOp) /\ n \in Nat /\ This.agents \in Seq(Seq(Seq(AgentOp)))
  BY ThisType, LenProperties DEF Steady
<1>3. At + 1 \in 1..Len(m) /\ m[At + 1] = "broadcast"
  BY <1>1, <1>2, SuffixTail DEF MainInv, At
<1>4. At \in Nat /\ Len(m) \in Nat
  <2>1. Len(m) \in Nat /\ Len(todo) \in Nat /\ Len(todo) <= Len(m)
    BY <1>1, <1>2 DEF MainInv, Suffix
  <2>2. \A i, j \in Nat : i <= j => j - i \in Nat
    OBVIOUS
  <2>3. At = Len(m) - Len(todo)
    BY DEF At
  <2> QED BY <2>1, <2>2, <2>3
<1>5. bno \in Nat \ {0}
  OBVIOUS
<1>6. PICK q \in 1..At + 1 : Since(q)
  BY <1>1, <1>5 DEF CollectInv
<1>7. /\ m[q] = "broadcast" /\ q \in Nat /\ q <= At /\ q \in 1..Len(m)
      /\ (bno - 1) * n + Cardinality(AwaitsIn(m, q, At)) <= Len(got)
  <2>1. m[q] = "broadcast" /\ q \in 1..At + 1 /\ q <= At
        /\ (bno - 1) * n + Cardinality(AwaitsIn(m, q, At)) <= Len(got)
    BY <1>1, <1>6 DEF Since
  <2>2. \A i, j \in Nat : i + 1 \in 1..j => \A k \in 1..i + 1 : k \in 1..j /\ k \in Nat
    OBVIOUS
  <2>3. q \in Nat /\ q \in 1..Len(m)
    BY <1>3, <1>4, <2>1, <2>2
  <2> QED BY <2>1, <2>3
<1>8. Cardinality(AwaitsIn(m, q, At + 1)) >= n
  <2>1. Paced(This) /\ DOMAIN m = 1..Len(m) /\ q < At + 1
    <3>1. q < At + 1
      BY <1>4, <1>7
    <3>2. DOMAIN m = 1..Len(m)
      BY <1>2
    <3> QED BY <3>1, <3>2 DEF Steady
  <2>2. \A i, j \in DOMAIN m : i < j /\ m[i] = "broadcast" /\ m[j] = "broadcast" =>
          Cardinality(AwaitsIn(m, i, j)) >= n
    BY <2>1 DEF Paced, AwaitsIn
  <2> QED BY <1>3, <1>7, <2>1, <2>2
<1>9. Cardinality(AwaitsIn(m, q, At + 1)) = Cardinality(AwaitsIn(m, q, At))
      /\ Cardinality(AwaitsIn(m, q, At)) \in Nat
  <2>1. q <= At + 1
    BY <1>4, <1>7
  <2> HIDE DEF m
  <2>2. /\ Cardinality(AwaitsIn(m, q, At)) \in Nat
        /\ Cardinality(AwaitsIn(m, q, At + 1)) =
             Cardinality(AwaitsIn(m, q, At)) + IF m[At + 1] = "await" THEN 1 ELSE 0
    BY <1>4, <1>7, <2>1, AwaitsMore
  <2> QED BY <1>3, <2>2
<1>10. Len(got) \in Nat
  BY LenProperties
<1>11. \A b \in Nat \ {0} : \A k \in Nat : (b - 1) * k + k = b * k
  OBVIOUS
<1>12. (bno - 1) * n + n <= Len(got)
  <2> DEFINE p == (bno - 1) * n
             w == Cardinality(AwaitsIn(m, q, At))
  <2>1. p \in Int /\ w \in Nat /\ w >= n /\ p + w <= Len(got)
    <3>1. \A b \in Nat \ {0} : \A k \in Nat : (b - 1) * k \in Int
      OBVIOUS
    <3>2. p \in Int
      BY <1>2, <1>5, <3>1
    <3>3. w >= n
      BY <1>8, <1>9
    <3> QED BY <1>7, <1>9, <3>2, <3>3
  <2> HIDE DEF p, w, n
  <2>2. p + n <= Len(got)
    BY <1>2, <1>10, <2>1
  <2> QED BY <2>2 DEF p, n
<1> QED BY <1>2, <1>5, <1>11, <1>12

\* ... so nobody has yet to be called back
LEMMA NobodyCalled ==
  ASSUME IInv, PaceInv, Steady, Broadcast, NEW a \in Listed
  PROVE  apc[a] \notin {"buf", "val"}
<1> USE DEF IInv, TInv, TypeOK, PaceInv
<1> SUFFICES ASSUME apc[a] \in {"buf", "val"} PROVE FALSE
  OBVIOUS
<1> DEFINE n == Len(This.agents)
<1>1. mpc = "script" /\ Playing
  BY DEF Broadcast, Playing
<1>2. n \in Nat
  BY ThisType, LenProperties DEF Steady
<1>5. /\ taken[a] = bno /\ bno \in Nat \ {0}
  BY DEF RoundInv, RoundOf, ArgsInv, ArgsOf
<1>3. bno * n <= Len(got)
  BY <1>5, RoundsPaid
<1>10. Len(sent) <= Cardinality(Answered)
  BY <1>1 DEF AnsweredInv
<1>11. Len(got) <= Len(sent) /\ Len(got) \in Nat /\ Len(sent) \in Nat
  <2>1. Len(got) \in Nat /\ Len(sent) \in Nat /\ Len(report_list) \in Nat
    BY LenProperties
  <2> QED BY <2>1 DEF QueueInv
<1>12. Cardinality(Answered) \in Nat /\ Cardinality(Answered) <= Cardinality(Listed) * bno - 1
       /\ Cardinality(Listed) \in Nat
  <2> DEFINE P == Listed \X (1..bno)
             x == <<a, bno>>
  <2>1. IsFiniteSet(Listed) /\ Cardinality(Listed) \in Nat /\ IsFiniteSet(Answered)
        /\ Cardinality(Answered) \in Nat
    BY AnsweredFinite
  <2>2. IsFiniteSet(1..bno) /\ Cardinality(1..bno) = bno
    BY <1>5, FS_Interval
  <2>3. IsFiniteSet(P) /\ Cardinality(P) = Cardinality(Listed) * bno
    BY <2>1, <2>2, FS_Product
  <2>4. x \in P
    <3>1. bno \in 1..bno
      BY <1>5
    <3> QED BY <3>1
  <2>5. x \notin Answered
    <3>1. ~Counted(a, bno)
      BY <1>5 DEF Counted, Owes
    <3> QED BY <3>1 DEF Answered
  <2>6. Answered \subseteq P \ {x}
    BY <2>5 DEF Answered
  <2> HIDE DEF P, x
  <2>7. IsFiniteSet(P \ {x}) /\ Cardinality(P \ {x}) = Cardinality(P) - 1
    BY <2>3, <2>4, FS_RemoveElement
  <2>8. Cardinality(Answered) <= Cardinality(P \ {x})
    BY <2>6, <2>7, FS_Subset
  <2> QED BY <2>1, <2>3, <2>7, <2>8
<1>13. Cardinality(Listed) <= n
  <2>1. Len(agent_list) + Len(scripts) = n /\ Len(agent_list) \in Nat /\ Len(scripts) \in Nat
    BY <1>1, LenProperties DEF MainInv
  <2>2. Cardinality(Listed) <= Len(agent_list)
    BY AnsweredFinite
  <2> HIDE DEF n
  <2> QED BY <1>2, <1>12, <2>1, <2>2
<1>14. \A b \in Nat \ {0} : \A k, c \in Nat :
         c <= k => c * b <= b * k
  <2>2. ASSUME NEW b \in Nat \ {0}, NEW k \in Nat, NEW c \in Nat, c <= k PROVE c * b <= b * k
    <3> DEFINE d == k - c
    <3>1. d \in Nat /\ k = c + d
      BY <2>2
    <3> HIDE DEF d
    <3>2. d * b \in Nat /\ c * b \in Nat /\ b * (c + d) = c * b + d * b
      BY <3>1
    <3> DEFINE e == d * b
               f == c * b
    <3>3. e \in Nat /\ f \in Nat /\ b * k = f + e
      BY <3>1, <3>2
    <3> HIDE DEF e, f
    <3>4. f <= f + e
      BY <3>3
    <3> QED BY <3>3, <3>4 DEF f
  <2> QED BY <2>2
<1> DEFINE u == Cardinality(Listed) * bno
           v == bno * n
<1>15. u \in Int /\ v \in Int
  BY <1>2, <1>5, <1>12
<1>16. u <= v
  BY <1>2, <1>5, <1>12, <1>13, <1>14
<1> HIDE DEF u, v
<1>17. v <= Len(got) /\ Cardinality(Answered) <= u - 1
  BY <1>3, <1>12 DEF u, v
<1> QED BY <1>10, <1>11, <1>12, <1>15, <1>16, <1>17

LEMMA PaceInit == Init => PaceInv
<1> SUFFICES ASSUME Init PROVE PaceInv
  OBVIOUS
<1>1. MainInv /\ TurnInv /\ ScriptInv /\ AheadInv /\ QueueInv
  BY MainInit, TurnInit, ScriptInit
<1>2. bno = 0 /\ Listed = {} /\ sent = <<>>
  BY RangeEmpty DEF Init, Listed
<1>3. CollectInv
  BY <1>2 DEF CollectInv
<1>4. AnsweredInv
  <2>1. TInv
    BY TypeInit
  <2>2. Cardinality(Answered) \in Nat
    BY <2>1, AnsweredFinite
  <2> QED BY <1>2, <2>2 DEF AnsweredInv
<1>5. RoundInv
  BY <1>2 DEF RoundInv
<1> QED BY <1>1, <1>3, <1>4, <1>5 DEF PaceInv

LEMMA CollectNext == IInv /\ PaceInv /\ [Next]_vars => CollectInv'
<1> SUFFICES ASSUME IInv, PaceInv, [Next]_vars PROVE CollectInv'
  OBVIOUS
<1> USE DEF IInv, TInv, TypeOK, PaceInv
<1>0. tests' = tests /\ Steady' => Steady
  BY SteadyBack
<1>1. got \in Seq(Report) /\ Len(got) \in Nat
  BY LenProperties
<1>2. Playing /\ Steady => /\ At \in Nat /\ Len(This.main) \in Nat /\ Len(This.agents) \in Nat
                           /\ todo # <<>> =>
                                /\ At + 1 \in 1..Len(This.main)
                                /\ Head(todo) = This.main[At + 1]
                                /\ Len(This.main) - Len(Tail(todo)) = At + 1
  <2> SUFFICES ASSUME Playing, Steady
               PROVE  /\ At \in Nat /\ Len(This.main) \in Nat /\ Len(This.agents) \in Nat
                      /\ todo # <<>> => /\ At + 1 \in 1..Len(This.main)
                                        /\ Head(todo) = This.main[At + 1]
                                        /\ Len(This.main) - Len(Tail(todo)) = At + 1
    OBVIOUS
  <2>1. This.main \in Seq(MainOp) /\ This.agents \in Seq(Seq(Seq(AgentOp)))
    BY ThisType DEF Steady
  <2>2. Suffix(todo, This.main)
    BY DEF MainInv
  <2>3. Len(This.main) \in Nat /\ Len(This.agents) \in Nat /\ Len(todo) \in Nat
        /\ Len(todo) <= Len(This.main)
    BY <2>1, <2>2, LenProperties DEF Suffix
  <2>4. \A i, j \in Nat : i <= j => j - i \in Nat
    OBVIOUS
  <2>5. At \in Nat
    BY <2>3, <2>4 DEF At
  <2>6. todo # <<>> => /\ At + 1 \in 1..Len(This.main)
                       /\ Head(todo) = This.main[At + 1]
                       /\ Len(This.main) - Len(Tail(todo)) = At + 1
    BY <2>1, <2>2, SuffixTail DEF At
  <2> QED BY <2>3, <2>5, <2>6
\* Nothing the main script does
<1>3. ASSUME UNCHANGED <<tests, todo, bno>>, Len(got') >= Len(got), Len(got') \in Nat,
             Broadcasting' <=> Broadcasting, Playing' <=> Playing
      PROVE  CollectInv'
  <2> SUFFICES ASSUME Playing', Steady', bno' > 0 PROVE \E q \in 1..At' + 1 : Since(q)'
    BY DEF CollectInv
  <2>1. Playing /\ Steady /\ bno > 0 /\ At' = At /\ This' = This
    BY <1>0, <1>3 DEF At, This
  <2>2. PICK q \in 1..At + 1 : Since(q)
    BY <2>1 DEF CollectInv
  <2> DEFINE s == (bno - 1) * Len(This.agents) + Cardinality(AwaitsIn(This.main, q, At))
  <2>3. s \in Int /\ s <= Len(got)
    <3>1. \A b, k, w \in Nat : (b - 1) * k + w \in Int
      OBVIOUS
    <3>2. q \in Nat /\ q <= At + 1
      BY <1>2, <2>1
    <3>3. Cardinality(AwaitsIn(This.main, q, At)) \in Nat
      BY <1>2, <2>1, <3>2, AwaitsMore
    <3> QED BY <1>2, <2>1, <2>2, <3>1, <3>3 DEF Since
  <2>4. s' = s
    BY <1>3, <2>1
  <2> HIDE DEF s
  <2>5. s <= Len(got')
    BY <1>1, <1>3, <2>3
  <2>6. Since(q)'
    BY <1>3, <2>1, <2>2, <2>5 DEF Since, s
  <2> QED BY <2>1, <2>6
\* A call of the main script other than broadcast, or the end of a broadcast
<1>4. ASSUME Playing, todo # <<>>, todo' = Tail(todo), UNCHANGED <<tests, bno>>, ~Broadcasting',
             Len(got') \in Nat,
             Len(got') >= Len(got) + IF Head(todo) = "await" THEN 1 ELSE 0
      PROVE  CollectInv'
  <2> SUFFICES ASSUME Playing', Steady', bno' > 0 PROVE \E q \in 1..At' + 1 : Since(q)'
    BY DEF CollectInv
  <2>1. Steady /\ bno > 0 /\ This' = This
    BY <1>0, <1>4 DEF This
  <2>2. /\ At \in Nat /\ At' = At + 1 /\ Head(todo) = This.main[At + 1]
        /\ Len(This.agents) \in Nat
    BY <1>2, <1>4, <2>1 DEF At
  <2>3. PICK q \in 1..At + 1 : Since(q)
    BY <1>4, <2>1 DEF CollectInv
  <2>4. q \in Nat /\ q <= At + 1
    BY <2>2
  <2> DEFINE p == (bno - 1) * Len(This.agents)
             w == Cardinality(AwaitsIn(This.main, q, At))
             i == IF Head(todo) = "await" THEN 1 ELSE 0
  <2>5. w \in Nat /\ Cardinality(AwaitsIn(This.main, q, At + 1)) = w + i
    BY <2>2, <2>4, AwaitsMore
  <2>6. p \in Int
    <3>1. \A b, k \in Nat : (b - 1) * k \in Int
      OBVIOUS
    <3> QED BY <2>2, <3>1
  <2>7. p + w <= Len(got) /\ Len(got') >= Len(got) + i /\ i \in Nat
    BY <1>4, <2>3 DEF Since
  <2>8. ((bno - 1) * Len(This.agents))' = p
    BY <1>4, <2>1
  <2> HIDE DEF p, w, i
  <2>9. p + (w + i) <= Len(got')
    BY <1>1, <1>4, <2>5, <2>6, <2>7
  <2>10. (bno' - 1) * Len(This'.agents) + Cardinality(AwaitsIn(This'.main, q, At')) <= Len(got')
    BY <2>1, <2>2, <2>5, <2>8, <2>9
  <2>11. q \in 1..At' + 1 /\ q <= At' /\ This'.main[q] = "broadcast"
    BY <2>1, <2>2, <2>3, <2>4 DEF Since
  <2> QED BY <1>4, <2>10, <2>11 DEF Since
<1>5. CASE Broadcast
  <2> SUFFICES ASSUME Playing', Steady', bno' > 0 PROVE \E q \in 1..At' + 1 : Since(q)'
    BY DEF CollectInv
  <2>1. /\ mpc = "script" /\ mpc' = "fill" /\ Playing /\ ~Broadcasting /\ Broadcasting'
        /\ UNCHANGED <<tests, todo, agent_list, got>> /\ bno' = bno + 1
        /\ todo # <<>> /\ Head(todo) = "broadcast"
    BY <1>5, MainCallTaken DEF Broadcast, MainCall, Playing, Broadcasting, testVars, repVars
  <2>2. Steady /\ This' = This /\ At' = At
    BY <1>0, <2>1 DEF This, At
  <2>3. At \in Nat /\ This.main[At + 1] = "broadcast" /\ Len(This.agents) \in Nat
    BY <1>2, <2>1, <2>2
  <2>4. Cardinality(AwaitsIn(This.main, At + 1, At)) = 0
    <3>1. \A i \in Nat : i + 1 \in Nat /\ i < i + 1
      OBVIOUS
    <3>2. At + 1 \in Nat /\ At < At + 1
      BY <2>3, <3>1
    <3> QED BY <2>3, <3>2, NoAwaits
  <2>5. bno * Len(This.agents) <= Len(got)
    <3>1. CASE bno = 0
      <4>1. \A k \in Nat : 0 * k = 0
        OBVIOUS
      <4> QED BY <1>1, <2>3, <3>1, <4>1
    <3>2. CASE bno # 0
      BY <1>5, <2>2, <3>2, RoundsPaid
    <3> QED BY <3>1, <3>2
  <2>6. bno' - 1 = bno /\ bno * Len(This.agents) + 0 = bno * Len(This.agents)
    <3>1. \A b, k \in Nat : (b + 1) - 1 = b /\ b * k + 0 = b * k
      OBVIOUS
    <3> QED BY <2>1, <2>3, <3>1
  <2>7. (bno' - 1) * Len(This'.agents) + Cardinality(AwaitsIn(This'.main, At + 1, At')) <= Len(got')
    BY <2>1, <2>2, <2>4, <2>5, <2>6
  <2>8. PICK q : q = At + 1
    OBVIOUS
  <2>9. q \in 1..At + 1 /\ This.main[q] = "broadcast"
    BY <2>3, <2>8
  <2>10. Since(q)'
    BY <2>1, <2>2, <2>7, <2>8, <2>9 DEF Since
  <2> QED BY <2>2, <2>9, <2>10
<1>6. CASE GetReport
  <2>1. /\ mpc = "script" /\ mpc' = mpc /\ Playing /\ ~Broadcasting'
        /\ todo # <<>> /\ todo' = Tail(todo) /\ UNCHANGED <<tests, bno>>
    BY <1>6, MainCallTaken DEF GetReport, Playing, Broadcasting
  <2>2. /\ Len(got') \in Nat
        /\ Len(got') >= Len(got) + IF Head(todo) = "await" THEN 1 ELSE 0
    <3>1. CASE report_list # <<>>
      <4>1. got' = Append(got, Head(report_list)) /\ Head(report_list) \in Report
        BY <1>6, <3>1 DEF GetReport
      <4>2. Len(got') = Len(got) + 1
        BY <1>1, <4>1, AppendProperties
      <4> QED BY <1>1, <4>2
    <3>2. CASE report_list = <<>>
      <4>1. got' = got /\ Head(todo) # "await"
        BY <1>6, <2>1, <3>2 DEF GetReport, MainCall
      <4> QED BY <1>1, <4>1
    <3> QED BY <3>1, <3>2
  <2> QED BY <1>4, <2>1, <2>2
<1>7. ASSUME NEW a \in Agent, Start(a) PROVE CollectInv'
  <2>1. /\ mpc = "script" /\ mpc' = mpc /\ Playing /\ ~Broadcasting' /\ Head(todo) = "start"
        /\ todo # <<>> /\ todo' = Tail(todo) /\ UNCHANGED <<tests, bno, got>>
    BY <1>7, MainCallTaken DEF Start, MainCall, Playing, Broadcasting, repVars
  <2>2. /\ Len(got') \in Nat
        /\ Len(got') >= Len(got) + IF Head(todo) = "await" THEN 1 ELSE 0
    BY SMTT(30), <1>1, <2>1
  <2> QED BY <1>4, <2>1, <2>2
<1>8. CASE WakeAll \/ Recheck
  <2>1. /\ Broadcasting /\ Playing /\ todo # <<>> /\ WaitOrReturn /\ Head(todo) = "broadcast"
        /\ UNCHANGED <<tests, bno, got>>
    BY <1>8 DEF WakeAll, Recheck, Broadcasting, Playing, MainInv, repVars
  <2>2. CASE mpc' = "wait" /\ todo' = todo
    BY <1>1, <1>3, <2>1, <2>2 DEF Playing, Broadcasting
  <2>3. CASE mpc' = "script" /\ todo' = Tail(todo)
    <3>1. /\ Len(got') \in Nat
          /\ Len(got') >= Len(got) + IF Head(todo) = "await" THEN 1 ELSE 0
      BY <1>1, <2>1
    <3>2. ~Broadcasting'
      BY <2>3 DEF Broadcasting
    <3> QED BY <1>4, <2>1, <2>3, <3>1, <3>2
  <2> QED BY <2>1, <2>2, <2>3 DEF WaitOrReturn
<1>9. CASE FillBuf \/ FillVal
  BY <1>9, <1>1, <1>3 DEF FillBuf, FillVal, testVars, repVars, Playing, Broadcasting
<1>10. CASE EndScript \/ JoinAgent
  BY <1>10 DEF EndScript, JoinAgent, CollectInv, Playing, Broadcasting
<1>11. CASE FreeRuntime
  <2>1. bno' = 0 \/ mpc' = "abort"
    BY <1>11 DEF FreeRuntime
  <2>2. ~(Playing' /\ bno' > 0)
    <3>1. mpc' = "abort" => ~Playing'
      BY DEF Playing, Broadcasting
    <3>2. bno' = 0 => ~(bno' > 0)
      OBVIOUS
    <3> QED BY <2>1, <3>1, <3>2
  <2> QED BY <2>2 DEF CollectInv
<1>12. ASSUME NEW a \in Agent, AgentStep(a) PROVE CollectInv'
  <2>1. UNCHANGED <<tests, todo, bno, got>>
    BY <1>12 DEF AgentStep, ReceiveBroadcast, SendReport, Await, EndTurn, Loop, CondWait,
       Take, ReadBuf, ReadVal, testVars, repVars
  <2>2. mpc' = mpc \/ (mpc = "wait" /\ mpc' = "relock")
    BY <1>12 DEF AgentStep, ReceiveBroadcast, SendReport, Await, EndTurn, Loop, CondWait,
       Take, SignalFrom, ReadBuf, ReadVal
  <2> QED BY <1>1, <1>3, <2>1, <2>2 DEF Playing, Broadcasting
<1>13. CASE SpuriousWakeup
  <2>1. UNCHANGED <<tests, todo, bno, got>> /\ (mpc' = mpc \/ (mpc = "wait" /\ mpc' = "relock"))
    BY <1>13 DEF SpuriousWakeup, testVars, repVars
  <2> QED BY <1>1, <1>3, <2>1 DEF Playing, Broadcasting
<1>14. CASE UNCHANGED vars
  BY <1>14, <1>1, <1>3 DEF vars, testVars, repVars, Playing, Broadcasting
<1> QED
  BY <1>5, <1>6, <1>7, <1>8, <1>9, <1>10, <1>11, <1>12, <1>13, <1>14
  DEF Next, MainStep, Terminated

\* What an agent may still report for grows in Take only
LEMMA OwesLess ==
  ASSUME IInv, PaceInv, [Next]_vars, ~(\E a \in Agent : Take(a)), ~(\E a \in Agent : Start(a)),
         NEW b \in Listed
  PROVE  taken'[b] = taken[b] /\ (Owes(b)' => Owes(b))
<1> USE DEF IInv, TInv, TypeOK, PaceInv
<1>0. Listed \subseteq Agent
  BY RangeOfSeq DEF Listed
<1> DEFINE Goal == taken'[b] = taken[b] /\ (Owes(b)' => Owes(b))
<1>1. ASSUME taken' = taken, cur'[b] = cur[b], job'[b] = job[b],
             apc'[b] \in {"buf", "val"} => apc[b] \in {"buf", "val"}
      PROVE  Goal
  BY <1>1 DEF Owes
<1>2. CASE UNCHANGED <<taken, cur, job, apc>>
  BY <1>2, <1>1
<1>3. CASE WakeAll
  BY <1>0, <1>3, <1>1 DEF WakeAll, turnVars
<1>4. CASE JoinAgent
  BY <1>0, <1>4, <1>1 DEF JoinAgent, turnVars
<1>5. ASSUME NEW a \in Agent, ReceiveBroadcast(a) \/ SendReport(a) PROVE Goal
  <2>1. cur[a] # <<>> /\ cur[a] \in Seq(AgentOp) /\ cur' = [cur EXCEPT ![a] = Tail(cur[a])]
        /\ UNCHANGED <<taken, job, apc>>
    BY <1>5, AgentCallTaken DEF ReceiveBroadcast, SendReport
  <2>2. Reports(cur[a]) = {} => Reports(cur'[a]) = {}
    BY <2>1, ReportsTail
  <2>3. b # a => cur'[b] = cur[b]
    BY <1>0, <2>1
  <2> QED BY <2>1, <2>2, <2>3 DEF Owes
<1>6. ASSUME NEW a \in Agent, Await(a) PROVE Goal
  <2>1. /\ cur[a] # <<>> /\ cur[a] \in Seq(AgentOp)
        /\ cur' = [cur EXCEPT ![a] = <<>>] /\ job' = [job EXCEPT ![a] = Tail(cur[a])]
        /\ UNCHANGED <<taken, apc>>
    BY <1>6, AgentCallTaken DEF Await
  <2>2. Reports(cur[a]) = {} => Reports(job'[a]) = {}
    BY <2>1, ReportsTail
  <2>3. cur'[a] = <<>> /\ (b # a => cur'[b] = cur[b] /\ job'[b] = job[b])
    BY <1>0, <2>1
  <2> QED BY <2>1, <2>2, <2>3, NoReports DEF Owes
<1>7. ASSUME NEW a \in Agent, EndTurn(a) PROVE Goal
  <2>1. /\ cur' = [cur EXCEPT ![a] = <<>>] /\ UNCHANGED <<taken, job>>
        /\ \/ apc' = [apc EXCEPT ![a] = "loop"]
           \/ apc' = [apc EXCEPT ![a] = "done"]
    BY <1>7 DEF EndTurn
  <2>2. cur'[a] = <<>> /\ (b # a => cur'[b] = cur[b])
    BY <1>0, <2>1
  <2>3. apc'[a] \notin {"buf", "val"} /\ (b # a => apc'[b] = apc[b])
    BY <1>0, <2>1
  <2> QED BY <2>1, <2>2, <2>3, NoReports DEF Owes
<1>8. ASSUME NEW a \in Agent, Loop(a) PROVE Goal
  <2>1. apc'[a] \notin {"buf", "val"} /\ (b # a => apc'[b] = apc[b]) /\ taken' = taken
    BY <1>0, <1>8 DEF Loop
  <2>2. \/ UNCHANGED <<cur, job>>
        \/ cur' = [cur EXCEPT ![a] = job[a]] /\ job' = [job EXCEPT ![a] = <<>>]
    BY <1>8 DEF Loop
  <2>3. CASE UNCHANGED <<cur, job>>
    BY <2>1, <2>3 DEF Owes
  <2>4. CASE cur' = [cur EXCEPT ![a] = job[a]] /\ job' = [job EXCEPT ![a] = <<>>]
    <3>1. cur'[a] = job[a] /\ job'[a] = <<>> /\ (b # a => cur'[b] = cur[b] /\ job'[b] = job[b])
      BY <1>0, <2>4
    <3> QED BY <2>1, <3>1, NoReports DEF Owes
  <2> QED BY <2>2, <2>3, <2>4
<1>9. ASSUME NEW a \in Agent, CondWait(a) \/ ReadBuf(a) PROVE Goal
  BY <1>0, <1>9, <1>1 DEF CondWait, ReadBuf, turnVars
<1>10. ASSUME NEW a \in Agent, ReadVal(a) PROVE Goal
  <2>1. /\ apc[a] = "val" /\ UNCHANGED <<taken, job>>
        /\ apc' = [apc EXCEPT ![a] = "call"]
        /\ cur' = [cur EXCEPT ![a] = FirstTurn(turns[a])]
    BY <1>10 DEF ReadVal
  <2> QED BY <1>0, <2>1 DEF Owes
<1>11. CASE SpuriousWakeup
  BY <1>0, <1>11, <1>1 DEF SpuriousWakeup, turnVars, Waiting
<1>12. CASE Broadcast \/ FillBuf \/ FillVal \/ Recheck \/ GetReport \/ EndScript \/ FreeRuntime
  BY <1>12, <1>2 DEF Broadcast, FillBuf, FillVal, Recheck, GetReport, EndScript, FreeRuntime, turnVars
<1>13. CASE UNCHANGED vars
  BY <1>13, <1>2 DEF vars, turnVars
<1> QED
  BY <1>3, <1>4, <1>5, <1>6, <1>7, <1>8, <1>9, <1>10, <1>11, <1>12, <1>13
  DEF Next, MainStep, AgentStep, Terminated

LEMMA AnsweredNext == IInv /\ PaceInv /\ [Next]_vars => AnsweredInv'
<1> SUFFICES ASSUME IInv, PaceInv, [Next]_vars PROVE AnsweredInv'
  OBVIOUS
<1>0. IInv /\ TInv /\ TypeOK /\ PaceInv /\ AnsweredInv
  BY DEF IInv, TInv, PaceInv
<1>00. Listed \subseteq Agent /\ bno \in Nat /\ Len(sent) \in Nat
  BY <1>0, RangeOfSeq, LenProperties DEF Listed, TypeOK
<1>1. ASSUME tests' = tests, sent' = sent, Playing' => Playing,
             Answered \subseteq Answered', Cardinality(Answered) <= Cardinality(Answered')
      PROVE  AnsweredInv'
  <2> SUFFICES ASSUME Playing', Steady' PROVE Len(sent') <= Cardinality(Answered')
    BY DEF AnsweredInv
  <2>1. Len(sent) <= Cardinality(Answered)
    BY <1>0, <1>1, SteadyBack DEF AnsweredInv
  <2>2. Cardinality(Answered) \in Nat /\ Cardinality(Answered') \in Nat
    BY <1>0, AnsweredFinite, AnsweredFiniteNext
  <2> QED BY <1>00, <1>1, <2>1, <2>2
\* Everybody owes what was owed, or less
<1>2. ASSUME tests' = tests, Listed \subseteq Listed', bno <= bno', Playing' => Playing,
             \A b \in Listed : taken'[b] = taken[b] /\ (Owes(b)' => Owes(b)),
             sent' = sent
      PROVE  AnsweredInv'
  <2>1. \A b \in Listed : \A r \in 1..bno : Counted(b, r) => Counted(b, r)'
    BY <1>2 DEF Counted
  <2>2. Answered \subseteq Answered' /\ Cardinality(Answered) <= Cardinality(Answered')
    BY <1>0, <1>2, <2>1, AnsweredGrows
  <2> QED BY <1>1, <1>2, <2>2
<1>3. ASSUME NEW a \in Agent, Start(a) PROVE AnsweredInv'
  <2>1. Listed' = Listed \cup {a} /\ a \notin Listed
    BY <1>0, <1>3, RangeAppend DEF Start, Listed, ListInv, IInv, TypeOK
  <2>2. \A b \in Listed : /\ taken'[b] = taken[b] /\ apc'[b] = apc[b] /\ cur'[b] = cur[b]
                          /\ job'[b] = job[b]
    BY <1>0, <1>00, <1>3, <2>1 DEF Start, TypeOK
  <2>3. UNCHANGED <<tests, sent, bno>> /\ Playing /\ bno <= bno'
    BY <1>00, <1>3 DEF Start, repVars, Playing
  <2> QED BY <1>2, <2>1, <2>2, <2>3 DEF Owes
<1>4. ASSUME NEW a \in Agent, Take(a) PROVE AnsweredInv'
  <2>1. /\ a \in Listed /\ taken[a] < bno /\ taken[a] \in Nat
    <3>1. a \in Listed
      BY <1>0, <1>4 DEF Take, ListInv, IInv
    <3>2. taken[a] < bno
      BY <1>0, <1>4, <3>1 DEF Take, AheadInv, PaceInv
    <3> QED BY <1>0, <3>1, <3>2 DEF TypeOK
  <2>2. /\ taken' = [taken EXCEPT ![a] = bno]
        /\ UNCHANGED <<tests, sent, bno, agent_list, cur, job>> /\ bno <= bno'
        /\ Playing' => Playing
    BY <1>00, <1>4 DEF Take, SignalFrom, testVars, turnVars, repVars, Playing, Broadcasting
  <2>3. Listed' = Listed
    BY <2>2 DEF Listed
  <2>4. \A b \in Listed : b # a => taken'[b] = taken[b] /\ (Owes(b)' => Owes(b))
    <3>1. \A b \in Agent : b # a /\ apc'[b] \in {"buf", "val"} => apc[b] \in {"buf", "val"}
      BY <1>0, <1>4 DEF Take, SignalFrom, Waiting, TypeOK
    <3> QED BY <1>0, <1>00, <2>2, <3>1 DEF Owes, TypeOK
  <2>5. \A r \in 1..bno : Counted(a, r) => Counted(a, r)'
    <3>1. taken'[a] = bno
      BY <1>0, <2>2 DEF TypeOK
    <3>2. \A r \in 1..bno : Counted(a, r) => r <= taken[a]
      BY <2>1 DEF Counted
    <3>3. \A t, n \in Nat : t < n => \A r \in 1..n : r <= t => r < n
      OBVIOUS
    <3>4. \A r \in 1..bno : Counted(a, r) => r < taken'[a]
      BY <1>00, <2>1, <3>1, <3>2, <3>3
    <3> QED BY <3>4 DEF Counted
  <2>6. \A b \in Listed : \A r \in 1..bno : Counted(b, r) => Counted(b, r)'
    <3> SUFFICES ASSUME NEW b \in Listed, NEW r \in 1..bno, Counted(b, r) PROVE Counted(b, r)'
      OBVIOUS
    <3>1. CASE b = a
      BY <2>5, <3>1
    <3>2. CASE b # a
      BY <2>4, <3>2 DEF Counted
    <3> QED BY <3>1, <3>2
  <2>7. Answered \subseteq Answered' /\ Cardinality(Answered) <= Cardinality(Answered')
    BY <1>0, <2>2, <2>3, <2>6, AnsweredGrows
  <2> QED BY <1>1, <2>2, <2>7
<1>5. ASSUME NEW a \in Agent, SendReport(a) PROVE AnsweredInv'
  <2> SUFFICES ASSUME Playing', Steady' PROVE Len(sent') <= Cardinality(Answered')
    BY DEF AnsweredInv
  <2>1. /\ UNCHANGED <<tests, taken, agent_list, bno, job, apc, mpc>>
        /\ cur' = [cur EXCEPT ![a] = Tail(cur[a])]
        /\ Running(a) /\ AgentCall(a) = "report"
    BY <1>5 DEF SendReport, testVars
  <2>2. Playing /\ Steady /\ Len(sent) <= Cardinality(Answered)
    BY <1>0, <2>1, SteadyBack DEF AnsweredInv, Playing, Broadcasting
  <2>3. Len(sent') = Len(sent) + 1
    <3> DEFINE r == [test |-> Len(tests), from |-> a]
    <3>1. sent' = Append(sent, r) /\ sent \in Seq(Report) /\ r \in Report
      BY <1>0, <1>5 DEF SendReport, TypeOK, Report
    <3> HIDE DEF r
    <3> QED BY <3>1, AppendProperties
  <2>4. a \in Listed
    BY <1>0, <2>1 DEF Running, ListInv, IInv
  <2>5. /\ cur[a] # <<>> /\ cur[a] \in Seq(AgentOp) /\ Head(cur[a]) = "report"
        /\ job[a] = <<>> /\ AtMostOne(cur[a])
    <3>1. cur[a] # <<>> /\ Head(cur[a]) = "report"
      BY <2>1 DEF AgentCall
    <3>2. job[a] = <<>>
      BY <1>0, <3>1 DEF PaceInv, TurnInv
    <3>3. AtMostOne(cur[a])
      BY <1>0, <2>2, <2>4 DEF PaceInv, ScriptInv, Steady
    <3> QED BY <1>0, <3>1, <3>2, <3>3 DEF TypeOK
  <2>6. Reports(cur[a]) # {} /\ Reports(Tail(cur[a])) = {}
    BY <2>5, ReportsTail
  <2>7. Owes(a) /\ ~Owes(a)'
    <3>1. cur'[a] = Tail(cur[a]) /\ job'[a] = <<>> /\ apc'[a] \notin {"buf", "val"}
      BY <1>0, <2>1, <2>5 DEF TypeOK, Running
    <3> QED BY <2>6, <3>1, NoReports DEF Owes
  <2>8. taken[a] \in 1..bno
    <3>1. taken[a] # 0
      BY <1>0, <2>2, <2>4, <2>6 DEF PaceInv, ScriptInv, Steady
    <3>2. taken[a] \in Nat /\ taken[a] <= bno
      BY <1>0, <2>4 DEF TypeOK, IInv, ArgsInv, ArgsOf
    <3> QED BY <1>00, <3>1, <3>2
  <2> DEFINE x == <<a, taken[a]>>
  <2>9. x \notin Answered /\ x \in Answered'
    <3>1. ~Counted(a, taken[a])
      BY <2>7, <2>8 DEF Counted
    <3>2. Counted(a, taken[a])'
      BY <2>1, <2>7 DEF Counted
    <3>3. PICK t : t = taken[a]
      OBVIOUS
    <3>4. ~Counted(a, t) /\ Counted(a, t)'
      BY <2>1, <2>7, <2>8, <3>3 DEF Counted
    <3>5. a \in Listed' /\ t \in 1..bno'
      BY <2>1, <2>4, <2>8, <3>3 DEF Listed
    <3>6. <<a, t>> \notin Answered /\ <<a, t>> \in Answered'
      BY <3>4, <3>5 DEF Answered
    <3> QED BY <3>3, <3>6
  <2>10. \A b \in Listed : taken'[b] = taken[b] /\ (Owes(b)' => Owes(b))
    <3>1. \A b \in Listed : b # a => cur'[b] = cur[b]
      BY <1>0, <1>00, <2>1 DEF TypeOK
    <3> QED BY <2>1, <2>7, <3>1 DEF Owes
  <2>11. Answered \subseteq Answered'
    <3>1. \A b \in Listed : \A r \in 1..bno : Counted(b, r) => Counted(b, r)'
      BY <2>10 DEF Counted
    <3>2. Listed \subseteq Listed' /\ bno <= bno'
      BY <1>00, <2>1 DEF Listed
    <3> QED BY <1>0, <3>1, <3>2, AnsweredGrows
  <2> HIDE DEF x
  <2>12. IsFiniteSet(Answered) /\ IsFiniteSet(Answered')
         /\ Cardinality(Answered) \in Nat /\ Cardinality(Answered') \in Nat
    BY <1>0, AnsweredFinite, AnsweredFiniteNext
  <2>13. Cardinality(Answered \cup {x}) = Cardinality(Answered) + 1
    BY <2>9, <2>12, FS_AddElement
  <2>14. Cardinality(Answered \cup {x}) <= Cardinality(Answered')
    BY <2>9, <2>11, <2>12, FS_Subset
  <2> QED BY <1>00, <2>2, <2>3, <2>12, <2>13, <2>14
<1>6. CASE EndScript \/ JoinAgent
  BY <1>6 DEF EndScript, JoinAgent, AnsweredInv, Playing, Broadcasting
<1>7. CASE FreeRuntime
  <2> SUFFICES ASSUME Playing', Steady' PROVE Len(sent') <= Cardinality(Answered')
    BY DEF AnsweredInv
  <2>1. sent' = <<>>
    BY <1>0, <1>7, SteadyAnew DEF PaceInv
  <2>2. Cardinality(Answered') \in Nat
    BY <1>0, AnsweredFiniteNext
  <2> QED BY <2>1, <2>2
<1>8. ASSUME UNCHANGED <<tests, agent_list, sent>>, bno <= bno', Playing' => Playing,
             ~(\E a \in Agent : Take(a)), ~(\E a \in Agent : Start(a))
      PROVE  AnsweredInv'
  <2>1. \A b \in Listed : taken'[b] = taken[b] /\ (Owes(b)' => Owes(b))
    BY <1>0, <1>8, OwesLess
  <2>2. Listed' = Listed
    BY <1>8 DEF Listed
  <2> QED BY <1>2, <1>8, <2>1, <2>2
<1>9. CASE Broadcast \/ FillBuf \/ FillVal \/ WakeAll \/ Recheck \/ GetReport
  <2>1. UNCHANGED <<tests, agent_list, sent>> /\ bno <= bno' /\ Playing
    BY <1>00, <1>9 DEF Broadcast, FillBuf, FillVal, WakeAll, Recheck, GetReport,
       testVars, repVars, Playing, Broadcasting
  <2> QED BY <1>3, <1>4, <1>8, <2>1
<1>10. ASSUME NEW a \in Agent, AgentStep(a), ~SendReport(a) PROVE AnsweredInv'
  <2>1. UNCHANGED <<tests, agent_list, sent, bno>>
    BY <1>10 DEF AgentStep, ReceiveBroadcast, Await, EndTurn, Loop, CondWait, Take,
       ReadBuf, ReadVal, testVars, repVars
  <2>2. Playing' => Playing
    BY <1>10 DEF AgentStep, ReceiveBroadcast, Await, EndTurn, Loop, CondWait, Take, SignalFrom,
       ReadBuf, ReadVal, Playing, Broadcasting
  <2> QED BY <1>00, <1>3, <1>4, <1>8, <2>1, <2>2
<1>11. CASE SpuriousWakeup
  <2>1. UNCHANGED <<tests, agent_list, sent, bno>> /\ (Playing' => Playing)
    BY <1>11 DEF SpuriousWakeup, testVars, repVars, Playing, Broadcasting
  <2> QED BY <1>00, <1>3, <1>4, <1>8, <2>1
<1>12. CASE UNCHANGED vars
  <2>1. UNCHANGED <<tests, agent_list, sent, bno>> /\ (Playing' => Playing)
    BY <1>12 DEF vars, testVars, repVars, Playing, Broadcasting
  <2> QED BY <1>00, <1>3, <1>4, <1>8, <2>1
<1> QED
  BY <1>3, <1>5, <1>6, <1>7, <1>9, <1>10, <1>11, <1>12 DEF Next, MainStep, Terminated

LEMMA RoundNext == IInv /\ PaceInv /\ [Next]_vars => RoundInv'
<1> SUFFICES ASSUME IInv, PaceInv, [Next]_vars PROVE RoundInv'
  OBVIOUS
<1>0. IInv /\ TInv /\ TypeOK /\ PaceInv /\ ArgsInv
  BY DEF IInv, TInv, PaceInv
<1>00. Listed \subseteq Agent
  BY <1>0, RangeOfSeq DEF Listed, TypeOK
<1>1. ASSUME tests' = tests, Steady', NEW b \in Listed PROVE RoundOf(b)
  BY <1>0, <1>1, SteadyBack DEF RoundInv, PaceInv
\* All but one agent are where they were, or were not between Take and callback
<1>2. ASSUME tests' = tests, bno' = bno,
             \A b \in Listed' : \/ RoundOf(b)'
                                \/ /\ b \in Listed
                                   /\ taken'[b] = taken[b] /\ argBuf'[b] = argBuf[b]
                                   /\ argVal'[b] = argVal[b]
                                   /\ \/ apc'[b] = apc[b]
                                      \/ apc'[b] \notin {"buf", "val", "call"}
      PROVE  RoundInv'
  <2> SUFFICES ASSUME Steady', NEW b \in Listed' PROVE RoundOf(b)'
    BY DEF RoundInv
  <2>1. CASE RoundOf(b)'
    BY <2>1
  <2>2. CASE ~RoundOf(b)'
    <3>1. RoundOf(b)
      BY <1>1, <1>2, <2>2
    <3> QED BY <1>2, <3>1, <2>2 DEF RoundOf
  <2> QED BY <2>1, <2>2
<1>3. ASSUME NEW a \in Agent, Start(a) PROVE RoundInv'
  <2>1. Listed' = Listed \cup {a} /\ a \notin Listed
    BY <1>0, <1>3, RangeAppend DEF Start, Listed, ListInv, IInv, TypeOK
  <2>2. \A b \in Listed : taken'[b] = taken[b] /\ apc'[b] = apc[b]
    BY <1>0, <1>00, <1>3, <2>1 DEF Start, TypeOK
  <2>3. UNCHANGED <<tests, bno, argBuf, argVal>>
    BY <1>3 DEF Start
  <2>4. RoundOf(a)'
    <3>1. apc'[a] = "eval"
      BY <1>0, <1>3 DEF Start, TypeOK
    <3> QED BY <3>1 DEF RoundOf
  <2> QED BY <1>2, <2>1, <2>2, <2>3, <2>4
<1>4. CASE Broadcast
  <2> SUFFICES ASSUME Steady', NEW b \in Listed' PROVE RoundOf(b)'
    BY DEF RoundInv
  <2>1. UNCHANGED <<tests, agent_list, apc, taken, argBuf, argVal>>
    BY <1>4 DEF Broadcast, testVars, argVars
  <2>2. b \in Listed /\ Steady
    BY <1>0, <2>1, SteadyBack DEF Listed
  <2>3. apc[b] \notin {"buf", "val"} /\ RoundOf(b)
    BY <1>0, <1>1, <1>4, <2>1, <2>2, NobodyCalled
  <2> QED BY <2>1, <2>3 DEF RoundOf
<1>5. ASSUME NEW a \in Agent, Take(a) PROVE RoundInv'
  <2>1. /\ taken' = [taken EXCEPT ![a] = bno]
        /\ UNCHANGED <<tests, agent_list, bno, argBuf, argVal>>
    BY <1>5 DEF Take, testVars, argVars
  <2>2. /\ apc'[a] = "buf"
        /\ \A b \in Agent : b # a => apc'[b] = apc[b] \/ apc'[b] = "lock"
    BY <1>0, <1>5 DEF Take, SignalFrom, Waiting, TypeOK
  <2>3. RoundOf(a)'
    BY <1>0, <2>1, <2>2 DEF RoundOf, TypeOK
  <2>4. \A b \in Listed : b # a => taken'[b] = taken[b]
    BY <1>0, <1>00, <2>1 DEF TypeOK
  <2>5. Listed' = Listed
    BY <2>1 DEF Listed
  <2> QED BY <1>00, <1>2, <2>1, <2>2, <2>3, <2>4, <2>5
\* What is between the broadcast taken and the last is that broadcast
<1>6. ASSUME NEW a \in Agent, ReadBuf(a) \/ ReadVal(a), Steady' PROVE RoundOf(a)'
  <2>1. a \in Listed /\ UNCHANGED <<tests, taken, bno>>
    BY <1>0, <1>6 DEF ReadBuf, ReadVal, ListInv, IInv, testVars
  <2>2. RoundOf(a) /\ apc[a] \in {"buf", "val"}
    BY <1>1, <1>6, <2>1 DEF ReadBuf, ReadVal
  <2>3. broadcast_buf[a] = taken[a] /\ broadcast_val[a] = taken[a]
    <3>1. /\ taken[a] = bno /\ taken[a] <= broadcast_buf[a] /\ taken[a] <= broadcast_val[a]
          /\ broadcast_buf[a] <= bno /\ broadcast_val[a] <= bno
      BY <1>0, <2>1, <2>2 DEF ArgsInv, ArgsOf, RoundOf
    <3>2. taken[a] \in Nat /\ broadcast_buf[a] \in Nat /\ broadcast_val[a] \in Nat
      BY <1>0 DEF TypeOK
    <3> QED BY <3>1, <3>2
  <2>4. CASE ReadBuf(a)
    <3>1. argBuf'[a] = broadcast_buf[a] /\ apc'[a] = "val"
      BY <1>0, <2>4 DEF ReadBuf, TypeOK
    <3> QED BY <2>1, <2>2, <2>3, <3>1, <2>4 DEF RoundOf, ReadBuf
  <2>5. CASE ReadVal(a)
    <3>1. argVal'[a] = broadcast_val[a] /\ apc'[a] = "call" /\ argBuf'[a] = argBuf[a]
      BY <1>0, <2>5 DEF ReadVal, TypeOK
    <3> QED BY <2>1, <2>2, <2>3, <3>1, <2>5 DEF RoundOf, ReadVal
  <2> QED BY <1>6, <2>4, <2>5
<1>7. ASSUME NEW a \in Agent, ReadBuf(a) \/ ReadVal(a) PROVE RoundInv'
  <2> SUFFICES ASSUME Steady' PROVE RoundInv'
    BY DEF RoundInv
  <2>1. RoundOf(a)'
    BY <1>6, <1>7
  <2>2. UNCHANGED <<tests, agent_list, bno, taken>>
    BY <1>7 DEF ReadBuf, ReadVal, testVars
  <2>3. \A b \in Agent : b # a => apc'[b] = apc[b] /\ argBuf'[b] = argBuf[b] /\ argVal'[b] = argVal[b]
    BY <1>0, <1>7 DEF ReadBuf, ReadVal, TypeOK
  <2>4. Listed' = Listed
    BY <2>2 DEF Listed
  <2> QED BY <1>00, <1>2, <2>1, <2>2, <2>3, <2>4
<1>8. ASSUME UNCHANGED <<tests, bno, taken, argBuf, argVal>>, Listed' \subseteq Listed,
             \A b \in Listed' : apc'[b] = apc[b] \/ apc'[b] \notin {"buf", "val", "call"}
      PROVE  RoundInv'
  BY <1>2, <1>8
<1>9. CASE JoinAgent
  <2>1. Listed' \subseteq Listed /\ Head(agent_list) \notin Listed'
    BY <1>0, <1>9, RangeTail DEF JoinAgent, Listed, TypeOK, ListInv, IInv
  <2>2. UNCHANGED <<tests, bno, taken, argBuf, argVal>>
    BY <1>9 DEF JoinAgent, testVars, argVars
  <2>3. \A b \in Listed' : apc'[b] = apc[b]
    BY <1>0, <1>00, <1>9, <2>1 DEF JoinAgent, TypeOK
  <2> QED BY <1>8, <2>1, <2>2, <2>3
<1>10. CASE FreeRuntime
  <2>1. Listed' = {}
    BY <1>10, RangeEmpty DEF FreeRuntime, Listed
  <2> QED BY <2>1 DEF RoundInv
<1>11. CASE FillBuf \/ FillVal \/ WakeAll \/ Recheck \/ GetReport \/ EndScript
  <2>1. UNCHANGED <<tests, bno, taken, argBuf, argVal, agent_list>>
    BY <1>11 DEF FillBuf, FillVal, WakeAll, Recheck, GetReport, EndScript, testVars, argVars
  <2>2. \A b \in Agent : apc'[b] = apc[b] \/ apc'[b] = "lock"
    BY <1>0, <1>11 DEF FillBuf, FillVal, WakeAll, Recheck, GetReport, EndScript, TypeOK
  <2> QED BY <1>00, <1>8, <2>1, <2>2 DEF Listed
<1>12. ASSUME NEW a \in Agent, AgentStep(a), ~Take(a), ~ReadBuf(a), ~ReadVal(a) PROVE RoundInv'
  <2>1. UNCHANGED <<tests, bno, taken, argBuf, argVal, agent_list>>
    BY <1>12 DEF AgentStep, ReceiveBroadcast, SendReport, Await, EndTurn, Loop, CondWait,
       testVars, argVars
  <2>2. \A b \in Agent : apc'[b] = apc[b] \/ apc'[b] \notin {"buf", "val", "call"}
    BY ZenonT(60), <1>0, <1>12 DEF AgentStep, ReceiveBroadcast, SendReport, Await, EndTurn, Loop, CondWait,
       TypeOK
  <2> QED BY <1>00, <1>8, <2>1, <2>2 DEF Listed
<1>13. CASE SpuriousWakeup
  <2>1. UNCHANGED <<tests, bno, taken, argBuf, argVal, agent_list>>
    BY <1>13 DEF SpuriousWakeup, testVars, argVars
  <2>2. \A b \in Agent : apc'[b] = apc[b] \/ apc'[b] = "lock"
    BY <1>0, <1>13 DEF SpuriousWakeup, TypeOK
  <2> QED BY <1>00, <1>8, <2>1, <2>2 DEF Listed
<1>14. CASE UNCHANGED vars
  BY <1>14, <1>8 DEF vars, testVars, argVars, Listed
<1> QED
  BY <1>3, <1>4, <1>5, <1>7, <1>9, <1>10, <1>11, <1>12, <1>13, <1>14
  DEF Next, MainStep, Terminated

LEMMA PaceNext == IInv /\ PaceInv /\ [Next]_vars => PaceInv'
<1> SUFFICES ASSUME IInv, PaceInv, [Next]_vars PROVE PaceInv'
  OBVIOUS
<1>1. TInv
  BY DEF IInv
<1>2. MainInv' /\ ScriptInv' /\ AheadInv'
  BY MainNext, ScriptNext, AheadNext DEF PaceInv
<1>3. TurnInv' /\ QueueInv'
  BY <1>1, TurnNext, QueueNext DEF PaceInv
<1> QED
  BY <1>2, <1>3, CollectNext, AnsweredNext, RoundNext DEF PaceInv

LEMMA Paces == Spec => []PaceInv
  BY PaceInit, PaceNext, Invariance, PTL DEF Spec

\* Once the last test is over no agent is left
EndInv == mpc = "end" => agent_list = <<>>

LEMMA Ended == Spec => []EndInv
<1>1. Init => EndInv
  BY DEF Init, EndInv
<1>2. EndInv /\ [Next]_vars => EndInv'
  <2> SUFFICES ASSUME EndInv, [Next]_vars PROVE EndInv'
    OBVIOUS
  <2> USE DEF EndInv
  <2>1. ASSUME NEW a \in Agent, Start(a) PROVE EndInv'
    BY <2>1 DEF Start
  <2>2. CASE Broadcast \/ FillBuf \/ FillVal \/ GetReport \/ EndScript \/ JoinAgent
    BY <2>2 DEF Broadcast, FillBuf, FillVal, GetReport, EndScript, JoinAgent
  <2>3. CASE WakeAll \/ Recheck
    BY <2>3 DEF WakeAll, Recheck, WaitOrReturn
  <2>4. CASE FreeRuntime
    BY <2>4 DEF FreeRuntime
  <2>5. ASSUME NEW a \in Agent, AgentStep(a), ~Take(a) PROVE EndInv'
    BY <2>5 DEF AgentStep, ReceiveBroadcast, SendReport, Await, EndTurn, Loop, CondWait,
       ReadBuf, ReadVal
  <2>6. ASSUME NEW a \in Agent, Take(a) PROVE EndInv'
    BY <2>6 DEF Take, SignalFrom
  <2>7. CASE SpuriousWakeup \/ UNCHANGED vars
    BY <2>7 DEF SpuriousWakeup, vars
  <2> QED
    BY <2>1, <2>2, <2>3, <2>4, <2>5, <2>6, <2>7 DEF Next, MainStep, Terminated
<1> QED BY <1>1, <1>2, PTL DEF Spec

\* Waiting for a report of every agent between broadcasts is protection enough
\* for the fields that agents read without the mutex.
THEOREM ArgsTaken == Spec => []ArgsOfTakenBroadcast
<1>1. IInv /\ PaceInv /\ EndInv => ArgsOfTakenBroadcast
  <2> SUFFICES ASSUME IInv, PaceInv, EndInv, NEW a \in Agent, apc[a] = "call", Paced(Head(tests)),
                      \A rep \in Range(sent) : rep.test = Len(tests)
               PROVE  argBuf[a] = taken[a] /\ argVal[a] = taken[a]
    BY DEF ArgsOfTakenBroadcast
  <2>1. a \in Listed
    BY DEF IInv, ListInv
  <2>2. tests # <<>>
    <3>1. CASE mpc = "end"
      BY <2>1, <3>1, RangeEmpty DEF EndInv, Listed
    <3>2. CASE mpc # "end"
      BY <3>2 DEF IInv, TInv
    <3> QED BY <3>1, <3>2
  <2>3. AllNow
    BY DEF AllNow, Range
  <2>4. Steady
    BY <2>2, <2>3 DEF Steady, This
  <2> QED BY <2>1, <2>4 DEF PaceInv, RoundInv, RoundOf
<1> QED
  BY <1>1, Invariance, Paces, Ended, PTL

----------------------------------------------------------------------------
(* Reports: every test fetches its own *)

\* The agents joined already; the thread at place p of agent_list runs the
\* script that was given Joined + p-th.
Joined    == Len(This.agents) - Len(scripts) - Len(agent_list)
Source(p) == This.agents[Joined + p]

\* The turn thread a is in, of script s, and the calls it has left to make in it
Turn(a, s) == Len(s) - Len(turns[a])
Rest(a)    == Len(cur[a]) + Len(job[a])

\* A thread runs the turns of its script in their order, each from its start
CodeOf(a, s) ==
  /\ Suffix(turns[a], s)
  /\ \A x \in {cur[a], job[a]} : x # <<>> => Turn(a, s) >= 1 /\ Suffix(x, s[Turn(a, s)])

CodeInv ==
  tests # <<>> =>
    /\ Suffix(scripts, This.agents)
    /\ Joined \in Nat
    /\ \A p \in 1..Len(agent_list) : CodeOf(agent_list[p], Source(p))

\* The calls of report() an agent can no longer make
Behind(a, s, j, k) == j < Turn(a, s) \/ (j = Turn(a, s) /\ k <= Len(s[j]) - Rest(a))
Passed(i, j, k) ==
  \/ i <= Joined
  \/ \E p \in 1..Len(agent_list) : i = Joined + p /\ Behind(agent_list[p], Source(p), j, k)
PassedCalls == {c \in ReportCalls(This) : Passed(c[1][1], c[1][2], c[2])}

\* The reports of this test, those made and those returned
Made(s) == {i \in DOMAIN s : s[i].test = Len(tests)}

\* Each report was made by one of the calls passed
MadeInv == tests # <<>> => Cardinality(Made(sent)) <= Cardinality(PassedCalls)

\* report_list is what was queued and not returned yet, in order
FlowInv ==
  /\ \A i \in 1..Len(got) : got[i] = sent[i]
  /\ \A i \in 1..Len(report_list) : report_list[i] = sent[Len(got) + i]

\* Every call of the main script that waits for a report got one of this test
AwaitedInv ==
  mpc \notin {"end", "abort"} =>
    /\ mpc = "join" => todo = <<>>
    /\ At \in Nat
    /\ Cardinality(AwaitsIn(This.main, 1, At)) <= Cardinality(Made(got))

\* The tests that follow this one find no report of an earlier one
FreshInv ==
  tests # <<>> =>
    /\ LeavesNone(tests)
    /\ \A i \in 1..Len(report_list) : report_list[i].test = Len(tests)

LEMMA FiniteUnion ==
  ASSUME NEW n \in Nat, NEW f, DOMAIN f = 1..n, \A i \in 1..n : IsFiniteSet(f[i])
  PROVE  IsFiniteSet(UNION {f[i] : i \in 1..n})
<1> DEFINE F == {f[i] : i \in 1..n}
           g == [i \in 1..n |-> f[i]]
<1>1. g \in Surjection(1..n, F)
  BY DEF Surjection
<1>2. IsFiniteSet(1..n)
  <2>1. 1 \in Int /\ n \in Int
    OBVIOUS
  <2> QED BY <2>1, FS_Interval
<1>3. IsFiniteSet(F)
  BY <1>1, <1>2, FS_Surjection
<1> QED BY <1>3, FS_UNION

LEMMA CallsFinite ==
  ASSUME NEW t \in Test
  PROVE  IsFiniteSet(ReportCalls(t)) /\ Cardinality(ReportCalls(t)) \in Nat
<1> DEFINE ags == t.agents
           In(i) == UNION {{<<i, j>>} \X DOMAIN ags[i][j] : j \in DOMAIN ags[i]}
           g == [i \in 1..Len(ags) |-> In(i)]
<1>1. ags \in Seq(Seq(Seq(AgentOp))) /\ DOMAIN ags = 1..Len(ags) /\ Len(ags) \in Nat
  BY DEF Test
<1> HIDE DEF ags
<1>2. ASSUME NEW i \in 1..Len(ags) PROVE IsFiniteSet(In(i))
  <2> DEFINE s == ags[i]
             h == [j \in 1..Len(s) |-> {<<i, j>>} \X DOMAIN s[j]]
  <2>1. s \in Seq(Seq(AgentOp)) /\ DOMAIN s = 1..Len(s) /\ Len(s) \in Nat
    BY <1>1
  <2> HIDE DEF s
  <2>2. ASSUME NEW j \in 1..Len(s) PROVE IsFiniteSet(h[j])
    <3>1. DOMAIN s[j] = 1..Len(s[j]) /\ Len(s[j]) \in Nat
      BY <2>1
    <3>2. IsFiniteSet(DOMAIN s[j])
      BY <3>1, FS_Interval
    <3>3. IsFiniteSet({<<i, j>>})
      BY FS_Singleton
    <3>4. IsFiniteSet({<<i, j>>} \X DOMAIN s[j])
      BY <3>2, <3>3, FS_Product
    <3> QED BY <3>4
  <2>3. DOMAIN h = 1..Len(s)
    OBVIOUS
  <2> HIDE DEF h
  <2>4. IsFiniteSet(UNION {h[j] : j \in 1..Len(s)})
    BY <2>1, <2>2, <2>3, FiniteUnion
  <2>5. {h[j] : j \in 1..Len(s)} = {{<<i, j>>} \X DOMAIN s[j] : j \in DOMAIN s}
    BY <2>1 DEF h
  <2> QED BY <2>4, <2>5 DEF s
<1>3. IsFiniteSet(UNION {g[i] : i \in 1..Len(ags)})
  <2>1. DOMAIN g = 1..Len(ags) /\ \A i \in 1..Len(ags) : g[i] = In(i)
    OBVIOUS
  <2>2. DOMAIN g = 1..Len(ags) /\ \A i \in 1..Len(ags) : IsFiniteSet(g[i])
    <3> HIDE DEF In
    <3> QED BY <1>2, <2>1
  <2> HIDE DEF g
  <2> QED BY <1>1, <2>2, FiniteUnion
<1>4. {g[i] : i \in 1..Len(ags)} = {In(i) : i \in DOMAIN ags}
  <2> HIDE DEF In
  <2> QED BY <1>1
<1>5. ReportCalls(t) \subseteq UNION {In(i) : i \in DOMAIN ags}
  BY DEF ReportCalls, ags
<1>6. IsFiniteSet(UNION {In(i) : i \in DOMAIN ags})
  <2> HIDE DEF g, In
  <2> QED BY <1>3, <1>4
<1>7. IsFiniteSet(ReportCalls(t))
  <2> HIDE DEF In
  <2> QED BY <1>5, <1>6, FS_Subset
<1> QED BY <1>7, FS_CardinalityType

\* Which calls there are
LEMMA CallsAre ==
  ASSUME NEW t \in Test
  PROVE  /\ \A c \in ReportCalls(t) :
              /\ c = <<<<c[1][1], c[1][2]>>, c[2]>>
              /\ c[1][1] \in 1..Len(t.agents) /\ c[1][2] \in Nat /\ c[2] \in Nat
         /\ \A i \in 1..Len(t.agents) : \A j \in 1..Len(t.agents[i]) :
              \A k \in 1..Len(t.agents[i][j]) :
                t.agents[i][j][k] = "report" => <<<<i, j>>, k>> \in ReportCalls(t)
<1> DEFINE ags == t.agents
<1>1. /\ ags \in Seq(Seq(Seq(AgentOp))) /\ DOMAIN ags = 1..Len(ags) /\ Len(ags) \in Nat
      /\ \A i \in 1..Len(ags) : ags[i] \in Seq(Seq(AgentOp))
  BY DEF Test
<1>2. \A i \in 1..Len(ags) : /\ DOMAIN ags[i] = 1..Len(ags[i]) /\ Len(ags[i]) \in Nat
                             /\ \A j \in 1..Len(ags[i]) : ags[i][j] \in Seq(AgentOp)
  BY <1>1
<1>3. \A i \in 1..Len(ags) : \A j \in 1..Len(ags[i]) :
         DOMAIN ags[i][j] = 1..Len(ags[i][j]) /\ Len(ags[i][j]) \in Nat
  BY <1>2
<1>4. ASSUME NEW c \in ReportCalls(t)
      PROVE  /\ c = <<<<c[1][1], c[1][2]>>, c[2]>>
             /\ c[1][1] \in 1..Len(ags) /\ c[1][2] \in Nat /\ c[2] \in Nat
  <2>1. PICK i \in DOMAIN ags : \E j \in DOMAIN ags[i] : c \in {<<i, j>>} \X DOMAIN ags[i][j]
    BY DEF ReportCalls, ags
  <2>2. PICK j \in DOMAIN ags[i] : c \in {<<i, j>>} \X DOMAIN ags[i][j]
    BY <2>1
  <2>3. PICK k \in DOMAIN ags[i][j] : c = <<<<i, j>>, k>>
    BY <2>2
  <2> QED BY <1>1, <1>2, <1>3, <2>3
<1>5. ASSUME NEW i \in 1..Len(ags), NEW j \in 1..Len(ags[i]), NEW k \in 1..Len(ags[i][j]),
             ags[i][j][k] = "report"
      PROVE  <<<<i, j>>, k>> \in ReportCalls(t)
  <2>1. <<<<i, j>>, k>> \in {<<i, j>>} \X DOMAIN ags[i][j]
    BY <1>3
  <2>2. <<<<i, j>>, k>> \in UNION {UNION {{<<ii, jj>>} \X DOMAIN ags[ii][jj] : jj \in DOMAIN ags[ii]}
                                     : ii \in DOMAIN ags}
    BY <1>1, <1>2, <2>1
  <2> QED BY <1>5, <2>2 DEF ReportCalls, ags
<1> QED BY <1>4, <1>5 DEF ags

\* The next turn of a script, and what is left of the script then
LEMMA TurnsOf ==
  ASSUME NEW s \in Seq(Seq(AgentOp)), NEW ts \in Seq(Seq(AgentOp)), Suffix(ts, s)
  PROVE  /\ Suffix(LaterTurns(ts), s)
         /\ ts = <<>> => FirstTurn(ts) = <<>> /\ LaterTurns(ts) = <<>>
         /\ ts # <<>> => /\ Len(LaterTurns(ts)) = Len(ts) - 1
                         /\ Len(s) - Len(LaterTurns(ts)) \in 1..Len(s)
                         /\ FirstTurn(ts) = s[Len(s) - Len(LaterTurns(ts))]
<1>1. CASE ts = <<>>
  BY <1>1 DEF FirstTurn, LaterTurns, Suffix
<1>2. CASE ts # <<>>
  <2> HIDE DEF Suffix
  <2>1. /\ Suffix(Tail(ts), s)
        /\ Len(Tail(ts)) = Len(ts) - 1
        /\ Len(s) - Len(Tail(ts)) = Len(s) - Len(ts) + 1
        /\ Len(s) - Len(ts) + 1 \in 1..Len(s)
        /\ Head(ts) = s[Len(s) - Len(ts) + 1]
    <3>1. \A x, y \in Seq(Seq(AgentOp)) : x # <<>> /\ Suffix(x, y) =>
            /\ Suffix(Tail(x), y)
            /\ Len(Tail(x)) = Len(x) - 1
            /\ Len(y) - Len(Tail(x)) = Len(y) - Len(x) + 1
            /\ Len(y) - Len(x) + 1 \in 1..Len(y)
            /\ Head(x) = y[Len(y) - Len(x) + 1]
      BY SuffixTail
    <3> QED BY <1>2, <3>1
  <2>2. FirstTurn(ts) = Head(ts) /\ LaterTurns(ts) = Tail(ts)
    BY <1>2 DEF FirstTurn, LaterTurns
  <2> QED BY <1>2, <2>1, <2>2
<1> QED BY <1>1, <1>2

\* What a step does to the calls a thread has left: it goes on in its turn, or
\* begins the next one.
GoesOn(a) ==
  /\ turns'[a] = turns[a]
  /\ Rest(a)' <= Rest(a)
  /\ \A x \in {cur'[a], job'[a]} :
       x = <<>> \/ x = cur[a] \/ x = job[a] \/ (cur[a] # <<>> /\ x = Tail(cur[a]))
NextTurn(a) ==
  /\ cur[a] = <<>> /\ job[a] = <<>> /\ job'[a] = <<>>
  /\ cur'[a] = FirstTurn(turns[a]) /\ turns'[a] = LaterTurns(turns[a])

LEMMA CallsLeft ==
  ASSUME TInv
  PROVE  /\ \A a \in Agent : Len(cur[a]) \in Nat /\ Len(job[a]) \in Nat /\ Rest(a) \in Nat
                             /\ turns[a] \in Seq(Seq(AgentOp)) /\ Len(turns[a]) \in Nat
         /\ \A a \in Agent : cur[a] \in Seq(AgentOp) /\ job[a] \in Seq(AgentOp)
<1>1. \A a \in Agent : /\ cur[a] \in Seq(AgentOp) /\ job[a] \in Seq(AgentOp)
                       /\ turns[a] \in Seq(Seq(AgentOp))
  BY DEF TInv, TypeOK
<1>2. \A a \in Agent : Len(cur[a]) \in Nat /\ Len(job[a]) \in Nat /\ Len(turns[a]) \in Nat
  BY <1>1, LenProperties
<1>3. ASSUME NEW a \in Agent PROVE Rest(a) \in Nat
  <2>1. Len(cur[a]) \in Nat /\ Len(job[a]) \in Nat
    BY <1>2
  <2>2. \A m, n \in Nat : m + n \in Nat
    OBVIOUS
  <2> QED BY Zenon, <2>1, <2>2 DEF Rest
<1> QED BY <1>1, <1>2, <1>3

LEMMA Moves ==
  ASSUME TInv, TurnInv, [Next]_vars, NEW a \in Agent, apc[a] # "idle"
  PROVE  GoesOn(a) \/ NextTurn(a)
<1>0. /\ Len(cur[a]) \in Nat /\ Len(job[a]) \in Nat /\ Len(<<>>) = 0
      /\ cur[a] \in Seq(AgentOp) /\ job[a] \in Seq(AgentOp) /\ TypeOK
  BY CallsLeft, EmptySeq DEF TInv
<1>00. \A m, n \in Nat : m - 1 + n <= m + n /\ 0 + (m - 1) <= m + n /\ 0 + n <= m + n
  OBVIOUS
<1> USE DEF TInv, TypeOK
<1>1. ASSUME turns'[a] = turns[a], cur'[a] = cur[a], job'[a] = job[a] PROVE GoesOn(a)
  BY <1>0, <1>1 DEF GoesOn, Rest
<1>2. ASSUME NEW b \in Agent, Start(b) PROVE GoesOn(a)
  <2>1. b # a
    BY <1>2 DEF Start
  <2> QED BY <1>1, <1>2, <2>1 DEF Start
<1>3. CASE Broadcast \/ FillBuf \/ FillVal \/ WakeAll \/ Recheck \/ GetReport \/ EndScript
           \/ JoinAgent \/ FreeRuntime \/ SpuriousWakeup \/ UNCHANGED vars
  <2>1. UNCHANGED <<turns, cur, job>>
    BY <1>3 DEF Broadcast, FillBuf, FillVal, WakeAll, Recheck, GetReport, EndScript, JoinAgent,
       FreeRuntime, SpuriousWakeup, vars, turnVars
  <2> QED BY <1>1, <2>1
<1>4. ASSUME NEW b \in Agent, CondWait(b) \/ Take(b) \/ ReadBuf(b) PROVE GoesOn(a)
  <2>1. UNCHANGED <<turns, cur, job>>
    BY <1>4 DEF CondWait, Take, ReadBuf, turnVars
  <2> QED BY <1>1, <2>1
<1>5. ASSUME NEW b \in Agent, b # a, AgentStep(b) PROVE GoesOn(a)
  <2>1. CASE ReceiveBroadcast(b) \/ SendReport(b) \/ Await(b) \/ EndTurn(b) \/ Loop(b) \/ ReadVal(b)
    <3>1. turns'[a] = turns[a] /\ cur'[a] = cur[a] /\ job'[a] = job[a]
      BY <1>5, <2>1 DEF ReceiveBroadcast, SendReport, Await, EndTurn, Loop, ReadVal
    <3> QED BY <1>1, <3>1
  <2> QED BY <1>4, <1>5, <2>1 DEF AgentStep
<1>6. CASE ReceiveBroadcast(a) \/ SendReport(a)
  <2>1. /\ cur[a] # <<>> /\ cur'[a] = Tail(cur[a]) /\ turns'[a] = turns[a] /\ job'[a] = job[a]
    BY <1>0, <1>6, AgentCallTaken DEF ReceiveBroadcast, SendReport
  <2>2. Len(cur'[a]) = Len(cur[a]) - 1
    BY <1>0, <2>1, HeadTailProperties
  <2> QED BY <1>0, <1>00, <2>1, <2>2 DEF GoesOn, Rest
<1>7. CASE Await(a)
  <2>1. /\ cur[a] # <<>> /\ cur'[a] = <<>> /\ job'[a] = Tail(cur[a]) /\ turns'[a] = turns[a]
    BY <1>0, <1>7, AgentCallTaken DEF Await
  <2>2. Len(job'[a]) = Len(cur[a]) - 1
    BY <1>0, <2>1, HeadTailProperties
  <2> QED BY <1>0, <1>00, <2>1, <2>2 DEF GoesOn, Rest
<1>8. CASE EndTurn(a)
  <2>1. cur'[a] = <<>> /\ job'[a] = job[a] /\ turns'[a] = turns[a]
    BY <1>8 DEF EndTurn
  <2> QED BY <1>0, <2>1 DEF GoesOn, Rest
<1>9. CASE Loop(a)
  <2>1. cur[a] = <<>>
    BY <1>9 DEF Loop, TurnInv
  <2>2. turns' = turns
    BY <1>9 DEF Loop
  <2>3. CASE job[a] # <<>>
    <3>1. cur'[a] = job[a] /\ job'[a] = <<>>
      BY <1>9, <2>3 DEF Loop
    <3> QED BY <1>0, <2>1, <2>2, <3>1 DEF GoesOn, Rest
  <2>4. CASE job[a] = <<>>
    <3>1. UNCHANGED <<cur, job>>
      BY <1>9, <2>4 DEF Loop
    <3> QED BY <1>1, <2>2, <3>1
  <2> QED BY <2>3, <2>4
<1>10. CASE ReadVal(a)
  <2>1. cur[a] = <<>> /\ job[a] = <<>>
    BY <1>10 DEF ReadVal, TurnInv
  <2>2. /\ job'[a] = job[a] /\ cur'[a] = FirstTurn(turns[a]) /\ turns'[a] = LaterTurns(turns[a])
    BY <1>10 DEF ReadVal
  <2> QED BY <2>1, <2>2 DEF NextTurn
<1> QED
  BY <1>2, <1>3, <1>4, <1>5, <1>6, <1>7, <1>8, <1>9, <1>10 DEF Next, MainStep, AgentStep, Terminated

\* Neither leaves the script, nor goes back in it
LEMMA StaysInCode ==
  ASSUME TInv, NEW a \in Agent, NEW s \in Seq(Seq(AgentOp)), CodeOf(a, s),
         GoesOn(a) \/ NextTurn(a), (Rest(a) \in Nat)'
  PROVE  /\ CodeOf(a, s)'
         /\ \A j, k \in Nat : Behind(a, s, j, k) => Behind(a, s, j, k)'
<1> DEFINE n == Len(s)
           T == Turn(a, s)
<1>1. /\ turns[a] \in Seq(Seq(AgentOp)) /\ cur[a] \in Seq(AgentOp) /\ job[a] \in Seq(AgentOp)
      /\ Rest(a) \in Nat /\ Len(turns[a]) \in Nat /\ n \in Nat
  BY CallsLeft
<1>2. Suffix(turns[a], s) /\ Len(turns[a]) <= n /\ T \in 0..n
  <2>1. Suffix(turns[a], s) /\ Len(turns[a]) <= n
    BY DEF CodeOf, Suffix
  <2>2. \A l, m \in Nat : l <= m => m - l \in 0..m
    OBVIOUS
  <2> QED BY <1>1, <2>1, <2>2 DEF Turn
<1>3. CASE GoesOn(a)
  <2>1. turns'[a] = turns[a] /\ Turn(a, s)' = T
    BY <1>3 DEF GoesOn, Turn
  <2>2. ASSUME NEW x \in {cur'[a], job'[a]}, x # <<>>
        PROVE  T >= 1 /\ Suffix(x, s[T])
    <3>1. CASE x = cur[a] \/ x = job[a]
      BY <2>2, <3>1 DEF CodeOf
    <3>2. CASE cur[a] # <<>> /\ x = Tail(cur[a])
      <4>1. T >= 1 /\ Suffix(cur[a], s[T])
        BY <3>2 DEF CodeOf
      <4>2. T \in 1..n
        BY <1>1, <1>2, <4>1
      <4>3. s[T] \in Seq(AgentOp)
        BY <4>2, ElementOfSeq
      <4>4. \A y, z \in Seq(AgentOp) : y # <<>> /\ Suffix(y, z) => Suffix(Tail(y), z)
        BY SuffixTail
      <4> QED BY <1>1, <3>2, <4>1, <4>3, <4>4
    <3> QED BY <1>3, <2>2, <3>1, <3>2 DEF GoesOn
  <2>3. CodeOf(a, s)'
    BY <1>2, <2>1, <2>2 DEF CodeOf
  <2>4. ASSUME NEW j \in Nat, NEW k \in Nat, Behind(a, s, j, k) PROVE Behind(a, s, j, k)'
    <3>1. CASE j < T
      BY <2>1, <3>1 DEF Behind
    <3>2. CASE j = T /\ k <= Len(s[j]) - Rest(a) /\ ~(j < T)
      <4>1. Rest(a)' <= Rest(a)
        BY <1>3 DEF GoesOn
      <4>2. k <= Len(s[j]) - Rest(a)'
        <5>1. CASE j = 0
          <6>1. cur[a] = <<>> /\ job[a] = <<>> /\ cur'[a] = <<>> /\ job'[a] = <<>>
            BY <2>2, <3>2, <5>1, <1>1 DEF CodeOf
          <6>2. Rest(a)' = Rest(a)
            BY <6>1 DEF Rest
          <6> QED BY <3>2, <6>2
        <5>2. CASE j # 0
          <6>1. j \in 1..n
            BY <1>2, <3>2, <5>2
          <6>2. Len(s[j]) \in Nat
            BY <6>1, ElementOfSeq
          <6>3. \A l, r, q, m \in Nat : m <= l - r /\ q <= r => m <= l - q
            OBVIOUS
          <6> QED BY <1>1, <3>2, <4>1, <6>2, <6>3
        <5> QED BY <5>1, <5>2
      <4> QED BY <2>1, <3>2, <4>2 DEF Behind
    <3> QED BY <2>4, <3>1, <3>2 DEF Behind
  <2> QED BY <2>3, <2>4
<1>4. CASE NextTurn(a)
  <2>1. /\ cur[a] = <<>> /\ job[a] = <<>> /\ job'[a] = <<>>
        /\ cur'[a] = FirstTurn(turns[a]) /\ turns'[a] = LaterTurns(turns[a])
    BY <1>4 DEF NextTurn
  <2>2. CASE turns[a] = <<>>
    <3>1. cur'[a] = <<>> /\ turns'[a] = <<>>
      BY <2>1, <2>2 DEF FirstTurn, LaterTurns
    <3>2. Turn(a, s)' = T /\ Rest(a)' = Rest(a)
      BY <2>1, <2>2, <3>1 DEF Turn, Rest
    <3>3. CodeOf(a, s)'
      BY <1>2, <2>1, <2>2, <3>1 DEF CodeOf
    <3>4. \A j, k \in Nat : Behind(a, s, j, k) => Behind(a, s, j, k)'
      BY <3>2 DEF Behind
    <3> QED BY <3>3, <3>4
  <2>3. CASE turns[a] # <<>>
    <3>1. /\ Suffix(turns'[a], s)
          /\ Len(turns'[a]) = Len(turns[a]) - 1
          /\ n - Len(turns'[a]) \in 1..n
          /\ cur'[a] = s[n - Len(turns'[a])]
      <4>1. \A y, ts \in Seq(Seq(AgentOp)) : ts # <<>> /\ Suffix(ts, y) =>
              /\ Suffix(LaterTurns(ts), y)
              /\ Len(LaterTurns(ts)) = Len(ts) - 1
              /\ Len(y) - Len(LaterTurns(ts)) \in 1..Len(y)
              /\ FirstTurn(ts) = y[Len(y) - Len(LaterTurns(ts))]
        BY TurnsOf
      <4> QED BY <1>1, <1>2, <2>1, <2>3, <4>1
    <3>2. Turn(a, s)' = T + 1 /\ Turn(a, s)' \in 1..n /\ cur'[a] = s[Turn(a, s)']
      BY <1>1, <3>1 DEF Turn
    <3>3. s[Turn(a, s)'] \in Seq(AgentOp)
      BY <3>2, ElementOfSeq
    <3>4. Suffix(cur'[a], s[Turn(a, s)'])
      BY <3>2, <3>3, SuffixSelf
    <3>5. CodeOf(a, s)'
      BY <2>1, <3>1, <3>2, <3>4 DEF CodeOf
    <3>6. ASSUME NEW j \in Nat, NEW k \in Nat, Behind(a, s, j, k) PROVE j < Turn(a, s)'
      <4>1. j < T \/ j = T
        BY <3>6 DEF Behind
      <4> QED BY <1>2, <3>2, <4>1
    <3> QED BY <3>5, <3>6 DEF Behind
  <2> QED BY <2>2, <2>3
<1> QED BY <1>3, <1>4

LEMMA CodeInit == Init => CodeInv
<1> SUFFICES ASSUME Init PROVE CodeInv
  OBVIOUS
<1>1. This.agents \in Seq(Seq(Seq(AgentOp))) /\ scripts = This.agents /\ agent_list = <<>>
  <2>1. TInv /\ tests # <<>>
    BY TypeInit DEF Init
  <2> QED BY <2>1, ThisType DEF Init, This
<1>2. Joined = 0
  <2>1. Len(This.agents) \in Nat /\ Len(scripts) = Len(This.agents) /\ Len(agent_list) = 0
    BY <1>1, LenProperties, EmptySeq
  <2>2. \A n \in Nat : n - n - 0 = 0
    OBVIOUS
  <2> QED BY Zenon, <2>1, <2>2 DEF Joined
<1> QED BY <1>1, <1>2, SuffixSelf DEF CodeInv

\* The scripts of the threads on agent_list
LEMMA Places ==
  ASSUME TInv, CodeInv, tests # <<>>
  PROVE  /\ Joined \in Nat /\ Len(scripts) \in Nat /\ Len(agent_list) \in Nat
         /\ Len(This.agents) \in Nat
         /\ Len(This.agents) = Joined + Len(scripts) + Len(agent_list)
         /\ \A p \in 1..Len(agent_list) :
              /\ agent_list[p] \in Agent /\ agent_list[p] \in Listed
              /\ Joined + p \in 1..Len(This.agents)
              /\ Source(p) \in Seq(Seq(AgentOp))
              /\ CodeOf(agent_list[p], Source(p))
<1>1. /\ Joined \in Nat /\ Len(scripts) \in Nat /\ Len(agent_list) \in Nat
      /\ This.agents \in Seq(Seq(Seq(AgentOp))) /\ Len(This.agents) \in Nat
      /\ agent_list \in Seq(Agent)
  <2>1. scripts \in Seq(Seq(Seq(AgentOp))) /\ agent_list \in Seq(Agent)
    BY DEF TInv, TypeOK
  <2> QED BY <2>1, ThisType, LenProperties DEF CodeInv
<1>2. Len(This.agents) = Joined + Len(scripts) + Len(agent_list)
  BY <1>1 DEF Joined
<1>3. ASSUME NEW p \in 1..Len(agent_list)
      PROVE  /\ agent_list[p] \in Agent /\ agent_list[p] \in Listed
             /\ Joined + p \in 1..Len(This.agents)
             /\ Source(p) \in Seq(Seq(AgentOp))
             /\ CodeOf(agent_list[p], Source(p))
  <2>1. Joined + p \in 1..Len(This.agents)
    <3>1. \A x, y, z \in Nat : \A q \in 1..z : x + q \in 1..(x + y + z)
      OBVIOUS
    <3> QED BY <1>1, <1>2, <3>1
  <2>2. Source(p) \in Seq(Seq(AgentOp))
    BY <1>1, <2>1, ElementOfSeq DEF Source
  <2>3. agent_list[p] \in Agent /\ agent_list[p] \in Range(agent_list)
    BY <1>1, RangeEquality, ElementOfSeq
  <2> QED BY <2>1, <2>2, <2>3 DEF CodeInv, Listed
<1> QED BY <1>1, <1>2, <1>3

CallsStay == tests # <<>> => \A i, j, k \in Nat : Passed(i, j, k) => Passed(i, j, k)'

LEMMA CodeStep ==
  ASSUME TInv, ListInv, TurnInv, CodeInv, [Next]_vars, UNCHANGED <<tests, scripts, agent_list>>
  PROVE  CodeInv' /\ CallsStay
<1> SUFFICES ASSUME tests # <<>> PROVE CodeInv' /\ CallsStay
  BY DEF CodeInv, CallsStay
<1>1. Joined' = Joined /\ This' = This /\ Len(agent_list') = Len(agent_list)
      /\ \A p : Source(p)' = Source(p)
  BY DEF Joined, This, Source
<1>2. ASSUME NEW p \in 1..Len(agent_list)
      PROVE  /\ CodeOf(agent_list[p], Source(p))'
             /\ \A j, k \in Nat : Behind(agent_list[p], Source(p), j, k)
                                    => Behind(agent_list[p], Source(p), j, k)'
  <2> DEFINE a == agent_list[p]
             s == Source(p)
  <2>1. a \in Agent /\ a \in Listed /\ s \in Seq(Seq(AgentOp)) /\ CodeOf(a, s)
    BY Places
  <2>2. a' = a /\ s' = s
    BY <1>1
  <2> HIDE DEF a, s
  <2>3. apc[a] # "idle"
    BY <2>1 DEF ListInv
  <2>4. GoesOn(a) \/ NextTurn(a)
    BY <2>1, <2>3, Moves
  <2>5. Rest(a)' \in Nat
    <3>1. TInv'
      BY TypeNext
    <3>2. cur'[a] \in Seq(AgentOp) /\ job'[a] \in Seq(AgentOp)
      BY <2>1, <3>1 DEF TInv, TypeOK
    <3>3. Len(cur'[a]) \in Nat /\ Len(job'[a]) \in Nat
      BY <3>2, LenProperties
    <3>4. \A m, n \in Nat : m + n \in Nat
      OBVIOUS
    <3>5. Rest(a)' = Len(cur'[a]) + Len(job'[a])
      BY <2>2 DEF Rest
    <3> QED BY Zenon, <3>3, <3>4, <3>5
  <2>6. \A y, b : y = s /\ b = a /\ y \in Seq(Seq(AgentOp)) /\ b \in Agent =>
           (CodeOf(b, y)' <=> CodeOf(a, s)')
    BY <2>2
  <2> QED BY <2>1, <2>2, <2>4, <2>5, StaysInCode DEF a, s
<1> QED BY <1>1, <1>2 DEF CodeInv, CallsStay, Passed

LEMMA CodeNext == IInv /\ TurnInv /\ CodeInv /\ [Next]_vars =>
                    CodeInv' /\ (tests' = tests => CallsStay)
<1> SUFFICES ASSUME TInv, ListInv, TurnInv, CodeInv, [Next]_vars
             PROVE  CodeInv' /\ (tests' = tests => CallsStay)
  BY DEF IInv
<1>1. ASSUME NEW b \in Agent, Start(b) PROVE CodeInv' /\ CallsStay
  <2> DEFINE n == Len(agent_list)
  <2>0. PICK new : new = Head(scripts)
    OBVIOUS
  <2>1. /\ tests # <<>> /\ tests' = tests /\ This' = This /\ scripts # <<>>
        /\ scripts' = Tail(scripts)
        /\ agent_list' = Append(agent_list, b) /\ apc[b] = "idle"
    BY <1>1 DEF Start, TInv, This
  <2>2. /\ turns' = [turns EXCEPT ![b] = LaterTurns(new)]
        /\ cur' = [cur EXCEPT ![b] = FirstTurn(new)]
        /\ job' = [job EXCEPT ![b] = <<>>]
    BY <1>1, <2>0 DEF Start
  <2>3. /\ Suffix(scripts', This.agents) /\ Len(scripts') = Len(scripts) - 1
        /\ Len(This.agents) - Len(scripts) + 1 \in 1..Len(This.agents)
        /\ new = This.agents[Len(This.agents) - Len(scripts) + 1]
    <3>1. /\ scripts \in Seq(Seq(Seq(AgentOp))) /\ This.agents \in Seq(Seq(Seq(AgentOp)))
          /\ Suffix(scripts, This.agents)
      BY <2>1, ThisType DEF TInv, TypeOK, CodeInv
    <3>2. \A x, y \in Seq(Seq(Seq(AgentOp))) :
             x # <<>> /\ Suffix(x, y) =>
               /\ Suffix(Tail(x), y) /\ Len(Tail(x)) = Len(x) - 1
               /\ Len(y) - Len(x) + 1 \in 1..Len(y)
               /\ Head(x) = y[Len(y) - Len(x) + 1]
      BY SuffixTail
    <3> QED BY <2>0, <2>1, <3>1, <3>2
  <2>4. /\ Len(agent_list') = n + 1 /\ agent_list'[n + 1] = b
        /\ \A p \in 1..n : agent_list'[p] = agent_list[p]
    BY <2>1, AppendProperties DEF TInv, TypeOK
  <2>5. /\ n \in Nat /\ Len(scripts) \in Nat /\ Len(This.agents) \in Nat /\ Joined \in Nat
        /\ Len(This.agents) = Joined + Len(scripts) + n
    BY <2>1, Places
  <2>6. Joined' = Joined /\ Joined + (n + 1) = Len(This.agents) - Len(scripts) + 1
    <3>1. \A l, j, m, k \in Nat : l = j + m + k =>
             l - (m - 1) - (k + 1) = j /\ j + (k + 1) = l - m + 1
      OBVIOUS
    <3>2. /\ Len(This.agents) - (Len(scripts) - 1) - (n + 1) = Joined
          /\ Joined + (n + 1) = Len(This.agents) - Len(scripts) + 1
      BY <2>5, <3>1
    <3>3. Joined' = Len(This.agents) - (Len(scripts) - 1) - (n + 1)
      BY Zenon, <2>1, <2>3, <2>4 DEF Joined
    <3> QED BY <3>2, <3>3
  <2>7. \A p : Source(p)' = Source(p)
    BY <2>1, <2>6 DEF Source
  <2>8. Source(n + 1) = new /\ new \in Seq(Seq(AgentOp))
    <3>1. This.agents \in Seq(Seq(Seq(AgentOp)))
      BY <2>1, ThisType
    <3> QED BY <2>3, <2>6, <3>1, ElementOfSeq DEF Source
  <2>9. ASSUME NEW p \in 1..n
        PROVE  /\ agent_list[p] \in Agent /\ agent_list[p] # b
               /\ turns'[agent_list[p]] = turns[agent_list[p]]
               /\ cur'[agent_list[p]] = cur[agent_list[p]]
               /\ job'[agent_list[p]] = job[agent_list[p]]
    <3>1. agent_list[p] \in Agent /\ agent_list[p] \in Listed
      BY <2>1, Places
    <3>2. agent_list[p] # b
      BY <2>1, <3>1 DEF ListInv
    <3> QED BY <2>2, <3>1, <3>2 DEF TInv, TypeOK
  <2>10. ASSUME NEW p \in 1..n
         PROVE  /\ CodeOf(agent_list[p], Source(p))'
                /\ \A j, k : Behind(agent_list[p], Source(p), j, k)
                               => Behind(agent_list[p], Source(p), j, k)'
    <3>1. agent_list[p]' = agent_list[p]
      BY <2>4
    <3>2. CodeOf(agent_list[p], Source(p))
      BY <2>1, Places
    <3>3. PICK a, s : a = agent_list[p] /\ s = Source(p) /\ a = agent_list'[p] /\ s = Source(p)'
      BY <2>7, <3>1
    <3>4. turns'[a] = turns[a] /\ cur'[a] = cur[a] /\ job'[a] = job[a]
      BY <2>9, <3>3
    <3>5. Turn(a, s)' = Turn(a, s) /\ Rest(a)' = Rest(a)
      BY <3>4 DEF Turn, Rest
    <3>6. CodeOf(a, s)' /\ \A j, k : Behind(a, s, j, k) => Behind(a, s, j, k)'
      BY <3>2, <3>3, <3>4, <3>5 DEF CodeOf, Behind
    <3> QED BY <3>3, <3>6 DEF CodeOf, Turn, Behind, Rest
  <2>11. CodeOf(b, new)'
    <3>1. turns'[b] = LaterTurns(new) /\ cur'[b] = FirstTurn(new) /\ job'[b] = <<>>
      BY <2>2 DEF TInv, TypeOK
    <3>2. Suffix(new, new)
      BY <2>8, SuffixSelf
    <3>3. /\ Suffix(turns'[b], new)
          /\ new = <<>> => cur'[b] = <<>>
          /\ new # <<>> => /\ Len(new) - Len(turns'[b]) \in 1..Len(new)
                           /\ cur'[b] = new[Len(new) - Len(turns'[b])]
      <4>1. \A y, ts \in Seq(Seq(AgentOp)) : Suffix(ts, y) =>
              /\ Suffix(LaterTurns(ts), y)
              /\ ts = <<>> => FirstTurn(ts) = <<>>
              /\ ts # <<>> => /\ Len(y) - Len(LaterTurns(ts)) \in 1..Len(y)
                              /\ FirstTurn(ts) = y[Len(y) - Len(LaterTurns(ts))]
        BY TurnsOf
      <4> QED BY <2>8, <3>1, <3>2, <4>1
    <3>4. ASSUME cur'[b] # <<>> PROVE Suffix(cur'[b], new[Len(new) - Len(turns'[b])])
      <4>1. new # <<>>
        BY <3>3, <3>4
      <4>2. new[Len(new) - Len(turns'[b])] \in Seq(AgentOp)
        BY <2>8, <3>3, <4>1, ElementOfSeq
      <4> QED BY <3>3, <4>1, <4>2, SuffixSelf
    <3> QED BY <3>1, <3>3, <3>4 DEF CodeOf, Turn
  <2>12. CodeInv'
    <3>1. ASSUME NEW p \in 1..(n + 1) PROVE CodeOf(agent_list[p], Source(p))'
      <4>1. CASE p \in 1..n
        BY <2>10, <4>1
      <4>2. CASE p = n + 1
        <5>1. agent_list'[p] = b /\ Source(p)' = new
          BY <2>4, <2>7, <2>8, <4>2
        <5> QED BY <2>11, <5>1 DEF CodeOf, Turn
      <4> QED BY <2>5, <4>1, <4>2
    <3> QED BY <2>1, <2>3, <2>4, <2>5, <2>6, <3>1 DEF CodeInv
  <2>13. ASSUME NEW i \in Nat, NEW j \in Nat, NEW k \in Nat, Passed(i, j, k) PROVE Passed(i, j, k)'
    <3>1. CASE i <= Joined
      BY <2>6, <3>1 DEF Passed
    <3>2. CASE ~(i <= Joined)
      <4>1. PICK p \in 1..n : i = Joined + p /\ Behind(agent_list[p], Source(p), j, k)
        BY <2>13, <3>2 DEF Passed
      <4>2. p \in 1..(n + 1) /\ i = Joined' + p /\ Behind(agent_list[p], Source(p), j, k)'
        BY <2>5, <2>6, <2>10, <4>1
      <4> QED BY <2>4, <4>2 DEF Passed
    <3> QED BY <3>1, <3>2
  <2> QED BY <2>12, <2>13 DEF CallsStay
<1>2. CASE JoinAgent
  <2> DEFINE n == Len(agent_list)
  <2>1. /\ tests # <<>> /\ tests' = tests /\ This' = This /\ scripts' = scripts
        /\ agent_list # <<>> /\ agent_list' = Tail(agent_list) /\ UNCHANGED <<turns, cur, job>>
    BY <1>2 DEF JoinAgent, TInv, testVars, turnVars, This
  <2>2. /\ n \in Nat /\ Len(agent_list') = n - 1
        /\ \A p \in 1..(n - 1) : agent_list'[p] = agent_list[p + 1]
    <3>1. agent_list \in Seq(Agent)
      BY DEF TInv, TypeOK
    <3> QED BY <2>1, <3>1, HeadTailProperties, LenProperties
  <2>3. /\ Len(scripts) \in Nat /\ Len(This.agents) \in Nat /\ Joined \in Nat
        /\ Len(This.agents) = Joined + Len(scripts) + n
    BY <2>1, Places
  <2>4. Joined' = Joined + 1
    BY <2>1, <2>2, <2>3 DEF Joined
  <2>5. ASSUME NEW p \in 1..(n - 1)
        PROVE  p + 1 \in 1..n /\ Source(p)' = Source(p + 1) /\ agent_list'[p] = agent_list[p + 1]
               /\ Joined' + p = Joined + (p + 1)
    <3>1. Joined' + p = Joined + (p + 1)
      BY <2>3, <2>4
    <3> QED BY <2>1, <2>2, <3>1 DEF Source
  <2>6. CodeInv'
    <3>1. ASSUME NEW p \in 1..Len(agent_list') PROVE CodeOf(agent_list[p], Source(p))'
      <4>1. p \in 1..(n - 1) /\ CodeOf(agent_list[p + 1], Source(p + 1))
        BY <2>1, <2>2, <2>5, Places
      <4> QED BY <2>1, <2>5, <4>1 DEF CodeOf, Turn
    <3> QED BY <2>1, <2>3, <2>4, <3>1 DEF CodeInv
  <2>7. ASSUME NEW i \in Nat, NEW j \in Nat, NEW k \in Nat, Passed(i, j, k) PROVE Passed(i, j, k)'
    <3>1. CASE i <= Joined + 1
      BY <2>4, <3>1 DEF Passed
    <3>2. CASE ~(i <= Joined + 1)
      <4>1. PICK p \in 1..n : i = Joined + p /\ Behind(agent_list[p], Source(p), j, k)
        BY <2>3, <2>7, <3>2 DEF Passed
      <4>2. p - 1 \in 1..(n - 1) /\ (p - 1) + 1 = p
        BY <2>2, <2>3, <3>2, <4>1
      <4>3. /\ Source(p - 1)' = Source(p) /\ agent_list'[p - 1] = agent_list[p]
            /\ i = Joined' + (p - 1)
        BY <2>5, <4>1, <4>2
      <4>4. Behind(agent_list[p - 1], Source(p - 1), j, k)'
        BY <2>1, <4>1, <4>3 DEF Behind, Turn, Rest
      <4> QED BY <2>2, <4>2, <4>3, <4>4 DEF Passed
    <3> QED BY <3>1, <3>2
  <2> QED BY <2>6, <2>7 DEF CallsStay
<1>3. CASE FreeRuntime
  <2>1. CASE tests' = tests
    <3>1. scripts' = scripts /\ agent_list' = agent_list
      <4>1. tests # <<>> /\ tests \in Seq(Test)
        BY <1>3 DEF FreeRuntime, TInv, TypeOK
      <4>2. Tail(tests) # tests
        BY <4>1, HeadTailProperties, LenProperties
      <4> QED BY <1>3, <2>1, <4>2 DEF FreeRuntime, testVars
    <3> QED BY <2>1, <3>1, CodeStep
  <2>2. CASE tests' # tests /\ tests' # <<>>
    <3>1. scripts' = This'.agents /\ agent_list' = <<>>
      BY <1>3, <2>2 DEF FreeRuntime, testVars, This
    <3>2. This'.agents \in Seq(Seq(Seq(AgentOp)))
      <4>1. tests' \in Seq(Test)
        BY TypeNext DEF TInv, TypeOK
      <4>2. Head(tests') \in Test
        BY <2>2, <4>1
      <4> QED BY <4>2 DEF Test, This
    <3>3. Joined' = 0
      <4>1. Len(This'.agents) \in Nat /\ Len(scripts') = Len(This'.agents) /\ Len(agent_list') = 0
        BY <3>1, <3>2, LenProperties, EmptySeq
      <4>2. \A n \in Nat : n - n - 0 = 0
        OBVIOUS
      <4> QED BY Zenon, <4>1, <4>2 DEF Joined
    <3> QED BY <2>2, <3>1, <3>2, <3>3, SuffixSelf, EmptySeq DEF CodeInv
  <2>3. CASE tests' # tests /\ tests' = <<>>
    BY <2>3 DEF CodeInv
  <2> QED BY <2>1, <2>2, <2>3
<1>4. CASE UNCHANGED <<tests, scripts, agent_list>>
  BY <1>4, CodeStep
<1>5. \/ \E b \in Agent : Start(b)
      \/ JoinAgent \/ FreeRuntime \/ UNCHANGED <<tests, scripts, agent_list>>
  BY DEF Next, MainStep, AgentStep, SpuriousWakeup, Terminated, vars, testVars, Broadcast, FillBuf,
     FillVal, WakeAll, Recheck, GetReport, EndScript, ReceiveBroadcast, SendReport, Await, EndTurn,
     Loop, CondWait, Take, ReadBuf, ReadVal
<1> QED BY <1>1, <1>2, <1>3, <1>4, <1>5

----------------------------------------------------------------------------
(* What is reported, and what is returned *)

LEMMA Lists ==
  ASSUME TInv
  PROVE  /\ sent \in Seq(Report) /\ Len(sent) \in Nat /\ DOMAIN sent = 1..Len(sent)
         /\ got \in Seq(Report) /\ Len(got) \in Nat /\ DOMAIN got = 1..Len(got)
         /\ report_list \in Seq(Report) /\ Len(report_list) \in Nat
         /\ tests \in Seq(Test) /\ Len(tests) \in Nat
         /\ IsFiniteSet(Made(sent)) /\ Cardinality(Made(sent)) \in Nat
         /\ IsFiniteSet(Made(got)) /\ Cardinality(Made(got)) \in Nat
<1>1. /\ sent \in Seq(Report) /\ got \in Seq(Report) /\ report_list \in Seq(Report)
      /\ tests \in Seq(Test)
  BY DEF TInv, TypeOK
<1>2. ASSUME NEW s \in Seq(Report) PROVE IsFiniteSet(Made(s)) /\ Cardinality(Made(s)) \in Nat
  <2>1. DOMAIN s = 1..Len(s) /\ Len(s) \in Int /\ 1 \in Int
    OBVIOUS
  <2>2. IsFiniteSet(DOMAIN s) /\ Made(s) \in SUBSET DOMAIN s
    BY <2>1, FS_Interval DEF Made
  <2> QED BY <2>2, FS_Subset, FS_CardinalityType
<1>3. \A s \in Seq(Report) : Len(s) \in Nat /\ DOMAIN s = 1..Len(s)
  OBVIOUS
<1> QED BY <1>1, <1>2, <1>3, LenProperties

LEMMA FlowInit == Init => FlowInv
  BY EmptySeq DEF Init, FlowInv

LEMMA FlowNext == TInv /\ QueueInv /\ FlowInv /\ [Next]_vars => FlowInv'
<1> SUFFICES ASSUME TInv, QueueInv, FlowInv, [Next]_vars PROVE FlowInv'
  OBVIOUS
<1> DEFINE n == Len(got)
           l == Len(report_list)
<1>1. /\ sent \in Seq(Report) /\ got \in Seq(Report) /\ report_list \in Seq(Report)
      /\ n \in Nat /\ l \in Nat /\ Len(sent) = n + l
  BY Lists DEF QueueInv
<1>2. CASE GetReport /\ report_list # <<>>
  <2>1. /\ got' = Append(got, Head(report_list)) /\ report_list' = Tail(report_list)
        /\ sent' = sent
    BY <1>2 DEF GetReport, Dequeue
  <2>2. /\ Head(report_list) = report_list[1] /\ Head(report_list) \in Report
        /\ Len(report_list') = l - 1 /\ l >= 1
        /\ \A i \in 1..Len(report_list') : report_list'[i] = report_list[i + 1]
    BY <1>1, <1>2, <2>1, HeadTailProperties, EmptySeq
  <2>3. /\ Len(got') = n + 1 /\ got'[n + 1] = report_list[1]
        /\ \A i \in 1..n : got'[i] = got[i]
    BY <1>1, <2>1, <2>2, AppendProperties
  <2>4. ASSUME NEW i \in 1..Len(got') PROVE got'[i] = sent'[i]
    <3>1. CASE i \in 1..n
      BY <2>1, <2>3, <3>1 DEF FlowInv
    <3>2. CASE i = n + 1
      <4>1. report_list[1] = sent[n + 1]
        BY <1>1, <2>2 DEF FlowInv
      <4> QED BY <2>1, <2>3, <3>2, <4>1
    <3> QED BY <1>1, <2>3, <3>1, <3>2
  <2>5. ASSUME NEW i \in 1..Len(report_list') PROVE report_list'[i] = sent'[Len(got') + i]
    <3>1. i + 1 \in 1..l /\ n + (i + 1) = Len(got') + i
      BY <1>1, <2>2, <2>3
    <3>2. report_list'[i] = sent[n + (i + 1)]
      BY <2>2, <3>1 DEF FlowInv
    <3> QED BY <2>1, <3>1, <3>2
  <2> QED BY <2>4, <2>5 DEF FlowInv
<1>3. ASSUME NEW a \in Agent, SendReport(a) PROVE FlowInv'
  <2>0. PICK r : r = [test |-> Len(tests), from |-> a]
    OBVIOUS
  <2>1. /\ report_list' = Append(report_list, r) /\ sent' = Append(sent, r) /\ got' = got
    BY <1>3, <2>0 DEF SendReport, Enqueue
  <2>2. r \in Report
    BY <2>0, Lists DEF Report
  <2>3. /\ Len(report_list') = l + 1 /\ report_list'[l + 1] = r
        /\ \A i \in 1..l : report_list'[i] = report_list[i]
        /\ sent'[n + l + 1] = r
        /\ \A i \in 1..(n + l) : sent'[i] = sent[i]
    <3>1. /\ \A s \in Seq(Report) : /\ Len(Append(s, r)) = Len(s) + 1
                                    /\ Append(s, r)[Len(s) + 1] = r
                                    /\ \A i \in 1..Len(s) : Append(s, r)[i] = s[i]
      BY <2>2, AppendProperties
    <3> QED BY <1>1, <2>1, <3>1
  <2>4. ASSUME NEW i \in 1..n PROVE got'[i] = sent'[i]
    <3>1. i \in 1..(n + l)
      BY <1>1
    <3> QED BY <2>1, <2>3, <3>1 DEF FlowInv
  <2>5. ASSUME NEW i \in 1..(l + 1) PROVE report_list'[i] = sent'[n + i]
    <3>1. CASE i \in 1..l
      <4>1. n + i \in 1..(n + l)
        BY <1>1, <3>1
      <4> QED BY <2>3, <3>1, <4>1 DEF FlowInv
    <3>2. CASE i = l + 1
      <4>1. n + i = n + l + 1
        BY <1>1, <3>2
      <4> QED BY <2>3, <3>2, <4>1
    <3> QED BY <1>1, <3>1, <3>2
  <2> QED BY <2>1, <2>3, <2>4, <2>5 DEF FlowInv
<1>4. CASE UNCHANGED <<sent, got, report_list>>
  BY <1>4 DEF FlowInv
<1>5. \/ GetReport /\ report_list # <<>>
      \/ \E a \in Agent : SendReport(a)
      \/ UNCHANGED <<sent, got, report_list>>
  BY DEF Next, MainStep, AgentStep, SpuriousWakeup, Terminated, vars, repVars, Start, Broadcast,
     FillBuf, FillVal, WakeAll, Recheck, GetReport, EndScript, JoinAgent, FreeRuntime,
     ReceiveBroadcast, Await, EndTurn, Loop, CondWait, Take, ReadBuf, ReadVal
<1> QED BY <1>2, <1>3, <1>4, <1>5

LEMMA PassedFinite ==
  ASSUME TInv, tests # <<>>
  PROVE  /\ IsFiniteSet(PassedCalls) /\ Cardinality(PassedCalls) \in Nat
         /\ Cardinality(PassedCalls) <= Cardinality(ReportCalls(This))
         /\ Cardinality(ReportCalls(This)) \in Nat
<1>1. IsFiniteSet(ReportCalls(This)) /\ Cardinality(ReportCalls(This)) \in Nat
  BY ThisType, CallsFinite
<1>2. PassedCalls \in SUBSET ReportCalls(This)
  BY DEF PassedCalls
<1> QED BY <1>1, <1>2, FS_Subset, FS_CardinalityType

LEMMA PassedFiniteNext ==
  TInv /\ tests # <<>> /\ [Next]_vars => (tests # <<>> => Cardinality(PassedCalls) \in Nat)'
<1>1. TInv => (tests # <<>> => Cardinality(PassedCalls) \in Nat)
  BY PassedFinite
<1> QED BY <1>1, TypeNext, PTL

LEMMA PassedGrows ==
  ASSUME TInv, [Next]_vars, tests # <<>>, tests' = tests, CallsStay
  PROVE  /\ PassedCalls \subseteq PassedCalls'
         /\ IsFiniteSet(PassedCalls') /\ Cardinality(PassedCalls') \in Nat
<1>1. IsFiniteSet(PassedCalls') /\ Cardinality(PassedCalls') \in Nat
  <2>1. IsFiniteSet(ReportCalls(This))
    BY ThisType, CallsFinite
  <2>2. PassedCalls' \in SUBSET ReportCalls(This)
    BY DEF PassedCalls, This
  <2> QED BY <2>1, <2>2, FS_Subset, FS_CardinalityType
<1>2. ASSUME NEW c \in PassedCalls PROVE c \in PassedCalls'
  <2>1. c \in ReportCalls(This) /\ Passed(c[1][1], c[1][2], c[2])
    BY DEF PassedCalls
  <2>2. This \in Test
    BY ThisType
  <2>3. c[1][1] \in Nat /\ c[1][2] \in Nat /\ c[2] \in Nat
    <3>1. c[1][1] \in 1..Len(This.agents)
      BY <2>1, <2>2, CallsAre
    <3>2. \A n : \A x \in 1..n : x \in Nat
      OBVIOUS
    <3> QED BY <2>1, <2>2, <3>1, <3>2, CallsAre
  <2>4. Passed(c[1][1], c[1][2], c[2])'
    <3>1. \A i, j, k \in Nat : Passed(i, j, k) => Passed(i, j, k)'
      BY DEF CallsStay
    <3> QED BY <2>1, <2>3, <3>1
  <2>5. c \in ReportCalls(This')
    BY <2>1 DEF This
  <2> QED BY <2>4, <2>5 DEF PassedCalls
<1> QED BY <1>1, <1>2

\* A report is made by a call not passed before
LEMMA CallPasses ==
  ASSUME IInv, TurnInv, CodeInv, tests # <<>>, NEW a \in Agent, SendReport(a)
  PROVE  \E c : c \notin PassedCalls /\ c \in PassedCalls'
<1>0. TInv /\ TypeOK /\ ListInv
  BY DEF IInv, TInv
<1>1. /\ cur[a] # <<>> /\ Head(cur[a]) = "report" /\ cur[a] \in Seq(AgentOp)
      /\ cur'[a] = Tail(cur[a]) /\ apc[a] # "idle"
      /\ UNCHANGED <<tests, scripts, agent_list, turns, job>>
  <2>1. cur[a] # <<>> /\ AgentCall(a) = "report"
    BY <1>0, AgentCallTaken DEF SendReport
  <2> QED BY <1>0, <2>1 DEF SendReport, AgentCall, Running, TypeOK, testVars
<1>2. job[a] = <<>>
  BY <1>1 DEF TurnInv
<1>3. PICK p \in 1..Len(agent_list) : agent_list[p] = a
  <2>1. a \in Range(agent_list) /\ agent_list \in Seq(Agent)
    BY <1>0, <1>1 DEF ListInv, Listed, TypeOK
  <2> QED BY <2>1, RangeEquality
<1>4. PICK s : s = Source(p)
  OBVIOUS
<1>5. /\ s \in Seq(Seq(AgentOp)) /\ CodeOf(a, s) /\ Joined \in Nat
      /\ Joined + p \in 1..Len(This.agents) /\ p \in Nat
  BY <1>0, <1>3, <1>4, Places
<1>6. PICK T : T = Turn(a, s)
  OBVIOUS
<1>7. T \in 1..Len(s) /\ Suffix(cur[a], s[T]) /\ s[T] \in Seq(AgentOp) /\ Len(s) \in Nat
  <2>1. T >= 1 /\ Suffix(cur[a], s[T]) /\ Suffix(turns[a], s)
    BY <1>1, <1>5, <1>6 DEF CodeOf
  <2>2. T <= Len(s) /\ T \in Int /\ Len(s) \in Nat
    <3>1. Len(turns[a]) \in Nat /\ Len(s) \in Nat
      BY <1>0, <1>5, CallsLeft, LenProperties
    <3>2. \A m, n \in Nat : n - m <= n /\ n - m \in Int
      OBVIOUS
    <3> QED BY <1>6, <3>1, <3>2 DEF Turn
  <2>3. T \in 1..Len(s)
    BY <2>1, <2>2
  <2> QED BY <1>5, <2>1, <2>2, <2>3, ElementOfSeq
<1>8. PICK k : k = Len(s[T]) - Len(cur[a]) + 1
  OBVIOUS
<1>9. k \in 1..Len(s[T]) /\ s[T][k] = "report" /\ Len(cur'[a]) = Len(cur[a]) - 1
      /\ Len(s[T]) \in Nat /\ Len(cur[a]) \in Nat
  <2>1. \A x, y \in Seq(AgentOp) : x # <<>> /\ Suffix(x, y) =>
          /\ Len(Tail(x)) = Len(x) - 1 /\ Len(y) - Len(x) + 1 \in 1..Len(y)
          /\ Head(x) = y[Len(y) - Len(x) + 1]
    BY SuffixTail
  <2> QED BY <1>1, <1>7, <1>8, <2>1, LenProperties
<1>10. Rest(a) = Len(cur[a]) /\ Rest(a)' = Len(cur[a]) - 1
  <2>1. Len(job[a]) = 0 /\ Len(job'[a]) = 0
    BY <1>1, <1>2, EmptySeq
  <2>2. \A n \in Nat : n + 0 = n /\ (n - 1) + 0 = n - 1
    OBVIOUS
  <2> QED BY Zenon, <1>9, <2>1, <2>2 DEF Rest
<1>11. PICK i : i = Joined + p
  OBVIOUS
<1>12. PICK c : c = <<<<i, T>>, k>>
  OBVIOUS
<1>13. c[1][1] = i /\ c[1][2] = T /\ c[2] = k
  BY <1>12
<1>14. c \in ReportCalls(This)
  <2>1. This \in Test
    BY <1>0, ThisType
  <2>2. s = This.agents[Joined + p]
    BY <1>4 DEF Source
  <2>3. \A h \in 1..Len(This.agents) : \A j \in 1..Len(This.agents[h]) :
          \A l \in 1..Len(This.agents[h][j]) :
            This.agents[h][j][l] = "report" => <<<<h, j>>, l>> \in ReportCalls(This)
    BY <2>1, CallsAre
  <2> QED BY <1>5, <1>7, <1>9, <1>12, <1>11, <2>2, <2>3
<1>15. ASSUME Passed(i, T, k) PROVE FALSE
  <2>1. ~(i <= Joined)
    BY <1>3, <1>5, <1>11
  <2>2. PICK q \in 1..Len(agent_list) :
          i = Joined + q /\ Behind(agent_list[q], Source(q), T, k)
    BY <1>15, <2>1 DEF Passed
  <2>3. q = p
    BY <1>5, <1>11, <2>2
  <2>4. Behind(a, s, T, k)
    BY <1>3, <1>4, <2>2, <2>3
  <2>5. ~(T < T) /\ ~(k <= Len(s[T]) - Len(cur[a]))
    BY <1>7, <1>8, <1>9
  <2> QED BY <1>6, <1>10, <2>4, <2>5 DEF Behind
<1>16. Passed(i, T, k)'
  <2>1. /\ Joined' = Joined /\ Source(p)' = s /\ agent_list'[p] = a
        /\ p \in 1..Len(agent_list') /\ Turn(a, s)' = T
    BY <1>1, <1>3, <1>4, <1>6 DEF Joined, Source, This, Turn
  <2>2. k <= Len(s[T]) - Rest(a)'
    BY <1>8, <1>9, <1>10
  <2>3. Behind(a, s, T, k)'
    BY <2>1, <2>2 DEF Behind
  <2>4. /\ Turn(agent_list[p], Source(p))' = Turn(a, s)' /\ Rest(agent_list[p])' = Rest(a)'
        /\ Behind(agent_list[p], Source(p), T, k)' = Behind(a, s, T, k)'
    BY <2>1 DEF Turn, Rest, Behind
  <2> QED BY <1>5, <1>11, <2>1, <2>3, <2>4 DEF Passed
<1>17. c \notin PassedCalls
  BY <1>13, <1>15 DEF PassedCalls
<1>18. c \in PassedCalls'
  <2>1. c \in ReportCalls(This')
    BY <1>1, <1>14 DEF This
  <2>2. Passed(c[1][1], c[1][2], c[2])'
    BY <1>13, <1>16
  <2> QED BY <2>1, <2>2 DEF PassedCalls
<1> QED BY <1>17, <1>18

LEMMA MadeInit == Init => MadeInv
<1> SUFFICES ASSUME Init PROVE MadeInv
  OBVIOUS
<1>1. TInv /\ tests # <<>> /\ sent = <<>>
  BY TypeInit DEF Init
<1>2. Made(sent) = {}
  BY <1>1 DEF Made
<1>3. Cardinality(Made(sent)) = 0 /\ Cardinality(PassedCalls) \in Nat
  BY <1>1, <1>2, FS_EmptySet, PassedFinite
<1> QED BY <1>3 DEF MadeInv

LEMMA MadeNext ==
  IInv /\ TurnInv /\ QueueInv /\ CodeInv /\ MadeInv /\ [Next]_vars => MadeInv'
<1> SUFFICES ASSUME IInv, TurnInv, QueueInv, CodeInv, MadeInv, [Next]_vars, tests' # <<>>
             PROVE  Cardinality(Made(sent))' <= Cardinality(PassedCalls)'
  BY DEF MadeInv
<1>0. TInv
  BY DEF IInv
<1>1. CASE tests' = tests
  <2>1. CallsStay
    BY <1>0, <1>1, CodeNext
  <2>2. /\ PassedCalls \subseteq PassedCalls'
        /\ IsFiniteSet(PassedCalls') /\ Cardinality(PassedCalls') \in Nat
    BY <1>0, <1>1, <2>1, PassedGrows
  <2>3. Cardinality(Made(sent)) <= Cardinality(PassedCalls)
    BY <1>1 DEF MadeInv
  <2>4. /\ IsFiniteSet(PassedCalls) /\ Cardinality(PassedCalls) \in Nat
        /\ Cardinality(Made(sent)) \in Nat /\ IsFiniteSet(Made(sent))
    BY <1>0, <1>1, PassedFinite, Lists
  <2>5. CASE sent' = sent
    <3>1. Made(sent)' = Made(sent)
      BY <1>1, <2>5 DEF Made
    <3>2. Cardinality(PassedCalls) <= Cardinality(PassedCalls')
      BY <2>2, FS_Subset
    <3>3. \A x, y, z \in Nat : x <= y /\ y <= z => x <= z
      OBVIOUS
    <3> QED BY <2>2, <2>3, <2>4, <3>1, <3>2, <3>3
  <2>6. ASSUME NEW a \in Agent, SendReport(a)
        PROVE  Cardinality(Made(sent))' <= Cardinality(PassedCalls)'
    <3>1. PICK c : c \notin PassedCalls /\ c \in PassedCalls'
      BY <1>1, <2>6, CallPasses
    <3>2. /\ IsFiniteSet(PassedCalls \cup {c})
          /\ Cardinality(PassedCalls \cup {c}) = Cardinality(PassedCalls) + 1
      BY <2>4, <3>1, FS_AddElement
    <3>3. PassedCalls \cup {c} \in SUBSET PassedCalls'
      BY <2>2, <3>1
    <3>4. Cardinality(PassedCalls) + 1 <= Cardinality(PassedCalls')
      BY <2>2, <3>2, <3>3, FS_Subset
    <3>5. Made(sent)' \in SUBSET (Made(sent) \cup {Len(sent) + 1})
      <4>0. PICK r : r = [test |-> Len(tests), from |-> a]
        OBVIOUS
      <4>1. sent' = Append(sent, r) /\ sent \in Seq(Report) /\ r \in Report
        BY <1>0, <2>6, <4>0, Lists DEF SendReport, Report
      <4>2. /\ sent' \in Seq(Report) /\ Len(sent') = Len(sent) + 1
            /\ \A i \in 1..Len(sent) : sent'[i] = sent[i]
        BY <4>1, AppendProperties
      <4>3. DOMAIN sent' = 1..(Len(sent) + 1) /\ DOMAIN sent = 1..Len(sent) /\ Len(sent) \in Nat
        BY <4>1, <4>2
      <4>4. \A n \in Nat : \A i \in 1..(n + 1) : i = n + 1 \/ i \in 1..n
        OBVIOUS
      <4> QED BY <1>1, <4>2, <4>3, <4>4 DEF Made
    <3>6. /\ IsFiniteSet(Made(sent) \cup {Len(sent) + 1})
          /\ Cardinality(Made(sent) \cup {Len(sent) + 1}) <= Cardinality(Made(sent)) + 1
          /\ Cardinality(Made(sent) \cup {Len(sent) + 1}) \in Nat
      <4>1. /\ IsFiniteSet(Made(sent) \cup {Len(sent) + 1})
            /\ \/ Cardinality(Made(sent) \cup {Len(sent) + 1}) = Cardinality(Made(sent)) + 1
               \/ Cardinality(Made(sent) \cup {Len(sent) + 1}) = Cardinality(Made(sent))
        BY <2>4, FS_AddElement
      <4>2. \A n \in Nat : n <= n + 1 /\ n + 1 <= n + 1 /\ n + 1 \in Nat
        OBVIOUS
      <4> QED BY <2>4, <4>1, <4>2
    <3>7. /\ Cardinality(Made(sent)') <= Cardinality(Made(sent) \cup {Len(sent) + 1})
          /\ Cardinality(Made(sent)') \in Nat
      BY <3>5, <3>6, FS_Subset, FS_CardinalityType
    <3>8. \A v, w, x, y, z \in Nat :
             v <= w /\ w <= x + 1 /\ x <= y /\ y + 1 <= z => v <= z
      OBVIOUS
    <3> QED BY <2>2, <2>3, <2>4, <3>4, <3>6, <3>7, <3>8
  <2>7. sent' = sent \/ \E a \in Agent : SendReport(a)
    BY DEF Next, MainStep, AgentStep, SpuriousWakeup, Terminated, vars, repVars, Start, Broadcast,
       FillBuf, FillVal, WakeAll, Recheck, GetReport, EndScript, JoinAgent, FreeRuntime,
       ReceiveBroadcast, Await, EndTurn, Loop, CondWait, Take, ReadBuf, ReadVal
  <2> QED BY <2>5, <2>6, <2>7
<1>2. CASE tests' # tests
  <2>1. FreeRuntime
    BY <1>2 DEF Next, MainStep, AgentStep, SpuriousWakeup, Terminated, vars, testVars, Start,
       Broadcast, FillBuf, FillVal, WakeAll, Recheck, GetReport, EndScript, JoinAgent,
       ReceiveBroadcast, SendReport, Await, EndTurn, Loop, CondWait, Take, ReadBuf, ReadVal
  <2>2. tests' = Tail(tests) /\ tests # <<>> /\ sent' = sent
    BY <1>0, <1>2, <2>1 DEF FreeRuntime, testVars, repVars, TInv
  <2>3. Len(tests') = Len(tests) - 1 /\ Len(tests) \in Nat
    BY <1>0, <2>2, Lists, HeadTailProperties
  <2>4. ASSUME NEW i \in DOMAIN sent PROVE sent[i].test # Len(tests')
    <3>1. sent[i].test >= Len(tests)
      BY <2>4 DEF QueueInv
    <3>2. sent[i] \in Report
      BY <1>0, <2>4, Lists, ElementOfSeq
    <3>3. sent[i].test \in Nat
      BY <3>2 DEF Report
    <3>4. \A m, n \in Nat : m >= n => m # n - 1
      OBVIOUS
    <3> QED BY <2>3, <3>1, <3>3, <3>4
  <2>5. Made(sent)' = {}
    BY <2>2, <2>4 DEF Made
  <2>6. Cardinality(PassedCalls)' \in Nat
    BY <1>0, <2>2, PassedFiniteNext
  <2>7. Cardinality(Made(sent))' = 0
    BY <2>5, FS_EmptySet
  <2> QED BY <2>6, <2>7
<1> QED BY <1>1, <1>2

\* A test that waits for all its reports leaves none when it ends
LEMMA NoneLeft ==
  ASSUME TInv, QueueInv, MadeInv, FlowInv, AwaitedInv, FreshInv,
         mpc = "join", tests # <<>>, Len(tests) > 1
  PROVE  report_list = <<>>
<1>0. /\ Len(sent) = Len(got) + Len(report_list) /\ Len(got) \in Nat /\ Len(report_list) \in Nat
      /\ DOMAIN sent = 1..Len(sent) /\ DOMAIN got = 1..Len(got)
      /\ report_list \in Seq(Report) /\ tests \in Seq(Test) /\ Len(tests) \in Nat
      /\ IsFiniteSet(Made(sent)) /\ Cardinality(Made(sent)) \in Nat
      /\ IsFiniteSet(Made(got)) /\ Cardinality(Made(got)) \in Nat
  BY Lists DEF QueueInv
<1>1. Fetching(This)
  <2>1. 1 \in 1..(Len(tests) - 1)
    BY <1>0
  <2>2. tests[1] = This
    BY <1>0 DEF This
  <2> QED BY <2>1, <2>2 DEF FreshInv, LeavesNone
<1>2. AwaitsIn(This.main, 1, At) = {k \in DOMAIN This.main : This.main[k] = "await"}
  <2>1. This.main \in Seq(MainOp) /\ todo = <<>>
    BY ThisType DEF AwaitedInv
  <2>2. DOMAIN This.main = 1..Len(This.main) /\ Len(This.main) \in Nat /\ Len(todo) = 0
    BY <2>1, EmptySeq
  <2>3. At = Len(This.main)
    BY <2>2 DEF At
  <2> QED BY <2>2, <2>3 DEF AwaitsIn
<1>3. Cardinality(AwaitsIn(This.main, 1, At)) \in Nat
  <2>1. At \in Nat
    BY DEF AwaitedInv
  <2>2. 1 \in Nat /\ 1 <= At + 1
    BY <2>1
  <2> QED BY <2>1, <2>2, AwaitsMore
<1>4. Cardinality(Made(sent)) <= Cardinality(Made(got))
  <2>1. Cardinality(Made(sent)) <= Cardinality(PassedCalls)
    BY DEF MadeInv
  <2>2. /\ Cardinality(PassedCalls) \in Nat /\ Cardinality(ReportCalls(This)) \in Nat
        /\ Cardinality(PassedCalls) <= Cardinality(ReportCalls(This))
    BY PassedFinite
  <2>3. Cardinality(ReportCalls(This)) <= Cardinality(AwaitsIn(This.main, 1, At))
    BY <1>1, <1>2 DEF Fetching
  <2>4. Cardinality(AwaitsIn(This.main, 1, At)) <= Cardinality(Made(got))
    BY DEF AwaitedInv
  <2>5. \A v, w, x, y, z \in Nat : v <= w /\ w <= x /\ x <= y /\ y <= z => v <= z
    OBVIOUS
  <2> QED BY <1>0, <1>3, <2>1, <2>2, <2>3, <2>4, <2>5
<1>5. Made(got) \in SUBSET Made(sent)
  BY <1>0 DEF Made, FlowInv
<1>6. Made(sent) = Made(got)
  <2>1. Cardinality(Made(got)) <= Cardinality(Made(sent))
    BY <1>0, <1>5, FS_Subset
  <2>2. Cardinality(Made(sent)) = Cardinality(Made(got))
    BY <1>0, <1>4, <2>1
  <2> QED BY <1>0, <1>5, <2>2, FS_Subset
<1>7. ASSUME report_list # <<>> PROVE FALSE
  <2>1. 1 \in 1..Len(report_list)
    BY <1>0, <1>7, EmptySeq
  <2>2. report_list[1].test = Len(tests) /\ report_list[1] = sent[Len(got) + 1]
    BY <2>1 DEF FreshInv, FlowInv
  <2>3. Len(got) + 1 \in DOMAIN sent /\ Len(got) + 1 \notin DOMAIN got
    BY <1>0, <2>1
  <2> QED BY <1>6, <2>2, <2>3 DEF Made
<1> QED BY <1>7

LEMMA FreshNext ==
  TInv /\ QueueInv /\ MadeInv /\ FlowInv /\ AwaitedInv /\ FreshInv /\ [Next]_vars => FreshInv'
<1> SUFFICES ASSUME TInv, QueueInv, MadeInv, FlowInv, AwaitedInv, FreshInv, [Next]_vars,
                    tests' # <<>>
             PROVE  FreshInv'
  BY DEF FreshInv
<1>0. /\ report_list \in Seq(Report) /\ Len(report_list) \in Nat
      /\ tests \in Seq(Test) /\ Len(tests) \in Nat
  BY Lists
<1>1. CASE GetReport /\ report_list # <<>>
  <2>1. report_list' = Tail(report_list) /\ tests' = tests
    BY <1>1 DEF GetReport, Dequeue
  <2>2. /\ Len(report_list') = Len(report_list) - 1
        /\ \A i \in 1..Len(report_list') : report_list'[i] = report_list[i + 1]
    BY <1>0, <1>1, <2>1, HeadTailProperties
  <2>3. ASSUME NEW i \in 1..Len(report_list') PROVE report_list'[i].test = Len(tests')
    <3>1. i + 1 \in 1..Len(report_list)
      BY <1>0, <2>2
    <3> QED BY <2>1, <2>2, <3>1 DEF FreshInv
  <2> QED BY <2>1, <2>3 DEF FreshInv, LeavesNone
<1>2. ASSUME NEW a \in Agent, SendReport(a) PROVE FreshInv'
  <2>0. PICK r : r = [test |-> Len(tests), from |-> a]
    OBVIOUS
  <2>1. report_list' = Append(report_list, r) /\ tests' = tests /\ r \in Report
        /\ r.test = Len(tests)
    BY <1>0, <1>2, <2>0 DEF SendReport, Enqueue, Report, testVars
  <2>2. /\ Len(report_list') = Len(report_list) + 1
        /\ report_list'[Len(report_list) + 1] = r
        /\ \A i \in 1..Len(report_list) : report_list'[i] = report_list[i]
    BY <1>0, <2>1, AppendProperties
  <2>3. ASSUME NEW i \in 1..Len(report_list') PROVE report_list'[i].test = Len(tests')
    <3>1. i \in 1..Len(report_list) \/ i = Len(report_list) + 1
      BY <1>0, <2>2
    <3> QED BY <2>1, <2>2, <3>1 DEF FreshInv
  <2> QED BY <2>1, <2>3 DEF FreshInv, LeavesNone
<1>3. CASE tests' # tests
  <2>1. FreeRuntime
    BY <1>3 DEF Next, MainStep, AgentStep, SpuriousWakeup, Terminated, vars, testVars, Start,
       Broadcast, FillBuf, FillVal, WakeAll, Recheck, GetReport, EndScript, JoinAgent,
       ReceiveBroadcast, SendReport, Await, EndTurn, Loop, CondWait, Take, ReadBuf, ReadVal
  <2>2. /\ tests' = Tail(tests) /\ tests # <<>> /\ mpc = "join" /\ report_list' = report_list
    BY <1>3, <2>1 DEF FreeRuntime, testVars, repVars, TInv
  <2>3. /\ Len(tests') = Len(tests) - 1
        /\ \A i \in 1..Len(tests') : tests'[i] = tests[i + 1]
    BY <1>0, <2>2, HeadTailProperties
  <2>4. Len(tests) > 1
    <3>1. tests' \in Seq(Test)
      BY <1>0, <2>2, HeadTailProperties
    <3>2. Len(tests') \in Nat \ {0}
      BY <3>1, EmptySeq
    <3> QED BY <1>0, <2>3, <3>2
  <2>5. report_list = <<>>
    BY <2>2, <2>4, NoneLeft
  <2>6. ASSUME NEW i \in 1..(Len(tests') - 1) PROVE Fetching(tests'[i])
    <3>1. i + 1 \in 1..(Len(tests) - 1) /\ i \in 1..Len(tests')
      BY <1>0, <2>3
    <3> QED BY <2>2, <2>3, <3>1 DEF FreshInv, LeavesNone
  <2>7. Len(report_list') = 0
    BY <2>2, <2>5, EmptySeq
  <2> QED BY <2>6, <2>7 DEF FreshInv, LeavesNone
<1>4. CASE UNCHANGED <<tests, report_list>>
  BY <1>4 DEF FreshInv, LeavesNone
<1>5. \/ GetReport /\ report_list # <<>>
      \/ \E a \in Agent : SendReport(a)
      \/ tests' # tests
      \/ UNCHANGED <<tests, report_list>>
  BY DEF Next, MainStep, AgentStep, SpuriousWakeup, Terminated, vars, testVars, repVars, Start,
     Broadcast, FillBuf, FillVal, WakeAll, Recheck, GetReport, EndScript, JoinAgent, FreeRuntime,
     ReceiveBroadcast, Await, EndTurn, Loop, CondWait, Take, ReadBuf, ReadVal
<1> QED BY <1>1, <1>2, <1>3, <1>4, <1>5

LEMMA AwaitedInit == Init => AwaitedInv
<1> SUFFICES ASSUME Init PROVE AwaitedInv
  OBVIOUS
<1>1. TInv /\ tests # <<>> /\ todo = This.main /\ mpc = "script"
  BY TypeInit DEF Init, This
<1>2. This.main \in Seq(MainOp) /\ Len(This.main) \in Nat
  BY <1>1, ThisType, LenProperties
<1>3. At = 0
  <2>1. \A n \in Nat : n - n = 0
    OBVIOUS
  <2> QED BY Zenon, <1>1, <1>2, <2>1 DEF At
<1>4. Cardinality(AwaitsIn(This.main, 1, At)) = 0
  BY <1>3, NoAwaits
<1>5. Cardinality(Made(got)) \in Nat
  BY <1>1, Lists
<1> QED BY <1>1, <1>3, <1>4, <1>5 DEF AwaitedInv

LEMMA AwaitedNext ==
  IInv /\ MainInv /\ FreshInv /\ AwaitedInv /\ [Next]_vars => AwaitedInv'
<1> SUFFICES ASSUME TInv, MainInv, FreshInv, AwaitedInv, [Next]_vars PROVE AwaitedInv'
  BY DEF IInv
<1>1. ASSUME UNCHANGED <<tests, todo, got>>, mpc' = "join" => mpc = "join" \/ todo = <<>>,
             mpc' \notin {"end", "abort"} => mpc \notin {"end", "abort"}
      PROVE  AwaitedInv'
  <2>1. At' = At /\ This' = This /\ Made(got)' = Made(got)
    BY <1>1 DEF At, This, Made
  <2> QED BY <1>1, <2>1 DEF AwaitedInv
<1>2. ASSUME Playing, tests' = tests, todo # <<>>, todo' = Tail(todo),
             mpc' \in {"script", "fill", "wait"},
             Cardinality(Made(got)) + (IF Head(todo) = "await" THEN 1 ELSE 0)
               <= Cardinality(Made(got)')
      PROVE  AwaitedInv'
  <2>1. tests # <<>> /\ mpc \notin {"end", "abort"}
    BY <1>2 DEF Playing, Broadcasting, TInv
  <2>2. This.main \in Seq(MainOp) /\ todo \in Seq(MainOp) /\ Suffix(todo, This.main)
    BY <1>2, <2>1, ThisType DEF TInv, TypeOK, MainInv
  <2>3. /\ Len(This.main) - Len(Tail(todo)) = Len(This.main) - Len(todo) + 1
        /\ Head(todo) = This.main[Len(This.main) - Len(todo) + 1]
    BY <1>2, <2>2, SuffixTail
  <2>4. At' = At + 1 /\ Head(todo) = This.main[At + 1] /\ This' = This
    BY <1>2, <2>3 DEF At, This
  <2>5. At \in Nat /\ Cardinality(AwaitsIn(This.main, 1, At)) <= Cardinality(Made(got))
    BY <2>1 DEF AwaitedInv
  <2>6. /\ Cardinality(AwaitsIn(This.main, 1, At)) \in Nat
        /\ Cardinality(AwaitsIn(This.main, 1, At + 1)) =
             Cardinality(AwaitsIn(This.main, 1, At)) + IF Head(todo) = "await" THEN 1 ELSE 0
    <3>1. 1 \in Nat /\ 1 <= At + 1
      BY <2>5
    <3> QED BY <2>4, <2>5, <3>1, AwaitsMore
  <2>7. Cardinality(Made(got)) \in Nat /\ (Cardinality(Made(got)) \in Nat)'
    <3>1. TInv'
      BY TypeNext
    <3>2. \A s \in Seq(Report) : IsFiniteSet(Made(s)')
      <4>1. \A s \in Seq(Report) : DOMAIN s = 1..Len(s) /\ Len(s) \in Int /\ 1 \in Int
        OBVIOUS
      <4>2. \A s \in Seq(Report) : IsFiniteSet(DOMAIN s) /\ Made(s)' \in SUBSET DOMAIN s
        BY <4>1, FS_Interval DEF Made
      <4> QED BY <4>2, FS_Subset
    <3>3. got' \in Seq(Report)
      BY <3>1 DEF TInv, TypeOK
    <3> QED BY <3>2, <3>3, Lists, FS_CardinalityType
  <2>8. Cardinality(AwaitsIn(This.main, 1, At + 1)) <= Cardinality(Made(got)')
    <3>1. \A w, x, z \in Nat : \A y \in {0, 1} : w <= x /\ x + y <= z => w + y <= z
      OBVIOUS
    <3>2. (IF Head(todo) = "await" THEN 1 ELSE 0) \in {0, 1}
      OBVIOUS
    <3> QED BY <1>2, <2>5, <2>6, <2>7, <3>1, <3>2
  <2> QED BY <1>2, <2>4, <2>5, <2>8 DEF AwaitedInv
<1>3. ASSUME tests' = tests, got' = got, todo # <<>> => Head(todo) # "await"
      PROVE  todo # <<>> => Cardinality(Made(got)) + (IF Head(todo) = "await" THEN 1 ELSE 0)
                              <= Cardinality(Made(got)')
  <2>1. Made(got)' = Made(got)
    BY <1>3 DEF Made
  <2>2. \A n \in Nat : n + 0 <= n
    OBVIOUS
  <2> QED BY <1>3, <2>1, <2>2, Lists
<1>4. ASSUME NEW a \in Agent, Start(a) PROVE AwaitedInv'
  <2>1. /\ mpc = "script" /\ mpc' = mpc /\ todo # <<>> /\ Head(todo) # "await"
        /\ todo' = Tail(todo) /\ tests' = tests /\ got' = got /\ Playing
    BY <1>4 DEF Start, MainCall, repVars, Playing
  <2> QED BY <1>2, <1>3, <2>1
<1>5. CASE WakeAll \/ Recheck
  <2>1. /\ Broadcasting /\ Playing /\ todo # <<>> /\ WaitOrReturn /\ tests' = tests /\ got' = got
    BY <1>5 DEF WakeAll, Recheck, Broadcasting, Playing, TInv, repVars
  <2>2. Head(todo) # "await"
    BY <2>1 DEF MainInv
  <2>3. CASE mpc' = "wait" /\ todo' = todo
    BY <1>1, <2>1, <2>3 DEF Broadcasting
  <2>4. CASE mpc' = "script" /\ todo' = Tail(todo)
    BY <1>2, <1>3, <2>1, <2>2, <2>4
  <2> QED BY <2>1, <2>3, <2>4 DEF WaitOrReturn
<1>6. CASE GetReport
  <2>1. /\ mpc = "script" /\ mpc' = mpc /\ todo # <<>> /\ todo' = Tail(todo) /\ tests' = tests
        /\ Playing /\ tests # <<>>
    BY <1>6, MainCallTaken DEF GetReport, Playing, TInv
  <2>2. CASE Head(todo) = "poll" /\ got' = got
    BY <1>2, <1>3, <2>1, <2>2
  <2>3. CASE report_list # <<>> /\ got' = Append(got, Head(report_list))
    <3>1. /\ report_list \in Seq(Report) /\ got \in Seq(Report) /\ Len(got) \in Nat
          /\ DOMAIN got = 1..Len(got)
          /\ IsFiniteSet(Made(got)) /\ Cardinality(Made(got)) \in Nat
      BY Lists
    <3>2. Head(report_list) \in Report /\ Head(report_list).test = Len(tests)
      <4>1. Head(report_list) = report_list[1] /\ 1 \in 1..Len(report_list)
        BY <2>3, <3>1, EmptySeq
      <4> QED BY <2>1, <2>3, <3>1, <4>1, HeadTailProperties DEF FreshInv
    <3>3. /\ got' \in Seq(Report) /\ Len(got') = Len(got) + 1
          /\ got'[Len(got) + 1] = Head(report_list)
          /\ \A i \in 1..Len(got) : got'[i] = got[i]
      BY <2>3, <3>1, <3>2, AppendProperties
    <3>4. DOMAIN got' = 1..(Len(got) + 1)
      BY <3>3
    <3>5. Made(got)' = Made(got) \cup {Len(got) + 1} /\ Len(got) + 1 \notin Made(got)
      <4>1. 1..(Len(got) + 1) = (1..Len(got)) \cup {Len(got) + 1} /\ Len(got) + 1 \notin 1..Len(got)
        BY <3>1
      <4> QED BY <2>1, <3>1, <3>2, <3>3, <3>4, <4>1 DEF Made
    <3>6. Cardinality(Made(got)') = Cardinality(Made(got)) + 1
      BY <3>1, <3>5, FS_AddElement
    <3>7. \A n \in Nat : n + 1 <= n + 1 /\ n + 0 <= n + 1
      OBVIOUS
    <3> QED BY <1>2, <2>1, <3>1, <3>6, <3>7
  <2> QED BY <1>6, <2>1, <2>2, <2>3 DEF GetReport, MainCall
<1>7. CASE EndScript
  <2>1. todo = <<>>
    <3>1. todo \in Seq(MainOp) /\ MainCall = "end"
      BY <1>7 DEF EndScript, TInv, TypeOK
    <3>2. todo # <<>> => Head(todo) \in MainOp
      BY <3>1
    <3> QED BY <3>1, <3>2 DEF MainCall, MainOp
  <2> QED BY <1>1, <1>7, <2>1 DEF EndScript, testVars, repVars
<1>8. CASE FreeRuntime
  <2>1. CASE mpc' \in {"end", "abort"}
    BY <2>1 DEF AwaitedInv
  <2>2. CASE mpc' \notin {"end", "abort"}
    <3>1. mpc' = "script" /\ tests' # <<>> /\ todo' = This'.main
      BY <1>8, <2>2 DEF FreeRuntime, This
    <3>2. TInv'
      BY TypeNext
    <3>3. This'.main \in Seq(MainOp) /\ got' \in Seq(Report) /\ Len(This'.main) \in Nat
      <4>1. tests' \in Seq(Test) /\ got' \in Seq(Report)
        BY <3>2 DEF TInv, TypeOK
      <4>2. Head(tests') \in Test
        BY <3>1, <4>1
      <4>3. This'.main \in Seq(MainOp)
        BY <4>2 DEF Test, This
      <4> QED BY <4>1, <4>3, LenProperties
    <3>4. At' = 0
      <4>1. \A n \in Nat : n - n = 0
        OBVIOUS
      <4> QED BY Zenon, <3>1, <3>3, <4>1 DEF At
    <3>5. Cardinality(AwaitsIn(This'.main, 1, At')) = 0
      BY <3>4, NoAwaits
    <3>6. Cardinality(Made(got)') \in Nat
      <4>1. DOMAIN got' = 1..Len(got') /\ Len(got') \in Int /\ 1 \in Int
        BY <3>3
      <4>2. IsFiniteSet(DOMAIN got') /\ Made(got)' \in SUBSET DOMAIN got'
        BY <4>1, FS_Interval DEF Made
      <4> QED BY <4>2, FS_Subset, FS_CardinalityType
    <3> QED BY <3>1, <3>4, <3>5, <3>6 DEF AwaitedInv
  <2> QED BY <2>1, <2>2
<1>9. CASE Broadcast \/ FillBuf \/ FillVal \/ JoinAgent \/ UNCHANGED vars
  BY <1>9, <1>1 DEF Broadcast, FillBuf, FillVal, JoinAgent, vars, testVars, repVars
<1>10. ASSUME NEW a \in Agent, AgentStep(a) PROVE AwaitedInv'
  BY <1>10, <1>1 DEF AgentStep, ReceiveBroadcast, SendReport, Await, EndTurn, Loop, CondWait,
     Take, SignalFrom, ReadBuf, ReadVal, testVars, repVars
<1>11. CASE SpuriousWakeup
  BY <1>11, <1>1 DEF SpuriousWakeup, testVars, repVars
<1> QED
  BY <1>4, <1>5, <1>6, <1>7, <1>8, <1>9, <1>10, <1>11 DEF Next, MainStep, Terminated

ReportInv == CodeInv /\ MadeInv /\ FlowInv /\ AwaitedInv /\ FreshInv

LEMMA ReportNext == IInv /\ PaceInv /\ ReportInv /\ [Next]_vars => ReportInv'
<1> SUFFICES ASSUME IInv, PaceInv, ReportInv, [Next]_vars PROVE ReportInv'
  OBVIOUS
<1>1. TInv /\ MainInv /\ TurnInv /\ QueueInv
  BY DEF IInv, PaceInv
<1>2. CodeInv' /\ MadeInv'
  BY <1>1, CodeNext, MadeNext DEF ReportInv
<1>3. FlowInv' /\ FreshInv' /\ AwaitedInv'
  BY <1>1, FlowNext, FreshNext, AwaitedNext DEF ReportInv
<1> QED BY <1>2, <1>3 DEF ReportInv

\* When every test but the last of a process waits for as many reports as its
\* agents can make, getReport returns reports of the running test only.
THEOREM ReportsFresh ==
  ASSUME \A p \in Plans : LeavesNone(p)
  PROVE  Spec => ReportsOfThisTest
<1>1. Init => ReportInv
  <2> SUFFICES ASSUME Init PROVE ReportInv
    OBVIOUS
  <2>1. LeavesNone(tests) /\ report_list = <<>>
    BY DEF Init
  <2>2. FreshInv
    BY <2>1, EmptySeq DEF FreshInv
  <2> QED BY <2>2, CodeInit, MadeInit, FlowInit, AwaitedInit DEF ReportInv
<1>2. IInv /\ ReportInv /\ [Next]_vars => (got' # got => got'[Len(got')].test = Len(tests))
  <2> SUFFICES ASSUME TInv, FreshInv, [Next]_vars, got' # got
               PROVE  got'[Len(got')].test = Len(tests)
    BY DEF IInv, ReportInv
  <2>1. GetReport
    BY DEF Next, MainStep, AgentStep, SpuriousWakeup, Terminated, vars, repVars, Start, Broadcast,
       FillBuf, FillVal, WakeAll, Recheck, EndScript, JoinAgent, FreeRuntime, ReceiveBroadcast,
       SendReport, Await, EndTurn, Loop, CondWait, Take, ReadBuf, ReadVal
  <2>2. /\ report_list # <<>> /\ got' = Append(got, Head(report_list)) /\ tests # <<>>
    BY <2>1 DEF GetReport, TInv
  <2>3. report_list \in Seq(Report) /\ got \in Seq(Report)
    BY Lists
  <2>4. Head(report_list) = report_list[1] /\ 1 \in 1..Len(report_list)
        /\ Head(report_list) \in Report
    BY <2>2, <2>3, EmptySeq, HeadTailProperties
  <2>5. got'[Len(got')] = Head(report_list)
    BY <2>2, <2>3, <2>4, AppendProperties
  <2> QED BY <2>2, <2>4, <2>5 DEF FreshInv
<1> QED
  BY <1>1, <1>2, ReportNext, Invariance, Paces, PTL DEF Spec, ReportsOfThisTest
=============================================================================
