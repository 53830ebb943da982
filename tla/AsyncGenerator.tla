--------------------------- MODULE AsyncGenerator ---------------------------
(***************************************************************************)
(* The async generators of quickjs.c: a queue of requests (calls of next,  *)
(* return and throw), the state machine that serves them, and the promise  *)
(* reactions through which it goes on after an await.                      *)
(*                                                                         *)
(* JavaScript is the environment.  It runs when the C stack is empty (the  *)
(* script and its jobs), in the body of the generator, and in the getters  *)
(* the engine calls: "constructor" of a value that is awaited or returned, *)
(* and, when ThenGetter, a "then" of Object.prototype, read each time a    *)
(* request is resolved with an iterator result.  All of them may call the  *)
(* generator again, so js_async_generator_resume_next may be entered while *)
(* another call of it is under way: the calls are frames of a stack.       *)
(***************************************************************************)
EXTENDS Integers, Sequences, SequencesExt

CONSTANTS MaxRequests,  \* bound: calls of next, return and throw
          ThenGetter    \* Object.prototype has a "then" that calls the generator

ASSUME MaxAssumption == MaxRequests \in Nat
ASSUME GetterAssumption == ThenGetter \in BOOLEAN

VARIABLES
  state,     \* of JSAsyncGeneratorData
  queue,     \* the requests, oldest first
  body,      \* where the generator function is
  stack,     \* calls of resume_next and of the resolve functions, innermost last
  reactions, \* promise reactions to come, by kind
  made,      \* requests made so far; names them
  settled,   \* history: the answers, in the order the promises got them
  failed     \* history: an assertion has failed

vars == <<state, queue, body, stack, reactions, made, settled, failed>>

State == {"SUSPENDED_START", "SUSPENDED_YIELD", "SUSPENDED_YIELD_STAR",
          "EXECUTING", "AWAITING_RETURN", "COMPLETED"}
Magic   == {"next", "return", "throw"}
Request == [id : 1..MaxRequests, type : Magic]
Answer  == {"value", "done", "error"}
Body    == {"start", "run", "await", "yield", "over"}

\* What a frame is doing: at the top of the loop; in the generator function;
\* in js_promise_resolve for an await or for a return; resolving a request,
\* after which it goes on with the loop or returns.
Pc      == {"loop", "body", "await", "return", "thenLoop", "thenReturn"}
Frame   == [pc : Pc, answers : Seq([id : 1..MaxRequests, with : Answer])]
At(pc)  == [pc |-> pc, answers |-> <<>>]

\* The kinds of js_async_generator_resolve_function: magic < 2 and magic >= 2
Kind == {"await", "return"}

TypeOK ==
  /\ state \in State
  /\ queue \in Seq(Request)
  /\ body \in Body
  /\ stack \in Seq(Frame)
  /\ reactions \in [Kind -> 0..1]
  /\ made \in 0..MaxRequests
  /\ settled \in Seq([id : 1..MaxRequests, with : Answer])
  /\ failed \in BOOLEAN

\* js_async_generator_function_call
Init ==
  /\ state = "SUSPENDED_START"
  /\ queue = <<>>
  /\ body = "start"
  /\ stack = <<>>
  /\ reactions = [k \in Kind |-> 0]
  /\ made = 0
  /\ settled = <<>>
  /\ failed = FALSE

----------------------------------------------------------------------------
Top     == Last(stack)
Idle    == stack = <<>>
TopIs(pc) == stack # <<>> /\ Top.pc = pc
Below   == Front(stack)
Goto(f) == stack' = Append(Below, f)
Return  == stack' = Below

\* list_del of the first request
PopBug == queue
Pop    == Tail(queue)

\* The first request, answered
Answered(a) == [id |-> Head(queue).id, with |-> a]

\* js_async_generator_resolve: the request leaves the queue, then its
\* resolving function is called, which looks for a "then" before it fulfils
\* the promise
Resolve(a, pc) == queue' = Pop /\ Goto([pc |-> pc, answers |-> <<Answered(a)>>])

\* js_async_generator_reject: no property is read
Reject(s) == queue' = Pop /\ settled' = Append(settled, Answered("error")) /\ stack' = s

\* js_async_generator_complete
CompleteBug == UNCHANGED state /\ body' = "over"
Complete    == state' = "COMPLETED" /\ body' = "over"

\* JavaScript is running
Script ==
  \/ Idle
  \/ \E pc \in {"body", "await", "return"} : TopIs(pc)
  \/ ThenGetter /\ \E pc \in {"thenLoop", "thenReturn"} : TopIs(pc)

\* Whether a new request starts resume_next.  Fault: also during an await
StartsBug == body # "run"
Starts    == state # "EXECUTING"

\* js_async_generator_next, with magic t
Call(t) ==
  /\ Script /\ ~failed /\ made < MaxRequests
  /\ made' = made + 1
  /\ queue' = Append(queue, [id |-> made + 1, type |-> t])
  /\ stack' = IF Starts THEN Append(stack, At("loop")) ELSE stack
  /\ UNCHANGED <<state, body, reactions, settled, failed>>

(***************************************************************************)
(* One round of the loop of js_async_generator_resume_next                 *)
(***************************************************************************)
Looping == TopIs("loop") /\ ~failed
Serves(st) == Looping /\ queue # <<>> /\ state = st
First == Head(queue).type

\* nothing to serve, or the answer of a return has to come first
LoopEnds ==
  /\ Looping /\ (queue = <<>> \/ state = "AWAITING_RETURN")
  /\ Return
  /\ UNCHANGED <<state, queue, body, reactions, made, settled, failed>>

\* async_func_resume, whose assertion is that the function is not over
Enter ==
  /\ failed' = (body = "over")
  /\ body' = "run"
  /\ Goto(At("body"))
  /\ UNCHANGED <<queue, reactions, made, settled>>

\* the continuation of an await
ResumeAfterAwait == Serves("EXECUTING") /\ Enter /\ UNCHANGED state

\* the first next, or any request to a function suspended at a yield
ResumeAfterYield ==
  /\ \/ Serves("SUSPENDED_START") /\ First = "next"
     \/ Serves("SUSPENDED_YIELD")
     \/ Serves("SUSPENDED_YIELD_STAR")
  /\ state' = "EXECUTING"
  /\ Enter

\* return or throw before the function has begun
NeverBegins ==
  /\ Serves("SUSPENDED_START") /\ First # "next"
  /\ Complete
  /\ UNCHANGED <<queue, stack, reactions, made, settled, failed>>

\* A request to a function that is over: one is served, "goto done"
ServeCompleted ==
  /\ Serves("COMPLETED")
  /\ \/ First = "next" /\ Resolve("done", "thenReturn") /\ UNCHANGED <<state, settled>>
     \/ First = "throw" /\ Reject(Below) /\ UNCHANGED state
     \/ /\ First = "return"
        /\ state' = "AWAITING_RETURN"
        /\ Goto(At("return"))
        /\ UNCHANGED <<queue, settled>>
  /\ UNCHANGED <<body, reactions, made, failed>>

\* js_async_generator_completed_return has made a promise of the value, or of
\* the exception of its getter, and reacts to it
AwaitsReturn ==
  /\ TopIs("return") /\ ~failed
  /\ reactions' = [reactions EXCEPT !["return"] = @ + 1]
  /\ Return
  /\ UNCHANGED <<state, queue, body, made, settled, failed>>

\* The resolving function called by js_async_generator_resolve fulfils the promise
Fulfil ==
  /\ TopIs("thenLoop") \/ TopIs("thenReturn")
  /\ ~failed
  /\ settled' = settled \o Top.answers
  /\ IF Top.pc = "thenLoop" THEN Goto(At("loop")) ELSE Return
  /\ UNCHANGED <<state, queue, body, reactions, made, failed>>

----------------------------------------------------------------------------
(* What the generator function does next *)

InBody == TopIs("body") /\ ~failed

\* yield, or yield* of another async iterator
Yield(st) ==
  /\ InBody
  /\ state' = st
  /\ body' = "yield"
  /\ Resolve("value", "thenLoop")
  /\ UNCHANGED <<reactions, made, settled, failed>>

\* end of function
Ends ==
  /\ InBody
  /\ Complete
  /\ Resolve("done", "thenLoop")
  /\ UNCHANGED <<reactions, made, settled, failed>>

\* an exception the function does not catch
Throws ==
  /\ InBody
  /\ Complete
  /\ Reject(Append(Below, At("loop")))
  /\ UNCHANGED <<reactions, made, failed>>

\* await: js_async_generator_await asks for a promise of the value ...
Await ==
  /\ InBody
  /\ body' = "await"
  /\ Goto(At("await"))
  /\ UNCHANGED <<state, queue, reactions, made, settled, failed>>

\* ... and reacts to it; or its getter has thrown, and the function goes on
\* with that exception
Awaits ==
  /\ TopIs("await") /\ ~failed
  /\ \/ /\ reactions' = [reactions EXCEPT !["await"] = @ + 1]
        /\ Return
        /\ UNCHANGED body
     \/ /\ body' = "run"
        /\ Goto(At("body"))
        /\ UNCHANGED reactions
  /\ UNCHANGED <<state, queue, made, settled, failed>>

----------------------------------------------------------------------------
(* js_async_generator_resolve_function, called by a promise_reaction_job *)

\* An awaited promise has been settled
AfterAwait ==
  /\ Idle /\ ~failed /\ reactions["await"] > 0
  /\ reactions' = [reactions EXCEPT !["await"] = @ - 1]
  /\ failed' = (state # "EXECUTING")
  /\ stack' = <<At("loop")>>
  /\ UNCHANGED <<state, queue, body, made, settled>>

\* The state once the value of a return is known.  Fault: not reset
OverBug == state
Over    == "COMPLETED"

\* The value of a return is known: that request is answered
AfterReturn ==
  /\ Idle /\ ~failed /\ reactions["return"] > 0
  /\ reactions' = [reactions EXCEPT !["return"] = @ - 1]
  /\ IF state \notin {"AWAITING_RETURN", "COMPLETED"} \/ queue = <<>>
       THEN failed' = TRUE /\ UNCHANGED <<state, queue, stack, settled>>
       ELSE /\ state' = Over
            /\ \/ /\ queue' = Pop
                  /\ stack' = <<[pc |-> "thenReturn", answers |-> <<Answered("done")>>]>>
                  /\ UNCHANGED settled
               \/ Reject(<<>>)
            /\ UNCHANGED failed
  /\ UNCHANGED <<body, made>>

----------------------------------------------------------------------------
Served == LoopEnds \/ ResumeAfterAwait \/ ResumeAfterYield \/ NeverBegins
          \/ ServeCompleted \/ AwaitsReturn \/ Fulfil \/ Awaits

\* The function comes to a yield or to its end
Answers == Yield("SUSPENDED_YIELD") \/ Yield("SUSPENDED_YIELD_STAR") \/ Ends \/ Throws

\* Nobody calls any more
Silence ==
  /\ failed \/ (Idle /\ \A k \in Kind : reactions[k] = 0)
  /\ UNCHANGED vars

Next ==
  \/ \E t \in Magic : Call(t)
  \/ Served \/ Answers \/ Await
  \/ AfterAwait \/ AfterReturn
  \/ Silence

Spec == Init /\ [][Next]_vars

\* The engine runs, awaited promises are settled and their jobs run, and the
\* function does not await for ever.
FairSpec ==
  /\ Spec
  /\ WF_vars(Served) /\ WF_vars(AfterAwait \/ AfterReturn)
  /\ WF_vars(Answers \/ Await) /\ SF_vars(Answers)

----------------------------------------------------------------------------
(* Properties *)

Ids(s) == [i \in DOMAIN s |-> s[i].id]

\* The answers whose promises are being resolved
Answering == FlattenSeq([i \in DOMAIN stack |-> stack[i].answers])

\* The queue and list_del of js_async_generator_resolve_or_reject: requests are
\* answered in the order of the calls, each at most once, and none is dropped
\* on the way, however calls, awaits and returns interleave.
AnsweredInOrder ==
  Ids(settled) \o Ids(Answering) \o Ids(queue) = [i \in 1..made |-> i]

\* The queue and its requests
QueueInv == TypeOK /\ AnsweredInOrder

\* The assertions of js_async_generator_resolve_function and async_func_resume,
\* and the list_entry of a queue taken to be non-empty: a reaction finds the
\* generator in the state it left it in, and a request to answer.
NoAssertFails == ~failed

\* SUSPENDED states, EXECUTING after await(): a function that awaits is resumed
\* by the reaction of its await only (or by the exception of the await itself),
\* not by a request that comes meanwhile.
AwaitUndisturbed ==
  /\ body = "await" => reactions["await"] = 1 \/ TopIs("await") \/ stack = <<At("loop")>>
  /\ reactions["await"] = 1 => body = "await" /\ stack = <<>> /\ queue # <<>>

\* The first request of the queue is answered, be it by the function, by the
\* reaction to its return, or by the loop, unless the generator is over and
\* nobody is in the loop.
FirstAnswered ==
  \A r \in 1..MaxRequests :
     (queue # <<>> /\ Head(queue).id = r /\ (state # "COMPLETED" \/ TopIs("loop")))
       ~> r \in Range(Ids(settled))

\* "resume next case in AWAITING_RETURN state", says the comment in
\* js_async_generator_resolve_function: after the request it answers, the next
\* one is served, so that in the end each of them is answered.
AllAnswered ==
  \A r \in 1..MaxRequests : made = r ~> r \in Range(Ids(settled))
=============================================================================
