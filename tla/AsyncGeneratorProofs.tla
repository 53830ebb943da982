------------------------ MODULE AsyncGeneratorProofs ------------------------
(***************************************************************************)
(* Async generators for any number of requests, in programs that put no    *)
(* getter "then" on Object.prototype: no assertion fails, awaits are left  *)
(* alone, and requests are answered in order.                              *)
(***************************************************************************)
EXTENDS AsyncGenerator, SequenceTheorems, TLAPS

----------------------------------------------------------------------------
(* The stack: one call, or one more during js_promise_resolve for a return *)

Two == <<At("return"), At("loop")>>

ShapeInv == stack = <<>> \/ stack = Two \/ \E f \in Frame : stack = <<f>>

LEMMA OfOne ==
  ASSUME NEW f, stack = <<f>>
  PROVE  stack # <<>> /\ Top = f /\ Below = <<>>
<1>1. Len(stack) = 1 /\ stack[1] = f
  OBVIOUS
<1>2. SubSeq(stack, 1, 0) = <<>>
  OBVIOUS
<1> QED
  BY <1>1, <1>2 DEF Top, Below, Last, Front

LEMMA Frames ==
  ASSUME NEW pc \in Pc
  PROVE  At(pc) \in Frame /\ At(pc).pc = pc /\ At(pc).answers = <<>>
  BY DEF At, Frame

LEMMA OfTwo ==
  ASSUME stack = Two
  PROVE  stack # <<>> /\ Top = At("loop") /\ Below = <<At("return")>>
<1> DEFINE r == At("return")
           l == At("loop")
           below == SubSeq(stack, 1, 1)
<1>1. r \in Frame /\ l \in Frame
  BY Frames DEF Pc
<1> HIDE DEF r, l
<1>2. stack = <<r, l>> /\ Len(stack) = 2 /\ stack[2] = l /\ stack[1] = r
  BY DEF Two, r, l
<1>3. below \in Seq(Frame) /\ Len(below) = 1 /\ below[1] = r
  <2>1. \A i \in 1..1 : stack[i] \in Frame
    BY <1>1, <1>2
  <2>2. /\ below \in Seq(Frame)
        /\ Len(below) = IF 1 <= 1 THEN 1 - 1 + 1 ELSE 0
        /\ \A i \in 1..1 - 1 + 1 : below[i] = stack[1 + i - 1]
    BY ONLY <2>1, SubSeqProperties
  <2> QED
    BY <1>2, <2>2
<1>4. <<r>> \in Seq(Frame) /\ Len(<<r>>) = 1 /\ <<r>>[1] = r
  BY <1>1
<1>5. below = <<r>>
  <2>1. \A i \in 1..Len(below) : below[i] = <<r>>[i]
    BY <1>3, <1>4
  <2> HIDE DEF below
  <2> QED
    BY <1>3, <1>4, <2>1, SeqEqual
<1> QED
  BY <1>2, <1>5 DEF Top, Below, Last, Front, r, l

LEMMA Pushed ==
  ASSUME NEW f \in Frame, NEW g \in Frame
  PROVE  Append(<<>>, f) = <<f>> /\ Append(<<f>>, g) = <<f, g>>
<1> DEFINE a == Append(<<f>>, g)
           e == Append(<<>>, f)
<1>1. <<f>> \in Seq(Frame) /\ <<>> \in Seq(Frame) /\ <<f, g>> \in Seq(Frame)
  OBVIOUS
<1>2. /\ a \in Seq(Frame) /\ Len(a) = Len(<<f>>) + 1
      /\ \A i \in 1..Len(<<f>>) : a[i] = <<f>>[i]
      /\ a[Len(<<f>>) + 1] = g
      /\ e \in Seq(Frame) /\ Len(e) = Len(<<>>) + 1 /\ e[Len(<<>>) + 1] = f
  BY <1>1, AppendProperties
<1>3. Len(a) = 2 /\ a[1] = f /\ a[2] = g /\ Len(e) = 1 /\ e[1] = f
  BY <1>2
<1> HIDE DEF a, e
<1>4. \A i \in 1..Len(a) : a[i] = <<f, g>>[i]
  BY <1>3
<1>5. \A i \in 1..Len(e) : e[i] = <<f>>[i]
  BY <1>3
<1>6. a = <<f, g>>
  BY <1>1, <1>2, <1>3, <1>4, SeqEqual, Len(<<f, g>>) = 2
<1>7. e = <<f>>
  BY <1>1, <1>2, <1>3, <1>5, SeqEqual, Len(<<f>>) = 1
<1> QED
  BY <1>6, <1>7 DEF a, e

----------------------------------------------------------------------------
(* The inductive invariant *)

Pending(pc) == stack # <<>> /\ stack[1].pc = pc

\* What goes on when a call is under way: its frame determines where the
\* generator and its function are.
FrameInv ==
  /\ Pending("body") => state = "EXECUTING" /\ body = "run" /\ queue # <<>>
  /\ Pending("await") => state = "EXECUTING" /\ body = "await" /\ queue # <<>>
  /\ Pending("return") => state = "AWAITING_RETURN" /\ queue # <<>>
  /\ Pending("loop") /\ state = "EXECUTING" => body = "await" /\ queue # <<>>
  /\ stack # <<>> /\ stack[1].pc \notin {"thenLoop", "thenReturn"} =>
       stack[1] = At(stack[1].pc)
  /\ Pending("thenLoop") => state \notin {"EXECUTING", "AWAITING_RETURN"}
  /\ Pending("thenReturn") => state = "COMPLETED"

\* The promise reactions to come are the ones the state waits for.
ReactionInv ==
  /\ reactions["await"] = IF state = "EXECUTING" /\ stack = <<>> THEN 1 ELSE 0
  /\ reactions["return"] = IF state = "AWAITING_RETURN" /\ ~Pending("return") THEN 1 ELSE 0
  /\ state \in {"EXECUTING", "AWAITING_RETURN"} => queue # <<>>

BodyInv ==
  /\ body = "start" => state = "SUSPENDED_START"
  /\ state = "SUSPENDED_START" => body = "start"
  /\ state \in {"SUSPENDED_YIELD", "SUSPENDED_YIELD_STAR"} <=> body = "yield"
  /\ state \in {"COMPLETED", "AWAITING_RETURN"} <=> body = "over"
  /\ state = "EXECUTING" <=> body \in {"run", "await"}
  /\ body = "run" => Pending("body")

IInv == TypeOK /\ ShapeInv /\ FrameInv /\ ReactionInv /\ BodyInv /\ ~failed

----------------------------------------------------------------------------
\* The request served first leaves the others; a new one comes last
LEMMA Popped ==
  ASSUME TypeOK, queue # <<>>
  PROVE  /\ Pop \in Seq(Request) /\ Head(queue) \in Request
         /\ \A a \in Answer : Answered(a) \in [id : 1..MaxRequests, with : Answer]
<1>1. queue \in Seq(Request)
  BY DEF TypeOK
<1>2. Tail(queue) \in Seq(Request) /\ Head(queue) \in Request
  BY <1>1, HeadTailProperties
<1> QED
  BY <1>2 DEF Pop, Answered, Request

LEMMA OneFrame ==
  ASSUME NEW pc \in Pc, NEW a \in [id : 1..MaxRequests, with : Answer]
  PROVE  /\ [pc |-> pc, answers |-> <<a>>] \in Frame
  BY DEF Frame

LEMMA InitIInv == Init => IInv
<1> SUFFICES ASSUME Init PROVE IInv
  OBVIOUS
<1>1. TypeOK
  <2>1. made \in 0..MaxRequests
    BY MaxAssumption DEF Init
  <2>2. reactions \in [Kind -> 0..1]
    BY DEF Init
  <2>3. queue \in Seq(Request) /\ stack \in Seq(Frame)
        /\ settled \in Seq([id : 1..MaxRequests, with : Answer])
    BY EmptySeq DEF Init
  <2>4. state \in State /\ body \in Body /\ failed \in BOOLEAN
    BY DEF Init, State, Body
  <2> QED
    BY <2>1, <2>2, <2>3, <2>4 DEF TypeOK
<1> QED
  BY <1>1 DEF Init, IInv, ShapeInv, FrameInv, ReactionInv, BodyInv, Pending, Kind

----------------------------------------------------------------------------
(* Where the calls stand, for each action *)

\* With no getter "then" the script runs when no call is under way or in one
\* of three places.
LEMMA ScriptRuns ==
  ASSUME IInv, ~ThenGetter, Script
  PROVE  \/ stack = <<>>
         \/ \E f \in Frame : stack = <<f>> /\ f.pc \in {"body", "await", "return"}
<1>1. CASE stack = <<>>
  BY <1>1
<1>2. CASE stack = Two
  BY <1>2, OfTwo, Frames DEF Script, Idle, TopIs, Pc
<1>3. ASSUME NEW f \in Frame, stack = <<f>>
      PROVE  f.pc \in {"body", "await", "return"}
  BY <1>3, OfOne DEF Script, Idle, TopIs
<1> QED
  BY <1>1, <1>2, <1>3 DEF IInv, ShapeInv

\* A frame that is not in the loop is the only one.
LEMMA TopAlone ==
  ASSUME IInv, NEW pc, TopIs(pc), pc # "loop"
  PROVE  \E f \in Frame : stack = <<f>> /\ f.pc = pc
<1>1. CASE stack = Two
  BY <1>1, OfTwo, Frames DEF TopIs, Pc
<1>2. ASSUME NEW f \in Frame, stack = <<f>>
      PROVE  f.pc = pc
  BY <1>2, OfOne DEF TopIs
<1> QED
  BY <1>1, <1>2 DEF IInv, ShapeInv, TopIs

\* A loop that serves a request is the only call.
LEMMA LoopAlone ==
  ASSUME IInv, Looping, state # "AWAITING_RETURN"
  PROVE  stack = <<At("loop")>>
<1>1. CASE stack = Two
  BY <1>1, OfTwo, Frames DEF IInv, FrameInv, Pending, Two, Pc
<1>2. ASSUME NEW f \in Frame, stack = <<f>>
      PROVE  f = At("loop")
  BY <1>2, OfOne DEF Looping, TopIs, IInv, FrameInv, Pending
<1> QED
  BY <1>1, <1>2 DEF IInv, ShapeInv, Looping, TopIs

----------------------------------------------------------------------------
\* What follows when the next state has no call, or one, under way
LEMMA ToNone ==
  ASSUME TypeOK', stack' = <<>>, BodyInv', ~failed',
         reactions'["await"] = IF state' = "EXECUTING" THEN 1 ELSE 0,
         reactions'["return"] = IF state' = "AWAITING_RETURN" THEN 1 ELSE 0,
         state' \in {"EXECUTING", "AWAITING_RETURN"} => queue' # <<>>
  PROVE  IInv'
  BY DEF IInv, ShapeInv, FrameInv, ReactionInv, Pending

LEMMA ToOne ==
  ASSUME TypeOK', BodyInv', ~failed',
         NEW f \in Frame, stack' = <<f>>,
         f.pc \notin {"thenLoop", "thenReturn"} => f = At(f.pc),
         f.pc = "body" => state' = "EXECUTING" /\ body' = "run",
         f.pc = "await" => state' = "EXECUTING" /\ body' = "await",
         f.pc = "return" => state' = "AWAITING_RETURN",
         f.pc = "loop" /\ state' = "EXECUTING" => body' = "await",
         f.pc = "thenLoop" => state' \notin {"EXECUTING", "AWAITING_RETURN"},
         f.pc = "thenReturn" => state' = "COMPLETED",
         reactions'["await"] = 0,
         reactions'["return"] = IF state' = "AWAITING_RETURN" /\ f.pc # "return" THEN 1 ELSE 0,
         state' \in {"EXECUTING", "AWAITING_RETURN"} => queue' # <<>>
  PROVE  IInv'
<1>1. stack' # <<>> /\ stack'[1] = f
  OBVIOUS
<1>2. \A pc : Pending(pc)' <=> f.pc = pc
  BY <1>1 DEF Pending
<1>3. ShapeInv' /\ FrameInv' /\ ReactionInv'
  BY <1>1, <1>2 DEF ShapeInv, FrameInv, ReactionInv
<1> QED
  BY <1>3 DEF IInv

LEMMA CallStep ==
  ASSUME IInv, ~ThenGetter, NEW t \in Magic, Call(t)
  PROVE  IInv'
<1>0. /\ TypeOK /\ FrameInv /\ ReactionInv /\ BodyInv /\ ~failed
      /\ UNCHANGED <<state, body, reactions, settled, failed>>
  BY DEF IInv, Call
<1>1. made' \in 0..MaxRequests /\ made + 1 \in 1..MaxRequests /\ made' = made + 1
  BY <1>0, MaxAssumption DEF Call, TypeOK
<1>2. queue' \in Seq(Request) /\ queue' # <<>>
  <2>1. [id |-> made + 1, type |-> t] \in Request
    BY <1>1 DEF Request
  <2> QED
    BY <1>0, <2>1, AppendProperties DEF Call, TypeOK
<1>3. At("loop") \in Frame /\ At("return") \in Frame /\ At("loop").pc = "loop"
  BY Frames DEF Pc
<1>4. stack' \in Seq(Frame)
  BY <1>0, <1>3, AppendProperties DEF Call, TypeOK
<1>5. TypeOK'
  BY <1>0, <1>1, <1>2, <1>4 DEF TypeOK
<1>6. stack = <<>> \/ \E f \in Frame : stack = <<f>> /\ f.pc \in {"body", "await", "return"}
  BY ScriptRuns DEF Call
<1>7. CASE stack' = stack
  <2>1. BodyInv' /\ FrameInv' /\ ReactionInv' /\ ShapeInv'
    BY <1>0, <1>2, <1>7 DEF BodyInv, FrameInv, ReactionInv, ShapeInv, Pending, IInv
  <2> QED
    BY <1>0, <1>5, <2>1 DEF IInv
<1>8. CASE stack' # stack /\ stack = <<>>
  <2>1. stack' = <<At("loop")>> /\ state # "EXECUTING"
    BY <1>3, <1>8, Pushed DEF Call, Starts
  <2>2. BodyInv'
    <3>1. body # "run"
      BY <1>0, <2>1, <1>8 DEF BodyInv
    <3> QED
      BY <1>0, <3>1 DEF BodyInv
  <2>3. /\ reactions["await"] = 0
        /\ reactions["return"] = IF state = "AWAITING_RETURN" THEN 1 ELSE 0
    BY <1>0, <1>8, <2>1 DEF ReactionInv, Pending
  <2> QED
    BY <1>0, <1>2, <1>3, <1>5, <2>1, <2>2, <2>3, ToOne
<1>9. ASSUME stack' # stack, NEW f \in Frame, stack = <<f>>,
             f.pc \in {"body", "await", "return"}
      PROVE  IInv'
  <2>1. state # "EXECUTING" /\ stack' = Append(stack, At("loop"))
    BY <1>9 DEF Call, Starts
  <2>2. Pending(f.pc) /\ \A pc : Pending(pc) => pc = f.pc
    BY <1>9 DEF Pending
  <2>3. f.pc = "return" /\ state = "AWAITING_RETURN"
    BY <1>0, <1>9, <2>1, <2>2 DEF FrameInv
  <2>4. stack = <<At("return")>>
    BY <1>0, <1>9, <2>3 DEF FrameInv
  <2>5. stack' = Two
    BY <1>3, <2>1, <2>4, Pushed DEF Two
  <2>6. stack' # <<>> /\ stack'[1] = At("return") /\ At("return").pc = "return"
    BY <2>5, Frames DEF Two, Pc
  <2>7. \A pc : Pending(pc)' <=> pc = "return"
    BY <2>6 DEF Pending
  <2>8. BodyInv' /\ FrameInv' /\ ShapeInv'
    BY <1>0, <1>2, <2>2, <2>3, <2>5, <2>6, <2>7 DEF BodyInv, FrameInv, ShapeInv
  <2>9. ReactionInv'
    BY <1>0, <1>2, <1>9, <2>2, <2>3, <2>6, <2>7 DEF ReactionInv
  <2> QED
    BY <1>0, <1>5, <2>8, <2>9 DEF IInv
<1> QED
  BY <1>6, <1>7, <1>8, <1>9

----------------------------------------------------------------------------
\* Where an action that starts from one call leaves it
LEMMA LoopFacts ==
  ASSUME IInv, Looping, state # "AWAITING_RETURN"
  PROVE  /\ stack = <<At("loop")>> /\ At("loop") \in Frame
         /\ Below = <<>> /\ Top = At("loop")
         /\ \A f \in Frame : Append(Below, f) = <<f>>
         /\ reactions["await"] = 0 /\ reactions["return"] = 0
         /\ body # "run"
<1>1. stack = <<At("loop")>>
  BY LoopAlone
<1>2. At("loop") \in Frame /\ At("loop").pc = "loop"
  BY Frames DEF Pc
<1>3. Below = <<>> /\ Top = At("loop") /\ stack[1] = At("loop")
  BY <1>1, OfOne
<1>4. reactions["await"] = 0 /\ reactions["return"] = 0
  BY <1>1 DEF IInv, ReactionInv
<1>5. body # "run"
  BY <1>1, <1>2, <1>3 DEF IInv, BodyInv, Pending
<1> QED
  BY <1>1, <1>2, <1>3, <1>4, <1>5, Pushed

LEMMA TopFacts ==
  ASSUME IInv, NEW pc \in Pc \ {"loop"}, TopIs(pc)
  PROVE  /\ stack # <<>> /\ Below = <<>> /\ Top = stack[1] /\ Top \in Frame
         /\ stack = <<Top>> /\ Top.pc = pc /\ Pending(pc)
         /\ \A q : Pending(q) => q = pc
         /\ \A f \in Frame : Append(Below, f) = <<f>>
         /\ reactions["await"] = 0
         /\ pc = "return" \/ state # "AWAITING_RETURN" => reactions["return"] = 0
<1>1. PICK f \in Frame : stack = <<f>> /\ f.pc = pc
  BY TopAlone
<1>2. stack # <<>> /\ Below = <<>> /\ Top = f /\ stack[1] = f
  BY <1>1, OfOne
<1>3. Pending(pc) /\ \A q : Pending(q) => q = pc
  BY <1>1, <1>2 DEF Pending
<1>4. /\ reactions["await"] = 0
      /\ pc = "return" \/ state # "AWAITING_RETURN" => reactions["return"] = 0
  BY <1>2, <1>3 DEF IInv, ReactionInv
<1> QED
  BY <1>1, <1>2, <1>3, <1>4, Pushed

LEMMA FrameType ==
  ASSUME NEW f \in Frame
  PROVE  <<f>> \in Seq(Frame) /\ <<>> \in Seq(Frame)
  OBVIOUS

\* The end of the loop
LEMMA LoopEndsStep ==
  ASSUME IInv, LoopEnds
  PROVE  IInv'
<1>0. /\ TypeOK /\ ShapeInv /\ FrameInv /\ ReactionInv /\ BodyInv /\ ~failed
      /\ UNCHANGED <<state, queue, body, reactions, made, settled, failed>>
      /\ stack' = Below
  BY DEF IInv, LoopEnds, Return
<1>1. CASE stack = Two
  <2>1. stack' = <<At("return")>> /\ At("return") \in Frame /\ At("return").pc = "return"
    BY <1>0, <1>1, OfTwo, Frames DEF Pc
  <2>2. Pending("return")
    BY <1>1, <2>1 DEF Pending, Two
  <2>3. TypeOK'
    BY <1>0, <2>1, FrameType DEF TypeOK
  <2>4. /\ state = "AWAITING_RETURN" /\ queue # <<>>
        /\ reactions["await"] = 0 /\ reactions["return"] = 0
    BY <1>0, <2>2 DEF FrameInv, ReactionInv
  <2>5. BodyInv'
    BY <1>0, <2>4 DEF BodyInv
  <2> QED
    BY <1>0, <2>1, <2>3, <2>4, <2>5, ToOne
<1>2. ASSUME NEW f \in Frame, stack = <<f>>
      PROVE  IInv'
  <2>1. f.pc = "loop" /\ stack' = <<>> /\ stack[1] = f /\ stack # <<>>
    BY <1>0, <1>2, OfOne DEF LoopEnds, Looping, TopIs
  <2>2. Pending("loop") /\ ~Pending("return") /\ ~Pending("body")
    BY <2>1 DEF Pending
  <2>3. state # "EXECUTING"
    BY <1>0, <2>2 DEF LoopEnds, FrameInv
  <2>4. TypeOK'
    BY <1>0, <2>1, EmptySeq DEF TypeOK
  <2>5. BodyInv'
    BY <1>0, <2>2, <2>3 DEF BodyInv
  <2>6. /\ reactions["await"] = 0
        /\ reactions["return"] = IF state = "AWAITING_RETURN" THEN 1 ELSE 0
        /\ state = "AWAITING_RETURN" => queue # <<>>
    BY <1>0, <2>1, <2>2, <2>3 DEF ReactionInv
  <2> QED
    BY <1>0, <2>1, <2>3, <2>4, <2>5, <2>6, ToNone
<1>3. CASE stack = <<>>
  BY <1>3 DEF LoopEnds, Looping, TopIs
<1> QED
  BY <1>0, <1>1, <1>2, <1>3 DEF ShapeInv

\* The function is entered: it is not over
LEMMA EnterStep ==
  ASSUME IInv, \/ ResumeAfterAwait
               \/ ResumeAfterYield
  PROVE  IInv'
<1>0. /\ TypeOK /\ FrameInv /\ ReactionInv /\ BodyInv /\ ~failed
      /\ Looping /\ queue # <<>> /\ state # "AWAITING_RETURN" /\ state # "COMPLETED"
      /\ state' = "EXECUTING" /\ Enter
  BY DEF IInv, ResumeAfterAwait, ResumeAfterYield, Serves
<1>1. At("body") \in Frame /\ At("body").pc = "body"
  BY Frames DEF Pc
<1>2. stack' = <<At("body")>> /\ reactions["await"] = 0 /\ reactions["return"] = 0
  BY <1>0, <1>1, LoopFacts DEF Enter, Goto
<1>3. ~failed'
  BY <1>0 DEF Enter, BodyInv
<1>4. TypeOK'
  BY <1>0, <1>1, <1>2, <1>3, FrameType DEF TypeOK, Enter, State, Body
<1>5. BodyInv'
  <2>1. stack' # <<>> /\ stack'[1].pc = "body"
    BY <1>1, <1>2
  <2> QED
    BY <1>0, <2>1 DEF BodyInv, Enter, Pending
<1> QED
  BY <1>0, <1>1, <1>2, <1>3, <1>4, <1>5, ToOne DEF Enter

LEMMA NeverBeginsStep ==
  ASSUME IInv, NeverBegins
  PROVE  IInv'
<1>0. /\ TypeOK /\ FrameInv /\ ReactionInv /\ BodyInv /\ ~failed
      /\ Looping /\ state = "SUSPENDED_START"
      /\ state' = "COMPLETED" /\ body' = "over"
      /\ UNCHANGED <<queue, stack, reactions, made, settled, failed>>
  BY DEF IInv, NeverBegins, Serves, Complete
<1>1. TypeOK'
  BY <1>0 DEF TypeOK, State, Body
<1>2. BodyInv'
  BY <1>0 DEF BodyInv
<1>3. /\ stack = <<At("loop")>> /\ At("loop") \in Frame /\ At("loop").pc = "loop"
      /\ reactions["await"] = 0 /\ reactions["return"] = 0
  BY <1>0, LoopFacts, Frames DEF Pc
<1> QED
  BY <1>0, <1>1, <1>2, <1>3, ToOne

LEMMA ServeCompletedStep ==
  ASSUME IInv, ServeCompleted
  PROVE  IInv'
<1>0. /\ TypeOK /\ FrameInv /\ ReactionInv /\ BodyInv /\ ~failed
      /\ Looping /\ queue # <<>> /\ state = "COMPLETED" /\ body = "over"
      /\ UNCHANGED <<body, reactions, made, failed>>
  BY DEF IInv, ServeCompleted, Serves, BodyInv
<1>1. /\ Below = <<>> /\ reactions["await"] = 0 /\ reactions["return"] = 0
      /\ \A f \in Frame : Append(Below, f) = <<f>>
  BY <1>0, LoopFacts
<1>2. Pop \in Seq(Request) /\ \A a \in Answer : Answered(a) \in [id : 1..MaxRequests, with : Answer]
  BY <1>0, Popped
<1>3. CASE First = "next" /\ Resolve("done", "thenReturn") /\ UNCHANGED <<state, settled>>
  <2> DEFINE f == [pc |-> "thenReturn", answers |-> <<Answered("done")>>]
  <2>1. f \in Frame /\ f.pc = "thenReturn"
    BY <1>2, OneFrame DEF Pc, Answer
  <2>2. stack' = <<f>>
    BY <1>1, <1>3, <2>1 DEF Resolve, Goto
  <2>3. TypeOK'
    BY <1>0, <1>2, <1>3, <2>1, <2>2, FrameType DEF TypeOK, Resolve
  <2>4. BodyInv'
    BY <1>0, <1>3 DEF BodyInv
  <2> HIDE DEF f
  <2> QED
    BY <1>0, <1>1, <1>3, <2>1, <2>2, <2>3, <2>4, ToOne
<1>4. CASE First = "throw" /\ Reject(Below) /\ UNCHANGED state
  <2>1. stack' = <<>> /\ queue' = Pop
    BY <1>1, <1>4 DEF Reject
  <2>2. settled' \in Seq([id : 1..MaxRequests, with : Answer])
    BY <1>0, <1>2, <1>4, AppendProperties DEF Reject, TypeOK, Answer
  <2>3. TypeOK'
    BY <1>0, <1>2, <1>4, <2>1, <2>2, EmptySeq DEF TypeOK
  <2>4. BodyInv'
    BY <1>0, <1>4 DEF BodyInv
  <2> QED
    BY <1>0, <1>1, <1>4, <2>1, <2>3, <2>4, ToNone
<1>5. CASE /\ First = "return"
           /\ state' = "AWAITING_RETURN"
           /\ Goto(At("return"))
           /\ UNCHANGED <<queue, settled>>
  <2>1. At("return") \in Frame /\ At("return").pc = "return" /\ stack' = <<At("return")>>
    BY <1>1, <1>5, Frames DEF Pc, Goto
  <2>2. TypeOK'
    BY <1>0, <1>5, <2>1, FrameType DEF TypeOK, State
  <2>3. BodyInv'
    BY <1>0, <1>5 DEF BodyInv
  <2> QED
    BY <1>0, <1>1, <1>5, <2>1, <2>2, <2>3, ToOne
<1> QED
  BY <1>3, <1>4, <1>5 DEF ServeCompleted

----------------------------------------------------------------------------
(* The other places of the engine *)

LEMMA AwaitsReturnStep ==
  ASSUME IInv, AwaitsReturn
  PROVE  IInv'
<1>0. /\ TypeOK /\ FrameInv /\ ReactionInv /\ BodyInv /\ ~failed
      /\ TopIs("return") /\ stack' = Below
      /\ UNCHANGED <<state, queue, body, made, settled, failed>>
  BY DEF IInv, AwaitsReturn, Return
<1>1. /\ Below = <<>> /\ Pending("return") /\ ~Pending("body")
      /\ reactions["await"] = 0 /\ reactions["return"] = 0
  BY <1>0, TopFacts DEF Pc
<1>2. state = "AWAITING_RETURN" /\ queue # <<>>
  BY <1>0, <1>1 DEF FrameInv
<1>3. reactions \in [Kind -> 0..1]
  BY <1>0 DEF TypeOK
<1>4. reactions'["await"] = 0 /\ reactions'["return"] = 1 /\ reactions' \in [Kind -> 0..1]
  BY <1>1, <1>3 DEF AwaitsReturn, Kind
<1>5. TypeOK'
  BY <1>0, <1>1, <1>4, EmptySeq DEF TypeOK
<1>6. BodyInv'
  BY <1>0, <1>1 DEF BodyInv
<1> QED
  BY <1>0, <1>1, <1>2, <1>4, <1>5, <1>6, ToNone

LEMMA FulfilStep ==
  ASSUME IInv, Fulfil
  PROVE  IInv'
<1>0. /\ TypeOK /\ FrameInv /\ ReactionInv /\ BodyInv /\ ~failed
      /\ UNCHANGED <<state, queue, body, reactions, made, failed>>
      /\ settled' = settled \o Top.answers
  BY DEF IInv, Fulfil
<1>1. PICK pc \in {"thenLoop", "thenReturn"} : TopIs(pc)
  BY DEF Fulfil
<1>2. /\ Below = <<>> /\ Top \in Frame /\ Top.pc = pc /\ Pending(pc) /\ ~Pending("body")
      /\ \A f \in Frame : Append(Below, f) = <<f>>
      /\ reactions["await"] = 0
      /\ state # "AWAITING_RETURN" => reactions["return"] = 0
  BY <1>1, TopFacts DEF Pc, Pending
<1>3. state \notin {"EXECUTING", "AWAITING_RETURN"}
  BY <1>0, <1>1, <1>2 DEF FrameInv
<1>4. settled' \in Seq([id : 1..MaxRequests, with : Answer])
  <2>1. Top.answers \in Seq([id : 1..MaxRequests, with : Answer])
    BY <1>2 DEF Frame
  <2> QED
    BY <1>0, <2>1, ConcatProperties DEF TypeOK
<1>5. BodyInv'
  <2>1. body # "run"
    BY <1>0, <1>2 DEF BodyInv
  <2> QED
    BY <1>0, <2>1 DEF BodyInv
<1>6. CASE pc = "thenLoop"
  <2>1. At("loop") \in Frame /\ At("loop").pc = "loop" /\ stack' = <<At("loop")>>
    BY <1>2, <1>6, Frames DEF Pc, Fulfil, Goto
  <2>2. TypeOK'
    BY <1>0, <1>4, <2>1, FrameType DEF TypeOK
  <2> QED
    BY <1>0, <1>2, <1>3, <1>5, <2>1, <2>2, ToOne
<1>7. CASE pc = "thenReturn"
  <2>1. stack' = <<>>
    BY <1>2, <1>7 DEF Fulfil, Return
  <2>2. TypeOK'
    BY <1>0, <1>4, <2>1, EmptySeq DEF TypeOK
  <2> QED
    BY <1>0, <1>2, <1>3, <1>5, <2>1, <2>2, ToNone
<1> QED
  BY <1>6, <1>7

----------------------------------------------------------------------------
(* The function and its awaits *)

LEMMA BodyFacts ==
  ASSUME IInv, InBody
  PROVE  /\ Below = <<>> /\ queue # <<>> /\ state = "EXECUTING" /\ body = "run"
         /\ \A f \in Frame : Append(Below, f) = <<f>>
         /\ reactions["await"] = 0 /\ reactions["return"] = 0
<1>1. /\ Below = <<>> /\ Pending("body")
      /\ \A f \in Frame : Append(Below, f) = <<f>>
      /\ reactions["await"] = 0
      /\ state # "AWAITING_RETURN" => reactions["return"] = 0
  BY TopFacts DEF InBody, Pc
<1> QED
  BY <1>1 DEF IInv, FrameInv

LEMMA AnswersStep ==
  ASSUME IInv, \/ Yield("SUSPENDED_YIELD")
               \/ Yield("SUSPENDED_YIELD_STAR")
               \/ Ends
  PROVE  IInv'
<1>0. /\ TypeOK /\ FrameInv /\ ReactionInv /\ BodyInv /\ ~failed /\ InBody
      /\ UNCHANGED <<reactions, made, settled, failed>>
  BY DEF IInv, Yield, Ends
<1>1. /\ Below = <<>> /\ queue # <<>>
      /\ \A f \in Frame : Append(Below, f) = <<f>>
      /\ reactions["await"] = 0 /\ reactions["return"] = 0
  BY <1>0, BodyFacts
<1>2. PICK a \in Answer : Resolve(a, "thenLoop")
  BY DEF Yield, Ends, Answer
<1> DEFINE f == [pc |-> "thenLoop", answers |-> <<Answered(a)>>]
<1>3. Pop \in Seq(Request) /\ Answered(a) \in [id : 1..MaxRequests, with : Answer]
  BY <1>0, <1>1, Popped
<1>4. f \in Frame /\ f.pc = "thenLoop"
  BY <1>3, OneFrame DEF Pc
<1>5. stack' = <<f>> /\ queue' = Pop
  BY <1>1, <1>2, <1>4 DEF Resolve, Goto
<1> HIDE DEF f
<1>6. \/ state' \in {"SUSPENDED_YIELD", "SUSPENDED_YIELD_STAR"} /\ body' = "yield"
      \/ state' = "COMPLETED" /\ body' = "over"
  BY DEF Yield, Ends, Complete
<1>7. TypeOK'
  BY <1>0, <1>3, <1>4, <1>5, <1>6, FrameType DEF TypeOK, State, Body
<1>8. BodyInv'
  BY <1>6 DEF BodyInv
<1> QED
  BY <1>0, <1>1, <1>4, <1>5, <1>6, <1>7, <1>8, ToOne

LEMMA ThrowsStep ==
  ASSUME IInv, Throws
  PROVE  IInv'
<1>0. /\ TypeOK /\ FrameInv /\ ReactionInv /\ BodyInv /\ ~failed /\ InBody
      /\ state' = "COMPLETED" /\ body' = "over" /\ Reject(Append(Below, At("loop")))
      /\ UNCHANGED <<reactions, made, failed>>
  BY DEF IInv, Throws, Complete
<1>1. /\ queue # <<>> /\ \A f \in Frame : Append(Below, f) = <<f>>
      /\ reactions["await"] = 0 /\ reactions["return"] = 0
  BY <1>0, BodyFacts
<1>2. At("loop") \in Frame /\ At("loop").pc = "loop" /\ stack' = <<At("loop")>>
  BY <1>0, <1>1, Frames DEF Pc, Reject
<1>3. Pop \in Seq(Request) /\ \A a \in Answer : Answered(a) \in [id : 1..MaxRequests, with : Answer]
  BY <1>0, <1>1, Popped
<1>4. settled' \in Seq([id : 1..MaxRequests, with : Answer])
  BY <1>0, <1>3, AppendProperties DEF Reject, TypeOK, Answer
<1>5. TypeOK'
  BY <1>0, <1>2, <1>3, <1>4, FrameType DEF TypeOK, Reject, State, Body
<1>6. BodyInv'
  BY <1>0 DEF BodyInv
<1> QED
  BY <1>0, <1>1, <1>2, <1>5, <1>6, ToOne

LEMMA AwaitStep ==
  ASSUME IInv, Await
  PROVE  IInv'
<1>0. /\ TypeOK /\ FrameInv /\ ReactionInv /\ BodyInv /\ ~failed /\ InBody
      /\ body' = "await"
      /\ UNCHANGED <<state, queue, reactions, made, settled, failed>>
  BY DEF IInv, Await
<1>1. /\ queue # <<>> /\ state = "EXECUTING" /\ \A f \in Frame : Append(Below, f) = <<f>>
      /\ reactions["await"] = 0 /\ reactions["return"] = 0
  BY <1>0, BodyFacts
<1>2. At("await") \in Frame /\ At("await").pc = "await" /\ stack' = <<At("await")>>
  BY <1>1, Frames DEF Pc, Await, Goto
<1>3. TypeOK'
  BY <1>0, <1>2, FrameType DEF TypeOK, Body
<1>4. BodyInv'
  BY <1>0, <1>1 DEF BodyInv
<1> QED
  BY <1>0, <1>1, <1>2, <1>3, <1>4, ToOne

LEMMA AwaitsStep ==
  ASSUME IInv, Awaits
  PROVE  IInv'
<1>0. /\ TypeOK /\ FrameInv /\ ReactionInv /\ BodyInv /\ ~failed /\ TopIs("await")
      /\ UNCHANGED <<state, queue, made, settled, failed>>
  BY DEF IInv, Awaits
<1>1. /\ Below = <<>> /\ Pending("await") /\ ~Pending("body")
      /\ \A f \in Frame : Append(Below, f) = <<f>>
      /\ reactions["await"] = 0
      /\ state # "AWAITING_RETURN" => reactions["return"] = 0
  BY <1>0, TopFacts DEF Pc
<1>2. state = "EXECUTING" /\ body = "await" /\ queue # <<>> /\ reactions["return"] = 0
  BY <1>0, <1>1 DEF FrameInv
<1>3. CASE /\ reactions' = [reactions EXCEPT !["await"] = @ + 1]
           /\ Return
           /\ UNCHANGED body
  <2>1. reactions \in [Kind -> 0..1]
    BY <1>0 DEF TypeOK
  <2>2. reactions'["await"] = 1 /\ reactions'["return"] = 0 /\ reactions' \in [Kind -> 0..1]
    BY <1>1, <1>2, <1>3, <2>1 DEF Kind
  <2>3. stack' = <<>>
    BY <1>1, <1>3 DEF Return
  <2>4. TypeOK'
    BY <1>0, <1>3, <2>2, <2>3, EmptySeq DEF TypeOK
  <2>5. BodyInv'
    BY <1>0, <1>2, <1>3 DEF BodyInv
  <2> QED
    BY <1>0, <1>2, <2>2, <2>3, <2>4, <2>5, ToNone
<1>4. CASE body' = "run" /\ Goto(At("body")) /\ UNCHANGED reactions
  <2>1. At("body") \in Frame /\ At("body").pc = "body" /\ stack' = <<At("body")>>
    BY <1>1, <1>4, Frames DEF Pc, Goto
  <2>2. TypeOK'
    BY <1>0, <1>4, <2>1, FrameType DEF TypeOK, Body
  <2>3. BodyInv'
    <3>1. stack' # <<>> /\ stack'[1].pc = "body"
      BY <2>1
    <3> QED
      BY <1>0, <1>2, <1>4, <3>1 DEF BodyInv, Pending
  <2> QED
    BY <1>0, <1>1, <1>2, <1>4, <2>1, <2>2, <2>3, ToOne
<1> QED
  BY <1>3, <1>4 DEF Awaits

----------------------------------------------------------------------------
(* The promise reactions *)

LEMMA AfterAwaitStep ==
  ASSUME IInv, AfterAwait
  PROVE  IInv'
<1>0. /\ TypeOK /\ FrameInv /\ ReactionInv /\ BodyInv /\ ~failed
      /\ stack = <<>> /\ stack' = <<At("loop")>>
      /\ reactions \in [Kind -> 0..1] /\ reactions["await"] # 0
      /\ UNCHANGED <<state, queue, body, made, settled>>
  <2>1. reactions["await"] # 0
    BY DEF AfterAwait
  <2> QED
    BY <2>1 DEF IInv, AfterAwait, Idle, TypeOK
<1>1. ~Pending("body") /\ ~Pending("return")
  BY <1>0 DEF Pending
<1>2. state = "EXECUTING" /\ reactions["return"] = 0 /\ queue # <<>>
  BY <1>0 DEF ReactionInv
<1>3. body = "await" /\ ~failed'
  BY <1>0, <1>1, <1>2 DEF BodyInv, AfterAwait
<1>4. reactions'["await"] = 0 /\ reactions'["return"] = 0 /\ reactions' \in [Kind -> 0..1]
  <2>1. reactions["await"] = 1
    BY <1>0 DEF ReactionInv
  <2> QED
    BY <1>0, <1>2, <2>1 DEF AfterAwait, Kind
<1>5. At("loop") \in Frame /\ At("loop").pc = "loop"
  BY Frames DEF Pc
<1>6. TypeOK'
  <2>1. failed' \in BOOLEAN
    BY DEF AfterAwait
  <2> QED
    BY <1>0, <1>4, <1>5, <2>1, FrameType DEF TypeOK
<1>7. BodyInv'
  BY <1>0, <1>2, <1>3 DEF BodyInv
<1> QED
  BY <1>0, <1>2, <1>3, <1>4, <1>5, <1>6, <1>7, ToOne

LEMMA AfterReturnStep ==
  ASSUME IInv, AfterReturn
  PROVE  IInv'
<1>0. /\ TypeOK /\ FrameInv /\ ReactionInv /\ BodyInv /\ ~failed
      /\ stack = <<>>
      /\ reactions \in [Kind -> 0..1] /\ reactions["return"] # 0
      /\ UNCHANGED <<body, made>>
  <2>1. reactions["return"] # 0
    BY DEF AfterReturn
  <2> QED
    BY <2>1 DEF IInv, AfterReturn, Idle, TypeOK
<1>1. state = "AWAITING_RETURN" /\ queue # <<>> /\ reactions["await"] = 0
  BY <1>0 DEF ReactionInv
<1>2. /\ state' = "COMPLETED" /\ UNCHANGED failed
      /\ \/ /\ queue' = Pop
            /\ stack' = <<[pc |-> "thenReturn", answers |-> <<Answered("done")>>]>>
            /\ UNCHANGED settled
         \/ Reject(<<>>)
  BY <1>1 DEF AfterReturn, Over
<1>3. reactions'["await"] = 0 /\ reactions'["return"] = 0 /\ reactions' \in [Kind -> 0..1]
  <2>1. reactions["return"] = 1
    BY <1>0 DEF ReactionInv
  <2> QED
    BY <1>0, <1>1, <2>1 DEF AfterReturn, Kind
<1>4. body = "over" /\ BodyInv'
  BY <1>0, <1>1, <1>2 DEF BodyInv
<1>5. Pop \in Seq(Request) /\ \A a \in Answer : Answered(a) \in [id : 1..MaxRequests, with : Answer]
  BY <1>0, <1>1, Popped
<1>6. CASE /\ queue' = Pop
           /\ stack' = <<[pc |-> "thenReturn", answers |-> <<Answered("done")>>]>>
           /\ UNCHANGED settled
  <2> DEFINE f == [pc |-> "thenReturn", answers |-> <<Answered("done")>>]
  <2>1. f \in Frame /\ f.pc = "thenReturn" /\ stack' = <<f>>
    BY <1>5, <1>6, OneFrame DEF Pc, Answer
  <2> HIDE DEF f
  <2>2. TypeOK'
    BY <1>0, <1>2, <1>3, <1>5, <1>6, <2>1, FrameType DEF TypeOK, State
  <2> QED
    BY <1>0, <1>2, <1>3, <1>4, <2>1, <2>2, ToOne
<1>7. CASE Reject(<<>>)
  <2>1. settled' \in Seq([id : 1..MaxRequests, with : Answer])
    BY <1>0, <1>5, <1>7, AppendProperties DEF Reject, TypeOK, Answer
  <2>2. TypeOK'
    BY <1>0, <1>2, <1>3, <1>5, <1>7, <2>1, EmptySeq DEF TypeOK, State, Reject
  <2> QED
    BY <1>0, <1>2, <1>3, <1>4, <1>7, <2>2, ToNone DEF Reject
<1> QED
  BY <1>2, <1>6, <1>7

----------------------------------------------------------------------------
LEMMA Step == ASSUME ~ThenGetter PROVE IInv /\ [Next]_vars => IInv'
<1> SUFFICES ASSUME IInv, [Next]_vars PROVE IInv'
  OBVIOUS
<1>1. CASE UNCHANGED vars
  BY <1>1 DEF vars, IInv, TypeOK, ShapeInv, FrameInv, ReactionInv, BodyInv, Pending
<1> QED
  BY <1>1, CallStep, LoopEndsStep, EnterStep, NeverBeginsStep, ServeCompletedStep,
     AwaitsReturnStep, FulfilStep, AnswersStep, ThrowsStep, AwaitStep, AwaitsStep,
     AfterAwaitStep, AfterReturnStep
     DEF Next, Served, Answers, Silence

LEMMA Inductive == ASSUME ~ThenGetter PROVE Spec => []IInv
  BY InitIInv, Step, PTL DEF Spec

----------------------------------------------------------------------------
(* The order of the answers *)

Reply == [id : 1..MaxRequests, with : Answer]

\* The answers of the one call that may have some
Held == IF stack = <<>> THEN <<>> ELSE stack[1].answers

\* settled, Held and queue hold the requests 1, 2, ..., made in this order.
Numbered(s, h, q, m) ==
  /\ Len(s) + Len(h) + Len(q) = m
  /\ \A i \in 1..Len(s) : s[i].id = i
  /\ \A i \in 1..Len(h) : h[i].id = Len(s) + i
  /\ \A i \in 1..Len(q) : q[i].id = Len(s) + Len(h) + i

OrderInv == Numbered(settled, Held, queue, made)

LEMMA HeldType ==
  ASSUME IInv
  PROVE  /\ Held \in Seq(Reply) /\ settled \in Seq(Reply) /\ queue \in Seq(Request)
         /\ made \in Nat
<1>1. settled \in Seq(Reply) /\ queue \in Seq(Request) /\ made \in Nat
  BY MaxAssumption DEF IInv, TypeOK, Reply
<1>2. CASE stack = <<>>
  BY <1>1, <1>2, EmptySeq DEF Held
<1>3. CASE stack # <<>>
  <2>1. stack[1] \in Frame
    BY <1>3 DEF IInv, TypeOK
  <2>2. stack[1].answers \in Seq(Reply)
    BY <2>1 DEF Frame, Reply
  <2> QED
    BY <1>1, <1>3, <2>2 DEF Held
<1> QED
  BY <1>2, <1>3

\* Only a frame that resolves a request has answers.
LEMMA HeldNothing ==
  ASSUME IInv, \A pc \in {"thenLoop", "thenReturn"} : ~Pending(pc)
  PROVE  Held = <<>>
<1>1. CASE stack = <<>>
  BY <1>1 DEF Held
<1>2. CASE stack # <<>>
  <2>1. stack[1] \in Frame
    BY <1>2 DEF IInv, TypeOK
  <2>2. stack[1] = At(stack[1].pc)
    BY <1>2 DEF IInv, FrameInv, Pending
  <2>3. stack[1].pc \in Pc
    BY <2>1 DEF Frame
  <2>4. stack[1].answers = <<>>
    BY <2>2, <2>3, Frames
  <2> QED
    BY <1>2, <2>4 DEF Held
<1> QED
  BY <1>1, <1>2

LEMMA NoneHeld ==
  ASSUME IInv, stack = <<>> \/ \E pc \in Pc \ {"thenLoop", "thenReturn"} : TopIs(pc)
  PROVE  Held = <<>>
<1>1. ASSUME NEW pc \in Pc \ {"thenLoop", "thenReturn", "loop"}, TopIs(pc)
      PROVE  Held = <<>>
  BY <1>1, TopFacts, HeldNothing
<1>2. ASSUME TopIs("loop")
      PROVE  Held = <<>>
  <2>1. CASE stack = Two
    <3>1. stack # <<>> /\ stack[1].answers = <<>>
      BY <2>1, Frames DEF Two, Pc
    <3> QED
      BY <3>1 DEF Held
  <2>2. ASSUME NEW f \in Frame, stack = <<f>>
        PROVE  Held = <<>>
    <3>1. stack[1].pc = "loop"
      BY <1>2, <2>2, OfOne DEF TopIs
    <3> QED
      BY <3>1, HeldNothing DEF Pending
  <2> QED
    BY <1>2, <2>1, <2>2 DEF IInv, ShapeInv, TopIs
<1> QED
  BY <1>1, <1>2 DEF Held

LEMMA Sums ==
  ASSUME NEW a \in Nat, NEW b \in Nat, NEW c \in Nat, NEW m \in Nat
  PROVE  /\ a + b + c = m => a + b + (c + 1) = m + 1
         /\ a + 0 + b = m => a + b = m
         /\ a + b = m => a + 1 + (b - 1) = m /\ (a + 1) + 0 + (b - 1) = m
  OBVIOUS

\* A request comes.
LEMMA Comes ==
  ASSUME NEW s \in Seq(Reply), NEW h \in Seq(Reply), NEW q \in Seq(Request), NEW m \in Nat,
         Numbered(s, h, q, m), NEW r \in Request, r.id = m + 1
  PROVE  Numbered(s, h, Append(q, r), m + 1)
<1> DEFINE p == Append(q, r)
<1>1. /\ Len(p) = Len(q) + 1 /\ p[Len(q) + 1] = r
      /\ \A i \in 1..Len(q) : p[i] = q[i]
  BY AppendProperties
<1> HIDE DEF p
<1>2. Len(s) \in Nat /\ Len(h) \in Nat /\ Len(q) \in Nat
  OBVIOUS
<1>3. /\ Len(s) + Len(h) + Len(q) = m
      /\ \A i \in 1..Len(q) : q[i].id = Len(s) + Len(h) + i
  BY DEF Numbered
<1>4. \A i \in 1..Len(p) : p[i].id = Len(s) + Len(h) + i
  <2> TAKE i \in 1..Len(p)
  <2>1. CASE i = Len(q) + 1
    <3>1. p[i].id = m + 1
      BY <1>1, <2>1
    <3>2. Len(s) + Len(h) + (Len(q) + 1) = m + 1
      BY <1>2, <1>3, Sums
    <3> QED
      BY <2>1, <3>1, <3>2
  <2>2. CASE i \in 1..Len(q)
    BY <1>1, <1>3, <2>2
  <2> QED
    BY <1>1, <1>2, <2>1, <2>2
<1>5. Len(s) + Len(h) + Len(p) = m + 1
  BY <1>1, <1>2, <1>3
<1>6. Numbered(s, h, p, m + 1)
  BY <1>4, <1>5 DEF Numbered
<1> QED
  BY <1>6 DEF p

\* The first request leaves the queue, to be resolved or settled.
LEMMA Leaves ==
  ASSUME NEW s \in Seq(Reply), NEW q \in Seq(Request), NEW m \in Nat,
         Numbered(s, <<>>, q, m), q # <<>>,
         NEW a \in Reply, a.id = Head(q).id
  PROVE  /\ Numbered(s, <<a>>, Tail(q), m)
         /\ Numbered(Append(s, a), <<>>, Tail(q), m)
<1> DEFINE p == Tail(q)
           t == Append(s, a)
           h == <<a>>
           e == <<>>
<1>1. Len(p) = Len(q) - 1 /\ \A i \in 1..Len(p) : p[i] = q[i + 1]
  BY HeadTailProperties
<1>2. /\ Len(t) = Len(s) + 1 /\ t[Len(s) + 1] = a
      /\ \A i \in 1..Len(s) : t[i] = s[i]
  BY AppendProperties
<1>3. Len(h) = 1 /\ h[1] = a /\ Len(e) = 0
  OBVIOUS
<1>4. Len(s) \in Nat /\ Len(q) \in Nat /\ Len(q) # 0 /\ Head(q) = q[1]
  OBVIOUS
<1>5. /\ Len(s) + 0 + Len(q) = m
      /\ \A i \in 1..Len(s) : s[i].id = i
      /\ \A i \in 1..Len(q) : q[i].id = Len(s) + 0 + i
  BY <1>3 DEF Numbered
<1>6. a.id = Len(s) + 1
  BY <1>4, <1>5
<1>11. Len(s) \in Nat /\ Len(q) \in Nat
  BY <1>4
<1>12. Len(s) + 0 + Len(q) = m
  BY <1>5
<1>13. Len(s) + 1 + (Len(q) - 1) = m /\ (Len(s) + 1) + 0 + (Len(q) - 1) = m
  BY <1>11, <1>12, Sums
<1> HIDE DEF p, t, h, e
<1>7. \A i \in 1..Len(p) : p[i].id = Len(s) + 1 + i
  <2> TAKE i \in 1..Len(p)
  <2>1. i + 1 \in 1..Len(q) /\ p[i] = q[i + 1]
    BY <1>1, <1>4
  <2>2. q[i + 1].id = Len(s) + 0 + (i + 1)
    BY <1>5, <2>1
  <2> QED
    BY <1>4, <2>1, <2>2
<1>8. \A i \in 1..Len(t) : t[i].id = i
  <2> TAKE i \in 1..Len(t)
  <2>1. i = Len(s) + 1 \/ i \in 1..Len(s)
    BY <1>2, <1>4
  <2> QED
    BY <1>2, <1>5, <1>6, <2>1
<1>9. Numbered(s, h, p, m)
  <2>1. Len(s) + Len(h) + Len(p) = m
    BY <1>1, <1>3, <1>13
  <2>2. \A i \in 1..Len(h) : h[i].id = Len(s) + i
    <3>1. \A i \in 1..Len(h) : i = 1
      BY <1>3
    <3> QED
      BY <1>3, <1>6, <3>1
  <2>3. \A i \in 1..Len(p) : p[i].id = Len(s) + Len(h) + i
    BY <1>3, <1>7
  <2> QED
    BY <1>5, <2>1, <2>2, <2>3 DEF Numbered
<1>10. Numbered(t, e, p, m)
  <2>1. Len(t) + Len(e) + Len(p) = m
    BY <1>1, <1>2, <1>3, <1>13
  <2>2. \A i \in 1..Len(e) : e[i].id = Len(t) + i
    BY <1>3
  <2>3. \A i \in 1..Len(p) : p[i].id = Len(t) + Len(e) + i
    <3>1. Len(t) + Len(e) = Len(s) + 1
      BY <1>2, <1>3, <1>4
    <3> QED
      BY <1>7, <3>1
  <2> QED
    BY <1>8, <2>1, <2>2, <2>3 DEF Numbered
<1> QED
  BY <1>9, <1>10 DEF p, t, h, e

\* The answers are settled.
LEMMA Settles ==
  ASSUME NEW s \in Seq(Reply), NEW h \in Seq(Reply), NEW q \in Seq(Request), NEW m \in Nat,
         Numbered(s, h, q, m)
  PROVE  Numbered(s \o h, <<>>, q, m)
<1> DEFINE t == s \o h
           e == <<>>
<1>1. /\ Len(t) = Len(s) + Len(h)
      /\ \A i \in 1..Len(s) + Len(h) : t[i] = IF i <= Len(s) THEN s[i] ELSE h[i - Len(s)]
  BY ConcatProperties
<1>2. Len(e) = 0
  OBVIOUS
<1>3. Len(s) \in Nat /\ Len(h) \in Nat /\ Len(q) \in Nat
  OBVIOUS
<1> HIDE DEF t, e
<1>4. \A i \in 1..Len(t) : t[i].id = i
  <2> TAKE i \in 1..Len(t)
  <2>1. CASE i <= Len(s)
    BY <1>1, <1>3, <2>1 DEF Numbered
  <2>2. CASE i > Len(s)
    <3>1. i - Len(s) \in 1..Len(h) /\ t[i] = h[i - Len(s)]
      BY <1>1, <1>3, <2>2
    <3>2. h[i - Len(s)].id = Len(s) + (i - Len(s))
      BY <3>1 DEF Numbered
    <3> QED
      BY <1>3, <3>1, <3>2
  <2> QED
    BY <1>1, <1>3, <2>1, <2>2
<1> QED
  BY <1>1, <1>2, <1>3, <1>4 DEF Numbered, t, e

LEMMA HeldNext ==
  /\ stack' = <<>> => Held' = <<>>
  /\ \A f : stack' = <<f>> => Held' = f.answers
  /\ \A pc \in Pc : stack' = <<At(pc)>> => Held' = <<>>
<1>1. \A f : stack' = <<f>> => Held' = f.answers
  BY DEF Held
<1> QED
  BY <1>1, Frames DEF Held

\* Steps that answer nobody
LEMMA SameOrder ==
  ASSUME OrderInv, Held = <<>>, Held' = <<>>, UNCHANGED <<settled, queue, made>>
  PROVE  OrderInv'
  BY DEF OrderInv

LEMMA InitOrder == Init => OrderInv
  BY DEF Init, OrderInv, Held, Numbered

LEMMA CallOrder ==
  ASSUME IInv, ~ThenGetter, OrderInv, NEW t \in Magic, Call(t)
  PROVE  OrderInv'
<1> DEFINE r == [id |-> made + 1, type |-> t]
<1>1. /\ Held \in Seq(Reply) /\ settled \in Seq(Reply) /\ queue \in Seq(Request)
      /\ made \in Nat
  BY HeldType
<1>2. r \in Request /\ r.id = made + 1
  BY <1>1, MaxAssumption DEF Call, Request
<1>3. queue' = Append(queue, r) /\ made' = made + 1 /\ settled' = settled
  BY DEF Call
<1> HIDE DEF r
<1>4. Numbered(settled, Held, Append(queue, r), made + 1)
  BY <1>1, <1>2, Comes DEF OrderInv
<1>5. Held' = Held
  <2>1. stack' = stack \/ stack' = Append(stack, At("loop"))
    BY DEF Call
  <2>2. At("loop") \in Frame /\ stack \in Seq(Frame)
    BY Frames DEF IInv, TypeOK, Pc
  <2>3. CASE stack' = stack
    BY <2>3 DEF Held
  <2>4. CASE stack = <<>> /\ stack' = Append(stack, At("loop"))
    <3>1. stack' = <<At("loop")>>
      BY <2>2, <2>4, Pushed
    <3> QED
      BY <2>4, <3>1, HeldNext DEF Held, Pc
  <2>5. CASE stack # <<>> /\ stack' = Append(stack, At("loop"))
    <3>1. stack' # <<>> /\ stack'[1] = stack[1]
      <4>1. 1 \in 1..Len(stack)
        BY <2>2, <2>5
      <4> QED
        BY <2>2, <2>5, <4>1, AppendProperties
    <3> QED
      BY <2>5, <3>1 DEF Held
  <2> QED
    BY <2>1, <2>3, <2>4, <2>5
<1> QED
  BY <1>3, <1>4, <1>5 DEF OrderInv

LEMMA LoopOrder ==
  ASSUME IInv, OrderInv, \/ LoopEnds \/ ResumeAfterAwait \/ ResumeAfterYield \/ NeverBegins
  PROVE  OrderInv'
<1>1. Held = <<>>
  BY NoneHeld DEF LoopEnds, ResumeAfterAwait, ResumeAfterYield, NeverBegins, Serves, Looping, Pc
<1>2. UNCHANGED <<settled, queue, made>>
  BY DEF LoopEnds, ResumeAfterAwait, ResumeAfterYield, NeverBegins, Enter, Complete
<1>3. CASE LoopEnds
  <2>1. CASE stack = Two
    <3>1. stack' = <<At("return")>> /\ "return" \in Pc
      BY <1>3, <2>1, OfTwo DEF LoopEnds, Return, Pc
    <3>2. Held' = <<>>
      BY <3>1, HeldNext
    <3> QED
      BY <1>1, <1>2, <3>2, SameOrder
  <2>2. ASSUME NEW f \in Frame, stack = <<f>>
        PROVE  Held' = <<>>
    BY <1>3, <2>2, OfOne, HeldNext DEF LoopEnds, Return
  <2>3. stack # <<>>
    BY <1>3 DEF LoopEnds, Looping, TopIs
  <2> QED
    BY <1>1, <1>2, <2>1, <2>2, <2>3, SameOrder DEF IInv, ShapeInv
<1>4. CASE ResumeAfterAwait \/ ResumeAfterYield
  <2>1. Looping /\ state # "AWAITING_RETURN" /\ Goto(At("body"))
    BY <1>4 DEF ResumeAfterAwait, ResumeAfterYield, Serves, Enter
  <2>2. stack' = <<At("body")>>
    BY <2>1, LoopFacts, Frames DEF Goto, Pc
  <2> QED
    BY <1>1, <1>2, <2>2, HeldNext, SameOrder DEF Pc
<1>5. CASE NeverBegins
  BY <1>1, <1>2, <1>5, SameOrder DEF NeverBegins, Held
<1> QED
  BY <1>3, <1>4, <1>5

LEMMA ServeOrder ==
  ASSUME IInv, OrderInv, ServeCompleted
  PROVE  OrderInv'
<1>1. Held = <<>>
  BY NoneHeld DEF ServeCompleted, Serves, Looping, Pc
<1>2. /\ settled \in Seq(Reply) /\ queue \in Seq(Request) /\ made \in Nat
      /\ Numbered(settled, <<>>, queue, made)
      /\ queue # <<>> /\ made' = made
  BY <1>1, HeldType DEF OrderInv, ServeCompleted, Serves
<1>3. /\ Below = <<>>
      /\ \A f \in Frame : Append(Below, f) = <<f>>
  BY LoopFacts DEF ServeCompleted, Serves
<1>4. /\ \A a \in Answer : Answered(a) \in Reply /\ Answered(a).id = Head(queue).id
      /\ Pop = Tail(queue)
  BY <1>2, Popped DEF Reply, Answered, Pop, IInv
<1>5. CASE Resolve("done", "thenReturn") /\ UNCHANGED settled
  <2> DEFINE f == [pc |-> "thenReturn", answers |-> <<Answered("done")>>]
  <2>1. f \in Frame /\ f.answers = <<Answered("done")>>
    BY <1>4, OneFrame DEF Reply, Pc, Answer
  <2>2. stack' = <<f>>
    BY <1>3, <1>5, <2>1 DEF Resolve, Goto
  <2> HIDE DEF f
  <2>3. Held' = <<Answered("done")>> /\ queue' = Tail(queue)
    BY <1>4, <1>5, <2>1, <2>2, HeldNext DEF Resolve
  <2> QED
    BY <1>2, <1>4, <1>5, <2>3, Leaves DEF OrderInv, Answer
<1>6. CASE Reject(Below)
  <2>1. Held' = <<>> /\ queue' = Tail(queue) /\ settled' = Append(settled, Answered("error"))
    BY <1>3, <1>4, <1>6, HeldNext DEF Reject
  <2> QED
    BY <1>2, <1>4, <2>1, Leaves DEF OrderInv, Answer
<1>7. CASE Goto(At("return")) /\ UNCHANGED <<queue, settled>>
  <2>1. stack' = <<At("return")>>
    BY <1>3, <1>7, Frames DEF Goto, Pc
  <2> QED
    BY <1>1, <1>2, <1>7, <2>1, HeldNext, SameOrder DEF Pc
<1> QED
  BY <1>5, <1>6, <1>7 DEF ServeCompleted

LEMMA PlaceOrder ==
  ASSUME IInv, OrderInv, AwaitsReturn \/ Await \/ Awaits \/ AfterAwait
  PROVE  OrderInv'
<1>1. UNCHANGED <<settled, queue, made>>
  BY DEF AwaitsReturn, Await, Awaits, AfterAwait
<1>2. Held = <<>>
  BY NoneHeld DEF AwaitsReturn, Await, Awaits, AfterAwait, InBody, Idle, Pc
<1>3. ASSUME AwaitsReturn \/ Await \/ Awaits
      PROVE  Below = <<>> /\ \A f \in Frame : Append(Below, f) = <<f>>
  BY <1>3, TopFacts DEF AwaitsReturn, Await, Awaits, InBody, Pc
<1>4. \/ stack' = <<>>
      \/ \E pc \in {"await", "body", "loop"} : stack' = <<At(pc)>>
  <2>1. \A pc \in {"await", "body", "loop"} : At(pc) \in Frame
    BY Frames DEF Pc
  <2>2. CASE AwaitsReturn
    BY <1>3, <2>2 DEF AwaitsReturn, Return
  <2>3. CASE Await
    BY <1>3, <2>1, <2>3 DEF Await, Goto
  <2>4. CASE Awaits
    BY <1>3, <2>1, <2>4 DEF Awaits, Goto, Return
  <2>5. CASE AfterAwait
    BY <2>5 DEF AfterAwait
  <2> QED
    BY <2>2, <2>3, <2>4, <2>5
<1>5. Held' = <<>>
  BY <1>4, HeldNext DEF Pc
<1> QED
  BY <1>1, <1>2, <1>5, SameOrder

LEMMA FulfilOrder ==
  ASSUME IInv, OrderInv, Fulfil
  PROVE  OrderInv'
<1>1. PICK pc \in {"thenLoop", "thenReturn"} : TopIs(pc)
  BY DEF Fulfil
<1>2. /\ stack # <<>> /\ Below = <<>> /\ Top = stack[1] /\ Top.pc = pc
      /\ \A f \in Frame : Append(Below, f) = <<f>>
  BY <1>1, TopFacts DEF Pc
<1>3. settled' = settled \o Held /\ UNCHANGED <<queue, made>>
  BY <1>2 DEF Fulfil, Held
<1>4. stack' = <<>> \/ stack' = <<At("loop")>>
  BY <1>2, Frames DEF Fulfil, Goto, Return, Pc
<1>5. Held' = <<>>
  BY <1>4, HeldNext DEF Pc
<1>6. Numbered(settled \o Held, <<>>, queue, made)
  BY HeldType, Settles DEF OrderInv
<1> QED
  BY <1>3, <1>5, <1>6 DEF OrderInv

LEMMA AnswersOrder ==
  ASSUME IInv, OrderInv, Answers \/ AfterReturn
  PROVE  OrderInv'
<1>1. Held = <<>>
  BY NoneHeld DEF Answers, Yield, Ends, Throws, InBody, AfterReturn, Idle, Pc
<1>2. queue # <<>> /\ (Answers => \A f \in Frame : Append(Below, f) = <<f>>)
  <2>1. CASE Answers
    <3>1. InBody
      BY <2>1 DEF Answers, Yield, Ends, Throws
    <3> QED
      BY <3>1, BodyFacts
  <2>2. CASE AfterReturn /\ ~Answers
    <3>1. stack = <<>> /\ reactions["return"] # 0
      <4>1. reactions["return"] # 0
        BY <2>2 DEF IInv, TypeOK, Kind, AfterReturn
      <4> QED
        BY <2>2, <4>1 DEF AfterReturn, Idle
    <3>2. state = "AWAITING_RETURN"
      BY <3>1 DEF IInv, ReactionInv
    <3> QED
      BY <2>2, <3>2 DEF IInv, ReactionInv
  <2> QED
    BY <2>1, <2>2
<1>3. /\ settled \in Seq(Reply) /\ queue \in Seq(Request) /\ made \in Nat
      /\ Numbered(settled, <<>>, queue, made)
      /\ made' = made
  BY <1>1, HeldType DEF OrderInv, Answers, Yield, Ends, Throws, AfterReturn
<1>4. /\ \A a \in Answer : Answered(a) \in Reply /\ Answered(a).id = Head(queue).id
      /\ Pop = Tail(queue)
  BY <1>2, Popped DEF Reply, Answered, Pop, IInv
<1>5. ASSUME NEW a \in Answer, NEW pc \in Pc, queue' = Pop, UNCHANGED settled,
             stack' = <<[pc |-> pc, answers |-> <<Answered(a)>>]>>
      PROVE  OrderInv'
  <2>1. Held' = <<Answered(a)>> /\ queue' = Tail(queue)
    BY <1>4, <1>5, HeldNext
  <2> QED
    BY <1>3, <1>2, <1>4, <1>5, <2>1, Leaves DEF OrderInv
<1>6. ASSUME queue' = Pop, settled' = Append(settled, Answered("error")),
             stack' = <<>> \/ stack' = <<At("loop")>>
      PROVE  OrderInv'
  <2>1. Held' = <<>> /\ queue' = Tail(queue)
    BY <1>4, <1>6, HeldNext DEF Pc
  <2> QED
    BY <1>2, <1>3, <1>4, <1>6, <2>1, Leaves DEF OrderInv, Answer
<1>7. CASE Answers
  <2>1. ASSUME NEW a \in Answer, Resolve(a, "thenLoop"), UNCHANGED settled
        PROVE  OrderInv'
    <3>1. [pc |-> "thenLoop", answers |-> <<Answered(a)>>] \in Frame
      BY <1>4, OneFrame DEF Reply, Pc
    <3>2. stack' = <<[pc |-> "thenLoop", answers |-> <<Answered(a)>>]>> /\ queue' = Pop
      BY <1>2, <1>7, <2>1, <3>1 DEF Resolve, Goto
    <3> QED
      BY <1>5, <2>1, <3>2 DEF Pc
  <2>2. CASE Throws
    <3>1. stack' = <<At("loop")>>
      BY <1>2, <1>7, <2>2, Frames DEF Throws, Reject, Pc
    <3> QED
      BY <1>6, <2>2, <3>1 DEF Throws, Reject
  <2> QED
    BY <1>7, <2>1, <2>2 DEF Answers, Yield, Ends, Answer
<1>8. CASE AfterReturn /\ queue' = Pop
  <2>1. \/ UNCHANGED settled /\ stack' = <<[pc |-> "thenReturn", answers |-> <<Answered("done")>>]>>
        \/ Reject(<<>>)
    <3>1. stack = <<>> /\ reactions["return"] # 0
      <4>1. reactions["return"] # 0
        BY <1>8 DEF IInv, TypeOK, Kind, AfterReturn
      <4> QED
        BY <1>8, <4>1 DEF AfterReturn, Idle
    <3>2. state = "AWAITING_RETURN"
      BY <3>1 DEF IInv, ReactionInv
    <3> QED
      BY <1>2, <1>8, <3>2 DEF AfterReturn
  <2> QED
    BY <1>5, <1>6, <1>8, <2>1 DEF Reject, Pc, Answer
<1>9. AfterReturn => queue' = Pop
  <2>1. ASSUME AfterReturn
        PROVE  state = "AWAITING_RETURN"
    <3>1. reactions["return"] # 0 /\ stack = <<>>
      <4>1. reactions["return"] # 0
        BY <2>1 DEF IInv, TypeOK, Kind, AfterReturn
      <4> QED
        BY <2>1, <4>1 DEF AfterReturn, Idle
    <3> QED
      BY <3>1 DEF IInv, ReactionInv
  <2> QED
    BY <1>2, <2>1 DEF AfterReturn, Reject
<1> QED
  BY <1>7, <1>8, <1>9

LEMMA OrderStep == ASSUME ~ThenGetter PROVE IInv /\ OrderInv /\ [Next]_vars => OrderInv'
<1> SUFFICES ASSUME IInv, OrderInv, [Next]_vars PROVE OrderInv'
  OBVIOUS
<1>1. CASE UNCHANGED vars
  BY <1>1 DEF vars, OrderInv, Held
<1> QED
  BY <1>1, CallOrder, LoopOrder, ServeOrder, PlaceOrder, FulfilOrder, AnswersOrder
     DEF Next, Served, Silence

----------------------------------------------------------------------------
(* The answers of all calls are those of the one that may have some *)

\* FlattenSeq of one or two sequences
LEMMA Flattened ==
  ASSUME NEW S, NEW s \in Seq(Seq(S)), Len(s) \in {1, 2}
  PROVE  FlattenSeq(s) = IF Len(s) = 1 THEN s[1] ELSE s[1] \o s[2]
<1>0. /\ Len(s) = 1 \/ Len(s) = 2
      /\ \A i \in 1..Len(s) : i = 1 \/ i = 2
  <2>1. Len(s) = 1 \/ Len(s) = 2
    OBVIOUS
  <2>2. \A i \in 1..Len(s) : i = 1 \/ i = 2
    <3>1. CASE Len(s) = 1
      BY <3>1
    <3>2. CASE Len(s) = 2
      BY <3>2
    <3> QED
      BY <2>1, <3>1, <3>2
  <2> QED
    BY <2>1, <2>2
<1> DEFINE Def(h) == h = [i \in 1..Len(s) |-> IF i = 1 THEN s[i] ELSE h[i - 1] \o s[i]]
           flatten == CHOOSE h : Def(h)
           g == [i \in 1..Len(s) |-> IF i = 1 THEN s[1] ELSE s[1] \o s[2]]
<1>1. Def(g)
  <2>2. \A i \in 1..Len(s) : g[i] = IF i = 1 THEN s[i] ELSE g[i - 1] \o s[i]
    BY <1>0
  <2> QED
    BY <2>2
<1> HIDE DEF g
<1>2. \E h : Def(h)
  BY <1>1
<1> HIDE DEF Def
<1>3. Def(flatten)
  BY <1>2
<1>4. FlattenSeq(s) = flatten[Len(s)]
  BY DEF FlattenSeq, Def
<1> HIDE DEF flatten
<1>5. flatten = [i \in 1..Len(s) |-> IF i = 1 THEN s[i] ELSE flatten[i - 1] \o s[i]]
  BY <1>3 DEF Def
<1>6. \A i \in 1..Len(s) : flatten[i] = IF i = 1 THEN s[i] ELSE flatten[i - 1] \o s[i]
  BY <1>5
<1>7. CASE Len(s) = 1
  BY <1>4, <1>6, <1>7
<1>8. CASE Len(s) = 2
  <2>1. 1 \in 1..Len(s) /\ 2 \in 1..Len(s) /\ 2 - 1 = 1 /\ 2 # 1
    BY <1>8
  <2>2. flatten[2] = flatten[2 - 1] \o s[2]
    BY <1>6, <2>1
  <2>3. flatten[1] = s[1]
    BY <1>6, <2>1
  <2>4. flatten[2] = s[1] \o s[2]
    BY <2>1, <2>2, <2>3
  <2> QED
    BY <1>4, <1>8, <2>4, Len(s) # 1
<1> QED
  BY <1>0, <1>7, <1>8

LEMMA FunctionSeq ==
  ASSUME NEW R, NEW k \in Nat, NEW f \in [1..k -> R]
  PROVE  f \in Seq(R) /\ Len(f) = k
  OBVIOUS

LEMMA AnsweringHeld ==
  ASSUME IInv
  PROVE  Answering = Held
<1> DEFINE s == [i \in DOMAIN stack |-> stack[i].answers]
<1>1. Answering = FlattenSeq(s)
  BY DEF Answering
<1>2. \A f \in Frame : f.answers \in Seq(Reply)
  BY DEF Frame, Reply
<1>3. CASE stack = <<>>
  <2>1. s = <<>>
    BY <1>3
  <2> HIDE DEF s
  <2>2. Len(s) = 0
    BY <2>1
  <2> QED
    BY <1>1, <1>3, <2>1, <2>2 DEF FlattenSeq, Held
<1>4. ASSUME NEW f \in Frame, stack = <<f>>
      PROVE  Answering = Held
  <2>1. /\ DOMAIN stack = 1..1 /\ stack[1] = f /\ stack # <<>>
    BY <1>4
  <2>2. s \in [1..1 -> Seq(Reply)] /\ s[1] = f.answers
    BY <1>2, <2>1
  <2> HIDE DEF s
  <2>3. s \in Seq(Seq(Reply)) /\ Len(s) = 1
    BY <2>2, FunctionSeq
  <2>4. FlattenSeq(s) = s[1]
    BY <2>3, Flattened
  <2> QED
    BY <1>1, <2>1, <2>2, <2>4 DEF Held
<1>5. CASE stack = Two
  <2>1. /\ DOMAIN stack = 1..2 /\ stack # <<>>
        /\ stack[1].answers = <<>> /\ stack[2].answers = <<>>
    BY <1>5, Frames DEF Two, Pc
  <2>2. \A i \in 1..2 : i = 1 \/ i = 2
    OBVIOUS
  <2>7. <<>> \in Seq(Reply)
    OBVIOUS
  <2>8. \A i \in 1..2 : s[i] = <<>>
    BY <2>1, <2>2
  <2>9. s = [i \in 1..2 |-> <<>>]
    BY <2>1, <2>2
  <2> HIDE DEF s
  <2>3. s \in [1..2 -> Seq(Reply)] /\ s[1] = <<>> /\ s[2] = <<>>
    BY <2>7, <2>9
  <2>4. s \in Seq(Seq(Reply)) /\ Len(s) = 2
    BY <2>3, FunctionSeq
  <2>5. FlattenSeq(s) = s[1] \o s[2]
    BY <2>4, Flattened, Len(s) # 1
  <2>6. <<>> \o <<>> = <<>>
    OBVIOUS
  <2> QED
    BY <1>1, <2>1, <2>3, <2>5, <2>6 DEF Held
<1> QED
  BY <1>3, <1>4, <1>5 DEF IInv, ShapeInv

LEMMA IdsType ==
  ASSUME NEW R, NEW s \in Seq(R), \A r \in R : r.id \in Nat
  PROVE  /\ Ids(s) \in Seq(Nat) /\ Len(Ids(s)) = Len(s)
         /\ \A i \in 1..Len(s) : Ids(s)[i] = s[i].id
<1>1. DOMAIN s = 1..Len(s) /\ Len(s) \in Nat /\ \A i \in 1..Len(s) : s[i] \in R
  OBVIOUS
<1> DEFINE d == [i \in 1..Len(s) |-> s[i].id]
<1>2. d \in [1..Len(s) -> Nat]
  BY <1>1
<1>3. Ids(s) = d
  BY <1>1 DEF Ids
<1> HIDE DEF d
<1>4. d \in Seq(Nat) /\ Len(d) = Len(s)
  BY <1>1, <1>2, FunctionSeq
<1> QED
  BY <1>3, <1>4 DEF d

LEMMA Joined ==
  ASSUME NEW R, NEW x \in Seq(R), NEW y \in Seq(R), NEW z, z = x \o y
  PROVE  /\ z \in Seq(R) /\ Len(z) = Len(x) + Len(y)
         /\ \A i \in 1..Len(x) + Len(y) : z[i] = IF i <= Len(x) THEN x[i] ELSE y[i - Len(x)]
  BY ConcatProperties

LEMMA InOrder ==
  ASSUME IInv, OrderInv
  PROVE  AnsweredInOrder
<1> DEFINE s == settled
           h == Held
           q == queue
           a == Ids(s)
           b == Ids(h)
           c == Ids(q)
           t == a \o b
           u == t \o c
           v == [i \in 1..made |-> i]
<1>1. /\ h \in Seq(Reply) /\ s \in Seq(Reply) /\ q \in Seq(Request) /\ made \in Nat
      /\ Numbered(s, h, q, made)
  BY HeldType DEF OrderInv
<1>2. (\A r \in Reply : r.id \in Nat) /\ (\A r \in Request : r.id \in Nat)
  BY MaxAssumption DEF Reply, Request
<1> HIDE DEF s, h, q
<1>0. PICK N : N = Nat
  OBVIOUS
<1>3. /\ a \in Seq(N) /\ Len(a) = Len(s) /\ \A i \in 1..Len(s) : a[i] = s[i].id
      /\ b \in Seq(N) /\ Len(b) = Len(h) /\ \A i \in 1..Len(h) : b[i] = h[i].id
  BY <1>0, <1>1, <1>2, IdsType
<1>4. c \in Seq(N) /\ Len(c) = Len(q) /\ \A i \in 1..Len(q) : c[i] = q[i].id
  BY <1>0, <1>1, <1>2, IdsType
<1> HIDE DEF a, b, c
<1>5. /\ t \in Seq(N) /\ Len(t) = Len(a) + Len(b)
      /\ \A i \in 1..Len(a) + Len(b) : t[i] = IF i <= Len(a) THEN a[i] ELSE b[i - Len(a)]
  <2>1. t = a \o b
    OBVIOUS
  <2> HIDE DEF t
  <2>2. a \in Seq(N) /\ b \in Seq(N)
    BY <1>3
  <2> QED
    BY <2>1, <2>2, Joined
<1> HIDE DEF t
<1>6. /\ u \in Seq(N) /\ Len(u) = Len(t) + Len(c)
      /\ \A i \in 1..Len(t) + Len(c) : u[i] = IF i <= Len(t) THEN t[i] ELSE c[i - Len(t)]
  <2>1. u = t \o c
    OBVIOUS
  <2> HIDE DEF u
  <2>2. t \in Seq(N) /\ c \in Seq(N)
    BY <1>4, <1>5
  <2> QED
    BY <2>1, <2>2, Joined
<1> HIDE DEF u
<1>7. v \in Seq(N) /\ Len(v) = made /\ \A i \in 1..made : v[i] = i
  <2>1. v \in [1..made -> Nat] /\ \A i \in 1..made : v[i] = i
    BY <1>1
  <2> QED
    BY <1>0, <1>1, <2>1, FunctionSeq
<1> HIDE DEF v
<1>8. /\ Len(s) + Len(h) + Len(q) = made
      /\ \A i \in 1..Len(s) : s[i].id = i
      /\ \A i \in 1..Len(h) : h[i].id = Len(s) + i
      /\ \A i \in 1..Len(q) : q[i].id = Len(s) + Len(h) + i
  BY <1>1 DEF Numbered
<1>9. Len(s) \in Nat /\ Len(h) \in Nat /\ Len(q) \in Nat
  BY <1>1
<1>10. \A i \in 1..Len(s) + Len(h) : t[i] = i
  <2> TAKE i \in 1..Len(s) + Len(h)
  <2>1. CASE i <= Len(s)
    <3>1. i \in 1..Len(s) /\ t[i] = a[i]
      BY <1>3, <1>5, <1>9, <2>1
    <3> QED
      BY <1>3, <1>8, <3>1
  <2>2. CASE i > Len(s)
    <3>1. i - Len(s) \in 1..Len(h) /\ t[i] = b[i - Len(s)]
      BY <1>3, <1>5, <1>9, <2>2
    <3>2. b[i - Len(s)] = Len(s) + (i - Len(s))
      BY <1>3, <1>8, <3>1
    <3> QED
      BY <1>9, <3>1, <3>2
  <2> QED
    BY <1>9, <2>1, <2>2
<1>11. Len(u) = made
  BY <1>3, <1>4, <1>5, <1>6, <1>8
<1>12. \A i \in 1..made : u[i] = i
  <2> TAKE i \in 1..made
  <2>1. CASE i <= Len(s) + Len(h)
    BY <1>3, <1>5, <1>6, <1>9, <1>10, <1>11, <2>1
  <2>2. CASE i > Len(s) + Len(h)
    <3> DEFINE j == i - (Len(s) + Len(h))
    <3>1. j \in 1..Len(q) /\ Len(t) = Len(s) + Len(h) /\ i = Len(s) + Len(h) + j
      BY <1>3, <1>5, <1>8, <1>9, <2>2
    <3>2. u[i] = c[j]
      BY <1>6, <1>11, <2>2, <3>1
    <3> HIDE DEF j
    <3>3. c[j] = Len(s) + Len(h) + j
      BY <1>4, <1>8, <3>1
    <3> QED
      BY <3>1, <3>2, <3>3
  <2> QED
    BY <1>9, <2>1, <2>2
<1>13. u = v
  BY <1>6, <1>7, <1>11, <1>12, SeqEqual
<1> QED
  BY <1>13, AnsweringHeld DEF AnsweredInOrder, u, v, t, a, b, c, s, h, q

\* Requests are answered in the order of the calls, each at most once, and none
\* is dropped on the way.
THEOREM Ordered == ASSUME ~ThenGetter PROVE Spec => []QueueInv
<1>1. IInv /\ OrderInv => QueueInv
  BY InOrder DEF IInv, QueueInv
<1> QED
  BY InitOrder, InitIInv, Step, OrderStep, <1>1, PTL DEF Spec

\* A reaction finds the generator in the state it left it in, and a function that
\* is over is never entered, unless the program defines the getter "then".
THEOREM NoFailure == ASSUME ~ThenGetter PROVE Spec => []NoAssertFails
<1>1. IInv => NoAssertFails
  BY DEF IInv, NoAssertFails
<1> QED
  BY Inductive, <1>1, PTL

\* A function that awaits is resumed by the reaction of its await only.
THEOREM AwaitLeftAlone == ASSUME ~ThenGetter PROVE Spec => []AwaitUndisturbed
<1>1. ASSUME IInv
      PROVE  AwaitUndisturbed
  <2>1. TypeOK /\ ShapeInv /\ FrameInv /\ ReactionInv /\ BodyInv
    BY <1>1 DEF IInv
  <2>2. ASSUME reactions["await"] = 1
        PROVE  body = "await" /\ stack = <<>> /\ queue # <<>>
    BY <2>1, <2>2 DEF ReactionInv, BodyInv, Pending
  <2>3. ASSUME body = "await"
        PROVE  reactions["await"] = 1 \/ TopIs("await") \/ stack = <<At("loop")>>
    <3>1. state = "EXECUTING"
      BY <2>1, <2>3 DEF BodyInv
    <3>2. CASE stack = <<>>
      BY <2>1, <3>1, <3>2 DEF ReactionInv
    <3>3. CASE stack = Two
      BY <2>1, <3>1, <3>3, OfTwo, Frames DEF FrameInv, Pending, Two, Pc
    <3>4. ASSUME NEW f \in Frame, stack = <<f>>
          PROVE  TopIs("await") \/ stack = <<At("loop")>>
      <4>1. stack # <<>> /\ stack[1] = f /\ Top = f
        BY <3>4, OfOne
      <4>2. f.pc \in {"await", "loop"}
        BY <2>1, <2>3, <3>1, <4>1 DEF FrameInv, Pending, Frame, Pc
      <4>3. f.pc = "loop" => f = At("loop")
        BY <2>1, <4>1 DEF FrameInv
      <4> QED
        BY <3>4, <4>1, <4>2, <4>3 DEF TopIs
    <3> QED
      BY <2>1, <3>2, <3>3, <3>4 DEF ShapeInv
  <2> QED
    BY <2>2, <2>3 DEF AwaitUndisturbed
<1> QED
  BY Inductive, <1>1, PTL
=============================================================================
