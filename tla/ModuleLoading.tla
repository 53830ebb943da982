---------------------------- MODULE ModuleLoading ----------------------------
(***************************************************************************)
(* ECMAScript modules in quickjs.c: js_link_module and js_evaluate_module  *)
(* walk the graph of requested modules depth first and find its cycles     *)
(* with Tarjan's algorithm; a module with a top-level await goes on after  *)
(* js_evaluate_module has returned, and when it ends                       *)
(* js_async_module_execution_fulfilled / _rejected run, or fail, whatever  *)
(* was waiting for it.                                                     *)
(*                                                                         *)
(* The C recursion is the variable calls, one action per step of the       *)
(* recursive functions.  Jobs of the event loop start when calls is empty, *)
(* as JavaScript runs to completion.  Running out of memory or stack is    *)
(* left out, and so is the resolution of names: a module whose imports do  *)
(* not resolve is in the set broken.                                       *)
(***************************************************************************)
EXTENDS Integers, Sequences, FiniteSets, Functions

CONSTANTS Module,
          None,     \* NULL
          Graphs,   \* the functions req to explore: what each module requests
          Breaks    \* the sets broken to explore

ASSUME NoneAssumption   == None \notin Module
ASSUME GraphsAssumption == Graphs \subseteq [Module -> Seq(Module)]
ASSUME BreaksAssumption == Breaks \subseteq SUBSET Module

VARIABLES
  req,                  \* req_module_entries, in their order
  has_tla,              \* the modules whose code contains await
  broken,               \* the modules whose imports do not resolve
  phase,                \* the C function at the bottom of calls
  root,                 \* the module it was called for
  calls,                \* its recursion: [mod, next entry], innermost first
  stack,                \* the list through stack_prev, top first
  index,                \* the argument index
  status, dfs_index, dfs_ancestor_index, cycle_root,
  async_evaluation, async_evaluation_timestamp,
  pending_async_dependencies, async_parent_modules,
  eval_has_exception, promise,
  next_timestamp,       \* rt->module_async_evaluation_next_timestamp
  exec_list,
  body,                 \* the call of func_obj: an async function
  ran                   \* history: the modules in the order their code started

files   == <<req, has_tla, broken>>
walk    == <<phase, root, calls, stack, index>>
dfs     == <<dfs_index, dfs_ancestor_index>>
waits   == <<async_evaluation, async_evaluation_timestamp,
             pending_async_dependencies, async_parent_modules, next_timestamp>>
runs    == <<body, ran>>
vars == <<files, walk, dfs, status, cycle_root, waits, eval_has_exception,
          promise, exec_list, runs>>

Status == {"UNLINKED", "LINKING", "LINKED", "EVALUATING", "EVALUATING_ASYNC",
           "EVALUATED"}
Ended  == {"EVALUATING_ASYNC", "EVALUATED"}   \* popped from the stack
Frame  == [mod : Module, next : Nat]

TypeOK ==
  /\ req \in [Module -> Seq(Module)]
  /\ has_tla \subseteq Module
  /\ broken \subseteq Module
  /\ phase \in {"idle", "link", "evaluate", "gather", "exec", "reject"}
  /\ root \in Module \cup {None}
  /\ calls \in Seq(Frame)
  /\ stack \in Seq(Module)
  /\ index \in Nat
  /\ status \in [Module -> Status]
  /\ dfs_index \in [Module -> Nat]
  /\ dfs_ancestor_index \in [Module -> Nat]
  /\ cycle_root \in [Module -> Module \cup {None}]
  /\ async_evaluation \in [Module -> BOOLEAN]
  /\ async_evaluation_timestamp \in [Module -> Nat]
  /\ pending_async_dependencies \in [Module -> Int]
  /\ async_parent_modules \in [Module -> Seq(Module)]
  /\ eval_has_exception \in [Module -> BOOLEAN]
  /\ promise \in [Module -> {"none", "pending", "fulfilled", "rejected"}]
  /\ next_timestamp \in Nat
  /\ exec_list \subseteq Module
  /\ body \in [Module -> {"unrun", "running", "done", "threw"}]
  /\ ran \in Seq(Module)

Init ==
  /\ req \in Graphs
  /\ has_tla \in SUBSET Module
  /\ broken \in Breaks
  /\ phase = "idle"
  /\ root = None
  /\ calls = <<>>
  /\ stack = <<>>
  /\ index = 0
  /\ status = [m \in Module |-> "UNLINKED"]
  /\ dfs_index = [m \in Module |-> 0]
  /\ dfs_ancestor_index = [m \in Module |-> 0]
  /\ cycle_root = [m \in Module |-> None]
  /\ async_evaluation = [m \in Module |-> FALSE]
  /\ async_evaluation_timestamp = [m \in Module |-> 0]
  /\ pending_async_dependencies = [m \in Module |-> 0]
  /\ async_parent_modules = [m \in Module |-> <<>>]
  /\ eval_has_exception = [m \in Module |-> FALSE]
  /\ promise = [m \in Module |-> "none"]
  /\ next_timestamp = 0
  /\ exec_list = {}
  /\ body = [m \in Module |-> "unrun"]
  /\ ran = <<>>

-----------------------------------------------------------------------------
(* The walk: what js_inner_module_linking and js_inner_module_evaluation   *)
(* have in common.                                                         *)

Min2(a, b) == IF a <= b THEN a ELSE b

This == Head(calls).mod
Next1 == Head(calls).next
AllRequired == calls # <<>> /\ Next1 > Len(req[This])
\* The module the innermost call is about to be made for
Callee == IF calls = <<>> THEN root ELSE req[This][Next1]
Advance(cs) == <<[Head(cs) EXCEPT !.next = @ + 1]>> \o Tail(cs)

\* Push m on the stack and call the function for it.
Enter(m, s) ==
  /\ status' = [status EXCEPT ![m] = s]
  /\ dfs_index' = [dfs_index EXCEPT ![m] = index]
  /\ dfs_ancestor_index' = [dfs_ancestor_index EXCEPT ![m] = index]
  /\ index' = index + 1
  /\ stack' = <<m>> \o stack
  /\ calls' = <<[mod |-> m, next |-> 1]>> \o calls
  /\ UNCHANGED <<phase, root>>

\* A required module that is on the stack makes m part of its cycle.
Join(m, m1, s) ==
  dfs_ancestor_index' =
    IF status[m1] = s
    THEN [dfs_ancestor_index EXCEPT ![m] = Min2(@, dfs_ancestor_index[m1])]
    ELSE dfs_ancestor_index

\* The modules popped when the call for m ends: those above m, and m, when m
\* is the first of its cycle.
Position(m) == CHOOSE i \in DOMAIN stack : stack[i] = m
Popped(m) ==
  IF dfs_index[m] = dfs_ancestor_index[m]
  THEN {stack[i] : i \in 1..Position(m)} ELSE {}
Pop(m) ==
  stack' = IF dfs_index[m] = dfs_ancestor_index[m]
           THEN SubSeq(stack, Position(m) + 1, Len(stack)) ELSE stack

\* The third argument of the outermost call
FirstIndex == 0

Idle == phase' = "idle" /\ root' = None

-----------------------------------------------------------------------------
(* js_link_module *)

\* JS_EvalFunctionInternal for a module that an import() job or the command
\* line has loaded; its first call is js_link_module.
Import(m) ==
  /\ phase = "idle"
  /\ phase' = "link"
  /\ root' = m
  /\ index' = FirstIndex
  /\ UNCHANGED <<files, calls, stack, status, dfs, cycle_root, waits,
                 eval_has_exception, promise, exec_list, runs>>

LinkEnter ==
  /\ phase = "link" /\ ~AllRequired
  /\ status[Callee] = "UNLINKED"
  /\ Enter(Callee, "LINKING")
  /\ UNCHANGED <<files, cycle_root, waits, eval_has_exception, promise,
                 exec_list, runs>>

LinkRequired ==
  /\ phase = "link" /\ calls # <<>> /\ ~AllRequired
  /\ status[Callee] # "UNLINKED"
  /\ Join(This, Callee, "LINKING")
  /\ calls' = Advance(calls)
  /\ UNCHANGED <<files, phase, root, stack, index, status, dfs_index, cycle_root,
                 waits, eval_has_exception, promise, exec_list, runs>>

LinkDone ==
  /\ phase = "link" /\ AllRequired
  /\ This \notin broken
  /\ status' = [m \in Module |-> IF m \in Popped(This) THEN "LINKED" ELSE status[m]]
  /\ Pop(This)
  /\ calls' = Tail(calls)
  /\ UNCHANGED <<files, phase, root, index, dfs, cycle_root, waits,
                 eval_has_exception, promise, exec_list, runs>>

\* A name does not resolve: -1 through all calls, and js_link_module takes
\* back what is still on the stack.
LinkFail ==
  /\ phase = "link" /\ AllRequired
  /\ This \in broken
  /\ status' = [m \in Module |-> IF m \in Range(stack) THEN "UNLINKED" ELSE status[m]]
  /\ stack' = <<>>
  /\ calls' = <<>>
  /\ Idle
  /\ UNCHANGED <<files, index, dfs, cycle_root, waits, eval_has_exception,
                 promise, exec_list, runs>>

-----------------------------------------------------------------------------
(* js_evaluate_module *)

Settle(m, outcome) ==
  promise' = IF promise[m] = "none" THEN promise
             ELSE [promise EXCEPT ![m] = outcome]

\* js_async_function_call of the module's code
Run(m, outcome) ==
  /\ body' = [body EXCEPT ![m] = outcome]
  /\ ran' = Append(ran, m)

\* The module whose promise js_evaluate_module returns
PromiseModuleBug(m) == m
PromiseModule(m) == IF status[m] \in Ended THEN cycle_root[m] ELSE m

\* Linked: js_evaluate_module up to its call of js_inner_module_evaluation.
EvaluateModule ==
  LET m == PromiseModule(root)
  IN /\ phase = "link" /\ calls = <<>>
     /\ status[root] # "UNLINKED"
     /\ IF promise[m] # "none"
        THEN Idle /\ UNCHANGED <<promise, index>>
        ELSE /\ promise' = [promise EXCEPT ![m] = "pending"]
             /\ phase' = "evaluate"
             /\ root' = m
             /\ index' = FirstIndex
     /\ UNCHANGED <<files, calls, stack, status, dfs, cycle_root, waits,
                    eval_has_exception, exec_list, runs>>

EvalEnter ==
  /\ phase = "evaluate" /\ ~AllRequired
  /\ status[Callee] = "LINKED"
  /\ Enter(Callee, "EVALUATING")
  /\ pending_async_dependencies' = [pending_async_dependencies EXCEPT ![Callee] = 0]
  /\ UNCHANGED <<files, cycle_root, async_evaluation, async_evaluation_timestamp,
                 async_parent_modules, next_timestamp, eval_has_exception,
                 promise, exec_list, runs>>

\* The module to look at, and wait for, when m1 was required
Representative(m1) == IF status[m1] = "EVALUATING" THEN m1 ELSE cycle_root[m1]

\* The required module has failed: seen at its own entry or at its cycle's root.
CalleeFailed ==
  /\ status[Callee] \in Ended
  /\ \/ eval_has_exception[Callee]
     \/ calls # <<>> /\ eval_has_exception[cycle_root[Callee]]

EvalRequired ==
  LET m1 == Representative(Callee)
  IN /\ phase = "evaluate" /\ calls # <<>> /\ ~AllRequired
     /\ status[Callee] # "LINKED"
     /\ ~CalleeFailed
     /\ Join(This, Callee, "EVALUATING")
     /\ IF async_evaluation[m1]
        THEN /\ pending_async_dependencies' =
                  [pending_async_dependencies EXCEPT ![This] = @ + 1]
             /\ async_parent_modules' =
                  [async_parent_modules EXCEPT ![m1] = Append(@, This)]
        ELSE UNCHANGED <<pending_async_dependencies, async_parent_modules>>
     /\ calls' = Advance(calls)
     /\ UNCHANGED <<files, phase, root, stack, index, status, dfs_index,
                    cycle_root, async_evaluation, async_evaluation_timestamp,
                    next_timestamp, eval_has_exception, promise, exec_list, runs>>

\* -1 through all calls: js_evaluate_module fails what is still on the stack
\* and its own module's promise.
Unwind ==
  /\ status' = [m \in Module |-> IF m \in Range(stack) THEN "EVALUATED" ELSE status[m]]
  /\ eval_has_exception' =
       [m \in Module |-> m \in Range(stack) \/ eval_has_exception[m]]
  /\ cycle_root' = [m \in Module |-> IF m \in Range(stack) THEN root ELSE cycle_root[m]]
  /\ Settle(root, "rejected")
  /\ stack' = <<>>
  /\ calls' = <<>>
  /\ Idle

EvalFail ==
  /\ phase = "evaluate" /\ ~AllRequired
  /\ CalleeFailed
  /\ Unwind
  /\ UNCHANGED <<files, index, dfs, waits, exec_list, runs>>

\* All required modules visited: the module waits for some of them, or its
\* code starts.  One without await ends at once, and may throw.
BecomeAsync(m) ==
  /\ async_evaluation' = [async_evaluation EXCEPT ![m] = TRUE]
  /\ async_evaluation_timestamp' =
       [async_evaluation_timestamp EXCEPT ![m] = next_timestamp]
  /\ next_timestamp' = next_timestamp + 1
Starts(m) == pending_async_dependencies[m] = 0

EvalDone ==
  /\ phase = "evaluate" /\ AllRequired
  /\ \/ /\ This \in has_tla \/ ~Starts(This)
        /\ BecomeAsync(This)
        /\ IF Starts(This) THEN Run(This, "running") ELSE UNCHANGED runs
     \/ /\ This \notin has_tla /\ Starts(This)
        /\ Run(This, "done")
        /\ UNCHANGED <<async_evaluation, async_evaluation_timestamp, next_timestamp>>
  /\ status' = [m \in Module |-> IF m \notin Popped(This) THEN status[m]
                                 ELSE IF async_evaluation'[m] THEN "EVALUATING_ASYNC"
                                 ELSE "EVALUATED"]
  /\ cycle_root' = [m \in Module |-> IF m \in Popped(This) THEN This ELSE cycle_root[m]]
  /\ Pop(This)
  /\ calls' = Tail(calls)
  /\ UNCHANGED <<files, phase, root, index, dfs, pending_async_dependencies,
                 async_parent_modules, eval_has_exception, promise, exec_list>>

EvalThrow ==
  /\ phase = "evaluate" /\ AllRequired
  /\ This \notin has_tla /\ Starts(This)
  /\ Run(This, "threw")
  /\ Unwind
  /\ UNCHANGED <<files, index, dfs, waits, exec_list>>

EvaluateReturn ==
  /\ phase = "evaluate" /\ calls = <<>>
  /\ status[root] \in Ended /\ ~eval_has_exception[root]
  /\ IF async_evaluation[root] THEN UNCHANGED promise ELSE Settle(root, "fulfilled")
  /\ Idle
  /\ UNCHANGED <<files, calls, stack, index, status, dfs, cycle_root, waits,
                 eval_has_exception, exec_list, runs>>

-----------------------------------------------------------------------------
(* The reactions to the promise of a module with await                     *)

\* A module whose code may end, or that may be told of a failure, after it has
\* been given up for another failure
GivenUp(m) == status[m] = "EVALUATED"

\* js_set_module_evaluated; the fault leaves the promise alone
SetEvaluatedBug(m) ==
  status' = [status EXCEPT ![m] = "EVALUATED"] /\ UNCHANGED promise
SetEvaluated(m) ==
  /\ status' = [status EXCEPT ![m] = "EVALUATED"]
  /\ Settle(m, "fulfilled")

\* js_async_module_execution_fulfilled, up to gather_available_ancestors
Fulfilled(m) ==
  /\ phase = "idle" /\ body[m] = "running"
  /\ body' = [body EXCEPT ![m] = "done"]
  /\ IF GivenUp(m)
     THEN UNCHANGED <<phase, calls, status, promise, async_evaluation>>
     ELSE /\ async_evaluation' = [async_evaluation EXCEPT ![m] = FALSE]
          /\ SetEvaluated(m)
          /\ phase' = "gather"
          /\ calls' = <<[mod |-> m, next |-> 1]>>
  /\ UNCHANGED <<files, root, stack, index, dfs, cycle_root,
                 async_evaluation_timestamp, pending_async_dependencies,
                 async_parent_modules, next_timestamp, eval_has_exception,
                 exec_list, ran>>

AllParents == Next1 > Len(async_parent_modules[This])
Parent == async_parent_modules[This][Next1]

\* A parent is passed over when it is already listed or its cycle has failed.
PassedOverBug(p) == p \in exec_list
PassedOver(p) == p \in exec_list \/ eval_has_exception[cycle_root[p]]

GatherParent ==
  LET p == Parent
      last == pending_async_dependencies[p] = 1
  IN /\ phase = "gather" /\ calls # <<>> /\ ~AllParents
     /\ IF PassedOver(p)
        THEN calls' = Advance(calls) /\ UNCHANGED <<pending_async_dependencies, exec_list>>
        ELSE /\ pending_async_dependencies' =
                  [pending_async_dependencies EXCEPT ![p] = @ - 1]
             /\ exec_list' = IF last THEN exec_list \cup {p} ELSE exec_list
             /\ calls' = IF last /\ p \notin has_tla
                         THEN <<[mod |-> p, next |-> 1]>> \o Advance(calls)
                         ELSE Advance(calls)
     /\ UNCHANGED <<files, phase, root, stack, index, status, dfs, cycle_root,
                    async_evaluation, async_evaluation_timestamp,
                    async_parent_modules, next_timestamp, eval_has_exception,
                    promise, runs>>

\* The end of a call of gather_available_ancestors or of
\* js_async_module_execution_rejected; the outermost one goes back to the
\* list of modules to execute, which is empty if there was none.
GatherReturn ==
  /\ phase = "gather" /\ AllParents
  /\ calls' = Tail(calls)
  /\ phase' = IF Tail(calls) = <<>> THEN "exec" ELSE phase
  /\ UNCHANGED <<files, root, stack, index, status, dfs, cycle_root, waits,
                 eval_has_exception, promise, exec_list, runs>>

\* exec_list is sorted: the module that became async first
IsFirstBug(m) ==
  /\ m \in exec_list
  /\ \A x \in exec_list : async_evaluation_timestamp[m] >= async_evaluation_timestamp[x]
IsFirst(m) ==
  /\ m \in exec_list
  /\ \A x \in exec_list : async_evaluation_timestamp[m] <= async_evaluation_timestamp[x]

ExecSkip(m) ==
  /\ phase = "exec" /\ IsFirst(m)
  /\ GivenUp(m)
  /\ exec_list' = exec_list \ {m}
  /\ UNCHANGED <<files, walk, status, dfs, cycle_root, waits, eval_has_exception,
                 promise, runs>>

ExecAsync(m) ==
  /\ phase = "exec" /\ IsFirst(m)
  /\ ~GivenUp(m) /\ m \in has_tla
  /\ Run(m, "running")
  /\ exec_list' = exec_list \ {m}
  /\ UNCHANGED <<files, walk, status, dfs, cycle_root, waits, eval_has_exception,
                 promise>>

\* async_evaluation stays TRUE here
ExecSync(m) ==
  /\ phase = "exec" /\ IsFirst(m)
  /\ ~GivenUp(m) /\ m \notin has_tla
  /\ Run(m, "done")
  /\ SetEvaluated(m)
  /\ exec_list' = exec_list \ {m}
  /\ UNCHANGED <<files, walk, dfs, cycle_root, waits, eval_has_exception>>

\* js_async_module_execution_rejected, up to the calls for the parents
Reject(m) ==
  /\ eval_has_exception' = [eval_has_exception EXCEPT ![m] = TRUE]
  /\ status' = [status EXCEPT ![m] = "EVALUATED"]
  /\ phase' = "reject"
  /\ calls' = <<[mod |-> m, next |-> 1]>>

ExecThrow(m) ==
  /\ phase = "exec" /\ IsFirst(m)
  /\ ~GivenUp(m) /\ m \notin has_tla
  /\ Run(m, "threw")
  /\ exec_list' = exec_list \ {m}
  /\ Reject(m)
  /\ UNCHANGED <<files, root, stack, index, dfs, cycle_root, waits, promise>>

ExecEnd ==
  /\ phase = "exec" /\ exec_list = {}
  /\ phase' = "idle"
  /\ UNCHANGED <<files, root, calls, stack, index, status, dfs, cycle_root, waits,
                 eval_has_exception, promise, exec_list, runs>>

Rejected(m) ==
  /\ phase = "idle" /\ body[m] = "running"
  /\ body' = [body EXCEPT ![m] = "threw"]
  /\ IF GivenUp(m)
     THEN UNCHANGED <<phase, calls, status, eval_has_exception>>
     ELSE Reject(m)
  /\ UNCHANGED <<files, root, stack, index, dfs, cycle_root, waits, promise,
                 exec_list, ran>>

RejectParent ==
  LET p == Parent
  IN /\ phase = "reject" /\ calls # <<>> /\ ~AllParents
     /\ IF GivenUp(p)
        THEN calls' = Advance(calls) /\ UNCHANGED <<status, eval_has_exception>>
        ELSE /\ eval_has_exception' = [eval_has_exception EXCEPT ![p] = TRUE]
             /\ status' = [status EXCEPT ![p] = "EVALUATED"]
             /\ calls' = <<[mod |-> p, next |-> 1]>> \o Advance(calls)
     /\ UNCHANGED <<files, phase, root, stack, index, dfs, cycle_root, waits,
                    promise, exec_list, runs>>

RejectReturn ==
  /\ phase = "reject" /\ AllParents
  /\ Settle(This, "rejected")
  /\ calls' = Tail(calls)
  /\ phase' = IF Tail(calls) = <<>> THEN "exec" ELSE phase
  /\ UNCHANGED <<files, root, stack, index, status, dfs, cycle_root, waits,
                 eval_has_exception, exec_list, runs>>

-----------------------------------------------------------------------------
Link     == LinkEnter \/ LinkRequired \/ LinkDone \/ LinkFail
Evaluate == \/ EvaluateModule \/ EvalEnter \/ EvalRequired \/ EvalFail
            \/ EvalDone \/ EvalThrow \/ EvaluateReturn
Reaction == \/ GatherParent \/ GatherReturn \/ ExecEnd \/ RejectParent \/ RejectReturn
            \/ \E m \in Module : ExecSkip(m) \/ ExecAsync(m) \/ ExecSync(m) \/ ExecThrow(m)
Await(m) == Fulfilled(m) \/ Rejected(m)

Next == Link \/ Evaluate \/ Reaction \/ \E m \in Module : Import(m) \/ Await(m)

Spec == Init /\ [][Next]_vars

\* C code goes on once called, and the tests' awaits all end.
FairSpec == Spec /\ WF_vars(Link \/ Evaluate \/ Reaction)
                 /\ \A m \in Module : SF_vars(Await(m))

-----------------------------------------------------------------------------
(* Properties *)

\* m and everything it needs, directly or not
ClosedUnderReq(S) == \A x \in S : Range(req[x]) \subseteq S
Reach(m) == {x \in Module : \A S \in SUBSET Module :
                              m \in S /\ ClosedUnderReq(S) => x \in S}

\* What the settling of one module's promise asserts
SettleAssert(m) == promise[m] # "none" => cycle_root[m] = m
\* A module whose end or failure is being propagated: failed before, or async
WaitsAssert(m) ==
  IF status[m] = "EVALUATED" THEN eval_has_exception[m]
  ELSE /\ status[m] = "EVALUATING_ASYNC"
       /\ async_evaluation[m] /\ ~eval_has_exception[m]

LinkAsserts ==
  phase = "link" =>
    /\ ~AllRequired => status[Callee] # "EVALUATING"
    /\ \A m \in Range(stack) : status[m] = "LINKING"
    /\ AllRequired => dfs_ancestor_index[This] <= dfs_index[This]
    /\ calls = <<>> => stack = <<>>

EvaluateAsserts ==
  phase = "evaluate" =>
    /\ \A m \in Range(stack) : status[m] = "EVALUATING"
    /\ AllRequired => /\ ~async_evaluation[This]
                      /\ dfs_ancestor_index[This] <= dfs_index[This]
    /\ ~AllRequired =>
         /\ status[Callee] \in {"LINKED", "EVALUATING"} \cup Ended
         /\ status[Callee] \in Ended => status[cycle_root[Callee]] \in Ended
    /\ calls = <<>> /\ status[root] # "LINKED" =>
         /\ stack = <<>>
         /\ eval_has_exception[root] => status[root] = "EVALUATED"
         /\ async_evaluation[root] \/ status[root] = "EVALUATED"

ReactionAsserts ==
  /\ phase = "idle" => \A m \in Module : body[m] = "running" => WaitsAssert(m)
  /\ phase = "gather" /\ ~AllParents /\ ~PassedOver(Parent) =>
       /\ status[Parent] = "EVALUATING_ASYNC" /\ WaitsAssert(Parent)
       /\ pending_async_dependencies[Parent] > 0
  /\ phase = "exec" => \A m \in exec_list : IsFirst(m) => WaitsAssert(m)
  /\ phase = "reject" => IF AllParents THEN SettleAssert(This) ELSE WaitsAssert(Parent)

\* No assert() of the linking and evaluation code fails, whatever is imported
\* while other modules are still being awaited, and whatever has failed before.
NoAssertFails ==
  /\ TypeOK
  /\ LinkAsserts /\ EvaluateAsserts /\ ReactionAsserts
  /\ \A m \in Module : promise[m] \in {"fulfilled", "rejected"} => SettleAssert(m)

\* However many modules and imports lead to it, a module's code runs once, and
\* not before that of every module it requests, and of all these need, has ended
\* without an exception; within a cycle there is no such order.
RunsOnceInOrder ==
  /\ IsInjective(ran)
  /\ \A m \in Module : \A d \in Range(req[m]) :
       body[m] # "unrun" /\ m \notin Reach(d) => \A x \in Reach(d) : body[x] = "done"

\* The promise of js_evaluate_module says what became of all modules needed: it is
\* not settled before all is known, nor first with one outcome and then the other.
PromiseMeans ==
  \A m \in Module :
    /\ promise[m] = "fulfilled" => \A x \in Reach(m) : body[x] = "done"
    /\ promise[m] = "rejected" => \E x \in Reach(m) : body[x] = "threw"

\* A module that waited for another and has run: js_async_module_execution_fulfilled
\* leaves its async_evaluation TRUE, and who requests it later waits for nothing.
Leftover(m) ==
  status[m] = "EVALUATED" /\ ~eval_has_exception[m] /\ async_evaluation[m]

\* An evaluation nobody will settle: of a module left over, or of one that needs
\* a module which was listed as parent of one left over, too late to be woken.
Hangs(m) ==
  /\ phase = "idle"
  /\ \/ Leftover(m)
     \/ \E x \in Reach(m), y \in Module :
          /\ Leftover(y) /\ x \in Range(async_parent_modules[y])
          /\ status[x] = "EVALUATING_ASYNC"

\* Every evaluation ends, if the awaits of the modules do, unless it hangs on a
\* module that is left over: there is no other way to wait for ever, not even
\* in a cycle.
EvaluationSettles ==
  \A m \in Module : promise[m] = "pending" ~> promise[m] # "pending" \/ Hangs(m)
=============================================================================
