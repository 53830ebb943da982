-------------------------- MODULE ModuleLoadingProofs --------------------------
(***************************************************************************)
(* Linking and evaluating ECMAScript modules, for any modules and          *)
(* requests: no assert fails, each module runs once and after what it      *)
(* needs, and the promise of js_evaluate_module means what it says.        *)
(*                                                                         *)
(* The invariant is in three parts.  The walk (Tarjan's algorithm, the     *)
(* same in js_inner_module_linking and js_inner_module_evaluation): what   *)
(* is on the stack, how the calls lie on it, and why a component is popped *)
(* whole.  The waiting: what async_parent_modules,                         *)
(* pending_async_dependencies and the timestamps say of each other, from   *)
(* the walk that fills them to the reactions that count them down.  And    *)
(* the order and the outcome: what the modules on the stack need of each   *)
(* other, and that all that is requested by a module that runs is of its   *)
(* own cycle, complete, or waited for.                                     *)
(***************************************************************************)
EXTENDS ModuleLoading, SequenceTheorems, FiniteSetTheorems, WellFoundedInduction, TLAPS

----------------------------------------------------------------------------
(* The inductive invariant: the walk *)

\* The recursion of js_link_module or of js_evaluate_module is running; what a
\* module's status is before and while that one has it on the stack
Walking == phase \in {"link", "evaluate"}
Unseen  == IF phase = "link" THEN "UNLINKED" ELSE "LINKED"
OnStack == IF phase = "link" THEN "LINKING" ELSE "EVALUATING"
On      == Range(stack)
Called  == {calls[k].mod : k \in 1..Len(calls)}

\* What the index of each frame is an index into
Entries(x) == IF phase \in {"gather", "reject"} THEN async_parent_modules[x] ELSE req[x]

\* The calls there are in each phase, each with an index that fits
FrameInv ==
  /\ phase \in {"gather", "reject"} => calls # <<>>
  /\ phase \in {"idle", "exec"} => calls = <<>>
  /\ \A k \in 1..Len(calls) : calls[k].next \in 1..Len(Entries(calls[k].mod)) + 1
  /\ Walking => root \in Module

\* A module is on the stack while it is being linked or evaluated; the stack is
\* in the order of dfs_index
StackInv ==
  /\ \A m \in Module : m \in On <=> status[m] \in {"LINKING", "EVALUATING"}
  /\ \A m \in On : status[m] = OnStack
  /\ ~Walking => stack = <<>>
  /\ \A i, j \in 1..Len(stack) : i < j => dfs_index[stack[i]] > dfs_index[stack[j]]
  /\ \A m \in On : dfs_index[m] < index /\ dfs_ancestor_index[m] <= dfs_index[m]

\* The recursion follows the requests, from root on
CallsInv ==
  Walking =>
    /\ \A k \in 1..Len(calls) : calls[k].mod \in On
    /\ \A k, l \in 1..Len(calls) :
          k < l => dfs_index[calls[k].mod] > dfs_index[calls[l].mod]
    /\ \A k \in 2..Len(calls) :
          /\ calls[k].next <= Len(req[calls[k].mod])
          /\ req[calls[k].mod][calls[k].next] = calls[k - 1].mod
    /\ calls = <<>> => stack = <<>> /\ (status[root] = Unseen => index = 0)
    /\ calls # <<>> => calls[Len(calls)].mod = root /\ dfs_index[root] = 0

\* A module that has been popped in all has what it requests popped, or above
\* its dfs_ancestor_index on the stack
Linked == {"LINKED", "EVALUATING"} \cup Ended
\* x is past its n-th request, y has been popped
Passed(x, n) == \A k \in 1..Len(calls) : calls[k].mod = x => n < calls[k].next
Settled(y) == status[y] \in IF phase = "link" THEN Linked ELSE Ended
EdgeInv ==
  Walking => \A x \in On : \A n \in 1..Len(req[x]) : Passed(x, n) =>
    \/ Settled(req[x][n])
    \/ req[x][n] \in On /\ dfs_ancestor_index[x] <= dfs_index[req[x][n]]

\* The innermost call below x on the stack knows how far x goes back, or the
\* call that has just returned to it does
Owner(k, x) ==
  /\ dfs_index[calls[k].mod] <= dfs_index[x]
  /\ k > 1 => dfs_index[calls[k - 1].mod] > dfs_index[x]
\* The call for x has just returned to its caller, which has not looked at it yet
Returned(x) == calls # <<>> /\ ~AllRequired /\ Callee = x /\ x \in On \ Called
OwnerInv ==
  Walking => \A x \in On \ Called : \A k \in 1..Len(calls) : Owner(k, x) =>
    \/ dfs_ancestor_index[calls[k].mod] <= dfs_ancestor_index[x]
    \/ /\ k = 1 /\ Returned(Callee)
       /\ dfs_index[Callee] <= dfs_index[x]
       /\ dfs_ancestor_index[Callee] <= dfs_ancestor_index[x]

\* What a linked module requests is linked
LinkedInv ==
  \A x \in Module : status[x] \in Linked =>
     \A n \in 1..Len(req[x]) : status[req[x][n]] \in Linked

\* All that holds of the walk, in both of its forms
WalkInv == StackInv /\ CallsInv /\ EdgeInv /\ OwnerInv /\ LinkedInv

----------------------------------------------------------------------------
(* The inductive invariant: the states of a module *)

\* What the fields of a module say in each of its states
StateOf(m) ==
  /\ status[m] \in {"UNLINKED", "LINKING", "LINKED", "EVALUATING"} =>
       /\ cycle_root[m] = None /\ ~eval_has_exception[m] /\ m \notin exec_list
       /\ promise[m] # "none" => Walking /\ phase = "evaluate" /\ root = m
                                 /\ promise[m] = "pending"
       /\ ~async_evaluation[m] => async_parent_modules[m] = <<>>
  /\ status[m] \in {"UNLINKED", "LINKING", "LINKED"} \/ (status[m] = "EVALUATING" /\ m \in Called) =>
       ~async_evaluation[m] /\ body[m] = "unrun"
  /\ status[m] = "EVALUATING" /\ m \notin Called =>
       IF async_evaluation[m] THEN body[m] \in {"unrun", "running"} ELSE body[m] = "done"
  /\ status[m] = "EVALUATING_ASYNC" =>
       async_evaluation[m] /\ ~eval_has_exception[m] /\ body[m] \in {"unrun", "running"}
  /\ status[m] = "EVALUATED" => eval_has_exception[m] \/ body[m] = "done"
  /\ body[m] = "running" => m \in has_tla /\ async_evaluation[m]
\* ... and when the lists may hold it
StateInv ==
  /\ \A m \in Module : StateOf(m)
  /\ phase \in {"idle", "link", "evaluate"} => exec_list = {}

\* Cycles and their promise
RootInv ==
  \A m \in Module : status[m] \in Ended =>
    /\ cycle_root[m] \in Module
    /\ status[cycle_root[m]] \in Ended
    /\ cycle_root[cycle_root[m]] = cycle_root[m]
    /\ promise[m] # "none" => cycle_root[m] = m

----------------------------------------------------------------------------
(* Sequences *)

\* A call is pushed in front of the others
LEMMA Push ==
  ASSUME NEW S, NEW x \in S, NEW s \in Seq(S)
  PROVE  LET t == <<x>> \o s
         IN  /\ t \in Seq(S) /\ Len(t) = Len(s) + 1 /\ t # <<>>
             /\ t[1] = x
             /\ \A i \in 1..Len(s) : t[i + 1] = s[i]
             /\ \A i \in 2..Len(t) : t[i] = s[i - 1] /\ i - 1 \in 1..Len(s)
             /\ Range(t) = Range(s) \cup {x}
             /\ Head(t) = x /\ Tail(t) = s
  <1> DEFINE t == <<x>> \o s
  <1>0. <<x>> \in Seq(S) /\ Len(<<x>>) = 1 /\ <<x>>[1] = x
    OBVIOUS
  <1>1. t \in Seq(S) /\ Len(t) = Len(s) + 1 /\ Len(s) \in Nat
    BY <1>0, ConcatProperties, LenProperties
  <1>2. t[1] = x
    BY <1>0, <1>1, ConcatProperties
  <1>3. \A i \in 1..Len(s) : t[i + 1] = s[i]
    <2> SUFFICES ASSUME NEW i \in 1..Len(s) PROVE t[i + 1] = s[i]
      OBVIOUS
    <2>1. i + 1 \in 1..Len(s) + 1 /\ ~(i + 1 <= 1) /\ (i + 1) - 1 = i
      BY <1>1
    <2>2. \A j \in 1..Len(<<x>>) + Len(s) :
             t[j] = IF j <= Len(<<x>>) THEN <<x>>[j] ELSE s[j - Len(<<x>>)]
      BY <1>0, ConcatProperties
    <2> HIDE DEF t
    <2>3. \A j \in 1..1 + Len(s) : t[j] = IF j <= 1 THEN <<x>>[j] ELSE s[j - 1]
      BY <1>0, <2>2
    <2> QED BY SMTT(30), <1>1, <2>1, <2>3
  <1> HIDE DEF t
  <1>4. \A i \in 2..Len(t) : t[i] = s[i - 1] /\ i - 1 \in 1..Len(s)
    <2> SUFFICES ASSUME NEW i \in 2..Len(t) PROVE t[i] = s[i - 1] /\ i - 1 \in 1..Len(s)
      OBVIOUS
    <2>1. i - 1 \in 1..Len(s) /\ (i - 1) + 1 = i
      BY <1>1
    <2> QED BY <1>3, <2>1
  <1>5. Range(t) = Range(s) \cup {x}
    <2>1. DOMAIN t = 1..Len(t) /\ DOMAIN s = 1..Len(s)
      BY <1>1
    <2>2. \A y : y \in Range(t) <=> \E i \in 1..Len(t) : t[i] = y
      BY <2>1 DEF Range
    <2>3. \A y : y \in Range(s) <=> \E i \in 1..Len(s) : s[i] = y
      BY <2>1 DEF Range
    <2>4. ASSUME NEW y \in Range(t) PROVE y \in Range(s) \cup {x}
      <3>1. PICK i \in 1..Len(t) : t[i] = y
        BY <2>2, <2>4
      <3>2. CASE i = 1
        BY <3>1, <3>2, <1>2
      <3>3. CASE i # 1
        <4>1. i \in 2..Len(t)
          BY <1>1, <3>3
        <4> QED BY <1>4, <3>1, <4>1, <2>3
      <3> QED BY <3>2, <3>3
    <2>5. ASSUME NEW y \in Range(s) PROVE y \in Range(t)
      <3>1. PICK i \in 1..Len(s) : s[i] = y
        BY <2>3, <2>5
      <3>2. i + 1 \in 1..Len(t)
        BY <1>1
      <3> QED BY <1>3, <3>1, <3>2, <2>2
    <2>6. x \in Range(t)
      <3>1. 1 \in 1..Len(t)
        BY <1>1
      <3> QED BY <1>2, <2>2, <3>1
    <2> QED BY <2>4, <2>5, <2>6
  <1>6. t # <<>>
    BY <1>1, EmptySeq
  <1>7. Head(t) = x /\ Tail(t) = s
    <2>1. Head(t) = t[1] /\ Tail(t) \in Seq(S) /\ Len(Tail(t)) = Len(t) - 1
          /\ \A i \in 1..Len(Tail(t)) : Tail(t)[i] = t[i + 1]
      BY <1>1, <1>6, HeadTailProperties
    <2>2. Len(Tail(t)) = Len(s)
      BY <1>1, <2>1
    <2>3. \A i \in 1..Len(s) : Tail(t)[i] = s[i]
      BY <1>3, <2>1, <2>2
    <2> QED BY <1>2, <2>1, <2>2, <2>3, SeqEqual
  <1> QED
    BY <1>1, <1>2, <1>3, <1>4, <1>5, <1>6, <1>7 DEF t

\* A call returns
LEMMA TailIs ==
  ASSUME NEW S, NEW s \in Seq(S), s # <<>>
  PROVE  /\ Len(s) \in Nat \ {0} /\ 1 \in 1..Len(s) /\ Head(s) = s[1] /\ Head(s) \in S
         /\ Tail(s) \in Seq(S) /\ Len(Tail(s)) = Len(s) - 1
         /\ \A i \in 1..Len(Tail(s)) : Tail(s)[i] = s[i + 1] /\ i + 1 \in 1..Len(s)
         /\ \A i \in 2..Len(s) : s[i] = Tail(s)[i - 1] /\ i - 1 \in 1..Len(Tail(s))
  <1> DEFINE t == Tail(s)
  <1>1. /\ Len(s) \in Nat \ {0} /\ Head(s) = s[1]
        /\ t \in Seq(S) /\ Len(t) = Len(s) - 1
        /\ \A i \in 1..Len(t) : t[i] = s[i + 1]
    BY HeadTailProperties, EmptySeq
  <1> HIDE DEF t
  <1>2. 1 \in 1..Len(s) /\ s[1] \in S
    BY <1>1
  <1>3. \A i \in 1..Len(t) : i + 1 \in 1..Len(s)
    BY <1>1
  <1>4. \A i \in 2..Len(s) : s[i] = t[i - 1] /\ i - 1 \in 1..Len(t)
    <2> SUFFICES ASSUME NEW i \in 2..Len(s) PROVE s[i] = t[i - 1] /\ i - 1 \in 1..Len(t)
      OBVIOUS
    <2>1. i - 1 \in 1..Len(t) /\ (i - 1) + 1 = i
      BY <1>1
    <2> QED BY <1>1, <2>1
  <1> QED BY <1>1, <1>2, <1>3, <1>4 DEF t

\* The innermost call goes on to the next entry
LEMMA AdvanceIs ==
  ASSUME NEW cs \in Seq(Frame), cs # <<>>
  PROVE  LET t == Advance(cs)
         IN  /\ t \in Seq(Frame) /\ Len(t) = Len(cs) /\ t # <<>>
             /\ t[1] = [mod |-> cs[1].mod, next |-> cs[1].next + 1]
             /\ \A i \in 2..Len(cs) : t[i] = cs[i]
             /\ \A i \in 1..Len(cs) : t[i].mod = cs[i].mod
             /\ Head(t).mod = cs[1].mod /\ Head(t).next = cs[1].next + 1
  <1> DEFINE h == [Head(cs) EXCEPT !.next = @ + 1]
             u == Tail(cs)
             t == <<h>> \o u
  <1>1. /\ Len(cs) \in Nat \ {0} /\ 1 \in 1..Len(cs) /\ Head(cs) = cs[1] /\ Head(cs) \in Frame
        /\ u \in Seq(Frame) /\ Len(u) = Len(cs) - 1
        /\ \A i \in 2..Len(cs) : cs[i] = u[i - 1] /\ i - 1 \in 1..Len(u)
    BY TailIs
  <1>2. h \in Frame /\ h = [mod |-> cs[1].mod, next |-> cs[1].next + 1]
    BY <1>1 DEF Frame
  <1> HIDE DEF h, u
  <1>3. /\ t \in Seq(Frame) /\ Len(t) = Len(u) + 1 /\ t # <<>> /\ t[1] = h /\ Head(t) = h
        /\ \A i \in 2..Len(t) : t[i] = u[i - 1]
    BY <1>1, <1>2, Push
  <1> HIDE DEF t
  <1>4. Len(t) = Len(cs)
    BY <1>1, <1>3
  <1>5. \A i \in 2..Len(cs) : t[i] = cs[i]
    BY <1>1, <1>3, <1>4
  <1>6. \A i \in 1..Len(cs) : i = 1 \/ i \in 2..Len(cs)
    BY <1>1
  <1>7. \A i \in 1..Len(cs) : t[i].mod = cs[i].mod
    BY <1>2, <1>3, <1>5, <1>6
  <1> QED
    BY <1>2, <1>3, <1>4, <1>5, <1>7 DEF t, h, u, Advance
----------------------------------------------------------------------------
(* The inductive invariant: who waits for whom *)

\* p is one of those y has to tell of its end
Waits(p, y) == p \in Range(async_parent_modules[y])

\* Who waits is evaluated already, and by a module whose turn comes later
WaitInv ==
  \A y, p \in Module : Waits(p, y) =>
    /\ status[p] \in {"EVALUATING"} \cup Ended
    /\ status[y] = "EVALUATING" => /\ status[p] = "EVALUATING"
                                   /\ \E n \in 1..Len(req[p]) : req[p][n] = y
    /\ async_evaluation_timestamp[y] < next_timestamp
    /\ async_evaluation[p] => async_evaluation_timestamp[y] < async_evaluation_timestamp[p]

\* The time at which a module became async
TimeInv == \A m \in Module : async_evaluation[m] => async_evaluation_timestamp[m] < next_timestamp

\* Nobody runs before what it waits for
OrderInv ==
  \A y, p \in Module : Waits(p, y) /\ body[p] # "unrun" =>
    body[y] = "done" /\ ~eval_has_exception[y] /\ status[y] = "EVALUATED"

\* The entries of async_parent_modules that will be counted down
Pending(y, i) ==
  IF phase = "gather" /\ y \in Called THEN ~Passed(y, i)
  ELSE /\ ~eval_has_exception[y]
       /\ body[y] # "done"
       /\ y \in exec_list => y \in has_tla
\* The entries that name p and will be counted down
Out(p) == {w \in Module \X Nat : /\ w[2] \in 1..Len(async_parent_modules[w[1]])
                                 /\ async_parent_modules[w[1]][w[2]] = p
                                 /\ Pending(w[1], w[2])}
\* The count of a module covers them, and is 0 when it may run
OutInv ==
  \A p \in Module :
    /\ IsFiniteSet(Out(p))
    /\ status[p] \in {"EVALUATING"} \cup Ended => Cardinality(Out(p)) <= pending_async_dependencies[p]
    /\ body[p] # "unrun" \/ p \in exec_list => pending_async_dependencies[p] = 0

\* What gather_available_ancestors has collected is ready to run
ExecInv ==
  \A p \in exec_list : body[p] = "unrun" /\ status[p] \in Ended /\ async_evaluation[p]

\* The calls of gather_available_ancestors are for modules that are done, or
\* are going to be before anybody who waits for them
GatherInv ==
  phase = "gather" =>
    \A k \in 1..Len(calls) :
      /\ IF calls[k].mod \in has_tla THEN body[calls[k].mod] = "done" ELSE calls[k].mod \in exec_list
      /\ ~eval_has_exception[calls[k].mod]
      /\ \A l \in 1..Len(calls) : calls[l].mod = calls[k].mod => l = k

\* Who waits for a module that has failed fails too
FailInv ==
  /\ phase = "reject" => \A k \in 1..Len(calls) : eval_has_exception[calls[k].mod]
  /\ \A y \in Module : eval_has_exception[y] =>
       \A i \in 1..Len(async_parent_modules[y]) :
         \/ eval_has_exception[async_parent_modules[y][i]]
         \/ phase = "reject" /\ y \in Called /\ ~Passed(y, i)

\* In a cycle somebody entered earlier waits for each module that takes its time
Above(x, p) == \A k \in 1..Len(calls) : dfs_index[calls[k].mod] < dfs_index[x] =>
                                        dfs_index[calls[k].mod] <= dfs_index[p]
\* ... and when the walk is over it still does, for all but the root of the cycle,
\* through which every failure passes
ParentInv ==
  /\ phase = "evaluate" => \A x \in On \ Called : async_evaluation[x] =>
       \/ \E p \in On : Waits(p, x) /\ dfs_index[p] < dfs_index[x] /\ Above(x, p)
       \/ Returned(x) /\ dfs_index[This] < dfs_index[x]
  /\ \A x \in Module :
       (/\ status[x] \in Ended /\ async_evaluation[x]
        /\ x # cycle_root[x] /\ ~eval_has_exception[cycle_root[x]]) =>
       \E p \in Module : /\ Waits(p, x) /\ dfs_index[p] < dfs_index[x]
                         /\ status[p] \in Ended /\ cycle_root[p] = cycle_root[x]
  /\ \A x \in Module : eval_has_exception[x] =>
       async_evaluation[x] \/ eval_has_exception[cycle_root[x]]

AsyncInv == WaitInv /\ TimeInv /\ OrderInv /\ OutInv /\ ExecInv /\ GatherInv /\ FailInv /\ ParentInv

\* The inductive invariant, but for what root may be (RootReady)
IInv == TypeOK /\ FrameInv /\ WalkInv /\ StateInv /\ RootInv /\ AsyncInv

----------------------------------------------------------------------------
(* Types *)

\* What the innermost call is at
LEMMA CallIs ==
  ASSUME TypeOK, FrameInv, calls # <<>>
  PROVE  /\ Len(calls) \in Nat \ {0} /\ 1 \in 1..Len(calls)
         /\ Head(calls) = calls[1] /\ Head(calls) \in Frame
         /\ This \in Module /\ This = calls[1].mod /\ This \in Called
         /\ Next1 \in 1..Len(Entries(This)) + 1 /\ Next1 = calls[1].next
         /\ Tail(calls) \in Seq(Frame) /\ Len(Tail(calls)) = Len(calls) - 1
  <1>1. calls \in Seq(Frame)
    BY DEF TypeOK
  <1>2. /\ Len(calls) \in Nat \ {0} /\ 1 \in 1..Len(calls)
        /\ Head(calls) = calls[1] /\ Head(calls) \in Frame
        /\ Tail(calls) \in Seq(Frame) /\ Len(Tail(calls)) = Len(calls) - 1
    BY <1>1, TailIs
  <1> QED BY <1>2 DEF FrameInv, This, Next1, Frame, Called

\* The module the innermost call is about to recurse to
LEMMA CalleeIs ==
  ASSUME TypeOK, FrameInv, Walking, ~AllRequired
  PROVE  /\ Callee \in Module
         /\ calls = <<>> => Callee = root
         /\ calls # <<>> => Next1 \in 1..Len(req[This]) /\ Callee = req[This][Next1]
  <1>1. CASE calls = <<>>
    BY <1>1 DEF FrameInv, Callee
  <1>2. CASE calls # <<>>
    <2>1. Next1 \in 1..Len(req[This]) + 1 /\ This \in Module
      BY <1>2, CallIs DEF Entries, Walking
    <2>2. ~(Next1 > Len(req[This])) /\ req[This] \in Seq(Module)
      BY <1>2, <2>1 DEF AllRequired, TypeOK
    <2>3. Next1 \in 1..Len(req[This])
      BY <2>1, <2>2
    <2>4. req[This][Next1] \in Module
      BY <2>2, <2>3
    <2> QED BY <1>2, <2>3, <2>4 DEF Callee
  <1> QED BY <1>1, <1>2

\* The parent the innermost call of a reaction is at
LEMMA ParentIs ==
  ASSUME TypeOK, FrameInv, phase \in {"gather", "reject"}, ~AllParents
  PROVE  /\ Parent \in Module
         /\ Next1 \in 1..Len(async_parent_modules[This])
         /\ Parent = async_parent_modules[This][Next1]
  <1>1. calls # <<>>
    BY DEF FrameInv
  <1>2. Next1 \in 1..Len(async_parent_modules[This]) + 1 /\ This \in Module
    BY <1>1, CallIs DEF Entries
  <1>3. ~(Next1 > Len(async_parent_modules[This])) /\ async_parent_modules[This] \in Seq(Module)
    BY <1>1, <1>2 DEF AllParents, TypeOK
  <1>4. Next1 \in 1..Len(async_parent_modules[This])
    BY <1>2, <1>3
  <1> QED BY <1>3, <1>4 DEF Parent

\* Types
LEMMA InitType == Init => TypeOK
  <1> SUFFICES ASSUME Init PROVE TypeOK
    OBVIOUS
  <1>1. req \in [Module -> Seq(Module)] /\ broken \subseteq Module
    BY GraphsAssumption, BreaksAssumption DEF Init
  <1> QED BY <1>1 DEF Init, TypeOK, Status

\* The frame after Enter and the calls after Advance
LEMMA FrameType ==
  ASSUME NEW m \in Module, NEW s \in Seq(Module), NEW cs \in Seq(Frame)
  PROVE  /\ <<[mod |-> m, next |-> 1]>> \in Seq(Frame)
         /\ <<[mod |-> m, next |-> 1]>> \o cs \in Seq(Frame)
         /\ <<m>> \o s \in Seq(Module)
  <1>1. [mod |-> m, next |-> 1] \in Frame
    BY DEF Frame
  <1> QED BY <1>1, Push

\* ... of what js_inner_module_linking and js_inner_module_evaluation set up
LEMMA EnterType ==
  ASSUME TypeOK, NEW m \in Module, NEW s \in Status, Enter(m, s)
  PROVE  /\ status' \in [Module -> Status]
         /\ dfs_index' \in [Module -> Nat] /\ dfs_ancestor_index' \in [Module -> Nat]
         /\ index' \in Nat /\ stack' \in Seq(Module) /\ calls' \in Seq(Frame)
         /\ phase' = phase /\ root' = root
  BY SMTT(30), FrameType DEF TypeOK, Enter

\* ... of the index a call brings back
LEMMA JoinType ==
  ASSUME TypeOK, NEW m \in Module, NEW y \in Module, NEW s, Join(m, y, s)
  PROVE  dfs_ancestor_index' \in [Module -> Nat]
  BY DEF TypeOK, Join, Min2

\* ... of the stack below a component
LEMMA PopType == ASSUME TypeOK, NEW m \in Module, m \in On, Pop(m) PROVE stack' \in Seq(Module)
  <1>1. stack \in Seq(Module) /\ Len(stack) \in Nat
    BY DEF TypeOK
  <1>2. Position(m) \in 1..Len(stack)
    <2>1. \E i \in DOMAIN stack : stack[i] = m
      BY DEF On, Range
    <2> QED BY <1>1, <2>1 DEF Position
  <1>3. SubSeq(stack, Position(m) + 1, Len(stack)) \in Seq(Module)
    <2>1. Position(m) + 1 \in Int /\ Len(stack) \in Int
          /\ \A i \in Position(m) + 1..Len(stack) : stack[i] \in Module
      BY <1>1, <1>2
    <2> QED BY <2>1, SubSeqProperties
  <1> QED BY <1>1, <1>3 DEF Pop

\* ... of a body that starts or ends, of a promise that is settled
LEMMA RunType ==
  ASSUME TypeOK, NEW m \in Module, NEW o \in {"running", "done", "threw"}, Run(m, o)
  PROVE  body' \in [Module -> {"unrun", "running", "done", "threw"}] /\ ran' \in Seq(Module)
  <1>1. ran \in Seq(Module) /\ body \in [Module -> {"unrun", "running", "done", "threw"}]
    BY DEF TypeOK
  <1>2. Append(ran, m) \in Seq(Module)
    BY <1>1
  <1> QED BY <1>1, <1>2 DEF Run

\* ... of a promise
LEMMA SettleType ==
  ASSUME TypeOK, NEW m, NEW o \in {"fulfilled", "rejected"}, Settle(m, o)
  PROVE  promise' \in [Module -> {"none", "pending", "fulfilled", "rejected"}]
  <1>1. promise \in [Module -> {"none", "pending", "fulfilled", "rejected"}]
    BY DEF TypeOK
  <1> QED BY <1>1 DEF Settle

\* TypeOK is preserved by every step.
LEMMA TypeNext == IInv /\ [Next]_vars => TypeOK'
  <1> SUFFICES ASSUME IInv, [Next]_vars PROVE TypeOK'
    OBVIOUS
  <1>0. TypeOK /\ FrameInv
    BY DEF IInv
  <1>A. calls = <<>> \/ calls # <<>>
    OBVIOUS
  <1>B. calls # <<>> => /\ This \in Module /\ Tail(calls) \in Seq(Frame) /\ Advance(calls) \in Seq(Frame)
                        /\ \A m \in Module : <<[mod |-> m, next |-> 1]>> \o Advance(calls) \in Seq(Frame)
    <2> SUFFICES ASSUME calls # <<>>
                 PROVE  /\ This \in Module /\ Tail(calls) \in Seq(Frame)
                        /\ Advance(calls) \in Seq(Frame)
                        /\ \A m \in Module : <<[mod |-> m, next |-> 1]>> \o Advance(calls) \in Seq(Frame)
      OBVIOUS
    <2>1. calls \in Seq(Frame) /\ <<>> \in Seq(Module)
      BY <1>0 DEF TypeOK
    <2>2. Advance(calls) \in Seq(Frame)
      BY <2>1, AdvanceIs
    <2> QED BY <1>0, <2>1, <2>2, CallIs, FrameType
  <1>C. Walking /\ calls # <<>> => This \in On
    <2>1. CallsInv
      BY DEF IInv, WalkInv
    <2> QED BY <1>0, <2>1, CallIs DEF CallsInv
  <1>D. \A m \in Module : <<[mod |-> m, next |-> 1]>> \in Seq(Frame)
    <2>1. <<>> \in Seq(Module) /\ <<>> \in Seq(Frame)
      OBVIOUS
    <2> QED BY <2>1, FrameType
  <1>1. ASSUME NEW m \in Module, Import(m) PROVE TypeOK'
    BY <1>0, <1>1 DEF Import, TypeOK, files, dfs, waits, runs, FirstIndex
  <1>2. CASE LinkEnter
    <2>1. Callee \in Module /\ Enter(Callee, "LINKING")
      BY <1>0, <1>2, CalleeIs DEF LinkEnter, Walking
    <2> QED BY <1>0, <1>2, <2>1, EnterType DEF LinkEnter, TypeOK, files, waits, runs, Status
  <1>3. CASE LinkRequired
    <2>1. Callee \in Module /\ This \in Module /\ Join(This, Callee, "LINKING") /\ Advance(calls) \in Seq(Frame)
      BY <1>0, <1>B, <1>3, CalleeIs DEF LinkRequired, Walking
    <2>2. dfs_ancestor_index' \in [Module -> Nat]
      BY <1>0, <2>1, JoinType
    <2> QED BY <1>0, <1>3, <2>1, <2>2 DEF LinkRequired, TypeOK, files, waits, runs
  <1>4. CASE LinkDone
    <2>1. calls # <<>> /\ Pop(This) /\ calls' = Tail(calls)
      BY <1>4 DEF LinkDone, AllRequired
    <2>2. stack' \in Seq(Module)
      BY <1>0, <1>B, <1>C, <1>4, <2>1, PopType DEF LinkDone, Walking
    <2>3. status' \in [Module -> Status]
      BY <1>0, <1>4 DEF LinkDone, TypeOK, Status
    <2> QED BY <1>0, <1>B, <1>4, <2>1, <2>2, <2>3 DEF LinkDone, TypeOK, files, dfs, waits, runs
  <1>5. CASE LinkFail
    BY SMTT(30), <1>0, <1>5 DEF LinkFail, TypeOK, files, dfs, waits, runs, Idle, Status
  <1>6. CASE EvaluateModule
    <2>1. PromiseModule(root) \in Module
      BY <1>0, <1>6 DEF IInv, RootInv, PromiseModule, FrameInv, EvaluateModule, Walking
    <2>2. /\ promise' \in [Module -> {"none", "pending", "fulfilled", "rejected"}]
          /\ phase' \in {"idle", "evaluate"} /\ root' \in Module \cup {None} /\ index' \in Nat
      <3>1. \/ promise' = promise /\ index' = index /\ Idle
            \/ /\ promise' = [promise EXCEPT ![PromiseModule(root)] = "pending"]
               /\ phase' = "evaluate" /\ root' = PromiseModule(root) /\ index' = 0
        BY <1>6 DEF EvaluateModule, FirstIndex
      <3>2. /\ promise \in [Module -> {"none", "pending", "fulfilled", "rejected"}] /\ index \in Nat
        BY <1>0 DEF TypeOK
      <3>3. CASE promise' = promise /\ index' = index /\ Idle
        BY <3>2, <3>3 DEF Idle
      <3>4. CASE /\ promise' = [promise EXCEPT ![PromiseModule(root)] = "pending"]
                 /\ phase' = "evaluate" /\ root' = PromiseModule(root) /\ index' = 0
        BY <2>1, <3>2, <3>4
      <3> QED BY <3>1, <3>3, <3>4
    <2> QED BY <1>0, <1>6, <2>2 DEF EvaluateModule, TypeOK, files, dfs, waits, runs
  <1>7. CASE EvalEnter
    <2>1. Callee \in Module /\ Enter(Callee, "EVALUATING")
      BY <1>0, <1>7, CalleeIs DEF EvalEnter, Walking
    <2>2. pending_async_dependencies' \in [Module -> Int]
      BY <1>0, <1>7, <2>1 DEF EvalEnter, TypeOK
    <2> QED BY <1>0, <1>7, <2>1, <2>2, EnterType DEF EvalEnter, TypeOK, files, runs, Status
  <1>8. CASE EvalRequired
    <2>1. Callee \in Module /\ This \in Module /\ Join(This, Callee, "EVALUATING") /\ Advance(calls) \in Seq(Frame)
      BY <1>0, <1>B, <1>8, CalleeIs DEF EvalRequired, Walking
    <2>2. dfs_ancestor_index' \in [Module -> Nat]
      BY <1>0, <2>1, JoinType
    <2>3. pending_async_dependencies' \in [Module -> Int]
      BY <1>0, <1>8 DEF EvalRequired, TypeOK
    <2>4. async_parent_modules' \in [Module -> Seq(Module)]
      <3>1. \A y \in Module : Append(async_parent_modules[y], This) \in Seq(Module)
        BY <1>0, <2>1 DEF TypeOK
      <3>2. async_parent_modules \in [Module -> Seq(Module)]
        BY <1>0 DEF TypeOK
      <3>3. \/ async_parent_modules' = async_parent_modules
            \/ async_parent_modules' = [async_parent_modules EXCEPT ![Representative(Callee)] =
                                          Append(async_parent_modules[Representative(Callee)], This)]
        BY <1>8 DEF EvalRequired
      <3> QED BY <3>1, <3>2, <3>3
    <2> QED BY <1>0, <1>8, <2>1, <2>2, <2>3, <2>4 DEF EvalRequired, TypeOK, files, runs
  <1>9. ASSUME Unwind, phase = "evaluate"
        PROVE  /\ status' \in [Module -> Status] /\ eval_has_exception' \in [Module -> BOOLEAN]
               /\ cycle_root' \in [Module -> Module \cup {None}]
               /\ promise' \in [Module -> {"none", "pending", "fulfilled", "rejected"}]
               /\ stack' \in Seq(Module) /\ calls' \in Seq(Frame) /\ phase' = "idle"
               /\ root' \in Module \cup {None}
    <2>1. status' \in [Module -> Status] /\ eval_has_exception' \in [Module -> BOOLEAN]
      BY <1>0, <1>9 DEF Unwind, TypeOK, Status
    <2>2. cycle_root' \in [Module -> Module \cup {None}]
      BY <1>0, <1>9 DEF Unwind, TypeOK
    <2>3. promise' \in [Module -> {"none", "pending", "fulfilled", "rejected"}]
      BY <1>0, <1>9, SettleType DEF Unwind
    <2> QED BY <1>9, <2>1, <2>2, <2>3 DEF Unwind, Idle
  <1>10. CASE EvalFail
    BY <1>0, <1>9, <1>10 DEF EvalFail, TypeOK, files, dfs, waits, runs
  <1>11. CASE EvalDone
    <2>1. calls # <<>> /\ Pop(This) /\ calls' = Tail(calls)
      BY <1>11 DEF EvalDone, AllRequired
    <2>2. stack' \in Seq(Module) /\ This \in Module
      BY <1>0, <1>B, <1>C, <1>11, <2>1, PopType DEF EvalDone, Walking
    <2>3. /\ async_evaluation' \in [Module -> BOOLEAN]
          /\ async_evaluation_timestamp' \in [Module -> Nat] /\ next_timestamp' \in Nat
          /\ body' \in [Module -> {"unrun", "running", "done", "threw"}] /\ ran' \in Seq(Module)
      <3>1. /\ async_evaluation' \in [Module -> BOOLEAN]
            /\ async_evaluation_timestamp' \in [Module -> Nat] /\ next_timestamp' \in Nat
        <4>1. \/ BecomeAsync(This)
              \/ UNCHANGED <<async_evaluation, async_evaluation_timestamp, next_timestamp>>
          BY <1>11 DEF EvalDone
        <4>2. /\ async_evaluation \in [Module -> BOOLEAN]
              /\ async_evaluation_timestamp \in [Module -> Nat] /\ next_timestamp \in Nat
          BY <1>0 DEF TypeOK
        <4>3. CASE BecomeAsync(This)
          <5>1. async_evaluation' = [async_evaluation EXCEPT ![This] = TRUE]
            BY <4>3 DEF BecomeAsync
          <5>2. async_evaluation' \in [Module -> BOOLEAN]
            BY <4>2, <5>1
          <5>3. /\ async_evaluation_timestamp' = [async_evaluation_timestamp EXCEPT ![This] = next_timestamp]
                /\ next_timestamp' = next_timestamp + 1
            BY <4>3 DEF BecomeAsync
          <5>4. async_evaluation_timestamp' \in [Module -> Nat] /\ next_timestamp' \in Nat
            <6>1. async_evaluation_timestamp \in [Module -> Nat] /\ next_timestamp \in Nat
              BY <1>0 DEF TypeOK
            <6>2. next_timestamp' \in Nat
              BY <5>3, <6>1
            <6>3. async_evaluation_timestamp' \in [Module -> Nat]
              BY <5>3, <6>1
            <6> QED BY <6>2, <6>3
          <5> QED BY <5>2, <5>4
        <4> QED BY <4>1, <4>2, <4>3
      <3>2. UNCHANGED runs \/ Run(This, "running") \/ Run(This, "done")
        BY <1>11 DEF EvalDone
      <3>3. CASE UNCHANGED runs
        BY <1>0, <3>1, <3>3 DEF runs, TypeOK
      <3> QED BY <1>0, <2>2, <3>1, <3>2, <3>3, RunType
    <2>4. status' \in [Module -> Status] /\ cycle_root' \in [Module -> Module \cup {None}]
      BY <1>0, <1>11, <2>2 DEF EvalDone, TypeOK, Status
    <2>5. /\ UNCHANGED <<req, has_tla, broken, phase, root, index, dfs_index, dfs_ancestor_index,
                         pending_async_dependencies, async_parent_modules, eval_has_exception,
                         promise, exec_list>>
      BY <1>11 DEF EvalDone, files, dfs
    <2> QED BY <1>0, <1>B, <2>1, <2>2, <2>3, <2>4, <2>5 DEF TypeOK
  <1>12. CASE EvalThrow
    <2>1. /\ body' \in [Module -> {"unrun", "running", "done", "threw"}] /\ ran' \in Seq(Module)
      BY <1>0, <1>B, <1>12 DEF EvalThrow, AllRequired, Run, TypeOK
    <2> QED BY <1>0, <1>9, <1>12, <2>1 DEF EvalThrow, TypeOK, files, dfs, waits
  <1>13. CASE EvaluateReturn
    <2>1. promise' \in [Module -> {"none", "pending", "fulfilled", "rejected"}]
      BY <1>0, <1>13, SettleType DEF EvaluateReturn, TypeOK
    <2> QED BY <1>0, <1>13, <2>1 DEF EvaluateReturn, TypeOK, files, dfs, waits, runs, Idle
  <1>14. ASSUME NEW m \in Module, Fulfilled(m) PROVE TypeOK'
    <2>1. /\ body' \in [Module -> {"unrun", "running", "done", "threw"}]
          /\ phase' \in {"idle", "gather"} /\ status' \in [Module -> Status]
          /\ promise' \in [Module -> {"none", "pending", "fulfilled", "rejected"}]
          /\ async_evaluation' \in [Module -> BOOLEAN]
      BY <1>0, <1>14 DEF Fulfilled, TypeOK, SetEvaluated, Settle, Status
    <2>2. calls' \in Seq(Frame)
      BY <1>0, <1>D, <1>14 DEF Fulfilled, TypeOK
    <2> QED BY <1>0, <1>14, <2>1, <2>2 DEF Fulfilled, TypeOK, files, dfs
  <1>15. CASE GatherParent
    <2>1. Parent \in Module /\ calls # <<>>
      BY <1>0, <1>15, ParentIs DEF GatherParent
    <2>2. calls' \in Seq(Frame)
      BY <1>0, <1>B, <1>15, <2>1 DEF GatherParent
    <2>3. pending_async_dependencies' \in [Module -> Int] /\ exec_list' \subseteq Module
      BY SMTT(30), <1>0, <1>15, <2>1 DEF GatherParent, TypeOK
    <2> QED BY <1>0, <1>15, <2>2, <2>3 DEF GatherParent, TypeOK, files, dfs, runs
  <1>16. CASE GatherReturn
    <2>1. Tail(calls) \in Seq(Frame) /\ phase' \in {"exec", "gather"}
      BY <1>0, <1>B, <1>16 DEF GatherReturn, FrameInv
    <2> QED BY <1>0, <1>16, <2>1 DEF GatherReturn, TypeOK, files, dfs, waits, runs
  <1>17. ASSUME NEW m \in Module, ExecSkip(m) PROVE TypeOK'
    BY <1>0, <1>17 DEF ExecSkip, TypeOK, files, walk, dfs, waits, runs
  <1>18. ASSUME NEW m \in Module, ExecAsync(m) PROVE TypeOK'
    <2>1. /\ body' \in [Module -> {"unrun", "running", "done", "threw"}] /\ ran' \in Seq(Module)
      BY <1>0, <1>18, RunType DEF ExecAsync
    <2> QED BY <1>0, <1>18, <2>1 DEF ExecAsync, TypeOK, files, walk, dfs, waits
  <1>19. ASSUME NEW m \in Module, ExecSync(m) PROVE TypeOK'
    <2>1. /\ body' \in [Module -> {"unrun", "running", "done", "threw"}] /\ ran' \in Seq(Module)
      BY <1>0, <1>19, RunType DEF ExecSync
    <2>2. promise' \in [Module -> {"none", "pending", "fulfilled", "rejected"}]
      BY <1>0, <1>19, SettleType DEF ExecSync, SetEvaluated
    <2> QED BY <1>0, <1>19, <2>1, <2>2 DEF ExecSync, SetEvaluated, TypeOK, files, walk, dfs, waits, Status
  <1>20. ASSUME NEW m \in Module, ExecThrow(m) PROVE TypeOK'
    <2>1. <<[mod |-> m, next |-> 1]>> \in Seq(Frame)
      BY <1>D
    <2>2. /\ body' \in [Module -> {"unrun", "running", "done", "threw"}] /\ ran' \in Seq(Module)
      BY <1>0, <1>20, RunType DEF ExecThrow
    <2> QED BY <1>0, <1>20, <2>1, <2>2 DEF ExecThrow, Reject, TypeOK, files, dfs, waits, Status
  <1>21. CASE ExecEnd
    BY <1>0, <1>21 DEF ExecEnd, TypeOK, files, dfs, waits, runs
  <1>22. ASSUME NEW m \in Module, Rejected(m) PROVE TypeOK'
    <2>1. <<[mod |-> m, next |-> 1]>> \in Seq(Frame)
      BY <1>D
    <2> QED BY <1>0, <1>22, <2>1 DEF Rejected, Reject, TypeOK, files, dfs, waits, Status
  <1>23. CASE RejectParent
    <2>1. Parent \in Module /\ calls # <<>>
      BY <1>0, <1>23, ParentIs DEF RejectParent
    <2>2. calls' \in Seq(Frame)
      BY <1>0, <1>B, <1>23, <2>1 DEF RejectParent
    <2> QED BY <1>0, <1>23, <2>1, <2>2 DEF RejectParent, TypeOK, files, dfs, waits, runs, Status
  <1>24. CASE RejectReturn
    <2>1. Tail(calls) \in Seq(Frame) /\ phase' \in {"exec", "reject"}
      BY <1>0, <1>B, <1>24 DEF RejectReturn, FrameInv
    <2> QED BY <1>0, <1>24, <2>1 DEF RejectReturn, Settle, TypeOK, files, dfs, waits, runs
  <1>25. CASE UNCHANGED vars
    BY <1>0, <1>25 DEF vars, files, walk, dfs, waits, runs, TypeOK
  <1> QED
    BY <1>1, <1>2, <1>3, <1>4, <1>5, <1>6, <1>7, <1>8, <1>10, <1>11, <1>12, <1>13, <1>14, <1>15,
       <1>16, <1>17, <1>18, <1>19, <1>20, <1>21, <1>22, <1>23, <1>24, <1>25
    DEF Next, Link, Evaluate, Reaction, Await
----------------------------------------------------------------------------
(* The walk *)

\* What the stack and the calls hold are modules
LEMMA OnIs ==
  ASSUME TypeOK
  PROVE  /\ Len(stack) \in Nat /\ Len(calls) \in Nat
         /\ \A i \in 1..Len(stack) : stack[i] \in On /\ stack[i] \in Module
         /\ On \subseteq Module
         /\ \A x \in On : \E i \in 1..Len(stack) : stack[i] = x
         /\ \A k \in 1..Len(calls) : calls[k].mod \in Module /\ calls[k].next \in Nat
                                     /\ calls[k].mod \in Called
         /\ \A x \in Module : req[x] \in Seq(Module) /\ Len(req[x]) \in Nat
         /\ \A x \in Module : \A n \in 1..Len(req[x]) : req[x][n] \in Module
         /\ index \in Nat
         /\ \A x \in Module : dfs_index[x] \in Nat /\ dfs_ancestor_index[x] \in Nat
  <1>1. stack \in Seq(Module) /\ calls \in Seq(Frame)
    BY DEF TypeOK
  <1>2. DOMAIN stack = 1..Len(stack) /\ Len(stack) \in Nat /\ Len(calls) \in Nat
    BY <1>1
  <1>3. \A k \in 1..Len(calls) : calls[k] \in Frame
    BY <1>1
  <1>4. \A x \in Module : req[x] \in Seq(Module)
    BY DEF TypeOK
  <1>5. \A i \in 1..Len(stack) : stack[i] \in Module
    BY <1>1
  <1>6. \A i \in 1..Len(stack) : stack[i] \in On
    BY <1>2 DEF On, Range
  <1>7. On \subseteq Module /\ \A x \in On : \E i \in 1..Len(stack) : stack[i] = x
    BY <1>2, <1>5 DEF On, Range
  <1>8. \A k \in 1..Len(calls) : calls[k].mod \in Module /\ calls[k].next \in Nat
                                 /\ calls[k].mod \in Called
    BY <1>3 DEF Called, Frame
  <1>9. \A x \in Module : \A n \in 1..Len(req[x]) : req[x][n] \in Module
    BY <1>4
  <1>10. \A x \in Module : Len(req[x]) \in Nat
    BY <1>4
  <1>11. /\ index \in Nat
         /\ \A x \in Module : dfs_index[x] \in Nat /\ dfs_ancestor_index[x] \in Nat
    BY DEF TypeOK
  <1> QED BY <1>2, <1>4, <1>5, <1>6, <1>7, <1>8, <1>9, <1>10, <1>11

\* A call for a new module: the walk goes one deeper
LEMMA EnterKeeps ==
  ASSUME TypeOK, FrameInv, WalkInv, Walking, ~AllRequired, status[Callee] = Unseen,
         Enter(Callee, OnStack), req' = req
  PROVE  FrameInv' /\ WalkInv'
  <1> DEFINE m == Callee
             f == [mod |-> m, next |-> 1]
  <1>0. /\ m \in Module
        /\ calls = <<>> => m = root
        /\ calls # <<>> => Next1 \in 1..Len(req[This]) /\ m = req[This][Next1]
    BY CalleeIs
  <1>1. calls # <<>> => This = calls[1].mod /\ Next1 = calls[1].next /\ 1 \in 1..Len(calls)
    BY CallIs
  <1>2. status[m] = Unseen
    OBVIOUS
  <1>3. /\ status' = [status EXCEPT ![m] = OnStack]
        /\ dfs_index' = [dfs_index EXCEPT ![m] = index]
        /\ dfs_ancestor_index' = [dfs_ancestor_index EXCEPT ![m] = index]
        /\ index' = index + 1 /\ stack' = <<m>> \o stack /\ calls' = <<f>> \o calls
        /\ phase' = phase /\ root' = root
    BY DEF Enter
  <1> HIDE DEF m
  <1>4. /\ Len(calls') = Len(calls) + 1 /\ calls'[1] = f /\ calls' # <<>>
        /\ \A i \in 2..Len(calls') : calls'[i] = calls[i - 1] /\ i - 1 \in 1..Len(calls)
        /\ \A i \in 1..Len(calls) : calls'[i + 1] = calls[i]
    <2>1. f \in Frame /\ calls \in Seq(Frame)
      BY <1>0 DEF Frame, TypeOK
    <2> QED BY <1>3, <2>1, Push
  <1>5. /\ Len(stack') = Len(stack) + 1 /\ stack'[1] = m
        /\ \A i \in 2..Len(stack') : stack'[i] = stack[i - 1] /\ i - 1 \in 1..Len(stack)
        /\ On' = On \cup {m}
    <2>1. stack \in Seq(Module)
      BY DEF TypeOK
    <2> QED BY <1>0, <1>3, <2>1, Push DEF On
  <1>6. /\ Len(stack) \in Nat /\ Len(calls) \in Nat /\ index \in Nat
        /\ \A i \in 1..Len(stack) : stack[i] \in On
        /\ On \subseteq Module
        /\ \A x \in Module : dfs_index[x] \in Nat /\ dfs_ancestor_index[x] \in Nat
        /\ \A k \in 1..Len(calls) : calls[k].mod \in Module /\ calls[k].next \in Nat
                                    /\ calls[k].mod \in Called
        /\ \A x \in Module : \A n \in 1..Len(req[x]) : req[x][n] \in Module
        /\ \A x \in Module : Len(req[x]) \in Nat
    BY OnIs
  <1>7. StackInv /\ CallsInv /\ EdgeInv /\ OwnerInv /\ LinkedInv
    BY DEF WalkInv
  <1>8. m \notin On
    BY <1>0, <1>2, <1>7 DEF StackInv, Unseen
  <1>9. /\ \A x \in Module : x # m => status'[x] = status[x] /\ dfs_index'[x] = dfs_index[x]
                                 /\ dfs_ancestor_index'[x] = dfs_ancestor_index[x]
        /\ status'[m] = OnStack /\ dfs_index'[m] = index /\ dfs_ancestor_index'[m] = index
    BY <1>0, <1>3 DEF TypeOK
  <1>10. \A k \in 1..Len(calls) : calls[k].mod \in On /\ calls[k].mod # m
    BY <1>7, <1>8 DEF CallsInv
  <1>11. Walking' /\ (OnStack = OnStack') /\ (Unseen = Unseen') /\ f.mod = m /\ f.next = 1
    BY <1>3 DEF Walking, OnStack, Unseen
  <1>12. \A k \in 1..Len(calls') : k = 1 \/ k \in 2..Len(calls')
    BY <1>4, <1>6
  <1> HIDE DEF f
  <1>13. FrameInv'
    <2>1. \A k \in 1..Len(calls') : calls'[k].next \in 1..Len(req[calls'[k].mod]) + 1
      <3> SUFFICES ASSUME NEW k \in 1..Len(calls')
                   PROVE  calls'[k].next \in 1..Len(req[calls'[k].mod]) + 1
        OBVIOUS
      <3>1. CASE k = 1
        BY <1>0, <1>4, <1>6, <1>11, <3>1
      <3>2. CASE k \in 2..Len(calls')
        <4>1. \A l \in 1..Len(calls) : calls[l].next \in 1..Len(req[calls[l].mod]) + 1
          BY DEF FrameInv, Entries, Walking
        <4> QED BY <1>4, <3>2, <4>1
      <3> QED BY <1>12, <3>1, <3>2
    <2> QED BY <1>3, <1>4, <1>11, <2>1 DEF FrameInv, Entries, Walking
  <1>14. StackInv'
    <2>1. \A x \in Module : x \in On' <=> status'[x] \in {"LINKING", "EVALUATING"}
      BY <1>5, <1>7, <1>9 DEF StackInv, OnStack
    <2>2. \A x \in On' : status'[x] = OnStack
      BY <1>5, <1>6, <1>7, <1>8, <1>9 DEF StackInv
    <2>3. \A i, j \in 1..Len(stack') : i < j => dfs_index'[stack'[i]] > dfs_index'[stack'[j]]
      <3> SUFFICES ASSUME NEW i \in 1..Len(stack'), NEW j \in 1..Len(stack'), i < j
                   PROVE  dfs_index'[stack'[i]] > dfs_index'[stack'[j]]
        OBVIOUS
      <3>1. j \in 2..Len(stack')
        BY <1>5, <1>6
      <3>2. stack'[j] = stack[j - 1] /\ stack[j - 1] \in On
        BY <1>5, <1>6, <3>1
      <3>3. dfs_index'[stack'[j]] = dfs_index[stack[j - 1]] /\ dfs_index[stack[j - 1]] < index
        BY <1>6, <1>7, <1>8, <1>9, <3>2 DEF StackInv
      <3>4. CASE i = 1
        BY <1>5, <1>6, <1>9, <3>2, <3>3, <3>4
      <3>5. CASE i # 1
        <4>1. i \in 2..Len(stack') /\ i - 1 < j - 1
          BY <1>5, <1>6, <3>5
        <4>2. stack'[i] = stack[i - 1] /\ stack[i - 1] \in On /\ i - 1 \in 1..Len(stack)
              /\ j - 1 \in 1..Len(stack)
          BY <1>5, <1>6, <3>1, <4>1
        <4>3. dfs_index[stack[i - 1]] > dfs_index[stack[j - 1]]
          BY <1>7, <4>1, <4>2 DEF StackInv
        <4> QED BY SMTT(30), <1>6, <1>8, <1>9, <3>2, <4>2, <4>3
      <3> QED BY <3>4, <3>5
    <2>4. \A x \in On' : dfs_index'[x] < index' /\ dfs_ancestor_index'[x] <= dfs_index'[x]
      BY <1>3, <1>5, <1>6, <1>7, <1>8, <1>9 DEF StackInv
    <2> QED BY <1>11, <2>1, <2>2, <2>3, <2>4 DEF StackInv
  <1>15. CallsInv'
    <2>1. \A k \in 1..Len(calls') : calls'[k].mod \in On'
      BY <1>4, <1>5, <1>10, <1>11, <1>12
    <2>2. \A k, l \in 1..Len(calls') :
            k < l => dfs_index'[calls'[k].mod] > dfs_index'[calls'[l].mod]
      <3> SUFFICES ASSUME NEW k \in 1..Len(calls'), NEW l \in 1..Len(calls'), k < l
                   PROVE  dfs_index'[calls'[k].mod] > dfs_index'[calls'[l].mod]
        OBVIOUS
      <3>1. l \in 2..Len(calls')
        BY <1>4, <1>6
      <3>2. calls'[l] = calls[l - 1] /\ l - 1 \in 1..Len(calls)
        BY <1>4, <3>1
      <3>3. dfs_index'[calls'[l].mod] = dfs_index[calls[l - 1].mod] /\ dfs_index[calls[l - 1].mod] < index
        BY <1>6, <1>7, <1>9, <1>10, <3>2 DEF StackInv
      <3>4. CASE k = 1
        BY <1>4, <1>6, <1>9, <1>11, <3>2, <3>3, <3>4
      <3>5. CASE k \in 2..Len(calls')
        <4>1. calls'[k] = calls[k - 1] /\ k - 1 \in 1..Len(calls) /\ k - 1 < l - 1
          BY <1>4, <1>6, <3>5
        <4>2. dfs_index[calls[k - 1].mod] > dfs_index[calls[l - 1].mod]
          BY <1>7, <3>2, <4>1 DEF CallsInv
        <4> QED BY <1>6, <1>9, <1>10, <3>3, <4>1, <4>2
      <3> QED BY <1>12, <3>4, <3>5
    <2>3. ASSUME NEW k \in 2..Len(calls')
          PROVE  /\ calls'[k].next <= Len(req[calls'[k].mod])
                 /\ req[calls'[k].mod][calls'[k].next] = calls'[k - 1].mod
      <3>1. calls'[k] = calls[k - 1] /\ k - 1 \in 1..Len(calls)
        BY <1>4, <2>3
      <3>2. calls # <<>>
        BY <1>6, <3>1, EmptySeq
      <3>3. CASE k = 2
        <4>1. calls'[k] = calls[1] /\ calls'[k - 1] = f
          BY <1>4, <3>1, <3>3
        <4> QED BY <1>0, <1>1, <1>6, <1>11, <3>2, <4>1
      <3>4. CASE k # 2
        <4>1. k - 1 \in 2..Len(calls) /\ k - 1 \in 2..Len(calls') /\ (k - 1) - 1 = k - 2
          BY <1>4, <1>6, <3>4
        <4>2. calls'[k - 1] = calls[k - 2]
          BY <1>4, <4>1
        <4>3. /\ calls[k - 1].next <= Len(req[calls[k - 1].mod])
              /\ req[calls[k - 1].mod][calls[k - 1].next] = calls[(k - 1) - 1].mod
          BY <1>7, <4>1 DEF CallsInv
        <4> QED BY <3>1, <4>1, <4>2, <4>3
      <3> QED BY <3>3, <3>4
    <2>4. calls'[Len(calls')].mod = root' /\ dfs_index'[root'] = 0
      <3>1. CASE calls = <<>>
        <4>1. Len(calls') = 1 /\ m = root
          BY <1>0, <1>4, <3>1
        <4>2. index = 0
          BY <1>2, <1>7, <3>1, <4>1 DEF CallsInv
        <4> QED BY <1>3, <1>4, <1>9, <1>11, <4>1, <4>2
      <3>2. CASE calls # <<>>
        <4>1. Len(calls) \in 1..Len(calls)
          BY <1>1, <1>6, <3>2
        <4>2. calls'[Len(calls')] = calls[Len(calls)]
          BY <1>4, <4>1
        <4>3. calls[Len(calls)].mod = root /\ dfs_index[root] = 0
          BY <1>7, <3>2 DEF CallsInv
        <4> QED BY <1>3, <1>6, <1>9, <1>10, <4>1, <4>2, <4>3
      <3> QED BY <3>1, <3>2
    <2> QED BY <1>3, <1>4, <2>1, <2>2, <2>3, <2>4 DEF CallsInv
  <1>16. \A y \in Module : Settled(y) => Settled(y)' /\ y # m
    <2> SUFFICES ASSUME NEW y \in Module, Settled(y) PROVE Settled(y)' /\ y # m
      OBVIOUS
    <2>1. y # m
      BY <1>2 DEF Settled, Unseen, Linked, Ended
    <2> QED BY <1>3, <1>9, <2>1 DEF Settled
  <1>17. EdgeInv'
    <2> SUFFICES ASSUME NEW x \in On', NEW n \in 1..Len(req[x]), Passed(x, n)'
                 PROVE  \/ Settled(req[x][n])'
                        \/ /\ req[x][n] \in On'
                           /\ dfs_ancestor_index'[x] <= dfs_index'[req[x][n]]
      BY <1>3 DEF EdgeInv
    <2>0. x \in Module
      BY <1>0, <1>5, <1>6
    <2>00. n \in Nat /\ n >= 1
      BY <1>6, <2>0
    <2>1. x # m
      <3>1. 1 \in 1..Len(calls')
        BY <1>4, <1>6
      <3>2. calls'[1].mod = x => n < calls'[1].next
        BY <3>1 DEF Passed
      <3> QED BY <1>4, <1>11, <2>00, <3>2
    <2>2. Passed(x, n)
      <3> SUFFICES ASSUME NEW k \in 1..Len(calls), calls[k].mod = x PROVE n < calls[k].next
        BY DEF Passed
      <3>1. k + 1 \in 1..Len(calls') /\ calls'[k + 1] = calls[k]
        BY <1>4, <1>6
      <3> QED BY <3>1 DEF Passed
    <2>3. x \in On
      BY <1>5, <2>1
    <2>4. req[x][n] \in Module
      BY <1>6, <2>0
    <2>5. Settled(req[x][n]) \/ (req[x][n] \in On /\ dfs_ancestor_index[x] <= dfs_index[req[x][n]])
      BY <1>7, <2>2, <2>3 DEF EdgeInv
    <2> QED BY <1>5, <1>8, <1>9, <1>16, <2>0, <2>1, <2>4, <2>5
  <1>18. OwnerInv'
    <2> SUFFICES ASSUME NEW x \in On' \ Called', NEW k \in 1..Len(calls'), Owner(k, x)'
                 PROVE  dfs_ancestor_index'[calls'[k].mod] <= dfs_ancestor_index'[x]
      BY DEF OwnerInv
    <2>1. m \in Called'
      <3>1. 1 \in 1..Len(calls')
        BY <1>4, <1>6
      <3> QED BY <1>4, <1>11, <3>1 DEF Called
    <2>2. x \in On /\ x # m /\ x \in Module
      BY <1>5, <1>6, <2>1
    <2>3. x \notin Called
      <3> SUFFICES ASSUME NEW l \in 1..Len(calls), calls[l].mod = x PROVE FALSE
        BY DEF Called
      <3>1. l + 1 \in 1..Len(calls') /\ calls'[l + 1] = calls[l]
        BY <1>4, <1>6
      <3> QED BY <3>1 DEF Called
    <2>4. /\ dfs_index'[calls'[k].mod] <= dfs_index'[x]
          /\ k > 1 => dfs_index'[calls'[k - 1].mod] > dfs_index'[x]
      BY DEF Owner
    <2>5. dfs_index'[x] = dfs_index[x] /\ dfs_index[x] < index
          /\ dfs_ancestor_index'[x] = dfs_ancestor_index[x]
      BY <1>7, <1>9, <2>2 DEF StackInv
    <2>6. k # 1
      BY <1>4, <1>6, <1>9, <1>11, <2>2, <2>4, <2>5
    <2>7. k \in 2..Len(calls') /\ calls'[k] = calls[k - 1] /\ k - 1 \in 1..Len(calls)
      BY <1>4, <1>12, <2>6
    <2>8. Owner(k - 1, x)
      <3>1. dfs_index[calls[k - 1].mod] <= dfs_index[x]
        BY <1>6, <1>9, <1>10, <2>4, <2>5, <2>7
      <3>2. ASSUME k - 1 > 1 PROVE dfs_index[calls[(k - 1) - 1].mod] > dfs_index[x]
        <4>1. k - 1 \in 2..Len(calls') /\ k > 1
          BY <1>4, <1>6, <2>7, <3>2
        <4>2. calls'[k - 1] = calls[(k - 1) - 1] /\ (k - 1) - 1 \in 1..Len(calls)
          BY <1>4, <4>1
        <4> QED BY <1>6, <1>9, <1>10, <2>4, <2>5, <4>1, <4>2
      <3> QED BY <3>1, <3>2 DEF Owner
    <2>9. ~Returned(Callee)
      BY <1>8 DEF Returned, m
    <2>10. dfs_ancestor_index[calls[k - 1].mod] <= dfs_ancestor_index[x]
      BY <1>7, <2>2, <2>3, <2>7, <2>8, <2>9 DEF OwnerInv
    <2> QED BY <1>6, <1>9, <1>10, <2>5, <2>7, <2>10
  <1>19. LinkedInv'
    <2>1. \A y \in Module : status[y] \in Linked => status'[y] \in Linked
      BY <1>2, <1>9 DEF Linked, Unseen, OnStack, Ended
    <2>2. \A x \in Module : status'[x] \in Linked => status[x] \in Linked
      BY <1>2, <1>9 DEF Linked, Unseen, OnStack, Ended
    <2> QED BY <1>6, <1>7, <2>1, <2>2 DEF LinkedInv
  <1> QED BY <1>13, <1>14, <1>15, <1>17, <1>18, <1>19 DEF WalkInv
\* A call for a module seen before: the walk goes on to the next request
LEMMA RequiredKeeps ==
  ASSUME TypeOK, FrameInv, WalkInv, Walking, calls # <<>>, ~AllRequired, status[Callee] # Unseen,
         Join(This, Callee, OnStack), calls' = Advance(calls), TypeOK',
         UNCHANGED <<req, phase, root, stack, index, status, dfs_index>>
  PROVE  FrameInv' /\ WalkInv'
  <1> DEFINE m == Callee
             t == This
  <1>0. m \in Module /\ Next1 \in 1..Len(req[t]) /\ m = req[t][Next1]
    BY CalleeIs
  <1>1. /\ t = calls[1].mod /\ Next1 = calls[1].next /\ 1 \in 1..Len(calls)
        /\ t \in Module /\ t \in Called
    BY CallIs
  <1>2. /\ Len(calls') = Len(calls) /\ calls' # <<>>
        /\ calls'[1] = [mod |-> t, next |-> Next1 + 1]
        /\ \A k \in 2..Len(calls) : calls'[k] = calls[k]
        /\ \A k \in 1..Len(calls) : calls'[k].mod = calls[k].mod
    <2>1. calls \in Seq(Frame)
      BY DEF TypeOK
    <2> QED BY <1>1, <2>1, AdvanceIs
  <1>3. /\ Len(stack) \in Nat /\ Len(calls) \in Nat /\ index \in Nat
        /\ \A i \in 1..Len(stack) : stack[i] \in On
        /\ On \subseteq Module
        /\ \A x \in Module : dfs_index[x] \in Nat /\ dfs_ancestor_index[x] \in Nat
        /\ \A k \in 1..Len(calls) : calls[k].mod \in Module /\ calls[k].next \in Nat
                                    /\ calls[k].mod \in Called
        /\ \A x \in Module : \A n \in 1..Len(req[x]) : req[x][n] \in Module
        /\ \A x \in Module : Len(req[x]) \in Nat
    BY OnIs
  <1>4. StackInv /\ CallsInv /\ EdgeInv /\ OwnerInv /\ LinkedInv
    BY DEF WalkInv
  <1>5. /\ On' = On /\ Called' = Called /\ Walking' /\ OnStack' = OnStack /\ Unseen' = Unseen
        /\ \A y \in Module : Settled(y)' = Settled(y)
    BY <1>2 DEF On, Called, Walking, OnStack, Unseen, Settled
  <1>6. t \in On
    BY <1>1, <1>4 DEF CallsInv
  <1>7. m \in On \/ Settled(m)
    <2>1. CASE phase = "link"
      <3>1. status[m] # "UNLINKED"
        BY <2>1 DEF Unseen
      <3>2. status[m] \in Status
        BY <1>0 DEF TypeOK
      <3> QED BY <1>0, <1>4, <2>1, <3>1, <3>2 DEF StackInv, Status, Settled, Linked, Ended
    <2>2. CASE phase = "evaluate"
      <3>1. status[m] # "LINKED"
        BY <2>2 DEF Unseen
      <3>2. status[t] \in Linked
        BY <1>4, <1>6, <2>2 DEF StackInv, OnStack, Linked
      <3>3. status[m] \in Linked
        BY <1>0, <1>1, <1>4, <3>2 DEF LinkedInv
      <3> QED BY <1>0, <1>4, <2>2, <3>1, <3>3 DEF StackInv, Settled, Linked
    <2> QED BY <2>1, <2>2 DEF Walking
  <1>8. /\ \A x \in Module : x # t => dfs_ancestor_index'[x] = dfs_ancestor_index[x]
        /\ dfs_ancestor_index'[t] \in Nat
        /\ dfs_ancestor_index'[t] <= dfs_ancestor_index[t]
        /\ m \in On => dfs_ancestor_index'[t] <= dfs_ancestor_index[m]
    <2>1. dfs_ancestor_index' = IF status[m] = OnStack
                    THEN [dfs_ancestor_index EXCEPT ![t] = Min2(@, dfs_ancestor_index[m])]
                    ELSE dfs_ancestor_index
      BY DEF Join
    <2>2. m \in On => status[m] = OnStack
      BY <1>4 DEF StackInv
    <2>3. dfs_ancestor_index[t] \in Nat /\ dfs_ancestor_index[m] \in Nat
      BY <1>0, <1>1, <1>3
    <2>4. LET a == Min2(dfs_ancestor_index[t], dfs_ancestor_index[m])
          IN  a \in Nat /\ a <= dfs_ancestor_index[t] /\ a <= dfs_ancestor_index[m]
      BY <2>3 DEF Min2
    <2> HIDE DEF m, t
    <2>5. dfs_ancestor_index \in [Module -> Nat]
      BY DEF TypeOK
    <2>6. CASE status[m] = OnStack
      BY <1>1, <2>1, <2>4, <2>5, <2>6
    <2>7. CASE status[m] # OnStack
      BY <1>1, <2>1, <2>2, <2>3, <2>7
    <2> QED BY <2>6, <2>7
  <1> HIDE DEF m, t
  <1>9. FrameInv'
    <2>1. \A k \in 1..Len(calls) : calls[k].next \in 1..Len(req[calls[k].mod]) + 1
      BY DEF FrameInv, Entries, Walking
    <2>2. \A k \in 1..Len(calls') : calls'[k].next \in 1..Len(req[calls'[k].mod]) + 1
      <3> SUFFICES ASSUME NEW k \in 1..Len(calls')
                   PROVE  calls'[k].next \in 1..Len(req[calls'[k].mod]) + 1
        OBVIOUS
      <3>1. CASE k = 1
        <4>1. Len(req[t]) \in Nat
          BY <1>1, <1>3
        <4> QED BY <1>0, <1>2, <3>1, <4>1
      <3>2. CASE k # 1
        <4>1. k \in 2..Len(calls) /\ k \in 1..Len(calls)
          BY <1>2, <1>3, <3>2
        <4> QED BY <1>2, <2>1, <4>1
      <3> QED BY <3>1, <3>2
    <2>3. root' \in Module
      BY DEF FrameInv
    <2> QED BY <1>2, <2>2, <2>3 DEF FrameInv, Entries, Walking
  <1>10. StackInv'
    <2>1. \A x \in On' : dfs_index'[x] < index' /\ dfs_ancestor_index'[x] <= dfs_index'[x]
      <3> SUFFICES ASSUME NEW x \in On
                   PROVE  dfs_index[x] < index /\ dfs_ancestor_index'[x] <= dfs_index[x]
        BY <1>5
      <3>1. dfs_index[x] < index /\ dfs_ancestor_index[x] <= dfs_index[x] /\ x \in Module
        BY <1>3, <1>4 DEF StackInv
      <3> QED BY <1>3, <1>8, <3>1
    <2> QED BY <1>4, <1>5, <2>1 DEF StackInv
  <1>11. CallsInv'
    <2>1. ASSUME NEW k \in 2..Len(calls)
          PROVE  /\ calls'[k].next <= Len(req[calls'[k].mod])
                 /\ req[calls'[k].mod][calls'[k].next] = calls'[k - 1].mod
      <3>1. calls'[k] = calls[k] /\ k - 1 \in 1..Len(calls)
        BY <1>2, <1>3
      <3>2. calls'[k - 1].mod = calls[k - 1].mod
        BY <1>2, <3>1
      <3> QED BY <1>4, <3>1, <3>2 DEF CallsInv
    <2>2. /\ \A k \in 1..Len(calls') : calls'[k].mod \in On'
          /\ \A k, l \in 1..Len(calls') :
                k < l => dfs_index'[calls'[k].mod] > dfs_index'[calls'[l].mod]
      BY <1>2, <1>4, <1>5 DEF CallsInv
    <2>3. calls'[Len(calls')].mod = root' /\ dfs_index'[root'] = 0
      <3>1. Len(calls) \in 1..Len(calls)
        BY <1>1, <1>3
      <3> QED BY <1>2, <1>4, <3>1 DEF CallsInv
    <2> QED BY <1>2, <1>5, <2>1, <2>2, <2>3 DEF CallsInv
  <1>12. EdgeInv'
    <2> SUFFICES ASSUME NEW x \in On, NEW n \in 1..Len(req[x]), Passed(x, n)'
                 PROVE  \/ Settled(req[x][n])
                        \/ /\ req[x][n] \in On
                           /\ dfs_ancestor_index'[x] <= dfs_index[req[x][n]]
      BY <1>3, <1>5 DEF EdgeInv
    <2>0. x \in Module /\ req[x][n] \in Module /\ Len(req[x]) \in Nat
      BY <1>3
    <2>1. CASE x = t /\ n = Next1
      <3>1. req[x][n] = m
        BY <1>0, <2>1
      <3>2. m \in On => dfs_ancestor_index[m] <= dfs_index[m]
        BY <1>4 DEF StackInv
      <3> QED BY <1>0, <1>3, <1>7, <1>8, <2>1, <3>1, <3>2
    <2>2. CASE ~(x = t /\ n = Next1)
      <3>1. Passed(x, n)
        <4> SUFFICES ASSUME NEW k \in 1..Len(calls), calls[k].mod = x PROVE n < calls[k].next
          BY DEF Passed
        <4>1. n < calls'[k].next
          BY <1>2 DEF Passed
        <4>2. CASE k = 1
          <5>1. n < Next1 + 1 /\ n # Next1
            BY <1>1, <1>2, <2>2, <4>1, <4>2
          <5> QED BY <1>0, <1>1, <1>3, <2>0, <4>2, <5>1
        <4>3. CASE k # 1
          <5>1. k \in 2..Len(calls)
            BY <1>3, <4>3
          <5> QED BY <1>2, <4>1, <5>1
        <4> QED BY <4>2, <4>3
      <3>2. Settled(req[x][n]) \/ (req[x][n] \in On /\ dfs_ancestor_index[x] <= dfs_index[req[x][n]])
        BY <1>4, <3>1 DEF EdgeInv
      <3>3. dfs_ancestor_index'[x] <= dfs_ancestor_index[x] /\ dfs_ancestor_index'[x] \in Nat
        BY <1>3, <1>8, <2>0
      <3> QED BY <1>3, <2>0, <3>2, <3>3
    <2> QED BY <2>1, <2>2
  <1>13. OwnerInv'
    <2> SUFFICES ASSUME NEW x \in On \ Called, NEW k \in 1..Len(calls), Owner(k, x)'
                 PROVE  dfs_ancestor_index'[calls[k].mod] <= dfs_ancestor_index'[x]
      BY <1>2, <1>5 DEF OwnerInv
    <2>1. Owner(k, x)
      <3>1. k > 1 => k - 1 \in 1..Len(calls)
        BY <1>3
      <3> QED BY <1>2, <3>1 DEF Owner
    <2>2. x # t /\ x \in Module
      BY <1>1, <1>3
    <2>3. \/ dfs_ancestor_index[calls[k].mod] <= dfs_ancestor_index[x]
          \/ /\ k = 1 /\ Returned(Callee)
             /\ dfs_index[Callee] <= dfs_index[x]
             /\ dfs_ancestor_index[Callee] <= dfs_ancestor_index[x]
      BY <1>4, <2>1 DEF OwnerInv
    <2>4. calls[k].mod \in Module
      BY <1>3
    <2>5. dfs_ancestor_index'[calls[k].mod] <= dfs_ancestor_index[calls[k].mod]
          /\ dfs_ancestor_index'[calls[k].mod] \in Nat
      <3>1. CASE calls[k].mod = t
        BY <1>1, <1>8, <3>1
      <3>2. CASE calls[k].mod # t
        BY <1>3, <1>8, <2>4, <3>2
      <3> QED BY <3>1, <3>2
    <2>6. CASE dfs_ancestor_index[calls[k].mod] <= dfs_ancestor_index[x]
      BY <1>3, <1>8, <2>2, <2>4, <2>5, <2>6
    <2>7. CASE /\ k = 1 /\ Returned(m)
               /\ dfs_ancestor_index[m] <= dfs_ancestor_index[x]
      <3>1. m \in On
        BY <2>7 DEF Returned
      <3> QED BY <1>0, <1>1, <1>3, <1>8, <2>2, <2>7, <3>1
    <2> QED BY <2>3, <2>6, <2>7 DEF m
  <1>14. LinkedInv'
    BY <1>4 DEF LinkedInv
  <1> QED BY <1>9, <1>10, <1>11, <1>12, <1>13, <1>14 DEF WalkInv

\* What Pop takes away
LEMMA PopIs ==
  ASSUME TypeOK, StackInv, NEW m \in On, Pop(m)
  PROVE  /\ dfs_index[m] # dfs_ancestor_index[m] => stack' = stack /\ Popped(m) = {}
         /\ dfs_index[m] = dfs_ancestor_index[m] =>
              /\ Popped(m) = {x \in On : dfs_index[x] >= dfs_index[m]}
              /\ On' = On \ Popped(m)
              /\ stack' \in Seq(Module) /\ Len(stack') \in Nat
              /\ \A i, j \in 1..Len(stack') :
                    i < j => dfs_index[stack'[i]] > dfs_index[stack'[j]]
  <1>1. dfs_index[m] # dfs_ancestor_index[m] => stack' = stack /\ Popped(m) = {}
    BY DEF Pop, Popped
  <1>2. SUFFICES ASSUME dfs_index[m] = dfs_ancestor_index[m]
                 PROVE  /\ Popped(m) = {x \in On : dfs_index[x] >= dfs_index[m]}
                        /\ On' = On \ Popped(m)
                        /\ stack' \in Seq(Module) /\ Len(stack') \in Nat
                        /\ \A i, j \in 1..Len(stack') :
                              i < j => dfs_index[stack'[i]] > dfs_index[stack'[j]]
    BY <1>1
  <1> DEFINE p == Position(m)
             L == Len(stack)
             t == SubSeq(stack, p + 1, L)
  <1>3. /\ L \in Nat /\ On \subseteq Module /\ \A i \in 1..L : stack[i] \in On /\ stack[i] \in Module
        /\ \A x \in On : \E i \in 1..L : stack[i] = x
        /\ \A x \in Module : dfs_index[x] \in Nat
    BY OnIs
  <1>4. DOMAIN stack = 1..L
    BY DEF TypeOK
  <1>5. p \in 1..L /\ stack[p] = m
    BY <1>3, <1>4 DEF Position
  <1>6. Popped(m) = {stack[i] : i \in 1..p} /\ stack' = t
    BY <1>2 DEF Popped, Pop
  <1> HIDE DEF p
  <1>7. /\ t \in Seq(Module) /\ Len(t) = L - p
        /\ \A i \in 1..L - p : t[i] = stack[p + i]
    <2>1. p + 1 \in Int /\ L \in Int /\ \A i \in p + 1..L : stack[i] \in Module
      BY <1>3, <1>5
    <2>2. /\ t \in Seq(Module)
          /\ Len(t) = IF p + 1 <= L THEN L - (p + 1) + 1 ELSE 0
          /\ \A i \in 1..L - (p + 1) + 1 : t[i] = stack[p + 1 + i - 1]
      BY <2>1, SubSeqProperties
    <2> HIDE DEF t, L
    <2>3. L - (p + 1) + 1 = L - p /\ Len(t) = L - p
      BY <1>3, <1>5, <2>2
    <2>4. \A i \in 1..L - p : p + 1 + i - 1 = p + i
      BY <1>3, <1>5
    <2> QED BY <2>2, <2>3, <2>4
  <1> HIDE DEF t, L
  <1>8. \A i, j \in 1..L : i < j => dfs_index[stack[i]] > dfs_index[stack[j]]
    BY DEF StackInv, L
  <1>9. \A i \in 1..L : i <= p <=> dfs_index[stack[i]] >= dfs_index[m]
    <2> SUFFICES ASSUME NEW i \in 1..L PROVE i <= p <=> dfs_index[stack[i]] >= dfs_index[m]
      OBVIOUS
    <2>0. dfs_index[stack[i]] \in Nat /\ dfs_index[m] \in Nat
      BY <1>3
    <2>1. CASE i = p
      BY <1>3, <1>5, <2>0, <2>1
    <2>2. CASE i < p
      BY <1>3, <1>5, <1>8, <2>0, <2>2
    <2>3. CASE p < i
      BY <1>3, <1>5, <1>8, <2>0, <2>3
    <2> QED BY <1>3, <1>5, <2>1, <2>2, <2>3
  <1>10. Popped(m) = {x \in On : dfs_index[x] >= dfs_index[m]}
    <2>1. \A i \in 1..p : i \in 1..L /\ i <= p
      BY <1>3, <1>5
    <2>2. ASSUME NEW x \in Popped(m) PROVE x \in On /\ dfs_index[x] >= dfs_index[m]
      <3>1. PICK i \in 1..p : x = stack[i]
        BY <1>6, <2>2
      <3> QED BY <1>3, <1>9, <2>1, <3>1
    <2>3. ASSUME NEW x \in On, dfs_index[x] >= dfs_index[m] PROVE x \in Popped(m)
      <3>1. PICK i \in 1..L : stack[i] = x
        BY <1>3
      <3>2. i \in 1..p
        BY <1>3, <1>5, <1>9, <2>3, <3>1
      <3> QED BY <1>6, <3>1, <3>2
    <2> QED BY <2>2, <2>3
  <1>11. \A i \in 1..L - p : p + i \in 1..L /\ ~(p + i <= p)
    BY <1>3, <1>5
  <1>12. On' = On \ Popped(m)
    <2>0. DOMAIN t = 1..L - p
      BY <1>7
    <2>1. ASSUME NEW x \in On' PROVE x \in On \ Popped(m)
      <3>1. PICK i \in 1..L - p : x = t[i]
        BY <1>6, <2>0, <2>1 DEF On, Range
      <3>2. x = stack[p + i] /\ p + i \in 1..L /\ ~(p + i <= p)
        BY <1>7, <1>11, <3>1
      <3> QED BY <1>3, <1>9, <1>10, <3>2
    <2>2. ASSUME NEW x \in On \ Popped(m) PROVE x \in On'
      <3>1. PICK i \in 1..L : stack[i] = x
        BY <1>3
      <3>2. ~(i <= p)
        BY <1>9, <1>10, <3>1
      <3>3. i - p \in 1..L - p /\ p + (i - p) = i
        BY <1>3, <1>5, <3>2
      <3>4. t[i - p] = x
        BY <1>7, <3>1, <3>3
      <3> QED BY <1>6, <2>0, <3>3, <3>4 DEF On, Range
    <2> QED BY <2>1, <2>2
  <1>13. \A i, j \in 1..L - p : i < j => dfs_index[t[i]] > dfs_index[t[j]]
    <2> SUFFICES ASSUME NEW i \in 1..L - p, NEW j \in 1..L - p, i < j
                 PROVE  dfs_index[t[i]] > dfs_index[t[j]]
      OBVIOUS
    <2>1. t[i] = stack[p + i] /\ t[j] = stack[p + j] /\ p + i < p + j
      BY <1>3, <1>5, <1>7
    <2> QED BY <1>8, <1>11, <2>1
  <1>14. Len(t) = L - p /\ L - p \in Nat
    BY <1>3, <1>5, <1>7
  <1> QED BY <1>6, <1>7, <1>10, <1>12, <1>13, <1>14

\* A call that ends, with or without a component to pop
LEMMA DoneKeeps ==
  ASSUME TypeOK, FrameInv, WalkInv, Walking, AllRequired,
         NEW t, t = This, Pop(t), calls' = Tail(calls), TypeOK',
         \A x \in Popped(t) : status'[x] \in IF phase = "link" THEN {"LINKED"} ELSE Ended,
         \A x \in Module \ Popped(t) : status'[x] = status[x],
         UNCHANGED <<req, phase, root, index, dfs_index, dfs_ancestor_index>>
  PROVE  /\ FrameInv' /\ WalkInv'
         /\ Popped(t) \subseteq On /\ On' = On \ Popped(t)
         /\ Called' = Called \ {t}
         /\ t \in Popped(t) <=> Popped(t) # {}
         /\ Popped(t) \cap Called \subseteq {t}
         /\ \A x \in Popped(t) : dfs_index[x] >= dfs_index[t]
         /\ \A x \in On \ Popped(t) : Popped(t) # {} => dfs_index[x] < dfs_index[t]
         /\ Popped(t) = {} => /\ calls' # <<>>
                                 /\ Returned(t)' /\ dfs_index[This'] < dfs_index[t]
         /\ \A x \in Popped(t) : \A n \in 1..Len(req[x]) :
               Settled(req[x][n]) \/ req[x][n] \in Popped(t)
  <1> DEFINE P == Popped(t)
  <1>0. calls # <<>> /\ Next1 > Len(req[t])
    BY DEF AllRequired
  <1>1. /\ t = calls[1].mod /\ Next1 = calls[1].next /\ 1 \in 1..Len(calls)
        /\ t \in Module /\ t \in Called
    BY <1>0, CallIs
  <1>2. /\ Len(calls) \in Nat \ {0}
        /\ Len(calls') = Len(calls) - 1
        /\ \A i \in 1..Len(calls') : calls'[i] = calls[i + 1] /\ i + 1 \in 1..Len(calls)
        /\ \A i \in 2..Len(calls) : calls[i] = calls'[i - 1] /\ i - 1 \in 1..Len(calls')
    <2>1. calls \in Seq(Frame)
      BY DEF TypeOK
    <2> QED BY <1>0, <2>1, TailIs
  <1>2b. Len(calls') = 0 => Len(calls) = 1
    <2>1. \A a \in Nat \ {0} : a - 1 = 0 => a = 1
      OBVIOUS
    <2> QED BY <1>2, <2>1, Zenon
  <1>3. /\ Len(stack) \in Nat /\ index \in Nat
        /\ \A i \in 1..Len(stack) : stack[i] \in On
        /\ On \subseteq Module
        /\ \A x \in Module : dfs_index[x] \in Nat /\ dfs_ancestor_index[x] \in Nat
        /\ \A k \in 1..Len(calls) : calls[k].mod \in Module /\ calls[k].next \in Nat
                                    /\ calls[k].mod \in Called
        /\ \A x \in Module : \A n \in 1..Len(req[x]) : req[x][n] \in Module
        /\ \A x \in Module : Len(req[x]) \in Nat
    BY OnIs
  <1>4. StackInv /\ CallsInv /\ EdgeInv /\ OwnerInv /\ LinkedInv
    BY DEF WalkInv
  <1>5. t \in On
    BY <1>1, <1>4 DEF CallsInv
  <1>6. /\ dfs_index[t] # dfs_ancestor_index[t] => stack' = stack /\ P = {}
        /\ dfs_index[t] = dfs_ancestor_index[t] =>
                /\ P = {x \in On : dfs_index[x] >= dfs_index[t]}
                /\ On' = On \ P
                /\ stack' \in Seq(Module) /\ Len(stack') \in Nat
                /\ \A i, j \in 1..Len(stack') :
                      i < j => dfs_index[stack'[i]] > dfs_index[stack'[j]]
    BY <1>4, <1>5, PopIs
  <1>7. /\ Walking' /\ OnStack' = OnStack /\ Unseen' = Unseen
    BY DEF Walking, OnStack, Unseen
  <1> HIDE DEF P
  <1>8. /\ P \subseteq On /\ On' = On \ P
        /\ t \in P <=> P # {}
        /\ P # {} <=> dfs_index[t] = dfs_ancestor_index[t]
        /\ \A x \in P : dfs_index[x] >= dfs_index[t]
        /\ \A x \in On \ P : P # {} => dfs_index[x] < dfs_index[t]
    <2>1. CASE dfs_index[t] # dfs_ancestor_index[t]
      BY <1>6, <2>1 DEF On
    <2>2. CASE dfs_index[t] = dfs_ancestor_index[t]
      <3>1. t \in P
        BY <1>1, <1>3, <1>5, <1>6, <2>2
      <3>2. \A x \in On : dfs_index[x] >= dfs_index[t] \/ dfs_index[x] < dfs_index[t]
        BY <1>1, <1>3
      <3> QED BY <1>6, <2>2, <3>1, <3>2
    <2> QED BY <2>1, <2>2
  <1>9. \A k, l \in 1..Len(calls) : k < l => dfs_index[calls[k].mod] > dfs_index[calls[l].mod]
    BY <1>4 DEF CallsInv
  <1>10. \A l \in 1..Len(calls) : l = 1 \/ (l \in 2..Len(calls) /\ dfs_index[calls[l].mod] < dfs_index[t])
    <2> SUFFICES ASSUME NEW l \in 1..Len(calls), l # 1
                 PROVE  l \in 2..Len(calls) /\ dfs_index[calls[l].mod] < dfs_index[t]
      OBVIOUS
    <2>1. l \in 2..Len(calls) /\ 1 < l
      BY <1>2
    <2>2. dfs_index[calls[1].mod] > dfs_index[calls[l].mod]
      BY <1>1, <1>9, <2>1
    <2> QED BY <1>1, <1>3, <2>1, <2>2
  <1>11. Called' = Called \ {t}
    <2>1. ASSUME NEW x \in Called' PROVE x \in Called \ {t}
      <3>1. PICK i \in 1..Len(calls') : x = calls'[i].mod
        BY DEF Called
      <3>2. x = calls[i + 1].mod /\ i + 1 \in 1..Len(calls) /\ i + 1 # 1
        BY <1>2, <3>1
      <3>3. dfs_index[x] < dfs_index[t]
        BY <1>10, <3>2
      <3> QED BY <1>1, <1>3, <3>2, <3>3
    <2>2. ASSUME NEW x \in Called \ {t} PROVE x \in Called'
      <3>1. PICK i \in 1..Len(calls) : x = calls[i].mod
        BY DEF Called
      <3>2. i \in 2..Len(calls)
        BY <1>1, <1>10, <3>1
      <3> QED BY <1>2, <3>1, <3>2 DEF Called
    <2> QED BY <2>1, <2>2
  <1>12. P \cap Called \subseteq {t}
    <2> SUFFICES ASSUME NEW x \in P, x \in Called, x # t PROVE FALSE
      OBVIOUS
    <2>1. PICK i \in 1..Len(calls) : x = calls[i].mod
      BY DEF Called
    <2>2. dfs_index[x] < dfs_index[t]
      BY <1>1, <1>10, <2>1
    <2> QED BY <1>1, <1>3, <1>8, <2>1, <2>2
  <1>13. \A x \in On : x \notin Called => \A n \in Nat : Passed(x, n)
    BY DEF Called, Passed
  <1>14. \A n \in 1..Len(req[t]) : Passed(t, n)
    <2> SUFFICES ASSUME NEW n \in 1..Len(req[t]), NEW k \in 1..Len(calls), calls[k].mod = t
                 PROVE  n < calls[k].next
      BY DEF Passed
    <2>1. k = 1
      BY <1>1, <1>3, <1>10
    <2> QED BY <1>0, <1>1, <1>3, <2>1 
  <1>15. \A x \in On : \A n \in 1..Len(req[x]) : Passed(x, n)' => Passed(x, n)
    <2> SUFFICES ASSUME NEW x \in On, NEW n \in 1..Len(req[x]), Passed(x, n)', x # t
                 PROVE  Passed(x, n)
      BY <1>14
    <2> SUFFICES ASSUME NEW k \in 1..Len(calls), calls[k].mod = x PROVE n < calls[k].next
      BY DEF Passed
    <2>1. k \in 2..Len(calls)
      BY <1>1, <1>10
    <2>2. calls[k] = calls'[k - 1] /\ k - 1 \in 1..Len(calls')
      BY <1>2, <2>1
    <2> QED BY <2>2 DEF Passed
  <1>16. \A x \in P \ {t} : dfs_ancestor_index[x] >= dfs_index[t]
    <2> SUFFICES ASSUME NEW x \in P, x # t PROVE dfs_ancestor_index[x] >= dfs_index[t]
      OBVIOUS
    <2>1. x \in On \ Called
      BY <1>8, <1>12
    <2>2. Owner(1, x)
      BY <1>1, <1>3, <1>8, <2>1 DEF Owner
    <2>3. ~Returned(Callee)
      BY DEF Returned
    <2>4. dfs_ancestor_index[calls[1].mod] <= dfs_ancestor_index[x]
      BY <1>1, <1>4, <2>1, <2>2, <2>3 DEF OwnerInv
    <2>5. dfs_ancestor_index[t] = dfs_index[t]
      BY <1>8
    <2> QED BY <1>1, <1>3, <2>1, <2>4, <2>5
  <1>17. \A x \in P : \A n \in 1..Len(req[x]) : Settled(req[x][n]) \/ req[x][n] \in P
    <2> SUFFICES ASSUME NEW x \in P, NEW n \in 1..Len(req[x])
                 PROVE  Settled(req[x][n]) \/ req[x][n] \in P
      OBVIOUS
    <2>0. x \in On /\ x \in Module /\ req[x][n] \in Module /\ n \in Nat
      BY <1>3, <1>8
    <2>1. Passed(x, n)
      BY <1>12, <1>13, <1>14, <2>0
    <2>2. Settled(req[x][n]) \/ (req[x][n] \in On /\ dfs_ancestor_index[x] <= dfs_index[req[x][n]])
      BY <1>4, <2>0, <2>1 DEF EdgeInv
    <2>3. dfs_ancestor_index[x] >= dfs_index[t]
      <3>1. CASE x = t
        BY <1>3, <1>1, <1>8, <3>1
      <3> QED BY <1>16, <3>1
    <2>4. ASSUME req[x][n] \in On, dfs_ancestor_index[x] <= dfs_index[req[x][n]]
          PROVE  req[x][n] \in P
      <3>1. dfs_index[req[x][n]] >= dfs_index[t]
        BY <1>1, <1>3, <2>0, <2>3, <2>4
      <3> QED BY <1>6, <1>8, <2>4, <3>1
    <2> QED BY <2>2, <2>4
  <1>18. \A x \in P : status'[x] \in IF phase = "link" THEN {"LINKED"} ELSE Ended
    BY DEF P
  <1>19. \A x \in Module \ P : status'[x] = status[x]
    BY DEF P
  <1>20. \A y \in Module : (Settled(y) \/ y \in P) => Settled(y)'
    <2> SUFFICES ASSUME NEW y \in Module, Settled(y) \/ y \in P PROVE Settled(y)'
      OBVIOUS
    <2>1. CASE y \in P
      BY <1>18, <2>1 DEF Settled, Linked, Ended
    <2>2. CASE y \notin P
      BY <1>19, <2>2 DEF Settled
    <2> QED BY <2>1, <2>2
  <1>21. P = {} => calls' # <<>>
    <2> SUFFICES ASSUME P = {}, calls' = <<>> PROVE FALSE
      OBVIOUS
    <2>0. Len(calls') = 0
      <3>1. calls' \in Seq(Frame)
        BY DEF TypeOK
      <3> QED BY <3>1, EmptySeq
    <2>1. Len(calls) = 1
      BY <1>2b, <2>0, Zenon
    <2>2. t = root /\ dfs_index[root] = 0
      BY <1>0, <1>1, <1>4, <2>1 DEF CallsInv
    <2>3. dfs_ancestor_index[t] <= dfs_index[t]
      BY <1>4, <1>5 DEF StackInv
    <2> QED BY <1>1, <1>3, <1>8, <2>2, <2>3
  <1>22. calls' # <<>> => /\ 1 \in 1..Len(calls') /\ 2 \in 2..Len(calls) /\ calls'[1] = calls[2]
                          /\ This' = calls[2].mod /\ Next1' = calls[2].next
                          /\ calls[2].next <= Len(req[calls[2].mod])
                          /\ ~AllRequired' /\ Callee' = t /\ dfs_index[This'] < dfs_index[t]
    <2> SUFFICES ASSUME calls' # <<>>
                 PROVE  /\ 1 \in 1..Len(calls') /\ 2 \in 2..Len(calls) /\ calls'[1] = calls[2]
                        /\ This' = calls[2].mod /\ Next1' = calls[2].next
                        /\ calls[2].next <= Len(req[calls[2].mod])
                        /\ ~AllRequired' /\ Callee' = t /\ dfs_index[This'] < dfs_index[t]
      OBVIOUS
    <2>1. Head(calls') = calls'[1] /\ 1 \in 1..Len(calls')
      <3>1. calls' \in Seq(Frame)
        BY DEF TypeOK
      <3> QED BY <3>1, TailIs
    <2>2. 1 + 1 = 2 /\ 2 - 1 = 1
      OBVIOUS
    <2>3. 2 \in 2..Len(calls) /\ calls'[1] = calls[2] /\ 2 \in 1..Len(calls)
      BY <1>2, <2>1, <2>2
    <2>4. This' = calls[2].mod /\ Next1' = calls[2].next
      BY <2>1, <2>3 DEF This, Next1
    <2>5. calls[2].next <= Len(req[calls[2].mod]) /\ req[calls[2].mod][calls[2].next] = t
      BY <1>1, <1>4, <2>2, <2>3 DEF CallsInv
    <2>6. ~AllRequired'
      BY SMTT(30), <1>3, <2>3, <2>4, <2>5 DEF AllRequired
    <2>7. Callee' = t
      BY <2>4, <2>5 DEF Callee
    <2> QED BY <1>10, <2>1, <2>3, <2>4, <2>5, <2>6, <2>7
  <1>23. FrameInv'
    <2>1. \A k \in 1..Len(calls) : calls[k].next \in 1..Len(req[calls[k].mod]) + 1
      BY DEF FrameInv, Entries, Walking
    <2>2. \A k \in 1..Len(calls') : calls'[k].next \in 1..Len(req[calls'[k].mod]) + 1
      BY <1>2, <2>1
    <2>3. root' \in Module
      BY DEF FrameInv
    <2> QED BY <2>2, <2>3 DEF FrameInv, Entries, Walking
  <1>24. StackInv'
    <2>1. \A x \in Module : x \in On' <=> status'[x] \in {"LINKING", "EVALUATING"}
      <3> SUFFICES ASSUME NEW x \in Module
                   PROVE  x \in On' <=> status'[x] \in {"LINKING", "EVALUATING"}
        OBVIOUS
      <3>1. CASE x \in P
        BY <1>8, <1>18, <3>1 DEF Ended
      <3>2. CASE x \notin P
        BY <1>4, <1>8, <1>19, <3>2 DEF StackInv
      <3> QED BY <3>1, <3>2
    <2>2. \A x \in On' : status'[x] = OnStack
      BY <1>3, <1>4, <1>8, <1>19 DEF StackInv
    <2>3. \A i, j \in 1..Len(stack') : i < j => dfs_index[stack'[i]] > dfs_index[stack'[j]]
      BY <1>4, <1>6 DEF StackInv
    <2>4. \A x \in On' : dfs_index[x] < index /\ dfs_ancestor_index[x] <= dfs_index[x]
      BY <1>4, <1>8 DEF StackInv
    <2> QED BY <1>7, <2>1, <2>2, <2>3, <2>4 DEF StackInv
  <1>25. CallsInv'
    <2>1. \A k \in 1..Len(calls') : calls'[k].mod \in On'
      <3> SUFFICES ASSUME NEW k \in 1..Len(calls') PROVE calls'[k].mod \in On'
        OBVIOUS
      <3>1. calls'[k] = calls[k + 1] /\ k + 1 \in 1..Len(calls) /\ k + 1 # 1
        BY <1>2
      <3>2. calls[k + 1].mod \in On /\ dfs_index[calls[k + 1].mod] < dfs_index[t]
        BY <1>4, <1>10, <3>1 DEF CallsInv
      <3>3. calls[k + 1].mod \notin P
        BY <1>1, <1>3, <1>8, <3>2
      <3> QED BY <1>8, <3>1, <3>2, <3>3
    <2>2. \A k, l \in 1..Len(calls') :
                k < l => dfs_index[calls'[k].mod] > dfs_index[calls'[l].mod]
      <3> SUFFICES ASSUME NEW k \in 1..Len(calls'), NEW l \in 1..Len(calls'), k < l
                   PROVE  dfs_index[calls'[k].mod] > dfs_index[calls'[l].mod]
        OBVIOUS
      <3>1. k + 1 < l + 1
        BY <1>2
      <3> QED BY <1>2, <1>9, <3>1
    <2>3. ASSUME NEW k \in 2..Len(calls')
          PROVE  /\ calls'[k].next <= Len(req[calls'[k].mod])
                 /\ req[calls'[k].mod][calls'[k].next] = calls'[k - 1].mod
      <3>1. k \in 1..Len(calls') /\ k - 1 \in 1..Len(calls') /\ k + 1 \in 2..Len(calls)
            /\ (k - 1) + 1 = k /\ (k + 1) - 1 = k
        BY <1>2
      <3>2. calls'[k] = calls[k + 1] /\ calls'[k - 1] = calls[k]
        BY <1>2, <3>1
      <3> QED BY <1>4, <3>1, <3>2 DEF CallsInv
    <2>4. ASSUME calls' = <<>>
          PROVE  stack' = <<>> /\ status'[root] # Unseen
      <3>0. Len(calls') = 0
        <4>1. calls' \in Seq(Frame)
          BY DEF TypeOK
        <4> QED BY <2>4, <4>1, EmptySeq
      <3>1. Len(calls) = 1
        BY <1>2b, <3>0, Zenon
      <3>2. t = root /\ dfs_index[root] = 0
        BY <1>0, <1>1, <1>4, <3>1 DEF CallsInv
      <3>3. t \in P
        BY <1>8, <1>21, <2>4
      <3>4. On' = {}
        <4> SUFFICES ASSUME NEW x \in On' PROVE FALSE
          OBVIOUS
        <4>1. x \in On \ P /\ x \in Module
          BY <1>3, <1>8
        <4>2. dfs_index[x] < dfs_index[t] /\ dfs_index[x] \in Nat
          BY <1>3, <1>8, <3>3, <4>1
        <4> QED BY <3>2, <4>2
      <3>5. stack' = <<>>
        <4>1. stack' \in Seq(Module)
          BY DEF TypeOK
        <4>2. ASSUME stack' # <<>> PROVE FALSE
          <5>1. 1 \in 1..Len(stack')
            BY <4>1, <4>2, TailIs
          <5>2. stack'[1] \in On'
            BY <4>1, <5>1 DEF On, Range
          <5> QED BY <3>4, <5>2
        <4> QED BY <4>2
      <3>6. status'[root] # Unseen
        BY <1>18, <3>2, <3>3 DEF Unseen, Ended
      <3> QED BY <3>5, <3>6
    <2>5. ASSUME calls' # <<>>
          PROVE  calls'[Len(calls')].mod = root /\ dfs_index[root] = 0
      <3>1. Len(calls') \in 1..Len(calls') /\ Len(calls') + 1 = Len(calls)
        BY <1>2, <1>22, <2>5
      <3> QED BY <1>0, <1>2, <1>4, <3>1 DEF CallsInv
    <2> QED BY <1>7, <2>1, <2>2, <2>3, <2>4, <2>5 DEF CallsInv
  <1>26. EdgeInv'
    <2> SUFFICES ASSUME NEW x \in On', NEW n \in 1..Len(req[x]), Passed(x, n)'
                 PROVE  \/ Settled(req[x][n])'
                        \/ /\ req[x][n] \in On'
                           /\ dfs_ancestor_index[x] <= dfs_index[req[x][n]]
      BY DEF EdgeInv
    <2>1. x \in On /\ x \in Module /\ req[x][n] \in Module
      BY <1>3, <1>8
    <2>2. Settled(req[x][n]) \/ (req[x][n] \in On /\ dfs_ancestor_index[x] <= dfs_index[req[x][n]])
      BY <1>4, <1>15, <2>1 DEF EdgeInv
    <2> QED BY <1>8, <1>20, <2>1, <2>2
  <1>27. OwnerInv'
    <2> SUFFICES ASSUME NEW x \in On' \ Called', NEW k \in 1..Len(calls'), Owner(k, x)'
                 PROVE  \/ dfs_ancestor_index[calls'[k].mod] <= dfs_ancestor_index[x]
                        \/ /\ k = 1 /\ Returned(Callee)'
                           /\ dfs_index[Callee'] <= dfs_index[x]
                           /\ dfs_ancestor_index[Callee'] <= dfs_ancestor_index[x]
      BY DEF OwnerInv
    <2>0. calls' # <<>> /\ x \in On /\ x \in Module
      <3>1. calls' \in Seq(Frame)
        BY DEF TypeOK
      <3>2. 1..0 = {}
        OBVIOUS
      <3>3. Len(calls') # 0
        BY <3>2
      <3> QED BY <1>3, <1>8, <3>1, <3>3, EmptySeq
    <2>1. /\ calls'[k] = calls[k + 1] /\ k + 1 \in 1..Len(calls) /\ k + 1 # 1
          /\ dfs_index[calls[k + 1].mod] <= dfs_index[x]
          /\ k > 1 => dfs_index[calls[k].mod] > dfs_index[x]
      <3>1. /\ dfs_index[calls'[k].mod] <= dfs_index[x]
            /\ k > 1 => dfs_index[calls'[k - 1].mod] > dfs_index[x]
        BY DEF Owner
      <3>2. k > 1 => k - 1 \in 1..Len(calls') /\ (k - 1) + 1 = k
        BY <1>2
      <3>3. k > 1 => calls'[k - 1] = calls[k]
        BY <1>2, <3>2
      <3> QED BY <1>2, <3>1, <3>3
    <2>2. CASE k > 1 \/ dfs_index[t] > dfs_index[x]
      <3>1. dfs_index[calls[k].mod] > dfs_index[x]
        <4>1. CASE k > 1
          BY <2>1, <4>1
        <4>2. CASE ~(k > 1)
          <5>1. k = 1
            BY <1>2, <4>2
          <5> QED BY <1>1, <2>2, <4>2, <5>1
        <4> QED BY <4>1, <4>2
      <3>2. Owner(k + 1, x)
        <4>1. (k + 1) - 1 = k
          BY <1>2
        <4> QED BY <2>1, <3>1, <4>1 DEF Owner
      <3>3. x \notin Called
        <4>1. x # t
          <5>1. CASE dfs_index[t] > dfs_index[x]
            BY <1>3, <2>0, <5>1
          <5>2. CASE k > 1
            <6>1. k \in 1..Len(calls) /\ k # 1
              BY <1>2, <5>2
            <6>2. dfs_index[calls[k].mod] < dfs_index[t]
              BY <1>10, <6>1
            <6> QED BY <1>1, <1>3, <2>0, <3>1, <6>1, <6>2
          <5> QED BY <2>2, <5>1, <5>2
        <4> QED BY <1>11, <4>1
      <3> QED BY <1>4, <2>0, <2>1, <3>2, <3>3 DEF OwnerInv
    <2>3. CASE ~(k > 1 \/ dfs_index[t] > dfs_index[x])
      <3>1. k = 1 /\ dfs_index[t] <= dfs_index[x]
        BY <1>1, <1>2, <1>3, <2>0, <2>3
      <3>2. P = {}
        BY <1>1, <1>3, <1>8, <2>0, <3>1
      <3>3. Returned(t)' /\ Callee' = t
        BY <1>5, <1>8, <1>11, <1>22, <2>0, <3>2 DEF Returned
      <3>4. dfs_ancestor_index[t] <= dfs_ancestor_index[x]
        <4>1. CASE x = t
          BY <1>1, <1>3, <4>1
        <4>2. CASE x # t
          <5>1. x \in On \ Called
            BY <1>11, <2>0, <4>2
          <5>2. Owner(1, x)
            BY <1>1, <3>1 DEF Owner
          <5>3. ~Returned(Callee)
            BY DEF Returned
          <5> QED BY <1>1, <1>4, <5>1, <5>2, <5>3 DEF OwnerInv
        <4> QED BY <4>1, <4>2
      <3> QED BY <3>1, <3>3, <3>4
    <2> QED BY <2>2, <2>3
  <1>28. LinkedInv'
    <2> SUFFICES ASSUME NEW x \in Module, status'[x] \in Linked, NEW n \in 1..Len(req[x])
                 PROVE  status'[req[x][n]] \in Linked
      BY DEF LinkedInv, Linked, Ended
    <2>0. req[x][n] \in Module
      BY <1>3
    <2>1. \A y \in Module : status[y] \in Linked => status'[y] \in Linked
      BY <1>18, <1>19 DEF Linked, Ended
    <2>2. CASE status[x] \in Linked
      BY <1>4, <2>0, <2>1, <2>2 DEF LinkedInv
    <2>3. CASE status[x] \notin Linked
      <3>1. x \in P
        BY <1>19, <2>3
      <3>2. Settled(req[x][n])'
        BY <1>17, <1>20, <2>0, <3>1
      <3> QED BY <3>2 DEF Settled, Linked, Ended
    <2> QED BY <2>2, <2>3
  <1>29. P = {} => calls' # <<>> /\ Returned(t)' /\ dfs_index[This'] < dfs_index[t]
    BY <1>5, <1>8, <1>11, <1>21, <1>22 DEF Returned
  <1> QED
    BY <1>8, <1>11, <1>12, <1>17, <1>23, <1>24, <1>25, <1>26, <1>27, <1>28, <1>29 DEF WalkInv, P
\* Outside the walks nothing is on the stack
LEMMA Quiet ==
  ASSUME IInv, ~Walking
  PROVE  /\ stack = <<>> /\ On = {}
         /\ \A m \in Module : status[m] \in {"UNLINKED", "LINKED"} \cup Ended
         /\ \A m \in Module : body[m] # "unrun" => status[m] \in Ended
         /\ \A m \in exec_list : status[m] \in Ended
         /\ \A p, y \in Module : Waits(p, y) => status[p] \in Ended
  <1>1. TypeOK /\ StackInv /\ WaitInv /\ ExecInv /\ StateInv
    BY DEF IInv, WalkInv, AsyncInv
  <1>2. stack = <<>> /\ On = {}
    BY <1>1 DEF StackInv, On, Range
  <1>3. \A m \in Module : status[m] \in {"UNLINKED", "LINKED"} \cup Ended
    BY <1>1, <1>2 DEF StackInv, TypeOK, Status, Ended
  <1>4. \A m \in Module : body[m] # "unrun" => status[m] \in Ended
    BY <1>1, <1>3 DEF StateInv, StateOf
  <1>5. \A m \in exec_list : status[m] \in Ended
    BY <1>1 DEF ExecInv
  <1>6. \A p, y \in Module : Waits(p, y) => status[p] \in Ended
    BY <1>1, <1>3 DEF WaitInv, Ended
  <1> QED BY <1>2, <1>3, <1>4, <1>5, <1>6

\* Outside the walks, statuses only change among those of ended modules
LEMMA QuietKeeps ==
  ASSUME TypeOK, WalkInv, ~Walking, ~Walking', UNCHANGED <<req, stack>>,
         \A m \in Module : status'[m] # status[m] => status[m] \in Ended /\ status'[m] \in Ended
  PROVE  WalkInv'
  <1>1. StackInv /\ LinkedInv
    BY DEF WalkInv
  <1>2. stack = <<>> /\ On = {} /\ On' = {} /\ Len(stack) = 0
    BY <1>1 DEF StackInv, On, Range
  <1>3. StackInv'
    <2>1. \A m \in Module : status'[m] \notin {"LINKING", "EVALUATING"}
      BY <1>1, <1>2 DEF StackInv, Ended
    <2>2. \A i \in 1..Len(stack') : FALSE
      BY <1>2
    <2> QED BY <1>2, <2>1, <2>2 DEF StackInv
  <1>4. LinkedInv'
    <2>1. \A m \in Module : status'[m] \in Linked <=> status[m] \in Linked
      BY DEF Linked
    <2>2. \A x \in Module : \A n \in 1..Len(req[x]) : req[x][n] \in Module
      BY OnIs
    <2> QED BY <1>1, <2>1, <2>2 DEF LinkedInv
  <1> QED BY <1>3, <1>4 DEF WalkInv, CallsInv, EdgeInv, OwnerInv

\* No call is left
LEMMA NoFrame ==
  ASSUME calls' = <<>>, phase' \in {"idle", "exec", "link", "evaluate"},
         phase' \in {"link", "evaluate"} => root' \in Module
  PROVE  FrameInv'
  <1>1. Len(calls') = 0
    OBVIOUS
  <1>2. \A k \in 1..Len(calls') : FALSE
    BY <1>1
  <1> QED BY <1>2 DEF FrameInv, Walking

\* The calls of the reactions: the index is one into async_parent_modules
LEMMA ReactionFrame ==
  ASSUME TypeOK, FrameInv, phase \in {"gather", "reject"},
         UNCHANGED <<phase, async_parent_modules>>,
         ~AllParents, NEW p \in Module,
         \/ calls' = Advance(calls)
         \/ calls' = <<[mod |-> p, next |-> 1]>> \o Advance(calls)
  PROVE  FrameInv'
  <1> DEFINE a == Advance(calls)
             f == [mod |-> p, next |-> 1]
  <1>1. calls # <<>> /\ calls \in Seq(Frame)
    BY DEF FrameInv, TypeOK
  <1>2. /\ Next1 \in 1..Len(async_parent_modules[This])
        /\ This = calls[1].mod /\ Next1 = calls[1].next /\ This \in Module
        /\ Len(calls) \in Nat \ {0}
    BY <1>1, ParentIs, CallIs
  <1>3. /\ a \in Seq(Frame) /\ Len(a) = Len(calls) /\ a # <<>>
        /\ a[1] = [mod |-> calls[1].mod, next |-> calls[1].next + 1]
        /\ \A i \in 2..Len(calls) : a[i] = calls[i]
    BY <1>1, AdvanceIs
  <1>4. \A x \in Module : async_parent_modules[x] \in Seq(Module) /\ Len(async_parent_modules[x]) \in Nat
    BY DEF TypeOK
  <1> HIDE DEF a
  <1>5. \A k \in 1..Len(a) : a[k].next \in 1..Len(async_parent_modules[a[k].mod]) + 1
    <2> SUFFICES ASSUME NEW k \in 1..Len(a)
                 PROVE  a[k].next \in 1..Len(async_parent_modules[a[k].mod]) + 1
      OBVIOUS
    <2>1. CASE k = 1
      BY <1>2, <1>3, <1>4, <2>1
    <2>2. CASE k # 1
      <3>1. k \in 2..Len(calls) /\ k \in 1..Len(calls)
        BY <1>2, <1>3, <2>2
      <3> QED BY <1>3, <3>1 DEF FrameInv, Entries
    <2> QED BY <2>1, <2>2
  <1>6. calls' # <<>> /\ \A k \in 1..Len(calls') : calls'[k].next \in 1..Len(async_parent_modules[calls'[k].mod]) + 1
    <2>1. CASE calls' = a
      BY <1>3, <1>5, <2>1
    <2>2. CASE calls' = <<f>> \o a
      <3>1. f \in Frame /\ f.mod = p /\ f.next = 1
        BY DEF Frame
      <3> HIDE DEF f
      <3>2. /\ calls' # <<>> /\ calls'[1] = f /\ Len(calls') = Len(a) + 1
            /\ \A k \in 2..Len(calls') : calls'[k] = a[k - 1] /\ k - 1 \in 1..Len(a)
        BY <1>3, <2>2, <3>1, Push
      <3>3. \A k \in 1..Len(calls') : k = 1 \/ k \in 2..Len(calls')
        BY <1>2, <1>3, <3>2
      <3>4. 1 \in 1..Len(async_parent_modules[p]) + 1
        BY <1>4
      <3> QED BY <1>5, <3>1, <3>2, <3>3, <3>4
    <2> QED BY <2>1, <2>2 DEF a
  <1> QED BY <1>6 DEF FrameInv, Entries, Walking

\* A call of a reaction returns
LEMMA ReactionReturn ==
  ASSUME TypeOK, FrameInv, phase \in {"gather", "reject"},
         UNCHANGED async_parent_modules, calls' = Tail(calls),
         phase' = IF Tail(calls) = <<>> THEN "exec" ELSE phase
  PROVE  FrameInv'
  <1>1. calls # <<>> /\ calls \in Seq(Frame)
    BY DEF FrameInv, TypeOK
  <1>2. \A i \in 1..Len(Tail(calls)) : Tail(calls)[i] = calls[i + 1] /\ i + 1 \in 1..Len(calls)
    BY <1>1, TailIs
  <1>3. CASE Tail(calls) = <<>>
    BY <1>3, NoFrame
  <1>4. CASE Tail(calls) # <<>>
    <2>1. \A i \in 1..Len(calls) : calls[i].next \in 1..Len(async_parent_modules[calls[i].mod]) + 1
      BY DEF FrameInv, Entries
    <2> HIDE DEF Advance
    <2>2. \A i \in 1..Len(calls') : calls'[i].next \in 1..Len(async_parent_modules[calls'[i].mod]) + 1
      BY <1>2, <2>1
    <2> QED BY <1>4, <2>2 DEF FrameInv, Entries, Walking
  <1> QED BY <1>3, <1>4

\* A reaction starts with one call
LEMMA ReactionStart ==
  ASSUME TypeOK, NEW m \in Module, calls' = <<[mod |-> m, next |-> 1]>>,
         phase' \in {"gather", "reject"}, UNCHANGED async_parent_modules
  PROVE  FrameInv'
  <1>1. /\ calls' # <<>> /\ Len(calls') = 1 /\ calls'[1] = [mod |-> m, next |-> 1]
    OBVIOUS
  <1>2. async_parent_modules[m] \in Seq(Module) /\ Len(async_parent_modules[m]) \in Nat
    BY DEF TypeOK
  <1>3. \A k \in 1..Len(calls') : k = 1
    BY <1>1
  <1>4. calls'[1].next \in 1..Len(async_parent_modules[m]) + 1
    BY <1>1, <1>2
  <1> QED BY <1>1, <1>3, <1>4 DEF FrameInv, Entries, Walking

\* The walk is given up: js_link_module and js_evaluate_module on failure
LEMMA FailKeeps ==
  ASSUME TypeOK, WalkInv, Walking, ~Walking', stack' = <<>>, req' = req,
         NEW s \in {"UNLINKED", "EVALUATED"}, s = "EVALUATED" <=> phase = "evaluate",
         status' = [m \in Module |-> IF m \in Range(stack) THEN s ELSE status[m]]
  PROVE  WalkInv'
  <1>1. StackInv /\ LinkedInv
    BY DEF WalkInv
  <1>2. On' = {} /\ Len(stack') = 0
    BY DEF On, Range
  <1>3. \A m \in Module : status'[m] = IF m \in On THEN s ELSE status[m]
    BY DEF On
  <1>4. StackInv'
    <2>1. \A m \in Module : status'[m] \notin {"LINKING", "EVALUATING"}
      BY <1>1, <1>3 DEF StackInv
    <2>2. \A i \in 1..Len(stack') : FALSE
      BY <1>2
    <2> QED BY <1>2, <2>1, <2>2 DEF StackInv
  <1>5. LinkedInv'
    <2>1. \A m \in Module : status'[m] \in Linked <=> status[m] \in Linked
      <3>1. CASE phase = "link"
        BY <1>1, <1>3, <3>1 DEF StackInv, OnStack, Linked, Ended
      <3>2. CASE phase = "evaluate"
        BY <1>1, <1>3, <3>2 DEF StackInv, OnStack, Linked, Ended
      <3> QED BY <3>1, <3>2 DEF Walking
    <2>2. \A x \in Module : \A n \in 1..Len(req[x]) : req[x][n] \in Module
      BY OnIs
    <2> QED BY <1>1, <2>1, <2>2 DEF LinkedInv
  <1> QED BY <1>4, <1>5 DEF WalkInv, CallsInv, EdgeInv, OwnerInv

\* A walk starts: of js_link_module, or of js_evaluate_module after it
LEMMA StartKeeps ==
  ASSUME TypeOK, WalkInv, stack = <<>>, UNCHANGED <<req, calls, stack, status>>, calls = <<>>,
         index' = 0 \/ ~Walking'
  PROVE  WalkInv'
  <1>1. StackInv /\ LinkedInv
    BY DEF WalkInv
  <1>2. On = {} /\ On' = {} /\ Len(stack') = 0 /\ Len(calls') = 0
    BY DEF On, Range
  <1>3. \A i \in 1..Len(stack') : FALSE
    BY <1>2
  <1>4. \A i \in 1..Len(calls') : FALSE
    BY <1>2
  <1>5. 2..Len(calls') = {}
    BY <1>2
  <1> QED BY <1>1, <1>2, <1>3, <1>4, <1>5 DEF WalkInv, StackInv, CallsInv, EdgeInv, OwnerInv, LinkedInv
\* What a finished call leaves, in both walks
DoneStep(t) ==
  /\ FrameInv' /\ WalkInv'
  /\ Popped(t) \subseteq On /\ On' = On \ Popped(t)
  /\ Called' = Called \ {t}
  /\ t \in Popped(t) <=> Popped(t) # {}
  /\ Popped(t) \cap Called \subseteq {t}
  /\ \A x \in Popped(t) : dfs_index[x] >= dfs_index[t]
  /\ \A x \in On \ Popped(t) : Popped(t) # {} => dfs_index[x] < dfs_index[t]
  /\ Popped(t) = {} => calls' # <<>> /\ Returned(t)' /\ dfs_index[This'] < dfs_index[t]
  /\ \A x \in Popped(t) : \A n \in 1..Len(req[x]) :
        Settled(req[x][n]) \/ req[x][n] \in Popped(t)

\* LinkDone and EvalDone are such steps
LEMMA LinkDoneIs ==
  ASSUME IInv, TypeOK', LinkDone, NEW t, t = This
  PROVE  DoneStep(t)
  <1>1. TypeOK /\ FrameInv /\ WalkInv /\ Walking /\ AllRequired /\ phase = "link"
    BY DEF IInv, LinkDone, Walking
  <1>2. /\ \A x \in Popped(t) : status'[x] \in IF phase = "link" THEN {"LINKED"} ELSE Ended
        /\ \A x \in Module \ Popped(t) : status'[x] = status[x]
    <2>1. status' = [x \in Module |-> IF x \in Popped(t) THEN "LINKED" ELSE status[x]]
      BY DEF LinkDone
    <2>2. Popped(t) \subseteq Module
      <3>1. StackInv /\ t \in On
        BY <1>1, CallIs DEF WalkInv, CallsInv, AllRequired
      <3>2. Popped(t) \subseteq On
        BY <1>1, <3>1, PopIs DEF LinkDone
      <3> QED BY <1>1, <3>2, OnIs
    <2> QED BY <1>1, <2>1, <2>2
  <1>3. Pop(t) /\ calls' = Tail(calls)
        /\ UNCHANGED <<req, phase, root, index, dfs_index, dfs_ancestor_index>>
    BY DEF LinkDone, files, dfs
  <1> QED BY <1>1, <1>2, <1>3, DoneKeeps DEF DoneStep

\* ... the second
LEMMA EvalDoneIs ==
  ASSUME IInv, TypeOK', EvalDone, NEW t, t = This
  PROVE  DoneStep(t)
  <1>1. TypeOK /\ FrameInv /\ WalkInv /\ Walking /\ AllRequired /\ phase = "evaluate"
    BY DEF IInv, EvalDone, Walking
  <1>2. /\ \A x \in Popped(t) : status'[x] \in IF phase = "link" THEN {"LINKED"} ELSE Ended
        /\ \A x \in Module \ Popped(t) : status'[x] = status[x]
    <2>1. status' = [x \in Module |-> IF x \notin Popped(t) THEN status[x]
                                      ELSE IF async_evaluation'[x] THEN "EVALUATING_ASYNC"
                                      ELSE "EVALUATED"]
      BY DEF EvalDone
    <2>2. Popped(t) \subseteq Module
      <3>1. StackInv /\ t \in On
        BY <1>1, CallIs DEF WalkInv, CallsInv, AllRequired
      <3>2. Popped(t) \subseteq On
        BY <1>1, <3>1, PopIs DEF EvalDone
      <3> QED BY <1>1, <3>2, OnIs
    <2> QED BY <1>1, <2>1, <2>2 DEF Ended
  <1>3. Pop(t) /\ calls' = Tail(calls)
        /\ UNCHANGED <<req, phase, root, index, dfs_index, dfs_ancestor_index>>
    BY DEF EvalDone, files, dfs
  <1> QED BY <1>1, <1>2, <1>3, DoneKeeps DEF DoneStep

\* The frames and the walk: one step for each action
LEMMA WalkNext == IInv /\ [Next]_vars => FrameInv' /\ WalkInv'
  <1> SUFFICES ASSUME IInv, [Next]_vars PROVE FrameInv' /\ WalkInv'
    OBVIOUS
  <1>0. TypeOK /\ FrameInv /\ WalkInv /\ TypeOK'
    BY TypeNext DEF IInv
  <1>Q. ~Walking => /\ stack = <<>>
                    /\ \A m \in Module : body[m] # "unrun" => status[m] \in Ended
                    /\ \A m \in exec_list : status[m] \in Ended
                    /\ \A p, y \in Module : Waits(p, y) => status[p] \in Ended
    BY Quiet
  <1>S. Walking /\ calls = <<>> => stack = <<>>
    BY <1>0 DEF WalkInv, CallsInv
  <1>1. ASSUME NEW m \in Module, Import(m) PROVE FrameInv' /\ WalkInv'
    <2>1. ~Walking /\ calls = <<>> /\ calls' = <<>> /\ root' \in Module /\ phase' = "link"
          /\ index' = 0 /\ UNCHANGED <<req, calls, stack, status>>
      BY <1>0, <1>1 DEF Import, Walking, FrameInv, FirstIndex, files
    <2>2. FrameInv'
      BY <2>1, NoFrame
    <2> QED BY <1>0, <1>Q, <2>1, <2>2, StartKeeps
  <1>2. CASE LinkEnter
    <2>1. Walking /\ status[Callee] = Unseen /\ Enter(Callee, OnStack) /\ ~AllRequired /\ req' = req
      BY <1>2 DEF LinkEnter, Walking, Unseen, OnStack, files
    <2> QED BY <1>0, <2>1, EnterKeeps
  <1>3. CASE LinkRequired
    <2>1. /\ Walking /\ status[Callee] # Unseen /\ Join(This, Callee, OnStack) /\ ~AllRequired
          /\ calls # <<>> /\ calls' = Advance(calls)
          /\ UNCHANGED <<req, phase, root, stack, index, status, dfs_index>>
      BY <1>3 DEF LinkRequired, Walking, Unseen, OnStack, files
    <2> QED BY <1>0, <2>1, RequiredKeeps
  <1>4. CASE LinkDone
    BY <1>0, <1>4, LinkDoneIs DEF DoneStep
  <1>5. CASE LinkFail
    <2>1. /\ Walking /\ ~Walking' /\ phase = "link" /\ stack' = <<>> /\ req' = req /\ calls' = <<>>
          /\ phase' = "idle"
          /\ status' = [m \in Module |-> IF m \in Range(stack) THEN "UNLINKED" ELSE status[m]]
      BY <1>5 DEF LinkFail, Walking, Idle, files
    <2> QED BY <1>0, <2>1, FailKeeps, NoFrame
  <1>6. CASE EvaluateModule
    <2>1. /\ Walking /\ calls = <<>> /\ calls' = <<>> /\ UNCHANGED <<req, calls, stack, status>>
          /\ (phase' = "evaluate" /\ index' = 0) \/ phase' = "idle"
      BY <1>6 DEF EvaluateModule, Walking, files, FirstIndex, Idle
    <2>2. phase' = "evaluate" => root' \in Module
      BY <1>0, <1>6 DEF EvaluateModule, IInv, RootInv, PromiseModule, FrameInv, Walking, Idle
    <2>3. FrameInv'
      BY <2>1, <2>2, NoFrame
    <2>4. index' = 0 \/ ~Walking'
      BY <2>1 DEF Walking
    <2> QED BY <1>0, <1>S, <2>1, <2>3, <2>4, StartKeeps
  <1>7. CASE EvalEnter
    <2>1. Walking /\ status[Callee] = Unseen /\ Enter(Callee, OnStack) /\ ~AllRequired /\ req' = req
      BY <1>7 DEF EvalEnter, Walking, Unseen, OnStack, files
    <2> QED BY <1>0, <2>1, EnterKeeps
  <1>8. CASE EvalRequired
    <2>1. /\ Walking /\ status[Callee] # Unseen /\ Join(This, Callee, OnStack) /\ ~AllRequired
          /\ calls # <<>> /\ calls' = Advance(calls)
          /\ UNCHANGED <<req, phase, root, stack, index, status, dfs_index>>
      BY <1>8 DEF EvalRequired, Walking, Unseen, OnStack, files
    <2> QED BY <1>0, <2>1, RequiredKeeps
  <1>9. ASSUME Unwind, phase = "evaluate", req' = req PROVE FrameInv' /\ WalkInv'
    <2>1. /\ Walking /\ ~Walking' /\ stack' = <<>> /\ calls' = <<>> /\ phase' = "idle"
          /\ status' = [m \in Module |-> IF m \in Range(stack) THEN "EVALUATED" ELSE status[m]]
      BY <1>9 DEF Unwind, Walking, Idle
    <2> QED BY <1>0, <1>9, <2>1, FailKeeps, NoFrame
  <1>10. CASE EvalFail
    BY <1>9, <1>10 DEF EvalFail, files
  <1>11. CASE EvalDone
    BY <1>0, <1>11, EvalDoneIs DEF DoneStep
  <1>12. CASE EvalThrow
    BY <1>9, <1>12 DEF EvalThrow, files
  <1>13. CASE EvaluateReturn
    <2>1. /\ Walking /\ calls = <<>> /\ calls' = <<>> /\ UNCHANGED <<req, calls, stack, status>>
          /\ phase' = "idle" /\ ~Walking'
      BY <1>13 DEF EvaluateReturn, Walking, files, Idle
    <2> QED BY <1>0, <1>S, <2>1, StartKeeps, NoFrame
  <1>14. ASSUME NEW m \in Module, Fulfilled(m) PROVE FrameInv' /\ WalkInv'
    <2>1. ~Walking /\ phase = "idle" /\ UNCHANGED <<req, stack, async_parent_modules>>
          /\ phase' \in {"idle", "gather"} /\ ~Walking'
      BY <1>14 DEF Fulfilled, Walking, files
    <2>2. \A x \in Module : status'[x] # status[x] => status[x] \in Ended /\ status'[x] \in Ended
      <3>1. status[m] \in Ended
        BY <1>Q, <1>14, <2>1 DEF Fulfilled
      <3>2. status' = status \/ status' = [status EXCEPT ![m] = "EVALUATED"]
        BY <1>14 DEF Fulfilled, SetEvaluated
      <3> QED BY <1>0, <3>1, <3>2 DEF TypeOK, Ended
    <2>3. WalkInv'
      BY <1>0, <2>1, <2>2, QuietKeeps
    <2>4. \/ calls' = calls /\ phase' = phase
          \/ calls' = <<[mod |-> m, next |-> 1]>> /\ phase' = "gather"
      BY <1>14 DEF Fulfilled
    <2>5. CASE calls' = calls /\ phase' = phase
      <3>1. calls' = <<>> /\ phase' = "idle"
        BY <1>0, <2>1, <2>5 DEF FrameInv
      <3> QED BY <2>3, <3>1, NoFrame
    <2>6. CASE calls' = <<[mod |-> m, next |-> 1]>> /\ phase' = "gather"
      BY <1>0, <2>1, <2>3, <2>6, ReactionStart
    <2> QED BY <2>4, <2>5, <2>6
  <1>15. CASE GatherParent
    <2>1. Parent \in Module /\ phase = "gather" /\ ~Walking /\ ~Walking' /\ ~AllParents
          /\ UNCHANGED <<req, stack, status, phase, async_parent_modules>>
      BY <1>0, <1>15, ParentIs DEF GatherParent, files, Walking
    <2>2. FrameInv'
      <3>1. \/ calls' = Advance(calls)
            \/ calls' = <<[mod |-> Parent, next |-> 1]>> \o Advance(calls)
        BY <1>15 DEF GatherParent
      <3> QED BY <1>0, <2>1, <3>1, ReactionFrame
    <2> QED BY <1>0, <2>1, <2>2, QuietKeeps
  <1>16. CASE GatherReturn
    <2>1. phase = "gather" /\ ~Walking /\ ~Walking' /\ calls' = Tail(calls)
          /\ phase' = (IF Tail(calls) = <<>> THEN "exec" ELSE phase)
          /\ UNCHANGED <<req, stack, status, async_parent_modules>>
      BY <1>16 DEF GatherReturn, files, waits, Walking
    <2> QED BY <1>0, <2>1, QuietKeeps, ReactionReturn
  <1>17. ASSUME NEW m \in Module, ExecSkip(m) \/ ExecAsync(m) \/ ExecSync(m) PROVE FrameInv' /\ WalkInv'
    <2>1. phase = "exec" /\ m \in exec_list /\ ~Walking /\ ~Walking'
          /\ UNCHANGED <<req, stack, calls, phase>>
      BY <1>17 DEF ExecSkip, ExecAsync, ExecSync, IsFirst, files, walk, Walking
    <2>2. \A x \in Module : status'[x] # status[x] => status[x] \in Ended /\ status'[x] \in Ended
      <3>1. status[m] \in Ended
        BY <1>Q, <2>1
      <3>2. status' = status \/ status' = [status EXCEPT ![m] = "EVALUATED"]
        BY <1>17 DEF ExecSkip, ExecAsync, ExecSync, SetEvaluated
      <3> QED BY <1>0, <3>1, <3>2 DEF TypeOK, Ended
    <2>3. calls' = <<>> /\ phase' = "exec"
      BY <1>0, <2>1 DEF FrameInv
    <2> QED BY <1>0, <2>1, <2>2, <2>3, QuietKeeps, NoFrame
  <1>18. ASSUME NEW m \in Module, Reject(m), status[m] \in Ended, ~Walking,
                UNCHANGED <<req, stack, async_parent_modules>>
         PROVE  FrameInv' /\ WalkInv'
    <2>1. phase' = "reject" /\ calls' = <<[mod |-> m, next |-> 1]>> /\ ~Walking'
      BY <1>18 DEF Reject, Walking
    <2>2. \A x \in Module : status'[x] # status[x] => status[x] \in Ended /\ status'[x] \in Ended
      BY <1>0, <1>18 DEF Reject, TypeOK, Ended
    <2> QED BY <1>0, <1>18, <2>1, <2>2, QuietKeeps, ReactionStart
  <1>19. ASSUME NEW m \in Module, ExecThrow(m) PROVE FrameInv' /\ WalkInv'
    BY <1>Q, <1>18, <1>19 DEF ExecThrow, files, waits, IsFirst, Walking
  <1>20. CASE ExecEnd
    <2>1. phase = "exec" /\ ~Walking /\ ~Walking' /\ phase' = "idle" /\ calls' = <<>>
          /\ UNCHANGED <<req, stack, status>>
      BY <1>0, <1>20 DEF ExecEnd, files, Walking, FrameInv
    <2> QED BY <1>0, <2>1, QuietKeeps, NoFrame
  <1>21. ASSUME NEW m \in Module, Rejected(m) PROVE FrameInv' /\ WalkInv'
    <2>1. phase = "idle" /\ ~Walking /\ UNCHANGED <<req, stack, async_parent_modules>>
          /\ status[m] \in Ended
      BY <1>Q, <1>21 DEF Rejected, files, waits, Walking
    <2>2. CASE UNCHANGED <<phase, calls, status>>
      <3>1. calls' = <<>> /\ phase' = "idle" /\ ~Walking'
        BY <1>0, <2>1, <2>2 DEF FrameInv, Walking
      <3> QED BY <1>0, <2>1, <2>2, <3>1, QuietKeeps, NoFrame
    <2> QED BY <1>18, <1>21, <2>1, <2>2 DEF Rejected
  <1>22. CASE RejectParent
    <2>1. Parent \in Module /\ phase = "reject" /\ ~Walking /\ ~Walking' /\ ~AllParents
          /\ This \in Module /\ Waits(Parent, This) /\ calls # <<>>
          /\ UNCHANGED <<req, stack, phase, async_parent_modules>>
      <3>1. Parent \in Module /\ phase = "reject" /\ ~Walking /\ ~Walking' /\ ~AllParents
            /\ UNCHANGED <<req, stack, phase, async_parent_modules>> /\ calls # <<>>
            /\ Next1 \in 1..Len(async_parent_modules[This])
            /\ Parent = async_parent_modules[This][Next1]
        BY <1>0, <1>22, ParentIs DEF RejectParent, files, waits, Walking
      <3>2. This \in Module
        BY <1>0, <3>1, CallIs
      <3>3. async_parent_modules[This] \in Seq(Module)
        BY <1>0, <3>2 DEF TypeOK
      <3>4. DOMAIN async_parent_modules[This] = 1..Len(async_parent_modules[This])
        BY <3>3
      <3>5. Parent \in Range(async_parent_modules[This])
        BY <3>1, <3>4 DEF Range
      <3> QED BY <3>1, <3>2, <3>5 DEF Waits
    <2>2. \A x \in Module : status'[x] # status[x] => status[x] \in Ended /\ status'[x] \in Ended
      <3>1. status[Parent] \in Ended
        BY <1>Q, <2>1
      <3>2. status' = status \/ status' = [status EXCEPT ![Parent] = "EVALUATED"]
        BY <1>22 DEF RejectParent
      <3> QED BY <1>0, <2>1, <3>1, <3>2 DEF TypeOK, Ended
    <2>3. \/ calls' = Advance(calls)
          \/ calls' = <<[mod |-> Parent, next |-> 1]>> \o Advance(calls)
      BY <1>22 DEF RejectParent
    <2> QED BY <1>0, <2>1, <2>2, <2>3, QuietKeeps, ReactionFrame
  <1>23. CASE RejectReturn
    <2>1. phase = "reject" /\ ~Walking /\ ~Walking' /\ calls' = Tail(calls)
          /\ phase' = (IF Tail(calls) = <<>> THEN "exec" ELSE phase)
          /\ UNCHANGED <<req, stack, status, async_parent_modules>>
      BY <1>23 DEF RejectReturn, files, waits, Walking
    <2> QED BY <1>0, <2>1, QuietKeeps, ReactionReturn
  <1>24. CASE UNCHANGED vars
    <2>1. /\ UNCHANGED <<req, phase, root, calls, stack, index, status, dfs_index,
                         dfs_ancestor_index, async_parent_modules>>
      BY <1>24 DEF vars, files, walk, dfs, waits
    <2> QED BY <1>0, <2>1 DEF FrameInv, WalkInv, StackInv, CallsInv, EdgeInv, OwnerInv, LinkedInv,
               Entries, Walking, Unseen, OnStack, On, Called, Passed, Settled, Owner, Returned,
               AllRequired, Callee, This, Next1
  <1> QED
    BY <1>1, <1>2, <1>3, <1>4, <1>5, <1>6, <1>7, <1>8, <1>10, <1>11, <1>12, <1>13, <1>14, <1>15,
       <1>16, <1>17, <1>19, <1>20, <1>21, <1>22, <1>23, <1>24
    DEF Next, Link, Evaluate, Reaction, Await
----------------------------------------------------------------------------
(* The states of a module *)

\* Settling a promise changes no other, and makes none
LEMMA SettleIs ==
  ASSUME TypeOK, NEW m, NEW o \in {"fulfilled", "rejected"}, Settle(m, o)
  PROVE  /\ \A x \in Module : promise'[x] = "none" <=> promise[x] = "none"
         /\ \A x \in Module : x # m => promise'[x] = promise[x]
         /\ m \in Module => promise'[m] \in {"none", o}
  BY DEF Settle, TypeOK

\* A module that has failed has ended
LEMMA FailedEnded ==
  ASSUME IInv, NEW m \in Module, eval_has_exception[m]
  PROVE  status[m] = "EVALUATED"
  <1>1. StateOf(m) /\ status[m] \in Status
    BY DEF IInv, StateInv, TypeOK
  <1> QED BY <1>1 DEF StateOf, Status

\* Before a module is entered for its evaluation nobody waits for it and it waits for nobody
LEMMA NobodyWaits ==
  ASSUME IInv, NEW m \in Module, ~async_evaluation[m],
         status[m] \in {"UNLINKED", "LINKING", "LINKED", "EVALUATING"}
  PROVE  \A p : ~Waits(p, m)
  <1>1. async_parent_modules[m] = <<>>
    BY DEF IInv, StateInv, StateOf
  <1> QED BY <1>1 DEF Waits, Range

\* The part of StateOf that concerns the status, for modules whose status stays
LEMMA StateSame ==
  ASSUME NEW x \in Module, StateOf(x),
         /\ status'[x] = status[x] /\ cycle_root'[x] = cycle_root[x]
         /\ eval_has_exception'[x] = eval_has_exception[x]
         /\ (x \in exec_list') => (x \in exec_list) \/ status[x] \in Ended
         /\ async_parent_modules'[x] = async_parent_modules[x] \/ async_evaluation[x]
         /\ async_evaluation'[x] = async_evaluation[x]
         /\ body'[x] = body[x] /\ has_tla' = has_tla
         /\ status[x] = "EVALUATING" => (x \in Called' <=> x \in Called)
         /\ status[x] \notin Ended =>
              promise'[x] = promise[x] /\ (promise[x] # "none" => phase' = phase /\ root' = root)
  PROVE  StateOf(x)'
  <1>1. CASE status[x] \in Ended
    BY <1>1 DEF StateOf, Ended
  <1>2. CASE status[x] \notin Ended
    <2>1. /\ promise'[x] = promise[x] /\ (promise[x] # "none" => phase' = phase /\ root' = root)
          /\ (x \in exec_list') => (x \in exec_list)
      BY <1>2
    <2> QED BY <1>2, <2>1 DEF StateOf, Ended, Walking
  <1> QED BY <1>1, <1>2

\* The collected list lives in a reaction only
LEMMA ExecEmpty ==
  ASSUME IInv, phase \in {"idle", "link", "evaluate"} PROVE exec_list = {}
  BY DEF IInv, StateInv
\* Which modules have a call, after a push
LEMMA PushCalled ==
  ASSUME NEW m \in Module, NEW cs \in Seq(Frame), calls' = <<[mod |-> m, next |-> 1]>> \o cs
  PROVE  /\ Called' = {cs[k].mod : k \in 1..Len(cs)} \cup {m}
         /\ Len(calls') = Len(cs) + 1 /\ calls'[1] = [mod |-> m, next |-> 1]
         /\ \A k \in 2..Len(calls') : calls'[k] = cs[k - 1] /\ k - 1 \in 1..Len(cs)
         /\ \A k \in 1..Len(cs) : calls'[k + 1] = cs[k] /\ k + 1 \in 1..Len(calls')
         /\ \A k \in 1..Len(calls') : k = 1 \/ k \in 2..Len(calls')
         /\ 1 \in 1..Len(calls')
  <1> DEFINE f == [mod |-> m, next |-> 1]
  <1>1. f \in Frame /\ f.mod = m
    BY DEF Frame
  <1> HIDE DEF f
  <1>2. /\ Len(calls') = Len(cs) + 1 /\ calls'[1] = f
        /\ \A k \in 2..Len(calls') : calls'[k] = cs[k - 1] /\ k - 1 \in 1..Len(cs)
        /\ \A k \in 1..Len(cs) : calls'[k + 1] = cs[k]
        /\ Len(cs) \in Nat
    <2>1. calls' = <<f>> \o cs
      BY DEF f
    <2> QED BY <1>1, <2>1, Push, LenProperties
  <1>3. /\ \A k \in 1..Len(calls') : k = 1 \/ k \in 2..Len(calls')
        /\ \A k \in 2..Len(calls') : k \in 1..Len(calls')
        /\ 1 \in 1..Len(calls') /\ \A k \in 1..Len(cs) : k + 1 \in 1..Len(calls')
    BY <1>2
  <1>4. Called' = {cs[k].mod : k \in 1..Len(cs)} \cup {m}
    <2>1. Called' = {calls'[k].mod : k \in 1..Len(calls')}
      BY DEF Called
    <2>2. ASSUME NEW k \in 1..Len(calls')
          PROVE  calls'[k].mod \in {cs[l].mod : l \in 1..Len(cs)} \cup {m}
      <3>1. CASE k = 1
        BY <1>1, <1>2, <3>1
      <3>2. CASE k \in 2..Len(calls')
        BY <1>2, <3>2
      <3> QED BY <1>3, <3>1, <3>2
    <2>3. ASSUME NEW l \in 1..Len(cs) PROVE cs[l].mod \in Called'
      <3>1. calls'[l + 1] = cs[l] /\ l + 1 \in 1..Len(calls')
        BY <1>2, <1>3
      <3> QED BY <2>1, <3>1
    <2>4. m \in Called'
      <3>1. calls'[1].mod = m
        BY <1>1, <1>2
      <3> QED BY <1>3, <2>1, <3>1
    <2> QED BY <2>1, <2>2, <2>3, <2>4
  <1> QED BY <1>2, <1>3, <1>4 DEF f

\* ... and when the innermost goes on
LEMMA AdvanceCalled ==
  ASSUME calls \in Seq(Frame), calls # <<>>
  PROVE  {Advance(calls)[k].mod : k \in 1..Len(Advance(calls))} = Called
  <1> DEFINE a == Advance(calls)
  <1>1. Len(a) = Len(calls) /\ \A k \in 1..Len(calls) : a[k].mod = calls[k].mod
    BY AdvanceIs
  <1> HIDE DEF a
  <1>2. {a[k].mod : k \in 1..Len(a)} = Called
    BY <1>1 DEF Called
  <1> QED BY <1>2 DEF a

\* The two walks are never on the stack together
LEMMA OtherWalk ==
  ASSUME IInv
  PROVE  /\ phase = "link" => \A x \in Module : status[x] # "EVALUATING"
         /\ phase = "evaluate" => \A x \in Module : status[x] # "LINKING"
         /\ ~Walking => \A x \in Module : status[x] \notin {"LINKING", "EVALUATING"}
  <1>1. StackInv
    BY DEF IInv, WalkInv
  <1>2. ~Walking => \A x \in Module : status[x] \notin {"LINKING", "EVALUATING"}
    BY Quiet DEF Ended
  <1> QED BY <1>1, <1>2 DEF StackInv, OnStack

\* The states of the modules, action by action: linking, ...
LEMMA StateLink ==
  ASSUME IInv, TypeOK', Link PROVE \A x \in Module : StateOf(x)'
  <1>0. TypeOK /\ FrameInv /\ \A x \in Module : StateOf(x)
    BY DEF IInv, StateInv
  <1>O. phase = "link" /\ \A x \in Module : status[x] # "EVALUATING"
    BY OtherWalk DEF Link, LinkEnter, LinkRequired, LinkDone, LinkFail
  <1>1. /\ UNCHANGED <<has_tla, cycle_root, async_evaluation, async_parent_modules,
                       eval_has_exception, promise, exec_list, body>>
    BY DEF Link, LinkEnter, LinkRequired, LinkDone, LinkFail, files, waits, runs
  <1>2. \A x \in Module : status[x] \notin Ended => promise[x] = "none"
    BY <1>0, <1>O DEF StateOf, Ended, TypeOK, Status
  <1>3. \A x \in Module : status'[x] = status[x] \/
          (status[x] \in {"UNLINKED", "LINKING"} /\ status'[x] \in {"UNLINKED", "LINKING", "LINKED"})
    <2>1. CASE LinkEnter
      <3>1. Callee \in Module /\ status[Callee] = "UNLINKED" /\ status' = [status EXCEPT ![Callee] = "LINKING"]
        BY <1>0, <2>1, CalleeIs DEF LinkEnter, Enter, Walking
      <3> QED BY <1>0, <3>1 DEF TypeOK
    <2>2. CASE LinkRequired
      BY <2>2 DEF LinkRequired
    <2>3. CASE LinkDone
      <3>1. \A x \in Popped(This) : x \in On
        BY <2>3, LinkDoneIs DEF DoneStep
      <3>2. \A x \in On : status[x] = "LINKING"
        BY <1>O DEF IInv, WalkInv, StackInv, OnStack
      <3> QED BY <2>3, <3>1, <3>2 DEF LinkDone
    <2>4. CASE LinkFail
      <3>1. \A x \in Range(stack) : status[x] = "LINKING"
        BY <1>O DEF IInv, WalkInv, StackInv, OnStack, On
      <3> QED BY <2>4, <3>1 DEF LinkFail
    <2> QED BY <2>1, <2>2, <2>3, <2>4 DEF Link
  <1> SUFFICES ASSUME NEW x \in Module PROVE StateOf(x)'
    OBVIOUS
  <1>4. StateOf(x) /\ status[x] # "EVALUATING"
    BY <1>0, <1>O
  <1>5. CASE status'[x] = status[x]
    BY <1>1, <1>2, <1>4, <1>5, StateSame
  <1>6. CASE status[x] \in {"UNLINKED", "LINKING"} /\ status'[x] \in {"UNLINKED", "LINKING", "LINKED"}
    <2>1. promise[x] = "none"
      BY <1>2, <1>6 DEF Ended
    <2> QED BY <1>1, <1>4, <1>6, <2>1 DEF StateOf
  <1> QED BY <1>3, <1>5, <1>6

\* ... entering a module for its evaluation, ...
LEMMA StateEnter ==
  ASSUME IInv, TypeOK', EvalEnter PROVE \A x \in Module : StateOf(x)'
  <1> DEFINE m == Callee
  <1>0. TypeOK /\ FrameInv /\ \A x \in Module : StateOf(x)
    BY DEF IInv, StateInv
  <1>1. /\ UNCHANGED <<has_tla, cycle_root, async_evaluation, async_parent_modules,
                       eval_has_exception, promise, exec_list, body, phase, root>>
        /\ phase = "evaluate" /\ Walking
    BY DEF EvalEnter, Enter, files, runs, Walking
  <1>2. m \in Module /\ status[m] = "LINKED" /\ status' = [status EXCEPT ![m] = "EVALUATING"]
        /\ calls' = <<[mod |-> m, next |-> 1]>> \o calls
    BY <1>0, CalleeIs DEF EvalEnter, Enter, Walking
  <1> HIDE DEF m
  <1>3. Called' = Called \cup {m}
    <2>1. calls \in Seq(Frame)
      BY <1>0 DEF TypeOK
    <2> QED BY <1>2, <2>1, PushCalled DEF Called
  <1>4. \A x \in Module : x # m => status'[x] = status[x]
    BY <1>0, <1>2 DEF TypeOK
  <1>5. status'[m] = "EVALUATING"
    BY <1>0, <1>2 DEF TypeOK
  <1> SUFFICES ASSUME NEW x \in Module PROVE StateOf(x)'
    OBVIOUS
  <1>6. StateOf(x)
    BY <1>0
  <1>7. CASE x = m
    BY <1>1, <1>2, <1>3, <1>5, <1>6, <1>7 DEF StateOf, Walking
  <1>8. CASE x # m
    BY <1>1, <1>3, <1>4, <1>6, <1>8, StateSame
  <1> QED BY <1>7, <1>8

\* ... passing a request, ...
LEMMA StateRequired ==
  ASSUME IInv, TypeOK', EvalRequired PROVE \A x \in Module : StateOf(x)'
  <1>0. TypeOK /\ FrameInv /\ \A x \in Module : StateOf(x)
    BY DEF IInv, StateInv
  <1>1. /\ UNCHANGED <<has_tla, cycle_root, async_evaluation, status,
                       eval_has_exception, promise, exec_list, body, phase, root>>
        /\ calls # <<>> /\ calls' = Advance(calls)
    BY DEF EvalRequired, files, runs
  <1>2. Called' = Called
    <2>1. calls \in Seq(Frame)
      BY <1>0 DEF TypeOK
    <2> QED BY <1>1, <2>1, AdvanceCalled DEF Called
  <1>3. \A x \in Module : async_parent_modules'[x] = async_parent_modules[x] \/ async_evaluation[x]
    <2>1. \/ async_parent_modules' = async_parent_modules
          \/ /\ async_evaluation[Representative(Callee)]
             /\ async_parent_modules' = [async_parent_modules EXCEPT ![Representative(Callee)] =
                                          Append(async_parent_modules[Representative(Callee)], This)]
      BY DEF EvalRequired
    <2> QED BY <1>0, <2>1 DEF TypeOK
  <1> QED BY <1>0, <1>1, <1>2, <1>3, StateSame

\* ... returning, ...
LEMMA StateDone ==
  ASSUME IInv, TypeOK', EvalDone PROVE \A x \in Module : StateOf(x)'
  <1> SUFFICES ASSUME NEW t, t = This PROVE \A x \in Module : StateOf(x)'
    OBVIOUS
  <1>0. TypeOK /\ FrameInv /\ StackInv /\ \A x \in Module : StateOf(x)
    BY DEF IInv, StateInv, WalkInv
  <1>1. /\ UNCHANGED <<has_tla, async_parent_modules, eval_has_exception, promise, exec_list, phase, root>>
        /\ phase = "evaluate" /\ calls # <<>>
    BY DEF EvalDone, files, AllRequired
  <1>2. /\ t \in Module /\ t \in Called /\ t \in On
    <2>1. t \in Module /\ t = calls[1].mod /\ 1 \in 1..Len(calls) /\ t \in Called
      BY <1>0, <1>1, CallIs
    <2> QED BY <1>1, <2>1 DEF IInv, WalkInv, CallsInv, Walking
  <1>3. Popped(t) \subseteq On /\ Called' = Called \ {t} /\ Popped(t) \cap Called \subseteq {t}
    BY EvalDoneIs DEF DoneStep
  <1>4. /\ status' = [m \in Module |-> IF m \notin Popped(t) THEN status[m]
                                   ELSE IF async_evaluation'[m] THEN "EVALUATING_ASYNC"
                                   ELSE "EVALUATED"]
        /\ cycle_root' = [m \in Module |-> IF m \in Popped(t) THEN t ELSE cycle_root[m]]
    BY DEF EvalDone
  <1>5. \A x \in Module : x # t => body'[x] = body[x] /\ async_evaluation'[x] = async_evaluation[x]
    <2>1. /\ body' = body \/ \E o : body' = [body EXCEPT ![t] = o]
          /\ async_evaluation' = async_evaluation \/ async_evaluation' = [async_evaluation EXCEPT ![t] = TRUE]
      BY DEF EvalDone, Run, runs, BecomeAsync
    <2>2. \A x \in Module : x # t => body'[x] = body[x]
      BY <1>0, <2>1 DEF TypeOK
    <2>3. \A x \in Module : x # t => async_evaluation'[x] = async_evaluation[x]
      BY <1>0, <2>1 DEF TypeOK
    <2> QED BY <2>2, <2>3
  <1>6. IF async_evaluation'[t] THEN /\ body'[t] \in {"unrun", "running"}
                                     /\ body'[t] = "running" => t \in has_tla
        ELSE body'[t] = "done"
    <2>1. ~async_evaluation[t] /\ body[t] = "unrun"
      <3>1. status[t] = "EVALUATING"
        BY <1>0, <1>1, <1>2 DEF StackInv, OnStack
      <3> QED BY <1>0, <1>2, <3>1 DEF StateOf
    <2>2. CASE This \in has_tla \/ ~Starts(This)
      <3>1. async_evaluation'[t]
        <4>1. BecomeAsync(t)
          BY <2>2 DEF EvalDone
        <4> QED BY <1>0, <1>2, <4>1 DEF BecomeAsync, TypeOK
      <3>2. body'[t] \in {"unrun", "running"} /\ (body'[t] = "running" => t \in has_tla)
        BY <1>0, <1>2, <2>1, <2>2 DEF EvalDone, Run, runs, TypeOK
      <3> QED BY <3>1, <3>2
    <2>3. CASE This \notin has_tla /\ Starts(This)
      <3>1. Run(t, "done") /\ async_evaluation' = async_evaluation
        BY <2>3 DEF EvalDone
      <3>2. body'[t] = "done"
        BY <1>0, <1>2, <3>1 DEF Run, TypeOK
      <3> QED BY <2>1, <3>1, <3>2
    <2> QED BY <2>2, <2>3
  <1>7. \A x \in On : status[x] = "EVALUATING"
    BY <1>0, <1>1 DEF StackInv, OnStack
  <1> SUFFICES ASSUME NEW x \in Module PROVE StateOf(x)'
    OBVIOUS
  <1>8. StateOf(x)
    BY <1>0
  <1>9. CASE x # t /\ x \notin Popped(t)
    <2>1. status'[x] = status[x] /\ cycle_root'[x] = cycle_root[x] /\ body'[x] = body[x]
          /\ async_evaluation'[x] = async_evaluation[x] /\ (x \in Called' <=> x \in Called)
      BY <1>3, <1>4, <1>5, <1>9
    <2> QED BY <1>1, <1>8, <2>1, StateSame
  <1>10. CASE x # t /\ x \in Popped(t)
    <2>1. status[x] = "EVALUATING" /\ x \notin Called
      BY <1>3, <1>7, <1>10
    <2>2. status'[x] = IF async_evaluation[x] THEN "EVALUATING_ASYNC" ELSE "EVALUATED"
      BY <1>4, <1>5, <1>10
    <2>3. body'[x] = body[x] /\ (async_evaluation'[x] <=> async_evaluation[x])
      BY <1>5, <1>10
    <2>4. /\ ~eval_has_exception'[x]
          /\ IF async_evaluation[x] THEN body[x] \in {"unrun", "running"} ELSE body[x] = "done"
          /\ body[x] = "running" => x \in has_tla' /\ async_evaluation[x]
      BY <1>1, <1>8, <2>1 DEF StateOf
    <2>5. CASE async_evaluation[x]
      BY <2>2, <2>3, <2>4, <2>5 DEF StateOf
    <2>6. CASE ~async_evaluation[x]
      BY <2>2, <2>3, <2>4, <2>6 DEF StateOf
    <2> QED BY <2>5, <2>6
  <1>11. CASE x = t /\ x \in Popped(t)
    <2>1. ~eval_has_exception'[x]
      BY <1>1, <1>2, <1>7, <1>8, <1>11 DEF StateOf
    <2>2. status'[x] = IF async_evaluation'[x] THEN "EVALUATING_ASYNC" ELSE "EVALUATED"
      BY <1>4, <1>11
    <2>3. CASE async_evaluation'[x]
      BY <1>1, <1>6, <1>11, <2>1, <2>2, <2>3 DEF StateOf
    <2>4. CASE ~async_evaluation'[x]
      BY <1>6, <1>11, <2>1, <2>2, <2>4 DEF StateOf
    <2> QED BY <2>3, <2>4
  <1>12. CASE x = t /\ x \notin Popped(t)
    <2>1. status'[x] = "EVALUATING" /\ x \notin Called' /\ cycle_root'[x] = cycle_root[x]
      BY <1>2, <1>3, <1>4, <1>7, <1>12
    <2>2. /\ cycle_root[x] = None /\ ~eval_has_exception'[x] /\ x \notin exec_list'
          /\ promise'[x] # "none" => Walking' /\ phase' = "evaluate" /\ root' = x /\ promise'[x] = "pending"
          /\ async_parent_modules'[x] = <<>>
      <3>1. status[x] = "EVALUATING" /\ x \in Called
        BY <1>2, <1>7, <1>12
      <3> QED BY <1>1, <1>8, <3>1 DEF StateOf, Walking
    <2>3. CASE async_evaluation'[x]
      BY <1>1, <1>6, <1>12, <2>1, <2>2, <2>3 DEF StateOf
    <2>4. CASE ~async_evaluation'[x]
      BY <1>6, <1>12, <2>1, <2>2, <2>4 DEF StateOf
    <2> QED BY <2>3, <2>4
  <1> QED BY <1>9, <1>10, <1>11, <1>12

\* The root is on the stack as long as anything is
LEMMA RootOn ==
  ASSUME IInv, Walking
  PROVE  /\ root \in Module /\ (calls # <<>> => root \in On /\ root \in Called)
         /\ calls = <<>> => On = {}
  <1>1. FrameInv /\ CallsInv /\ TypeOK
    BY DEF IInv, WalkInv
  <1>2. calls # <<>> => Len(calls) \in 1..Len(calls)
    BY <1>1, CallIs
  <1>3. calls = <<>> => On = {}
    BY <1>1 DEF CallsInv, On, Range
  <1> QED BY <1>1, <1>2, <1>3 DEF FrameInv, CallsInv, Called

\* ... unwinding after a throw, ...
LEMMA StateUnwind ==
  ASSUME IInv, TypeOK', phase = "evaluate", Unwind, NEW t,
         UNCHANGED <<has_tla, async_evaluation, async_parent_modules, exec_list>>,
         calls = <<>> => status[root] \in Ended,
         body' = body \/ (body' = [body EXCEPT ![t] = "threw"] /\ t \in On)
  PROVE  \A x \in Module : StateOf(x)'
  <1>0. TypeOK /\ FrameInv /\ StackInv /\ \A x \in Module : StateOf(x)
    BY DEF IInv, StateInv, WalkInv
  <1>1. /\ status' = [m \in Module |-> IF m \in On THEN "EVALUATED" ELSE status[m]]
        /\ eval_has_exception' = [m \in Module |-> m \in On \/ eval_has_exception[m]]
        /\ cycle_root' = [m \in Module |-> IF m \in On THEN root ELSE cycle_root[m]]
        /\ Settle(root, "rejected") /\ phase' = "idle"
    BY DEF Unwind, On, Idle
  <1>2. root \in Module /\ (root \in On \/ status[root] \in Ended)
    BY RootOn DEF Walking
  <1>3. \A x \in Module : x # root => promise'[x] = promise[x]
    BY <1>0, <1>1, SettleIs
  <1> SUFFICES ASSUME NEW x \in Module PROVE StateOf(x)'
    OBVIOUS
  <1>4. StateOf(x)
    BY <1>0
  <1>5. CASE x \in On
    <2>1. status'[x] = "EVALUATED" /\ eval_has_exception'[x]
      BY <1>1, <1>5
    <2>2. body'[x] = "running" => body[x] = "running"
      BY <1>0 DEF TypeOK
    <2>3. body[x] = "running" => x \in has_tla /\ async_evaluation[x]
      BY <1>4 DEF StateOf
    <2> QED BY <2>1, <2>2, <2>3 DEF StateOf
  <1>6. CASE x \notin On
    <2>1. status'[x] = status[x] /\ cycle_root'[x] = cycle_root[x]
          /\ eval_has_exception'[x] = eval_has_exception[x]
      <3>1. eval_has_exception'[x] = (FALSE \/ eval_has_exception[x])
        BY <1>1, <1>6
      <3>2. eval_has_exception[x] \in BOOLEAN
        BY <1>0 DEF TypeOK
      <3> QED BY <1>1, <1>6, <3>1, <3>2
    <2>2. body'[x] = body[x]
      BY <1>0, <1>6 DEF TypeOK
    <2>3. status[x] # "EVALUATING"
      BY <1>0, <1>6 DEF StackInv
    <2>4. status[x] \notin Ended => promise'[x] = "none" /\ promise[x] = "none"
      <3> SUFFICES ASSUME status[x] \notin Ended PROVE promise'[x] = "none" /\ promise[x] = "none"
        OBVIOUS
      <3>1. x # root
        BY <1>2, <1>6
      <3>2. promise[x] # "none" => root = x
        <4>1. status[x] \in Status
          BY <1>0 DEF TypeOK
        <4> QED BY <1>4, <4>1 DEF StateOf, Status, Ended
      <3> QED BY <1>3, <3>1, <3>2
    <2> QED BY <1>4, <2>1, <2>2, <2>3, <2>4, StateSame
  <1> QED BY <1>5, <1>6
\* Nobody has a promise before it is evaluated
LEMMA NoPromise ==
  ASSUME IInv, NEW x \in Module, status[x] \notin Ended, promise[x] # "none"
  PROVE  phase = "evaluate" /\ root = x /\ promise[x] = "pending"
  <1>1. StateOf(x) /\ status[x] \in Status
    BY DEF IInv, StateInv, TypeOK
  <1> QED BY <1>1 DEF StateOf, Status, Ended

\* The reactions, as far as the states of the modules go
LEMMA StateReact ==
  ASSUME IInv, TypeOK', ~Walking, NEW m \in Module, status[m] \in Ended,
         UNCHANGED <<has_tla, cycle_root, async_parent_modules>>,
         \A x \in Module : x # m => /\ status'[x] = status[x]
                                    /\ eval_has_exception'[x] = eval_has_exception[x]
                                    /\ async_evaluation'[x] = async_evaluation[x]
                                    /\ body'[x] = body[x],
         \A x \in Module : promise'[x] # promise[x] => status[x] \in Ended,
         \A x \in exec_list' : x \in exec_list \/ status[x] \in Ended,
         status'[m] \in Ended,
         status'[m] = "EVALUATING_ASYNC" =>
            async_evaluation'[m] /\ ~eval_has_exception'[m] /\ body'[m] \in {"unrun", "running"},
         status'[m] = "EVALUATED" => eval_has_exception'[m] \/ body'[m] = "done",
         body'[m] = "running" => m \in has_tla /\ async_evaluation'[m]
  PROVE  \A x \in Module : StateOf(x)'
  <1> SUFFICES ASSUME NEW x \in Module PROVE StateOf(x)'
    OBVIOUS
  <1>1. StateOf(x) /\ status[x] \notin {"LINKING", "EVALUATING"}
    BY OtherWalk DEF IInv, StateInv
  <1>2. CASE x = m
    BY <1>2 DEF StateOf, Ended
  <1>3. CASE x # m
    <2>1. status[x] \notin Ended => promise'[x] = promise[x] /\ promise[x] = "none"
      BY NoPromise DEF Walking
    <2> QED BY <1>1, <1>3, <2>1, StateSame
  <1> QED BY <1>2, <1>3

\* ... and the start of an evaluation
LEMMA StateEvaluate ==
  ASSUME IInv, TypeOK', EvaluateModule \/ EvaluateReturn
  PROVE  \A x \in Module : StateOf(x)'
  <1>0. TypeOK /\ FrameInv /\ \A x \in Module : StateOf(x)
    BY DEF IInv, StateInv
  <1>1. /\ UNCHANGED <<has_tla, cycle_root, async_evaluation, async_parent_modules, status,
                       eval_has_exception, exec_list, body, calls>>
        /\ Called' = Called /\ Walking /\ calls = <<>>
    BY DEF EvaluateModule, EvaluateReturn, files, waits, runs, Called, Walking
  <1>2. /\ \A x \in Module : status[x] # "EVALUATING"
        /\ root \in Module
    <2>1. On = {} /\ root \in Module
      BY <1>1, RootOn
    <2> QED BY <1>0, <2>1 DEF IInv, WalkInv, StackInv
  <1>3. \A x \in Module : status[x] \notin Ended =>
          \/ promise'[x] = "none"
          \/ promise'[x] = "pending" /\ phase' = "evaluate" /\ root' = x
    <2> SUFFICES ASSUME NEW x \in Module, status[x] \notin Ended
                 PROVE  \/ promise'[x] = "none"
                        \/ promise'[x] = "pending" /\ phase' = "evaluate" /\ root' = x
      OBVIOUS
    <2>1. CASE EvaluateModule
      <3>1. promise[x] = "none"
        BY <2>1, NoPromise DEF EvaluateModule
      <3>2. \/ promise' = promise
            \/ /\ promise' = [promise EXCEPT ![PromiseModule(root)] = "pending"]
               /\ phase' = "evaluate" /\ root' = PromiseModule(root)
        BY <2>1 DEF EvaluateModule
      <3> QED BY <1>0, <3>1, <3>2 DEF TypeOK
    <2>2. CASE EvaluateReturn
      <3>1. promise' = promise \/ Settle(root, "fulfilled")
        BY <2>2 DEF EvaluateReturn
      <3>2. x # root
        BY <2>2 DEF EvaluateReturn
      <3>3. promise'[x] = promise[x]
        BY <1>0, <3>1, <3>2, SettleIs
      <3>4. promise[x] = "none"
        BY <3>2, NoPromise
      <3> QED BY <3>3, <3>4
    <2> QED BY <2>1, <2>2
  <1> SUFFICES ASSUME NEW x \in Module PROVE StateOf(x)'
    OBVIOUS
  <1>4. StateOf(x) /\ status[x] # "EVALUATING" /\ status[x] \in Status
    BY <1>0, <1>2 DEF TypeOK
  <1>5. CASE status[x] \in Ended
    BY <1>1, <1>4, <1>5 DEF StateOf, Ended
  <1>6. CASE status[x] \notin Ended
    <2>1. CASE promise'[x] = "none"
      BY <1>1, <1>4, <1>6, <2>1 DEF StateOf, Ended
    <2>2. CASE promise'[x] = "pending" /\ phase' = "evaluate" /\ root' = x
      BY <1>1, <1>4, <1>6, <2>2 DEF StateOf, Ended, Walking
    <2> QED BY <1>3, <1>6, <2>1, <2>2
  <1> QED BY <1>5, <1>6

\* What the innermost call's parent is
LEMMA ParentWaits ==
  ASSUME IInv, phase \in {"gather", "reject"}, ~AllParents
  PROVE  /\ calls # <<>> /\ Parent \in Module /\ This \in Module /\ This \in Called
         /\ Waits(Parent, This)
         /\ Next1 \in 1..Len(async_parent_modules[This]) /\ Parent = async_parent_modules[This][Next1]
         /\ This = calls[1].mod /\ Next1 = calls[1].next /\ 1 \in 1..Len(calls)
         /\ status[Parent] \in Ended /\ ~Walking
  <1>0. TypeOK /\ FrameInv
    BY DEF IInv
  <1>1. /\ Parent \in Module /\ calls # <<>>
        /\ Next1 \in 1..Len(async_parent_modules[This])
        /\ Parent = async_parent_modules[This][Next1]
    BY <1>0, ParentIs DEF FrameInv
  <1>2. This \in Module /\ This = calls[1].mod /\ Next1 = calls[1].next /\ 1 \in 1..Len(calls)
        /\ This \in Called
    BY <1>0, <1>1, CallIs
  <1>3. async_parent_modules[This] \in Seq(Module)
    BY <1>0, <1>2 DEF TypeOK
  <1>4. DOMAIN async_parent_modules[This] = 1..Len(async_parent_modules[This])
    BY <1>3
  <1>5. Waits(Parent, This)
    BY <1>1, <1>4 DEF Range, Waits
  <1>6. ~Walking
    BY DEF Walking
  <1>7. status[Parent] \in Ended
    BY <1>1, <1>2, <1>5, <1>6, Quiet
  <1> QED BY <1>1, <1>2, <1>5, <1>6, <1>7

\* What holds of each module's state is preserved by every step.
LEMMA StateNext == IInv /\ [Next]_vars => StateInv'
  <1> SUFFICES ASSUME IInv, [Next]_vars PROVE StateInv'
    OBVIOUS
  <1>0. TypeOK /\ FrameInv /\ TypeOK' /\ \A x \in Module : StateOf(x)
    BY TypeNext DEF IInv, StateInv
  <1>Q. ~Walking => /\ \A m \in Module : body[m] # "unrun" => status[m] \in Ended
                    /\ \A m \in exec_list : status[m] \in Ended
    BY Quiet
  <1>E. phase \in {"idle", "link", "evaluate"} => exec_list = {}
    BY ExecEmpty
  <1>1. ASSUME NEW m \in Module, Import(m) PROVE StateInv'
    <2>1. /\ UNCHANGED <<has_tla, cycle_root, async_evaluation, async_parent_modules, status,
                         eval_has_exception, exec_list, body, calls, promise>>
          /\ Called' = Called /\ phase = "idle" /\ ~Walking
      BY <1>1 DEF Import, files, waits, runs, Called, Walking
    <2>2. ASSUME NEW x \in Module PROVE StateOf(x)'
      <3>1. status[x] \notin Ended => promise'[x] = promise[x] /\ promise[x] = "none"
        BY <2>1, NoPromise
      <3> QED BY <1>0, <2>1, <3>1, StateSame
    <2> QED BY <1>E, <2>1, <2>2 DEF StateInv
  <1>2. CASE Link
    <2>1. exec_list = {} /\ exec_list' = exec_list
      BY <1>2, <1>E DEF Link, LinkEnter, LinkRequired, LinkDone, LinkFail
    <2> QED BY <1>0, <1>2, <2>1, StateLink DEF StateInv
  <1>3. CASE EvaluateModule \/ EvaluateReturn
    <2>1. exec_list = {} /\ exec_list' = exec_list
      BY <1>3, <1>E DEF EvaluateModule, EvaluateReturn
    <2> QED BY <1>0, <1>3, <2>1, StateEvaluate DEF StateInv
  <1>4. CASE EvalEnter
    <2>1. exec_list = {} /\ exec_list' = exec_list
      BY <1>4, <1>E DEF EvalEnter
    <2> QED BY <1>0, <1>4, <2>1, StateEnter DEF StateInv
  <1>5. CASE EvalRequired
    <2>1. exec_list = {} /\ exec_list' = exec_list
      BY <1>5, <1>E DEF EvalRequired
    <2> QED BY <1>0, <1>5, <2>1, StateRequired DEF StateInv
  <1>6. CASE EvalDone
    <2>1. exec_list = {} /\ exec_list' = exec_list
      BY <1>6, <1>E DEF EvalDone
    <2> QED BY <1>0, <1>6, <2>1, StateDone DEF StateInv
  <1>7. CASE EvalFail \/ EvalThrow
    <2>1. exec_list = {} /\ exec_list' = exec_list /\ phase = "evaluate" /\ Unwind
          /\ UNCHANGED <<has_tla, async_evaluation, async_parent_modules>>
      BY <1>7, <1>E DEF EvalFail, EvalThrow, files, waits
    <2>2. calls = <<>> => status[root] \in Ended
      BY <1>7 DEF EvalFail, EvalThrow, CalleeFailed, Callee, AllRequired
    <2>3. body' = body \/ (body' = [body EXCEPT ![This] = "threw"] /\ This \in On)
      <3>1. CASE EvalFail
        BY <3>1 DEF EvalFail, runs
      <3>2. CASE EvalThrow
        <4>1. body' = [body EXCEPT ![This] = "threw"] /\ calls # <<>>
          BY <3>2 DEF EvalThrow, Run, AllRequired
        <4>2. This = calls[1].mod /\ 1 \in 1..Len(calls)
          BY <1>0, <4>1, CallIs
        <4> QED BY <2>1, <4>1, <4>2 DEF IInv, WalkInv, CallsInv, Walking
      <3> QED BY <1>7, <3>1, <3>2
    <2>4. \A x \in Module : StateOf(x)'
      BY <1>0, <2>1, <2>2, <2>3, StateUnwind
    <2> QED BY <2>1, <2>4 DEF StateInv
  <1>8. ASSUME NEW m \in Module, Fulfilled(m) PROVE StateInv'
    <2>0. /\ phase = "idle" /\ ~Walking /\ body[m] = "running" /\ exec_list = {} /\ exec_list' = {}
          /\ UNCHANGED <<has_tla, cycle_root, async_parent_modules, eval_has_exception>>
          /\ body' = [body EXCEPT ![m] = "done"]
      BY <1>8, <1>E DEF Fulfilled, Walking, files
    <2>1. status[m] \in Ended /\ StateOf(m)
      BY <1>0, <1>Q, <2>0
    <2>2. \/ GivenUp(m) /\ UNCHANGED <<status, promise, async_evaluation>>
          \/ /\ ~GivenUp(m) /\ async_evaluation' = [async_evaluation EXCEPT ![m] = FALSE]
             /\ status' = [status EXCEPT ![m] = "EVALUATED"] /\ Settle(m, "fulfilled")
      BY <1>8 DEF Fulfilled, SetEvaluated
    <2>3. body'[m] = "done" /\ \A x \in Module : x # m => body'[x] = body[x]
      BY <1>0, <2>0 DEF TypeOK
    <2>4. /\ \A x \in Module : x # m => status'[x] = status[x]
          /\ status'[m] = "EVALUATED"
      BY <1>0, <2>2 DEF TypeOK, GivenUp
    <2>5. \A x \in Module : x # m => async_evaluation'[x] = async_evaluation[x]
      BY <1>0, <2>2 DEF TypeOK
    <2>6. \A x \in Module : promise'[x] # promise[x] => status[x] \in Ended
      BY <1>0, <2>1, <2>2, SettleIs
    <2>7. \A x \in Module : StateOf(x)'
      BY <1>0, <2>0, <2>1, <2>3, <2>4, <2>5, <2>6, StateReact DEF Ended
    <2> QED BY <2>0, <2>7 DEF StateInv
  <1>9. CASE GatherParent
    <2>1. ~Walking /\ Parent \in Module /\ status[Parent] \in Ended
          /\ phase' = "gather" /\ exec_list' \subseteq exec_list \cup {Parent}
          /\ UNCHANGED <<has_tla, cycle_root, async_parent_modules, status, eval_has_exception,
                         async_evaluation, body, promise>>
      BY <1>9, ParentWaits DEF GatherParent, files, runs
    <2>2. StateOf(Parent)
      BY <1>0, <2>1
    <2>3. \A x \in Module : StateOf(x)'
      <3>1. /\ status[Parent] = "EVALUATING_ASYNC" =>
                  async_evaluation[Parent] /\ ~eval_has_exception[Parent] /\ body[Parent] \in {"unrun", "running"}
            /\ status[Parent] = "EVALUATED" => eval_has_exception[Parent] \/ body[Parent] = "done"
            /\ body[Parent] = "running" => Parent \in has_tla /\ async_evaluation[Parent]
        BY <2>2 DEF StateOf
      <3> QED BY <1>0, <2>1, <3>1, StateReact
    <2> QED BY <2>1, <2>3 DEF StateInv
  <1>10. CASE GatherReturn \/ ExecEnd
    <2>1. ~Walking /\ ~Walking'
          /\ UNCHANGED <<has_tla, cycle_root, async_parent_modules, status, eval_has_exception,
                         async_evaluation, body, promise, exec_list>>
          /\ phase' \notin {"link", "evaluate"} /\ (phase' = "idle" => exec_list = {})
      BY <1>10 DEF GatherReturn, ExecEnd, files, waits, runs, Walking
    <2>2. ASSUME NEW x \in Module PROVE StateOf(x)'
      <3>1. status[x] \notin Ended => promise'[x] = promise[x] /\ promise[x] = "none"
        BY <2>1, NoPromise DEF Walking
      <3>2. status[x] # "EVALUATING"
        BY <2>1, OtherWalk
      <3> QED BY <1>0, <2>1, <3>1, <3>2, StateSame
    <2> QED BY <2>1, <2>2 DEF StateInv
  <1>11. ASSUME NEW m \in Module, ExecSkip(m) \/ ExecAsync(m) \/ ExecSync(m) PROVE StateInv'
    <2>0. /\ phase = "exec" /\ phase' = "exec" /\ ~Walking /\ m \in exec_list
          /\ exec_list' \subseteq exec_list
          /\ UNCHANGED <<has_tla, cycle_root, async_parent_modules, eval_has_exception, async_evaluation>>
      BY <1>11 DEF ExecSkip, ExecAsync, ExecSync, IsFirst, Walking, files, walk, waits
    <2>1. status[m] \in Ended /\ StateOf(m)
      BY <1>0, <1>Q, <2>0
    <2>2. /\ status[m] = "EVALUATING_ASYNC" =>
                  async_evaluation[m] /\ ~eval_has_exception[m] /\ body[m] \in {"unrun", "running"}
          /\ status[m] = "EVALUATED" => eval_has_exception[m] \/ body[m] = "done"
          /\ body[m] = "running" => m \in has_tla /\ async_evaluation[m]
      BY <2>1 DEF StateOf
    <2>3. CASE ExecSkip(m)
      <3>1. UNCHANGED <<status, body, promise>>
        BY <2>3 DEF ExecSkip, runs
      <3>2. \A x \in Module : StateOf(x)'
        BY <1>0, <2>0, <2>1, <2>2, <3>1, StateReact
      <3> QED BY <2>0, <3>2 DEF StateInv
    <2>4. CASE ExecAsync(m)
      <3>1. UNCHANGED <<status, promise>> /\ m \in has_tla /\ status[m] = "EVALUATING_ASYNC"
            /\ body' = [body EXCEPT ![m] = "running"]
        BY <2>1, <2>4 DEF ExecAsync, Run, GivenUp, Ended
      <3>2. body'[m] = "running" /\ \A x \in Module : x # m => body'[x] = body[x]
        BY <1>0, <3>1 DEF TypeOK
      <3>3. \A x \in Module : StateOf(x)'
        BY <1>0, <2>0, <2>1, <2>2, <3>1, <3>2, StateReact
      <3> QED BY <2>0, <3>3 DEF StateInv
    <2>5. CASE ExecSync(m)
      <3>1. status' = [status EXCEPT ![m] = "EVALUATED"] /\ Settle(m, "fulfilled")
            /\ body' = [body EXCEPT ![m] = "done"]
        BY <2>5 DEF ExecSync, Run, SetEvaluated
      <3>2. body'[m] = "done" /\ \A x \in Module : x # m => body'[x] = body[x]
        BY <1>0, <3>1 DEF TypeOK
      <3>3. status'[m] = "EVALUATED" /\ \A x \in Module : x # m => status'[x] = status[x]
        BY <1>0, <3>1 DEF TypeOK
      <3>4. \A x \in Module : promise'[x] # promise[x] => status[x] \in Ended
        BY <1>0, <2>1, <3>1, SettleIs
      <3>5. \A x \in Module : StateOf(x)'
        BY <1>0, <2>0, <2>1, <3>2, <3>3, <3>4, StateReact DEF Ended
      <3> QED BY <2>0, <3>5 DEF StateInv
    <2> QED BY <1>11, <2>3, <2>4, <2>5
  <1>12. ASSUME NEW m \in Module, ~Walking, status[m] \in Ended, phase' = "reject",
                status' = [status EXCEPT ![m] = "EVALUATED"],
                eval_has_exception' = [eval_has_exception EXCEPT ![m] = TRUE],
                UNCHANGED <<has_tla, cycle_root, async_parent_modules, async_evaluation, promise>>,
                exec_list' \subseteq exec_list,
                body' = body \/ body' = [body EXCEPT ![m] = "threw"]
         PROVE  StateInv'
    <2>1. \A x \in Module : x # m => body'[x] = body[x]
      BY <1>0, <1>12 DEF TypeOK
    <2>2. body'[m] = "running" => m \in has_tla /\ async_evaluation'[m]
      <3>1. body'[m] = body[m] \/ body'[m] = "threw"
        BY <1>0, <1>12 DEF TypeOK
      <3>2. body[m] = "running" => m \in has_tla /\ async_evaluation[m]
        BY <1>0, <1>12 DEF StateOf
      <3> QED BY <1>12, <3>1, <3>2
    <2>3. status'[m] = "EVALUATED" /\ \A x \in Module : x # m => status'[x] = status[x]
      BY <1>0, <1>12 DEF TypeOK
    <2>4. eval_has_exception'[m] /\ \A x \in Module : x # m => eval_has_exception'[x] = eval_has_exception[x]
      BY <1>0, <1>12 DEF TypeOK
    <2>5. \A x \in Module : StateOf(x)'
      BY <1>0, <1>12, <2>1, <2>2, <2>3, <2>4, StateReact DEF Ended
    <2> QED BY <1>12, <2>5 DEF StateInv
  <1>13. ASSUME NEW m \in Module, ExecThrow(m) PROVE StateInv'
    <2>1. /\ ~Walking /\ m \in exec_list /\ exec_list' \subseteq exec_list /\ Reject(m)
          /\ UNCHANGED <<has_tla, cycle_root, async_parent_modules, async_evaluation, promise>>
          /\ body' = [body EXCEPT ![m] = "threw"]
      BY <1>13 DEF ExecThrow, IsFirst, Walking, files, waits, Run
    <2> QED BY <1>Q, <1>12, <2>1 DEF Reject
  <1>14. ASSUME NEW m \in Module, Rejected(m) PROVE StateInv'
    <2>1. /\ ~Walking /\ exec_list' = exec_list /\ exec_list = {} /\ status[m] \in Ended
          /\ UNCHANGED <<has_tla, cycle_root, async_parent_modules, async_evaluation, promise>>
          /\ body' = [body EXCEPT ![m] = "threw"] /\ body[m] = "running"
      BY <1>14, <1>E, <1>Q DEF Rejected, Walking, files, waits
    <2>2. CASE GivenUp(m)
      <3>1. UNCHANGED <<phase, status, eval_has_exception>> /\ status[m] = "EVALUATED"
        BY <1>14, <2>2 DEF Rejected, GivenUp
      <3>2. body'[m] = "threw" /\ \A x \in Module : x # m => body'[x] = body[x]
        BY <1>0, <2>1 DEF TypeOK
      <3>3. eval_has_exception[m]
        BY <1>0, <2>1, <3>1 DEF StateOf
      <3>4. \A x \in Module : StateOf(x)'
        BY <1>0, <2>1, <3>1, <3>2, <3>3, StateReact
      <3> QED BY <2>1, <3>4 DEF StateInv
    <2>3. CASE ~GivenUp(m)
      <3>1. Reject(m)
        BY <1>14, <2>3 DEF Rejected
      <3> QED BY <1>12, <2>1, <3>1 DEF Reject
    <2> QED BY <2>2, <2>3
  <1>15. CASE RejectParent
    <2>1. /\ ~Walking /\ Parent \in Module /\ status[Parent] \in Ended /\ phase' = "reject"
          /\ UNCHANGED <<has_tla, cycle_root, async_parent_modules, async_evaluation, promise, body, exec_list>>
      BY <1>15, ParentWaits DEF RejectParent, files, waits, runs
    <2>2. CASE GivenUp(Parent)
      <3>1. UNCHANGED <<status, eval_has_exception>>
        BY <1>15, <2>2 DEF RejectParent
      <3>2. ASSUME NEW x \in Module PROVE StateOf(x)'
        <4>1. status[x] \notin Ended => promise'[x] = promise[x] /\ promise[x] = "none"
          BY <2>1, NoPromise DEF Walking
        <4>2. status[x] # "EVALUATING"
          BY <2>1, OtherWalk
        <4> QED BY <1>0, <2>1, <3>1, <4>1, <4>2, StateSame
      <3> QED BY <2>1, <3>2 DEF StateInv
    <2>3. CASE ~GivenUp(Parent)
      <3>1. /\ status' = [status EXCEPT ![Parent] = "EVALUATED"]
            /\ eval_has_exception' = [eval_has_exception EXCEPT ![Parent] = TRUE]
        BY <1>15, <2>3 DEF RejectParent
      <3> QED BY <1>12, <2>1, <3>1
    <2> QED BY <2>2, <2>3
  <1>16. CASE RejectReturn
    <2>1. /\ phase = "reject" /\ ~Walking /\ phase' \in {"reject", "exec"} /\ calls # <<>>
          /\ Settle(This, "rejected")
          /\ UNCHANGED <<has_tla, cycle_root, async_parent_modules, status, eval_has_exception,
                         async_evaluation, body, exec_list>>
      BY <1>0, <1>16 DEF RejectReturn, files, waits, runs, Walking, FrameInv
    <2>2. This \in Module /\ This = calls[1].mod /\ 1 \in 1..Len(calls)
      BY <1>0, <2>1, CallIs
    <2>3. status[This] \in Ended
      <3>1. eval_has_exception[This]
        BY <2>1, <2>2 DEF IInv, AsyncInv, FailInv
      <3> QED BY <2>2, <3>1, FailedEnded DEF Ended
    <2>4. \A x \in Module : x # This => promise'[x] = promise[x]
      BY <1>0, <2>1, SettleIs
    <2>5. ASSUME NEW x \in Module PROVE StateOf(x)'
      <3>1. status[x] \notin Ended => promise'[x] = promise[x] /\ promise[x] = "none"
        BY <2>1, <2>3, <2>4, NoPromise DEF Walking
      <3>2. status[x] # "EVALUATING"
        BY <2>1, OtherWalk
      <3> QED BY <1>0, <2>1, <3>1, <3>2, StateSame
    <2> QED BY <2>1, <2>5 DEF StateInv
  <1>17. CASE UNCHANGED vars
    BY <1>17 DEF vars, files, walk, dfs, waits, runs, IInv, StateInv, StateOf, Called, Walking
  <1> QED
    BY <1>1, <1>2, <1>3, <1>4, <1>5, <1>6, <1>7, <1>8, <1>9, <1>10, <1>11, <1>13, <1>14, <1>15,
       <1>16, <1>17
    DEF Next, Evaluate, Reaction, Await
\* The steps at which no call of js_inner_module_evaluation ends
Steady == \/ Link \/ EvaluateModule \/ EvalEnter \/ EvalRequired \/ EvaluateReturn
          \/ Reaction \/ \E m \in Module : Import(m) \/ Await(m)

\* ... and what they leave alone
LEMMA SteadyIs ==
  ASSUME IInv, TypeOK', Steady
  PROVE  /\ \A x \in Module : status'[x] \in Ended <=> status[x] \in Ended
         /\ \A x \in Module : status'[x] = "EVALUATING" <=>
               status[x] = "EVALUATING" \/ (EvalEnter /\ x = Callee)
         /\ cycle_root' = cycle_root /\ req' = req /\ has_tla' = has_tla
         /\ UNCHANGED <<async_evaluation_timestamp, next_timestamp>>
         /\ ~EvalRequired => async_parent_modules' = async_parent_modules
         /\ ~EvaluateModule => \A x \in Module : promise'[x] = "none" <=> promise[x] = "none"
         /\ \A x \in Module : async_evaluation'[x] => async_evaluation[x]
  <1>0. TypeOK /\ FrameInv /\ \A x \in Module : StateOf(x)
    BY DEF IInv, StateInv
  <1>Q. ~Walking => /\ \A m \in Module : body[m] # "unrun" => status[m] \in Ended
                    /\ \A m \in exec_list : status[m] \in Ended
    BY Quiet
  <1>1. CASE Link
    <2>1. /\ UNCHANGED <<cycle_root, req, has_tla, async_evaluation_timestamp, next_timestamp,
                         async_parent_modules, promise, async_evaluation>>
          /\ phase = "link"
      BY <1>1 DEF Link, LinkEnter, LinkRequired, LinkDone, LinkFail, files, waits
    <2>2. \A x \in Module : status'[x] = status[x] \/
          (status[x] \in {"UNLINKED", "LINKING"} /\ status'[x] \in {"UNLINKED", "LINKING", "LINKED"})
      <3>1. CASE LinkEnter
        <4>1. Callee \in Module /\ status[Callee] = "UNLINKED" /\ status' = [status EXCEPT ![Callee] = "LINKING"]
          BY <1>0, <3>1, CalleeIs DEF LinkEnter, Enter, Walking
        <4> QED BY <1>0, <4>1 DEF TypeOK
      <3>2. CASE LinkRequired
        BY <3>2 DEF LinkRequired
      <3>3. CASE LinkDone
        <4>1. \A x \in Popped(This) : x \in On
          BY <3>3, LinkDoneIs DEF DoneStep
        <4>2. \A x \in On : status[x] = "LINKING"
          BY <2>1 DEF IInv, WalkInv, StackInv, OnStack
        <4> QED BY <3>3, <4>1, <4>2 DEF LinkDone
      <3>4. CASE LinkFail
        <4>1. \A x \in Range(stack) : status[x] = "LINKING"
          BY <2>1 DEF IInv, WalkInv, StackInv, OnStack, On
        <4> QED BY <3>4, <4>1 DEF LinkFail
      <3> QED BY <1>1, <3>1, <3>2, <3>3, <3>4 DEF Link
    <2>3. ~EvalEnter
      BY <2>1 DEF EvalEnter
    <2> QED BY <2>1, <2>2, <2>3 DEF Ended
  <1>2. CASE EvaluateModule \/ EvaluateReturn
    <2>1. /\ UNCHANGED <<cycle_root, req, has_tla, async_evaluation_timestamp, next_timestamp,
                         async_parent_modules, async_evaluation, status>>
      BY <1>2 DEF EvaluateModule, EvaluateReturn, files, waits
    <2>2. ~EvaluateModule => \A x \in Module : promise'[x] = "none" <=> promise[x] = "none"
      <3>1. EvaluateReturn => promise' = promise \/ Settle(root, "fulfilled")
        BY DEF EvaluateReturn
      <3> QED BY <1>0, <1>2, <3>1, SettleIs
    <2>3. ~EvalEnter
      <3>1. EvalEnter => calls' # calls
        <4> SUFFICES ASSUME EvalEnter, calls' = calls PROVE FALSE
          OBVIOUS
        <4>1. calls' = <<[mod |-> Callee, next |-> 1]>> \o calls /\ Callee \in Module
          BY <1>0, CalleeIs DEF EvalEnter, Enter, Walking
        <4>2. calls \in Seq(Frame) /\ Len(calls) \in Nat
          BY <1>0 DEF TypeOK
        <4>3. Len(calls') = Len(calls) + 1
          BY <4>1, <4>2, PushCalled
        <4>4. Len(calls') = Len(calls)
          OBVIOUS
        <4>5. \A n \in Nat : n # n + 1
          OBVIOUS
        <4> QED BY <4>2, <4>3, <4>4, <4>5, Zenon
      <3>2. calls' = calls
        BY <1>2 DEF EvaluateModule, EvaluateReturn
      <3> QED BY <3>1, <3>2
    <2> QED BY <2>1, <2>2, <2>3
  <1>3. CASE EvalEnter
    <2>1. /\ UNCHANGED <<cycle_root, req, has_tla, async_evaluation_timestamp, next_timestamp,
                         async_parent_modules, async_evaluation, promise>>
      BY <1>3 DEF EvalEnter, files, waits
    <2>2. Callee \in Module /\ status[Callee] = "LINKED" /\ status' = [status EXCEPT ![Callee] = "EVALUATING"]
      BY <1>0, <1>3, CalleeIs DEF EvalEnter, Enter, Walking
    <2> QED BY <1>0, <1>3, <2>1, <2>2 DEF Ended, TypeOK
  <1>4. CASE EvalRequired
    <2>1. /\ UNCHANGED <<cycle_root, req, has_tla, async_evaluation_timestamp, next_timestamp,
                         async_evaluation, status, promise>>
          /\ ~EvalEnter
      BY <1>4 DEF EvalRequired, EvalEnter, files, waits
    <2> QED BY <1>4, <2>1
  <1>5. CASE \E m \in Module : Import(m)
    BY <1>5 DEF Import, EvalEnter, files, waits
  <1>6. ASSUME ~Walking, UNCHANGED <<cycle_root, req, has_tla, async_evaluation_timestamp, next_timestamp,
                         async_parent_modules>>,
               \A x \in Module : async_evaluation'[x] => async_evaluation[x],
               \A x \in Module : promise'[x] = "none" <=> promise[x] = "none",
               \/ status' = status
               \/ \E m \in Module : status[m] \in Ended /\ status' = [status EXCEPT ![m] = "EVALUATED"]
        PROVE  /\ \A x \in Module : status'[x] \in Ended <=> status[x] \in Ended
               /\ \A x \in Module : status'[x] = "EVALUATING" <=>
                     status[x] = "EVALUATING" \/ (EvalEnter /\ x = Callee)
               /\ cycle_root' = cycle_root /\ req' = req /\ has_tla' = has_tla
               /\ UNCHANGED <<async_evaluation_timestamp, next_timestamp>>
               /\ ~EvalRequired => async_parent_modules' = async_parent_modules
               /\ ~EvaluateModule => \A x \in Module : promise'[x] = "none" <=> promise[x] = "none"
               /\ \A x \in Module : async_evaluation'[x] => async_evaluation[x]
    <2>1. \A x \in Module : /\ status'[x] \in Ended <=> status[x] \in Ended
                            /\ status'[x] = "EVALUATING" <=> status[x] = "EVALUATING"
      <3>1. CASE status' = status
        BY <3>1
      <3>2. ASSUME NEW m \in Module, status[m] \in Ended, status' = [status EXCEPT ![m] = "EVALUATED"]
            PROVE  \A x \in Module : /\ status'[x] \in Ended <=> status[x] \in Ended
                                     /\ status'[x] = "EVALUATING" <=> status[x] = "EVALUATING"
        BY <1>0, <3>2 DEF TypeOK, Ended
      <3> QED BY <1>6, <3>1, <3>2
    <2>2. ~EvalEnter
      BY <1>6 DEF EvalEnter, Walking
    <2> QED BY <1>6, <2>1, <2>2
  <1>7. ASSUME NEW m \in Module, Fulfilled(m)
        PROVE  /\ ~Walking /\ UNCHANGED <<cycle_root, req, has_tla, async_evaluation_timestamp, next_timestamp,
                         async_parent_modules>>
               /\ \A x \in Module : async_evaluation'[x] => async_evaluation[x]
               /\ \A x \in Module : promise'[x] = "none" <=> promise[x] = "none"
               /\ \/ status' = status
                  \/ \E x \in Module : status[x] \in Ended /\ status' = [status EXCEPT ![x] = "EVALUATED"]
    <2>1. /\ ~Walking /\ UNCHANGED <<cycle_root, req, has_tla, async_evaluation_timestamp, next_timestamp,
                         async_parent_modules>>
          /\ body[m] = "running"
      BY <1>7 DEF Fulfilled, Walking, files
    <2>2. \/ UNCHANGED <<status, promise, async_evaluation>>
          \/ /\ async_evaluation' = [async_evaluation EXCEPT ![m] = FALSE]
             /\ status' = [status EXCEPT ![m] = "EVALUATED"] /\ Settle(m, "fulfilled")
      BY <1>7 DEF Fulfilled, SetEvaluated
    <2>3. \A x \in Module : async_evaluation'[x] => async_evaluation[x]
      BY <1>0, <2>2 DEF TypeOK
    <2>4. \A x \in Module : promise'[x] = "none" <=> promise[x] = "none"
      BY <1>0, <2>2, SettleIs
    <2> QED BY <1>Q, <2>1, <2>2, <2>3, <2>4
  <1>8. ASSUME NEW m \in Module, Rejected(m)
        PROVE  /\ ~Walking /\ UNCHANGED <<cycle_root, req, has_tla, async_evaluation_timestamp, next_timestamp,
                         async_parent_modules, async_evaluation, promise>>
               /\ \/ status' = status
                  \/ \E x \in Module : status[x] \in Ended /\ status' = [status EXCEPT ![x] = "EVALUATED"]
    <2>1. /\ ~Walking /\ UNCHANGED <<cycle_root, req, has_tla, async_evaluation_timestamp, next_timestamp,
                         async_parent_modules, async_evaluation, promise>>
          /\ body[m] = "running"
      BY <1>8 DEF Rejected, Walking, files, waits
    <2>2. \/ status' = status \/ status' = [status EXCEPT ![m] = "EVALUATED"]
      BY <1>8 DEF Rejected, Reject
    <2> QED BY <1>Q, <2>1, <2>2
  <1>9. ASSUME NEW m \in Module, ExecSkip(m) \/ ExecAsync(m) \/ ExecSync(m) \/ ExecThrow(m)
        PROVE  /\ ~Walking /\ UNCHANGED <<cycle_root, req, has_tla, async_evaluation_timestamp, next_timestamp,
                         async_parent_modules, async_evaluation>>
               /\ \A x \in Module : promise'[x] = "none" <=> promise[x] = "none"
               /\ \/ status' = status
                  \/ \E x \in Module : status[x] \in Ended /\ status' = [status EXCEPT ![x] = "EVALUATED"]
    <2>1. /\ ~Walking /\ UNCHANGED <<cycle_root, req, has_tla, async_evaluation_timestamp, next_timestamp,
                         async_parent_modules, async_evaluation>>
          /\ m \in exec_list
      BY <1>9 DEF ExecSkip, ExecAsync, ExecSync, ExecThrow, Walking, files, waits, IsFirst
    <2>2. \/ status' = status \/ status' = [status EXCEPT ![m] = "EVALUATED"]
      BY <1>9 DEF ExecSkip, ExecAsync, ExecSync, ExecThrow, SetEvaluated, Reject
    <2>3. promise' = promise \/ Settle(m, "fulfilled")
      BY <1>9 DEF ExecSkip, ExecAsync, ExecSync, ExecThrow, SetEvaluated
    <2>4. \A x \in Module : promise'[x] = "none" <=> promise[x] = "none"
      BY <1>0, <2>3, SettleIs
    <2> QED BY <1>Q, <2>1, <2>2, <2>4
  <1>10. ASSUME GatherParent \/ GatherReturn \/ ExecEnd
        PROVE  /\ ~Walking /\ UNCHANGED <<cycle_root, req, has_tla, async_evaluation_timestamp, next_timestamp,
                         async_parent_modules, async_evaluation, promise, status>>
    BY <1>10 DEF GatherParent, GatherReturn, ExecEnd, Walking, files, waits
  <1>11. ASSUME RejectParent
        PROVE  /\ ~Walking /\ UNCHANGED <<cycle_root, req, has_tla, async_evaluation_timestamp, next_timestamp,
                         async_parent_modules, async_evaluation, promise>>
               /\ \/ status' = status
                  \/ \E x \in Module : status[x] \in Ended /\ status' = [status EXCEPT ![x] = "EVALUATED"]
    <2>1. /\ ~Walking /\ UNCHANGED <<cycle_root, req, has_tla, async_evaluation_timestamp, next_timestamp,
                         async_parent_modules, async_evaluation, promise>>
          /\ Parent \in Module /\ status[Parent] \in Ended
      BY <1>11, ParentWaits DEF RejectParent, files, waits, Walking
    <2>2. \/ status' = status \/ status' = [status EXCEPT ![Parent] = "EVALUATED"]
      BY <1>11 DEF RejectParent
    <2> QED BY <2>1, <2>2
  <1>12. ASSUME RejectReturn
        PROVE  /\ ~Walking /\ UNCHANGED <<cycle_root, req, has_tla, async_evaluation_timestamp, next_timestamp,
                         async_parent_modules, async_evaluation, status>>
               /\ \A x \in Module : promise'[x] = "none" <=> promise[x] = "none"
    BY <1>0, <1>12, SettleIs DEF RejectReturn, files, waits, Walking
  <1>13. CASE Reaction \/ \E m \in Module : Await(m)
    BY <1>6, <1>7, <1>8, <1>9, <1>10, <1>11, <1>12, <1>13 DEF Reaction, Await
  <1> QED BY <1>1, <1>2, <1>3, <1>4, <1>5, <1>13 DEF Steady

\* The other three
LEMMA NextIs == Next <=> Steady \/ EvalFail \/ EvalDone \/ EvalThrow
  BY DEF Next, Steady, Evaluate

----------------------------------------------------------------------------
(* Cycles and their roots *)
LEMMA RootNext == IInv /\ [Next]_vars => RootInv'
  <1> SUFFICES ASSUME IInv, [Next]_vars PROVE RootInv'
    OBVIOUS
  <1>0. TypeOK /\ FrameInv /\ TypeOK' /\ RootInv /\ StackInv /\ \A x \in Module : StateOf(x)
    BY TypeNext DEF IInv, StateInv, WalkInv
  <1>R. \A m \in Module : status[m] \in Ended =>
           /\ cycle_root[m] \in Module
           /\ status[cycle_root[m]] \in Ended
           /\ cycle_root[cycle_root[m]] = cycle_root[m]
           /\ promise[m] # "none" => cycle_root[m] = m
    BY <1>0 DEF RootInv
  <1>1. CASE Steady
    <2>1. /\ \A x \in Module : status'[x] \in Ended <=> status[x] \in Ended
          /\ cycle_root' = cycle_root
          /\ ~EvaluateModule => \A x \in Module : promise'[x] = "none" <=> promise[x] = "none"
      BY <1>0, <1>1, SteadyIs
    <2>2. ASSUME NEW x \in Module, status[x] \in Ended, promise'[x] # "none" PROVE cycle_root[x] = x
      <3>1. CASE ~EvaluateModule
        BY <1>R, <2>1, <2>2, <3>1
      <3>2. CASE EvaluateModule /\ promise[x] = "none"
        <4>1. x = PromiseModule(root)
          BY <1>0, <2>2, <3>2 DEF EvaluateModule, TypeOK
        <4>2. root \in Module
          BY <3>2, RootOn DEF EvaluateModule, Walking
        <4> QED BY <1>R, <2>2, <4>1, <4>2 DEF PromiseModule
      <3> QED BY <1>R, <2>2, <3>1, <3>2
    <2> QED BY <1>R, <2>1, <2>2 DEF RootInv
  <1>2. CASE EvalDone
    <2> SUFFICES ASSUME NEW t, t = This PROVE RootInv'
      OBVIOUS
    <2>0. TypeOK' /\ EvalDone /\ phase = "evaluate" /\ Walking
      BY <1>0, <1>2 DEF EvalDone, Walking
    <2>1. /\ Popped(t) \subseteq On /\ (t \in Popped(t) <=> Popped(t) # {})
          /\ Popped(t) \cap Called \subseteq {t}
      BY <2>0, EvalDoneIs DEF DoneStep
    <2>2. /\ status' = [m \in Module |-> IF m \notin Popped(t) THEN status[m]
                                   ELSE IF async_evaluation'[m] THEN "EVALUATING_ASYNC"
                                   ELSE "EVALUATED"]
          /\ cycle_root' = [m \in Module |-> IF m \in Popped(t) THEN t ELSE cycle_root[m]]
          /\ promise' = promise
      BY <1>2 DEF EvalDone
    <2>3. \A x \in On : x \in Module /\ status[x] = "EVALUATING"
      BY <1>0, <2>0, OnIs DEF StackInv, OnStack
    <2>4. \A x \in Module : status'[x] \in Ended <=> status[x] \in Ended \/ x \in Popped(t)
      BY <2>2 DEF Ended
    <2>5. ASSUME NEW x \in Popped(t), promise[x] # "none" PROVE x = t
      <3>1. root = x
        BY <1>0, <2>1, <2>3, <2>5 DEF StateOf
      <3>2. calls # <<>>
        BY <1>2 DEF EvalDone, AllRequired
      <3>3. root \in Called
        BY <2>0, <3>2, RootOn
      <3> QED BY <2>1, <3>1, <3>3
    <2> SUFFICES ASSUME NEW x \in Module, status'[x] \in Ended
                 PROVE  /\ cycle_root'[x] \in Module
                        /\ status'[cycle_root'[x]] \in Ended
                        /\ cycle_root'[cycle_root'[x]] = cycle_root'[x]
                        /\ promise'[x] # "none" => cycle_root'[x] = x
      BY DEF RootInv
    <2>6. CASE x \in Popped(t)
      <3>1. cycle_root'[x] = t /\ t \in Module /\ t \in Popped(t)
        BY <2>1, <2>2, <2>3, <2>6
      <3>2. cycle_root'[t] = t /\ status'[t] \in Ended
        BY <2>2, <2>4, <3>1
      <3> QED BY <2>2, <2>5, <2>6, <3>1, <3>2
    <2>7. CASE x \notin Popped(t)
      <3>1. status[x] \in Ended /\ cycle_root'[x] = cycle_root[x]
        BY <2>2, <2>4, <2>7
      <3>2. cycle_root[x] \in Module /\ status[cycle_root[x]] \in Ended
            /\ cycle_root[x] \notin Popped(t)
        BY <1>R, <2>1, <2>3, <3>1 DEF Ended
      <3> QED BY <1>R, <2>2, <2>4, <3>1, <3>2
    <2> QED BY <2>6, <2>7
  <1>3. CASE EvalFail \/ EvalThrow
    <2>1. /\ status' = [m \in Module |-> IF m \in On THEN "EVALUATED" ELSE status[m]]
          /\ cycle_root' = [m \in Module |-> IF m \in On THEN root ELSE cycle_root[m]]
          /\ Settle(root, "rejected") /\ phase = "evaluate" /\ Walking
      BY <1>3 DEF EvalFail, EvalThrow, Unwind, On, Walking
    <2>2. root \in Module /\ (On # {} => root \in On)
      BY <2>1, RootOn
    <2>3. \A x \in On : x \in Module /\ status[x] = "EVALUATING"
      BY <1>0, <2>1, OnIs DEF StackInv, OnStack
    <2>4. \A x \in Module : status'[x] \in Ended <=> status[x] \in Ended \/ x \in On
      BY <2>1 DEF Ended
    <2>5. \A x \in Module : promise'[x] = "none" <=> promise[x] = "none"
      BY <1>0, <2>1, SettleIs
    <2> SUFFICES ASSUME NEW x \in Module, status'[x] \in Ended
                 PROVE  /\ cycle_root'[x] \in Module
                        /\ status'[cycle_root'[x]] \in Ended
                        /\ cycle_root'[cycle_root'[x]] = cycle_root'[x]
                        /\ promise'[x] # "none" => cycle_root'[x] = x
      BY DEF RootInv
    <2>6. CASE x \in On
      <3>1. cycle_root'[x] = root /\ cycle_root'[root] = root /\ status'[root] \in Ended
        BY <2>1, <2>2, <2>4, <2>6
      <3>2. promise[x] # "none" => root = x
        BY <1>0, <2>3, <2>6 DEF StateOf
      <3> QED BY <2>2, <2>5, <3>1, <3>2
    <2>7. CASE x \notin On
      <3>1. status[x] \in Ended /\ cycle_root'[x] = cycle_root[x]
        BY <2>1, <2>4, <2>7
      <3>2. cycle_root[x] \in Module /\ status[cycle_root[x]] \in Ended
            /\ cycle_root[x] \notin On
        BY <1>R, <2>3, <3>1 DEF Ended
      <3> QED BY <1>R, <2>1, <2>4, <2>5, <3>1, <3>2
    <2> QED BY <2>6, <2>7
  <1>4. CASE UNCHANGED vars
    BY <1>R, <1>4 DEF vars, RootInv
  <1> QED BY <1>1, <1>2, <1>3, <1>4, NextIs
----------------------------------------------------------------------------
(* Who waits for whom *)

\* The innermost call of the evaluation
LEMMA ThisIs ==
  ASSUME IInv, phase = "evaluate", calls # <<>>
  PROVE  /\ This \in Module /\ This \in On /\ This \in Called /\ status[This] = "EVALUATING"
         /\ ~async_evaluation[This] /\ body[This] = "unrun" /\ ~eval_has_exception[This]
         /\ This = calls[1].mod /\ Next1 = calls[1].next /\ 1 \in 1..Len(calls)
         /\ async_parent_modules[This] = <<>> /\ This \notin exec_list /\ Walking
  <1>0. TypeOK /\ FrameInv /\ StackInv /\ CallsInv /\ \A x \in Module : StateOf(x)
    BY DEF IInv, StateInv, WalkInv
  <1>1. This \in Module /\ This \in Called /\ This = calls[1].mod /\ Next1 = calls[1].next
        /\ 1 \in 1..Len(calls)
    BY <1>0, CallIs
  <1>2. This \in On /\ status[This] = "EVALUATING" /\ Walking
    BY <1>0, <1>1 DEF CallsInv, StackInv, OnStack, Walking
  <1> QED BY <1>0, <1>1, <1>2 DEF StateOf

\* A required module that has not failed, and the one to look at
LEMMA RequiredIs ==
  ASSUME IInv, EvalRequired, NEW m1, m1 = Representative(Callee)
  PROVE  /\ Callee \in Module /\ Next1 \in 1..Len(req[This]) /\ Callee = req[This][Next1]
         /\ status[Callee] \in {"EVALUATING"} \cup Ended
         /\ m1 \in Module /\ status[m1] \in {"EVALUATING"} \cup Ended
         /\ status[m1] = "EVALUATING" => m1 = Callee
         /\ ~eval_has_exception[m1]
  <1>0. TypeOK /\ FrameInv /\ StackInv /\ LinkedInv /\ RootInv /\ \A x \in Module : StateOf(x)
    BY DEF IInv, StateInv, WalkInv
  <1>1. phase = "evaluate" /\ calls # <<>> /\ ~AllRequired /\ status[Callee] # "LINKED" /\ ~CalleeFailed
        /\ Walking
    BY DEF EvalRequired, Walking
  <1>2. Callee \in Module /\ Next1 \in 1..Len(req[This]) /\ Callee = req[This][Next1]
    BY <1>0, <1>1, CalleeIs
  <1>3. status[Callee] \in {"EVALUATING"} \cup Ended
    <2>1. status[Callee] \in Linked
      BY <1>0, <1>1, <1>2, ThisIs DEF LinkedInv, Linked
    <2> QED BY <1>1, <2>1 DEF Linked
  <1>4. CASE status[Callee] = "EVALUATING"
    BY <1>0, <1>2, <1>4 DEF Representative, StateOf
  <1>5. CASE status[Callee] \in Ended
    <2>1. m1 = cycle_root[Callee]
      BY <1>5 DEF Representative, Ended
    <2>2. m1 \in Module /\ status[m1] \in Ended
      BY <1>0, <1>2, <1>5, <2>1 DEF RootInv
    <2>3. ~eval_has_exception[m1]
      BY <1>1, <1>5, <2>1 DEF CalleeFailed
    <2> QED BY <1>2, <1>3, <2>2, <2>3 DEF Ended
  <1> QED BY <1>2, <1>3, <1>4, <1>5

\* The list of those that wait after a step of the walk
LEMMA RequiredWaits ==
  ASSUME IInv, EvalRequired, NEW m1, m1 = Representative(Callee), NEW t, t = This
  PROVE  /\ ~async_evaluation[m1] => async_parent_modules' = async_parent_modules
                                     /\ pending_async_dependencies' = pending_async_dependencies
         /\ async_evaluation[m1] =>
              /\ \A y \in Module : y # m1 => async_parent_modules'[y] = async_parent_modules[y]
              /\ Len(async_parent_modules'[m1]) = Len(async_parent_modules[m1]) + 1
              /\ Len(async_parent_modules[m1]) \in Nat
              /\ async_parent_modules'[m1][Len(async_parent_modules[m1]) + 1] = t
              /\ \A i \in 1..Len(async_parent_modules[m1]) :
                    async_parent_modules'[m1][i] = async_parent_modules[m1][i]
              /\ pending_async_dependencies'[t] = pending_async_dependencies[t] + 1
              /\ \A x \in Module : x # t => pending_async_dependencies'[x] = pending_async_dependencies[x]
         /\ \A p, y \in Module : Waits(p, y)' <=> Waits(p, y) \/ (p = t /\ y = m1 /\ async_evaluation[m1])
  <1>0. TypeOK /\ t \in Module /\ m1 \in Module
    BY ThisIs, RequiredIs DEF IInv, EvalRequired
  <1>1. IF async_evaluation[m1]
        THEN /\ pending_async_dependencies' =
                    [pending_async_dependencies EXCEPT ![t] = pending_async_dependencies[t] + 1]
             /\ async_parent_modules' =
                    [async_parent_modules EXCEPT ![m1] = Append(async_parent_modules[m1], t)]
        ELSE UNCHANGED <<pending_async_dependencies, async_parent_modules>>
    BY DEF EvalRequired
  <1>2. CASE ~async_evaluation[m1]
    BY <1>1, <1>2 DEF Waits
  <1>3. CASE async_evaluation[m1]
    <2> DEFINE s == async_parent_modules[m1]
    <2>1. s \in Seq(Module) /\ Len(s) \in Nat
      BY <1>0 DEF TypeOK
    <2>2. async_parent_modules'[m1] = Append(s, t) /\ \A y \in Module : y # m1 =>
             async_parent_modules'[y] = async_parent_modules[y]
      BY SMTT(30), <1>0, <1>1, <1>3 DEF TypeOK
    <2>3. /\ Len(Append(s, t)) = Len(s) + 1 /\ Append(s, t)[Len(s) + 1] = t
          /\ \A i \in 1..Len(s) : Append(s, t)[i] = s[i]
          /\ Append(s, t) \in Seq(Module)
      BY <1>0, <2>1, AppendProperties
    <2>4. /\ pending_async_dependencies'[t] = pending_async_dependencies[t] + 1
          /\ \A x \in Module : x # t => pending_async_dependencies'[x] = pending_async_dependencies[x]
      BY <1>0, <1>1, <1>3 DEF TypeOK
    <2>5. Range(Append(s, t)) = Range(s) \cup {t}
      <3> DEFINE u == Append(s, t)
      <3>1. DOMAIN s = 1..Len(s) /\ DOMAIN u = 1..Len(s) + 1
        BY <2>1, <2>3
      <3>2. \A i \in 1..Len(s) + 1 : i \in 1..Len(s) \/ i = Len(s) + 1
        BY <2>1
      <3>3. \A i \in 1..Len(s) : i \in 1..Len(s) + 1
        BY <2>1
      <3>4. Len(s) + 1 \in 1..Len(s) + 1
        BY <2>1
      <3>5. u[Len(s) + 1] = t /\ \A i \in 1..Len(s) : u[i] = s[i]
        BY <2>3
      <3> HIDE DEF u, s
      <3>6. Range(u) \subseteq Range(s) \cup {t}
        BY <3>1, <3>2, <3>5 DEF Range
      <3>7. t \in Range(u)
        BY <3>1, <3>4, <3>5 DEF Range
      <3>8. Range(s) \subseteq Range(u)
        BY <3>1, <3>3, <3>5 DEF Range
      <3>9. Range(u) = Range(s) \cup {t}
        BY <3>6, <3>7, <3>8
      <3> QED BY <3>9 DEF u
    <2>6. \A p, y \in Module : Waits(p, y)' <=> Waits(p, y) \/ (p = t /\ y = m1)
      <3> SUFFICES ASSUME NEW p \in Module, NEW y \in Module
                   PROVE  Waits(p, y)' <=> Waits(p, y) \/ (p = t /\ y = m1)
        OBVIOUS
      <3>1. CASE y = m1
        <4>1. Waits(p, y)' <=> p \in Range(async_parent_modules'[y])
          BY DEF Waits
        <4>2. async_parent_modules'[y] = Append(s, t)
          BY <2>2, <3>1
        <4>3. Waits(p, y)' <=> p \in Range(s) \cup {t}
          BY <2>5, <4>1, <4>2
        <4>4. Waits(p, y) <=> p \in Range(s)
          BY <3>1 DEF Waits
        <4> QED BY <3>1, <4>3, <4>4
      <3>2. CASE y # m1
        BY <2>2, <3>2 DEF Waits
      <3> QED BY <3>1, <3>2
    <2> QED BY <1>3, <2>1, <2>2, <2>3, <2>4, <2>6
  <1> QED BY <1>2, <1>3

\* WaitInv, for one pair
LEMMA WaitIs ==
  ASSUME IInv, NEW y \in Module, NEW p \in Module, Waits(p, y)
  PROVE  /\ status[p] \in {"EVALUATING"} \cup Ended
         /\ status[y] = "EVALUATING" => /\ status[p] = "EVALUATING"
                                        /\ \E n \in 1..Len(req[p]) : req[p][n] = y
         /\ async_evaluation_timestamp[y] < next_timestamp
         /\ async_evaluation[p] => async_evaluation_timestamp[y] < async_evaluation_timestamp[p]
  BY DEF IInv, AsyncInv, WaitInv

\* A module takes its time when its call ends
LEMMA DoneTime ==
  ASSUME IInv, TypeOK', EvalDone, NEW t, t = This
  PROVE  /\ \A x \in Module : x # t => /\ async_evaluation_timestamp'[x] = async_evaluation_timestamp[x]
                                       /\ async_evaluation'[x] = async_evaluation[x]
         /\ next_timestamp' >= next_timestamp
         /\ async_evaluation'[t] => /\ async_evaluation_timestamp'[t] = next_timestamp
                                    /\ next_timestamp' = next_timestamp + 1
  <1>0. TypeOK /\ t \in Module /\ ~async_evaluation[t]
    BY ThisIs DEF IInv, EvalDone, AllRequired
  <1>1. BecomeAsync(t) \/ UNCHANGED <<async_evaluation, async_evaluation_timestamp, next_timestamp>>
    BY DEF EvalDone
  <1>2. next_timestamp \in Nat
    BY <1>0 DEF TypeOK
  <1>3. CASE BecomeAsync(t)
    <2>1. async_evaluation' = [async_evaluation EXCEPT ![t] = TRUE]
      BY <1>3 DEF BecomeAsync
    <2>2. \A x \in Module : x # t => async_evaluation'[x] = async_evaluation[x]
      BY <1>0, <2>1 DEF TypeOK
    <2>3. async_evaluation_timestamp' = [async_evaluation_timestamp EXCEPT ![t] = next_timestamp]
          /\ next_timestamp' = next_timestamp + 1
      BY <1>3 DEF BecomeAsync
    <2>4. async_evaluation_timestamp \in [Module -> Nat]
      BY <1>0 DEF TypeOK
    <2>5. async_evaluation_timestamp'[t] = next_timestamp
          /\ \A x \in Module : x # t => async_evaluation_timestamp'[x] = async_evaluation_timestamp[x]
      BY <1>0, <2>3, <2>4
    <2> QED BY <1>2, <2>2, <2>3, <2>5
  <1>4. CASE UNCHANGED <<async_evaluation, async_evaluation_timestamp, next_timestamp>>
    BY <1>0, <1>2, <1>4
  <1> QED BY <1>1, <1>3, <1>4

\* Who waits for whom, and the order of the times, are preserved by every step.
LEMMA WaitNext == IInv /\ [Next]_vars => WaitInv' /\ TimeInv'
  <1> SUFFICES ASSUME IInv, [Next]_vars PROVE WaitInv' /\ TimeInv'
    OBVIOUS
  <1>0. TypeOK /\ TypeOK' /\ WaitInv /\ TimeInv /\ StackInv /\ \A x \in Module : StateOf(x)
    BY TypeNext DEF IInv, AsyncInv, StateInv, WalkInv
  <1>T. \A x \in Module : async_evaluation_timestamp[x] \in Nat /\ next_timestamp \in Nat
    BY <1>0 DEF TypeOK
  <1>1. CASE Steady /\ ~EvalRequired
    <2>1. /\ \A x \in Module : status'[x] \in Ended <=> status[x] \in Ended
          /\ \A x \in Module : status'[x] = "EVALUATING" <=>
                 status[x] = "EVALUATING" \/ (EvalEnter /\ x = Callee)
          /\ req' = req /\ async_parent_modules' = async_parent_modules
          /\ UNCHANGED <<async_evaluation_timestamp, next_timestamp>>
          /\ \A x \in Module : async_evaluation'[x] => async_evaluation[x]
      BY <1>0, <1>1, SteadyIs
    <2>2. TimeInv'
      BY <1>0, <2>1 DEF TimeInv
    <2>3. ASSUME NEW y \in Module, NEW p \in Module, Waits(p, y)'
          PROVE  /\ status'[p] \in {"EVALUATING"} \cup Ended
                 /\ status'[y] = "EVALUATING" => /\ status'[p] = "EVALUATING"
                                                 /\ \E n \in 1..Len(req'[p]) : req'[p][n] = y
                 /\ async_evaluation_timestamp'[y] < next_timestamp'
                 /\ async_evaluation'[p] => async_evaluation_timestamp'[y] < async_evaluation_timestamp'[p]
      <3>1. Waits(p, y)
        BY <2>1, <2>3 DEF Waits
      <3>2. ~(EvalEnter /\ y = Callee)
        <4> SUFFICES ASSUME EvalEnter, y = Callee PROVE FALSE
          OBVIOUS
        <4>1. status[y] = "LINKED"
          BY DEF EvalEnter
        <4>2. ~async_evaluation[y]
          BY <1>0, <4>1 DEF StateOf
        <4> QED BY <3>1, <4>1, <4>2, NobodyWaits
      <3> QED BY <2>1, <3>1, <3>2, WaitIs
    <2>4. WaitInv'
      BY <2>3 DEF WaitInv
    <2> QED BY <2>2, <2>4
  <1>2. CASE EvalRequired
    <2> SUFFICES ASSUME NEW t, t = This, NEW m1, m1 = Representative(Callee) PROVE WaitInv' /\ TimeInv'
      OBVIOUS
    <2>1. UNCHANGED <<status, req, async_evaluation_timestamp, next_timestamp, async_evaluation>>
      BY <1>2 DEF EvalRequired, files
    <2>2. TimeInv'
      BY <1>0, <2>1 DEF TimeInv
    <2>3. t \in Module /\ status[t] = "EVALUATING" /\ ~async_evaluation[t]
      BY <1>2, ThisIs DEF EvalRequired
    <2>4. /\ m1 \in Module /\ (status[m1] = "EVALUATING" => m1 = Callee)
          /\ Next1 \in 1..Len(req[t]) /\ Callee = req[t][Next1]
      BY <1>2, RequiredIs
    <2>5. ASSUME NEW y \in Module, NEW p \in Module, Waits(p, y)'
          PROVE  /\ status'[p] \in {"EVALUATING"} \cup Ended
                 /\ status'[y] = "EVALUATING" => /\ status'[p] = "EVALUATING"
                                                 /\ \E n \in 1..Len(req'[p]) : req'[p][n] = y
                 /\ async_evaluation_timestamp'[y] < next_timestamp'
                 /\ async_evaluation'[p] => async_evaluation_timestamp'[y] < async_evaluation_timestamp'[p]
      <3>1. Waits(p, y) \/ (p = t /\ y = m1 /\ async_evaluation[m1])
        BY <1>2, <2>5, RequiredWaits
      <3>2. CASE Waits(p, y)
        BY <2>1, <3>2, WaitIs
      <3>3. CASE p = t /\ y = m1 /\ async_evaluation[m1]
        BY <1>0, <2>1, <2>3, <2>4, <3>3 DEF TimeInv
      <3> QED BY <3>1, <3>2, <3>3
    <2>6. WaitInv'
      BY <2>5 DEF WaitInv
    <2> QED BY <2>2, <2>6
  <1>3. CASE EvalFail \/ EvalThrow
    <2>1. /\ status' = [m \in Module |-> IF m \in On THEN "EVALUATED" ELSE status[m]]
          /\ UNCHANGED <<req, async_evaluation_timestamp, next_timestamp, async_evaluation, async_parent_modules>>
          /\ phase = "evaluate" /\ Walking
      BY <1>3 DEF EvalFail, EvalThrow, Unwind, On, Walking, files, waits
    <2>2. \A x \in Module : status[x] = "EVALUATING" <=> x \in On
      BY <1>0, <2>1 DEF StackInv, OnStack
    <2>3. \A x \in Module : status'[x] # "EVALUATING" /\
                            (status[x] \in {"EVALUATING"} \cup Ended => status'[x] \in Ended)
      BY <2>1, <2>2 DEF Ended
    <2>4. \A p, y \in Module : Waits(p, y)' = Waits(p, y)
      BY <2>1 DEF Waits
    <2>5. WaitInv'
      BY <1>0, <2>1, <2>3, <2>4 DEF WaitInv
    <2> QED BY <1>0, <2>1, <2>5 DEF TimeInv
  <1>4. CASE EvalDone
    <2> SUFFICES ASSUME NEW t, t = This PROVE WaitInv' /\ TimeInv'
      OBVIOUS
    <2>0. TypeOK' /\ EvalDone /\ phase = "evaluate" /\ Walking
      BY <1>0, <1>4 DEF EvalDone, Walking
    <2>1. t \in Module /\ status[t] = "EVALUATING" /\ ~async_evaluation[t] /\ async_parent_modules[t] = <<>>
      BY <1>4, ThisIs DEF EvalDone, AllRequired
    <2>2. /\ Popped(t) \subseteq On
          /\ \A x \in Popped(t) : \A n \in 1..Len(req[x]) :
                Settled(req[x][n]) \/ req[x][n] \in Popped(t)
      BY <2>0, EvalDoneIs DEF DoneStep
    <2>3. /\ status' = [m \in Module |-> IF m \notin Popped(t) THEN status[m]
                                   ELSE IF async_evaluation'[m] THEN "EVALUATING_ASYNC"
                                   ELSE "EVALUATED"]
          /\ async_parent_modules' = async_parent_modules /\ req' = req
      BY <1>4 DEF EvalDone, files
    <2>4. /\ \A x \in Module : x # t => /\ async_evaluation_timestamp'[x] = async_evaluation_timestamp[x]
                                         /\ async_evaluation'[x] = async_evaluation[x]
          /\ next_timestamp' >= next_timestamp
          /\ async_evaluation'[t] => /\ async_evaluation_timestamp'[t] = next_timestamp
                                     /\ next_timestamp' = next_timestamp + 1
      BY <2>0, DoneTime
    <2>5. next_timestamp' \in Nat
      BY <1>0 DEF TypeOK
    <2>6. TimeInv'
      <3> SUFFICES ASSUME NEW x \in Module, async_evaluation'[x]
                   PROVE  async_evaluation_timestamp'[x] < next_timestamp'
        BY DEF TimeInv
      <3>1. CASE x = t
        BY <1>T, <2>4, <3>1
      <3>2. CASE x # t
        <4>1. async_evaluation_timestamp[x] < next_timestamp
          BY <1>0, <2>4, <3>2 DEF TimeInv
        <4> QED BY <1>T, <2>4, <2>5, <3>2, <4>1
      <3> QED BY <3>1, <3>2
    <2>7. ASSUME NEW y \in Module, NEW p \in Module, Waits(p, y)'
          PROVE  /\ status'[p] \in {"EVALUATING"} \cup Ended
                 /\ status'[y] = "EVALUATING" => /\ status'[p] = "EVALUATING"
                                                 /\ \E n \in 1..Len(req'[p]) : req'[p][n] = y
                 /\ async_evaluation_timestamp'[y] < next_timestamp'
                 /\ async_evaluation'[p] => async_evaluation_timestamp'[y] < async_evaluation_timestamp'[p]
      <3>1. Waits(p, y)
        BY <2>3, <2>7 DEF Waits
      <3>2. y # t
        BY <2>1, <3>1, NobodyWaits
      <3>3. /\ status[p] \in {"EVALUATING"} \cup Ended
            /\ status[y] = "EVALUATING" => /\ status[p] = "EVALUATING"
                                          /\ \E n \in 1..Len(req[p]) : req[p][n] = y
            /\ async_evaluation_timestamp[y] < next_timestamp
            /\ async_evaluation[p] => async_evaluation_timestamp[y] < async_evaluation_timestamp[p]
        BY <3>1, WaitIs
      <3>4. status'[p] \in {"EVALUATING"} \cup Ended
        BY <2>3, <3>3 DEF Ended
      <3>5. ASSUME status'[y] = "EVALUATING"
            PROVE  status'[p] = "EVALUATING" /\ \E n \in 1..Len(req'[p]) : req'[p][n] = y
        <4>1. status[y] = "EVALUATING" /\ y \notin Popped(t)
          BY <2>3, <3>5 DEF Ended
        <4>2. PICK n \in 1..Len(req[p]) : req[p][n] = y
          BY <3>3, <4>1
        <4>3. p \notin Popped(t)
          <5> SUFFICES ASSUME p \in Popped(t) PROVE FALSE
            OBVIOUS
          <5>1. Settled(y)
            BY <2>2, <4>1, <4>2
          <5> QED BY <2>0, <4>1, <5>1 DEF Settled, Ended
        <4> QED BY <2>3, <3>3, <4>1, <4>2, <4>3
      <3>6. async_evaluation_timestamp'[y] < next_timestamp'
        BY <1>T, <2>4, <2>5, <3>2, <3>3
      <3>7. ASSUME async_evaluation'[p]
            PROVE  async_evaluation_timestamp'[y] < async_evaluation_timestamp'[p]
        <4>1. CASE p = t
          BY <2>4, <3>2, <3>3, <3>7, <4>1
        <4>2. CASE p # t
          BY <2>4, <3>2, <3>3, <3>7, <4>2
        <4> QED BY <4>1, <4>2
      <3> QED BY <3>4, <3>5, <3>6, <3>7
    <2>8. WaitInv'
      BY <2>7 DEF WaitInv
    <2> QED BY <2>6, <2>8
  <1>5. CASE UNCHANGED vars
    <2>1. UNCHANGED <<status, req, async_evaluation_timestamp, next_timestamp, async_evaluation, async_parent_modules>>
      BY <1>5 DEF vars, files, waits
    <2> QED BY <1>0, <2>1 DEF WaitInv, TimeInv, Waits
  <1> QED BY <1>1, <1>2, <1>3, <1>4, <1>5, NextIs
----------------------------------------------------------------------------
(* The calls of the reactions *)

\* Only who is being called has something left to pass
LEMMA NotPassed ==
  ASSUME NEW y, NEW i, ~Passed(y, i)
  PROVE  y \in Called
  BY DEF Passed, Called

\* The innermost call goes on to its next parent
LEMMA PassOne ==
  ASSUME TypeOK, FrameInv, calls # <<>>, NEW t, t = This, NEW n, n = Next1, calls' = Advance(calls)
  PROVE  /\ Called' = Called
         /\ \A y : \A i \in Nat : ~Passed(y, i)' => ~Passed(y, i)
         /\ \A y : \A i \in Nat : ~Passed(y, i) => ~Passed(y, i)' \/ (y = t /\ i = n)
         /\ (\A k \in 1..Len(calls) : calls[k].mod = t => k = 1) => Passed(t, n)'
  <1>0. calls \in Seq(Frame)
    BY DEF TypeOK
  <1>1. /\ t = calls[1].mod /\ n = calls[1].next /\ 1 \in 1..Len(calls) /\ n \in Nat /\ Len(calls) \in Nat
    BY <1>0, CallIs, LenProperties
  <1>2. /\ Len(calls') = Len(calls)
        /\ calls'[1].next = n + 1
        /\ \A k \in 2..Len(calls) : calls'[k] = calls[k]
        /\ \A k \in 1..Len(calls) : calls'[k].mod = calls[k].mod
    <2>1. /\ Len(calls') = Len(calls)
          /\ calls'[1] = [mod |-> calls[1].mod, next |-> calls[1].next + 1]
          /\ \A k \in 2..Len(calls) : calls'[k] = calls[k]
          /\ \A k \in 1..Len(calls) : calls'[k].mod = calls[k].mod
      BY <1>0, AdvanceIs
    <2> QED BY <1>1, <2>1
  <1>3. Called' = Called
    BY <1>2 DEF Called
  <1>F. \A k \in 1..Len(calls) : calls[k] \in Frame
    BY <1>0
  <1>4. \A k \in 1..Len(calls) : calls[k].next \in Nat
    BY <1>F DEF Frame
  <1>5. \A k \in 1..Len(calls) : k = 1 \/ k \in 2..Len(calls)
    BY <1>1
  <1>6. ASSUME NEW y, NEW i \in Nat, ~Passed(y, i)' PROVE ~Passed(y, i)
    <2>1. PICK k \in 1..Len(calls) : calls'[k].mod = y /\ ~(i < calls'[k].next)
      BY <1>2, <1>6 DEF Passed
    <2>2. ~(i < calls[k].next)
      <3>1. CASE k = 1
        BY <1>1, <1>2, <2>1, <3>1
      <3>2. CASE k \in 2..Len(calls)
        BY <1>2, <2>1, <3>2
      <3> QED BY <1>5, <3>1, <3>2
    <2> QED BY <1>2, <2>1, <2>2 DEF Passed
  <1>7. ASSUME NEW y, NEW i \in Nat, ~Passed(y, i), ~(y = t /\ i = n) PROVE ~Passed(y, i)'
    <2>1. PICK k \in 1..Len(calls) : calls[k].mod = y /\ ~(i < calls[k].next)
      BY <1>7 DEF Passed
    <2>2. ~(i < calls'[k].next)
      <3>1. CASE k = 1
        <4>1. i # n /\ ~(i < n)
          BY <1>1, <1>7, <2>1, <3>1
        <4>2. ~(i < n + 1)
          BY <1>1, <4>1
        <4> QED BY <1>2, <3>1, <4>2
      <3>2. CASE k \in 2..Len(calls)
        BY <1>2, <2>1, <3>2
      <3> QED BY <1>5, <3>1, <3>2
    <2> QED BY <1>2, <2>1, <2>2 DEF Passed
  <1>8. ASSUME \A k \in 1..Len(calls) : calls[k].mod = t => k = 1 PROVE Passed(t, n)'
    <2> SUFFICES ASSUME NEW k \in 1..Len(calls), calls'[k].mod = t PROVE n < calls'[k].next
      BY <1>2 DEF Passed
    <2>1. k = 1
      BY <1>2, <1>8
    <2>2. n < n + 1
      BY <1>1
    <2> QED BY <1>2, <2>1, <2>2
  <1> QED BY <1>3, <1>6, <1>7, <1>8

\* The innermost call goes on after a call for its parent
LEMMA PassPush ==
  ASSUME TypeOK, FrameInv, calls # <<>>, NEW t, t = This, NEW n, n = Next1, NEW p \in Module,
         calls' = <<[mod |-> p, next |-> 1]>> \o Advance(calls)
  PROVE  /\ Called' = Called \cup {p}
         /\ \A y : \A i \in Nat : ~Passed(y, i)' => ~Passed(y, i) \/ y = p
         /\ \A y : \A i \in Nat : ~Passed(y, i) => ~Passed(y, i)' \/ (y = t /\ i = n)
         /\ \A i \in Nat \ {0} : ~Passed(p, i)'
         /\ ((\A k \in 1..Len(calls) : calls[k].mod = t => k = 1) /\ p # t) => Passed(t, n)'
         /\ ((\A k, l \in 1..Len(calls) : calls[k].mod = calls[l].mod => k = l) /\ p \notin Called) =>
              \A k, l \in 1..Len(calls') : calls'[k].mod = calls'[l].mod => k = l
         /\ \A k \in 1..Len(calls') : calls'[k].mod \in Called'
  <1> DEFINE a == Advance(calls)
  <1>0. calls \in Seq(Frame)
    BY DEF TypeOK
  <1>1. /\ t = calls[1].mod /\ n = calls[1].next /\ 1 \in 1..Len(calls) /\ n \in Nat /\ Len(calls) \in Nat
    BY <1>0, CallIs, LenProperties
  <1>2. /\ a \in Seq(Frame) /\ Len(a) = Len(calls)
        /\ a[1].next = n + 1
        /\ \A k \in 2..Len(calls) : a[k] = calls[k]
        /\ \A k \in 1..Len(calls) : a[k].mod = calls[k].mod
    <2>1. /\ a \in Seq(Frame) /\ Len(a) = Len(calls)
          /\ a[1] = [mod |-> calls[1].mod, next |-> calls[1].next + 1]
          /\ \A k \in 2..Len(calls) : a[k] = calls[k]
          /\ \A k \in 1..Len(calls) : a[k].mod = calls[k].mod
      BY <1>0, AdvanceIs
    <2> HIDE DEF a
    <2> QED BY <1>1, <2>1
  <1>3. /\ Len(calls') = Len(a) + 1 /\ calls'[1] = [mod |-> p, next |-> 1]
        /\ \A k \in 2..Len(calls') : calls'[k] = a[k - 1] /\ k - 1 \in 1..Len(a)
        /\ \A k \in 1..Len(a) : calls'[k + 1] = a[k] /\ k + 1 \in 1..Len(calls')
        /\ \A k \in 1..Len(calls') : k = 1 \/ k \in 2..Len(calls')
        /\ 1 \in 1..Len(calls')
        /\ Called' = {a[k].mod : k \in 1..Len(a)} \cup {p}
    BY <1>2, PushCalled
  <1> HIDE DEF a
  <1>4. Called' = Called \cup {p}
    <2>1. {a[k].mod : k \in 1..Len(a)} = Called
      BY <1>2 DEF Called
    <2> QED BY <1>3, <2>1
  <1>F. \A k \in 1..Len(calls) : calls[k] \in Frame
    BY <1>0
  <1>G. \A k \in 1..Len(calls) : calls[k].next \in Nat
    BY <1>F DEF Frame
  <1>H. \A k \in 1..Len(calls) : k = 1 \/ k \in 2..Len(calls)
    BY <1>1
  <1>I. calls'[1].mod = p /\ calls'[1].next = 1
    BY <1>3
  <1>5. /\ \A k \in 1..Len(calls) : calls[k].next \in Nat
        /\ \A k \in 1..Len(calls) : k = 1 \/ k \in 2..Len(calls)
        /\ calls'[1].mod = p /\ calls'[1].next = 1
    BY <1>G, <1>H, <1>I
  <1>6. ASSUME NEW y, NEW i \in Nat, ~Passed(y, i)', y # p PROVE ~Passed(y, i)
    <2>1. PICK k \in 1..Len(calls') : calls'[k].mod = y /\ ~(i < calls'[k].next)
      BY <1>6 DEF Passed
    <2>2. k \in 2..Len(calls')
      BY <1>3, <1>5, <1>6, <2>1
    <2>3. calls'[k] = a[k - 1] /\ k - 1 \in 1..Len(calls)
      BY <1>2, <1>3, <2>2
    <2> DEFINE j == k - 1
    <2> HIDE DEF j
    <2>4. j \in 1..Len(calls) /\ a[j].mod = y /\ ~(i < a[j].next)
      BY <2>1, <2>3 DEF j
    <2>5. ~(i < calls[j].next)
      <3>1. CASE j = 1
        BY <1>1, <1>2, <2>4, <3>1
      <3>2. CASE j \in 2..Len(calls)
        BY <1>2, <2>4, <3>2
      <3> QED BY <1>5, <2>4, <3>1, <3>2
    <2> QED BY <1>2, <2>4, <2>5 DEF Passed
  <1>7. ASSUME NEW y, NEW i \in Nat, ~Passed(y, i), ~(y = t /\ i = n) PROVE ~Passed(y, i)'
    <2>1. PICK k \in 1..Len(calls) : calls[k].mod = y /\ ~(i < calls[k].next)
      BY <1>7 DEF Passed
    <2>2. ~(i < a[k].next)
      <3>1. CASE k = 1
        <4>1. i # n /\ ~(i < n)
          BY <1>1, <1>7, <2>1, <3>1
        <4>2. ~(i < n + 1)
          BY <1>1, <4>1
        <4> QED BY <1>2, <3>1, <4>2
      <3>2. CASE k \in 2..Len(calls)
        BY <1>2, <2>1, <3>2
      <3> QED BY <1>5, <3>1, <3>2
    <2>3. calls'[k + 1] = a[k] /\ k + 1 \in 1..Len(calls')
      BY <1>2, <1>3
    <2> QED BY <1>2, <2>1, <2>2, <2>3 DEF Passed
  <1>8. ASSUME NEW i \in Nat \ {0} PROVE ~Passed(p, i)'
    <2>1. ~(i < 1)
      OBVIOUS
    <2> QED BY <1>3, <1>5, <2>1 DEF Passed
  <1>9. ASSUME \A k \in 1..Len(calls) : calls[k].mod = t => k = 1, p # t PROVE Passed(t, n)'
    <2> SUFFICES ASSUME NEW k \in 1..Len(calls'), calls'[k].mod = t PROVE n < calls'[k].next
      BY DEF Passed
    <2>1. k \in 2..Len(calls')
      BY <1>3, <1>5, <1>9
    <2>2. calls'[k] = a[k - 1] /\ k - 1 \in 1..Len(calls)
      BY <1>2, <1>3, <2>1
    <2>3. k - 1 = 1
      BY <1>2, <1>9, <2>2
    <2>4. n < n + 1
      BY <1>1
    <2> QED BY <1>2, <2>2, <2>3, <2>4
  <1>10. ASSUME \A k, l \in 1..Len(calls) : calls[k].mod = calls[l].mod => k = l, p \notin Called,
                NEW k \in 1..Len(calls'), NEW l \in 1..Len(calls'), calls'[k].mod = calls'[l].mod
         PROVE  k = l
    <2>1. \A j \in 2..Len(calls') : calls'[j].mod = calls[j - 1].mod /\ j - 1 \in 1..Len(calls)
      BY <1>2, <1>3
    <2>2. \A j \in 2..Len(calls') : calls'[j].mod \in Called
      BY <2>1 DEF Called
    <2>3. CASE k = 1 /\ l = 1
      BY <2>3
    <2>4. CASE k \in 2..Len(calls') /\ l \in 2..Len(calls')
      <3>1. k - 1 = l - 1
        BY <1>10, <2>1, <2>4
      <3> QED BY <1>2, <1>3, <2>4, <3>1
    <2> QED BY <1>3, <1>5, <1>10, <2>2, <2>3, <2>4
  <1>11. \A k \in 1..Len(calls') : calls'[k].mod \in Called'
    BY DEF Called
  <1> QED BY <1>4, <1>6, <1>7, <1>8, <1>9, <1>10, <1>11

\* The innermost call returns
LEMMA PassReturn ==
  ASSUME TypeOK, FrameInv, phase \in {"gather", "reject"}, AllParents, NEW t, t = This,
         calls' = Tail(calls)
  PROVE  /\ calls # <<>> /\ t \in Called /\ t \in Module
         /\ Called' \subseteq Called /\ Called \subseteq Called' \cup {t}
         /\ \A y : \A i \in Nat : ~Passed(y, i)' => ~Passed(y, i)
         /\ \A y \in Module : \A i \in 1..Len(async_parent_modules[y]) : ~Passed(y, i) => ~Passed(y, i)'
         /\ (\A k \in 1..Len(calls) : calls[k].mod = t => k = 1) =>
              /\ t \notin Called'
              /\ \A i \in 1..Len(async_parent_modules[t]) : Passed(t, i)
         /\ \A k \in 1..Len(calls') : calls'[k] = calls[k + 1] /\ k + 1 \in 1..Len(calls)
  <1>0. calls \in Seq(Frame) /\ calls # <<>>
    BY DEF TypeOK, FrameInv
  <1>1. /\ t = calls[1].mod /\ Next1 = calls[1].next /\ 1 \in 1..Len(calls) /\ Len(calls) \in Nat
        /\ t \in Module /\ t \in Called /\ Next1 \in Nat
    BY <1>0, CallIs, LenProperties
  <1>2. /\ Len(calls') = Len(calls) - 1
        /\ \A k \in 1..Len(calls') : calls'[k] = calls[k + 1] /\ k + 1 \in 1..Len(calls)
        /\ \A k \in 2..Len(calls) : calls[k] = calls'[k - 1] /\ k - 1 \in 1..Len(calls')
    BY <1>0, TailIs
  <1>3. \A k \in 1..Len(calls) : k = 1 \/ k \in 2..Len(calls)
    BY <1>1
  <1>4. Called' \subseteq Called
    BY <1>2 DEF Called
  <1>5. Called \subseteq Called' \cup {t}
    <2> SUFFICES ASSUME NEW k \in 1..Len(calls) PROVE calls[k].mod \in Called' \cup {t}
      BY DEF Called
    <2>1. CASE k = 1
      BY <1>1, <2>1
    <2>2. CASE k \in 2..Len(calls)
      BY <1>2, <2>2 DEF Called
    <2> QED BY <1>3, <2>1, <2>2
  <1>6. ASSUME NEW y, NEW i \in Nat, ~Passed(y, i)' PROVE ~Passed(y, i)
    <2>1. PICK k \in 1..Len(calls') : calls'[k].mod = y /\ ~(i < calls'[k].next)
      BY <1>6 DEF Passed
    <2> QED BY <1>2, <2>1 DEF Passed
  <1>A. \A i \in 1..Len(async_parent_modules[t]) : i < Next1
    <2>1. Len(async_parent_modules[t]) \in Nat
      BY <1>1 DEF TypeOK
    <2>2. Next1 > Len(async_parent_modules[t])
      BY DEF AllParents
    <2> QED BY <1>1, <2>1, <2>2
  <1>7. ASSUME NEW y \in Module, NEW i \in 1..Len(async_parent_modules[y]), ~Passed(y, i)
        PROVE  ~Passed(y, i)'
    <2>1. PICK k \in 1..Len(calls) : calls[k].mod = y /\ ~(i < calls[k].next)
      BY <1>7 DEF Passed
    <2>2. k # 1
      BY <1>1, <1>A, <2>1
    <2>3. k \in 2..Len(calls)
      BY <1>3, <2>2
    <2>4. calls[k] = calls'[k - 1] /\ k - 1 \in 1..Len(calls')
      BY <1>2, <2>3
    <2> QED BY <2>1, <2>4 DEF Passed
  <1>8. ASSUME \A k \in 1..Len(calls) : calls[k].mod = t => k = 1
        PROVE  /\ t \notin Called'
               /\ \A i \in 1..Len(async_parent_modules[t]) : Passed(t, i)
    <2>1. t \notin Called'
      <3> SUFFICES ASSUME NEW k \in 1..Len(calls'), calls'[k].mod = t PROVE FALSE
        BY DEF Called
      <3>1. k + 1 = 1
        BY <1>2, <1>8
      <3> QED BY <3>1
    <2>2. \A i \in 1..Len(async_parent_modules[t]) : Passed(t, i)
      <3> SUFFICES ASSUME NEW i \in 1..Len(async_parent_modules[t]), NEW k \in 1..Len(calls), calls[k].mod = t
                   PROVE  i < calls[k].next
        BY DEF Passed
      <3>1. k = 1
        BY <1>8
      <3> QED BY <1>1, <1>A, <3>1
    <2> QED BY <2>1, <2>2
  <1> QED BY <1>0, <1>1, <1>2, <1>4, <1>5, <1>6, <1>7, <1>8

\* The first call of a reaction
LEMMA PassStart ==
  ASSUME NEW m, calls' = <<[mod |-> m, next |-> 1]>>
  PROVE  /\ Called' = {m} /\ \A i \in Nat \ {0} : ~Passed(m, i)'
         /\ \A k \in 1..Len(calls') : k = 1 /\ calls'[k].mod = m
  <1>1. /\ Len(calls') = 1 /\ calls'[1].mod = m /\ calls'[1].next = 1
    OBVIOUS
  <1>2. 1..Len(calls') = {1}
    BY <1>1
  <1>3. \A i \in Nat \ {0} : ~(i < 1)
    OBVIOUS
  <1> QED BY <1>1, <1>2, <1>3 DEF Called, Passed
----------------------------------------------------------------------------
(* Failures *)

\* A set of natural numbers that is not empty has a least element.
LEMMA Least ==
  ASSUME NEW T \in SUBSET Nat, T # {}
  PROVE  \E n \in T : \A m \in T : ~(m < n)
  <1> DEFINE R == OpToRel(<, Nat)
  <1>1. IsWellFoundedOn(R, Nat)
    BY NatLessThanWellFounded
  <1>2. \A x, y \in Nat : y < x => <<y, x>> \in R
    BY DEF OpToRel
  <1> HIDE DEF R
  <1>3. PICK x \in T : \A y \in T : ~ (<<y, x>> \in R)
    BY <1>1, WFMin
  <1>4. \A y \in T : y \in Nat
    OBVIOUS
  <1>5. \A y \in T : ~ (y < x)
    BY <1>2, <1>3, <1>4, Zenon
  <1> QED BY <1>5

\* Who waits is listed somewhere
LEMMA ListedIs ==
  ASSUME TypeOK, NEW y \in Module
  PROVE  /\ Len(async_parent_modules[y]) \in Nat
         /\ \A i \in 1..Len(async_parent_modules[y]) :
               /\ async_parent_modules[y][i] \in Module /\ Waits(async_parent_modules[y][i], y)
               /\ i \in Nat \ {0}
         /\ \A p : Waits(p, y) => \E i \in 1..Len(async_parent_modules[y]) : async_parent_modules[y][i] = p
  <1>1. async_parent_modules[y] \in Seq(Module)
    BY DEF TypeOK
  <1>2. DOMAIN async_parent_modules[y] = 1..Len(async_parent_modules[y]) /\ Len(async_parent_modules[y]) \in Nat
    BY <1>1
  <1>3. \A i \in 1..Len(async_parent_modules[y]) : async_parent_modules[y][i] \in Module /\ i \in Nat \ {0}
    BY <1>1
  <1> QED BY <1>2, <1>3 DEF Waits, Range

\* A failure reaches the root of its cycle
LEMMA RootFail ==
  ASSUME IInv, phase # "reject", NEW x \in Module, eval_has_exception[x]
  PROVE  eval_has_exception[cycle_root[x]]
  <1> SUFFICES ASSUME ~eval_has_exception[cycle_root[x]] PROVE FALSE
    OBVIOUS
  <1>0. TypeOK /\ ParentInv /\ FailInv
    BY DEF IInv, AsyncInv
  <1> DEFINE r == cycle_root[x]
             B == {y \in Module : eval_has_exception[y] /\ cycle_root[y] = r}
             T == {dfs_index[y] : y \in B}
  <1>1. T \in SUBSET Nat /\ T # {}
    <2>1. \A y \in Module : dfs_index[y] \in Nat
      BY <1>0 DEF TypeOK
    <2>2. x \in B
      OBVIOUS
    <2> QED BY <2>1, <2>2
  <1> HIDE DEF T
  <1>2. PICK n \in T : \A m \in T : ~(m < n)
    BY <1>1, Least
  <1>3. PICK y \in B : dfs_index[y] = n /\ \A z \in B : ~(dfs_index[z] < dfs_index[y])
    BY <1>2 DEF T
  <1>4. y \in Module /\ eval_has_exception[y] /\ cycle_root[y] = r /\ status[y] \in Ended
    BY <1>3, FailedEnded DEF Ended
  <1>5. async_evaluation[y] /\ y # cycle_root[y] /\ ~eval_has_exception[cycle_root[y]]
    BY <1>0, <1>4 DEF ParentInv
  <1>6. PICK p \in Module : Waits(p, y) /\ dfs_index[p] < dfs_index[y] /\ cycle_root[p] = cycle_root[y]
    BY <1>0, <1>4, <1>5 DEF ParentInv
  <1>7. eval_has_exception[p]
    <2>1. PICK i \in 1..Len(async_parent_modules[y]) : async_parent_modules[y][i] = p
      BY <1>0, <1>4, <1>6, ListedIs
    <2> QED BY <1>0, <1>4, <2>1 DEF FailInv
  <1> QED BY <1>3, <1>4, <1>6, <1>7

\* The steps that leave the reactions alone
Calm == \/ Link \/ EvaluateModule \/ EvaluateReturn \/ ExecEnd
        \/ \E m \in Module : Import(m)
\* The phases of a reaction that call something, and the steps outside them
Reacting == {"gather", "reject"}
\* ... and what they leave alone
LEMMA CalmIs ==
  ASSUME IInv, TypeOK', Calm
  PROVE  /\ UNCHANGED <<async_parent_modules, eval_has_exception, exec_list, body, async_evaluation,
                        pending_async_dependencies, has_tla, cycle_root>>
         /\ phase \notin Reacting /\ phase' \notin Reacting
         /\ \A x \in Module : status'[x] \in {"EVALUATING"} \cup Ended <=> status[x] \in {"EVALUATING"} \cup Ended
         /\ \A x \in Module : status'[x] \in Ended <=> status[x] \in Ended
  <1>1. /\ UNCHANGED <<async_parent_modules, eval_has_exception, exec_list, body, async_evaluation,
                       pending_async_dependencies, has_tla, cycle_root>>
        /\ phase \notin Reacting /\ phase' \notin Reacting /\ Steady
    <2>1. CASE Link
      BY <2>1 DEF Link, LinkEnter, LinkRequired, LinkDone, LinkFail, Enter, Idle, files, waits, runs, Reacting, Steady
    <2>2. CASE EvaluateModule
      BY <2>2 DEF EvaluateModule, Idle, files, waits, runs, Reacting, Steady
    <2>3. CASE EvaluateReturn
      BY <2>3 DEF EvaluateReturn, Idle, files, waits, runs, Reacting, Steady
    <2>4. CASE ExecEnd
      BY <2>4 DEF ExecEnd, files, waits, runs, Reacting, Steady, Reaction
    <2>5. CASE \E m \in Module : Import(m)
      BY <2>5 DEF Import, files, waits, runs, Reacting, Steady
    <2> QED BY <2>1, <2>2, <2>3, <2>4, <2>5 DEF Calm
  <1>2. ~EvalEnter
    <2>1. EvalEnter => ~UNCHANGED stack
      <3> SUFFICES ASSUME EvalEnter, stack' = stack PROVE FALSE
        OBVIOUS
      <3>1. TypeOK /\ FrameInv
        BY DEF IInv
      <3>2. stack' = <<Callee>> \o stack /\ Callee \in Module
        BY <3>1, CalleeIs DEF EvalEnter, Enter, Walking
      <3>3. stack \in Seq(Module) /\ Len(stack) \in Nat
        BY <3>1 DEF TypeOK
      <3>4. Len(stack') = Len(stack) + 1
        BY <3>2, <3>3, Push
      <3>5. \A n \in Nat : n # n + 1
        OBVIOUS
      <3> QED BY <3>3, <3>4, <3>5, Zenon
    <2>2. Calm => Link \/ UNCHANGED stack
      BY DEF Calm, EvaluateModule, EvaluateReturn, ExecEnd, Import
    <2>3. EvalEnter => ~Link
      BY DEF EvalEnter, Link, LinkEnter, LinkRequired, LinkDone, LinkFail
    <2> QED BY <2>1, <2>2, <2>3
  <1> QED BY <1>1, <1>2, SteadyIs

\* Failures spread no further than before when the entries stay
LEMMA FailSame ==
  ASSUME FailInv, TypeOK, TypeOK', phase # "reject", phase' # "reject",
         \A y \in Module : eval_has_exception'[y] =>
            \/ /\ eval_has_exception[y] /\ async_parent_modules'[y] = async_parent_modules[y]
            \/ \A p \in Module : Waits(p, y)' => eval_has_exception'[p],
         \A y \in Module : eval_has_exception[y] => eval_has_exception'[y]
  PROVE  FailInv'
  <1> SUFFICES ASSUME NEW y \in Module, eval_has_exception'[y], NEW i \in 1..Len(async_parent_modules'[y])
               PROVE  eval_has_exception'[async_parent_modules'[y][i]]
    BY DEF FailInv
  <1>1. CASE eval_has_exception[y] /\ async_parent_modules'[y] = async_parent_modules[y]
    <2>1. async_parent_modules[y][i] \in Module
      BY <1>1, ListedIs
    <2> QED BY <1>1, <2>1 DEF FailInv
  <1>2. CASE \A p \in Module : Waits(p, y)' => eval_has_exception'[p]
    <2>1. async_parent_modules'[y] \in Seq(Module)
      BY DEF TypeOK
    <2>2. PICK p \in Module : p = async_parent_modules'[y][i]
      BY <2>1
    <2>3. i \in DOMAIN async_parent_modules'[y]
      BY <2>1
    <2>4. Waits(p, y)'
      BY <2>2, <2>3 DEF Waits, Range
    <2> QED BY <1>2, <2>2, <2>4
  <1> QED BY <1>1, <1>2

\* The steps once more, with those put together that no reaction needs
LEMMA Steps ==
  Next => \/ Calm \/ EvalEnter \/ EvalRequired \/ EvalFail \/ EvalThrow \/ EvalDone
          \/ GatherParent \/ GatherReturn \/ RejectParent \/ RejectReturn
          \/ \E m \in Module : \/ ExecSkip(m) \/ ExecAsync(m) \/ ExecSync(m) \/ ExecThrow(m)
                               \/ Fulfilled(m) \/ Rejected(m)
  BY DEF Next, Calm, Evaluate, Reaction, Await

\* A module to be told of a failure has failed already or not ended
LEMMA ParentFailed ==
  ASSUME IInv, phase = "reject", ~AllParents, GivenUp(Parent)
  PROVE  eval_has_exception[Parent]
  <1>0. TypeOK /\ FailInv /\ OrderInv /\ \A x \in Module : StateOf(x)
    BY DEF IInv, AsyncInv, StateInv
  <1>2. /\ Parent \in Module /\ This \in Module /\ Waits(Parent, This) /\ This \in Called
    BY ParentWaits
  <1>3. eval_has_exception[This]
    BY <1>0, <1>2 DEF FailInv, Called
  <1>4. body[Parent] = "unrun"
    BY <1>0, <1>2, <1>3 DEF OrderInv
  <1> QED BY <1>0, <1>2, <1>4 DEF StateOf, GivenUp

\* That failures reach all who wait is preserved by every step.
LEMMA FailNext == IInv /\ [Next]_vars => FailInv'
  <1> SUFFICES ASSUME IInv, [Next]_vars PROVE FailInv'
    OBVIOUS
  <1>0. TypeOK /\ FrameInv /\ TypeOK' /\ FailInv /\ StackInv /\ WaitInv /\ \A x \in Module : StateOf(x)
    BY TypeNext DEF IInv, StateInv, WalkInv, AsyncInv
  <1>1. CASE Calm
    BY <1>0, <1>1, CalmIs, FailSame DEF Reacting
  <1>2. CASE EvalEnter \/ EvalDone \/ GatherParent \/ GatherReturn
    <2>1. UNCHANGED <<async_parent_modules, eval_has_exception>> /\ phase # "reject" /\ phase' # "reject"
      BY <1>2 DEF EvalEnter, EvalDone, GatherParent, GatherReturn, Enter, waits
    <2> QED BY <1>0, <2>1, FailSame
  <1>3. CASE EvalRequired
    <2> SUFFICES ASSUME NEW m1, m1 = Representative(Callee) PROVE FailInv'
      OBVIOUS
    <2>1. ~eval_has_exception[m1]
      BY <1>3, RequiredIs
    <2>2. eval_has_exception' = eval_has_exception /\ phase # "reject" /\ phase' # "reject"
      BY <1>3 DEF EvalRequired
    <2>3. \A y \in Module : y # m1 => async_parent_modules'[y] = async_parent_modules[y]
      BY <1>3, RequiredWaits
    <2> QED BY <1>0, <2>1, <2>2, <2>3, FailSame
  <1>4. CASE EvalFail \/ EvalThrow
    <2>1. /\ eval_has_exception' = [m \in Module |-> m \in On \/ eval_has_exception[m]]
          /\ async_parent_modules' = async_parent_modules
          /\ phase = "evaluate" /\ phase' = "idle" /\ Walking
      BY <1>4 DEF EvalFail, EvalThrow, Unwind, On, Walking, waits, Idle
    <2>2. \A x \in Module : x \in On <=> status[x] = "EVALUATING"
      BY <1>0, <2>1 DEF StackInv, OnStack
    <2>3. \A y \in Module : eval_has_exception[y] => eval_has_exception'[y]
      BY <2>1
    <2>4. ASSUME NEW y \in Module, y \in On, NEW p \in Module, Waits(p, y)' PROVE eval_has_exception'[p]
      <3>1. Waits(p, y)
        BY <2>1, <2>4 DEF Waits
      <3>2. status[p] = "EVALUATING"
        BY <2>2, <2>4, <3>1, WaitIs
      <3> QED BY <2>1, <2>2, <3>2
    <2>5. \A y \in Module : eval_has_exception'[y] =>
              \/ /\ eval_has_exception[y] /\ async_parent_modules'[y] = async_parent_modules[y]
              \/ \A p \in Module : Waits(p, y)' => eval_has_exception'[p]
      BY <2>1, <2>4
    <2> QED BY <1>0, <2>1, <2>3, <2>5, FailSame
  <1>5. ASSUME NEW m \in Module, ExecSkip(m) \/ ExecAsync(m) \/ ExecSync(m) \/ Fulfilled(m) PROVE FailInv'
    <2>1. UNCHANGED <<async_parent_modules, eval_has_exception>> /\ phase # "reject" /\ phase' # "reject"
      BY <1>5 DEF ExecSkip, ExecAsync, ExecSync, Fulfilled, waits, walk
    <2> QED BY <1>0, <2>1, FailSame
  <1>6. ASSUME NEW m \in Module, ExecThrow(m) \/ Rejected(m) PROVE FailInv'
    <2>1. async_parent_modules' = async_parent_modules /\ phase # "reject"
          /\ (Reject(m) \/ UNCHANGED <<phase, eval_has_exception>>)
      BY <1>6 DEF ExecThrow, Rejected, waits
    <2>2. CASE UNCHANGED <<phase, eval_has_exception>>
      BY <1>0, <2>1, <2>2, FailSame
    <2>3. CASE Reject(m)
      <3>1. /\ eval_has_exception' = [eval_has_exception EXCEPT ![m] = TRUE]
            /\ phase' = "reject" /\ calls' = <<[mod |-> m, next |-> 1]>>
        BY <2>3 DEF Reject
      <3>2. /\ eval_has_exception'[m] /\ \A y \in Module : eval_has_exception[y] => eval_has_exception'[y]
            /\ \A y \in Module : y # m => (eval_has_exception'[y] = eval_has_exception[y])
        BY <1>0, <3>1 DEF TypeOK
      <3>3. /\ m \in Called' /\ \A i \in Nat \ {0} : ~Passed(m, i)'
            /\ \A k \in 1..Len(calls') : calls'[k].mod = m
        BY <3>1, PassStart
      <3>4. ASSUME NEW y \in Module, eval_has_exception'[y], NEW i \in 1..Len(async_parent_modules[y])
            PROVE  eval_has_exception'[async_parent_modules[y][i]] \/ (y \in Called' /\ ~Passed(y, i)')
        <4>1. i \in Nat \ {0} /\ async_parent_modules[y][i] \in Module
          BY <1>0, <3>4, ListedIs
        <4>2. CASE y = m
          BY <3>3, <4>1, <4>2
        <4>3. CASE y # m
          BY <1>0, <2>1, <3>2, <3>4, <4>1, <4>3 DEF FailInv
        <4> QED BY <4>2, <4>3
      <3> QED BY <2>1, <3>1, <3>2, <3>3, <3>4 DEF FailInv
    <2> QED BY <2>1, <2>2, <2>3
  <1>7. CASE RejectParent
    <2> SUFFICES ASSUME NEW p, p = Parent, NEW t, t = This, NEW n, n = Next1 PROVE FailInv'
      OBVIOUS
    <2>1. /\ phase = "reject" /\ phase' = "reject" /\ async_parent_modules' = async_parent_modules
          /\ calls # <<>> /\ ~AllParents
          /\ \/ GivenUp(p) /\ calls' = Advance(calls) /\ eval_has_exception' = eval_has_exception
             \/ /\ eval_has_exception' = [eval_has_exception EXCEPT ![p] = TRUE]
                /\ calls' = <<[mod |-> p, next |-> 1]>> \o Advance(calls)
      BY <1>7 DEF RejectParent, waits
    <2>2. p \in Module /\ t \in Module /\ p = async_parent_modules[t][n]
      BY <2>1, ParentWaits
    <2>3. eval_has_exception'[p] /\ \A y \in Module : eval_has_exception'[y] <=> y = p \/ eval_has_exception[y]
      <3>1. CASE GivenUp(p) /\ eval_has_exception' = eval_has_exception
        BY <2>1, <3>1, ParentFailed
      <3>2. CASE eval_has_exception' = [eval_has_exception EXCEPT ![p] = TRUE]
        BY <1>0, <2>2, <3>2 DEF TypeOK
      <3> QED BY <2>1, <3>1, <3>2
    <2>4. /\ Called' \subseteq Called \cup {p}
          /\ \A y : \A i \in Nat : ~Passed(y, i) => ~Passed(y, i)' \/ y = p \/ (y = t /\ i = n)
          /\ \A i \in Nat \ {0} : ~Passed(p, i)' \/ eval_has_exception[p]
          /\ \A k \in 1..Len(calls') : calls'[k].mod \in Called'
      <3>1. CASE calls' = Advance(calls) /\ GivenUp(p)
        <4>1. \A k \in 1..Len(calls') : calls'[k].mod \in Called'
          BY DEF Called
        <4> QED BY <1>0, <2>1, <3>1, <4>1, PassOne, ParentFailed
      <3>2. CASE calls' = <<[mod |-> p, next |-> 1]>> \o Advance(calls)
        BY <1>0, <2>1, <2>2, <3>2, PassPush
      <3> QED BY <2>1, <3>1, <3>2
    <2>5. \A x \in Called : eval_has_exception[x] /\ x \in Module
      BY <1>0, <2>1, OnIs DEF FailInv, Called
    <2>6. ASSUME NEW y \in Module, eval_has_exception'[y], NEW i \in 1..Len(async_parent_modules[y])
          PROVE  eval_has_exception'[async_parent_modules[y][i]] \/ (y \in Called' /\ ~Passed(y, i)')
      <3>1. i \in Nat \ {0} /\ async_parent_modules[y][i] \in Module
        BY <1>0, <2>6, ListedIs
      <3>2. \A j : ~Passed(y, j)' => y \in Called'
        BY DEF Passed, Called
      <3>3. CASE y = p /\ ~eval_has_exception[p]
        BY <2>4, <3>1, <3>2, <3>3
      <3>4. CASE eval_has_exception[y]
        <4>1. CASE eval_has_exception[async_parent_modules[y][i]]
          BY <2>3, <3>1, <4>1
        <4>2. CASE ~Passed(y, i)
          <5>1. CASE y = t /\ i = n
            BY <2>2, <2>3, <5>1
          <5>2. CASE ~(y = t /\ i = n)
            <6>1. ~Passed(y, i)' \/ y = p
              BY <2>4, <3>1, <4>2, <5>2
            <6>2. CASE y = p /\ GivenUp(p) /\ calls' = Advance(calls)
              <7>1. ~Passed(y, i)'
                BY <1>0, <2>1, <3>1, <4>2, <5>2, <6>2, PassOne
              <7> QED BY <3>2, <7>1
            <6>3. CASE y = p /\ calls' = <<[mod |-> p, next |-> 1]>> \o Advance(calls)
              <7>1. ~Passed(y, i)'
                BY <1>0, <2>1, <2>2, <3>1, <6>3, PassPush
              <7> QED BY <3>2, <7>1
            <6> QED BY <2>1, <3>2, <6>1, <6>2, <6>3
          <5> QED BY <5>1, <5>2
        <4> QED BY <1>0, <3>4, <4>1, <4>2 DEF FailInv
      <3> QED BY <2>3, <2>6, <3>3, <3>4
    <2>7. \A k \in 1..Len(calls') : eval_has_exception'[calls'[k].mod]
      BY <2>2, <2>3, <2>4, <2>5
    <2> QED BY <2>1, <2>6, <2>7 DEF FailInv
  <1>8. CASE RejectReturn
    <2>1. /\ phase = "reject" /\ AllParents /\ calls' = Tail(calls)
          /\ UNCHANGED <<async_parent_modules, eval_has_exception>>
          /\ phase' = IF Tail(calls) = <<>> THEN "exec" ELSE phase
      BY <1>8 DEF RejectReturn, waits
    <2>2. /\ Called' \subseteq Called
          /\ \A y \in Module : \A i \in 1..Len(async_parent_modules[y]) : ~Passed(y, i) => ~Passed(y, i)'
      BY <1>0, <2>1, PassReturn
    <2>3. \A y, i : ~Passed(y, i)' => y \in Called' /\ phase' = "reject"
      <3> SUFFICES ASSUME NEW y, NEW i, ~Passed(y, i)' PROVE y \in Called' /\ phase' = "reject"
        OBVIOUS
      <3>1. PICK k \in 1..Len(calls') : calls'[k].mod = y
        BY DEF Passed
      <3>2. calls' # <<>>
        <4> SUFFICES ASSUME calls' = <<>> PROVE FALSE
          OBVIOUS
        <4>1. Len(calls') = 0
          OBVIOUS
        <4> QED BY <3>1, <4>1
      <3> QED BY <2>1, <3>1, <3>2 DEF Called
    <2>4. \A k \in 1..Len(calls') : eval_has_exception'[calls'[k].mod]
      <3>1. \A x \in Called : eval_has_exception[x]
        BY <1>0, <2>1 DEF FailInv, Called
      <3> QED BY <2>1, <2>2, <3>1 DEF Called
    <2>5. \A y \in Module : eval_has_exception'[y] =>
            \A i \in 1..Len(async_parent_modules'[y]) :
              eval_has_exception'[async_parent_modules'[y][i]] \/
              (phase' = "reject" /\ y \in Called' /\ ~Passed(y, i)')
      BY <1>0, <2>1, <2>2, <2>3 DEF FailInv
    <2> QED BY <2>4, <2>5 DEF FailInv
  <1>9. CASE UNCHANGED vars
    <2>1. UNCHANGED <<phase, calls, eval_has_exception, async_parent_modules>>
      BY <1>9 DEF vars, walk, waits
    <2> QED BY <1>0, <2>1 DEF FailInv, Called, Passed
  <1> QED BY <1>1, <1>2, <1>3, <1>4, <1>5, <1>6, <1>7, <1>8, <1>9, Steps
----------------------------------------------------------------------------
(* The order of execution *)

\* y has run to its end
Finished(y) == body[y] = "done" /\ ~eval_has_exception[y] /\ status[y] = "EVALUATED"

\* All that a module about to run waits for has finished
LEMMA Runnable ==
  ASSUME IInv, NEW p \in Module, pending_async_dependencies[p] = 0, ~eval_has_exception[p],
         status[p] \in {"EVALUATING"} \cup Ended, phase \notin Reacting,
         \A y \in exec_list : Waits(p, y) => y \in has_tla,
         NEW y \in Module, Waits(p, y)
  PROVE  Finished(y)
  <1>0. TypeOK /\ OutInv /\ FailInv /\ OrderInv /\ \A x \in Module : StateOf(x)
    BY DEF IInv, AsyncInv, StateInv
  <1>1. PICK i \in 1..Len(async_parent_modules[y]) : async_parent_modules[y][i] = p
    BY <1>0, ListedIs
  <1>2. i \in Nat
    BY <1>0, ListedIs
  <1>3. Out(p) = {}
    <2>1. IsFiniteSet(Out(p)) /\ Cardinality(Out(p)) <= 0
      BY <1>0 DEF OutInv
    <2>2. Cardinality(Out(p)) \in Nat
      BY <2>1, FS_CardinalityType
    <2>3. Cardinality(Out(p)) = 0
      BY <2>1, <2>2
    <2> QED BY <2>1, <2>3, FS_EmptySet
  <1>4. ~Pending(y, i)
    <2> SUFFICES ASSUME Pending(y, i) PROVE FALSE
      OBVIOUS
    <2>1. <<y, i>> \in Module \X Nat
      BY <1>2
    <2>2. <<y, i>>[1] = y /\ <<y, i>>[2] = i
      OBVIOUS
    <2>3. <<y, i>> \in Out(p)
      BY <1>1, <2>1, <2>2 DEF Out
    <2> QED BY <1>3, <2>3
  <1>5. ~eval_has_exception[y]
    BY <1>0, <1>1 DEF FailInv, Reacting
  <1>6. body[y] = "done"
    BY <1>4, <1>5 DEF Pending, Reacting
  <1>7. status[y] = "EVALUATED"
    <2>1. async_parent_modules[y] # <<>>
      <3> SUFFICES ASSUME async_parent_modules[y] = <<>> PROVE FALSE
        OBVIOUS
      <3>1. Range(async_parent_modules[y]) = {}
        BY DEF Range
      <3> QED BY <3>1 DEF Waits
    <2>2. status[y] \in Status
      BY <1>0 DEF TypeOK
    <2> QED BY <1>0, <1>6, <2>1, <2>2 DEF StateOf, Status
  <1> QED BY <1>5, <1>6, <1>7 DEF Finished

\* Who has run to its end stays so, and who starts to run waits for nobody else
OrderStep ==
  /\ \A y \in Module : Finished(y) => Finished(y)'
  /\ \A p \in Module : body'[p] # "unrun" =>
        body[p] # "unrun" \/ \A y \in Module : Waits(p, y) => Finished(y)

\* Who runs, runs after what it waits for
LEMMA OrderKeeps ==
  ASSUME OrderInv,
         \A y \in Module : Finished(y) => Finished(y)',
         \A p, y \in Module : Waits(p, y)' => Waits(p, y) \/ body'[p] = "unrun",
         \A p \in Module : body'[p] # "unrun" =>
            body[p] # "unrun" \/ \A y \in Module : Waits(p, y) => Finished(y)
  PROVE  OrderInv' /\ OrderStep
  <1>1. OrderInv'
    <2> SUFFICES ASSUME NEW y \in Module, NEW p \in Module, Waits(p, y)', body'[p] # "unrun"
                 PROVE  Finished(y)'
      BY DEF OrderInv, Finished
    <2>1. Waits(p, y)
      OBVIOUS
    <2>2. Finished(y)
      BY <2>1 DEF OrderInv, Finished
    <2> QED BY <2>2
  <1> QED BY <1>1 DEF OrderStep

\* The order of execution is preserved by every step.
LEMMA OrderNext == IInv /\ [Next]_vars => OrderInv' /\ OrderStep
  <1> SUFFICES ASSUME IInv, [Next]_vars PROVE OrderInv' /\ OrderStep
    OBVIOUS
  <1>0. TypeOK /\ FrameInv /\ TypeOK' /\ OrderInv /\ StackInv /\ WaitInv /\ ExecInv /\ OutInv
        /\ \A x \in Module : StateOf(x)
    BY TypeNext DEF IInv, StateInv, WalkInv, AsyncInv
  <1>W. async_parent_modules' = async_parent_modules => \A p, y \in Module : Waits(p, y)' => Waits(p, y)
    BY DEF Waits
  <1>S. ASSUME UNCHANGED <<body, eval_has_exception, async_parent_modules>>,
               \A x \in Module : status[x] = "EVALUATED" => status'[x] = "EVALUATED"
        PROVE  OrderInv' /\ OrderStep
    BY <1>0, <1>W, <1>S, OrderKeeps DEF Finished
  <1>1. CASE Calm
    <2>1. UNCHANGED <<body, eval_has_exception, async_parent_modules>>
      BY <1>0, <1>1, CalmIs
    <2>2. \A x \in Module : Finished(x) => status'[x] = "EVALUATED"
      <3>1. Link => \A x \in Module : status[x] = "EVALUATED" => status'[x] = "EVALUATED"
        <4>1. CASE LinkEnter
          <5>1. Callee \in Module /\ status[Callee] = "UNLINKED" /\ status' = [status EXCEPT ![Callee] = "LINKING"]
            BY <1>0, <4>1, CalleeIs DEF LinkEnter, Enter, Walking
          <5> QED BY <1>0, <5>1 DEF TypeOK
        <4>2. CASE LinkRequired
          BY <4>2 DEF LinkRequired
        <4>3. CASE LinkDone
          <5>1. \A x \in Popped(This) : x \in On
            BY <1>0, <4>3, LinkDoneIs DEF DoneStep
          <5>2. \A x \in On : status[x] = "LINKING"
            BY <1>0, <4>3 DEF StackInv, OnStack, LinkDone
          <5> QED BY <4>3, <5>1, <5>2 DEF LinkDone
        <4>4. CASE LinkFail
          <5>1. \A x \in Range(stack) : status[x] = "LINKING"
            BY <1>0, <4>4 DEF StackInv, OnStack, On, LinkFail
          <5> QED BY <4>4, <5>1 DEF LinkFail
        <4> QED BY <4>1, <4>2, <4>3, <4>4 DEF Link
      <3>2. ~Link => status' = status
        BY <1>1 DEF Calm, EvaluateModule, EvaluateReturn, ExecEnd, Import
      <3> QED BY <3>1, <3>2 DEF Finished
    <2> QED BY <1>0, <1>W, <2>1, <2>2, OrderKeeps DEF Finished
  <1>2. CASE EvalEnter
    <2>1. /\ UNCHANGED <<body, eval_has_exception, async_parent_modules>>
          /\ status' = [status EXCEPT ![Callee] = "EVALUATING"] /\ status[Callee] = "LINKED" /\ Callee \in Module
      BY <1>0, <1>2, CalleeIs DEF EvalEnter, Enter, Walking, runs
    <2>2. \A x \in Module : status[x] = "EVALUATED" => status'[x] = "EVALUATED"
      BY <1>0, <2>1 DEF TypeOK
    <2> QED BY <1>S, <2>1, <2>2
  <1>3. CASE EvalRequired
    <2> SUFFICES ASSUME NEW t, t = This, NEW m1, m1 = Representative(Callee) PROVE OrderInv' /\ OrderStep
      OBVIOUS
    <2>1. UNCHANGED <<body, eval_has_exception, status>> /\ body[t] = "unrun"
      BY <1>3, ThisIs DEF EvalRequired, runs
    <2>2. \A p, y \in Module : Waits(p, y)' => Waits(p, y) \/ p = t
      BY <1>3, RequiredWaits
    <2> QED BY <1>0, <2>1, <2>2, OrderKeeps DEF Finished
  <1>4. CASE EvalFail \/ EvalThrow
    <2> SUFFICES ASSUME NEW t, t = This PROVE OrderInv' /\ OrderStep
      OBVIOUS
    <2>1. /\ eval_has_exception' = [m \in Module |-> m \in On \/ eval_has_exception[m]]
          /\ status' = [m \in Module |-> IF m \in On THEN "EVALUATED" ELSE status[m]]
          /\ async_parent_modules' = async_parent_modules
          /\ phase = "evaluate" /\ Walking
      BY <1>4 DEF EvalFail, EvalThrow, Unwind, On, Walking, waits, Idle
    <2>2. \A x \in Module : x \in On <=> status[x] = "EVALUATING"
      BY <1>0, <2>1 DEF StackInv, OnStack
    <2>3. /\ \A x \in Module : body'[x] = body[x] \/ (EvalThrow /\ x = t)
          /\ EvalThrow => /\ t \in Module /\ body[t] = "unrun" /\ pending_async_dependencies[t] = 0
                          /\ ~eval_has_exception[t] /\ status[t] = "EVALUATING"
      <3>1. CASE EvalFail
        <4>1. body' = body /\ ~EvalThrow
          BY <3>1 DEF EvalFail, EvalThrow, runs
        <4> QED BY <4>1
      <3>2. CASE EvalThrow
        <4>1. calls # <<>> /\ phase = "evaluate" /\ Starts(t) /\ body' = [body EXCEPT ![t] = "threw"]
          BY <3>2 DEF EvalThrow, AllRequired, Run
        <4>2. t \in Module /\ body[t] = "unrun" /\ ~eval_has_exception[t] /\ status[t] = "EVALUATING"
          BY <4>1, ThisIs
        <4>3. \A x \in Module : x # t => body'[x] = body[x]
          BY <1>0, <4>1, <4>2 DEF TypeOK
        <4> QED BY <3>2, <4>1, <4>2, <4>3 DEF Starts
      <3> QED BY <1>4, <3>1, <3>2
    <2>4. \A y \in Module : Finished(y) => Finished(y)'
      BY <2>1, <2>2, <2>3 DEF Finished
    <2>5. exec_list = {}
      BY <2>1, ExecEmpty
    <2>6. \A y \in Module : EvalThrow /\ Waits(t, y) => Finished(y)
      BY <2>1, <2>3, <2>5, Runnable DEF Reacting
    <2>7. \A p \in Module : body'[p] # "unrun" =>
              body[p] # "unrun" \/ \A y \in Module : Waits(p, y) => Finished(y)
      BY <2>3, <2>6
    <2> QED BY <1>0, <1>W, <2>1, <2>4, <2>7, OrderKeeps
  <1>5. CASE EvalDone
    <2> SUFFICES ASSUME NEW t, t = This PROVE OrderInv' /\ OrderStep
      OBVIOUS
    <2>1. /\ phase = "evaluate" /\ Walking /\ calls # <<>>
          /\ UNCHANGED <<eval_has_exception, async_parent_modules>>
          /\ status' = [m \in Module |-> IF m \notin Popped(t) THEN status[m]
                                   ELSE IF async_evaluation'[m] THEN "EVALUATING_ASYNC"
                                   ELSE "EVALUATED"]
      BY <1>5 DEF EvalDone, Walking, AllRequired
    <2>2. /\ t \in Module /\ body[t] = "unrun" /\ ~eval_has_exception[t] /\ status[t] = "EVALUATING"
      BY <2>1, ThisIs
    <2>3. body' = body \/ (Starts(t) /\ \E o \in {"running", "done"} : body' = [body EXCEPT ![t] = o])
      BY <1>5 DEF EvalDone, Run, runs
    <2>4. /\ \A x \in Module : x # t => body'[x] = body[x]
          /\ body' = body \/ pending_async_dependencies[t] = 0
      BY <1>0, <2>2, <2>3 DEF TypeOK, Starts
    <2>5. \A x \in Popped(t) : x \in On
      BY <1>0, <1>5, EvalDoneIs DEF DoneStep
    <2>6. \A x \in On : status[x] = "EVALUATING"
      BY <1>0, <2>1 DEF StackInv, OnStack
    <2>7. \A y \in Module : Finished(y) => Finished(y)'
      BY <2>1, <2>2, <2>4, <2>5, <2>6 DEF Finished
    <2>8. exec_list = {}
      BY <2>1, ExecEmpty
    <2>9. \A y \in Module : pending_async_dependencies[t] = 0 /\ Waits(t, y) => Finished(y)
      BY <2>1, <2>2, <2>8, Runnable DEF Reacting
    <2>10. \A p \in Module : body'[p] # "unrun" =>
              body[p] # "unrun" \/ \A y \in Module : Waits(p, y) => Finished(y)
      BY <2>4, <2>9
    <2> QED BY <1>0, <1>W, <2>1, <2>7, <2>10, OrderKeeps
  <1>6. CASE GatherParent \/ GatherReturn \/ RejectReturn
    <2>1. UNCHANGED <<body, eval_has_exception, async_parent_modules, status>>
      BY <1>6 DEF GatherParent, GatherReturn, RejectReturn, waits, runs
    <2> QED BY <1>S, <2>1
  <1>7. CASE RejectParent
    <2>1. /\ UNCHANGED <<body, async_parent_modules>>
          /\ phase = "reject" /\ ~AllParents
          /\ \/ UNCHANGED <<status, eval_has_exception>>
             \/ /\ eval_has_exception' = [eval_has_exception EXCEPT ![Parent] = TRUE]
                /\ status' = [status EXCEPT ![Parent] = "EVALUATED"]
                /\ ~GivenUp(Parent)
      BY <1>7 DEF RejectParent, waits, runs
    <2>2. Parent \in Module
      BY <2>1, ParentWaits
    <2>3. ASSUME NEW y \in Module, Finished(y) PROVE Finished(y)'
      <3>1. CASE UNCHANGED <<status, eval_has_exception>>
        BY <2>1, <2>3, <3>1 DEF Finished
      <3>2. CASE /\ eval_has_exception' = [eval_has_exception EXCEPT ![Parent] = TRUE]
                 /\ status' = [status EXCEPT ![Parent] = "EVALUATED"]
                 /\ ~GivenUp(Parent)
        <4>1. y # Parent
          BY <2>3, <3>2 DEF Finished, GivenUp
        <4>2. eval_has_exception'[y] = eval_has_exception[y]
          BY <1>0, <3>2, <4>1 DEF TypeOK
        <4>3. status'[y] = status[y]
          BY <1>0, <3>2, <4>1 DEF TypeOK
        <4> QED BY <2>1, <2>3, <4>2, <4>3 DEF Finished
      <3> QED BY <2>1, <3>1, <3>2
    <2> QED BY <1>0, <1>W, <2>1, <2>3, OrderKeeps
  <1>8. ASSUME NEW m \in Module, ExecSkip(m) PROVE OrderInv' /\ OrderStep
    <2>1. UNCHANGED <<body, eval_has_exception, async_parent_modules, status>>
      BY <1>8 DEF ExecSkip, waits, runs
    <2> QED BY <1>S, <2>1
  <1>9. ASSUME NEW m \in Module, ExecAsync(m) \/ ExecSync(m) \/ ExecThrow(m) PROVE OrderInv' /\ OrderStep
    <2>1. /\ phase = "exec" /\ IsFirst(m) /\ ~GivenUp(m) /\ async_parent_modules' = async_parent_modules
          /\ \E o \in {"running", "done", "threw"} : body' = [body EXCEPT ![m] = o]
          /\ eval_has_exception' = eval_has_exception \/ eval_has_exception' = [eval_has_exception EXCEPT ![m] = TRUE]
          /\ status' = status \/ status' = [status EXCEPT ![m] = "EVALUATED"]
      BY <1>9 DEF ExecAsync, ExecSync, ExecThrow, Run, Reject, SetEvaluated, waits
    <2>2. /\ m \in exec_list /\ body[m] = "unrun" /\ async_evaluation[m] /\ status[m] \in Ended
          /\ pending_async_dependencies[m] = 0
      BY <1>0, <2>1 DEF IsFirst, ExecInv, OutInv
    <2>3. ~eval_has_exception[m]
      <3>1. status[m] = "EVALUATING_ASYNC"
        BY <2>1, <2>2 DEF GivenUp, Ended
      <3> QED BY <1>0, <3>1 DEF StateOf
    <2>4. ASSUME NEW y \in exec_list, Waits(m, y) PROVE y \in has_tla
      <3>0. y \in Module
        BY <1>0 DEF TypeOK
      <3>1. async_evaluation_timestamp[y] < async_evaluation_timestamp[m]
        BY <2>2, <2>4, <3>0, WaitIs
      <3>2. async_evaluation_timestamp[m] <= async_evaluation_timestamp[y]
        BY <2>1, <2>4 DEF IsFirst
      <3>3. async_evaluation_timestamp[y] \in Nat /\ async_evaluation_timestamp[m] \in Nat
        BY <1>0, <3>0 DEF TypeOK
      <3> QED BY <3>1, <3>2, <3>3
    <2>5. \A y \in Module : Waits(m, y) => Finished(y)
      BY <2>1, <2>2, <2>3, <2>4, Runnable DEF Reacting
    <2>6. /\ \A x \in Module : x # m => body'[x] = body[x]
          /\ \A x \in Module : x # m => status'[x] = status[x]
      <3>1. \A x \in Module : x # m => body'[x] = body[x]
        BY <1>0, <2>1 DEF TypeOK
      <3>2. \A x \in Module : x # m => status'[x] = status[x]
        <4>1. status \in [Module -> Status]
          BY <1>0 DEF TypeOK
        <4>2. status' = status \/ status' = [status EXCEPT ![m] = "EVALUATED"]
          BY <2>1
        <4> QED BY <4>1, <4>2
      <3> QED BY <3>1, <3>2
    <2>7. \A x \in Module : x # m => eval_has_exception'[x] = eval_has_exception[x]
      <3>1. eval_has_exception \in [Module -> BOOLEAN]
        BY <1>0 DEF TypeOK
      <3>2. \/ eval_has_exception' = eval_has_exception
            \/ eval_has_exception' = [eval_has_exception EXCEPT ![m] = TRUE]
        BY <2>1
      <3> QED BY <3>1, <3>2
    <2>8. \A y \in Module : Finished(y) => Finished(y)'
      BY <2>2, <2>6, <2>7 DEF Finished
    <2>9. \A p \in Module : body'[p] # "unrun" =>
              body[p] # "unrun" \/ \A y \in Module : Waits(p, y) => Finished(y)
      BY <2>5, <2>6
    <2> QED BY <1>0, <1>W, <2>1, <2>8, <2>9, OrderKeeps
  <1>10. ASSUME NEW m \in Module, Fulfilled(m) \/ Rejected(m) PROVE OrderInv' /\ OrderStep
    <2>1. /\ body[m] = "running" /\ async_parent_modules' = async_parent_modules
          /\ \E o \in {"done", "threw"} : body' = [body EXCEPT ![m] = o]
          /\ eval_has_exception' = eval_has_exception \/ eval_has_exception' = [eval_has_exception EXCEPT ![m] = TRUE]
          /\ status' = status \/ status' = [status EXCEPT ![m] = "EVALUATED"]
      BY <1>10 DEF Fulfilled, Rejected, Reject, SetEvaluated, waits
    <2>2. /\ \A x \in Module : x # m => body'[x] = body[x]
          /\ \A x \in Module : x # m => status'[x] = status[x]
      <3>1. \A x \in Module : x # m => body'[x] = body[x]
        BY <1>0, <2>1 DEF TypeOK
      <3>2. \A x \in Module : x # m => status'[x] = status[x]
        <4>1. status \in [Module -> Status]
          BY <1>0 DEF TypeOK
        <4>2. status' = status \/ status' = [status EXCEPT ![m] = "EVALUATED"]
          BY <2>1
        <4> QED BY <4>1, <4>2
      <3> QED BY <3>1, <3>2
    <2>3. \A x \in Module : x # m => eval_has_exception'[x] = eval_has_exception[x]
      <3>1. eval_has_exception \in [Module -> BOOLEAN]
        BY <1>0 DEF TypeOK
      <3>2. \/ eval_has_exception' = eval_has_exception
            \/ eval_has_exception' = [eval_has_exception EXCEPT ![m] = TRUE]
        BY <2>1
      <3> QED BY <3>1, <3>2
    <2>4. \A y \in Module : Finished(y) => Finished(y)'
      BY <2>1, <2>2, <2>3 DEF Finished
    <2>5. \A p \in Module : body'[p] # "unrun" => body[p] # "unrun"
      BY <2>1, <2>2
    <2> QED BY <1>0, <1>W, <2>1, <2>4, <2>5, OrderKeeps
  <1>11. CASE UNCHANGED vars
    <2>1. UNCHANGED <<body, eval_has_exception, async_parent_modules, status>>
      BY <1>11 DEF vars, waits, runs
    <2> QED BY <1>S, <2>1
  <1> QED BY <1>1, <1>2, <1>3, <1>4, <1>5, <1>6, <1>7, <1>8, <1>9, <1>10, <1>11, Steps
----------------------------------------------------------------------------
(* The entries that will be counted down *)

\* Out, for one entry
LEMMA OutIs ==
  ASSUME NEW p, NEW y \in Module, NEW i \in Nat
  PROVE  <<y, i>> \in Out(p) <=> i \in 1..Len(async_parent_modules[y]) /\ async_parent_modules[y][i] = p
                                 /\ Pending(y, i)
  <1>1. <<y, i>> \in Module \X Nat
    OBVIOUS
  <1>2. <<y, i>>[1] = y /\ <<y, i>>[2] = i
    OBVIOUS
  <1> QED BY <1>1, <1>2 DEF Out

\* It shrinks when less is pending
LEMMA OutShrinks ==
  ASSUME TypeOK, async_parent_modules' = async_parent_modules,
         \A y \in Module : \A i \in 1..Len(async_parent_modules[y]) : Pending(y, i)' => Pending(y, i)
  PROVE  \A q : Out(q)' \subseteq Out(q)
  <1> SUFFICES ASSUME NEW q, NEW w \in Out(q)' PROVE w \in Out(q)
    OBVIOUS
  <1>1. /\ w \in Module \X Nat /\ w[2] \in 1..Len(async_parent_modules[w[1]])
        /\ async_parent_modules[w[1]][w[2]] = q /\ Pending(w[1], w[2])'
    BY DEF Out
  <1>2. w[1] \in Module /\ w[2] \in Nat
    BY <1>1
  <1>3. Pending(w[1], w[2])
    BY <1>1, <1>2
  <1> QED BY <1>1, <1>3 DEF Out

\* Finite sets and a bound of their size
LEMMA Fewer ==
  ASSUME NEW S, NEW T, IsFiniteSet(S), T \subseteq S
  PROVE  /\ IsFiniteSet(T) /\ Cardinality(T) \in Nat /\ Cardinality(S) \in Nat
         /\ \A n \in Int : Cardinality(S) <= n => Cardinality(T) <= n
         /\ (\E x \in S : x \notin T) => \A n \in Int : Cardinality(S) <= n => Cardinality(T) <= n - 1
  <1>1. IsFiniteSet(T) /\ Cardinality(T) <= Cardinality(S)
    BY FS_Subset
  <1>2. Cardinality(T) \in Nat /\ Cardinality(S) \in Nat
    BY <1>1, FS_CardinalityType
  <1>3. ASSUME NEW x \in S, x \notin T PROVE Cardinality(T) <= Cardinality(S) - 1
    <2>1. T \subseteq S \ {x}
      BY <1>3
    <2>2. IsFiniteSet(S \ {x}) /\ Cardinality(S \ {x}) = Cardinality(S) - 1
      BY <1>3, FS_RemoveElement
    <2>3. Cardinality(T) <= Cardinality(S \ {x})
      BY <2>1, <2>2, FS_Subset
    <2> QED BY <2>2, <2>3
  <1>4. \A n \in Int : Cardinality(S) <= n => Cardinality(T) <= n
    BY <1>1, <1>2
  <1>5. ASSUME NEW x \in S, x \notin T, NEW n \in Int, Cardinality(S) <= n PROVE Cardinality(T) <= n - 1
    <2>1. Cardinality(T) <= Cardinality(S) - 1
      BY <1>3, <1>5
    <2> QED BY <1>2, <1>5, <2>1
  <1> QED BY <1>1, <1>2, <1>4, <1>5

\* The count stays right when fewer entries are pending
LEMMA OutKeeps ==
  ASSUME OutInv, TypeOK, \A q \in Module : Out(q)' \subseteq Out(q),
         pending_async_dependencies' = pending_async_dependencies,
         \A q \in Module : status'[q] \in {"EVALUATING"} \cup Ended => status[q] \in {"EVALUATING"} \cup Ended,
         \A q \in Module : body'[q] # "unrun" \/ q \in exec_list' =>
            body[q] # "unrun" \/ q \in exec_list \/ pending_async_dependencies[q] = 0
  PROVE  OutInv'
  <1> SUFFICES ASSUME NEW q \in Module
               PROVE  /\ IsFiniteSet(Out(q))'
                      /\ status'[q] \in {"EVALUATING"} \cup Ended => Cardinality(Out(q))' <= pending_async_dependencies'[q]
                      /\ body'[q] # "unrun" \/ q \in exec_list' => pending_async_dependencies'[q] = 0
    BY DEF OutInv
  <1>1. /\ IsFiniteSet(Out(q))
        /\ status[q] \in {"EVALUATING"} \cup Ended => Cardinality(Out(q)) <= pending_async_dependencies[q]
        /\ body[q] # "unrun" \/ q \in exec_list => pending_async_dependencies[q] = 0
        /\ pending_async_dependencies[q] \in Int
    BY DEF OutInv, TypeOK
  <1>2. /\ IsFiniteSet(Out(q)')
        /\ Cardinality(Out(q)) <= pending_async_dependencies[q] => Cardinality(Out(q)') <= pending_async_dependencies[q]
    BY <1>1, Fewer
  <1> QED BY <1>1, <1>2

\* The same entries stay pending, or fewer
LEMMA PendingKeeps ==
  ASSUME TypeOK, OutInv, phase # "gather", phase' # "gather",
         UNCHANGED <<async_parent_modules, has_tla, pending_async_dependencies>>,
         \A q \in Module : status'[q] \in {"EVALUATING"} \cup Ended => status[q] \in {"EVALUATING"} \cup Ended,
         \A y \in Module : eval_has_exception[y] => eval_has_exception'[y],
         \A y \in Module : body[y] = "done" => body'[y] = "done",
         \A y \in exec_list : y \in exec_list' \/ eval_has_exception'[y] \/ body'[y] = "done" \/ y \in has_tla,
         \A q \in Module : body'[q] # "unrun" \/ q \in exec_list' =>
            body[q] # "unrun" \/ q \in exec_list \/ pending_async_dependencies[q] = 0
  PROVE  OutInv'
  <1>1. \A y \in Module : \A i \in 1..Len(async_parent_modules[y]) : Pending(y, i)' => Pending(y, i)
    BY DEF Pending
  <1>2. \A q \in Module : Out(q)' \subseteq Out(q)
    BY <1>1, OutShrinks
  <1> QED BY <1>2, OutKeeps

\* The innermost call of gather_available_ancestors and its next parent, when it is not passed over
LEMMA GatherIs ==
  ASSUME IInv, phase = "gather", ~AllParents, ~PassedOver(Parent), NEW p, p = Parent, NEW t, t = This, NEW n, n = Next1
  PROVE  /\ p \in Module /\ t \in Module /\ n \in 1..Len(async_parent_modules[t])
         /\ p = async_parent_modules[t][n] /\ t \in Called /\ ~Passed(t, n) /\ <<t, n>> \in Out(p)
         /\ p \notin exec_list /\ ~eval_has_exception[p] /\ body[p] = "unrun"
         /\ pending_async_dependencies[p] \in Int /\ pending_async_dependencies[p] > 0
         /\ p \notin Called /\ status[p] = "EVALUATING_ASYNC" /\ async_evaluation[p]
         /\ \A k \in 1..Len(calls) : calls[k].mod = t => k = 1
         /\ \A k, l \in 1..Len(calls) : calls[k].mod = calls[l].mod => k = l
         /\ calls # <<>> /\ phase = "gather" /\ ~AllParents /\ n \in Nat \ {0}
  <1>0. TypeOK /\ FrameInv /\ OutInv /\ GatherInv /\ \A x \in Module : StateOf(x)
    BY DEF IInv, AsyncInv, StateInv
  <1>1. phase = "gather" /\ ~AllParents
    OBVIOUS
  <1>2. /\ calls # <<>> /\ p \in Module /\ t \in Module /\ t \in Called
        /\ n \in 1..Len(async_parent_modules[t]) /\ p = async_parent_modules[t][n]
        /\ t = calls[1].mod /\ n = calls[1].next /\ 1 \in 1..Len(calls) /\ status[p] \in Ended
    BY <1>1, ParentWaits
  <1>3. n \in Nat \ {0}
    BY <1>0, <1>2, ListedIs
  <1>4. ~Passed(t, n)
    <2>1. ~(n < n)
      BY <1>3
    <2> QED BY <1>2, <2>1 DEF Passed
  <1>5. <<t, n>> \in Out(p)
    <2>1. Pending(t, n)
      BY <1>1, <1>2, <1>4 DEF Pending
    <2> QED BY <1>2, <1>3, <2>1, OutIs
  <1>6. p \notin exec_list /\ ~eval_has_exception[cycle_root[p]]
    BY DEF PassedOver
  <1>7. ~eval_has_exception[p]
    BY <1>1, <1>2, <1>6, RootFail
  <1>8. pending_async_dependencies[p] \in Int /\ pending_async_dependencies[p] > 0
    <2>1. IsFiniteSet(Out(p)) /\ Cardinality(Out(p)) <= pending_async_dependencies[p]
          /\ pending_async_dependencies[p] \in Int
      BY <1>0, <1>2 DEF OutInv, TypeOK
    <2>2. {} \subseteq Out(p) /\ \E x \in Out(p) : x \notin {}
      BY <1>5
    <2>3. Cardinality({}) <= pending_async_dependencies[p] - 1
      BY <2>1, <2>2, Fewer
    <2>4. Cardinality({}) = 0
      BY FS_EmptySet
    <2> QED BY <2>1, <2>3, <2>4
  <1>9. body[p] = "unrun"
    <2>1. pending_async_dependencies[p] # 0
      BY <1>8
    <2> QED BY <1>0, <1>2, <2>1 DEF OutInv
  <1>10. p \notin Called
    BY <1>0, <1>1, <1>6, <1>9 DEF GatherInv, Called
  <1>11. status[p] = "EVALUATING_ASYNC" /\ async_evaluation[p]
    BY <1>0, <1>2, <1>7, <1>9 DEF StateOf, Ended
  <1>12. \A k, l \in 1..Len(calls) : calls[k].mod = calls[l].mod => k = l
    BY <1>0, <1>1 DEF GatherInv
  <1>13. \A k \in 1..Len(calls) : calls[k].mod = t => k = 1
    BY <1>2, <1>12
  <1> QED BY <1>1, <1>2, <1>3, <1>4, <1>5, <1>6, <1>7, <1>8, <1>9, <1>10, <1>11, <1>12, <1>13

\* A module entered starts with count 0, and nobody has listed it
LEMMA OutEnter ==
  ASSUME IInv, TypeOK', EvalEnter PROVE OutInv'
  <1> SUFFICES ASSUME NEW c, c = Callee PROVE OutInv'
    OBVIOUS
  <1>0. TypeOK /\ FrameInv /\ OutInv /\ WaitInv /\ \A x \in Module : StateOf(x)
    BY DEF IInv, AsyncInv, StateInv
  <1>1. /\ c \in Module /\ status[c] = "LINKED" /\ status' = [status EXCEPT ![c] = "EVALUATING"]
        /\ pending_async_dependencies' = [pending_async_dependencies EXCEPT ![c] = 0]
        /\ UNCHANGED <<async_parent_modules, eval_has_exception, exec_list, body, has_tla, phase>>
        /\ phase = "evaluate"
    BY <1>0, CalleeIs DEF EvalEnter, Enter, Walking, files, runs
  <1>2. \A y \in Module : \A i \in 1..Len(async_parent_modules[y]) : Pending(y, i)' => Pending(y, i)
    BY <1>1 DEF Pending
  <1>3. \A q : Out(q)' \subseteq Out(q)
    BY <1>0, <1>1, <1>2, OutShrinks
  <1>4. Out(c) = {}
    <2> SUFFICES ASSUME NEW w \in Out(c) PROVE FALSE
      OBVIOUS
    <2>1. w[1] \in Module /\ w[2] \in 1..Len(async_parent_modules[w[1]]) /\ async_parent_modules[w[1]][w[2]] = c
      BY DEF Out
    <2>2. Waits(c, w[1])
      BY <1>0, <2>1, ListedIs
    <2> QED BY <1>0, <1>1, <2>1, <2>2 DEF WaitInv, Ended
  <1>5. /\ \A q \in Module : q # c => status'[q] = status[q]
        /\ \A q \in Module : q # c => pending_async_dependencies'[q] = pending_async_dependencies[q]
        /\ pending_async_dependencies'[c] = 0
    <2>1. status \in [Module -> Status] /\ pending_async_dependencies \in [Module -> Int]
      BY <1>0 DEF TypeOK
    <2>2. \A q \in Module : q # c => status'[q] = status[q]
      BY <1>1, <2>1
    <2>3. /\ \A q \in Module : q # c => pending_async_dependencies'[q] = pending_async_dependencies[q]
          /\ pending_async_dependencies'[c] = 0
      BY <1>1, <2>1
    <2> QED BY <2>2, <2>3
  <1> SUFFICES ASSUME NEW q \in Module
               PROVE  /\ IsFiniteSet(Out(q))'
                      /\ status'[q] \in {"EVALUATING"} \cup Ended => Cardinality(Out(q))' <= pending_async_dependencies'[q]
                      /\ body'[q] # "unrun" \/ q \in exec_list' => pending_async_dependencies'[q] = 0
    BY DEF OutInv
  <1>6. CASE q = c
    <2>1. Out(q)' = {}
      BY <1>3, <1>4, <1>6
    <2>2. IsFiniteSet(Out(q)') /\ Cardinality(Out(q)') = 0
      BY <2>1, FS_EmptySet
    <2> QED BY <1>5, <1>6, <2>2
  <1>7. CASE q # c
    <2>1. /\ IsFiniteSet(Out(q))
          /\ status[q] \in {"EVALUATING"} \cup Ended => Cardinality(Out(q)) <= pending_async_dependencies[q]
          /\ body[q] # "unrun" \/ q \in exec_list => pending_async_dependencies[q] = 0
          /\ pending_async_dependencies[q] \in Int
      BY <1>0 DEF OutInv, TypeOK
    <2>2. /\ IsFiniteSet(Out(q)')
          /\ Cardinality(Out(q)) <= pending_async_dependencies[q] => Cardinality(Out(q)') <= pending_async_dependencies[q]
      BY <1>3, <2>1, Fewer
    <2> QED BY <1>1, <1>5, <1>7, <2>1, <2>2
  <1> QED BY <1>6, <1>7

\* Listing a waiter counts it
LEMMA OutRequired ==
  ASSUME IInv, TypeOK', EvalRequired PROVE OutInv'
  <1> SUFFICES ASSUME NEW m1, m1 = Representative(Callee), NEW t, t = This PROVE OutInv'
    OBVIOUS
  <1>0. TypeOK /\ FrameInv /\ OutInv /\ WaitInv /\ \A x \in Module : StateOf(x)
    BY DEF IInv, AsyncInv, StateInv
  <1>1. /\ UNCHANGED <<eval_has_exception, exec_list, body, has_tla, phase, status>>
        /\ phase = "evaluate" /\ calls # <<>>
    BY DEF EvalRequired, files, runs
  <1>2. /\ t \in Module /\ body[t] = "unrun" /\ t \notin exec_list
    BY <1>1, ThisIs
  <1>3. m1 \in Module
    BY RequiredIs
  <1>4. CASE ~async_evaluation[m1]
    <2>1. UNCHANGED <<async_parent_modules, pending_async_dependencies>>
      BY <1>4, RequiredWaits
    <2> QED BY <1>0, <1>1, <2>1, PendingKeeps
  <1>5. CASE async_evaluation[m1]
    <2> DEFINE n == Len(async_parent_modules[m1]) + 1
    <2>1. /\ \A y \in Module : y # m1 => async_parent_modules'[y] = async_parent_modules[y]
          /\ Len(async_parent_modules'[m1]) = n
          /\ Len(async_parent_modules[m1]) \in Nat
          /\ async_parent_modules'[m1][n] = t
          /\ \A i \in 1..Len(async_parent_modules[m1]) :
                async_parent_modules'[m1][i] = async_parent_modules[m1][i]
          /\ pending_async_dependencies'[t] = pending_async_dependencies[t] + 1
          /\ \A x \in Module : x # t => pending_async_dependencies'[x] = pending_async_dependencies[x]
      BY <1>5, RequiredWaits
    <2>2. \A i \in 1..n : i = n \/ i \in 1..Len(async_parent_modules[m1])
      BY <2>1
    <2> HIDE DEF n
    <2>3. \A y \in Module : \A i : Pending(y, i)' <=> Pending(y, i)
      BY <1>1 DEF Pending
    <2>4. ASSUME NEW q, NEW w \in Out(q)' PROVE w \in Out(q) \/ (w = <<m1, n>> /\ q = t)
      <3>1. /\ w \in Module \X Nat /\ w[2] \in 1..Len(async_parent_modules'[w[1]])
            /\ async_parent_modules'[w[1]][w[2]] = q /\ Pending(w[1], w[2])'
        BY <2>4 DEF Out
      <3>2. w[1] \in Module /\ Pending(w[1], w[2]) /\ w = <<w[1], w[2]>>
        BY <2>3, <3>1
      <3>3. CASE w[1] # m1
        BY <2>1, <3>1, <3>2, <3>3 DEF Out
      <3>4. CASE w[1] = m1 /\ w[2] # n
        <4>1. w[2] \in 1..Len(async_parent_modules[w[1]])
          BY <2>1, <2>2, <3>1, <3>4
        <4> QED BY <2>1, <3>1, <3>2, <3>4, <4>1 DEF Out
      <3>5. CASE w[1] = m1 /\ w[2] = n
        BY <2>1, <3>1, <3>2, <3>5
      <3> QED BY <3>3, <3>4, <3>5
    <2> SUFFICES ASSUME NEW q \in Module
                 PROVE  /\ IsFiniteSet(Out(q))'
                        /\ status'[q] \in {"EVALUATING"} \cup Ended => Cardinality(Out(q))' <= pending_async_dependencies'[q]
                        /\ body'[q] # "unrun" \/ q \in exec_list' => pending_async_dependencies'[q] = 0
      BY DEF OutInv
    <2>5. /\ IsFiniteSet(Out(q))
          /\ status[q] \in {"EVALUATING"} \cup Ended => Cardinality(Out(q)) <= pending_async_dependencies[q]
          /\ body[q] # "unrun" \/ q \in exec_list => pending_async_dependencies[q] = 0
          /\ pending_async_dependencies[q] \in Int
      BY <1>0 DEF OutInv, TypeOK
    <2>6. CASE q = t
      <3> DEFINE S == Out(q) \cup {<<m1, n>>}
      <3>1. IsFiniteSet(S) /\ Cardinality(S) \in Nat /\ Cardinality(Out(q)) \in Nat
            /\ (Cardinality(S) = Cardinality(Out(q)) \/ Cardinality(S) = Cardinality(Out(q)) + 1)
        BY <2>5, FS_AddElement, FS_CardinalityType
      <3>2. Out(q)' \subseteq S
        BY <2>4
      <3> HIDE DEF S
      <3>3. /\ IsFiniteSet(Out(q)')
            /\ \A k \in Int : Cardinality(S) <= k => Cardinality(Out(q)') <= k
        BY <3>1, <3>2, Fewer
      <3>4. Cardinality(Out(q)) <= pending_async_dependencies[q] => Cardinality(S) <= pending_async_dependencies[q] + 1
        BY <2>5, <3>1
      <3>5. pending_async_dependencies[q] + 1 \in Int
        BY <2>5
      <3> QED BY <1>1, <1>2, <2>1, <2>5, <2>6, <3>3, <3>4, <3>5
    <2>7. CASE q # t
      <3>1. Out(q)' \subseteq Out(q)
        BY <2>4, <2>7
      <3>2. /\ IsFiniteSet(Out(q)')
            /\ Cardinality(Out(q)) <= pending_async_dependencies[q] => Cardinality(Out(q)') <= pending_async_dependencies[q]
        BY <2>5, <3>1, Fewer
      <3> QED BY <1>1, <2>1, <2>5, <2>7, <3>2
    <2> QED BY <2>6, <2>7
  <1> QED BY <1>4, <1>5

\* gather_available_ancestors counts one entry, and passes it
LEMMA OutGather ==
  ASSUME IInv, TypeOK', GatherParent PROVE OutInv' /\ ExecInv' /\ GatherInv'
  <1> SUFFICES ASSUME NEW p, p = Parent, NEW t, t = This, NEW n, n = Next1 PROVE OutInv' /\ ExecInv' /\ GatherInv'
    OBVIOUS
  <1>0. TypeOK /\ FrameInv /\ OutInv /\ WaitInv /\ ExecInv /\ GatherInv /\ \A x \in Module : StateOf(x)
    BY DEF IInv, AsyncInv, StateInv
  <1>1. /\ UNCHANGED <<eval_has_exception, body, has_tla, phase, status, async_evaluation, async_parent_modules>>
        /\ phase = "gather" /\ calls # <<>> /\ ~AllParents
    BY DEF GatherParent, files, runs
  <1>T. \A y \in Module : \A i \in 1..Len(async_parent_modules[y]) : i \in Nat \ {0}
    BY <1>0, ListedIs
  <1>2. CASE PassedOver(p)
    <2>1. /\ calls' = Advance(calls) /\ UNCHANGED <<pending_async_dependencies, exec_list>>
      BY <1>2 DEF GatherParent
    <2>2. /\ Called' = Called
          /\ \A y : \A i \in Nat : ~Passed(y, i)' => ~Passed(y, i)
      BY <1>0, <1>1, <2>1, PassOne
    <2>3. \A y \in Module : \A i \in 1..Len(async_parent_modules[y]) : Pending(y, i)' => Pending(y, i)
      BY <1>1, <1>T, <2>1, <2>2 DEF Pending
    <2>4. \A q : Out(q)' \subseteq Out(q)
      BY <1>0, <1>1, <2>3, OutShrinks
    <2>5. OutInv'
      BY <1>0, <1>1, <2>1, <2>4, OutKeeps
    <2>6. ExecInv'
      BY <1>0, <1>1, <2>1 DEF ExecInv
    <2>7. GatherInv'
      <3>1. Len(calls') = Len(calls) /\ \A k \in 1..Len(calls) : calls'[k].mod = calls[k].mod
        <4>1. calls \in Seq(Frame)
          BY <1>0 DEF TypeOK
        <4> QED BY <1>1, <2>1, <4>1, AdvanceIs
      <3> QED BY <1>0, <1>1, <2>1, <3>1 DEF GatherInv
    <2> QED BY <2>5, <2>6, <2>7
  <1>3. CASE ~PassedOver(p)
    <2>0. /\ p \in Module /\ t \in Module /\ n \in 1..Len(async_parent_modules[t])
          /\ p = async_parent_modules[t][n] /\ t \in Called /\ ~Passed(t, n) /\ <<t, n>> \in Out(p)
          /\ p \notin exec_list /\ ~eval_has_exception[p] /\ body[p] = "unrun"
          /\ pending_async_dependencies[p] \in Int /\ pending_async_dependencies[p] > 0
          /\ p \notin Called /\ status[p] = "EVALUATING_ASYNC" /\ async_evaluation[p]
          /\ \A k \in 1..Len(calls) : calls[k].mod = t => k = 1
          /\ \A k, l \in 1..Len(calls) : calls[k].mod = calls[l].mod => k = l
          /\ n \in Nat \ {0}
      BY <1>1, <1>3, GatherIs
    <2> DEFINE last == pending_async_dependencies[p] = 1
    <2>1. /\ pending_async_dependencies' = [pending_async_dependencies EXCEPT ![p] = @ - 1]
          /\ exec_list' = IF last THEN exec_list \cup {p} ELSE exec_list
          /\ calls' = IF last /\ p \notin has_tla
                      THEN <<[mod |-> p, next |-> 1]>> \o Advance(calls)
                      ELSE Advance(calls)
      BY <1>3 DEF GatherParent
    <2>2. /\ pending_async_dependencies'[p] = pending_async_dependencies[p] - 1
          /\ \A q \in Module : q # p => pending_async_dependencies'[q] = pending_async_dependencies[q]
      <3>1. pending_async_dependencies \in [Module -> Int]
        BY <1>0 DEF TypeOK
      <3> QED BY <2>0, <2>1, <3>1
    <2>3. /\ Called \subseteq Called' /\ Called' \subseteq Called \cup {p}
          /\ \A y : y # p => \A i \in Nat : ~Passed(y, i)' => ~Passed(y, i)
          /\ Passed(t, n)' /\ p # t
          /\ p \in Called' => p \notin has_tla /\ last
      <3>0. p # t
        BY <2>0
      <3>1. CASE calls' = Advance(calls)
        BY <1>0, <1>1, <2>0, <3>0, <3>1, PassOne
      <3>2. CASE calls' = <<[mod |-> p, next |-> 1]>> \o Advance(calls) /\ last /\ p \notin has_tla
        BY <1>0, <1>1, <2>0, <3>0, <3>2, PassPush
      <3> QED BY <2>1, <3>1, <3>2
    <2>4. \A y \in Module : \A i \in 1..Len(async_parent_modules[y]) : Pending(y, i)' => Pending(y, i)
      <3> SUFFICES ASSUME NEW y \in Module, NEW i \in 1..Len(async_parent_modules[y]), Pending(y, i)'
                   PROVE  Pending(y, i)
        OBVIOUS
      <3>0. i \in Nat
        BY <1>T
      <3>1. CASE y = p
        BY <1>1, <2>0, <3>1 DEF Pending
      <3>2. CASE y # p /\ y \in Called
        BY <1>1, <2>3, <3>0, <3>2 DEF Pending
      <3>3. CASE y # p /\ y \notin Called
        <4>1. y \notin Called' /\ (y \in exec_list => y \in exec_list')
          BY <2>1, <2>3, <3>3
        <4> QED BY <1>1, <3>3, <4>1 DEF Pending
      <3> QED BY <3>1, <3>2, <3>3
    <2>5. \A q : Out(q)' \subseteq Out(q)
      BY <1>0, <1>1, <2>4, OutShrinks
    <2>6. <<t, n>> \notin Out(p)'
      <3> SUFFICES ASSUME <<t, n>> \in Out(p)' PROVE FALSE
        OBVIOUS
      <3>1. Pending(t, n)'
        <4>1. <<t, n>>[1] = t /\ <<t, n>>[2] = n
          OBVIOUS
        <4>2. Pending(<<t, n>>[1], <<t, n>>[2])'
          BY DEF Out
        <4> QED BY <4>1, <4>2
      <3> QED BY <1>1, <2>0, <2>3, <3>1 DEF Pending
    <2>7. OutInv'
      <3> SUFFICES ASSUME NEW q \in Module
                   PROVE  /\ IsFiniteSet(Out(q))'
                          /\ status'[q] \in {"EVALUATING"} \cup Ended => Cardinality(Out(q))' <= pending_async_dependencies'[q]
                          /\ body'[q] # "unrun" \/ q \in exec_list' => pending_async_dependencies'[q] = 0
        BY DEF OutInv
      <3>1. /\ IsFiniteSet(Out(q))
            /\ status[q] \in {"EVALUATING"} \cup Ended => Cardinality(Out(q)) <= pending_async_dependencies[q]
            /\ body[q] # "unrun" \/ q \in exec_list => pending_async_dependencies[q] = 0
            /\ pending_async_dependencies[q] \in Int
        BY <1>0 DEF OutInv, TypeOK
      <3>2. CASE q = p
        <4>1. /\ IsFiniteSet(Out(q)')
              /\ Cardinality(Out(q)) <= pending_async_dependencies[q] =>
                   Cardinality(Out(q)') <= pending_async_dependencies[q] - 1
          <5>1. Out(q)' \subseteq Out(q) /\ \E x \in Out(q) : x \notin Out(q)'
            BY <2>0, <2>5, <2>6, <3>2
          <5> QED BY <3>1, <5>1, Fewer
        <4>2. body'[q] # "unrun" \/ q \in exec_list' => pending_async_dependencies'[q] = 0
          <5>1. q \in exec_list' => last
            BY <2>0, <2>1, <3>2
          <5>2. last => pending_async_dependencies'[p] = 0
            BY <2>2
          <5> QED BY <1>1, <2>0, <3>2, <5>1, <5>2
        <4> QED BY <1>1, <2>2, <3>1, <3>2, <4>1, <4>2
      <3>3. CASE q # p
        <4>1. /\ IsFiniteSet(Out(q)')
              /\ Cardinality(Out(q)) <= pending_async_dependencies[q] => Cardinality(Out(q)') <= pending_async_dependencies[q]
          BY <2>5, <3>1, Fewer
        <4>2. q \in exec_list' => q \in exec_list
          BY <2>1, <3>3
        <4> QED BY <1>1, <2>2, <3>1, <3>3, <4>1, <4>2
      <3> QED BY <3>2, <3>3
    <2>8. ExecInv'
      <3>1. \A q \in exec_list' : q \in exec_list \/ q = p
        BY <2>1
      <3> QED BY <1>0, <1>1, <2>0, <3>1 DEF ExecInv, Ended
    <2>9. GatherInv'
      <3>0. \A x \in Called : /\ IF x \in has_tla THEN body[x] = "done" ELSE x \in exec_list
                              /\ ~eval_has_exception[x]
        BY <1>0, <1>1 DEF GatherInv, Called
      <3>1. \A x \in Called' : /\ IF x \in has_tla' THEN body'[x] = "done" ELSE x \in exec_list'
                               /\ ~eval_has_exception'[x]
        <4> SUFFICES ASSUME NEW x \in Called'
                     PROVE  (IF x \in has_tla THEN body[x] = "done" ELSE x \in exec_list') /\ ~eval_has_exception[x]
          BY <1>1
        <4>1. CASE x = p
          BY <2>0, <2>1, <2>3, <4>1
        <4>2. CASE x # p
          <5>1. x \in Called /\ (x \in exec_list => x \in exec_list')
            BY <2>1, <2>3, <4>2
          <5> QED BY <3>0, <5>1
        <4> QED BY <4>1, <4>2
      <3>2. \A k, l \in 1..Len(calls') : calls'[l].mod = calls'[k].mod => l = k
        <4>1. CASE calls' = Advance(calls)
          <5>1. Len(calls') = Len(calls) /\ \A k \in 1..Len(calls) : calls'[k].mod = calls[k].mod
            <6>1. calls \in Seq(Frame)
              BY <1>0 DEF TypeOK
            <6> QED BY <1>1, <4>1, <6>1, AdvanceIs
          <5> QED BY <2>0, <5>1
        <4>2. CASE calls' = <<[mod |-> p, next |-> 1]>> \o Advance(calls)
          BY <1>0, <1>1, <2>0, <4>2, PassPush
        <4> QED BY <2>1, <4>1, <4>2
      <3> QED BY <3>1, <3>2 DEF GatherInv, Called
    <2> QED BY <2>7, <2>8, <2>9
  <1> QED BY <1>2, <1>3

\* A call that returns has passed all its entries
LEMMA OutReturn ==
  ASSUME IInv, TypeOK', GatherReturn PROVE OutInv' /\ ExecInv' /\ GatherInv'
  <1> SUFFICES ASSUME NEW t, t = This PROVE OutInv' /\ ExecInv' /\ GatherInv'
    OBVIOUS
  <1>0. TypeOK /\ FrameInv /\ OutInv /\ ExecInv /\ GatherInv
    BY DEF IInv, AsyncInv, StateInv
  <1>1. /\ UNCHANGED <<eval_has_exception, body, has_tla, status, async_evaluation, async_parent_modules,
                       pending_async_dependencies, exec_list>>
        /\ phase = "gather" /\ AllParents /\ calls' = Tail(calls)
        /\ phase' = IF Tail(calls) = <<>> THEN "exec" ELSE phase
    BY DEF GatherReturn, files, runs, waits
  <1>2. \A k, l \in 1..Len(calls) : calls[l].mod = calls[k].mod => l = k
    BY <1>0, <1>1 DEF GatherInv
  <1>3. t = calls[1].mod /\ 1 \in 1..Len(calls)
    BY <1>0, <1>1, CallIs DEF FrameInv
  <1>4. \A k \in 1..Len(calls) : calls[k].mod = t => k = 1
    BY <1>2, <1>3
  <1>5. /\ calls # <<>> /\ t \in Called /\ t \in Module
        /\ Called' \subseteq Called /\ Called \subseteq Called' \cup {t}
        /\ \A y : \A i \in Nat : ~Passed(y, i)' => ~Passed(y, i)
        /\ t \notin Called'
        /\ \A k \in 1..Len(calls') : calls'[k] = calls[k + 1] /\ k + 1 \in 1..Len(calls)
    BY <1>0, <1>1, <1>4, PassReturn
  <1>6. \A y : y \in Called' => phase' = "gather"
    <2> SUFFICES ASSUME NEW y \in Called' PROVE phase' = "gather"
      OBVIOUS
    <2>1. calls' # <<>>
      <3> SUFFICES ASSUME calls' = <<>> PROVE FALSE
        OBVIOUS
      <3>1. Len(calls') = 0
        OBVIOUS
      <3>2. 1..Len(calls') = {}
        BY <3>1
      <3> QED BY <3>2 DEF Called
    <2> QED BY <1>1, <2>1
  <1>7. \A x \in Called : /\ IF x \in has_tla THEN body[x] = "done" ELSE x \in exec_list
                          /\ ~eval_has_exception[x]
    BY <1>0, <1>1 DEF GatherInv, Called
  <1>8. \A y \in Module : \A i \in 1..Len(async_parent_modules[y]) : Pending(y, i)' => Pending(y, i)
    <2> SUFFICES ASSUME NEW y \in Module, NEW i \in 1..Len(async_parent_modules[y]), Pending(y, i)'
                 PROVE  Pending(y, i)
      OBVIOUS
    <2>0. i \in Nat
      BY <1>0, ListedIs
    <2>1. CASE y = t
      BY <1>1, <1>5, <1>7, <2>1 DEF Pending
    <2>2. CASE y # t /\ y \in Called
      BY <1>1, <1>5, <1>6, <2>0, <2>2 DEF Pending
    <2>3. CASE y # t /\ y \notin Called
      BY <1>1, <1>5, <2>3 DEF Pending
    <2> QED BY <2>1, <2>2, <2>3
  <1>9. \A q : Out(q)' \subseteq Out(q)
    BY <1>0, <1>1, <1>8, OutShrinks
  <1>10. OutInv'
    BY <1>0, <1>1, <1>9, OutKeeps
  <1>11. ExecInv'
    BY <1>0, <1>1 DEF ExecInv
  <1>12. GatherInv'
    <2>1. \A k, l \in 1..Len(calls') : calls'[l].mod = calls'[k].mod => l = k
      <3> SUFFICES ASSUME NEW k \in 1..Len(calls'), NEW l \in 1..Len(calls'), calls'[l].mod = calls'[k].mod
                   PROVE  l = k
        OBVIOUS
      <3>1. l + 1 = k + 1
        BY <1>2, <1>5
      <3> QED BY <3>1
    <2>2. \A k \in 1..Len(calls') : calls'[k].mod \in Called
      BY <1>5 DEF Called
    <2> QED BY <1>1, <1>7, <2>1, <2>2 DEF GatherInv
  <1> QED BY <1>10, <1>11, <1>12

\* A body that ends after an await has all its entries pending, in the call that starts
LEMMA OutFulfilled ==
  ASSUME IInv, TypeOK', NEW m \in Module, Fulfilled(m) PROVE OutInv' /\ ExecInv' /\ GatherInv'
  <1>0. TypeOK /\ FrameInv /\ OutInv /\ ExecInv /\ GatherInv /\ \A x \in Module : StateOf(x)
    BY DEF IInv, AsyncInv, StateInv
  <1>1. /\ UNCHANGED <<eval_has_exception, has_tla, async_parent_modules, pending_async_dependencies, exec_list>>
        /\ phase = "idle" /\ body[m] = "running" /\ body' = [body EXCEPT ![m] = "done"]
        /\ IF GivenUp(m) THEN UNCHANGED <<phase, calls, status, async_evaluation>>
           ELSE /\ status' = [status EXCEPT ![m] = "EVALUATED"]
                /\ phase' = "gather" /\ calls' = <<[mod |-> m, next |-> 1]>>
    BY DEF Fulfilled, SetEvaluated, files
  <1>2. exec_list = {} /\ ~Walking
    BY <1>1, ExecEmpty DEF Walking
  <1>3. status[m] \in Ended
    BY <1>1, <1>2, Quiet
  <1>4. /\ body'[m] = "done" /\ \A x \in Module : x # m => body'[x] = body[x]
    BY <1>0, <1>1 DEF TypeOK
  <1>5. \A x \in Module : status'[x] \in {"EVALUATING"} \cup Ended => status[x] \in {"EVALUATING"} \cup Ended
    <2>1. status \in [Module -> Status]
      BY <1>0 DEF TypeOK
    <2>2. status' = status \/ status' = [status EXCEPT ![m] = "EVALUATED"]
      BY <1>1
    <2>3. \A x \in Module : x # m => status'[x] = status[x]
      BY <2>1, <2>2
    <2> QED BY <1>3, <2>3
  <1>6. ExecInv'
    BY <1>1, <1>2 DEF ExecInv
  <1>7. CASE GivenUp(m)
    <2>1. \A y \in Module : body[y] = "done" => body'[y] = "done"
      BY <1>4
    <2>2. \A q \in Module : body'[q] # "unrun" => body[q] # "unrun"
      BY <1>1, <1>4
    <2>3. OutInv'
      BY <1>0, <1>1, <1>5, <1>7, <2>1, <2>2, PendingKeeps
    <2>4. GatherInv'
      BY <1>1, <1>7 DEF GatherInv
    <2> QED BY <1>6, <2>3, <2>4
  <1>8. CASE ~GivenUp(m)
    <2>1. status[m] = "EVALUATING_ASYNC"
      BY <1>3, <1>8 DEF GivenUp, Ended
    <2>2. ~eval_has_exception[m] /\ m \in has_tla
      BY <1>0, <1>1, <2>1 DEF StateOf
    <2>3. /\ phase' = "gather" /\ calls' = <<[mod |-> m, next |-> 1]>>
      BY <1>1, <1>8
    <2>4. /\ Called' = {m} /\ \A k \in 1..Len(calls') : k = 1 /\ calls'[k].mod = m
      BY <2>3, PassStart
    <2>5. \A y \in Module : \A i \in 1..Len(async_parent_modules[y]) : Pending(y, i)' => Pending(y, i)
      <3> SUFFICES ASSUME NEW y \in Module, NEW i \in 1..Len(async_parent_modules[y]), Pending(y, i)'
                   PROVE  Pending(y, i)
        OBVIOUS
      <3>1. CASE y = m
        BY <1>1, <1>2, <2>2, <3>1 DEF Pending
      <3>2. CASE y # m
        BY <1>1, <1>2, <1>4, <2>4, <3>2 DEF Pending
      <3> QED BY <3>1, <3>2
    <2>6. \A q : Out(q)' \subseteq Out(q)
      BY <1>0, <1>1, <2>5, OutShrinks
    <2>7. \A q \in Module : body'[q] # "unrun" => body[q] # "unrun"
      BY <1>1, <1>4
    <2>8. OutInv'
      BY <1>0, <1>1, <1>5, <2>6, <2>7, OutKeeps
    <2>9. GatherInv'
      BY <1>1, <1>4, <2>2, <2>4 DEF GatherInv
    <2> QED BY <1>6, <2>8, <2>9
  <1> QED BY <1>7, <1>8

\* The counts, and what is collected, are right after every step.
LEMMA OutNext == IInv /\ [Next]_vars => OutInv' /\ ExecInv' /\ GatherInv'
  <1> SUFFICES ASSUME IInv, [Next]_vars PROVE OutInv' /\ ExecInv' /\ GatherInv'
    OBVIOUS
  <1>0. TypeOK /\ FrameInv /\ TypeOK' /\ StackInv /\ ExecInv /\ OutInv /\ GatherInv
        /\ \A x \in Module : StateOf(x)
    BY TypeNext DEF IInv, StateInv, WalkInv, AsyncInv
  <1>1. CASE Calm
    <2>1. /\ UNCHANGED <<async_parent_modules, eval_has_exception, exec_list, body, async_evaluation,
                          pending_async_dependencies, has_tla>>
          /\ phase # "gather" /\ phase' # "gather"
          /\ \A x \in Module : status'[x] \in {"EVALUATING"} \cup Ended <=> status[x] \in {"EVALUATING"} \cup Ended
          /\ \A x \in Module : status'[x] \in Ended <=> status[x] \in Ended
      BY <1>0, <1>1, CalmIs DEF Reacting
    <2>2. OutInv'
      BY <1>0, <2>1, PendingKeeps
    <2>3. exec_list \subseteq Module
      BY <1>0 DEF TypeOK
    <2> QED BY <1>0, <2>1, <2>2, <2>3 DEF ExecInv, GatherInv
  <1>2. CASE EvalEnter \/ EvalRequired
    <2>1. phase = "evaluate" /\ phase' = "evaluate" /\ exec_list' = exec_list
      BY <1>2 DEF EvalEnter, EvalRequired, Enter
    <2>2. exec_list' = {}
      BY <2>1, ExecEmpty
    <2> QED BY <1>0, <1>2, <2>1, <2>2, OutEnter, OutRequired DEF ExecInv, GatherInv
  <1>3. CASE EvalFail \/ EvalThrow
    <2> SUFFICES ASSUME NEW t, t = This PROVE OutInv' /\ ExecInv' /\ GatherInv'
      OBVIOUS
    <2>1. /\ eval_has_exception' = [m \in Module |-> m \in On \/ eval_has_exception[m]]
          /\ status' = [m \in Module |-> IF m \in On THEN "EVALUATED" ELSE status[m]]
          /\ UNCHANGED <<async_parent_modules, has_tla, pending_async_dependencies, exec_list>>
          /\ phase = "evaluate" /\ Walking /\ phase' = "idle"
      BY <1>3 DEF EvalFail, EvalThrow, Unwind, On, Walking, waits, Idle, files
    <2>2. \A x \in Module : x \in On => status[x] = "EVALUATING"
      BY <1>0, <2>1 DEF StackInv, OnStack
    <2>3. \A x \in Module : body'[x] = body[x] \/ (x = t /\ body[t] = "unrun" /\ pending_async_dependencies[t] = 0)
      <3>1. CASE EvalFail
        BY <3>1 DEF EvalFail, runs
      <3>2. CASE EvalThrow
        <4>1. calls # <<>> /\ phase = "evaluate" /\ Starts(t) /\ body' = [body EXCEPT ![t] = "threw"]
          BY <3>2 DEF EvalThrow, AllRequired, Run
        <4>2. t \in Module /\ body[t] = "unrun"
          BY <4>1, ThisIs
        <4>3. \A x \in Module : x # t => body'[x] = body[x]
          BY <1>0, <4>1, <4>2 DEF TypeOK
        <4> QED BY <4>1, <4>2, <4>3 DEF Starts
      <3> QED BY <1>3, <3>1, <3>2
    <2>4. exec_list = {}
      BY <2>1, ExecEmpty
    <2>5. OutInv'
      <3>1. \A q \in Module : status'[q] \in {"EVALUATING"} \cup Ended => status[q] \in {"EVALUATING"} \cup Ended
        BY <2>1, <2>2
      <3>2. \A y \in Module : eval_has_exception[y] => eval_has_exception'[y]
        BY <2>1
      <3>3. \A y \in Module : body[y] = "done" => body'[y] = "done"
        BY <2>3
      <3>4. \A q \in Module : body'[q] # "unrun" \/ q \in exec_list' =>
              body[q] # "unrun" \/ q \in exec_list \/ pending_async_dependencies[q] = 0
        BY <2>1, <2>3
      <3> QED BY <1>0, <2>1, <2>4, <3>1, <3>2, <3>3, <3>4, PendingKeeps
    <2> QED BY <2>1, <2>4, <2>5 DEF ExecInv, GatherInv
  <1>4. CASE EvalDone
    <2> SUFFICES ASSUME NEW t, t = This PROVE OutInv' /\ ExecInv' /\ GatherInv'
      OBVIOUS
    <2>1. /\ phase = "evaluate" /\ phase' = "evaluate" /\ calls # <<>> /\ Walking
          /\ UNCHANGED <<eval_has_exception, async_parent_modules, has_tla, pending_async_dependencies, exec_list>>
          /\ status' = [m \in Module |-> IF m \notin Popped(t) THEN status[m]
                                   ELSE IF async_evaluation'[m] THEN "EVALUATING_ASYNC"
                                   ELSE "EVALUATED"]
      BY <1>4 DEF EvalDone, Walking, AllRequired, files
    <2>2. /\ t \in Module /\ body[t] = "unrun"
      BY <2>1, ThisIs
    <2>3. body' = body \/ (Starts(t) /\ \E o \in {"running", "done"} : body' = [body EXCEPT ![t] = o])
      BY <1>4 DEF EvalDone, Run, runs
    <2>4. /\ \A x \in Module : x # t => body'[x] = body[x]
          /\ body' = body \/ pending_async_dependencies[t] = 0
      BY <1>0, <2>2, <2>3 DEF TypeOK, Starts
    <2>5. \A x \in Popped(t) : x \in On
      BY <1>0, <1>4, EvalDoneIs DEF DoneStep
    <2>6. \A x \in On : status[x] = "EVALUATING"
      BY <1>0, <2>1 DEF StackInv, OnStack
    <2>7. exec_list = {}
      BY <2>1, ExecEmpty
    <2>8. OutInv'
      <3>1. \A q \in Module : status'[q] \in {"EVALUATING"} \cup Ended => status[q] \in {"EVALUATING"} \cup Ended
        BY <2>1, <2>5, <2>6
      <3>3. \A y \in Module : body[y] = "done" => body'[y] = "done"
        BY <2>2, <2>4
      <3>4. \A q \in Module : body'[q] # "unrun" \/ q \in exec_list' =>
              body[q] # "unrun" \/ q \in exec_list \/ pending_async_dependencies[q] = 0
        BY <2>1, <2>4
      <3> QED BY <1>0, <2>1, <2>7, <3>1, <3>3, <3>4, PendingKeeps
    <2> QED BY <2>1, <2>7, <2>8 DEF ExecInv, GatherInv
  <1>5. CASE GatherParent \/ GatherReturn
    BY <1>0, <1>5, OutGather, OutReturn
  <1>6. CASE RejectParent \/ RejectReturn
    <2>1. /\ UNCHANGED <<body, async_parent_modules, has_tla, pending_async_dependencies, exec_list, async_evaluation>>
          /\ phase = "reject" /\ phase' \in {"reject", "exec"} /\ ~Walking
      BY <1>6 DEF RejectParent, RejectReturn, waits, runs, files, Walking
    <2>2. /\ \A y \in Module : eval_has_exception[y] => eval_has_exception'[y]
          /\ \A q \in Module : status'[q] \in Ended <=> status[q] \in Ended
          /\ \A q \in Module : status'[q] = "EVALUATING" <=> status[q] = "EVALUATING"
      <3>1. Steady /\ ~EvalEnter
        BY <1>6, <2>1 DEF Steady, Reaction, EvalEnter
      <3>2. \A y \in Module : eval_has_exception[y] => eval_has_exception'[y]
        <4>1. \/ eval_has_exception' = eval_has_exception
              \/ eval_has_exception' = [eval_has_exception EXCEPT ![Parent] = TRUE]
          BY <1>6 DEF RejectParent, RejectReturn
        <4>2. eval_has_exception \in [Module -> BOOLEAN]
          BY <1>0 DEF TypeOK
        <4> QED BY <4>1, <4>2
      <3> QED BY <1>0, <3>1, <3>2, SteadyIs
    <2>3. OutInv'
      <3>1. \A q \in Module : status'[q] \in {"EVALUATING"} \cup Ended => status[q] \in {"EVALUATING"} \cup Ended
        BY <2>2
      <3> QED BY <1>0, <2>1, <2>2, <3>1, PendingKeeps
    <2>4. exec_list \subseteq Module
      BY <1>0 DEF TypeOK
    <2> QED BY <1>0, <2>1, <2>2, <2>3, <2>4 DEF ExecInv, GatherInv
  <1>7. ASSUME NEW m \in Module, Fulfilled(m) PROVE OutInv' /\ ExecInv' /\ GatherInv'
    BY <1>0, <1>7, OutFulfilled
  <1>8. ASSUME NEW m \in Module, Rejected(m) PROVE OutInv' /\ ExecInv' /\ GatherInv'
    <2>1. /\ UNCHANGED <<async_parent_modules, has_tla, pending_async_dependencies, exec_list>>
          /\ phase = "idle" /\ phase' \in {"idle", "reject"} /\ body[m] = "running"
          /\ body' = [body EXCEPT ![m] = "threw"]
          /\ \/ eval_has_exception' = eval_has_exception
             \/ eval_has_exception' = [eval_has_exception EXCEPT ![m] = TRUE]
      BY <1>8 DEF Rejected, Reject, waits, files
    <2>2. exec_list = {}
      BY <2>1, ExecEmpty
    <2>3. \A x \in Module : x # m => body'[x] = body[x]
      BY <1>0, <2>1 DEF TypeOK
    <2>4. \A y \in Module : eval_has_exception[y] => eval_has_exception'[y]
      <3>1. eval_has_exception \in [Module -> BOOLEAN]
        BY <1>0 DEF TypeOK
      <3>2. \/ eval_has_exception' = eval_has_exception
            \/ eval_has_exception' = [eval_has_exception EXCEPT ![m] = TRUE]
        BY <2>1
      <3> QED BY <3>1, <3>2
    <2>5. \A q \in Module : status'[q] \in {"EVALUATING"} \cup Ended => status[q] \in {"EVALUATING"} \cup Ended
      <3>1. Steady /\ ~EvalEnter
        BY <1>8, <2>1 DEF Steady, Await, EvalEnter
      <3> QED BY <1>0, <3>1, SteadyIs
    <2>6. \A y \in Module : body[y] = "done" => body'[y] = "done"
      BY <2>1, <2>3
    <2>7. \A q \in Module : body'[q] # "unrun" => body[q] # "unrun"
      BY <2>1, <2>3
    <2>8. OutInv'
      BY <1>0, <2>1, <2>2, <2>4, <2>5, <2>6, <2>7, PendingKeeps
    <2> QED BY <2>1, <2>2, <2>8 DEF ExecInv, GatherInv
  <1>9. ASSUME NEW m \in Module, ExecSkip(m) \/ ExecAsync(m) \/ ExecSync(m) \/ ExecThrow(m)
        PROVE  OutInv' /\ ExecInv' /\ GatherInv'
    <2>1. /\ UNCHANGED <<async_parent_modules, has_tla, pending_async_dependencies, async_evaluation>>
          /\ phase = "exec" /\ phase' \in {"exec", "reject"} /\ m \in exec_list
          /\ exec_list' = exec_list \ {m} /\ ~Walking
      BY <1>9 DEF ExecSkip, ExecAsync, ExecSync, ExecThrow, Reject, waits, files, walk, IsFirst, Walking
    <2>2. body[m] = "unrun" /\ pending_async_dependencies[m] = 0
      BY <1>0, <2>1 DEF ExecInv, OutInv
    <2>3. \/ body' = body
          \/ \E o \in {"running", "done", "threw"} : body' = [body EXCEPT ![m] = o]
      BY <1>9 DEF ExecSkip, ExecAsync, ExecSync, ExecThrow, Run, runs
    <2>4. \A x \in Module : x # m => body'[x] = body[x]
      BY <1>0, <2>3 DEF TypeOK
    <2>5. \/ eval_has_exception' = eval_has_exception
          \/ eval_has_exception' = [eval_has_exception EXCEPT ![m] = TRUE]
      BY <1>9 DEF ExecSkip, ExecAsync, ExecSync, ExecThrow, Reject
    <2>6. \A y \in Module : eval_has_exception[y] => eval_has_exception'[y]
      <3>1. eval_has_exception \in [Module -> BOOLEAN]
        BY <1>0 DEF TypeOK
      <3> QED BY <2>5, <3>1
    <2>7. eval_has_exception'[m] \/ body'[m] = "done" \/ m \in has_tla
      <3>1. CASE ExecSkip(m)
        <4>1. status[m] = "EVALUATED" /\ body' = body /\ eval_has_exception' = eval_has_exception
          BY <3>1 DEF ExecSkip, runs, GivenUp
        <4> QED BY <1>0, <4>1 DEF StateOf
      <3>2. CASE ExecAsync(m)
        BY <3>2 DEF ExecAsync
      <3>3. CASE ExecSync(m)
        BY <1>0, <3>3 DEF ExecSync, Run, TypeOK
      <3>4. CASE ExecThrow(m)
        <4>1. eval_has_exception' = [eval_has_exception EXCEPT ![m] = TRUE]
          BY <3>4 DEF ExecThrow, Reject
        <4> QED BY <1>0, <4>1 DEF TypeOK
      <3> QED BY <1>9, <3>1, <3>2, <3>3, <3>4
    <2>8. /\ \A q \in Module : status'[q] \in Ended <=> status[q] \in Ended
          /\ \A q \in Module : status'[q] = "EVALUATING" <=> status[q] = "EVALUATING"
      <3>1. Steady /\ ~EvalEnter
        BY <1>9, <2>1 DEF Steady, Reaction, EvalEnter
      <3> QED BY <1>0, <3>1, SteadyIs
    <2>9. OutInv'
      <3>1. \A y \in Module : body[y] = "done" => body'[y] = "done"
        BY <2>2, <2>4
      <3>2. \A y \in exec_list : y \in exec_list' \/ eval_has_exception'[y] \/ body'[y] = "done" \/ y \in has_tla
        BY <2>1, <2>7
      <3>3. \A q \in Module : body'[q] # "unrun" \/ q \in exec_list' =>
              body[q] # "unrun" \/ q \in exec_list \/ pending_async_dependencies[q] = 0
        BY <2>1, <2>2, <2>4
      <3>4. \A q \in Module : status'[q] \in {"EVALUATING"} \cup Ended => status[q] \in {"EVALUATING"} \cup Ended
        BY <2>8
      <3>5. phase # "gather" /\ phase' # "gather"
            /\ UNCHANGED <<async_parent_modules, has_tla, pending_async_dependencies>>
        BY <2>1
      <3> QED BY <1>0, <2>6, <3>1, <3>2, <3>3, <3>4, <3>5, PendingKeeps
    <2>10. ExecInv'
      <3> SUFFICES ASSUME NEW q \in exec_list' PROVE body'[q] = "unrun" /\ status'[q] \in Ended /\ async_evaluation'[q]
        BY DEF ExecInv
      <3>1. q \in exec_list /\ q # m /\ q \in Module
        BY <1>0, <2>1 DEF TypeOK
      <3>2. body[q] = "unrun" /\ status[q] \in Ended /\ async_evaluation[q]
        BY <1>0, <3>1 DEF ExecInv
      <3> QED BY <2>1, <2>4, <2>8, <3>1, <3>2
    <2> QED BY <2>1, <2>9, <2>10 DEF GatherInv
  <1>10. CASE UNCHANGED vars
    <2>1. UNCHANGED <<phase, calls, eval_has_exception, async_parent_modules, body, exec_list, has_tla,
                      pending_async_dependencies, status, async_evaluation>>
      BY <1>10 DEF vars, walk, waits, files, runs
    <2>2. OutInv'
      <3>1. \A y, i : Pending(y, i)' <=> Pending(y, i)
        BY <2>1 DEF Pending, Passed, Called
      <3>2. \A q : Out(q)' \subseteq Out(q)
        BY <1>0, <2>1, <3>1, OutShrinks
      <3> QED BY <1>0, <2>1, <3>2, OutKeeps
    <2> QED BY <1>0, <2>1, <2>2 DEF ExecInv, GatherInv
  <1> QED BY <1>1, <1>2, <1>3, <1>4, <1>5, <1>6, <1>7, <1>8, <1>9, <1>10, Steps
----------------------------------------------------------------------------
(* Who waits in a cycle *)

\* The modules on the stack are told apart by dfs_index
LEMMA Apart ==
  ASSUME IInv, NEW x \in On, NEW y \in On, dfs_index[x] = dfs_index[y]
  PROVE  x = y
  <1>0. TypeOK /\ StackInv
    BY DEF IInv, WalkInv
  <1>1. PICK i \in 1..Len(stack) : stack[i] = x
    BY <1>0, OnIs
  <1>2. PICK j \in 1..Len(stack) : stack[j] = y
    BY <1>0, OnIs
  <1>3. \A k, l \in 1..Len(stack) : k < l => dfs_index[stack[k]] # dfs_index[stack[l]]
    <2> SUFFICES ASSUME NEW k \in 1..Len(stack), NEW l \in 1..Len(stack), k < l
                 PROVE  dfs_index[stack[k]] # dfs_index[stack[l]]
      OBVIOUS
    <2>1. stack[k] \in Module /\ stack[l] \in Module
      BY <1>0, OnIs
    <2>2. dfs_index[stack[k]] \in Nat /\ dfs_index[stack[l]] \in Nat
      BY <1>0, <2>1 DEF TypeOK
    <2>3. dfs_index[stack[k]] > dfs_index[stack[l]]
      BY <1>0 DEF StackInv
    <2> QED BY <2>2, <2>3
  <1>4. i = j
    <2>1. i \in Nat /\ j \in Nat
      BY <1>0, OnIs
    <2>2. i < j \/ j < i \/ i = j
      BY <2>1
    <2> QED BY <1>1, <1>2, <1>3, <2>2
  <1> QED BY <1>1, <1>2, <1>4

\* The innermost call was entered last
LEMMA ThisLast ==
  ASSUME IInv, Walking, calls # <<>>
  PROVE  \A k \in 1..Len(calls) : dfs_index[calls[k].mod] <= dfs_index[This]
  <1>0. TypeOK /\ FrameInv /\ CallsInv
    BY DEF IInv, WalkInv
  <1>1. This = calls[1].mod /\ 1 \in 1..Len(calls) /\ This \in Module
    BY <1>0, CallIs
  <1> SUFFICES ASSUME NEW k \in 1..Len(calls) PROVE dfs_index[calls[k].mod] <= dfs_index[This]
    OBVIOUS
  <1>2. calls[k].mod \in Module /\ dfs_index[This] \in Nat /\ Len(calls) \in Nat
    BY <1>0, <1>1, OnIs
  <1>3. dfs_index[calls[k].mod] \in Nat
    BY <1>0, <1>2, OnIs
  <1>4. CASE k = 1
    BY <1>1, <1>2, <1>4
  <1>5. CASE k # 1
    <2>1. 1 < k
      BY <1>2, <1>5
    <2>2. dfs_index[calls[1].mod] > dfs_index[calls[k].mod]
      BY <1>0, <1>1, <2>1 DEF CallsInv
    <2> QED BY <1>1, <1>2, <1>3, <2>2
  <1> QED BY <1>4, <1>5

\* What the steps other than the end of a call leave as it was
LEMMA SteadyMore ==
  ASSUME IInv, TypeOK', Steady
  PROVE  /\ \A y \in Module : eval_has_exception[y] => eval_has_exception'[y]
         /\ \A p, y \in Module : Waits(p, y) => Waits(p, y)'
         /\ \A y \in Module : status[y] \in Ended => dfs_index'[y] = dfs_index[y]
         /\ \A y \in Module : eval_has_exception'[y] =>
               async_evaluation'[y] \/ (eval_has_exception[y] /\ async_evaluation'[y] = async_evaluation[y])
  <1>0. TypeOK /\ FrameInv /\ ExecInv /\ \A x \in Module : StateOf(x)
    BY DEF IInv, StateInv, AsyncInv
  <1>1. \A p, y \in Module : Waits(p, y) => Waits(p, y)'
    <2>1. CASE EvalRequired
      <3> SUFFICES ASSUME NEW m1, m1 = Representative(Callee), NEW t, t = This
                   PROVE  \A p, y \in Module : Waits(p, y) => Waits(p, y)'
        OBVIOUS
      <3> QED BY <2>1, RequiredWaits
    <2>2. CASE ~EvalRequired
      <3>1. async_parent_modules' = async_parent_modules
        BY <2>2, SteadyIs
      <3> QED BY <3>1 DEF Waits
    <2> QED BY <2>1, <2>2
  <1>2. \A y \in Module : status[y] \in Ended => dfs_index'[y] = dfs_index[y]
    <2>1. CASE LinkEnter \/ EvalEnter
      <3>1. /\ Callee \in Module /\ status[Callee] \in {"UNLINKED", "LINKED"}
            /\ dfs_index' = [dfs_index EXCEPT ![Callee] = index]
        BY <1>0, <2>1, CalleeIs DEF LinkEnter, EvalEnter, Enter, Walking
      <3> QED BY <1>0, <3>1 DEF TypeOK, Ended
    <2>2. CASE ~(LinkEnter \/ EvalEnter)
      <3>1. CASE Link
        BY <2>2, <3>1 DEF Link, LinkRequired, LinkDone, LinkFail, dfs
      <3>2. CASE EvaluateModule \/ EvaluateReturn \/ EvalRequired
        BY <3>2 DEF EvaluateModule, EvaluateReturn, EvalRequired, dfs
      <3>3. CASE Reaction
        BY <3>3 DEF Reaction, GatherParent, GatherReturn, ExecEnd, RejectParent, RejectReturn, ExecSkip,
                    ExecAsync, ExecSync, ExecThrow, dfs
      <3>4. CASE \E m \in Module : Import(m) \/ Await(m)
        BY <3>4 DEF Import, Await, Fulfilled, Rejected, dfs
      <3> QED BY <2>2, <3>1, <3>2, <3>3, <3>4 DEF Steady
    <2> QED BY <2>1, <2>2
  <1>3. ASSUME NEW m \in Module, async_evaluation[m], async_evaluation' = async_evaluation,
               eval_has_exception' = [eval_has_exception EXCEPT ![m] = TRUE]
        PROVE  /\ \A y \in Module : eval_has_exception[y] => eval_has_exception'[y]
               /\ \A y \in Module : eval_has_exception'[y] =>
                    async_evaluation'[y] \/ (eval_has_exception[y] /\ async_evaluation'[y] = async_evaluation[y])
    <2>1. eval_has_exception \in [Module -> BOOLEAN]
      BY <1>0 DEF TypeOK
    <2>2. \A y \in Module : y # m => eval_has_exception'[y] = eval_has_exception[y]
      BY <1>3, <2>1
    <2>3. eval_has_exception'[m]
      BY <1>3, <2>1
    <2> QED BY <1>3, <2>2, <2>3
  <1>4. /\ \A y \in Module : eval_has_exception[y] => eval_has_exception'[y]
        /\ \A y \in Module : eval_has_exception'[y] =>
              async_evaluation'[y] \/ (eval_has_exception[y] /\ async_evaluation'[y] = async_evaluation[y])
    <2>1. CASE Calm
      <3>1. UNCHANGED <<eval_has_exception, async_evaluation>>
        BY <2>1, CalmIs
      <3> QED BY <3>1
    <2>2. CASE EvalEnter \/ EvalRequired \/ GatherParent \/ GatherReturn \/ RejectReturn
      <3>1. UNCHANGED <<eval_has_exception, async_evaluation>>
        BY <2>2 DEF EvalEnter, EvalRequired, GatherParent, GatherReturn, RejectReturn, waits
      <3> QED BY <3>1
    <2>3. CASE RejectParent
      <3>1. /\ phase = "reject" /\ ~AllParents /\ async_evaluation' = async_evaluation
            /\ \/ eval_has_exception' = eval_has_exception
               \/ ~GivenUp(Parent) /\ eval_has_exception' = [eval_has_exception EXCEPT ![Parent] = TRUE]
        BY <2>3 DEF RejectParent, waits
      <3>2. Parent \in Module /\ status[Parent] \in Ended
        BY <3>1, ParentWaits
      <3>3. ~GivenUp(Parent) => async_evaluation[Parent]
        BY <1>0, <3>2 DEF GivenUp, Ended, StateOf
      <3> QED BY <1>3, <3>1, <3>2, <3>3
    <2>4. ASSUME NEW m \in Module, ExecSkip(m) \/ ExecAsync(m) \/ ExecSync(m)
          PROVE  UNCHANGED <<eval_has_exception, async_evaluation>>
      BY <2>4 DEF ExecSkip, ExecAsync, ExecSync, waits
    <2>5. ASSUME NEW m \in Module, ExecThrow(m)
          PROVE  /\ async_evaluation[m] /\ async_evaluation' = async_evaluation
                 /\ eval_has_exception' = [eval_has_exception EXCEPT ![m] = TRUE]
      BY <1>0, <2>5 DEF ExecThrow, Reject, waits, IsFirst, ExecInv
    <2>6. ASSUME NEW m \in Module, Rejected(m)
          PROVE  /\ async_evaluation[m] /\ async_evaluation' = async_evaluation
                 /\ \/ eval_has_exception' = [eval_has_exception EXCEPT ![m] = TRUE]
                    \/ eval_has_exception' = eval_has_exception
      BY <1>0, <2>6 DEF Rejected, Reject, waits, StateOf
    <2>7. ASSUME NEW m \in Module, Fulfilled(m)
          PROVE  /\ \A y \in Module : eval_has_exception[y] => eval_has_exception'[y]
                 /\ \A y \in Module : eval_has_exception'[y] =>
                    async_evaluation'[y] \/ (eval_has_exception[y] /\ async_evaluation'[y] = async_evaluation[y])
      <3>1. /\ eval_has_exception' = eval_has_exception /\ phase = "idle" /\ body[m] = "running"
            /\ GivenUp(m) => async_evaluation' = async_evaluation
            /\ ~GivenUp(m) => async_evaluation' = [async_evaluation EXCEPT ![m] = FALSE]
        BY <2>7 DEF Fulfilled
      <3>2. CASE GivenUp(m)
        BY <3>1, <3>2
      <3>3. CASE ~GivenUp(m)
        <4>1. status[m] \in Ended
          BY <3>1, Quiet DEF Walking
        <4>2. ~eval_has_exception[m]
          BY <1>0, <3>3, <4>1 DEF GivenUp, Ended, StateOf
        <4>3. \A y \in Module : y # m => async_evaluation'[y] = async_evaluation[y]
          BY <1>0, <3>1, <3>3 DEF TypeOK
        <4> QED BY <3>1, <4>2, <4>3
      <3> QED BY <3>2, <3>3
    <2>8. CASE \E m \in Module : ExecSkip(m) \/ ExecAsync(m) \/ ExecSync(m) \/ ExecThrow(m) \/ Fulfilled(m) \/ Rejected(m)
      <3>1. PICK m \in Module : ExecSkip(m) \/ ExecAsync(m) \/ ExecSync(m) \/ ExecThrow(m) \/ Fulfilled(m) \/ Rejected(m)
        BY <2>8
      <3>2. CASE ExecSkip(m) \/ ExecAsync(m) \/ ExecSync(m)
        <4>1. UNCHANGED <<eval_has_exception, async_evaluation>>
          BY <2>4, <3>2
        <4> QED BY <4>1
      <3>3. CASE ExecThrow(m)
        BY <1>3, <2>5, <3>3
      <3>4. CASE Rejected(m)
        <4>1. CASE eval_has_exception' = eval_has_exception
          BY <2>6, <3>4, <4>1
        <4>2. CASE eval_has_exception' # eval_has_exception
          BY <1>3, <2>6, <3>4, <4>2
        <4> QED BY <4>1, <4>2
      <3>5. CASE Fulfilled(m)
        BY <2>7, <3>5
      <3> QED BY <3>1, <3>2, <3>3, <3>4, <3>5
    <2> QED BY <2>1, <2>2, <2>3, <2>8 DEF Steady, Calm, Reaction, Await
  <1> QED BY <1>1, <1>2, <1>4

\* The three parts of ParentInv
CycleInv ==
  \A x \in Module :
       (/\ status[x] \in Ended /\ async_evaluation[x]
        /\ x # cycle_root[x] /\ ~eval_has_exception[cycle_root[x]]) =>
       \E p \in Module : /\ Waits(p, x) /\ dfs_index[p] < dfs_index[x]
                         /\ status[p] \in Ended /\ cycle_root[p] = cycle_root[x]
\* ... a failure of one of the cycle that took no time is the root's too, ...
FaultInv ==
  \A x \in Module : eval_has_exception[x] => async_evaluation[x] \/ eval_has_exception[cycle_root[x]]
\* ... and in the walk somebody entered earlier waits for who takes its time
EarlierInv ==
  phase = "evaluate" => \A x \in On \ Called : async_evaluation[x] =>
       \/ \E p \in On : Waits(p, x) /\ dfs_index[p] < dfs_index[x] /\ Above(x, p)
       \/ Returned(x) /\ dfs_index[This] < dfs_index[x]

\* They are kept while no call of the evaluation ends, ...
LEMMA ParentSteady ==
  ASSUME IInv, TypeOK', Steady
  PROVE  CycleInv' /\ FaultInv'
  <1>0. TypeOK /\ RootInv /\ CycleInv /\ FaultInv /\ \A x \in Module : StateOf(x)
    BY DEF IInv, StateInv, AsyncInv, ParentInv, CycleInv, FaultInv
  <1>1. /\ \A x \in Module : status'[x] \in Ended <=> status[x] \in Ended
        /\ cycle_root' = cycle_root
        /\ \A x \in Module : async_evaluation'[x] => async_evaluation[x]
    BY SteadyIs
  <1>2. /\ \A y \in Module : eval_has_exception[y] => eval_has_exception'[y]
        /\ \A p, y \in Module : Waits(p, y) => Waits(p, y)'
        /\ \A y \in Module : status[y] \in Ended => dfs_index'[y] = dfs_index[y]
        /\ \A y \in Module : eval_has_exception'[y] =>
              async_evaluation'[y] \/ (eval_has_exception[y] /\ async_evaluation'[y] = async_evaluation[y])
    BY SteadyMore
  <1>3. CycleInv'
    <2> SUFFICES ASSUME NEW x \in Module, status'[x] \in Ended, async_evaluation'[x],
                        x # cycle_root'[x], ~eval_has_exception'[cycle_root'[x]]
                 PROVE  \E p \in Module : /\ Waits(p, x)' /\ dfs_index'[p] < dfs_index'[x]
                                          /\ status'[p] \in Ended /\ cycle_root'[p] = cycle_root'[x]
      BY DEF CycleInv
    <2>1. status[x] \in Ended /\ async_evaluation[x] /\ cycle_root[x] \in Module
      BY <1>0, <1>1 DEF RootInv
    <2>2. ~eval_has_exception[cycle_root[x]]
      BY <1>1, <1>2, <2>1
    <2>3. PICK p \in Module : /\ Waits(p, x) /\ dfs_index[p] < dfs_index[x]
                              /\ status[p] \in Ended /\ cycle_root[p] = cycle_root[x]
      BY <1>0, <1>1, <2>1, <2>2 DEF CycleInv
    <2> QED BY <1>1, <1>2, <2>1, <2>3
  <1>4. FaultInv'
    <2> SUFFICES ASSUME NEW x \in Module, eval_has_exception'[x]
                 PROVE  async_evaluation'[x] \/ eval_has_exception'[cycle_root'[x]]
      BY DEF FaultInv
    <2>1. CASE async_evaluation'[x]
      BY <2>1
    <2>2. CASE ~async_evaluation'[x]
      <3>1. eval_has_exception[x] /\ ~async_evaluation[x]
        BY <1>2, <2>2
      <3>2. status[x] \in Ended
        BY <3>1, FailedEnded DEF Ended
      <3>3. cycle_root[x] \in Module /\ eval_has_exception[cycle_root[x]]
        BY <1>0, <3>1, <3>2 DEF RootInv, FaultInv
      <3> QED BY <1>1, <1>2, <3>3
    <2> QED BY <2>1, <2>2
  <1> QED BY <1>3, <1>4

\* ... when a module is entered, ...
LEMMA EarlierEnter ==
  ASSUME IInv, TypeOK', EvalEnter
  PROVE  EarlierInv'
  <1> SUFFICES ASSUME NEW c, c = Callee PROVE EarlierInv'
    OBVIOUS
  <1>0. TypeOK /\ FrameInv /\ StackInv /\ EarlierInv
    BY DEF IInv, WalkInv, AsyncInv, ParentInv, EarlierInv
  <1>1. /\ c \in Module /\ status[c] = "LINKED" /\ phase = "evaluate" /\ Walking
        /\ UNCHANGED <<async_parent_modules, async_evaluation>>
        /\ dfs_index' = [dfs_index EXCEPT ![c] = index]
        /\ stack' = <<c>> \o stack
        /\ calls' = <<[mod |-> c, next |-> 1]>> \o calls
    BY <1>0, CalleeIs DEF EvalEnter, Enter, Walking
  <1>2. c \notin On
    BY <1>0, <1>1 DEF StackInv
  <1>3. On' = On \cup {c}
    <2>1. stack \in Seq(Module)
      BY <1>0 DEF TypeOK
    <2> QED BY <1>1, <2>1, Push DEF On
  <1>4. /\ Called' = Called \cup {c} /\ calls'[1].mod = c
        /\ \A k \in 2..Len(calls') : calls'[k] = calls[k - 1] /\ k - 1 \in 1..Len(calls)
        /\ \A k \in 1..Len(calls') : k = 1 \/ k \in 2..Len(calls')
    <2>1. calls \in Seq(Frame)
      BY <1>0 DEF TypeOK
    <2>2. /\ Called' = {calls[k].mod : k \in 1..Len(calls)} \cup {c}
          /\ calls'[1] = [mod |-> c, next |-> 1]
          /\ \A k \in 2..Len(calls') : calls'[k] = calls[k - 1] /\ k - 1 \in 1..Len(calls)
          /\ \A k \in 1..Len(calls') : k = 1 \/ k \in 2..Len(calls')
      BY <1>1, <2>1, PushCalled
    <2> QED BY <2>2 DEF Called
  <1>5. /\ dfs_index'[c] = index /\ index \in Nat
        /\ \A x \in Module : x # c => dfs_index'[x] = dfs_index[x]
    BY <1>0, <1>1 DEF TypeOK
  <1> SUFFICES ASSUME NEW x \in On' \ Called', async_evaluation'[x]
               PROVE  \E p \in On' : Waits(p, x)' /\ dfs_index'[p] < dfs_index'[x] /\ Above(x, p)'
    BY DEF EarlierInv
  <1>6. x \in On \ Called /\ x # c /\ x \in Module
    BY <1>0, <1>3, <1>4, OnIs
  <1>7. ~Returned(x)
    BY <1>1, <1>2, <1>6 DEF Returned
  <1>8. PICK p \in On : Waits(p, x) /\ dfs_index[p] < dfs_index[x] /\ Above(x, p)
    BY <1>0, <1>1, <1>6, <1>7 DEF EarlierInv
  <1>9. p \in Module /\ p # c
    BY <1>0, <1>2, <1>8, OnIs
  <1>10. Above(x, p)'
    <2> SUFFICES ASSUME NEW k \in 1..Len(calls'), dfs_index'[calls'[k].mod] < dfs_index'[x]
                 PROVE  dfs_index'[calls'[k].mod] <= dfs_index'[p]
      BY DEF Above
    <2>1. CASE k = 1
      <3>1. dfs_index[x] < index /\ dfs_index[x] \in Nat
        BY <1>0, <1>6 DEF StackInv, TypeOK
      <3>2. ~(index < dfs_index[x])
        BY <1>5, <3>1
      <3> QED BY <1>4, <1>5, <1>6, <2>1, <3>2
    <2>2. CASE k \in 2..Len(calls')
      <3>1. calls'[k] = calls[k - 1] /\ k - 1 \in 1..Len(calls)
        BY <1>4, <2>2
      <3>2. calls[k - 1].mod \in On
        <4>1. CallsInv
          BY DEF IInv, WalkInv
        <4> QED BY <1>1, <3>1, <4>1 DEF CallsInv
      <3>3. dfs_index'[calls[k - 1].mod] = dfs_index[calls[k - 1].mod]
        BY <1>0, <1>2, <1>5, <3>2, OnIs
      <3>4. dfs_index[calls[k - 1].mod] <= dfs_index[p]
        BY <1>5, <1>6, <1>8, <3>1, <3>3 DEF Above
      <3> QED BY <1>5, <1>9, <3>1, <3>3, <3>4
    <2> QED BY <1>4, <2>1, <2>2
  <1>11. Waits(p, x)'
    BY <1>1, <1>8 DEF Waits
  <1> QED BY <1>3, <1>5, <1>6, <1>8, <1>9, <1>10, <1>11

\* ... when a request is passed, ...
LEMMA EarlierRequired ==
  ASSUME IInv, TypeOK', EvalRequired
  PROVE  EarlierInv'
  <1> SUFFICES ASSUME NEW m1, m1 = Representative(Callee), NEW t, t = This PROVE EarlierInv'
    OBVIOUS
  <1>0. TypeOK /\ FrameInv /\ StackInv /\ EarlierInv
    BY DEF IInv, WalkInv, AsyncInv, ParentInv, EarlierInv
  <1>1. /\ phase = "evaluate" /\ Walking /\ calls # <<>>
        /\ UNCHANGED <<stack, dfs_index, async_evaluation>> /\ calls' = Advance(calls)
    BY DEF EvalRequired, Walking
  <1>2. /\ On' = On /\ Called' = Called /\ Len(calls') = Len(calls)
        /\ \A k \in 1..Len(calls) : calls'[k].mod = calls[k].mod
    <2>1. calls \in Seq(Frame)
      BY <1>0 DEF TypeOK
    <2>2. Len(calls') = Len(calls) /\ \A k \in 1..Len(calls) : calls'[k].mod = calls[k].mod
      BY <1>1, <2>1, AdvanceIs
    <2> QED BY <1>1, <2>2 DEF On, Called
  <1>3. t \in On /\ t \in Module
    BY <1>1, ThisIs
  <1>4. \A p, y \in Module : Waits(p, y)' <=> Waits(p, y) \/ (p = t /\ y = m1 /\ async_evaluation[m1])
    BY RequiredWaits
  <1> SUFFICES ASSUME NEW x \in On \ Called, async_evaluation[x]
               PROVE  \E p \in On : Waits(p, x)' /\ dfs_index[p] < dfs_index[x] /\ Above(x, p)
    <2>1. \A x, p : Above(x, p)' <=> Above(x, p)
      BY <1>1, <1>2 DEF Above
    <2> QED BY <1>1, <1>2, <2>1 DEF EarlierInv
  <1>5. x \in Module /\ On \subseteq Module
    BY <1>0, OnIs
  <1>6. CASE \E p \in On : Waits(p, x) /\ dfs_index[p] < dfs_index[x] /\ Above(x, p)
    BY <1>4, <1>5, <1>6
  <1>7. CASE Returned(x) /\ dfs_index[This] < dfs_index[x]
    <2>1. x = Callee /\ status[x] = "EVALUATING"
      BY <1>0, <1>1, <1>7 DEF Returned, StackInv, OnStack
    <2>2. m1 = x
      BY <2>1 DEF Representative
    <2>3. Above(x, t)
      BY <1>1, ThisLast DEF Above
    <2> QED BY <1>3, <1>4, <1>5, <1>7, <2>2, <2>3
  <1> QED BY <1>0, <1>1, <1>6, <1>7 DEF EarlierInv

\* ... when a call ends, ...
LEMMA ParentDone ==
  ASSUME IInv, TypeOK', EvalDone
  PROVE  EarlierInv' /\ CycleInv' /\ FaultInv'
  <1> SUFFICES ASSUME NEW t, t = This PROVE EarlierInv' /\ CycleInv' /\ FaultInv'
    OBVIOUS
  <1>0. TypeOK /\ FrameInv /\ StackInv /\ EarlierInv /\ CycleInv /\ FaultInv /\ RootInv
    BY DEF IInv, WalkInv, AsyncInv, ParentInv, EarlierInv, CycleInv, FaultInv
  <1>1. /\ phase = "evaluate" /\ Walking /\ calls # <<>> /\ AllRequired
        /\ UNCHANGED <<dfs_index, async_parent_modules, eval_has_exception>>
        /\ status' = [m \in Module |-> IF m \notin Popped(t) THEN status[m]
                                   ELSE IF async_evaluation'[m] THEN "EVALUATING_ASYNC"
                                   ELSE "EVALUATED"]
        /\ cycle_root' = [m \in Module |-> IF m \in Popped(t) THEN t ELSE cycle_root[m]]
        /\ calls' = Tail(calls)
    BY DEF EvalDone, Walking, AllRequired, dfs
  <1>2. /\ Popped(t) \subseteq On /\ On' = On \ Popped(t)
        /\ Called' = Called \ {t}
        /\ t \in Popped(t) <=> Popped(t) # {}
        /\ Popped(t) \cap Called \subseteq {t}
        /\ \A x \in Popped(t) : dfs_index[x] >= dfs_index[t]
        /\ \A x \in On \ Popped(t) : Popped(t) # {} => dfs_index[x] < dfs_index[t]
        /\ Popped(t) = {} => calls' # <<>> /\ Returned(t)' /\ dfs_index[This'] < dfs_index[t]
    BY EvalDoneIs DEF DoneStep
  <1>3. t \in Module /\ status[t] = "EVALUATING" /\ t \in On /\ t = calls[1].mod /\ 1 \in 1..Len(calls)
    BY <1>1, ThisIs
  <1>4. \A x \in Module : x # t => async_evaluation'[x] = async_evaluation[x]
    BY DoneTime
  <1>5. \A x \in On : x \in Module /\ status[x] = "EVALUATING"
    BY <1>0, <1>1, OnIs DEF StackInv, OnStack
  <1>6. \A x : ~Returned(x)
    BY <1>1 DEF Returned
  <1>7. \A p, y : Waits(p, y)' <=> Waits(p, y)
    BY <1>1 DEF Waits
  <1>8. \A x \in On \ Called : async_evaluation[x] =>
           \E p \in On : Waits(p, x) /\ dfs_index[p] < dfs_index[x] /\ Above(x, p)
    BY <1>0, <1>1, <1>6 DEF EarlierInv
  <1>N. \A x \in Module : dfs_index[x] \in Nat
    BY <1>0 DEF TypeOK
  <1>9. EarlierInv'
    <2>1. \A k \in 1..Len(calls') : calls'[k] = calls[k + 1] /\ k + 1 \in 1..Len(calls)
      <3>1. calls \in Seq(Frame)
        BY <1>0 DEF TypeOK
      <3> QED BY <1>1, <3>1, TailIs
    <2>2. \A x, p : Above(x, p) => Above(x, p)'
      BY <1>1, <2>1 DEF Above
    <2> SUFFICES ASSUME NEW x \in On' \ Called', async_evaluation'[x]
                 PROVE  \/ \E p \in On' : Waits(p, x)' /\ dfs_index'[p] < dfs_index'[x] /\ Above(x, p)'
                        \/ Returned(x)' /\ dfs_index'[This'] < dfs_index'[x]
      BY DEF EarlierInv
    <2>3. CASE x = t
      <3>1. Popped(t) = {}
        BY <1>2, <2>3
      <3> QED BY <1>1, <1>2, <2>3, <3>1
    <2>4. CASE x # t
      <3>1. x \in On \ Called /\ x \notin Popped(t) /\ x \in Module
        BY <1>2, <1>5, <2>4
      <3>2. PICK p \in On : Waits(p, x) /\ dfs_index[p] < dfs_index[x] /\ Above(x, p)
        BY <1>4, <1>8, <2>4, <3>1
      <3>3. p \notin Popped(t)
        <4> SUFFICES ASSUME p \in Popped(t) PROVE FALSE
          OBVIOUS
        <4>1. dfs_index[p] >= dfs_index[t] /\ dfs_index[x] < dfs_index[t] /\ p \in Module
          BY <1>2, <1>5, <3>1
        <4>2. dfs_index[p] \in Nat /\ dfs_index[t] \in Nat /\ dfs_index[x] \in Nat
          BY <1>3, <1>N, <3>1, <4>1
        <4> QED BY <3>2, <4>1, <4>2
      <3> QED BY <1>1, <1>2, <1>7, <2>2, <3>2, <3>3
    <2> QED BY <2>3, <2>4
  <1>10. \A x \in Module : status'[x] \in Ended <=> status[x] \in Ended \/ x \in Popped(t)
    BY <1>1 DEF Ended
  <1>11. \A x \in Module : status[x] \in Ended => x \notin Popped(t) /\ x # t /\ cycle_root'[x] = cycle_root[x]
    BY <1>1, <1>2, <1>3, <1>5 DEF Ended
  <1>12. CycleInv'
    <2> SUFFICES ASSUME NEW x \in Module, status'[x] \in Ended, async_evaluation'[x],
                        x # cycle_root'[x], ~eval_has_exception'[cycle_root'[x]]
                 PROVE  \E p \in Module : /\ Waits(p, x)' /\ dfs_index'[p] < dfs_index'[x]
                                          /\ status'[p] \in Ended /\ cycle_root'[p] = cycle_root'[x]
      BY DEF CycleInv
    <2>1. CASE status[x] \in Ended
      <3>1. x # t /\ async_evaluation[x] /\ cycle_root'[x] = cycle_root[x]
        BY <1>4, <1>11, <2>1
      <3>2. PICK p \in Module : /\ Waits(p, x) /\ dfs_index[p] < dfs_index[x]
                                /\ status[p] \in Ended /\ cycle_root[p] = cycle_root[x]
        BY <1>0, <1>1, <2>1, <3>1 DEF CycleInv
      <3> QED BY <1>1, <1>7, <1>10, <1>11, <3>1, <3>2
    <2>2. CASE x \in Popped(t)
      <3>1. cycle_root'[x] = t /\ x # t
        BY <1>1, <2>2
      <3>2. x \in On \ Called /\ async_evaluation[x]
        BY <1>2, <1>4, <2>2, <3>1
      <3>3. PICK p \in On : Waits(p, x) /\ dfs_index[p] < dfs_index[x] /\ Above(x, p)
        BY <1>8, <3>2
      <3>4. dfs_index[t] < dfs_index[x]
        <4>1. dfs_index[x] # dfs_index[t]
          BY <1>3, <3>1, <3>2, Apart
        <4>2. dfs_index[x] >= dfs_index[t]
          BY <1>2, <2>2
        <4>3. dfs_index[t] \in Nat /\ dfs_index[x] \in Nat
          BY <1>3, <1>N
        <4> QED BY <4>1, <4>2, <4>3
      <3>5. dfs_index[t] <= dfs_index[p]
        BY <1>3, <3>3, <3>4 DEF Above
      <3>6. p \in Popped(t)
        <4>1. p \in Module /\ Popped(t) # {}
          BY <1>5, <2>2
        <4>2. dfs_index[t] \in Nat /\ dfs_index[p] \in Nat
          BY <1>3, <1>N, <4>1
        <4>3. ~(dfs_index[p] < dfs_index[t])
          BY <3>5, <4>2
        <4> QED BY <1>2, <4>1, <4>3
      <3>7. p \in Module /\ status'[p] \in Ended /\ cycle_root'[p] = t
        BY <1>1, <1>5, <1>10, <3>6
      <3> QED BY <1>1, <1>7, <3>1, <3>3, <3>7
    <2> QED BY <1>10, <2>1, <2>2
  <1>13. FaultInv'
    <2> SUFFICES ASSUME NEW x \in Module, eval_has_exception'[x]
                 PROVE  async_evaluation'[x] \/ eval_has_exception'[cycle_root'[x]]
      BY DEF FaultInv
    <2>1. eval_has_exception[x] /\ status[x] \in Ended
      BY <1>1, FailedEnded DEF Ended
    <2> QED BY <1>0, <1>1, <1>4, <1>11, <2>1 DEF FaultInv
  <1> QED BY <1>9, <1>12, <1>13

\* ... and when all is unwound after a throw
LEMMA ParentUnwind ==
  ASSUME IInv, TypeOK', EvalFail \/ EvalThrow
  PROVE  EarlierInv' /\ CycleInv' /\ FaultInv'
  <1>0. TypeOK /\ StackInv /\ CycleInv /\ FaultInv /\ RootInv
    BY DEF IInv, WalkInv, AsyncInv, ParentInv, CycleInv, FaultInv
  <1>1. /\ eval_has_exception' = [m \in Module |-> m \in On \/ eval_has_exception[m]]
        /\ status' = [m \in Module |-> IF m \in On THEN "EVALUATED" ELSE status[m]]
        /\ cycle_root' = [m \in Module |-> IF m \in On THEN root ELSE cycle_root[m]]
        /\ UNCHANGED <<async_parent_modules, async_evaluation, dfs_index>>
        /\ phase = "evaluate" /\ Walking /\ phase' = "idle"
    BY DEF EvalFail, EvalThrow, Unwind, On, Walking, waits, Idle, dfs
  <1>2. root \in Module /\ (On # {} => root \in On)
    BY <1>1, RootOn
  <1>3. \A x \in On : x \in Module /\ status[x] = "EVALUATING"
    BY <1>0, <1>1, OnIs DEF StackInv, OnStack
  <1>4. \A p, y : Waits(p, y)' <=> Waits(p, y)
    BY <1>1 DEF Waits
  <1>5. \A x \in Module : status'[x] \in Ended <=> status[x] \in Ended \/ x \in On
    BY <1>1 DEF Ended
  <1>6. \A x \in Module : x \in On => eval_has_exception'[cycle_root'[x]]
    BY <1>1, <1>2
  <1>7. \A x \in Module : status[x] \in Ended => x \notin On /\ cycle_root'[x] = cycle_root[x] /\ cycle_root[x] \in Module
    BY <1>0, <1>1, <1>3 DEF Ended, RootInv
  <1>8. EarlierInv'
    BY <1>1 DEF EarlierInv
  <1>9. CycleInv'
    <2> SUFFICES ASSUME NEW x \in Module, status'[x] \in Ended, async_evaluation'[x],
                        x # cycle_root'[x], ~eval_has_exception'[cycle_root'[x]]
                 PROVE  \E p \in Module : /\ Waits(p, x)' /\ dfs_index'[p] < dfs_index'[x]
                                          /\ status'[p] \in Ended /\ cycle_root'[p] = cycle_root'[x]
      BY DEF CycleInv
    <2>1. status[x] \in Ended
      BY <1>5, <1>6
    <2>2. ~eval_has_exception[cycle_root[x]] /\ cycle_root'[x] = cycle_root[x]
      BY <1>1, <1>7, <2>1
    <2>3. PICK p \in Module : /\ Waits(p, x) /\ dfs_index[p] < dfs_index[x]
                              /\ status[p] \in Ended /\ cycle_root[p] = cycle_root[x]
      BY <1>0, <1>1, <2>1, <2>2 DEF CycleInv
    <2> QED BY <1>1, <1>4, <1>5, <1>7, <2>2, <2>3
  <1>10. FaultInv'
    <2> SUFFICES ASSUME NEW x \in Module, eval_has_exception'[x]
                 PROVE  async_evaluation'[x] \/ eval_has_exception'[cycle_root'[x]]
      BY DEF FaultInv
    <2>1. CASE x \in On
      BY <1>6, <2>1
    <2>2. CASE x \notin On
      <3>1. eval_has_exception[x]
        BY <1>1, <2>2
      <3>2. status[x] \in Ended
        BY <3>1, FailedEnded DEF Ended
      <3>3. async_evaluation[x] \/ eval_has_exception[cycle_root[x]]
        BY <1>0, <3>1 DEF FaultInv
      <3> QED BY <1>1, <1>7, <3>2, <3>3
    <2> QED BY <2>1, <2>2
  <1> QED BY <1>8, <1>9, <1>10

\* The waiters of a cycle are preserved by every step.
LEMMA ParentNext == IInv /\ [Next]_vars => ParentInv'
  <1> SUFFICES ASSUME IInv, [Next]_vars PROVE ParentInv'
    OBVIOUS
  <1>0. TypeOK' /\ TypeOK /\ ParentInv
    BY TypeNext DEF IInv, AsyncInv
  <1>P. ParentInv' <=> EarlierInv' /\ CycleInv' /\ FaultInv'
    BY DEF ParentInv, EarlierInv, CycleInv, FaultInv
  <1>1. CASE Steady
    <2>1. EarlierInv'
      <3>1. CASE EvalEnter \/ EvalRequired
        BY <1>0, <3>1, EarlierEnter, EarlierRequired
      <3>2. CASE EvaluateModule
        <4>1. On' = On /\ calls = <<>> /\ phase = "link"
          BY <3>2 DEF EvaluateModule, On
        <4>2. On = {}
          BY <4>1, RootOn DEF Walking
        <4> QED BY <4>1, <4>2 DEF EarlierInv
      <3>3. CASE ~(EvalEnter \/ EvalRequired \/ EvaluateModule)
        <4>1. phase' # "evaluate"
          <5>1. CASE Link
            BY <5>1 DEF Link, LinkEnter, LinkRequired, LinkDone, LinkFail, Enter, Idle
          <5>2. CASE EvaluateReturn
            BY <5>2 DEF EvaluateReturn, Idle
          <5>3. CASE Reaction
            BY <5>3 DEF Reaction, GatherParent, GatherReturn, ExecEnd, RejectParent, RejectReturn, ExecSkip,
                        ExecAsync, ExecSync, ExecThrow, Reject, walk
          <5>4. CASE \E m \in Module : Import(m) \/ Await(m)
            BY <5>4 DEF Import, Await, Fulfilled, Rejected, Reject
          <5> QED BY <1>1, <3>3, <5>1, <5>2, <5>3, <5>4 DEF Steady
        <4> QED BY <4>1 DEF EarlierInv
      <3> QED BY <3>1, <3>2, <3>3
    <2> QED BY <1>0, <1>1, <1>P, <2>1, ParentSteady
  <1>2. CASE EvalDone
    BY <1>0, <1>2, <1>P, ParentDone
  <1>3. CASE EvalFail \/ EvalThrow
    BY <1>0, <1>3, <1>P, ParentUnwind
  <1>4. CASE UNCHANGED vars
    <2>1. UNCHANGED <<phase, calls, stack, root, req, dfs_index, status, cycle_root, async_evaluation,
                      async_parent_modules, eval_has_exception>>
      BY <1>4 DEF vars, walk, waits, files, dfs
    <2>2. /\ \A p, y : Waits(p, y)' <=> Waits(p, y)
          /\ \A p, y : Above(p, y)' <=> Above(p, y)
          /\ \A x : Returned(x)' <=> Returned(x)
          /\ This' = This /\ On' = On /\ Called' = Called
      BY <2>1 DEF Waits, Above, Returned, This, On, Called, AllRequired, Next1, Callee
    <2> QED BY <1>0, <2>1, <2>2 DEF ParentInv
  <1> QED BY <1>1, <1>2, <1>3, <1>4, NextIs
----------------------------------------------------------------------------
(* No assert fails *)

\* js_evaluate_module is called for modules that are linked
RootReady == phase = "evaluate" => status[root] # "UNLINKED"
\* The inductive invariant
FullInv == IInv /\ RootReady

\* It holds at the start.
LEMMA InitInv == Init => FullInv
  <1> SUFFICES ASSUME Init PROVE FullInv
    OBVIOUS
  <1>1. TypeOK
    BY InitType
  <1>2. /\ phase = "idle" /\ calls = <<>> /\ stack = <<>> /\ exec_list = {}
        /\ \A m \in Module : /\ status[m] = "UNLINKED" /\ cycle_root[m] = None /\ ~async_evaluation[m]
                             /\ async_parent_modules[m] = <<>> /\ ~eval_has_exception[m]
                             /\ promise[m] = "none" /\ body[m] = "unrun"
    BY DEF Init
  <1>3. On = {} /\ Len(calls) = 0 /\ Len(stack) = 0
    BY <1>2 DEF On, Range
  <1>4. (\A k \in 1..Len(calls) : FALSE) /\ (\A k \in 1..Len(stack) : FALSE)
    BY <1>3
  <1>5. \A p : \A y \in Module : ~Waits(p, y)
    BY <1>2 DEF Waits, Range
  <1>6. FrameInv
    BY <1>2, <1>4 DEF FrameInv, Walking
  <1>7. WalkInv
    <2>1. StackInv
      BY <1>2, <1>3, <1>4 DEF StackInv
    <2>2. LinkedInv
      BY <1>2 DEF LinkedInv, Linked, Ended
    <2> QED BY <1>2, <2>1, <2>2 DEF WalkInv, CallsInv, EdgeInv, OwnerInv, Walking
  <1>8. StateInv
    BY <1>2 DEF StateInv, StateOf
  <1>9. RootInv
    BY <1>2 DEF RootInv, Ended
  <1>10. OutInv
    <2> SUFFICES ASSUME NEW p \in Module
                 PROVE  /\ IsFiniteSet(Out(p))
                        /\ status[p] \in {"EVALUATING"} \cup Ended => Cardinality(Out(p)) <= pending_async_dependencies[p]
                        /\ body[p] # "unrun" \/ p \in exec_list => pending_async_dependencies[p] = 0
      BY DEF OutInv
    <2>1. Out(p) = {}
      <3> SUFFICES ASSUME NEW w \in Out(p) PROVE FALSE
        OBVIOUS
      <3>1. w[1] \in Module /\ w[2] \in 1..Len(async_parent_modules[w[1]]) /\ async_parent_modules[w[1]][w[2]] = p
        BY DEF Out
      <3>2. Waits(p, w[1])
        BY <1>1, <3>1, ListedIs
      <3> QED BY <1>5, <3>1, <3>2
    <2> QED BY <1>2, <2>1, FS_EmptySet DEF Ended
  <1>11. WaitInv /\ OrderInv
    BY <1>5 DEF WaitInv, OrderInv
  <1>12. TimeInv /\ ExecInv /\ GatherInv /\ FailInv /\ ParentInv
    BY <1>2 DEF TimeInv, ExecInv, GatherInv, FailInv, ParentInv
  <1> QED BY <1>1, <1>2, <1>6, <1>7, <1>8, <1>9, <1>10, <1>11, <1>12 DEF FullInv, IInv, AsyncInv, RootReady

\* The steps after which the evaluation goes on
LEMMA PhaseNext ==
  ASSUME [Next]_vars
  PROVE  \/ EvaluateModule \/ EvalEnter \/ EvalRequired \/ EvalDone
         \/ phase' # "evaluate" \/ UNCHANGED vars
  <1>1. CASE Link
    BY <1>1 DEF Link, LinkEnter, LinkRequired, LinkDone, LinkFail, Enter, Idle
  <1>2. CASE EvaluateReturn \/ EvalFail \/ EvalThrow
    BY <1>2 DEF EvaluateReturn, EvalFail, EvalThrow, Unwind, Idle
  <1>3. CASE Reaction
    BY <1>3 DEF Reaction, GatherParent, GatherReturn, ExecEnd, RejectParent, RejectReturn, ExecSkip,
                ExecAsync, ExecSync, ExecThrow, Reject, walk
  <1>4. CASE \E m \in Module : Import(m) \/ Await(m)
    BY <1>4 DEF Import, Await, Fulfilled, Rejected, Reject
  <1> QED BY <1>1, <1>2, <1>3, <1>4 DEF Next, Evaluate

\* A module under evaluation is linked, after every step.
LEMMA ReadyNext == FullInv /\ [Next]_vars => RootReady'
  <1> SUFFICES ASSUME FullInv, [Next]_vars PROVE RootReady'
    OBVIOUS
  <1>0. IInv /\ TypeOK /\ FrameInv /\ StackInv /\ RootInv /\ RootReady
    BY DEF FullInv, IInv, WalkInv
  <1>T. TypeOK'
    BY <1>0, TypeNext
  <1>1. CASE EvaluateModule
    <2>1. /\ status' = status /\ status[root] # "UNLINKED" /\ root \in Module
          /\ phase' = "evaluate" => root' = PromiseModule(root)
      BY <1>0, <1>1 DEF EvaluateModule, Idle, FrameInv, Walking
    <2> QED BY <1>0, <2>1 DEF RootReady, PromiseModule, RootInv, Ended
  <1>2. CASE EvalEnter
    <2>1. /\ Callee \in Module /\ status' = [status EXCEPT ![Callee] = "EVALUATING"]
          /\ phase = "evaluate" /\ root' = root
      BY <1>0, <1>2, CalleeIs DEF EvalEnter, Enter, Walking
    <2> QED BY <1>0, <2>1 DEF RootReady, TypeOK
  <1>3. CASE EvalRequired
    BY <1>0, <1>3 DEF EvalRequired, RootReady
  <1>4. CASE EvalDone
    <2>1. /\ phase = "evaluate" /\ UNCHANGED <<phase, root>>
          /\ status' = [m \in Module |-> IF m \notin Popped(This) THEN status[m]
                                   ELSE IF async_evaluation'[m] THEN "EVALUATING_ASYNC"
                                   ELSE "EVALUATED"]
      BY <1>4 DEF EvalDone
    <2>2. root \in Module
      BY <1>0, <2>1 DEF FrameInv, Walking
    <2> QED BY <1>0, <2>1, <2>2 DEF RootReady
  <1>5. CASE ~(EvalEnter \/ EvalRequired \/ EvaluateModule \/ EvalDone)
    <2>1. phase' # "evaluate" \/ UNCHANGED vars
      BY <1>5, PhaseNext
    <2>2. UNCHANGED vars => UNCHANGED <<phase, root, status>>
      BY DEF vars, walk
    <2> QED BY <1>0, <2>1, <2>2 DEF RootReady
  <1> QED BY <1>1, <1>2, <1>3, <1>4, <1>5

\* It is preserved by every step.
LEMMA InvNext == FullInv /\ [Next]_vars => FullInv'
  <1> SUFFICES ASSUME FullInv, [Next]_vars PROVE FullInv'
    OBVIOUS
  <1>1. IInv
    BY DEF FullInv
  <1>2. TypeOK' /\ FrameInv' /\ WalkInv' /\ StateInv' /\ RootInv'
    BY <1>1, TypeNext, WalkNext, StateNext, RootNext
  <1>3. AsyncInv'
    <2>1. WaitInv' /\ TimeInv' /\ OrderInv' /\ OutInv' /\ ExecInv' /\ GatherInv'
      BY <1>1, WaitNext, OrderNext, OutNext
    <2>2. FailInv' /\ ParentInv'
      BY <1>1, FailNext, ParentNext
    <2> QED BY <2>1, <2>2 DEF AsyncInv
  <1> QED BY <1>2, <1>3, ReadyNext DEF FullInv, IInv

\* The asserts of js_inner_module_linking and js_link_module hold.
LEMMA Linking == FullInv => LinkAsserts
  <1> SUFFICES ASSUME FullInv, phase = "link"
               PROVE  /\ ~AllRequired => status[Callee] # "EVALUATING"
                      /\ \A m \in Range(stack) : status[m] = "LINKING"
                      /\ AllRequired => dfs_ancestor_index[This] <= dfs_index[This]
                      /\ calls = <<>> => stack = <<>>
    BY DEF LinkAsserts
  <1>0. IInv /\ TypeOK /\ FrameInv /\ StackInv /\ CallsInv /\ Walking
    BY DEF FullInv, IInv, WalkInv, Walking
  <1>1. ~AllRequired => status[Callee] # "EVALUATING"
    BY <1>0, CalleeIs, OtherWalk
  <1>2. AllRequired => This \in On
    BY <1>0, CallIs DEF AllRequired, CallsInv
  <1> QED BY <1>0, <1>1, <1>2 DEF StackInv, CallsInv, OnStack, On

\* The asserts of js_inner_module_evaluation and js_evaluate_module hold.
LEMMA Evaluating == FullInv => EvaluateAsserts
  <1> SUFFICES ASSUME FullInv, phase = "evaluate" PROVE EvaluateAsserts
    BY DEF EvaluateAsserts
  <1>0. IInv /\ TypeOK /\ FrameInv /\ StackInv /\ CallsInv /\ LinkedInv /\ RootInv /\ Walking /\ RootReady
        /\ \A m \in Module : StateOf(m)
    BY DEF FullInv, IInv, WalkInv, StateInv, Walking
  <1>1. \A m \in Range(stack) : status[m] = "EVALUATING"
    BY <1>0 DEF StackInv, OnStack, On
  <1>2. ASSUME AllRequired
        PROVE  ~async_evaluation[This] /\ dfs_ancestor_index[This] <= dfs_index[This]
    <2>1. This \in On /\ ~async_evaluation[This]
      BY <1>0, <1>2, ThisIs DEF AllRequired
    <2> QED BY <1>0, <2>1 DEF StackInv
  <1>3. ASSUME calls = <<>>
        PROVE  stack = <<>> /\ root \in Module /\ status[root] \in {"LINKED"} \cup Ended
    <2>1. stack = <<>> /\ On = {} /\ root \in Module
      BY <1>0, <1>3 DEF CallsInv, FrameInv, On, Range
    <2>2. status[root] \in Status
      BY <1>0, <2>1 DEF TypeOK
    <2> QED BY <1>0, <2>1, <2>2 DEF StackInv, RootReady, Status, Ended
  <1>4. ASSUME ~AllRequired
        PROVE  /\ status[Callee] \in {"LINKED", "EVALUATING"} \cup Ended
               /\ status[Callee] \in Ended => status[cycle_root[Callee]] \in Ended
    <2>1. Callee \in Module /\ (calls = <<>> => Callee = root)
          /\ (calls # <<>> => Next1 \in 1..Len(req[This]) /\ Callee = req[This][Next1])
      BY <1>0, <1>4, CalleeIs
    <2>2. status[Callee] \in {"LINKED", "EVALUATING"} \cup Ended
      <3>1. CASE calls = <<>>
        BY <1>3, <2>1, <3>1
      <3>2. CASE calls # <<>>
        <4>1. This \in Module /\ status[This] \in Linked
          BY <1>0, <3>2, ThisIs DEF Linked
        <4> QED BY <1>0, <2>1, <3>2, <4>1 DEF LinkedInv, Linked
      <3> QED BY <3>1, <3>2
    <2> QED BY <1>0, <2>1, <2>2 DEF RootInv
  <1>5. ASSUME calls = <<>>, status[root] # "LINKED"
        PROVE  /\ stack = <<>>
               /\ eval_has_exception[root] => status[root] = "EVALUATED"
               /\ async_evaluation[root] \/ status[root] = "EVALUATED"
    <2>1. stack = <<>> /\ root \in Module /\ status[root] \in Ended
      BY <1>3, <1>5
    <2> QED BY <1>0, <2>1, FailedEnded DEF StateOf, Ended
  <1> QED BY <1>1, <1>2, <1>4, <1>5 DEF EvaluateAsserts

\* The asserts of the reactions and of gather_available_ancestors hold.
LEMMA Reacts == FullInv => ReactionAsserts
  <1> SUFFICES ASSUME FullInv PROVE ReactionAsserts
    OBVIOUS
  <1>0. IInv /\ TypeOK /\ FrameInv /\ RootInv /\ ExecInv /\ FailInv /\ \A m \in Module : StateOf(m)
    BY DEF FullInv, IInv, StateInv, AsyncInv
  <1>1. ASSUME NEW m \in Module, status[m] \in Ended, body[m] \in {"running", "unrun"}
        PROVE  WaitsAssert(m)
    BY <1>0, <1>1 DEF WaitsAssert, StateOf, Ended
  <1>2. ASSUME phase = "idle", NEW m \in Module, body[m] = "running" PROVE WaitsAssert(m)
    <2>1. status[m] \in Ended
      BY <1>0, <1>2, Quiet DEF Walking
    <2> QED BY <1>1, <1>2, <2>1
  <1>3. ASSUME phase = "gather", ~AllParents, ~PassedOver(Parent)
        PROVE  /\ status[Parent] = "EVALUATING_ASYNC" /\ WaitsAssert(Parent)
               /\ pending_async_dependencies[Parent] > 0
    <2> SUFFICES ASSUME NEW p, p = Parent, NEW t, t = This, NEW n, n = Next1
                 PROVE  status[p] = "EVALUATING_ASYNC" /\ WaitsAssert(p) /\ pending_async_dependencies[p] > 0
      OBVIOUS
    <2>1. /\ p \in Module /\ status[p] = "EVALUATING_ASYNC" /\ body[p] = "unrun"
          /\ pending_async_dependencies[p] > 0
      BY <1>0, <1>3, GatherIs
    <2>2. status[p] \in Ended
      BY <2>1 DEF Ended
    <2> QED BY <1>1, <2>1, <2>2
  <1>4. ASSUME phase = "exec", NEW m \in exec_list PROVE WaitsAssert(m)
    <2>1. m \in Module /\ body[m] = "unrun" /\ status[m] \in Ended
      BY <1>0 DEF ExecInv, TypeOK
    <2> QED BY <1>1, <2>1
  <1>5. ASSUME phase = "reject", AllParents PROVE SettleAssert(This)
    <2>1. calls # <<>>
      BY <1>0, <1>5 DEF FrameInv
    <2>2. This \in Module /\ This = calls[1].mod /\ 1 \in 1..Len(calls)
      BY <1>0, <2>1, CallIs
    <2>3. eval_has_exception[This]
      BY <1>0, <1>5, <2>2 DEF FailInv
    <2>4. status[This] \in Ended
      BY <1>0, <2>2, <2>3, FailedEnded DEF Ended
    <2> QED BY <1>0, <2>2, <2>4 DEF RootInv, SettleAssert
  <1>6. ASSUME phase = "reject", ~AllParents PROVE WaitsAssert(Parent)
    <2>1. Parent \in Module /\ status[Parent] \in Ended
      BY <1>0, <1>6, ParentWaits
    <2>2. CASE status[Parent] = "EVALUATED"
      <3>1. eval_has_exception[Parent]
        BY <1>0, <1>6, <2>2, ParentFailed DEF GivenUp
      <3> QED BY <2>2, <3>1 DEF WaitsAssert
    <2>3. CASE status[Parent] = "EVALUATING_ASYNC"
      BY <1>0, <2>1, <2>3 DEF WaitsAssert, StateOf
    <2> QED BY <2>1, <2>2, <2>3 DEF Ended
  <1> QED BY <1>2, <1>3, <1>4, <1>5, <1>6 DEF ReactionAsserts

\* ... all of them
LEMMA Asserts == FullInv => NoAssertFails
  <1> SUFFICES ASSUME FullInv PROVE NoAssertFails
    OBVIOUS
  <1>1. IInv /\ TypeOK /\ RootInv /\ \A m \in Module : StateOf(m)
    BY DEF FullInv, IInv, StateInv
  <1>2. LinkAsserts /\ EvaluateAsserts /\ ReactionAsserts
    BY Linking, Evaluating, Reacts
  <1>3. ASSUME NEW m \in Module, promise[m] \in {"fulfilled", "rejected"} PROVE SettleAssert(m)
    <2>1. status[m] \in Ended
      BY <1>1, <1>3, NoPromise
    <2> QED BY <1>1, <2>1 DEF RootInv, SettleAssert
  <1> QED BY <1>1, <1>2, <1>3 DEF NoAssertFails

\* None of the assert()s that quickjs.c makes of a module's status, its promise, its
\* cycle root and the stack while it links, evaluates and reacts to the end of top-level awaits
\* fails (29214-29442, 29765-30156), whatever the modules request of each other, which of them await,
\* throw or reject, and when they are imported: for any set of modules.
THEOREM Unfailing == Spec => []NoAssertFails
  <1>1. Init => FullInv
    BY InitInv
  <1>2. FullInv /\ [Next]_vars => FullInv'
    BY InvNext
  <1>3. FullInv => NoAssertFails
    BY Asserts
  <1> QED BY <1>1, <1>2, <1>3, PTL DEF Spec
----------------------------------------------------------------------------
(* What a module needs *)

\* A module needs itself
LEMMA ReachSelf == ASSUME NEW m \in Module PROVE m \in Reach(m)
  BY DEF Reach

\* ... what it requests
LEMMA ReachEdge ==
  ASSUME TypeOK, NEW m \in Module, NEW y \in Range(req[m])
  PROVE  y \in Reach(m) /\ y \in Module
  <1>1. y \in Module
    BY DEF TypeOK, Range
  <1>2. ASSUME NEW S \in SUBSET Module, m \in S, ClosedUnderReq(S) PROVE y \in S
    BY <1>2 DEF ClosedUnderReq
  <1> QED BY <1>1, <1>2 DEF Reach

\* ... and what those need
LEMMA ReachTrans ==
  ASSUME NEW x, NEW y \in Reach(x), NEW z \in Reach(y)
  PROVE  z \in Reach(x)
  BY DEF Reach

\* ... and nothing else
LEMMA ReachLeast ==
  ASSUME NEW S \in SUBSET Module, ClosedUnderReq(S), NEW m \in S
  PROVE  Reach(m) \subseteq S
  BY DEF Reach

\* What is requested at a position, in both forms
LEMMA RequestIs ==
  ASSUME TypeOK, NEW x \in Module
  PROVE  /\ \A n \in 1..Len(req[x]) : req[x][n] \in Range(req[x])
         /\ \A y \in Range(req[x]) : \E n \in 1..Len(req[x]) : req[x][n] = y
  <1>1. req[x] \in Seq(Module)
    BY DEF TypeOK
  <1>2. DOMAIN req[x] = 1..Len(req[x])
    BY <1>1
  <1> QED BY <1>2 DEF Range

\* The requests never change
LEMMA ReqSame == ASSUME [Next]_vars PROVE req' = req
  <1>1. CASE Link
    BY <1>1 DEF Link, LinkEnter, LinkRequired, LinkDone, LinkFail, files
  <1>2. CASE Evaluate
    BY <1>2 DEF Evaluate, EvaluateModule, EvalEnter, EvalRequired, EvalFail, EvalDone, EvalThrow, EvaluateReturn, files
  <1>3. CASE Reaction
    BY <1>3 DEF Reaction, GatherParent, GatherReturn, ExecEnd, RejectParent, RejectReturn, ExecSkip,
       ExecAsync, ExecSync, ExecThrow, files
  <1>4. CASE \E m \in Module : Import(m) \/ Await(m)
    BY <1>4 DEF Import, Await, Fulfilled, Rejected, files
  <1>5. CASE UNCHANGED vars
    BY <1>5 DEF vars, files
  <1> QED BY <1>1, <1>2, <1>3, <1>4, <1>5 DEF Next

\* ... nor what is needed
LEMMA ReachSame == ASSUME req' = req PROVE \A x : Reach(x)' = Reach(x)
  <1>1. \A S : ClosedUnderReq(S)' <=> ClosedUnderReq(S)
    BY DEF ClosedUnderReq
  <1> QED BY <1>1 DEF Reach

----------------------------------------------------------------------------
(* What lasts *)

\* A module all of whose cycle has run
Complete(y) == status[y] \in Ended /\ Finished(cycle_root[y])

\* What no step takes back
Lasting ==
  /\ req' = req
  /\ \A x : Reach(x)' = Reach(x)
  /\ \A x \in Module : status[x] \in Ended => status'[x] \in Ended /\ cycle_root'[x] = cycle_root[x]
  /\ \A x \in Module : eval_has_exception[x] => eval_has_exception'[x]
  /\ \A p, y \in Module : Waits(p, y) => Waits(p, y)'
  /\ \A x \in Module : Finished(x) => Finished(x)'
  /\ \A x \in Module : Complete(x) => Complete(x)'
  /\ \A x \in Module : body[x] # "unrun" => body'[x] # "unrun"
  /\ \A x \in Module : body[x] = "threw" => body'[x] = "threw"

\* How a body changes: it starts, or it ends after an await
Started(m, o) == m \in Module /\ o \in {"running", "done", "threw"} /\ body[m] = "unrun" /\ Run(m, o)
\* ... the second
Resumed(m, o) == /\ m \in Module /\ o \in {"done", "threw"} /\ body[m] = "running"
                 /\ body' = [body EXCEPT ![m] = o] /\ ran' = ran

\* ... and nothing else happens to it
LEMMA BodyNext ==
  ASSUME IInv, [Next]_vars
  PROVE  \/ UNCHANGED runs
         \/ \E m, o : Started(m, o)
         \/ \E m, o : Resumed(m, o)
  <1>0. TypeOK /\ ExecInv
    BY DEF IInv, AsyncInv
  <1>1. CASE Calm
    BY <1>1 DEF Calm, Link, LinkEnter, LinkRequired, LinkDone, LinkFail, Import, EvaluateModule, EvaluateReturn, ExecEnd, runs
  <1>2. CASE EvalEnter \/ EvalRequired \/ EvalFail
    BY <1>2 DEF EvalEnter, EvalRequired, EvalFail
  <1>3. CASE EvalThrow \/ EvalDone
    <2>1. phase = "evaluate" /\ calls # <<>>
      BY <1>3 DEF EvalThrow, EvalDone, AllRequired
    <2>2. This \in Module /\ body[This] = "unrun"
      BY <2>1, ThisIs
    <2>3. UNCHANGED runs \/ \E o \in {"running", "done", "threw"} : Run(This, o)
      BY <1>3 DEF EvalThrow, EvalDone
    <2> QED BY <2>2, <2>3 DEF Started
  <1>4. CASE GatherParent \/ GatherReturn \/ RejectParent \/ RejectReturn
    BY <1>4 DEF GatherParent, GatherReturn, RejectParent, RejectReturn
  <1>5. ASSUME NEW m \in Module, ExecSkip(m) PROVE UNCHANGED runs
    BY <1>5 DEF ExecSkip
  <1>6. ASSUME NEW m \in Module, ExecAsync(m) \/ ExecSync(m) \/ ExecThrow(m)
        PROVE  \E o : Started(m, o)
    <2>1. m \in exec_list /\ \E o \in {"running", "done", "threw"} : Run(m, o)
      BY <1>6 DEF ExecAsync, ExecSync, ExecThrow, IsFirst
    <2>2. body[m] = "unrun"
      BY <1>0, <2>1 DEF ExecInv
    <2> QED BY <2>1, <2>2 DEF Started
  <1>7. ASSUME NEW m \in Module, Fulfilled(m) \/ Rejected(m) PROVE \E o : Resumed(m, o)
    <2>1. /\ body[m] = "running" /\ ran' = ran
          /\ \E o \in {"done", "threw"} : body' = [body EXCEPT ![m] = o]
      BY <1>7 DEF Fulfilled, Rejected
    <2> QED BY <2>1 DEF Resumed
  <1>8. CASE UNCHANGED vars
    BY <1>8 DEF vars
  <1> QED BY <1>1, <1>2, <1>3, <1>4, <1>5, <1>6, <1>7, <1>8, Steps

\* What is evaluated stays so, with its root, ...
LEMMA EndedLasts ==
  ASSUME IInv, [Next]_vars
  PROVE  \A x \in Module : status[x] \in Ended => status'[x] \in Ended /\ cycle_root'[x] = cycle_root[x]
  <1>0. TypeOK /\ TypeOK' /\ StackInv
    BY TypeNext DEF IInv, WalkInv
  <1>1. CASE Steady
    BY <1>0, <1>1, SteadyIs
  <1>2. CASE EvalFail \/ EvalThrow
    <2>1. /\ status' = [m \in Module |-> IF m \in On THEN "EVALUATED" ELSE status[m]]
          /\ cycle_root' = [m \in Module |-> IF m \in On THEN root ELSE cycle_root[m]]
          /\ phase = "evaluate"
      BY <1>2 DEF EvalFail, EvalThrow, Unwind, On
    <2>2. \A x \in On : status[x] \notin Ended
      BY <1>0, <2>1 DEF StackInv, OnStack, Ended
    <2> QED BY <2>1, <2>2
  <1>3. CASE EvalDone
    <2> SUFFICES ASSUME NEW t, t = This
        PROVE  \A x \in Module : status[x] \in Ended => status'[x] \in Ended /\ cycle_root'[x] = cycle_root[x]
      OBVIOUS
    <2>1. /\ status' = [m \in Module |-> IF m \notin Popped(t) THEN status[m]
                                     ELSE IF async_evaluation'[m] THEN "EVALUATING_ASYNC"
                                     ELSE "EVALUATED"]
          /\ cycle_root' = [m \in Module |-> IF m \in Popped(t) THEN t ELSE cycle_root[m]]
          /\ phase = "evaluate"
      BY <1>3 DEF EvalDone
    <2>2. Popped(t) \subseteq On
      BY <1>0, <1>3, EvalDoneIs DEF DoneStep
    <2>3. \A x \in On : status[x] \notin Ended
      BY <1>0, <2>1 DEF StackInv, OnStack, Ended
    <2> QED BY <2>1, <2>2, <2>3
  <1>4. CASE UNCHANGED vars
    BY <1>4 DEF vars
  <1> QED BY <1>1, <1>2, <1>3, <1>4, NextIs

\* ... a failure is not taken back, ...
LEMMA FailedLasts ==
  ASSUME IInv, [Next]_vars
  PROVE  \A x \in Module : eval_has_exception[x] => eval_has_exception'[x]
  <1>0. TypeOK /\ TypeOK'
    BY TypeNext DEF IInv
  <1>1. CASE Calm
    BY <1>0, <1>1, CalmIs
  <1>2. CASE EvalEnter \/ EvalRequired \/ EvalDone \/ GatherParent \/ GatherReturn \/ RejectReturn
    BY <1>2 DEF EvalEnter, EvalRequired, EvalDone, GatherParent, GatherReturn, RejectReturn
  <1>3. CASE EvalFail \/ EvalThrow
    BY <1>3 DEF EvalFail, EvalThrow, Unwind
  <1>4. ASSUME NEW m, eval_has_exception' = eval_has_exception \/ eval_has_exception' = [eval_has_exception EXCEPT ![m] = TRUE]
        PROVE  \A x \in Module : eval_has_exception[x] => eval_has_exception'[x]
    <2>1. eval_has_exception \in [Module -> BOOLEAN]
      BY <1>0 DEF TypeOK
    <2>2. CASE eval_has_exception' = [eval_has_exception EXCEPT ![m] = TRUE]
      BY <2>1, <2>2, Zenon
    <2> QED BY <1>4, <2>2
  <1>5. CASE RejectParent
    BY <1>4, <1>5 DEF RejectParent
  <1>6. ASSUME NEW m \in Module, \/ ExecSkip(m) \/ ExecAsync(m) \/ ExecSync(m) \/ ExecThrow(m)
                                 \/ Fulfilled(m) \/ Rejected(m)
        PROVE  \A x \in Module : eval_has_exception[x] => eval_has_exception'[x]
    <2>1. eval_has_exception' = eval_has_exception \/ eval_has_exception' = [eval_has_exception EXCEPT ![m] = TRUE]
      BY <1>6 DEF ExecSkip, ExecAsync, ExecSync, ExecThrow, Fulfilled, Rejected, Reject
    <2> QED BY <1>4, <2>1
  <1>7. CASE UNCHANGED vars
    BY <1>7 DEF vars
  <1> QED BY <1>1, <1>2, <1>3, <1>5, <1>6, <1>7, Steps

\* ... nor is who waits, and only EvalRequired adds to it, ...
LEMMA WaitsLast ==
  ASSUME IInv, [Next]_vars
  PROVE  \A p, y \in Module : /\ Waits(p, y) => Waits(p, y)'
                              /\ Waits(p, y)' /\ ~EvalRequired => Waits(p, y)
  <1>0. TypeOK /\ TypeOK'
    BY TypeNext DEF IInv
  <1>1. CASE EvalRequired
    BY <1>1, RequiredWaits
  <1>2. CASE ~EvalRequired
    <2>1. async_parent_modules' = async_parent_modules
      <3>1. CASE Steady
        BY <1>0, <1>2, <3>1, SteadyIs
      <3>2. CASE EvalFail \/ EvalDone \/ EvalThrow
        BY <3>2 DEF EvalFail, EvalDone, EvalThrow, waits
      <3>3. CASE UNCHANGED vars
        BY <3>3 DEF vars, waits
      <3> QED BY <3>1, <3>2, <3>3, NextIs
    <2> QED BY <2>1 DEF Waits
  <1> QED BY <1>1, <1>2

\* ... nor what has run
LEMMA BodyLasts ==
  ASSUME IInv, [Next]_vars
  PROVE  /\ \A x \in Module : body[x] # "unrun" => body'[x] # "unrun"
         /\ \A x \in Module : body[x] = "threw" => body'[x] = "threw"
  <1>0. body \in [Module -> {"unrun", "running", "done", "threw"}]
    BY DEF IInv, TypeOK
  <1>1. CASE UNCHANGED runs
    BY <1>1 DEF runs
  <1>2. ASSUME NEW m, NEW o, Started(m, o)
        PROVE  /\ \A x \in Module : body[x] # "unrun" => body'[x] # "unrun"
               /\ \A x \in Module : body[x] = "threw" => body'[x] = "threw"
    BY <1>0, <1>2 DEF Started, Run
  <1>3. ASSUME NEW m, NEW o, Resumed(m, o)
        PROVE  /\ \A x \in Module : body[x] # "unrun" => body'[x] # "unrun"
               /\ \A x \in Module : body[x] = "threw" => body'[x] = "threw"
    BY <1>0, <1>3 DEF Resumed
  <1> QED BY <1>1, <1>2, <1>3, BodyNext

\* Nothing of this is taken back.
LEMMA LastingNext == IInv /\ [Next]_vars => Lasting
  <1> SUFFICES ASSUME IInv, [Next]_vars PROVE Lasting
    OBVIOUS
  <1>1. req' = req /\ \A x : Reach(x)' = Reach(x)
    BY ReqSame, ReachSame
  <1>2. \A x \in Module : Finished(x) => Finished(x)'
    BY OrderNext DEF OrderStep
  <1>3. \A x \in Module : Complete(x) => Complete(x)'
    <2> SUFFICES ASSUME NEW x \in Module, Complete(x) PROVE Complete(x)'
      OBVIOUS
    <2>1. status[x] \in Ended /\ Finished(cycle_root[x])
      BY DEF Complete
    <2>2. cycle_root[x] \in Module
      BY <2>1 DEF IInv, RootInv
    <2>3. status'[x] \in Ended /\ cycle_root'[x] = cycle_root[x]
      BY <2>1, EndedLasts
    <2>4. Finished(cycle_root[x])'
      <3> SUFFICES ASSUME NEW r, r = cycle_root[x], r = cycle_root'[x] PROVE Finished(cycle_root[x])'
        BY <2>3
      <3>1. Finished(r)'
        BY <1>2, <2>1, <2>2
      <3> QED BY <3>1 DEF Finished
    <2> QED BY <2>3, <2>4 DEF Complete
  <1> QED BY <1>1, <1>2, <1>3, EndedLasts, FailedLasts, WaitsLast, BodyLasts DEF Lasting
----------------------------------------------------------------------------
(* Modules that are complete *)

\* Each module of a cycle whose root has run to its end has run to its end: who
\* has not finished is waited for by one entered earlier, and that goes back to the root.
LEMMA CycleDone ==
  ASSUME IInv, NEW x \in Module, Complete(x)
  PROVE  body[x] = "done"
  <1>0. TypeOK /\ RootInv /\ CycleInv /\ FaultInv /\ OrderInv /\ \A z \in Module : StateOf(z)
    BY DEF IInv, StateInv, AsyncInv, ParentInv, CycleInv, FaultInv
  <1> DEFINE U == {z \in Module : Complete(z) /\ body[z] # "done"}
             T == {dfs_index[z] : z \in U}
  <1>1. SUFFICES ASSUME U # {} PROVE FALSE
    OBVIOUS
  <1>2. T \in SUBSET Nat /\ T # {}
    <2>1. \A z \in U : dfs_index[z] \in Nat
      BY <1>0 DEF TypeOK
    <2>2. PICK z : z \in U
      BY <1>1
    <2>3. dfs_index[z] \in T
      BY <2>2
    <2> HIDE DEF U
    <2> QED BY <2>1, <2>3
  <1>3. PICK n \in T : \A m \in T : ~(m < n)
    <2> HIDE DEF T
    <2> QED BY <1>2, Least
  <1>4. PICK z \in U : dfs_index[z] = n
    BY <1>3
  <1>5. z \in Module /\ status[z] \in Ended /\ Finished(cycle_root[z]) /\ body[z] # "done" /\ StateOf(z)
    BY <1>0, <1>4 DEF Complete
  <1>6. ~eval_has_exception[cycle_root[z]]
    BY <1>5 DEF Finished
  <1>7. CASE ~async_evaluation[z]
    <2>1. ~eval_has_exception[z]
      BY <1>0, <1>5, <1>6, <1>7 DEF FaultInv
    <2> QED BY <1>5, <1>7, <2>1 DEF StateOf, Ended
  <1>8. CASE async_evaluation[z] /\ z = cycle_root[z]
    BY <1>5, <1>8 DEF Finished
  <1>9. CASE async_evaluation[z] /\ z # cycle_root[z]
    <2>1. PICK p \in Module : /\ Waits(p, z) /\ dfs_index[p] < dfs_index[z]
                              /\ status[p] \in Ended /\ cycle_root[p] = cycle_root[z]
      BY <1>0, <1>5, <1>6, <1>9 DEF CycleInv
    <2>2. Complete(p)
      BY <1>5, <2>1 DEF Complete
    <2>3. body[p] = "done"
      <3>1. CASE p \in U
        BY <1>3, <1>4, <2>1, <3>1
      <3>2. CASE p \notin U
        BY <2>1, <2>2, <3>2
      <3> QED BY <3>1, <3>2
    <2> QED BY <1>0, <1>5, <2>1, <2>3 DEF OrderInv
  <1> QED BY <1>7, <1>8, <1>9

\* What an evaluated module requests is of its cycle, or it is complete, or waited for
EdgeOf(x, y) ==
  /\ status[y] \in Ended
  /\ \/ cycle_root[y] = cycle_root[x] /\ x \in Reach(y)
     \/ Complete(y)
     \/ Waits(x, cycle_root[y])
\* ... and that holds of all of them, but in a cycle that has failed as a whole
EdgeDone ==
  \A x \in Module : \A y \in Range(req[x]) :
    status[x] \in Ended /\ (~eval_has_exception[x] \/ ~eval_has_exception[cycle_root[x]]) =>
      EdgeOf(x, y)

\* Who waits for the root of a cycle and has run found the cycle complete
LEMMA WaitedDone ==
  ASSUME IInv, NEW x \in Module, body[x] # "unrun", NEW y \in Module, status[y] \in Ended,
         Waits(x, cycle_root[y])
  PROVE  Complete(y)
  <1>1. cycle_root[y] \in Module
    BY DEF IInv, RootInv
  <1>2. Finished(cycle_root[y])
    BY <1>1 DEF IInv, AsyncInv, OrderInv, Finished
  <1> QED BY <1>2 DEF Complete

\* What a complete module requests is complete
LEMMA CompleteNeeds ==
  ASSUME IInv, EdgeDone, NEW x \in Module, Complete(x), NEW y \in Range(req[x])
  PROVE  Complete(y)
  <1>1. y \in Module
    BY ReachEdge DEF IInv
  <1>2. status[x] \in Ended /\ ~eval_has_exception[cycle_root[x]] /\ Finished(cycle_root[x])
    BY DEF Complete, Finished
  <1>3. EdgeOf(x, y)
    BY <1>2 DEF EdgeDone
  <1>4. body[x] # "unrun"
    BY CycleDone
  <1>5. CASE cycle_root[y] = cycle_root[x]
    BY <1>2, <1>3, <1>5 DEF EdgeOf, Complete
  <1>6. CASE Waits(x, cycle_root[y])
    BY <1>1, <1>3, <1>4, <1>6, WaitedDone DEF EdgeOf
  <1> QED BY <1>3, <1>5, <1>6 DEF EdgeOf

\* ... and so on: all that a complete module needs has run.
LEMMA AllDone ==
  ASSUME IInv, EdgeDone, NEW x \in Module, Complete(x)
  PROVE  \A z \in Reach(x) : body[z] = "done"
  <1> DEFINE S == {z \in Module : Complete(z)}
  <1>1. ClosedUnderReq(S)
    <2> SUFFICES ASSUME NEW z \in S PROVE Range(req[z]) \subseteq S
      BY DEF ClosedUnderReq
    <2>1. \A y \in Range(req[z]) : y \in Module /\ Complete(y)
      BY CompleteNeeds, ReachEdge DEF IInv
    <2> QED BY <2>1
  <1>2. S \in SUBSET Module /\ x \in S
    OBVIOUS
  <1>3. Reach(x) \subseteq S
    <2> HIDE DEF S
    <2> QED BY <1>1, <1>2, ReachLeast
  <1> QED BY <1>3, CycleDone
----------------------------------------------------------------------------
(* The walk and what the modules on its stack need of each other *)

\* A call's module needs all that is above it on the stack
DownInv == phase = "evaluate" => \A q \in Called : \A x \in On :
  dfs_index[q] <= dfs_index[x] => x \in Reach(q)
\* Each module on the stack needs one below it that has a call, or has one
UpInv == phase = "evaluate" => \A x \in On : \E q \in Called :
  dfs_index[q] <= dfs_index[x] /\ q \in Reach(x)
\* dfs_ancestor_index is that of a module needed
BackInv == phase = "evaluate" => \A x \in On : \E z \in On :
  dfs_index[z] = dfs_ancestor_index[x] /\ z \in Reach(x)
\* All three, and what the steps of the evaluation do to them
NeedInv == DownInv /\ UpInv /\ BackInv

\* What the calls are to the stack
LEMMA CalledIs ==
  ASSUME IInv, phase = "evaluate"
  PROVE  /\ On \subseteq Module /\ Called \subseteq On
         /\ \A x \in Module : dfs_index[x] \in Nat /\ dfs_ancestor_index[x] \in Nat
         /\ \A x \in On : dfs_index[x] < index /\ dfs_ancestor_index[x] <= dfs_index[x]
         /\ \A x \in Module : x \in On <=> status[x] = "EVALUATING"
         /\ calls # <<>> => \A q \in Called : dfs_index[q] <= dfs_index[This]
         /\ \A x, y \in On : dfs_index[x] = dfs_index[y] => x = y
         /\ index \in Nat
  <1>0. TypeOK /\ FrameInv /\ StackInv /\ CallsInv /\ Walking
    BY DEF IInv, WalkInv, Walking
  <1>1. On \subseteq Module /\ index \in Nat /\ \A x \in Module : dfs_index[x] \in Nat /\ dfs_ancestor_index[x] \in Nat
    BY <1>0, OnIs
  <1>2. Called \subseteq On
    BY <1>0 DEF CallsInv, Called
  <1>3. \A x \in Module : x \in On <=> status[x] = "EVALUATING"
    BY <1>0 DEF StackInv, OnStack
  <1>4. \A x \in On : dfs_index[x] < index /\ dfs_ancestor_index[x] <= dfs_index[x]
    BY <1>0 DEF StackInv
  <1>5. calls # <<>> => \A q \in Called : dfs_index[q] <= dfs_index[This]
    <2>1. calls # <<>> => \A k \in 1..Len(calls) : dfs_index[calls[k].mod] <= dfs_index[This]
      BY <1>0, ThisLast
    <2> QED BY <2>1 DEF Called
  <1>6. \A x, y \in On : dfs_index[x] = dfs_index[y] => x = y
    BY Apart
  <1> QED BY <1>1, <1>2, <1>3, <1>4, <1>5, <1>6

\* The innermost call's module is needed by all on the stack
LEMMA ThisNeeded ==
  ASSUME IInv, NeedInv, phase = "evaluate", calls # <<>>, NEW x \in On
  PROVE  This \in Reach(x)
  <1>1. PICK q \in Called : q \in Reach(x)
    BY DEF NeedInv, UpInv
  <1>2. This \in On /\ dfs_index[q] <= dfs_index[This]
    BY CalledIs, ThisIs
  <1>3. This \in Reach(q)
    BY <1>2 DEF NeedInv, DownInv
  <1> QED BY <1>1, <1>3, ReachTrans

\* A module is entered
LEMMA EnterIs ==
  ASSUME IInv, EvalEnter, NEW c, c = Callee
  PROVE  /\ c \in Module /\ status[c] = "LINKED" /\ c \notin On /\ phase = "evaluate" /\ phase' = phase
         /\ On' = On \cup {c} /\ Called' = Called \cup {c} /\ calls' # <<>>
         /\ dfs_index'[c] = index /\ dfs_ancestor_index'[c] = index
         /\ \A x \in Module : x # c => /\ dfs_index'[x] = dfs_index[x] /\ status'[x] = status[x]
                                       /\ dfs_ancestor_index'[x] = dfs_ancestor_index[x]
         /\ status'[c] = "EVALUATING"
         /\ calls # <<>> => c \in Range(req[This])
         /\ \A x \in Module : x # c => \A n \in Nat : Passed(x, n)' => Passed(x, n)
         /\ \A n \in Nat : n >= 1 => ~Passed(c, n)'
  <1>0. TypeOK /\ FrameInv /\ StackInv /\ CallsInv
    BY DEF IInv, WalkInv
  <1>1. /\ c \in Module /\ status[c] = "LINKED" /\ phase = "evaluate" /\ Walking /\ phase' = phase
        /\ dfs_index' = [dfs_index EXCEPT ![c] = index]
        /\ dfs_ancestor_index' = [dfs_ancestor_index EXCEPT ![c] = index]
        /\ status' = [status EXCEPT ![c] = "EVALUATING"]
        /\ stack' = <<c>> \o stack
        /\ calls' = <<[mod |-> c, next |-> 1]>> \o calls
        /\ ~AllRequired
    BY <1>0, CalleeIs DEF EvalEnter, Enter, Walking
  <1>2. c \notin On
    BY <1>0, <1>1 DEF StackInv
  <1>3. On' = On \cup {c}
    <2>1. stack \in Seq(Module)
      BY <1>0 DEF TypeOK
    <2> QED BY <1>1, <2>1, Push DEF On
  <1>4. calls \in Seq(Frame)
    BY <1>0 DEF TypeOK
  <1>5. /\ Called' = {calls[k].mod : k \in 1..Len(calls)} \cup {c}
        /\ calls'[1] = [mod |-> c, next |-> 1]
        /\ \A k \in 1..Len(calls) : calls'[k + 1] = calls[k] /\ k + 1 \in 1..Len(calls')
        /\ 1 \in 1..Len(calls')
    BY <1>1, <1>4, PushCalled
  <1>6. /\ dfs_index'[c] = index /\ \A x \in Module : x # c => dfs_index'[x] = dfs_index[x]
        /\ dfs_ancestor_index'[c] = index
        /\ \A x \in Module : x # c => dfs_ancestor_index'[x] = dfs_ancestor_index[x]
    BY <1>0, <1>1 DEF TypeOK
  <1>7. /\ status'[c] = "EVALUATING" /\ \A x \in Module : x # c => status'[x] = status[x]
    BY <1>0, <1>1 DEF TypeOK
  <1>8. calls # <<>> => c \in Range(req[This])
    <2>1. calls # <<>> => This \in Module /\ Next1 \in 1..Len(req[This]) /\ c = req[This][Next1]
      BY <1>0, <1>1, CalleeIs, CallIs
    <2> QED BY <1>0, <2>1, RequestIs
  <1>9. \A x \in Module : \A n \in Nat : Passed(x, n)' => Passed(x, n)
    BY <1>5 DEF Passed
  <1>10. \A n \in Nat : n >= 1 => ~Passed(c, n)'
    <2> SUFFICES ASSUME NEW n \in Nat, n >= 1, Passed(c, n)' PROVE FALSE
      OBVIOUS
    <2>1. calls'[1].mod = c /\ calls'[1].next = 1
      BY <1>5
    <2>2. n < 1
      BY <1>5, <2>1 DEF Passed
    <2> QED BY <2>2
  <1>11. calls' # <<>>
    <2>1. 1 \in 1..Len(calls')
      BY <1>5
    <2> QED BY <2>1
  <1> QED BY <1>1, <1>2, <1>3, <1>5, <1>6, <1>7, <1>8, <1>9, <1>10, <1>11 DEF Called

\* NeedInv is kept when a module is entered, ...
LEMMA NeedEnter ==
  ASSUME IInv, [Next]_vars, NeedInv, EvalEnter
  PROVE  NeedInv'
  <1> SUFFICES ASSUME NEW c, c = Callee PROVE NeedInv'
    OBVIOUS
  <1>1. /\ c \in Module /\ c \notin On /\ phase = "evaluate"
        /\ On' = On \cup {c} /\ Called' = Called \cup {c}
        /\ dfs_index'[c] = index /\ dfs_ancestor_index'[c] = index
        /\ \A x \in Module : x # c => /\ dfs_index'[x] = dfs_index[x]
                                      /\ dfs_ancestor_index'[x] = dfs_ancestor_index[x]
        /\ calls # <<>> => c \in Range(req[This])
    BY EnterIs
  <1>2. /\ On \subseteq Module /\ Called \subseteq On
        /\ \A x \in On : dfs_index[x] < index /\ dfs_index[x] \in Nat /\ index \in Nat
        /\ \A x \in On : ~(index <= dfs_index[x])
    <2>1. /\ On \subseteq Module /\ Called \subseteq On
          /\ \A x \in Module : dfs_index[x] \in Nat
          /\ \A x \in On : dfs_index[x] < index
          /\ index \in Nat
      BY <1>1, CalledIs
    <2>2. \A a, b \in Nat : a < b => ~(b <= a)
      OBVIOUS
    <2> QED BY <2>1, <2>2
  <1>R. \A x : Reach(x)' = Reach(x)
    BY ReqSame, ReachSame
  <1>3. DownInv'
    <2> SUFFICES ASSUME NEW q \in Called', NEW x \in On', dfs_index'[q] <= dfs_index'[x]
                 PROVE  x \in Reach(q)
      BY <1>R DEF DownInv
    <2>1. CASE q = c /\ x # c
      BY <1>1, <1>2, <2>1
    <2>2. CASE q # c /\ x # c
      <3>1. q \in Called /\ x \in On /\ dfs_index[q] <= dfs_index[x]
        BY <1>1, <1>2, <2>2
      <3> QED BY <1>1, <3>1 DEF NeedInv, DownInv
    <2>3. CASE q # c /\ x = c
      <3>1. q \in Called /\ q \in On
        BY <1>1, <1>2, <2>3
      <3>2. calls # <<>>
        <4>1. calls = <<>> => Len(calls) = 0
          OBVIOUS
        <4> QED BY <3>1, <4>1 DEF Called
      <3>3. This \in On /\ dfs_index[q] <= dfs_index[This] /\ This \in Module
        BY <1>1, <3>1, <3>2, CalledIs, ThisIs
      <3>4. This \in Reach(q)
        BY <1>1, <3>1, <3>3 DEF NeedInv, DownInv
      <3>5. c \in Reach(This)
        BY <1>1, <3>2, <3>3, ReachEdge DEF IInv
      <3> QED BY <2>3, <3>4, <3>5, ReachTrans
    <2>4. CASE q = c /\ x = c
      BY <1>1, <2>4, ReachSelf
    <2> QED BY <2>1, <2>2, <2>3, <2>4
  <1>4. UpInv'
    <2> SUFFICES ASSUME NEW x \in On' PROVE \E q \in Called' : dfs_index'[q] <= dfs_index'[x] /\ q \in Reach(x)
      BY <1>R DEF UpInv
    <2>1. CASE x = c
      <3>1. c \in Reach(c) /\ index <= index
        BY <1>1, <1>2, ReachSelf, CalledIs
      <3> QED BY <1>1, <2>1, <3>1
    <2>2. CASE x # c
      <3>1. x \in On /\ x \in Module
        BY <1>1, <1>2, <2>2
      <3>2. PICK q \in Called : dfs_index[q] <= dfs_index[x] /\ q \in Reach(x)
        BY <1>1, <3>1 DEF NeedInv, UpInv
      <3>3. q # c /\ q \in Module
        BY <1>1, <1>2
      <3> QED BY <1>1, <2>2, <3>1, <3>2, <3>3
    <2> QED BY <2>1, <2>2
  <1>5. BackInv'
    <2> SUFFICES ASSUME NEW x \in On' PROVE \E z \in On' : dfs_index'[z] = dfs_ancestor_index'[x] /\ z \in Reach(x)
      BY <1>R DEF BackInv
    <2>1. CASE x = c
      BY <1>1, <2>1, ReachSelf
    <2>2. CASE x # c
      <3>1. x \in On /\ x \in Module
        BY <1>1, <1>2, <2>2
      <3>2. PICK z \in On : dfs_index[z] = dfs_ancestor_index[x] /\ z \in Reach(x)
        BY <1>1, <3>1 DEF NeedInv, BackInv
      <3>3. z # c /\ z \in Module
        BY <1>1, <1>2
      <3> QED BY <1>1, <2>2, <3>1, <3>2, <3>3
    <2> QED BY <2>1, <2>2
  <1> QED BY <1>3, <1>4, <1>5 DEF NeedInv
\* A request is passed
LEMMA PassIs ==
  ASSUME IInv, EvalRequired, NEW t, t = This, NEW c, c = Callee
  PROVE  /\ phase = "evaluate" /\ phase' = phase /\ calls # <<>>
         /\ On' = On /\ Called' = Called
         /\ UNCHANGED <<status, cycle_root, dfs_index, body, ran, eval_has_exception, promise>>
         /\ c \in Module /\ c \in Range(req[t]) /\ t \in On /\ t \in Called
         /\ ~CalleeFailed /\ status[c] \in {"EVALUATING"} \cup Ended
         /\ Next1 \in 1..Len(req[t]) /\ req[t][Next1] = c
         /\ \A x \in Module : x # t => dfs_ancestor_index'[x] = dfs_ancestor_index[x]
         /\ dfs_ancestor_index'[t] \in {dfs_ancestor_index[t]} \cup {dfs_ancestor_index[y] : y \in On \cap {c}}
         /\ \A x \in Module : \A n \in Nat : Passed(x, n)' => Passed(x, n) \/ (x = t /\ n = Next1)
  <1>0. TypeOK /\ FrameInv /\ StackInv /\ CallsInv
    BY DEF IInv, WalkInv
  <1>1. /\ phase = "evaluate" /\ Walking /\ calls # <<>> /\ phase' = phase /\ stack' = stack /\ calls' = Advance(calls)
        /\ UNCHANGED <<status, cycle_root, dfs_index, body, ran, eval_has_exception, promise>>
        /\ ~CalleeFailed
        /\ dfs_ancestor_index' =
              IF status[c] = "EVALUATING"
              THEN [dfs_ancestor_index EXCEPT ![t] = Min2(@, dfs_ancestor_index[c])]
              ELSE dfs_ancestor_index
    BY DEF EvalRequired, Walking, Join, runs
  <1>2. calls \in Seq(Frame)
    BY <1>0 DEF TypeOK
  <1>3. On' = On /\ Called' = Called
    <2>1. {Advance(calls)[k].mod : k \in 1..Len(Advance(calls))} = Called
      BY <1>1, <1>2, AdvanceCalled
    <2> QED BY <1>1, <2>1 DEF On, Called
  <1>4. /\ c \in Module /\ Next1 \in 1..Len(req[t]) /\ c = req[t][Next1] /\ status[c] \in {"EVALUATING"} \cup Ended
    BY RequiredIs
  <1>5. t \in On /\ t \in Called /\ t \in Module
    BY <1>1, ThisIs
  <1>6. c \in Range(req[t])
    BY <1>0, <1>4, <1>5, RequestIs
  <1>7. /\ \A x \in Module : x # t => dfs_ancestor_index'[x] = dfs_ancestor_index[x]
        /\ dfs_ancestor_index'[t] \in {dfs_ancestor_index[t]} \cup {dfs_ancestor_index[y] : y \in On \cap {c}}
    <2>0. dfs_ancestor_index \in [Module -> Nat]
      BY <1>0 DEF TypeOK
    <2>1. CASE status[c] = "EVALUATING"
      <3>1. c \in On
        BY <1>0, <1>4, <2>1 DEF StackInv
      <3>2. dfs_ancestor_index' = [dfs_ancestor_index EXCEPT ![t] = Min2(dfs_ancestor_index[t], dfs_ancestor_index[c])]
        BY <1>1, <2>1
      <3>3. Min2(dfs_ancestor_index[t], dfs_ancestor_index[c]) \in {dfs_ancestor_index[t], dfs_ancestor_index[c]}
        BY DEF Min2
      <3> QED BY <1>5, <2>0, <3>1, <3>2, <3>3
    <2>2. CASE status[c] # "EVALUATING"
      BY <1>1, <2>2
    <2> QED BY <2>1, <2>2
  <1>8. \A x \in Module : \A n \in Nat : Passed(x, n)' => Passed(x, n) \/ (x = t /\ n = Next1)
    <2>1. \A y : \A i \in Nat : ~Passed(y, i) => ~Passed(y, i)' \/ (y = t /\ i = Next1)
      BY <1>0, <1>1, PassOne
    <2> QED BY <2>1
  <1> QED BY <1>1, <1>3, <1>4, <1>5, <1>6, <1>7, <1>8

\* ... when a request is passed, ...
LEMMA NeedRequired ==
  ASSUME IInv, [Next]_vars, NeedInv, EvalRequired
  PROVE  NeedInv'
  <1> SUFFICES ASSUME NEW t, t = This, NEW c, c = Callee PROVE NeedInv'
    OBVIOUS
  <1>1. /\ phase = "evaluate" /\ On' = On /\ Called' = Called /\ dfs_index' = dfs_index
        /\ c \in Range(req[t]) /\ t \in On
        /\ \A x \in Module : x # t => dfs_ancestor_index'[x] = dfs_ancestor_index[x]
        /\ dfs_ancestor_index'[t] \in {dfs_ancestor_index[t]} \cup {dfs_ancestor_index[y] : y \in On \cap {c}}
    BY PassIs
  <1>2. On \subseteq Module
    BY <1>1, CalledIs
  <1>R. \A x : Reach(x)' = Reach(x)
    BY ReqSame, ReachSame
  <1>3. DownInv' /\ UpInv'
    BY <1>1, <1>R DEF NeedInv, DownInv, UpInv
  <1>B. \A x \in On : \E z \in On : dfs_index[z] = dfs_ancestor_index[x] /\ z \in Reach(x)
    BY <1>1 DEF NeedInv, BackInv
  <1>4. BackInv'
    <2> SUFFICES ASSUME NEW x \in On PROVE \E z \in On : dfs_index[z] = dfs_ancestor_index'[x] /\ z \in Reach(x)
      BY <1>1, <1>R DEF BackInv
    <2>1. CASE x # t \/ dfs_ancestor_index'[t] = dfs_ancestor_index[t]
      <3>1. dfs_ancestor_index'[x] = dfs_ancestor_index[x]
        BY <1>1, <1>2, <2>1
      <3> QED BY <1>B, <3>1
    <2>2. CASE x = t /\ c \in On /\ dfs_ancestor_index'[t] = dfs_ancestor_index[c]
      <3>1. PICK z \in On : dfs_index[z] = dfs_ancestor_index[c] /\ z \in Reach(c)
        BY <1>B, <2>2
      <3>2. c \in Reach(t)
        BY <1>1, <1>2, ReachEdge DEF IInv
      <3> QED BY <2>2, <3>1, <3>2, ReachTrans
    <2> QED BY <1>1, <2>1, <2>2
  <1> QED BY <1>3, <1>4 DEF NeedInv

\* A call ends
LEMMA EndIs ==
  ASSUME IInv, [Next]_vars, EvalDone, NEW t, t = This
  PROVE  /\ phase = "evaluate" /\ phase' = phase /\ calls # <<>> /\ t \in On /\ t \in Called
         /\ On' = On \ Popped(t) /\ Called' = Called \ {t} /\ Popped(t) \subseteq On
         /\ t \in Popped(t) <=> Popped(t) # {}
         /\ Popped(t) \cap Called \subseteq {t}
         /\ \A x \in Popped(t) : dfs_index[t] <= dfs_index[x]
         /\ \A x \in On \ Popped(t) : Popped(t) # {} => dfs_index[x] < dfs_index[t]
         /\ Popped(t) = {} => dfs_ancestor_index[t] < dfs_index[t]
         /\ dfs_index' = dfs_index /\ dfs_ancestor_index' = dfs_ancestor_index
         /\ \A x \in Module : cycle_root'[x] = IF x \in Popped(t) THEN t ELSE cycle_root[x]
         /\ \A x \in Module : status'[x] \in Ended <=> status[x] \in Ended \/ x \in Popped(t)
         /\ \A x \in Module : status[x] \in Ended => x \notin Popped(t)
         /\ UNCHANGED <<eval_has_exception, promise>>
         /\ \A x \in Module : \A n \in 1..Len(req[x]) : x \in On => (Passed(x, n)' <=> Passed(x, n) \/ x = t)
  <1>0. TypeOK /\ FrameInv /\ StackInv /\ CallsInv /\ TypeOK'
    BY TypeNext DEF IInv, WalkInv
  <1>1. /\ phase = "evaluate" /\ phase' = phase /\ Walking /\ calls # <<>> /\ AllRequired
        /\ dfs_index' = dfs_index /\ dfs_ancestor_index' = dfs_ancestor_index
        /\ UNCHANGED <<eval_has_exception, promise>>
        /\ status' = [m \in Module |-> IF m \notin Popped(t) THEN status[m]
                                   ELSE IF async_evaluation'[m] THEN "EVALUATING_ASYNC"
                                   ELSE "EVALUATED"]
        /\ cycle_root' = [m \in Module |-> IF m \in Popped(t) THEN t ELSE cycle_root[m]]
        /\ calls' = Tail(calls) /\ Pop(t)
    BY DEF EvalDone, Walking, AllRequired, dfs
  <1>2. /\ Popped(t) \subseteq On /\ On' = On \ Popped(t)
        /\ Called' = Called \ {t}
        /\ t \in Popped(t) <=> Popped(t) # {}
        /\ Popped(t) \cap Called \subseteq {t}
        /\ \A x \in Popped(t) : dfs_index[x] >= dfs_index[t]
        /\ \A x \in On \ Popped(t) : Popped(t) # {} => dfs_index[x] < dfs_index[t]
    BY <1>0, EvalDoneIs DEF DoneStep
  <1>3. t \in On /\ t \in Called /\ t \in Module /\ t = calls[1].mod /\ Next1 = calls[1].next /\ 1 \in 1..Len(calls)
    BY <1>1, ThisIs
  <1>4. /\ On \subseteq Module /\ \A x \in Module : dfs_index[x] \in Nat /\ dfs_ancestor_index[x] \in Nat
        /\ \A x \in On : dfs_ancestor_index[x] <= dfs_index[x]
        /\ \A x \in Module : x \in On <=> status[x] = "EVALUATING"
    BY <1>1, CalledIs
  <1>5. \A x \in Popped(t) : dfs_index[t] <= dfs_index[x]
    BY <1>2, <1>3, <1>4
  <1>6. Popped(t) = {} => dfs_ancestor_index[t] < dfs_index[t]
    <2> SUFFICES ASSUME Popped(t) = {}, dfs_index[t] = dfs_ancestor_index[t] PROVE FALSE
      BY <1>3, <1>4
    <2>1. Popped(t) = {x \in On : dfs_index[x] >= dfs_index[t]}
      BY <1>0, <1>1, <1>3, PopIs
    <2>2. t \in Popped(t)
      BY <1>3, <1>4, <2>1
    <2> QED BY <2>2
  <1>7. /\ \A x \in Module : cycle_root'[x] = IF x \in Popped(t) THEN t ELSE cycle_root[x]
        /\ \A x \in Module : status'[x] \in Ended <=> status[x] \in Ended \/ x \in Popped(t)
    BY <1>1 DEF Ended
  <1>8. \A x \in Module : status[x] \in Ended => x \notin Popped(t)
    BY <1>2, <1>4 DEF Ended
  <1>9. ASSUME NEW x \in Module, NEW n \in 1..Len(req[x]), x \in On
        PROVE  Passed(x, n)' <=> Passed(x, n) \/ x = t
    <2>1. calls \in Seq(Frame)
      BY <1>0 DEF TypeOK
    <2>2. /\ \A i \in 1..Len(Tail(calls)) : Tail(calls)[i] = calls[i + 1] /\ i + 1 \in 1..Len(calls)
          /\ \A i \in 2..Len(calls) : calls[i] = Tail(calls)[i - 1] /\ i - 1 \in 1..Len(Tail(calls))
          /\ Len(calls) \in Nat
      BY <1>1, <2>1, TailIs
    <2>3. CASE x = t
      <3>1. t \notin Called'
        BY <1>2
      <3>2. Passed(x, n)'
        BY <2>3, <3>1 DEF Passed, Called
      <3> QED BY <2>3, <3>2
    <2>4. CASE x # t
      <3>1. \A k \in 1..Len(calls) : k = 1 \/ k \in 2..Len(calls)
        BY <2>2
      <3>2. Passed(x, n) => Passed(x, n)'
        BY <1>1, <2>2 DEF Passed
      <3>3. Passed(x, n)' => Passed(x, n)
        <4> SUFFICES ASSUME Passed(x, n)', NEW k \in 1..Len(calls), calls[k].mod = x PROVE n < calls[k].next
          BY DEF Passed
        <4>1. k \in 2..Len(calls)
          BY <1>3, <2>4, <3>1
        <4>2. calls[k] = calls'[k - 1] /\ k - 1 \in 1..Len(calls')
          BY <1>1, <2>2, <4>1
        <4> QED BY <4>2 DEF Passed
      <3> QED BY <2>4, <3>2, <3>3
    <2> QED BY <2>3, <2>4
  <1> QED BY <1>1, <1>2, <1>3, <1>5, <1>6, <1>7, <1>8, <1>9

\* ... and when a call ends
LEMMA NeedDone ==
  ASSUME IInv, [Next]_vars, NeedInv, EvalDone
  PROVE  NeedInv'
  <1> SUFFICES ASSUME NEW t, t = This PROVE NeedInv'
    OBVIOUS
  <1>1. /\ phase = "evaluate" /\ calls # <<>> /\ t \in On /\ t \in Called
        /\ On' = On \ Popped(t) /\ Called' = Called \ {t} /\ Popped(t) \subseteq On
        /\ t \in Popped(t) <=> Popped(t) # {}
        /\ \A x \in Popped(t) : dfs_index[t] <= dfs_index[x]
        /\ \A x \in On \ Popped(t) : Popped(t) # {} => dfs_index[x] < dfs_index[t]
        /\ Popped(t) = {} => dfs_ancestor_index[t] < dfs_index[t]
        /\ dfs_index' = dfs_index /\ dfs_ancestor_index' = dfs_ancestor_index
    BY EndIs
  <1>2. /\ On \subseteq Module /\ \A x \in Module : dfs_index[x] \in Nat /\ dfs_ancestor_index[x] \in Nat
        /\ \A x \in On : dfs_ancestor_index[x] <= dfs_index[x]
        /\ Called \subseteq On
    BY <1>1, CalledIs
  <1>N. /\ \A a, b, c \in Nat : a < b /\ b <= c => ~(c < b) /\ a <= c /\ a < c
        /\ \A a, b, c \in Nat : a <= b /\ b < c => ~(c <= a) /\ a < c /\ a # c
        /\ \A a, b \in Nat : a < b => ~(b <= a)
    OBVIOUS
  <1>R. \A x : Reach(x)' = Reach(x)
    BY ReqSame, ReachSame
  <1>3. DownInv'
    BY <1>1, <1>R DEF NeedInv, DownInv
  <1>4. ASSUME NEW x \in On', Popped(t) # {} PROVE dfs_index[x] < dfs_index[t] /\ x \in On
    BY <1>1, <1>4
  <1>5. UpInv'
    <2> SUFFICES ASSUME NEW x \in On' PROVE \E q \in Called \ {t} : dfs_index[q] <= dfs_index[x] /\ q \in Reach(x)
      BY <1>1, <1>R DEF UpInv
    <2>1. PICK q \in Called : dfs_index[q] <= dfs_index[x] /\ q \in Reach(x)
      BY <1>1 DEF NeedInv, UpInv
    <2>2. CASE q # t
      BY <2>1, <2>2
    <2>3. CASE q = t /\ Popped(t) # {}
      <3>1. dfs_index[x] < dfs_index[t] /\ x \in Module /\ t \in Module
        BY <1>1, <1>2, <1>4, <2>3
      <3> QED BY <1>2, <1>N, <2>1, <2>3, <3>1
    <2>4. CASE q = t /\ Popped(t) = {}
      <3>1. PICK z \in On : dfs_index[z] = dfs_ancestor_index[t] /\ z \in Reach(t)
        BY <1>1 DEF NeedInv, BackInv
      <3>2. dfs_index[z] < dfs_index[t]
        BY <1>1, <2>4, <3>1
      <3>3. PICK r \in Called : dfs_index[r] <= dfs_index[z] /\ r \in Reach(z)
        BY <1>1, <3>1 DEF NeedInv, UpInv
      <3>4. z \in Module /\ r \in Module /\ t \in Module /\ x \in Module
        BY <1>1, <1>2, <3>1, <3>3
      <3>5. dfs_index[r] < dfs_index[t]
        BY <1>2, <1>N, <3>2, <3>3, <3>4
      <3>6. r # t
        BY <1>2, <1>N, <3>2, <3>3, <3>4
      <3>7. dfs_index[r] <= dfs_index[x]
        BY <1>2, <1>N, <2>1, <2>4, <3>4, <3>5
      <3>8. r \in Reach(x)
        <4>1. z \in Reach(x)
          BY <2>1, <2>4, <3>1, ReachTrans
        <4> QED BY <3>3, <4>1, ReachTrans
      <3> QED BY <3>6, <3>7, <3>8
    <2> QED BY <2>2, <2>3, <2>4
  <1>6. BackInv'
    <2> SUFFICES ASSUME NEW x \in On'
                 PROVE \E z \in On' : dfs_index[z] = dfs_ancestor_index[x] /\ z \in Reach(x)
      BY <1>1, <1>R DEF BackInv
    <2>1. PICK z \in On : dfs_index[z] = dfs_ancestor_index[x] /\ z \in Reach(x)
      BY <1>1 DEF NeedInv, BackInv
    <2>2. CASE Popped(t) = {}
      BY <1>1, <2>1, <2>2
    <2>3. CASE Popped(t) # {}
      <3>1. dfs_index[x] < dfs_index[t] /\ x \in On /\ x \in Module /\ t \in Module /\ z \in Module
        BY <1>1, <1>2, <1>4, <2>1, <2>3
      <3>2. dfs_index[z] <= dfs_index[x]
        BY <1>2, <2>1, <3>1
      <3>3. ~(dfs_index[t] <= dfs_index[z])
        BY <1>2, <1>N, <3>1, <3>2
      <3> QED BY <1>1, <2>1, <3>3
    <2> QED BY <2>2, <2>3
  <1> QED BY <1>3, <1>5, <1>6 DEF NeedInv
\* An evaluation starts with nothing on the stack
LEMMA StartEmpty ==
  ASSUME IInv, EvaluateModule
  PROVE  On = {} /\ On' = {}
  <1>1. phase = "link" /\ calls = <<>> /\ stack' = stack
    BY DEF EvaluateModule
  <1>2. On = {}
    BY <1>1, RootOn DEF Walking
  <1> QED BY <1>1, <1>2 DEF On

\* NeedInv is kept by every step.
LEMMA NeedNext == IInv /\ NeedInv /\ [Next]_vars => NeedInv'
  <1> SUFFICES ASSUME IInv, NeedInv, [Next]_vars PROVE NeedInv'
    OBVIOUS
  <1>1. CASE EvaluateModule
    BY <1>1, StartEmpty DEF NeedInv, DownInv, UpInv, BackInv
  <1>2. CASE phase' # "evaluate"
    BY <1>2 DEF NeedInv, DownInv, UpInv, BackInv
  <1>3. CASE UNCHANGED vars
    <2>1. UNCHANGED <<phase, stack, calls, dfs_index, dfs_ancestor_index>> /\ \A x : Reach(x)' = Reach(x)
      BY <1>3, ReqSame, ReachSame DEF vars, walk, dfs
    <2>2. On' = On /\ Called' = Called
      BY <2>1 DEF On, Called
    <2> QED BY <2>1, <2>2 DEF NeedInv, DownInv, UpInv, BackInv
  <1> QED BY <1>1, <1>2, <1>3, PhaseNext, NeedEnter, NeedRequired, NeedDone

----------------------------------------------------------------------------
(* The requests that were looked at *)

\* No call was entered between the two ends of a request that leads to the stack, ...
PassOn == phase = "evaluate" => \A x \in On : \A n \in 1..Len(req[x]) :
  Passed(x, n) /\ req[x][n] \in On =>
    \A q \in Called : ~(dfs_index[x] < dfs_index[q] /\ dfs_index[q] <= dfs_index[req[x][n]])
\* ... and one that leads to an evaluated module was waited for, unless that is complete
PassEnded == phase = "evaluate" => \A x \in On : \A n \in 1..Len(req[x]) :
  Passed(x, n) /\ status[req[x][n]] \in Ended =>
    Complete(req[x][n]) \/ Waits(x, cycle_root[req[x][n]])
\* What the requests passed say of the stack and of what is evaluated
PassedInv == PassOn /\ PassEnded

\* What is known of a request that was looked at
LEMMA PassedIs ==
  ASSUME IInv, PassedInv, phase = "evaluate", NEW x \in On, NEW n \in 1..Len(req[x]), Passed(x, n),
         NEW y, y = req[x][n]
  PROVE  /\ x \in Module /\ y \in Module /\ n \in Nat /\ n >= 1
         /\ y \in On \/ status[y] \in Ended
         /\ y \in On => \A q \in Called : ~(dfs_index[x] < dfs_index[q] /\ dfs_index[q] <= dfs_index[y])
         /\ status[y] \in Ended => Complete(y) \/ Waits(x, cycle_root[y])
  <1>0. TypeOK /\ EdgeInv /\ Walking
    BY DEF IInv, WalkInv, Walking
  <1>1. x \in Module /\ y \in Module
    BY <1>0, OnIs
  <1>2. n \in Nat /\ n >= 1
    <2>1. Len(req[x]) \in Nat
      BY <1>0, <1>1, OnIs
    <2> QED BY <2>1
  <1>3. y \in On \/ status[y] \in Ended
    BY <1>0 DEF EdgeInv, Settled
  <1> QED BY <1>1, <1>2, <1>3 DEF PassedInv, PassOn, PassEnded

\* What is complete or waited for stays so
LEMMA PassLasts ==
  ASSUME IInv, [Next]_vars, NEW x \in Module, NEW y \in Module, status[y] \in Ended,
         Complete(y) \/ Waits(x, cycle_root[y])
  PROVE  (Complete(y) \/ Waits(x, cycle_root[y]))'
  <1>1. Lasting
    BY LastingNext
  <1>2. cycle_root[y] \in Module /\ cycle_root'[y] = cycle_root[y]
    BY <1>1 DEF Lasting, IInv, RootInv
  <1>3. CASE Complete(y)
    BY <1>1, <1>3 DEF Lasting
  <1>4. CASE Waits(x, cycle_root[y])
    <2> SUFFICES ASSUME NEW r, r = cycle_root[y], r = cycle_root'[y] PROVE Waits(x, cycle_root[y])'
      BY <1>2
    <2>1. Waits(x, r)'
      BY <1>1, <1>2, <1>4 DEF Lasting
    <2> QED BY <2>1 DEF Waits
  <1> QED BY <1>3, <1>4

\* It is kept when a module is entered, ...
LEMMA PassedEnter ==
  ASSUME IInv, [Next]_vars, PassedInv, EvalEnter
  PROVE  PassedInv'
  <1> SUFFICES ASSUME NEW c, c = Callee PROVE PassedInv'
    OBVIOUS
  <1>1. /\ c \in Module /\ status[c] = "LINKED" /\ c \notin On /\ phase = "evaluate"
        /\ On' = On \cup {c} /\ Called' = Called \cup {c}
        /\ dfs_index'[c] = index
        /\ \A x \in Module : x # c => dfs_index'[x] = dfs_index[x] /\ status'[x] = status[x]
        /\ status'[c] = "EVALUATING"
        /\ \A x \in Module : x # c => \A n \in Nat : Passed(x, n)' => Passed(x, n)
        /\ \A n \in Nat : n >= 1 => ~Passed(c, n)'
    BY EnterIs
  <1>2. /\ On \subseteq Module /\ Called \subseteq On /\ index \in Nat
        /\ \A x \in On : dfs_index[x] < index /\ dfs_index[x] \in Nat
    BY <1>1, CalledIs
  <1>3. \A a, b \in Nat : a < b => ~(b <= a)
    OBVIOUS
  <1>4. req' = req
    BY ReqSame
  <1>5. ASSUME NEW x \in On', NEW n \in 1..Len(req[x]), Passed(x, n)', NEW y, y = req[x][n]
        PROVE  /\ y \in On' => \A q \in Called' : ~(dfs_index'[x] < dfs_index'[q] /\ dfs_index'[q] <= dfs_index'[y])
               /\ status'[y] \in Ended => (Complete(y) \/ Waits(x, cycle_root[y]))'
    <2>1. x \in Module /\ n \in Nat /\ n >= 1
      <3>1. x \in Module
        BY <1>1, <1>2
      <3>2. Len(req[x]) \in Nat
        BY <3>1, OnIs DEF IInv
      <3> QED BY <3>1, <3>2
    <2>2. x # c /\ x \in On /\ Passed(x, n)
      BY <1>1, <1>5, <2>1
    <2>3. /\ y \in Module
          /\ y \in On \/ status[y] \in Ended
          /\ y \in On => \A q \in Called : ~(dfs_index[x] < dfs_index[q] /\ dfs_index[q] <= dfs_index[y])
          /\ status[y] \in Ended => Complete(y) \/ Waits(x, cycle_root[y])
      BY <1>1, <1>5, <2>2, PassedIs
    <2>4. y # c
      BY <1>1, <2>3 DEF Ended
    <2>5. dfs_index'[x] = dfs_index[x] /\ dfs_index'[y] = dfs_index[y] /\ status'[y] = status[y]
      <3>1. \A z \in Module : z # c => dfs_index'[z] = dfs_index[z] /\ status'[z] = status[z]
        BY <1>1
      <3> QED BY <2>1, <2>2, <2>3, <2>4, <3>1
    <2>6. ASSUME y \in On', NEW q \in Called'
          PROVE  ~(dfs_index'[x] < dfs_index'[q] /\ dfs_index'[q] <= dfs_index'[y])
      <3>1. y \in On
        BY <1>1, <2>4, <2>6
      <3>2. CASE q = c
        BY <1>1, <1>2, <1>3, <2>5, <3>1, <3>2
      <3>3. CASE q # c
        <4>1. q \in Called /\ dfs_index'[q] = dfs_index[q]
          BY <1>1, <1>2, <3>3
        <4> QED BY <2>3, <2>5, <3>1, <4>1
      <3> QED BY <3>2, <3>3
    <2>7. ASSUME status'[y] \in Ended PROVE (Complete(y) \/ Waits(x, cycle_root[y]))'
      <3>1. status[y] \in Ended
        BY <2>5, <2>7
      <3>2. Complete(y) \/ Waits(x, cycle_root[y])
        BY <2>3, <3>1
      <3>3. x \in Module /\ y \in Module
        BY <2>1, <2>3
      <3> QED BY <3>1, <3>2, <3>3, PassLasts
    <2> QED BY <2>6, <2>7
  <1> QED BY <1>4, <1>5 DEF PassedInv, PassOn, PassEnded

\* A module that is required, evaluated and not async has finished with its cycle
LEMMA CompleteOrAsync ==
  ASSUME IInv, NEW c \in Module, status[c] \in Ended, ~eval_has_exception[cycle_root[c]],
         ~async_evaluation[cycle_root[c]]
  PROVE  Complete(c)
  <1>1. cycle_root[c] \in Module /\ status[cycle_root[c]] \in Ended
    BY DEF IInv, RootInv
  <1>2. StateOf(cycle_root[c])
    BY <1>1 DEF IInv, StateInv
  <1> QED BY <1>1, <1>2 DEF StateOf, Ended, Complete, Finished

\* ... when a request is passed, ...
LEMMA PassedRequired ==
  ASSUME IInv, [Next]_vars, PassedInv, EvalRequired
  PROVE  PassedInv'
  <1> SUFFICES ASSUME NEW t, t = This, NEW c, c = Callee PROVE PassedInv'
    OBVIOUS
  <1>1. /\ phase = "evaluate" /\ calls # <<>> /\ On' = On /\ Called' = Called
        /\ UNCHANGED <<status, cycle_root, dfs_index>>
        /\ c \in Module /\ t \in On /\ ~CalleeFailed /\ req[t][Next1] = c
        /\ \A x \in Module : \A n \in Nat : Passed(x, n)' => Passed(x, n) \/ (x = t /\ n = Next1)
    BY PassIs
  <1>2. /\ On \subseteq Module /\ Called \subseteq On
        /\ \A x \in On : dfs_index[x] \in Nat
        /\ \A q \in Called : dfs_index[q] <= dfs_index[t]
    BY <1>1, CalledIs
  <1>3. \A a, b \in Nat : a <= b => ~(b < a)
    OBVIOUS
  <1>4. req' = req
    BY ReqSame
  <1>5. ASSUME NEW x \in On, NEW n \in 1..Len(req[x]), Passed(x, n)', NEW y, y = req[x][n]
        PROVE  /\ y \in On => \A q \in Called : ~(dfs_index[x] < dfs_index[q] /\ dfs_index[q] <= dfs_index[y])
               /\ status[y] \in Ended => (Complete(y) \/ Waits(x, cycle_root[y]))'
    <2>1. x \in Module /\ n \in Nat
      <3>1. x \in Module
        BY <1>2
      <3>2. Len(req[x]) \in Nat
        BY <3>1, OnIs DEF IInv
      <3> QED BY <3>1, <3>2
    <2>2. CASE Passed(x, n)
      <3>1. /\ y \in Module
            /\ y \in On => \A q \in Called : ~(dfs_index[x] < dfs_index[q] /\ dfs_index[q] <= dfs_index[y])
            /\ status[y] \in Ended => Complete(y) \/ Waits(x, cycle_root[y])
        BY <1>1, <1>5, <2>2, PassedIs
      <3>2. status[y] \in Ended => (Complete(y) \/ Waits(x, cycle_root[y]))'
        BY <2>1, <3>1, PassLasts
      <3> QED BY <3>1, <3>2
    <2>3. CASE x = t /\ n = Next1
      <3>1. y = c
        BY <1>1, <1>5, <2>3
      <3>2. \A q \in Called : ~(dfs_index[x] < dfs_index[q])
        BY <1>2, <1>3, <2>3
      <3>3. ASSUME status[c] \in Ended PROVE (Complete(c) \/ Waits(t, cycle_root[c]))'
        <4>1. cycle_root[c] \in Module /\ cycle_root'[c] = cycle_root[c]
          BY <1>1, <3>3 DEF IInv, RootInv
        <4>2. ~eval_has_exception[cycle_root[c]]
          BY <1>1, <3>3 DEF CalleeFailed
        <4>3. CASE async_evaluation[cycle_root[c]]
          <5> SUFFICES ASSUME NEW m1, m1 = cycle_root[c], m1 = cycle_root'[c] PROVE Waits(t, cycle_root[c])'
            BY <4>1
          <5>1. Representative(Callee) = m1
            BY <3>3 DEF Representative, Ended
          <5>2. Waits(t, m1)'
            BY <1>1, <1>2, <4>1, <4>3, <5>1, RequiredWaits
          <5> QED BY <5>2 DEF Waits
        <4>4. CASE ~async_evaluation[cycle_root[c]]
          <5>1. Complete(c)
            BY <1>1, <3>3, <4>2, <4>4, CompleteOrAsync
          <5> QED BY <1>1, <1>2, <3>3, <5>1, PassLasts
        <4> QED BY <4>3, <4>4
      <3> QED BY <2>3, <3>1, <3>2, <3>3
    <2> QED BY <1>1, <1>5, <2>1, <2>2, <2>3
  <1> QED BY <1>1, <1>4, <1>5 DEF PassedInv, PassOn, PassEnded

\* A call that ends has looked at all requests, and so have the modules above it
LEMMA AllPassed ==
  ASSUME IInv, [Next]_vars, EvalDone \/ EvalThrow, NEW t, t = This, NEW n \in 1..Len(req[t])
  PROVE  Passed(t, n)
  <1>0. FrameInv /\ TypeOK /\ CallsInv
    BY DEF IInv, WalkInv
  <1>1. phase = "evaluate" /\ calls # <<>> /\ Next1 > Len(req[This]) /\ Walking
    BY DEF EvalDone, EvalThrow, AllRequired, Walking
  <1>2. t \in Module /\ t = calls[1].mod /\ Next1 = calls[1].next /\ 1 \in 1..Len(calls)
    BY <1>1, ThisIs
  <1>3. ASSUME NEW k \in 1..Len(calls), calls[k].mod = t PROVE k = 1
    <2>1. \A a \in Nat : ~(a > a)
      OBVIOUS
    <2>2. dfs_index[t] \in Nat
      BY <1>0, <1>2 DEF TypeOK
    <2>3. ~(1 < k)
      BY <1>0, <1>1, <1>2, <1>3, <2>1, <2>2 DEF CallsInv
    <2> QED BY <1>2, <2>3
  <1>4. n < Next1
    <2>1. Len(req[t]) \in Nat /\ Next1 \in Nat
      BY <1>0, <1>1, <1>2, OnIs
    <2> QED BY <1>1, <2>1
  <1> QED BY <1>2, <1>3, <1>4 DEF Passed

\* ... and when a call ends
LEMMA PassedDone ==
  ASSUME IInv, [Next]_vars, PassedInv, EvalDone
  PROVE  PassedInv'
  <1> SUFFICES ASSUME NEW t, t = This PROVE PassedInv'
    OBVIOUS
  <1>1. /\ phase = "evaluate" /\ calls # <<>> /\ t \in On /\ t \in Called
        /\ On' = On \ Popped(t) /\ Called' = Called \ {t} /\ Popped(t) \subseteq On
        /\ \A x \in Popped(t) : dfs_index[t] <= dfs_index[x]
        /\ \A x \in On \ Popped(t) : Popped(t) # {} => dfs_index[x] < dfs_index[t]
        /\ dfs_index' = dfs_index
        /\ \A x \in Module : status'[x] \in Ended <=> status[x] \in Ended \/ x \in Popped(t)
        /\ \A x \in Module : \A n \in 1..Len(req[x]) : x \in On => (Passed(x, n)' <=> Passed(x, n) \/ x = t)
    BY EndIs
  <1>2. On \subseteq Module
    BY <1>1, CalledIs
  <1>4. req' = req
    BY ReqSame
  <1>5. ASSUME NEW x \in On', NEW n \in 1..Len(req[x]), Passed(x, n)', NEW y, y = req[x][n]
        PROVE  /\ y \in On' => \A q \in Called' : ~(dfs_index'[x] < dfs_index'[q] /\ dfs_index'[q] <= dfs_index'[y])
               /\ status'[y] \in Ended => (Complete(y) \/ Waits(x, cycle_root[y]))'
    <2>1. x \in Module /\ x \in On
      BY <1>1, <1>2
    <2>2. Passed(x, n)
      BY <1>1, <1>5, <2>1, AllPassed
    <2>3. /\ y \in Module
          /\ y \in On => \A q \in Called : ~(dfs_index[x] < dfs_index[q] /\ dfs_index[q] <= dfs_index[y])
          /\ status[y] \in Ended => Complete(y) \/ Waits(x, cycle_root[y])
      BY <1>1, <1>5, <2>1, <2>2, PassedIs
    <2>4. y \notin Popped(t)
      BY <1>1, <2>1, <2>3
    <2>5. status'[y] \in Ended => (Complete(y) \/ Waits(x, cycle_root[y]))'
      BY <1>1, <2>1, <2>3, <2>4, PassLasts
    <2> QED BY <1>1, <2>3, <2>5
  <1> QED BY <1>4, <1>5 DEF PassedInv, PassOn, PassEnded

\* PassedInv is kept by every step.
LEMMA PassedNext == IInv /\ PassedInv /\ [Next]_vars => PassedInv'
  <1> SUFFICES ASSUME IInv, PassedInv, [Next]_vars PROVE PassedInv'
    OBVIOUS
  <1>1. CASE EvaluateModule
    BY <1>1, StartEmpty DEF PassedInv, PassOn, PassEnded
  <1>2. CASE phase' # "evaluate"
    BY <1>2 DEF PassedInv, PassOn, PassEnded
  <1>3. CASE UNCHANGED vars
    <2>1. UNCHANGED <<phase, stack, calls, dfs_index, req, status, cycle_root, body, eval_has_exception,
                      async_parent_modules>>
      BY <1>3 DEF vars, files, walk, dfs, waits, runs
    <2>2. On' = On /\ Called' = Called
      BY <2>1 DEF On, Called
    <2>3. \A x, n : Passed(x, n)' <=> Passed(x, n)
      BY <2>1 DEF Passed
    <2>4. \A x, y : (Complete(x)' <=> Complete(x)) /\ (Waits(x, y)' <=> Waits(x, y))
      BY <2>1 DEF Complete, Finished, Waits
    <2>5. PassOn'
      BY <2>1, <2>2, <2>3 DEF PassedInv, PassOn
    <2>6. PassEnded'
      <3> SUFFICES ASSUME phase = "evaluate", NEW x \in On, NEW n \in 1..Len(req[x]), Passed(x, n),
                          status[req[x][n]] \in Ended
                   PROVE  Complete(req[x][n])' \/ Waits(x, cycle_root[req[x][n]])'
        BY <2>1, <2>2, <2>3 DEF PassEnded
      <3>1. Complete(req[x][n]) \/ Waits(x, cycle_root[req[x][n]])
        BY DEF PassedInv, PassEnded
      <3> QED BY <2>1, <3>1 DEF Complete, Finished, Waits
    <2> QED BY <2>5, <2>6 DEF PassedInv
  <1> QED BY <1>1, <1>2, <1>3, PhaseNext, PassedEnter, PassedRequired, PassedDone
----------------------------------------------------------------------------
(* The requests of the modules evaluated *)

\* A module is evaluated when its cycle is popped, or it failed with all on the stack
LEMMA NewlyEnded ==
  ASSUME IInv, [Next]_vars, NEW x \in Module, status[x] \notin Ended, status'[x] \in Ended
  PROVE  \/ EvalDone /\ x \in Popped(This)
         \/ /\ EvalFail \/ EvalThrow
            /\ x \in On /\ root \in On /\ cycle_root'[x] = root
            /\ eval_has_exception'[x] /\ eval_has_exception'[root]
  <1>0. TypeOK /\ TypeOK'
    BY TypeNext DEF IInv
  <1>1. CASE Steady
    BY <1>0, <1>1, SteadyIs
  <1>2. CASE EvalFail \/ EvalThrow
    <2>1. /\ status' = [m \in Module |-> IF m \in On THEN "EVALUATED" ELSE status[m]]
          /\ cycle_root' = [m \in Module |-> IF m \in On THEN root ELSE cycle_root[m]]
          /\ eval_has_exception' = [m \in Module |-> m \in On \/ eval_has_exception[m]]
          /\ phase = "evaluate"
      BY <1>2 DEF EvalFail, EvalThrow, Unwind, On
    <2>2. x \in On
      BY <2>1
    <2>3. root \in Module /\ root \in On
      BY <2>1, <2>2, RootOn DEF Walking
    <2> QED BY <1>2, <2>1, <2>2, <2>3
  <1>3. CASE EvalDone
    <2> SUFFICES ASSUME NEW t, t = This, x \notin Popped(t) PROVE FALSE
      BY <1>3
    <2>1. \A z \in Module : status'[z] \in Ended <=> status[z] \in Ended \/ z \in Popped(t)
      BY <1>3, EndIs
    <2> QED BY <2>1
  <1>4. CASE UNCHANGED vars
    BY <1>4 DEF vars
  <1> QED BY <1>1, <1>2, <1>3, <1>4, NextIs

\* An edge of that kind stays one
LEMMA EdgeLasts ==
  ASSUME IInv, [Next]_vars, NEW x \in Module, NEW y \in Module, EdgeOf(x, y),
         status[x] \in Ended
  PROVE  EdgeOf(x, y)'
  <1>1. Lasting
    BY LastingNext
  <1>2. /\ status[y] \in Ended /\ status'[y] \in Ended /\ cycle_root'[x] = cycle_root[x]
        /\ cycle_root'[y] = cycle_root[y] /\ Reach(y)' = Reach(y)
    BY <1>1 DEF EdgeOf, Lasting
  <1>3. CASE cycle_root[y] = cycle_root[x] /\ x \in Reach(y)
    BY <1>2, <1>3 DEF EdgeOf
  <1>4. CASE Complete(y) \/ Waits(x, cycle_root[y])
    <2>1. (Complete(y) \/ Waits(x, cycle_root[y]))'
      BY <1>2, <1>4, PassLasts
    <2> QED BY <1>2, <2>1 DEF EdgeOf
  <1> QED BY <1>3, <1>4 DEF EdgeOf

\* The edges of a cycle that is popped
LEMMA EdgePopped ==
  ASSUME IInv, NeedInv, PassedInv, [Next]_vars, EvalDone, NEW t, t = This,
         NEW x \in Popped(t), NEW y \in Range(req[x])
  PROVE  EdgeOf(x, y)'
  <1>0. TypeOK /\ TypeOK'
    BY TypeNext DEF IInv
  <1>1. /\ phase = "evaluate" /\ calls # <<>> /\ t \in On /\ t \in Called
        /\ On' = On \ Popped(t) /\ Popped(t) \subseteq On
        /\ Popped(t) \cap Called \subseteq {t}
        /\ \A z \in Popped(t) : dfs_index[t] <= dfs_index[z]
        /\ \A z \in Module : cycle_root'[z] = IF z \in Popped(t) THEN t ELSE cycle_root[z]
        /\ \A z \in Module : status'[z] \in Ended <=> status[z] \in Ended \/ z \in Popped(t)
    BY EndIs
  <1>2. x \in On /\ x \in Module /\ y \in Module
    BY <1>0, <1>1, CalledIs, ReachEdge
  <1>3. PICK n \in 1..Len(req[x]) : req[x][n] = y
    BY <1>0, <1>2, RequestIs
  <1>4. Passed(x, n)
    <2>1. CASE x = t
      BY <1>3, <2>1, AllPassed
    <2>2. CASE x # t
      <3>1. x \notin Called
        BY <1>1, <2>2
      <3> QED BY <3>1 DEF Passed, Called
    <2> QED BY <2>1, <2>2
  <1>5. /\ y \in On \/ status[y] \in Ended
        /\ status[y] \in Ended => Complete(y) \/ Waits(x, cycle_root[y])
    BY <1>1, <1>2, <1>3, <1>4, PassedIs
  <1>6. CASE status[y] \in Ended
    <2>1. (Complete(y) \/ Waits(x, cycle_root[y]))' /\ status'[y] \in Ended
      BY <1>1, <1>2, <1>5, <1>6, PassLasts
    <2> QED BY <2>1 DEF EdgeOf
  <1>7. CASE y \in On
    <2>1. y \in Popped(t)
      <3>1. Settled(req[x][n]) \/ req[x][n] \in Popped(t)
        BY <1>0, EvalDoneIs DEF DoneStep
      <3>2. status[y] = "EVALUATING"
        BY <1>1, <1>2, <1>7, CalledIs
      <3> QED BY <1>1, <1>3, <3>1, <3>2 DEF Settled, Ended
    <2>2. cycle_root'[y] = t /\ cycle_root'[x] = t /\ status'[y] \in Ended
      BY <1>1, <1>2, <2>1
    <2>3. x \in Reach(t)
      BY <1>1, <1>2 DEF NeedInv, DownInv
    <2>4. t \in Reach(y)
      BY <1>1, <1>7, ThisNeeded
    <2>5. x \in Reach(y)'
      <3>1. x \in Reach(y)
        BY <2>3, <2>4, ReachTrans
      <3>2. \A z : Reach(z)' = Reach(z)
        BY ReqSame, ReachSame
      <3> QED BY <3>1, <3>2
    <2> QED BY <2>2, <2>5 DEF EdgeOf
  <1> QED BY <1>5, <1>6, <1>7

\* EdgeDone is kept by every step.
LEMMA EdgeNext == IInv /\ NeedInv /\ PassedInv /\ EdgeDone /\ [Next]_vars => EdgeDone'
  <1> SUFFICES ASSUME IInv, NeedInv, PassedInv, EdgeDone, [Next]_vars PROVE EdgeDone'
    OBVIOUS
  <1>1. Lasting /\ req' = req
    BY LastingNext, ReqSame
  <1>2. ASSUME NEW x \in Module, NEW y \in Range(req[x]), status'[x] \in Ended,
               ~eval_has_exception'[x] \/ ~eval_has_exception'[cycle_root'[x]]
        PROVE  EdgeOf(x, y)'
    <2>1. y \in Module
      BY ReachEdge DEF IInv
    <2>2. CASE status[x] \in Ended
      <3>1. cycle_root'[x] = cycle_root[x] /\ cycle_root[x] \in Module
        BY <1>1, <2>2 DEF Lasting, IInv, RootInv
      <3>2. \A z \in Module : eval_has_exception[z] => eval_has_exception'[z]
        BY <1>1 DEF Lasting
      <3>3. ~eval_has_exception[x] \/ ~eval_has_exception[cycle_root[x]]
        BY <1>2, <3>1, <3>2
      <3>4. EdgeOf(x, y)
        BY <2>2, <3>3 DEF EdgeDone
      <3> QED BY <2>1, <2>2, <3>4, EdgeLasts
    <2>3. CASE status[x] \notin Ended
      <3>1. EvalDone /\ x \in Popped(This)
        BY <1>2, <2>3, NewlyEnded
      <3> SUFFICES ASSUME NEW t, t = This, x \in Popped(t) PROVE EdgeOf(x, y)'
        BY <3>1
      <3> QED BY <3>1, EdgePopped
    <2> QED BY <2>2, <2>3
  <1> QED BY <1>1, <1>2 DEF EdgeDone

----------------------------------------------------------------------------
(* The code that runs *)

\* Whose code starts in a step
LEMMA WhoStarts ==
  ASSUME IInv, [Next]_vars, NEW m \in Module, body[m] = "unrun", body'[m] # "unrun"
  PROVE  \/ (EvalDone \/ EvalThrow) /\ m = This
         \/ /\ m \in exec_list /\ ~eval_has_exception[m]
            /\ status[m] \in Ended
  <1>0. TypeOK /\ ExecInv /\ \A x \in Module : StateOf(x)
    BY DEF IInv, AsyncInv, StateInv
  <1>1. CASE Calm
    BY <1>1 DEF Calm, Link, LinkEnter, LinkRequired, LinkDone, LinkFail, Import, EvaluateModule, EvaluateReturn, ExecEnd, runs
  <1>2. CASE EvalEnter \/ EvalRequired \/ EvalFail
    BY <1>2 DEF EvalEnter, EvalRequired, EvalFail, runs
  <1>3. CASE EvalThrow \/ EvalDone
    <2>1. UNCHANGED runs \/ \E o \in {"running", "done", "threw"} : Run(This, o)
      BY <1>3 DEF EvalThrow, EvalDone
    <2> QED BY <1>0, <1>3, <2>1 DEF Run, runs, TypeOK
  <1>4. CASE GatherParent \/ GatherReturn \/ RejectParent \/ RejectReturn
    BY <1>4 DEF GatherParent, GatherReturn, RejectParent, RejectReturn, runs
  <1>5. ASSUME NEW x \in Module, ExecSkip(x) PROVE UNCHANGED runs
    BY <1>5 DEF ExecSkip
  <1>6. ASSUME NEW x \in Module, ExecAsync(x) \/ ExecSync(x) \/ ExecThrow(x)
        PROVE  /\ m \in exec_list /\ ~eval_has_exception[m]
               /\ status[m] \in Ended
    <2>1. x \in exec_list /\ ~GivenUp(x) /\ \E o \in {"running", "done", "threw"} : Run(x, o)
      BY <1>6 DEF ExecAsync, ExecSync, ExecThrow, IsFirst
    <2>2. m = x
      BY <1>0, <2>1 DEF Run, TypeOK
    <2>3. status[m] \in Ended /\ status[m] # "EVALUATED"
      BY <1>0, <2>1, <2>2 DEF ExecInv, GivenUp
    <2>4. ~eval_has_exception[m]
      BY <1>0, <2>3 DEF StateOf, Ended
    <2> QED BY <2>1, <2>2, <2>3, <2>4
  <1>7. ASSUME NEW x \in Module, Fulfilled(x) \/ Rejected(x) PROVE FALSE
    <2>1. body[x] = "running" /\ \E o \in {"done", "threw"} : body' = [body EXCEPT ![x] = o]
      BY <1>7 DEF Fulfilled, Rejected
    <2> QED BY <1>0, <2>1 DEF TypeOK
  <1>8. CASE UNCHANGED vars
    BY <1>8 DEF vars, runs
  <1> QED BY <1>1, <1>2, <1>3, <1>4, <1>5, <1>6, <1>7, <1>8, Steps DEF runs

\* What a module requests needs it too, or is complete when it starts to run
RunInv == \A m \in Module : body[m] # "unrun" =>
            \A d \in Range(req[m]) : m \in Reach(d) \/ Complete(d)

\* RunInv is kept by every step.
LEMMA RunNext == IInv /\ NeedInv /\ PassedInv /\ EdgeDone /\ RunInv /\ [Next]_vars => RunInv'
  <1> SUFFICES ASSUME IInv, NeedInv, PassedInv, EdgeDone, RunInv, [Next]_vars PROVE RunInv'
    OBVIOUS
  <1>1. Lasting /\ req' = req /\ OrderStep
    BY LastingNext, ReqSame, OrderNext
  <1>2. ASSUME NEW m \in Module, body'[m] # "unrun", NEW d \in Range(req[m])
        PROVE  m \in Reach(d) \/ Complete(d)
    <2>1. d \in Module
      BY ReachEdge DEF IInv
    <2>2. CASE body[m] # "unrun"
      BY <2>2 DEF RunInv
    <2>3. ASSUME body[m] = "unrun", status[d] \in Ended, Waits(m, cycle_root[d]) PROVE Complete(d)
      <3>1. cycle_root[d] \in Module
        BY <2>1, <2>3 DEF IInv, RootInv
      <3>2. Finished(cycle_root[d])
        BY <1>1, <1>2, <2>3, <3>1 DEF OrderStep
      <3> QED BY <2>3, <3>2 DEF Complete
    <2>4. CASE body[m] = "unrun" /\ (EvalDone \/ EvalThrow) /\ m = This
      <3>1. phase = "evaluate" /\ calls # <<>>
        BY <2>4 DEF EvalDone, EvalThrow, AllRequired
      <3>2. m \in On
        BY <2>4, <3>1, ThisIs
      <3>3. PICK n \in 1..Len(req[m]) : req[m][n] = d
        BY RequestIs DEF IInv
      <3>4. Passed(m, n)
        BY <2>4, AllPassed
      <3>5. /\ d \in On \/ status[d] \in Ended
            /\ status[d] \in Ended => Complete(d) \/ Waits(m, cycle_root[d])
        BY <3>1, <3>2, <3>3, <3>4, PassedIs
      <3>6. CASE d \in On
        BY <2>4, <3>1, <3>6, ThisNeeded
      <3> QED BY <2>3, <2>4, <3>5, <3>6
    <2>5. CASE body[m] = "unrun" /\ m \in exec_list /\ ~eval_has_exception[m] /\ status[m] \in Ended
      <3>1. EdgeOf(m, d)
        BY <2>5 DEF EdgeDone
      <3> QED BY <2>3, <2>5, <3>1 DEF EdgeOf
    <2> QED BY <1>2, <2>2, <2>4, <2>5, WhoStarts
  <1>3. \A d \in Module : (Complete(d) => Complete(d)') /\ Reach(d)' = Reach(d)
    BY <1>1 DEF Lasting
  <1>4. \A m \in Module : \A d \in Range(req[m]) : d \in Module
    BY ReachEdge DEF IInv
  <1> QED BY <1>1, <1>2, <1>3, <1>4 DEF RunInv

\* Each module that has started is recorded once
RanInv == Range(ran) = {m \in Module : body[m] # "unrun"} /\ IsInjective(ran)

\* RanInv is kept by every step.
LEMMA RanNext == IInv /\ RanInv /\ [Next]_vars => RanInv'
  <1> SUFFICES ASSUME IInv, RanInv, [Next]_vars PROVE RanInv'
    OBVIOUS
  <1>0. TypeOK
    BY DEF IInv
  <1>1. CASE UNCHANGED runs
    BY <1>1 DEF runs, RanInv, IsInjective, Range
  <1>2. ASSUME NEW m, NEW o, Started(m, o) PROVE RanInv'
    <2>1. /\ m \in Module /\ body[m] = "unrun" /\ o # "unrun"
          /\ body' = [body EXCEPT ![m] = o] /\ ran' = Append(ran, m)
      BY <1>2 DEF Started, Run
    <2>2. ran \in Seq(Module) /\ body \in [Module -> {"unrun", "running", "done", "threw"}]
      BY <1>0 DEF TypeOK
    <2>3. /\ Len(ran) \in Nat /\ DOMAIN ran = 1..Len(ran)
          /\ DOMAIN ran' = 1..(Len(ran) + 1)
          /\ ran'[Len(ran) + 1] = m
          /\ \A i \in 1..Len(ran) : ran'[i] = ran[i]
      BY <2>1, <2>2
    <2>4. \A i \in DOMAIN ran' : i \in 1..Len(ran) \/ i = Len(ran) + 1
      BY <2>3
    <2>5. 1..Len(ran) \subseteq DOMAIN ran' /\ Len(ran) + 1 \in DOMAIN ran'
      BY <2>3
    <2>6. Range(ran') = Range(ran) \cup {m}
      BY <2>3, <2>4, <2>5 DEF Range
    <2>7. {x \in Module : body'[x] # "unrun"} = {x \in Module : body[x] # "unrun"} \cup {m}
      BY <2>1, <2>2
    <2>8. \A i \in 1..Len(ran) : ran[i] # m
      BY <2>1, <2>3 DEF RanInv, Range
    <2>9. IsInjective(ran')
      BY <2>3, <2>4, <2>8 DEF RanInv, IsInjective
    <2> QED BY <2>6, <2>7, <2>9 DEF RanInv
  <1>3. ASSUME NEW m, NEW o, Resumed(m, o) PROVE RanInv'
    <2>1. {x \in Module : body'[x] # "unrun"} = {x \in Module : body[x] # "unrun"} /\ ran' = ran
      BY <1>0, <1>3 DEF Resumed, TypeOK
    <2> QED BY <2>1 DEF RanInv
  <1> QED BY <1>1, <1>2, <1>3, BodyNext

\* ... so RunsOnceInOrder follows.
LEMMA RunsInOrder ==
  ASSUME IInv, EdgeDone, RunInv, RanInv
  PROVE  RunsOnceInOrder
  <1> SUFFICES ASSUME NEW m \in Module, NEW d \in Range(req[m]), body[m] # "unrun", m \notin Reach(d)
               PROVE  \A x \in Reach(d) : body[x] = "done"
    BY DEF RunsOnceInOrder, RanInv
  <1>1. d \in Module
    BY ReachEdge DEF IInv
  <1>2. Complete(d)
    BY DEF RunInv
  <1> QED BY <1>1, <1>2, AllDone
----------------------------------------------------------------------------
(* Failures *)

\* The root of a cycle is needed by all of it, unless it failed, ...
RootReach == \A x \in Module : status[x] \in Ended => cycle_root[x] \in Reach(x) \/ eval_has_exception[x]
\* ... and a module that is waited for, by who waits
WaitReach == \A p, y \in Module : Waits(p, y) => y \in Reach(p)

\* RootReach is kept by every step.
LEMMA RootReachNext == IInv /\ NeedInv /\ RootReach /\ [Next]_vars => RootReach'
  <1> SUFFICES ASSUME IInv, NeedInv, RootReach, [Next]_vars,
                      NEW x \in Module, status'[x] \in Ended, ~eval_has_exception'[x]
               PROVE  cycle_root'[x] \in Reach(x)
    BY ReqSame, ReachSame DEF RootReach
  <1>1. CASE status[x] \in Ended
    <2>1. Lasting
      BY LastingNext
    <2>2. cycle_root'[x] = cycle_root[x] /\ ~eval_has_exception[x]
      BY <1>1, <2>1 DEF Lasting
    <2> QED BY <1>1, <2>2 DEF RootReach
  <1>2. CASE status[x] \notin Ended
    <2>1. EvalDone /\ x \in Popped(This)
      BY <1>2, NewlyEnded
    <2> SUFFICES ASSUME NEW t, t = This, x \in Popped(t) PROVE cycle_root'[x] \in Reach(x)
      BY <2>1
    <2>2. /\ phase = "evaluate" /\ calls # <<>> /\ Popped(t) \subseteq On
          /\ \A z \in Module : cycle_root'[z] = IF z \in Popped(t) THEN t ELSE cycle_root[z]
      BY <2>1, EndIs
    <2>3. t \in Reach(x)
      BY <2>2, ThisNeeded
    <2> QED BY <2>2, <2>3
  <1> QED BY <1>1, <1>2

\* ... and so is WaitReach
LEMMA WaitReachNext == IInv /\ RootReach /\ WaitReach /\ [Next]_vars => WaitReach'
  <1> SUFFICES ASSUME IInv, RootReach, WaitReach, [Next]_vars,
                      NEW p \in Module, NEW y \in Module, Waits(p, y)'
               PROVE  y \in Reach(p)
    BY ReqSame, ReachSame DEF WaitReach
  <1>1. CASE Waits(p, y)
    BY <1>1 DEF WaitReach
  <1>2. CASE ~Waits(p, y)
    <2>1. EvalRequired
      BY <1>2, WaitsLast
    <2> SUFFICES ASSUME NEW t, t = This, NEW c, c = Callee, NEW m1, m1 = Representative(Callee)
                 PROVE  y \in Reach(p)
      OBVIOUS
    <2>2. p = t /\ y = m1
      BY <1>2, <2>1, RequiredWaits
    <2>3. /\ c \in Module /\ c \in Range(req[t]) /\ t \in On /\ ~CalleeFailed
          /\ status[c] \in {"EVALUATING"} \cup Ended
      BY <2>1, PassIs
    <2>4. c \in Reach(t)
      BY <2>2, <2>3, ReachEdge DEF IInv
    <2>5. CASE status[c] = "EVALUATING"
      BY <2>2, <2>4, <2>5 DEF Representative
    <2>6. CASE status[c] \in Ended
      <3>1. m1 = cycle_root[c]
        BY <2>6 DEF Representative, Ended
      <3>2. ~eval_has_exception[c]
        BY <2>3, <2>6 DEF CalleeFailed
      <3>3. m1 \in Reach(c)
        BY <2>3, <2>6, <3>1, <3>2 DEF RootReach
      <3> QED BY <2>2, <2>4, <3>3, ReachTrans
    <2> QED BY <2>3, <2>5, <2>6
  <1> QED BY <1>1, <1>2

\* Who fails in a step: all on the stack, one that throws, or one that waits for a failure
LEMMA NewlyFailed ==
  ASSUME IInv, [Next]_vars, NEW x \in Module, ~eval_has_exception[x], eval_has_exception'[x]
  PROVE  \/ (EvalFail \/ EvalThrow) /\ x \in On
         \/ body'[x] = "threw"
         \/ RejectParent /\ x = Parent
  <1>0. TypeOK /\ TypeOK'
    BY TypeNext DEF IInv
  <1>1. CASE Calm
    BY <1>0, <1>1, CalmIs
  <1>2. CASE EvalEnter \/ EvalRequired \/ EvalDone \/ GatherParent \/ GatherReturn \/ RejectReturn
    BY <1>2 DEF EvalEnter, EvalRequired, EvalDone, GatherParent, GatherReturn, RejectReturn
  <1>3. CASE EvalFail \/ EvalThrow
    BY <1>3 DEF EvalFail, EvalThrow, Unwind, On
  <1>4. ASSUME NEW m, eval_has_exception' = [eval_has_exception EXCEPT ![m] = TRUE]
        PROVE  x = m
    <2>1. eval_has_exception \in [Module -> BOOLEAN]
      BY <1>0 DEF TypeOK
    <2> QED BY <1>4, <2>1, Zenon
  <1>5. CASE RejectParent
    <2>1. eval_has_exception' = [eval_has_exception EXCEPT ![Parent] = TRUE]
      BY <1>5 DEF RejectParent
    <2> QED BY <1>4, <1>5, <2>1
  <1>6. ASSUME NEW m \in Module, ExecSkip(m) \/ ExecAsync(m) \/ ExecSync(m) \/ Fulfilled(m)
        PROVE  FALSE
    BY <1>6 DEF ExecSkip, ExecAsync, ExecSync, Fulfilled
  <1>7. ASSUME NEW m \in Module, ExecThrow(m) \/ Rejected(m) PROVE body'[x] = "threw"
    <2>1. /\ body' = [body EXCEPT ![m] = "threw"]
          /\ eval_has_exception' = eval_has_exception \/ eval_has_exception' = [eval_has_exception EXCEPT ![m] = TRUE]
      BY <1>7 DEF ExecThrow, Rejected, Reject, Run
    <2>2. eval_has_exception' = [eval_has_exception EXCEPT ![m] = TRUE]
      BY <2>1
    <2>3. x = m
      BY <1>4, <2>2
    <2> QED BY <1>0, <2>1, <2>3 DEF TypeOK
  <1>8. CASE UNCHANGED vars
    BY <1>8 DEF vars
  <1> QED BY <1>1, <1>2, <1>3, <1>5, <1>6, <1>7, <1>8, Steps

\* A module that has failed needs one that threw
ThrewInv == \A x \in Module : eval_has_exception[x] => \E z \in Reach(x) : body[z] = "threw"

\* ... and so is ThrewInv
LEMMA ThrewNext ==
  IInv /\ NeedInv /\ RootReach /\ WaitReach /\ ThrewInv /\ [Next]_vars => ThrewInv'
  <1> SUFFICES ASSUME IInv, NeedInv, RootReach, WaitReach, ThrewInv, [Next]_vars,
                      NEW x \in Module, eval_has_exception'[x]
               PROVE  \E z \in Reach(x) : body'[z] = "threw"
    BY ReqSame, ReachSame DEF ThrewInv
  <1>0. TypeOK /\ FrameInv
    BY DEF IInv
  <1>1. ASSUME NEW y \in Module, y \in Reach(x), eval_has_exception[y]
        PROVE  \E z \in Reach(x) : body'[z] = "threw"
    <2>1. PICK z \in Reach(y) : body[z] = "threw"
      BY <1>1 DEF ThrewInv
    <2>2. z \in Reach(x) /\ z \in Module
      BY <1>1, <2>1, ReachTrans DEF Reach
    <2>3. body'[z] = "threw"
      BY <2>1, <2>2, BodyLasts
    <2> QED BY <2>2, <2>3
  <1>2. CASE eval_has_exception[x]
    BY <1>1, <1>2, ReachSelf
  <1>3. CASE body'[x] = "threw"
    BY <1>3, ReachSelf
  <1>4. CASE (EvalFail \/ EvalThrow) /\ x \in On
    <2>1. phase = "evaluate" /\ Walking
      BY <1>4 DEF EvalFail, EvalThrow, Walking
    <2>2. calls # <<>>
      BY <1>4, <2>1, RootOn
    <2> SUFFICES ASSUME NEW t, t = This, NEW c, c = Callee PROVE \E z \in Reach(x) : body'[z] = "threw"
      OBVIOUS
    <2>3. t \in Module /\ t \in Reach(x)
      BY <1>4, <2>1, <2>2, ThisIs, ThisNeeded
    <2>4. CASE EvalThrow
      <3>1. body' = [body EXCEPT ![t] = "threw"]
        BY <2>4 DEF EvalThrow, Run
      <3> QED BY <1>0, <2>3, <3>1 DEF TypeOK
    <2>5. CASE EvalFail
      <3>1. ~AllRequired /\ CalleeFailed
        BY <2>5 DEF EvalFail
      <3>2. c \in Module /\ c \in Range(req[t])
        BY <1>0, <2>1, <2>2, <2>3, <3>1, CalleeIs, RequestIs
      <3>3. c \in Reach(x)
        BY <1>0, <2>3, <3>2, ReachEdge, ReachTrans
      <3>4. CASE eval_has_exception[c]
        BY <1>1, <3>2, <3>3, <3>4
      <3>5. CASE ~eval_has_exception[c]
        <4>1. status[c] \in Ended /\ eval_has_exception[cycle_root[c]]
          BY <3>1, <3>5 DEF CalleeFailed
        <4>2. cycle_root[c] \in Reach(c) /\ cycle_root[c] \in Module
          BY <3>2, <3>5, <4>1 DEF RootReach, IInv, RootInv
        <4>3. cycle_root[c] \in Reach(x)
          BY <3>3, <4>2, ReachTrans
        <4> QED BY <1>1, <4>1, <4>2, <4>3
      <3> QED BY <3>4, <3>5
    <2> QED BY <1>4, <2>4, <2>5
  <1>5. CASE RejectParent /\ x = Parent
    <2>1. phase = "reject" /\ ~AllParents
      BY <1>5 DEF RejectParent
    <2>2. This \in Module /\ This \in Called /\ Waits(x, This)
      BY <1>5, <2>1, ParentWaits
    <2>3. eval_has_exception[This]
      BY <2>1, <2>2 DEF IInv, AsyncInv, FailInv, Called
    <2>4. This \in Reach(x)
      BY <2>2 DEF WaitReach
    <2> QED BY <1>1, <2>2, <2>3, <2>4
  <1> QED BY <1>2, <1>3, <1>4, <1>5, NewlyFailed

----------------------------------------------------------------------------
(* Promises *)

\* A promise is fulfilled when its module has finished, and rejected when it failed
OutcomeInv == \A m \in Module :
  /\ promise[m] = "fulfilled" => Finished(m)
  /\ promise[m] = "rejected" => eval_has_exception[m]

\* Settling keeps to that
LEMMA SettleOutcome ==
  ASSUME IInv, [Next]_vars, OutcomeInv, NEW m \in Module, NEW o \in {"fulfilled", "rejected"},
         Settle(m, o) \/ promise' = promise,
         o = "fulfilled" => Finished(m)', o = "rejected" => eval_has_exception'[m]
  PROVE  OutcomeInv'
  <1>1. Lasting
    BY LastingNext
  <1>2. \A x \in Module : promise'[x] = promise[x] \/ (x = m /\ promise'[x] \in {"none", o})
    <2>1. TypeOK
      BY DEF IInv
    <2> QED BY <2>1, SettleIs
  <1>3. \A x \in Module : (Finished(x) => Finished(x)') /\ (eval_has_exception[x] => eval_has_exception'[x])
    BY <1>1 DEF Lasting
  <1> SUFFICES ASSUME NEW x \in Module
               PROVE  /\ promise'[x] = "fulfilled" => Finished(x)'
                      /\ promise'[x] = "rejected" => eval_has_exception'[x]
    BY DEF OutcomeInv
  <1>4. CASE promise'[x] = promise[x]
    BY <1>3, <1>4 DEF OutcomeInv
  <1>5. CASE x = m /\ promise'[x] \in {"none", o}
    BY <1>5
  <1> QED BY <1>2, <1>4, <1>5

\* OutcomeInv is kept by every step.
LEMMA OutcomeNext == IInv /\ OutcomeInv /\ [Next]_vars => OutcomeInv'
  <1> SUFFICES ASSUME IInv, OutcomeInv, [Next]_vars PROVE OutcomeInv'
    OBVIOUS
  <1>0. TypeOK /\ FrameInv /\ FailInv /\ ExecInv /\ \A x \in Module : StateOf(x)
    BY DEF IInv, StateInv, AsyncInv
  <1>S. ASSUME promise' = promise PROVE OutcomeInv'
    <2>1. Lasting
      BY LastingNext
    <2> QED BY <1>S, <2>1 DEF Lasting, OutcomeInv
  <1>1. CASE EvaluateModule
    <2>1. \A x \in Module : promise'[x] = promise[x] \/ promise'[x] = "pending"
      BY <1>0, <1>1 DEF EvaluateModule, TypeOK
    <2>2. Lasting
      BY LastingNext
    <2> QED BY <2>1, <2>2 DEF Lasting, OutcomeInv
  <1>2. CASE EvalFail \/ EvalThrow
    <2>1. /\ phase = "evaluate" /\ Settle(root, "rejected")
          /\ eval_has_exception' = [x \in Module |-> x \in On \/ eval_has_exception[x]]
      BY <1>2 DEF EvalFail, EvalThrow, Unwind, On
    <2>2. root \in Module /\ (calls # <<>> => root \in On)
      BY <2>1, RootOn DEF Walking
    <2>3. eval_has_exception'[root]
      <3>1. CASE calls # <<>>
        BY <2>1, <2>2, <3>1
      <3>2. CASE calls = <<>>
        <4>1. CalleeFailed
          BY <1>2, <3>2 DEF EvalFail, EvalThrow, AllRequired
        <4>2. eval_has_exception[root]
          BY <3>2, <4>1 DEF CalleeFailed, Callee
        <4> QED BY <2>1, <2>2, <4>2
      <3> QED BY <3>1, <3>2
    <2> SUFFICES ASSUME NEW r, r = root PROVE OutcomeInv'
      OBVIOUS
    <2>4. r \in Module /\ Settle(r, "rejected") /\ eval_has_exception'[r]
      BY <2>1, <2>2, <2>3
    <2> QED BY <2>4, SettleOutcome
  <1>3. CASE EvaluateReturn
    <2>1. /\ phase = "evaluate" /\ status[root] \in Ended /\ ~eval_has_exception[root]
          /\ promise' = promise \/ (~async_evaluation[root] /\ Settle(root, "fulfilled"))
          /\ UNCHANGED <<body, eval_has_exception, status>>
      BY <1>3 DEF EvaluateReturn, runs
    <2>2. root \in Module
      BY <2>1, RootOn DEF Walking
    <2> SUFFICES ASSUME NEW r, r = root, ~async_evaluation[r], Settle(r, "fulfilled") PROVE OutcomeInv'
      BY <1>S, <2>1
    <2>3. Finished(r)
      BY <1>0, <2>1, <2>2 DEF StateOf, Finished, Ended
    <2>4. Finished(r)' /\ r \in Module
      BY <2>1, <2>2, <2>3 DEF Finished
    <2> QED BY <2>4, SettleOutcome
  <1>4. ASSUME NEW m \in Module, Fulfilled(m) PROVE OutcomeInv'
    <2>1. /\ phase = "idle" /\ body[m] = "running" /\ body' = [body EXCEPT ![m] = "done"]
          /\ eval_has_exception' = eval_has_exception
          /\ promise' = promise \/ (~GivenUp(m) /\ SetEvaluated(m))
      BY <1>4 DEF Fulfilled
    <2> SUFFICES ASSUME ~GivenUp(m), SetEvaluated(m) PROVE OutcomeInv'
      BY <1>S, <2>1
    <2>2. status[m] \in Ended
      BY <2>1, Quiet DEF Walking
    <2>3. Finished(m)'
      BY <1>0, <2>1, <2>2 DEF StateOf, Ended, GivenUp, SetEvaluated, Finished, TypeOK
    <2>4. Settle(m, "fulfilled")
      BY DEF SetEvaluated
    <2> QED BY <2>3, <2>4, SettleOutcome
  <1>5. ASSUME NEW m \in Module, ExecSync(m) PROVE OutcomeInv'
    <2>1. /\ m \in exec_list /\ body' = [body EXCEPT ![m] = "done"]
          /\ eval_has_exception' = eval_has_exception
          /\ ~GivenUp(m) /\ SetEvaluated(m)
      BY <1>5 DEF ExecSync, IsFirst, Run
    <2>2. status[m] \in Ended
      BY <1>0, <2>1 DEF ExecInv
    <2>3. Finished(m)'
      BY <1>0, <2>1, <2>2 DEF StateOf, Ended, GivenUp, SetEvaluated, Finished, TypeOK
    <2>4. Settle(m, "fulfilled")
      BY <2>1 DEF SetEvaluated
    <2> QED BY <2>3, <2>4, SettleOutcome
  <1>6. CASE RejectReturn
    <2>1. phase = "reject" /\ Settle(This, "rejected") /\ eval_has_exception' = eval_has_exception
      BY <1>6 DEF RejectReturn
    <2>2. This \in Module /\ This \in Called
      BY <1>0, <2>1, CallIs DEF FrameInv
    <2>3. eval_has_exception[This]
      BY <1>0, <2>1, <2>2 DEF FailInv, Called
    <2> SUFFICES ASSUME NEW t, t = This PROVE OutcomeInv'
      OBVIOUS
    <2>4. t \in Module /\ Settle(t, "rejected") /\ eval_has_exception'[t]
      BY <2>1, <2>2, <2>3
    <2> QED BY <2>4, SettleOutcome
  <1>7. CASE Link \/ EvalEnter \/ EvalRequired \/ EvalDone \/ GatherParent \/ GatherReturn \/ RejectParent \/ ExecEnd
    <2>1. promise' = promise
      BY <1>7 DEF Link, LinkEnter, LinkRequired, LinkDone, LinkFail, EvalEnter, EvalRequired, EvalDone,
         GatherParent, GatherReturn, RejectParent, ExecEnd
    <2> QED BY <1>S, <2>1
  <1>8. ASSUME NEW m \in Module, Import(m) \/ ExecSkip(m) \/ ExecAsync(m) \/ ExecThrow(m) \/ Rejected(m)
        PROVE  OutcomeInv'
    <2>1. promise' = promise
      BY <1>8 DEF Import, ExecSkip, ExecAsync, ExecThrow, Rejected
    <2> QED BY <1>S, <2>1
  <1>9. CASE UNCHANGED vars
    BY <1>S, <1>9 DEF vars
  <1> QED BY <1>1, <1>2, <1>3, <1>4, <1>5, <1>6, <1>7, <1>8, <1>9 DEF Next, Evaluate, Reaction, Await

\* ... so PromiseMeans follows.
LEMMA Meaning ==
  ASSUME IInv, EdgeDone, ThrewInv, OutcomeInv
  PROVE  PromiseMeans
  <1> SUFFICES ASSUME NEW m \in Module
               PROVE  /\ promise[m] = "fulfilled" => \A x \in Reach(m) : body[x] = "done"
                      /\ promise[m] = "rejected" => \E x \in Reach(m) : body[x] = "threw"
    BY DEF PromiseMeans
  <1>1. ASSUME promise[m] = "fulfilled" PROVE \A x \in Reach(m) : body[x] = "done"
    <2>1. Finished(m)
      BY <1>1 DEF OutcomeInv
    <2>2. status[m] \in Ended
      BY <2>1 DEF Finished, Ended
    <2>3. cycle_root[m] = m
      BY <1>1, <2>2 DEF IInv, RootInv
    <2>4. Complete(m)
      BY <2>1, <2>2, <2>3 DEF Complete
    <2> QED BY <2>4, AllDone
  <1>2. ASSUME promise[m] = "rejected" PROVE \E x \in Reach(m) : body[x] = "threw"
    BY <1>2 DEF OutcomeInv, ThrewInv
  <1> QED BY <1>1, <1>2

----------------------------------------------------------------------------
(* The theorems on order and outcome *)

\* The inductive invariant of the order of execution and of the outcomes
SettledInv ==
  /\ FullInv /\ NeedInv /\ PassedInv /\ EdgeDone /\ RunInv /\ RanInv
  /\ RootReach /\ WaitReach /\ ThrewInv /\ OutcomeInv

\* It holds at the start.
LEMMA InitOrdered == Init => SettledInv
  <1> SUFFICES ASSUME Init PROVE SettledInv
    OBVIOUS
  <1>1. FullInv
    BY InitInv
  <1>2. /\ phase = "idle" /\ ran = <<>>
        /\ \A m \in Module : /\ status[m] = "UNLINKED" /\ async_parent_modules[m] = <<>>
                             /\ ~eval_has_exception[m] /\ promise[m] = "none" /\ body[m] = "unrun"
    BY DEF Init
  <1>3. NeedInv /\ PassedInv
    BY <1>2 DEF NeedInv, DownInv, UpInv, BackInv, PassedInv, PassOn, PassEnded
  <1>4. EdgeDone /\ RunInv /\ RootReach /\ ThrewInv /\ OutcomeInv
    BY <1>2 DEF EdgeDone, RunInv, RootReach, ThrewInv, OutcomeInv, Ended
  <1>5. RanInv
    BY <1>2 DEF RanInv, IsInjective, Range
  <1>6. WaitReach
    BY <1>2 DEF WaitReach, Waits, Range
  <1> QED BY <1>1, <1>3, <1>4, <1>5, <1>6 DEF SettledInv

\* It is kept by every step.
LEMMA OrderedNext == SettledInv /\ [Next]_vars => SettledInv'
  <1> SUFFICES ASSUME SettledInv, [Next]_vars PROVE SettledInv'
    OBVIOUS
  <1>1. FullInv /\ IInv /\ NeedInv /\ PassedInv /\ EdgeDone /\ RunInv /\ RanInv /\ RootReach /\ WaitReach
        /\ ThrewInv /\ OutcomeInv
    BY DEF SettledInv, FullInv
  <1>2. FullInv'
    BY <1>1, InvNext
  <1>3. NeedInv' /\ PassedInv' /\ EdgeDone'
    BY <1>1, NeedNext, PassedNext, EdgeNext
  <1>4. RunInv' /\ RanInv'
    BY <1>1, RunNext, RanNext
  <1>5. RootReach' /\ WaitReach' /\ ThrewInv' /\ OutcomeInv'
    BY <1>1, RootReachNext, WaitReachNext, ThrewNext, OutcomeNext
  <1> QED BY <1>2, <1>3, <1>4, <1>5 DEF SettledInv

\* A module's code runs once, and after all that it needs, cycles aside, has ended without an
\* exception (js_inner_module_evaluation, gather_available_ancestors and
\* js_async_module_execution_fulfilled, 29795-30103): whatever the modules request of each other,
\* which of them await, throw or reject, and when they are imported, for any set of modules.
THEOREM InOrder == Spec => []RunsOnceInOrder
  <1>1. SettledInv => RunsOnceInOrder
    BY RunsInOrder DEF SettledInv, FullInv
  <1> QED BY <1>1, InitOrdered, OrderedNext, PTL DEF Spec

\* The promise of js_evaluate_module (30105-30156) is fulfilled only when all that its module needs
\* has ended, and rejected only when one of these threw: for any set of modules.
THEOREM Promises == Spec => []PromiseMeans
  <1>1. SettledInv => PromiseMeans
    BY Meaning DEF SettledInv, FullInv
  <1> QED BY <1>1, InitOrdered, OrderedNext, PTL DEF Spec
=============================================================================
