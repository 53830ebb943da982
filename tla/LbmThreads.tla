----------------------------- MODULE LbmThreads -----------------------------
(***************************************************************************)
(* 619.lbm_s with pthreads.  Every operation on the grids makes a thread   *)
(* per processor, gives each a copy of the grids and a range of slices (of *)
(* equal z) to work on, joins them all, and copies the first one's grid    *)
(* back (after the TRT kernel: none).                                      *)
(*                                                                         *)
(* main.c of the benchmark, which is not in the repository, is the         *)
(* environment: it allocates two grids, prepares both and then alternates  *)
(* between a collision step and a swap.                                    *)
(*                                                                         *)
(* Of a slice only this is kept: how often it went through a collision     *)
(* since it was initialised, and whether its flags are set.                *)
(***************************************************************************)
EXTENDS Integers

CONSTANTS SizeZ,     \* SIZE_Z
          Cpus,      \* bound: processors, sysconf(_SC_NPROCESSORS_ONLN)
          MaxSteps   \* bound: collision steps

ASSUME SizeAssumption == SizeZ \in Nat /\ MaxSteps \in Nat
\* SIZE_Z is 130, and the machines have far fewer than 65 processors
ASSUME CpusAssumption == Cpus \in Nat \ {0} /\ 2 * Cpus <= SizeZ /\ Cpus <= SizeZ

VARIABLES
  kernel,   \* "BGK" or "TRT", the collision that was compiled in
  calls,    \* calls of main so far
  pc,       \* of main: in its own code, in the loop that creates or the one that joins
  n,        \* num_threads of the call
  created, joined,  \* the loop variables
  grid,     \* main's grids
  state,    \* per thread
  z,        \* per thread: the next slice
  copy,     \* per thread: the grids of its thread_data
  crashed,
  swept,    \* history: <<thread, slice>> of this call
  outside   \* history: those of them that are not in the grid

vars == <<kernel, calls, pc, n, created, joined, grid, state, z, copy, crashed, swept, outside>>

Thread == 0..Cpus - 1
Slice  == 0..SizeZ - 1
Raw    == -1
Value  == [f : {Raw} \cup 0..MaxSteps, flags : {"raw", "clear", "special"}]
Grids  == [{"src", "dst"} -> [Slice -> Value]]

TypeOK ==
  /\ kernel \in {"BGK", "TRT"}
  /\ calls \in 0..4 + MaxSteps
  /\ pc \in {"main", "create", "join", "swap"}
  /\ n \in 1..Cpus
  /\ created \in 0..n /\ joined \in 0..created
  /\ grid \in Grids
  /\ state \in [Thread -> {"none", "running", "ended", "failed"}]
  /\ z \in [Thread -> -2..SizeZ + 2]
  /\ copy \in [Thread -> Grids]
  /\ crashed \in BOOLEAN
  /\ swept \subseteq Thread \X (-2..SizeZ + 1)
  /\ outside \subseteq swept

\* malloc does not clear
NoGrid == [g \in {"src", "dst"} |-> [i \in Slice |-> [f |-> Raw, flags |-> "raw"]]]

Init ==
  /\ kernel \in {"BGK", "TRT"}
  /\ calls = 0
  /\ pc = "main"
  /\ n = 1 /\ created = 0 /\ joined = 0
  /\ grid = NoGrid
  /\ state = [t \in Thread |-> "none"]
  /\ z = [t \in Thread |-> 0]
  /\ copy = [t \in Thread |-> NoGrid]
  /\ crashed = FALSE
  /\ swept = {} /\ outside = {}

----------------------------------------------------------------------------
\* The operation under way: main initialises both grids, marks the special cells
\* of both, then collides
Collides == calls > 4
Target   == IF calls \in {1, 3} THEN "src" ELSE "dst"

\* What the operation makes of slice i of the target, from the grids g
Initialised  == [f |-> 0, flags |-> "clear"]
Marked(v)    == [v EXCEPT !.flags = IF @ = "raw" THEN @ ELSE "special"]
Collided(v, w) ==
  [w EXCEPT !.f = IF v.f = Raw \/ v.flags = "raw" \/ v.f = MaxSteps THEN Raw ELSE v.f + 1]
Done(g, i) ==
  IF Collides THEN Collided(g["src"][i], g["dst"][i])
  ELSE IF calls \in {1, 2} THEN Initialised ELSE Marked(g[Target][i])

\* The range of the slices, two wider at both ends for the margins the grids of
\* LBM_allocateGrid have, and its cut into one chunk per thread
Margin     == IF Collides THEN 0 ELSE 2
chunk_size == LET c == (SizeZ + 2 * Margin) \div n IN IF c < 1 THEN 1 ELSE c
\* Fault: the remainder of the division is left out
start_z(t)    == t * chunk_size - Margin
end_zBug(t)   == (t + 1) * chunk_size - Margin
end_z(t)      == IF t = n - 1 THEN SizeZ + Margin ELSE (t + 1) * chunk_size - Margin
Range(t)      == start_z(t)..end_z(t) - 1

----------------------------------------------------------------------------
\* main calls the next operation, which allocates
Call ==
  /\ pc = "main" /\ ~crashed /\ calls < 4 + MaxSteps
  /\ calls' = calls + 1
  /\ pc' = "create"
  /\ n' \in 1..Cpus
  /\ created' = 0 /\ joined' = 0
  /\ state' = [t \in Thread |-> "none"]
  /\ swept' = {} /\ outside' = {}
  /\ UNCHANGED <<kernel, grid, z, copy, crashed>>

\* No memory for as many grids as threads: memcpy to NULL
NoMemory ==
  /\ pc = "create" /\ created = 0 /\ ~crashed
  /\ crashed' = TRUE
  /\ UNCHANGED <<kernel, calls, pc, n, created, joined, grid, state, z, copy, swept, outside>>

\* A copy, a range and a thread, which pthread_create may fail to make, unnoticed
Create ==
  /\ pc = "create" /\ ~crashed /\ created < n
  /\ copy' = [copy EXCEPT ![created] = grid]
  /\ z' = [z EXCEPT ![created] = start_z(created)]
  /\ \E s \in {"running", "failed"} : state' = [state EXCEPT ![created] = s]
  /\ created' = created + 1
  /\ pc' = IF created + 1 = n THEN "join" ELSE pc
  /\ UNCHANGED <<kernel, calls, n, joined, grid, crashed, swept, outside>>

\* A thread works on its next slice.  One outside the grid is in the margin of
\* the caller's grid, but the thread's copy has none: undefined behaviour, which
\* ends the program (always so in the purecap ABI) or goes unnoticed
Sweep(t) ==
  /\ state[t] = "running" /\ ~crashed /\ z[t] < end_z(t)
  /\ z' = [z EXCEPT ![t] = @ + 1]
  /\ swept' = swept \cup {<<t, z[t]>>}
  /\ IF z[t] \in Slice
       THEN /\ copy' = [copy EXCEPT ![t][Target][z[t]] = Done(copy[t], z[t])]
            /\ UNCHANGED <<crashed, outside>>
       ELSE /\ crashed' \in BOOLEAN
            /\ outside' = outside \cup {<<t, z[t]>>}
            /\ UNCHANGED copy
  /\ UNCHANGED <<kernel, calls, pc, n, created, joined, grid, state>>

EndThread(t) ==
  /\ state[t] = "running" /\ ~crashed /\ z[t] >= end_z(t)
  /\ state' = [state EXCEPT ![t] = "ended"]
  /\ UNCHANGED <<kernel, calls, pc, n, created, joined, grid, z, copy, crashed, swept, outside>>

\* pthread_join; of a tid that was never written it crashes or fails, unnoticed.
\* Faults: does not wait; blocks on a tid that was never written
JoinableBug(t)  == TRUE
JoinableBug2(t) == state[t] = "ended"
Joinable(t)     == state[t] \in {"ended", "failed"}
Join ==
  /\ pc = "join" /\ ~crashed /\ joined < n
  /\ Joinable(joined)
  /\ \/ joined' = joined + 1 /\ UNCHANGED crashed
     \/ state[joined] = "failed" /\ crashed' = TRUE /\ UNCHANGED joined
  /\ UNCHANGED <<kernel, calls, pc, n, created, grid, state, z, copy, swept, outside>>

\* The copy back, which LBM_performStreamCollideTRT has not
Result == IF Collides /\ kernel = "TRT" THEN grid[Target] ELSE copy[0][Target]
Return ==
  /\ pc = "join" /\ ~crashed /\ joined = n
  /\ grid' = [grid EXCEPT ![Target] = Result]
  /\ pc' = IF Collides THEN "swap" ELSE "main"
  /\ UNCHANGED <<kernel, calls, n, created, joined, state, z, copy, crashed, swept, outside>>

\* LBM_swapGrids
Swap ==
  /\ pc = "swap" /\ ~crashed
  /\ grid' = [src |-> grid["dst"], dst |-> grid["src"]]
  /\ pc' = "main"
  /\ UNCHANGED <<kernel, calls, n, created, joined, state, z, copy, crashed, swept, outside>>

Main == Call \/ NoMemory \/ Create \/ Join \/ Return \/ Swap
Next == Main \/ \E t \in Thread : Sweep(t) \/ EndThread(t)

Spec == Init /\ [][Next]_vars

\* The threads and main run as the operating system lets them
FairSpec ==
  /\ Spec
  /\ WF_vars(Create \/ Join \/ Return \/ Swap)
  /\ \A t \in Thread : WF_vars(Sweep(t) \/ EndThread(t))

----------------------------------------------------------------------------
(* Properties *)

Whole == -Margin..SizeZ + Margin - 1

\* The cut: no slice is worked on by two threads, and when all have been joined
\* every slice of the whole range has been by one, unless that one was never made.
SweptOnce ==
  /\ \A p, q \in swept : p[2] = q[2] => p[1] = q[1]
  /\ pc = "join" /\ joined = n =>
       \A i \in Whole : \E t \in Thread :
          i \in Range(t) /\ (state[t] = "failed" \/ <<t, i>> \in swept)

\* The margins: what lies outside the grids is only touched by the first thread,
\* in the two slices before the grid, and by the last, in the two behind it, and
\* never by a collision.
OutsideIsMargin ==
  \A p \in outside :
     /\ ~Collides
     /\ \/ p[1] = 0     /\ p[2] \in {-2, -1}
        \/ p[1] = n - 1 /\ p[2] \in {SizeZ, SizeZ + 1}

\* Where the threads work
SlicesInv == TypeOK /\ SweptOnce /\ OutsideIsMargin

\* "Copy back the results from the first thread": a call that returns has done
\* what the sequential program does in the slices of its first thread, and
\* nothing in the others; nothing at all with the TRT kernel.
FirstThreadsWork ==
  [][Return => \A i \in Slice :
       grid'[Target][i] =
         IF (Collides /\ kernel = "TRT") \/ state[0] = "failed" \/ i \notin Range(0)
           THEN grid[Target][i] ELSE Done(grid, i)]_vars

\* A call returns or the program crashes: the joins wait for threads that end.
CallsReturn == (pc # "main") ~> (pc = "main" \/ crashed)
=============================================================================
