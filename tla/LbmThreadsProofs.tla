-------------------------- MODULE LbmThreadsProofs --------------------------
(***************************************************************************)
(* The threads of 619.lbm_s for any number of slices, processors and       *)
(* steps: the cut covers each slice once and leaves the grids only in the  *)
(* margins, and a call returns its first thread's work.                    *)
(***************************************************************************)
EXTENDS LbmThreads, TLAPS

----------------------------------------------------------------------------
(* The cut of W slices into m chunks *)

LEMMA ChunkSize ==
  ASSUME NEW W \in Nat, NEW m \in Nat \ {0}, NEW k \in Nat \ {0}, k * m <= W
  PROVE  W \div m \in Nat /\ W \div m >= k /\ m * (W \div m) <= W
<1> DEFINE c == W \div m
<1>1. c \in Int /\ m * c <= W /\ W < m * c + m
  OBVIOUS
<1>2. c >= k
  <2> SUFFICES ASSUME c + 1 <= k PROVE FALSE
    BY <1>1
  <2>1. m * (c + 1) <= m * k
    BY <1>1
  <2>2. m * (c + 1) = m * c + m /\ m * k = k * m
    BY <1>1
  <2> QED
    BY <1>1, <2>1, <2>2
<1> QED
  BY <1>1, <1>2

LEMMA Monotone ==
  ASSUME NEW a \in Nat, NEW b \in Nat, NEW c \in Nat, a <= b
  PROVE  a * c \in Nat /\ b * c \in Nat /\ a * c <= b * c
  OBVIOUS

LEMMA Successor ==
  ASSUME NEW a \in Nat, NEW c \in Nat
  PROVE  (a + 1) * c = a * c + c /\ a * c \in Nat
  OBVIOUS

\* A chunk that contains w, unless w is behind all chunks but the last
LEMMA Containing ==
  ASSUME NEW w \in Nat, NEW c \in Nat \ {0}
  PROVE  /\ w \div c \in Nat
         /\ (w \div c) * c <= w
         /\ w < (w \div c + 1) * c
  OBVIOUS

LEMMA Size ==
  ASSUME n \in 1..Cpus
  PROVE  /\ chunk_size \in Nat \ {0}
         /\ ~Collides => chunk_size >= 2
         /\ n * chunk_size <= SizeZ + 2 * Margin
         /\ Margin = IF Collides THEN 0 ELSE 2
<1> DEFINE W == SizeZ + 2 * Margin
           c == W \div n
<1>1. Margin \in {0, 2} /\ Margin = IF Collides THEN 0 ELSE 2
  BY DEF Margin
<1>2. W \in Nat /\ n \in Nat \ {0} /\ 1 * n <= W /\ 2 * n <= W
  BY <1>1, SizeAssumption, CpusAssumption
<1>3. c \in Nat /\ c >= 2 /\ n * c <= W
  BY <1>2, ChunkSize
<1>4. chunk_size = c
  BY <1>3 DEF chunk_size
<1> QED
  BY <1>1, <1>3, <1>4

LEMMA Cut ==
  ASSUME n \in 1..Cpus, NEW t \in 0..n - 1
  PROVE  /\ start_z(t) \in Int /\ end_z(t) \in Int
         /\ -Margin <= start_z(t) /\ start_z(t) < end_z(t)
         /\ end_z(t) <= SizeZ + Margin
         /\ \A u \in 0..n - 1 : t < u => end_z(t) <= start_z(u)
         /\ t > 0 => start_z(t) >= 0
         /\ t < n - 1 => end_z(t) <= SizeZ
         /\ t = 0 => start_z(t) = -Margin
         /\ t = n - 1 => end_z(t) = SizeZ + Margin
<1> DEFINE c == chunk_size
           W == SizeZ + 2 * Margin
<1>1. /\ c \in Nat \ {0} /\ n * c <= W
      /\ Margin \in {0, 2} /\ (Margin = 2 => c >= 2)
      /\ Cpus \in Nat /\ SizeZ \in Nat /\ n \in Nat /\ t \in Nat
  BY Size, SizeAssumption, CpusAssumption
<1>2. /\ start_z(t) = t * c - Margin
      /\ end_z(t) = IF t = n - 1 THEN SizeZ + Margin ELSE (t + 1) * c - Margin
  BY DEF start_z, end_z
<1>3. t * c \in Nat /\ (t + 1) * c = t * c + c /\ (n - 1 + 1) * c = (n - 1) * c + c
  BY <1>1, Successor, n - 1 \in Nat
<1> HIDE DEF c, W
<1>4. t * c <= (n - 1) * c /\ (n - 1) * c \in Nat
  BY <1>1, Monotone, t <= n - 1, n - 1 \in Nat
<1>5. n - 1 + 1 = n
  BY <1>1
<1>6. (n - 1) * c + c <= W
  BY <1>1, <1>3, <1>5
<1>7. ASSUME t < n - 1
      PROVE  (t + 1) * c <= (n - 1) * c
  BY <1>1, <1>7, Monotone, t + 1 <= n - 1, n - 1 \in Nat, t + 1 \in Nat
<1>8. ASSUME NEW u \in 0..n - 1, t < u
      PROVE  end_z(t) <= start_z(u)
  <2>1. start_z(u) = u * c - Margin
    BY DEF start_z, c
  <2>2. (t + 1) * c <= u * c /\ u * c \in Nat
    BY <1>1, <1>8, Monotone, t + 1 <= u, t + 1 \in Nat, u \in Nat
  <2> QED
    BY <1>1, <1>2, <1>3, <1>8, <2>1, <2>2, t # n - 1
<1>9. ASSUME t > 0 PROVE t * c >= c
  <2>1. 1 * c <= t * c
    BY <1>1, <1>9, Monotone
  <2> QED
    BY <1>1, <2>1
<1>10. 0 * c = 0
  BY <1>1
<1> QED
  BY <1>1, <1>2, <1>3, <1>4, <1>6, <1>7, <1>8, <1>9, <1>10 DEF W

LEMMA Cover ==
  ASSUME n \in 1..Cpus, NEW i \in Whole
  PROVE  \E t \in 0..n - 1 : i \in Range(t)
<1> DEFINE c == chunk_size
           w == i + Margin
           q == w \div c
<1>1. /\ c \in Nat \ {0}
      /\ Margin \in {0, 2}
      /\ Cpus \in Nat /\ SizeZ \in Nat /\ n \in Nat
  BY Size, SizeAssumption, CpusAssumption
<1>2. w \in Nat /\ i \in Int /\ i < SizeZ + Margin
  BY <1>1 DEF Whole
<1>3. q \in Nat /\ q * c <= w /\ w < (q + 1) * c
  BY <1>1, <1>2, Containing
<1> HIDE DEF q, c
<1>4. CASE q < n - 1
  <2>1. start_z(q) = q * c - Margin /\ end_z(q) = (q + 1) * c - Margin
    BY <1>3, <1>4 DEF start_z, end_z, c
  <2>2. q * c \in Int /\ (q + 1) * c \in Int
    BY <1>1, <1>3
  <2>3. i \in Range(q)
    BY <1>1, <1>2, <1>3, <2>1, <2>2 DEF Range
  <2> QED
    BY <1>1, <1>3, <1>4, <2>3
<1>5. CASE q >= n - 1
  <2>1. start_z(n - 1) = (n - 1) * c - Margin /\ end_z(n - 1) = SizeZ + Margin
    BY DEF start_z, end_z, c
  <2>2. (n - 1) * c <= q * c /\ (n - 1) * c \in Nat /\ q * c \in Nat
    BY <1>1, <1>3, <1>5, Monotone, n - 1 \in Nat
  <2>3. i \in Range(n - 1)
    BY <1>1, <1>2, <1>3, <2>1, <2>2 DEF Range
  <2> QED
    BY <1>1, <2>3
<1> QED
  BY <1>1, <1>3, <1>4, <1>5

----------------------------------------------------------------------------
(* The inductive invariant *)

\* The loops of main: threads below created exist, those below joined are over.
LoopInv ==
  /\ pc # "main" => calls >= 1
  /\ pc = "create" => created < n /\ joined = 0
  /\ pc = "join" => created = n
  /\ pc = "swap" => joined = n /\ Collides
  /\ \A t \in Thread : state[t] # "none" <=> t < created
  /\ \A t \in Thread : t < joined => state[t] \in {"ended", "failed"}

\* A thread has worked on the slices from the start of its range to its z.
WorkInv ==
  \A t \in Thread : t < created =>
    /\ start_z(t) <= z[t] /\ z[t] <= end_z(t)
    /\ state[t] = "failed" => z[t] = start_z(t)
    /\ state[t] = "ended" => z[t] = end_z(t)
    /\ \A i \in start_z(t)..z[t] - 1 : <<t, i>> \in swept

\* ... and on no others.
SweptInv ==
  /\ \A p \in swept : p[1] < created /\ p[2] \in Range(p[1])
  /\ \A p \in outside : p[2] \notin Slice

\* The first thread's copy: done up to its z, in the target; the rest as it was.
CopyInv ==
  pc \in {"create", "join"} /\ created > 0 =>
    /\ \A i \in Slice :
          copy[0][Target][i] = IF start_z(0) <= i /\ i < z[0] THEN Done(grid, i)
                                                              ELSE grid[Target][i]
    /\ \A g \in {"src", "dst"} \ {Target} : copy[0][g] = grid[g]

IInv == TypeOK /\ LoopInv /\ WorkInv /\ SweptInv /\ CopyInv

----------------------------------------------------------------------------
LEMMA Constants ==
  /\ SizeZ \in Nat /\ Cpus \in Nat \ {0} /\ MaxSteps \in Nat
  /\ 0 \in Thread
  /\ Target \in {"src", "dst"}
  BY SizeAssumption, CpusAssumption DEF Thread, Target

LEMMA ThreadOf ==
  ASSUME n \in 1..Cpus
  PROVE  \A t \in 0..n - 1 : t \in Thread
  BY Constants DEF Thread

LEMMA DoneType ==
  ASSUME NEW g \in Grids, NEW i \in Slice
  PROVE  Done(g, i) \in Value
<1>1. g["src"][i] \in Value /\ g["dst"][i] \in Value /\ g[Target][i] \in Value
  BY Constants DEF Grids
<1>2. \A v \in Value : Marked(v) \in Value
  BY DEF Marked, Value
<1>3. Initialised \in Value
  BY Constants DEF Initialised, Value
<1>4. ASSUME NEW v \in Value, NEW w \in Value PROVE Collided(v, w) \in Value
  <2>1. v.f \in {Raw} \cup 0..MaxSteps
    BY DEF Value
  <2>2. (IF v.f = Raw \/ v.flags = "raw" \/ v.f = MaxSteps THEN Raw ELSE v.f + 1)
           \in {Raw} \cup 0..MaxSteps
    BY <2>1, Constants DEF Raw
  <2> QED
    BY <2>2 DEF Collided, Value
<1> QED
  BY <1>1, <1>2, <1>3, <1>4 DEF Done

\* What is done to a slice depends on that slice only.
LEMMA DoneLocal ==
  ASSUME NEW g \in Grids, NEW h \in Grids, NEW i \in Slice,
         \A b \in {"src", "dst"} : g[b][i] = h[b][i]
  PROVE  Done(g, i) = Done(h, i)
  BY Constants DEF Done

LEMMA InitIInv == Init => IInv
<1> SUFFICES ASSUME Init PROVE IInv
  OBVIOUS
<1>1. NoGrid \in Grids
  BY DEF NoGrid, Grids, Value
<1>2. TypeOK
  <2>1. /\ n \in 1..Cpus /\ created \in 0..n /\ joined \in 0..created
        /\ calls \in 0..4 + MaxSteps
    BY Constants DEF Init
  <2>2. z \in [Thread -> -2..SizeZ + 2] /\ copy \in [Thread -> Grids] /\ grid \in Grids
    BY <1>1, Constants DEF Init
  <2>3. state \in [Thread -> {"none", "running", "ended", "failed"}]
    BY DEF Init
  <2>4. /\ kernel \in {"BGK", "TRT"} /\ pc \in {"main", "create", "join", "swap"}
        /\ crashed \in BOOLEAN /\ swept = {} /\ outside = {}
    BY DEF Init
  <2> QED
    BY <2>1, <2>2, <2>3, <2>4 DEF TypeOK
<1>3. LoopInv /\ WorkInv /\ SweptInv /\ CopyInv
  BY Constants DEF Init, LoopInv, WorkInv, SweptInv, CopyInv, Thread
<1> QED
  BY <1>2, <1>3 DEF IInv

----------------------------------------------------------------------------
LEMMA TypeStep == IInv /\ [Next]_vars => TypeOK'
<1> SUFFICES ASSUME IInv, [Next]_vars PROVE TypeOK'
  OBVIOUS
<1> USE Constants
<1>0. TypeOK /\ LoopInv /\ WorkInv
  BY DEF IInv
<1>1. CASE Call
  BY <1>0, <1>1 DEF Call, TypeOK
<1>2. CASE NoMemory
  BY <1>0, <1>2 DEF NoMemory, TypeOK
<1>3. CASE Create
  <2>1. created \in 0..n - 1 /\ created \in Thread /\ n \in 1..Cpus
    BY <1>0, <1>3, ThreadOf DEF Create, TypeOK
  <2>2. start_z(created) \in -2..SizeZ + 2
    BY <2>1, Cut, Size
  <2>3. /\ z' \in [Thread -> -2..SizeZ + 2]
        /\ copy' \in [Thread -> Grids]
        /\ state' \in [Thread -> {"none", "running", "ended", "failed"}]
    BY <1>0, <1>3, <2>1, <2>2 DEF Create, TypeOK
  <2>4. created' \in 0..n /\ joined \in 0..created' /\ pc' \in {"create", "join"}
    BY <1>0, <1>3, <2>1 DEF Create, TypeOK
  <2> QED
    BY <1>0, <1>3, <2>3, <2>4 DEF Create, TypeOK
<1>4. ASSUME NEW t \in Thread, Sweep(t) PROVE TypeOK'
  <2>1. t < created /\ t \in 0..n - 1 /\ n \in 1..Cpus
    BY <1>0, <1>4 DEF Sweep, LoopInv, TypeOK, Thread
  <2>2. z[t] \in -2..SizeZ + 1 /\ z[t] + 1 \in -2..SizeZ + 2
    BY <1>0, <1>4, <2>1, Cut, Size DEF Sweep, TypeOK
  <2>3. z' \in [Thread -> -2..SizeZ + 2]
    BY <1>0, <1>4, <2>2 DEF Sweep, TypeOK
  <2>4. copy' \in [Thread -> Grids]
    <3>1. CASE z[t] \in Slice
      <4>1. Done(copy[t], z[t]) \in Value
        BY <1>0, <3>1, DoneType DEF TypeOK
      <4>2. [copy[t] EXCEPT ![Target][z[t]] = Done(copy[t], z[t])] \in Grids
        BY <1>0, <3>1, <4>1 DEF TypeOK, Grids
      <4>3. copy' = [copy EXCEPT ![t] =
                        [copy[t] EXCEPT ![Target][z[t]] = Done(copy[t], z[t])]]
        BY <1>0, <1>4, <3>1 DEF Sweep, TypeOK, Grids
      <4> QED
        BY <1>0, <4>2, <4>3 DEF TypeOK
    <3>2. CASE z[t] \notin Slice
      BY <1>0, <1>4, <3>2 DEF Sweep, TypeOK
    <3> QED
      BY <3>1, <3>2
  <2>5. swept' \subseteq Thread \X (-2..SizeZ + 1) /\ outside' \subseteq swept'
    BY <1>0, <1>4, <2>2 DEF Sweep, TypeOK
  <2>6. crashed' \in BOOLEAN
    BY <1>0, <1>4 DEF Sweep, TypeOK
  <2> QED
    BY <1>0, <1>4, <2>3, <2>4, <2>5, <2>6 DEF Sweep, TypeOK
<1>5. ASSUME NEW t \in Thread, EndThread(t) PROVE TypeOK'
  BY <1>0, <1>5 DEF EndThread, TypeOK
<1>6. CASE Join
  <2>1. created = n /\ n \in 1..Cpus /\ joined \in 0..created /\ joined < n
    BY <1>0, <1>6 DEF Join, TypeOK, LoopInv
  <2>2. joined' \in {joined, joined + 1} /\ crashed' \in {crashed, TRUE}
    BY <1>6 DEF Join
  <2>3. joined' \in 0..created
    BY <2>1, <2>2
  <2>4. crashed' \in BOOLEAN
    BY <1>0, <2>2 DEF TypeOK
  <2> QED
    BY <1>0, <1>6, <2>3, <2>4 DEF Join, TypeOK
<1>7. CASE Return
  <2>1. Result \in [Slice -> Value]
    BY <1>0 DEF Result, TypeOK, Grids
  <2>2. grid' \in Grids
    BY <1>0, <1>7, <2>1 DEF Return, TypeOK, Grids
  <2> QED
    BY <1>0, <1>7, <2>2 DEF Return, TypeOK
<1>8. CASE Swap
  <2>1. grid' \in Grids
    BY <1>0, <1>8 DEF Swap, TypeOK, Grids
  <2> QED
    BY <1>0, <1>8, <2>1 DEF Swap, TypeOK
<1>9. CASE UNCHANGED vars
  BY <1>0, <1>9 DEF vars, TypeOK
<1> QED
  BY <1>1, <1>2, <1>3, <1>4, <1>5, <1>6, <1>7, <1>8, <1>9 DEF Next, Main

LEMMA LoopStep == IInv /\ [Next]_vars => LoopInv'
<1> SUFFICES ASSUME IInv, [Next]_vars PROVE LoopInv'
  OBVIOUS
<1> USE Constants
<1>0. TypeOK /\ LoopInv
  BY DEF IInv
<1>1. CASE Call
  BY <1>0, <1>1 DEF Call, LoopInv, TypeOK, Thread
<1>2. CASE NoMemory
  BY <1>0, <1>2 DEF NoMemory, LoopInv, Collides
<1>3. CASE Create
  <2>1. created \in 0..n - 1 /\ n \in 1..Cpus /\ joined = 0
    BY <1>0, <1>3 DEF Create, TypeOK, LoopInv
  <2>2. \A t \in Thread : state'[t] # "none" <=> t < created'
    BY <1>0, <1>3, <2>1 DEF Create, TypeOK, LoopInv, Thread
  <2>3. /\ pc' = "create" => created' < n /\ joined = 0
        /\ pc' = "join" => created' = n
        /\ pc' \in {"create", "join"}
        /\ calls >= 1
    BY <1>0, <1>3, <2>1 DEF Create, LoopInv
  <2>4. \A t \in Thread : ~(t < joined)
    BY <2>1 DEF Thread
  <2> QED
    BY <1>3, <2>1, <2>2, <2>3, <2>4 DEF Create, LoopInv
<1>4. ASSUME NEW t \in Thread, Sweep(t) PROVE LoopInv'
  BY <1>0, <1>4 DEF Sweep, LoopInv, Collides
<1>5. ASSUME NEW t \in Thread, EndThread(t) PROVE LoopInv'
  BY <1>0, <1>5 DEF EndThread, LoopInv, TypeOK, Collides
<1>6. CASE Join
  <2>1. joined \in Nat /\ joined' \in {joined, joined + 1}
    BY <1>0, <1>6 DEF Join, TypeOK
  <2>2. \A t \in Thread : t < joined' => t < joined \/ t = joined
    BY <2>1 DEF Thread
  <2>3. state[joined] \in {"ended", "failed"}
    BY <1>6 DEF Join, Joinable
  <2> QED
    BY <1>0, <1>6, <2>2, <2>3 DEF Join, LoopInv, Collides
<1>7. CASE Return
  BY <1>0, <1>7 DEF Return, LoopInv, Collides
<1>8. CASE Swap
  BY <1>0, <1>8 DEF Swap, LoopInv
<1>9. CASE UNCHANGED vars
  BY <1>0, <1>9 DEF vars, LoopInv, Collides
<1> QED
  BY <1>1, <1>2, <1>3, <1>4, <1>5, <1>6, <1>7, <1>8, <1>9 DEF Next, Main

----------------------------------------------------------------------------
\* What the range of a thread depends on
LEMMA SameCut ==
  ASSUME UNCHANGED <<calls, n>>
  PROVE  /\ UNCHANGED <<Target, Collides, Margin>>
         /\ \A t : start_z(t)' = start_z(t) /\ end_z(t)' = end_z(t)
         /\ \A t : Range(t)' = Range(t)
         /\ \A g, i : Done(g, i)' = Done(g, i)
<1>1. UNCHANGED <<Target, Collides, Margin, chunk_size>>
  BY DEF Target, Collides, Margin, chunk_size
<1>2. \A t : start_z(t)' = start_z(t) /\ end_z(t)' = end_z(t)
  BY <1>1 DEF start_z, end_z
<1>3. \A t : Range(t)' = Range(t)
  BY <1>2 DEF Range
<1>4. \A g, i : Done(g, i)' = Done(g, i)
  BY <1>1 DEF Done, Collided, Marked, Initialised
<1> QED
  BY <1>1, <1>2, <1>3, <1>4

LEMMA WorkStep == IInv /\ [Next]_vars => WorkInv'
<1> SUFFICES ASSUME IInv, [Next]_vars PROVE WorkInv'
  OBVIOUS
<1> USE Constants
<1>0. TypeOK /\ LoopInv /\ WorkInv
  BY DEF IInv
<1>1. CASE Call
  BY <1>1 DEF Call, WorkInv, Thread
<1>2. ASSUME UNCHANGED <<calls, n, created, state, z, swept>>
      PROVE  WorkInv'
  BY <1>0, <1>2, SameCut DEF WorkInv
<1>3. CASE Create
  <2>1. /\ created \in 0..n - 1 /\ created \in Thread /\ n \in 1..Cpus
        /\ UNCHANGED <<calls, n, swept>>
    BY <1>0, <1>3, ThreadOf DEF Create, TypeOK
  <2>2. start_z(created) \in Int /\ end_z(created) \in Int
        /\ start_z(created) < end_z(created)
    BY <2>1, Cut
  <2>3. z'[created] = start_z(created) /\ state'[created] \in {"running", "failed"}
    BY <1>0, <1>3, <2>1 DEF Create, TypeOK
  <2>4. \A t \in Thread : t < created' => t = created \/ t < created
    BY <1>3, <2>1 DEF Create, Thread
  <2>5. \A t \in Thread : t < created => z'[t] = z[t] /\ state'[t] = state[t]
    BY <1>0, <1>3, <2>1 DEF Create, TypeOK, Thread
  <2>6. start_z(created)..z'[created] - 1 = {}
    BY <2>2, <2>3
  <2>7. ASSUME NEW t \in Thread, t < created'
        PROVE  /\ start_z(t) <= z'[t] /\ z'[t] <= end_z(t)
               /\ state'[t] = "failed" => z'[t] = start_z(t)
               /\ state'[t] = "ended" => z'[t] = end_z(t)
               /\ \A i \in start_z(t)..z'[t] - 1 : <<t, i>> \in swept
    <3>1. CASE t = created
      BY <2>2, <2>3, <2>6, <3>1
    <3>2. CASE t < created
      BY <1>0, <2>5, <3>2 DEF WorkInv
    <3> QED
      BY <2>4, <2>7, <3>1, <3>2
  <2> QED
    BY <2>1, <2>7, SameCut DEF WorkInv
<1>4. ASSUME NEW t \in Thread, Sweep(t) PROVE WorkInv'
  <2>1. /\ t < created /\ t \in 0..n - 1 /\ n \in 1..Cpus /\ state[t] = "running"
        /\ UNCHANGED <<calls, n, created, state>>
    BY <1>0, <1>4 DEF Sweep, LoopInv, TypeOK, Thread
  <2>2. start_z(t) \in Int /\ end_z(t) \in Int /\ z[t] \in Int
    BY <1>0, <2>1, Cut DEF TypeOK
  <2>3. z[t] < end_z(t) /\ z'[t] = z[t] + 1 /\ start_z(t) <= z[t]
    BY <1>0, <1>4, <2>1 DEF Sweep, TypeOK, WorkInv
  <2>4. \A i \in start_z(t)..z'[t] - 1 : i = z[t] \/ i \in start_z(t)..z[t] - 1
    BY <2>2, <2>3
  <2>5. \A i \in start_z(t)..z'[t] - 1 : <<t, i>> \in swept'
    BY <1>0, <1>4, <2>1, <2>4 DEF Sweep, WorkInv
  <2>6. \A u \in Thread : u # t => z'[u] = z[u]
    BY <1>0, <1>4 DEF Sweep, TypeOK
  <2>7. swept \subseteq swept'
    BY <1>4 DEF Sweep
  <2>8. ASSUME NEW u \in Thread, u < created
        PROVE  /\ start_z(u) <= z'[u] /\ z'[u] <= end_z(u)
               /\ state[u] = "failed" => z'[u] = start_z(u)
               /\ state[u] = "ended" => z'[u] = end_z(u)
               /\ \A i \in start_z(u)..z'[u] - 1 : <<u, i>> \in swept'
    <3>1. CASE u = t
      BY <2>1, <2>2, <2>3, <2>5, <3>1
    <3>2. CASE u # t
      BY <1>0, <2>6, <2>7, <2>8, <3>2 DEF WorkInv
    <3> QED
      BY <3>1, <3>2
  <2> QED
    BY <2>1, <2>8, SameCut DEF WorkInv
<1>5. ASSUME NEW t \in Thread, EndThread(t) PROVE WorkInv'
  <2>1. t < created /\ t \in 0..n - 1 /\ n \in 1..Cpus
    BY <1>0, <1>5 DEF EndThread, LoopInv, TypeOK, Thread
  <2>2. z[t] \in Int /\ end_z(t) \in Int /\ z[t] = end_z(t)
    BY <1>0, <1>5, <2>1, Cut DEF EndThread, TypeOK, WorkInv
  <2>3. \A u \in Thread : state'[u] = IF u = t THEN "ended" ELSE state[u]
    BY <1>0, <1>5 DEF EndThread, TypeOK
  <2> QED
    BY <1>0, <1>5, <2>2, <2>3, SameCut DEF EndThread, WorkInv
<1> QED
  BY <1>1, <1>2, <1>3, <1>4, <1>5
     DEF Next, Main, NoMemory, Join, Return, Swap, vars

LEMMA SweptStep == IInv /\ [Next]_vars => SweptInv'
<1> SUFFICES ASSUME IInv, [Next]_vars PROVE SweptInv'
  OBVIOUS
<1> USE Constants
<1>0. TypeOK /\ LoopInv /\ WorkInv /\ SweptInv
  BY DEF IInv
<1>1. CASE Call
  BY <1>1 DEF Call, SweptInv
<1>2. ASSUME UNCHANGED <<calls, n, created, swept, outside>>
      PROVE  SweptInv'
  BY <1>0, <1>2, SameCut DEF SweptInv
<1>3. CASE Create
  <2>1. \A p \in swept : p[1] \in Int
    BY <1>0 DEF TypeOK, Thread
  <2> QED
    BY <1>0, <1>3, <2>1, SameCut DEF Create, SweptInv, TypeOK
<1>4. ASSUME NEW t \in Thread, Sweep(t) PROVE SweptInv'
  <2>1. /\ t < created /\ t \in 0..n - 1 /\ n \in 1..Cpus
        /\ UNCHANGED <<calls, n, created>>
    BY <1>0, <1>4 DEF Sweep, LoopInv, TypeOK, Thread
  <2>2. z[t] \in Range(t)
    BY <1>0, <1>4, <2>1, Cut DEF Sweep, WorkInv, TypeOK, Range
  <2>3. \A p \in outside' : p \in outside \/ (p[2] = z[t] /\ z[t] \notin Slice)
    BY <1>4 DEF Sweep
  <2>4. swept' = swept \cup {<<t, z[t]>>}
    BY <1>4 DEF Sweep
  <2>5. \A p \in swept' : p[1] < created /\ p[2] \in Range(p[1])
    BY <1>0, <2>1, <2>2, <2>4 DEF SweptInv
  <2> QED
    BY <1>0, <2>1, <2>3, <2>5, SameCut DEF SweptInv
<1> QED
  BY <1>1, <1>2, <1>3, <1>4
     DEF Next, Main, NoMemory, Join, Return, Swap, EndThread, vars

LEMMA CopyStep == IInv /\ [Next]_vars => CopyInv'
<1> SUFFICES ASSUME IInv, [Next]_vars PROVE CopyInv'
  OBVIOUS
<1> USE Constants
<1>0. TypeOK /\ LoopInv /\ WorkInv /\ CopyInv
  BY DEF IInv
<1>1. CASE Call
  BY <1>1 DEF Call, CopyInv
<1>2. ASSUME UNCHANGED <<calls, n, pc, created, grid, z, copy>>
      PROVE  CopyInv'
  BY <1>0, <1>2, SameCut DEF CopyInv
<1>3. CASE Create
  <2>1. /\ created \in 0..n - 1 /\ created \in Thread /\ n \in 1..Cpus
        /\ UNCHANGED <<calls, n, grid>> /\ pc = "create" /\ created \in Nat
    BY <1>0, <1>3, ThreadOf DEF Create, TypeOK
  <2>2. CASE created = 0
    <3>1. copy'[0] = grid /\ z'[0] = start_z(0) /\ start_z(0) \in Int
      BY <1>0, <1>3, <2>1, <2>2, Cut DEF Create, TypeOK
    <3>2. \A i \in Slice : ~(start_z(0) <= i /\ i < z'[0])
      BY <3>1 DEF Slice
    <3> QED
      BY <2>1, <3>1, <3>2, SameCut DEF CopyInv
  <2>3. CASE created > 0
    <3>1. copy'[0] = copy[0] /\ z'[0] = z[0]
      BY <1>0, <1>3, <2>1, <2>3 DEF Create, TypeOK
    <3> QED
      BY <1>0, <2>1, <2>3, <3>1, SameCut DEF CopyInv
  <2> QED
    BY <2>1, <2>2, <2>3
<1>4. ASSUME NEW t \in Thread, Sweep(t) PROVE CopyInv'
  <2>1. /\ t < created /\ t \in 0..n - 1 /\ n \in 1..Cpus
        /\ UNCHANGED <<calls, n, pc, created, grid>>
    BY <1>0, <1>4 DEF Sweep, LoopInv, TypeOK, Thread
  <2>2. CASE t # 0
    <3>1. copy'[0] = copy[0] /\ z'[0] = z[0]
      BY <1>0, <1>4, <2>2 DEF Sweep, TypeOK
    <3> QED
      BY <1>0, <2>1, <3>1, SameCut DEF CopyInv
  <2>3. CASE t = 0 /\ z[t] \notin Slice
    <3>1. copy' = copy /\ z'[0] = z[0] + 1 /\ z[0] \in Int /\ z[0] \notin Slice
      BY <1>0, <1>4, <2>3 DEF Sweep, TypeOK
    <3>2. \A i \in Slice : i < z'[0] <=> i < z[0]
      BY <3>1 DEF Slice
    <3> QED
      BY <1>0, <2>1, <3>1, <3>2, SameCut DEF CopyInv
  <2>4. CASE t = 0 /\ z[t] \in Slice /\ pc \in {"create", "join"}
    <3> DEFINE k == z[0]
               d == Done(copy[0], k)
    <3>1. /\ k \in Slice /\ k \in Int /\ z'[0] = k + 1
          /\ start_z(0) <= k /\ start_z(0) \in Int
      BY <1>0, <1>4, <2>1, <2>4, Cut DEF Sweep, TypeOK, WorkInv
    <3>2. copy[0] \in Grids /\ grid \in Grids
      BY <1>0 DEF TypeOK
    <3>3. copy'[0] = [copy[0] EXCEPT ![Target][k] = d]
      BY <1>0, <1>4, <2>4 DEF Sweep, TypeOK
    <3>4. /\ copy'[0][Target] = [copy[0][Target] EXCEPT ![k] = d]
          /\ \A g \in {"src", "dst"} \ {Target} : copy'[0][g] = copy[0][g]
      BY <3>2, <3>3 DEF Grids
    <3>5. d = Done(grid, k)
      <4>1. ~(k < z[0])
        BY <3>1
      <4>2. \A b \in {"src", "dst"} : copy[0][b][k] = grid[b][k]
        BY <1>0, <2>1, <2>4, <3>1, <4>1 DEF CopyInv
      <4> QED
        BY <3>1, <3>2, <4>2, DoneLocal
    <3> HIDE DEF d
    <3>6. \A i \in Slice : copy'[0][Target][i] = IF i = k THEN d ELSE copy[0][Target][i]
      BY <3>2, <3>4 DEF Grids
    <3>7. \A i \in Slice : i < z'[0] <=> i < z[0] \/ i = k
      BY <3>1 DEF Slice
    <3>8. \A i \in Slice :
            copy'[0][Target][i] = IF start_z(0) <= i /\ i < z'[0] THEN Done(grid, i)
                                                                  ELSE grid[Target][i]
      BY <1>0, <2>1, <2>4, <3>1, <3>5, <3>6, <3>7 DEF CopyInv
    <3>9. \A g \in {"src", "dst"} \ {Target} : copy'[0][g] = grid[g]
      BY <1>0, <2>1, <2>4, <3>4 DEF CopyInv
    <3>10. /\ UNCHANGED <<grid, Target>>
           /\ start_z(0)' = start_z(0)
           /\ \A g, i : Done(g, i)' = Done(g, i)
      BY <2>1, SameCut
    <3> QED
      BY <3>8, <3>9, <3>10 DEF CopyInv
  <2>5. CASE pc \notin {"create", "join"}
    BY <2>1, <2>5 DEF CopyInv
  <2> QED
    BY <2>2, <2>3, <2>4, <2>5
<1>5. CASE Return \/ Swap
  BY <1>5 DEF Return, Swap, CopyInv
<1> QED
  BY <1>1, <1>2, <1>3, <1>4, <1>5
     DEF Next, Main, NoMemory, Join, EndThread, vars

----------------------------------------------------------------------------
LEMMA Inductive == Spec => []IInv
<1>1. IInv /\ [Next]_vars => IInv'
  BY TypeStep, LoopStep, WorkStep, SweptStep, CopyStep DEF IInv
<1> QED
  BY InitIInv, <1>1, PTL DEF Spec

\* No two threads work on one slice, and together they work on all.
LEMMA Partition == IInv => SweptOnce
<1> SUFFICES ASSUME IInv PROVE SweptOnce
  OBVIOUS
<1> USE Constants
<1>0. TypeOK /\ LoopInv /\ WorkInv /\ SweptInv
  BY DEF IInv
<1>1. n \in 1..Cpus /\ created \in 0..n
  BY <1>0 DEF TypeOK
<1>2. ASSUME NEW p \in swept, NEW q \in swept, p[2] = q[2]
      PROVE  p[1] = q[1]
  <2>1. p[1] \in 0..n - 1 /\ q[1] \in 0..n - 1
    BY <1>0, <1>1 DEF TypeOK, SweptInv, Thread
  <2>2. p[2] \in Range(p[1]) /\ p[2] \in Range(q[1])
    BY <1>0, <1>2 DEF SweptInv
  <2>3. ASSUME NEW t \in 0..n - 1, NEW u \in 0..n - 1, t < u, NEW i \in Range(t)
        PROVE  i \notin Range(u)
    <3>1. end_z(t) <= start_z(u) /\ end_z(t) \in Int /\ start_z(t) \in Int
      BY <1>1, <2>3, Cut
    <3>2. start_z(u) \in Int /\ end_z(u) \in Int
      BY <1>1, Cut
    <3> QED
      BY <2>3, <3>1, <3>2 DEF Range
  <2> QED
    BY <2>1, <2>2, <2>3
<1>3. ASSUME pc = "join", joined = n, NEW i \in Whole
      PROVE  \E t \in Thread : i \in Range(t) /\ (state[t] = "failed" \/ <<t, i>> \in swept)
  <2>1. PICK t \in 0..n - 1 : i \in Range(t)
    BY <1>1, Cover
  <2>2. t \in Thread /\ t < joined /\ t < created
    BY <1>0, <1>1, <1>3, <2>1, ThreadOf DEF LoopInv
  <2>3. CASE state[t] = "ended"
    BY <1>0, <2>1, <2>2, <2>3 DEF WorkInv, Range
  <2> QED
    BY <1>0, <2>1, <2>2, <2>3 DEF LoopInv
<1> QED
  BY <1>2, <1>3 DEF SweptOnce

LEMMA Margins == IInv => OutsideIsMargin
<1> SUFFICES ASSUME IInv, NEW p \in outside
             PROVE  /\ ~Collides
                    /\ \/ p[1] = 0     /\ p[2] \in {-2, -1}
                       \/ p[1] = n - 1 /\ p[2] \in {SizeZ, SizeZ + 1}
  BY DEF OutsideIsMargin
<1> USE Constants
<1>1. /\ n \in 1..Cpus /\ created \in 0..n /\ p \in swept
      /\ p[1] \in Thread /\ p[1] < created /\ p[2] \in Range(p[1])
      /\ p[2] \notin Slice
  BY DEF IInv, TypeOK, SweptInv
<1> DEFINE t == p[1]
           i == p[2]
<1>2. t \in 0..n - 1 /\ t \in Nat /\ n \in Nat
  BY <1>1 DEF Thread
<1>3. /\ start_z(t) \in Int /\ end_z(t) \in Int
      /\ -Margin <= start_z(t) /\ end_z(t) <= SizeZ + Margin
      /\ t > 0 => start_z(t) >= 0
      /\ t < n - 1 => end_z(t) <= SizeZ
  BY <1>1, <1>2, Cut
<1>4. i \in Int /\ start_z(t) <= i /\ i < end_z(t)
  BY <1>1, <1>3 DEF Range
<1>5. Margin = (IF Collides THEN 0 ELSE 2) /\ Margin \in {0, 2}
  BY DEF Margin
<1>6. i < 0 \/ i >= SizeZ
  BY <1>1, <1>4 DEF Slice
<1> HIDE DEF t, i
<1>7. Margin = 2
  BY <1>3, <1>4, <1>5, <1>6
<1>8. ~Collides
  BY <1>5, <1>7
<1>9. \/ t = 0     /\ i \in {-2, -1}
      \/ t = n - 1 /\ i \in {SizeZ, SizeZ + 1}
  BY <1>2, <1>3, <1>4, <1>6, <1>7
<1> QED
  BY <1>8, <1>9 DEF t, i

\* The cut of LBM_*'s threads, for any number of slices and threads: no slice is
\* worked on twice, none is left out but those of a thread that was not made, and
\* what is outside the grids is in the margins.
THEOREM Slices == Spec => []SlicesInv
<1>1. IInv => SlicesInv
  BY Partition, Margins DEF IInv, SlicesInv
<1> QED
  BY Inductive, <1>1, PTL

\* What a call returns is what the sequential program does in the slices of the
\* first thread, and nothing elsewhere.
THEOREM OneThreadsWork == Spec => FirstThreadsWork
<1> DEFINE Kept(i) == (Collides /\ kernel = "TRT") \/ state[0] = "failed" \/ i \notin Range(0)
<1>1. ASSUME IInv, Return, NEW i \in Slice
      PROVE  grid'[Target][i] = IF Kept(i) THEN grid[Target][i] ELSE Done(grid, i)
  <2> USE Constants
  <2>1. /\ n \in 1..Cpus /\ created = n /\ joined = n /\ pc = "join" /\ grid \in Grids
        /\ z[0] \in Int
    BY <1>1 DEF IInv, TypeOK, LoopInv, Return
  <2>2. grid'[Target][i] = Result[i]
    BY <1>1, <2>1 DEF Return, Grids
  <2>3. CASE Collides /\ kernel = "TRT"
    BY <2>2, <2>3 DEF Result
  <2>4. CASE ~(Collides /\ kernel = "TRT")
    <3>1. Result[i] = copy[0][Target][i]
      BY <2>4 DEF Result
    <3>2. copy[0][Target][i] = IF start_z(0) <= i /\ i < z[0] THEN Done(grid, i)
                                                              ELSE grid[Target][i]
      BY <1>1, <2>1 DEF IInv, CopyInv
    <3>3. start_z(0) \in Int /\ end_z(0) \in Int
      BY <2>1, Cut
    <3>4. state[0] \in {"ended", "failed"}
      BY <1>1, <2>1 DEF IInv, LoopInv
    <3>5. /\ state[0] = "failed" => z[0] = start_z(0)
          /\ state[0] = "ended" => z[0] = end_z(0)
      BY <1>1, <2>1 DEF IInv, WorkInv
    <3>6. i \in Int
      BY DEF Slice
    <3>7. start_z(0) <= i /\ i < z[0] <=> state[0] # "failed" /\ i \in Range(0)
      BY <2>1, <3>3, <3>4, <3>5, <3>6 DEF Range
    <3> QED
      BY <2>2, <2>4, <3>1, <3>2, <3>7
  <2> QED
    BY <2>3, <2>4
<1>2. IInv /\ [Next]_vars =>
        [Return => \A i \in Slice :
           grid'[Target][i] = IF Kept(i) THEN grid[Target][i] ELSE Done(grid, i)]_vars
  BY <1>1
<1> QED
  BY Inductive, <1>2, PTL DEF FirstThreadsWork, Spec
=============================================================================
