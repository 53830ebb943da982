------------------------------- MODULE Campaign --------------------------------
(***************************************************************************)
(* One workload's measurements, from run/launch on the host to the table   *)
(* of run/verbose-list.                                                    *)
(*                                                                         *)
(* launch goes through the run folders on the board, one per ABI.  In each *)
(* it removes the results, runs over ssh the _launch_pmcstat script that   *)
(* run/setup generated, and copies the results back.  The script measures  *)
(* one group of PMU events after the other, each into a file of its own:   *)
(* pmcstat counts a run of the workload (S<g>.out), pmcstat -R turns the   *)
(* counts into S<g>.gmon.  Nothing stops when a step fails.  verbose-list  *)
(* takes every gmon file it finds and prints one row per event.            *)
(*                                                                         *)
(* The workloads differ in three places, see the operators of `workload'.  *)
(* A file is modelled by where its count comes from; every event is in one *)
(* group, so a row per group stands for the rows of its events.  A launch  *)
(* of llama-cpp is two of these one after the other (raw and matmult).     *)
(***************************************************************************)
EXTENDS Integers, Sequences

CONSTANTS Workloads,    \* some of the five
          LastGroup,    \* the event groups of _launch_pmcstat are 1..8
          LooseGroups,  \* those sqlite-bench does not chain: 7 and 8
          MaxLaunch,    \* bound: times launch is run
          MaxFailures   \* bound: failing steps per run folder

Groups == 1..LastGroup

ASSUME WorkloadsAssumption ==
  Workloads \subseteq {"speccpu", "sqlite-bench", "quickjs", "llama-cpp", "matrix-multiply"}
ASSUME GroupsAssumption ==
  /\ LastGroup \in Nat \ {0}
  /\ LooseGroups \subseteq Groups
ASSUME BoundsAssumption == MaxLaunch \in Nat /\ MaxFailures \in Nat

Abi == {"hybrid", "purecap", "benchmark"}

VARIABLES
  workload,
  launches,   \* launches begun
  pc,         \* of launch: "idle" between two of them
  folder,     \* the run folder it is at, an index of RunFolders
  group,      \* the group the script on the board is at
  board,      \* pmcstat.S<g>.gmon in each results folder on the board
  local,      \* ... and in each of the host's
  failures,   \* history: steps that failed in this run folder
  clean       \* history: none has failed in this launch

vars == <<workload, launches, pc, folder, group, board, local, failures, clean>>

\* A count: the launch that measured it, and whether the run that was counted
\* came to its end.  Launch 0 means that there is no file.
Count  == [launch : Nat, whole : BOOLEAN]
NoFile == [launch |-> 0, whole |-> FALSE]
Present(c) == c.launch # 0
Empty  == [g \in Groups |-> NoFile]

\* Variants named ...Bug are faults the properties have to notice; no action
\* uses them.

----------------------------------------------------------------------------
(* What differs between the workloads, and the orders of the folders *)

\* The order of launch differs from the order in which the shell expands
\* build-cheribsd-morello-*/results (for speccpu: run_base_*): "purecap-"
\* sorts before "purecap/", and before "purecap-c".
FoldersOf(w) == IF w = "speccpu" THEN <<"hybrid", "benchmark", "purecap">>
                                 ELSE <<"hybrid", "purecap", "benchmark">>
GlobOrderBug == <<"hybrid", "purecap", "benchmark">>
GlobOrder == <<"hybrid", "benchmark", "purecap">>
RunFolders == FoldersOf(workload)
Cur == RunFolders[folder]

\* speccpu's launch chains the steps with "&&": no copy after a script that
\* ended with a failure
CopiesAnyway == workload # "speccpu"

\* pmcstat -R comes after "&&", except in the last groups of sqlite-bench
ChainedBug(g) == FALSE
Chained(g) == ~(workload = "sqlite-bench" /\ g \in LooseGroups)

\* The results after the script has removed those it finds, which speccpu's
\* does not.
AfterPrologue == IF workload = "speccpu" THEN board ELSE [board EXCEPT ![Cur] = Empty]

\* llama-cpp's launch removes the results from the board, copied or not
AfterCopy == IF workload = "llama-cpp" THEN [board EXCEPT ![Cur] = Empty] ELSE board

TypeOK ==
  /\ workload \in Workloads
  /\ launches \in 0..MaxLaunch
  /\ pc \in {"idle", "rm", "ssh", "measure", "copy"}
  /\ folder \in 1..3
  /\ group \in Groups
  /\ board \in [Abi -> [Groups -> Count]]
  /\ local \in [Abi -> [Groups -> Count]]
  /\ failures \in 0..MaxFailures
  /\ clean \in BOOLEAN

Init ==
  /\ workload \in Workloads
  /\ launches = 0
  /\ pc = "idle"
  /\ folder = 1
  /\ group = 1
  /\ board = [a \in Abi |-> Empty]
  /\ local = [a \in Abi |-> Empty]
  /\ failures = 0
  /\ clean = TRUE

----------------------------------------------------------------------------
(* run/launch *)

Succeeds == UNCHANGED <<failures, clean>>
Fails    == failures < MaxFailures /\ failures' = failures + 1 /\ clean' = FALSE

Launch ==
  /\ pc = "idle" /\ launches < MaxLaunch
  /\ launches' = launches + 1
  /\ folder' = 1
  /\ pc' = "rm"
  /\ failures' = 0
  /\ clean' = TRUE
  /\ UNCHANGED <<workload, group, board, local>>

\* ssh rm -rf results, then mkdir -p: the script would make the folder itself
\* (fault: the removal is forgotten)
RemoveResultsBug ==
  /\ pc = "rm"
  /\ Succeeds \/ Fails
  /\ pc' = "ssh"
  /\ UNCHANGED <<workload, launches, folder, group, board, local>>
RemoveResults ==
  /\ pc = "rm"
  /\ \/ Succeeds /\ board' = [board EXCEPT ![Cur] = Empty]
     \/ Fails /\ UNCHANGED board
  /\ pc' = "ssh"
  /\ UNCHANGED <<workload, launches, folder, group, local>>

\* On to the next run folder (fault: one too many)
NextFolderBug ==
  /\ group' = 1
  /\ IF folder <= 3
       THEN folder' = folder + 1 /\ pc' = "rm"
       ELSE pc' = "idle" /\ UNCHANGED folder
NextFolder ==
  /\ group' = 1
  /\ IF folder < 3
       THEN folder' = folder + 1 /\ pc' = "rm"
       ELSE pc' = "idle" /\ UNCHANGED folder

\* The script begins: it removes what it would write.  Or it does not: no
\* connection, or its files were not distributed.
StartScript ==
  /\ pc = "ssh"
  /\ Succeeds
  /\ board' = AfterPrologue
  /\ pc' = "measure"
  /\ group' = 1
  /\ UNCHANGED <<workload, launches, folder, local>>

\* Where launch goes when the ssh that runs the script has failed.  The count
\* of failures belongs to one folder.
Skip(failed) ==
  IF CopiesAnyway
    THEN pc' = "copy" /\ failures' = failed /\ UNCHANGED <<folder, group>>
    ELSE NextFolder /\ failures' = IF folder < 3 THEN 0 ELSE failed

SshFails ==
  /\ pc = "ssh"
  /\ failures < MaxFailures
  /\ clean' = FALSE
  /\ Skip(failures + 1)
  /\ UNCHANGED <<workload, launches, board, local>>

----------------------------------------------------------------------------
(* _launch_pmcstat on the board *)

Now(whole) == [launch |-> launches, whole |-> whole]
Write(c)   == board' = [board EXCEPT ![Cur][group] = c]

\* After a group: the next one, whatever became of this.  The status of the
\* last is the status of the script, and of the ssh.
AfterGroup ==
  IF group # LastGroup
    THEN group' = group + 1 /\ UNCHANGED <<pc, folder>>
    ELSE pc' = "copy" /\ UNCHANGED <<group, folder>>

\* pmcstat counts a whole run and pmcstat -R converts the counts
Measure ==
  /\ pc = "measure"
  /\ Write(Now(TRUE))
  /\ AfterGroup
  /\ Succeeds
  /\ UNCHANGED <<workload, launches, local>>

\* pmcstat or the run it counts fails: no conversion, or (not chained) one of
\* whatever was counted until then.  Or the conversion fails.
GroupFails ==
  /\ pc = "measure"
  /\ failures < MaxFailures
  /\ clean' = FALSE
  /\ \/ UNCHANGED board
     \/ ~Chained(group) /\ Write(Now(FALSE))
  /\ IF group # LastGroup
       THEN AfterGroup /\ failures' = failures + 1
       ELSE Skip(failures + 1)
  /\ UNCHANGED <<workload, launches, local>>

\* The board crashes and reboots (quickjs/run/setup tells of one), or the
\* connection breaks and the script ends with it
BoardCrashes ==
  /\ pc = "measure"
  /\ failures < MaxFailures
  /\ clean' = FALSE
  /\ Skip(failures + 1)
  /\ UNCHANGED <<workload, launches, board, local>>

----------------------------------------------------------------------------
\* scp of the results over those the host has: a file that is not on the board
\* leaves the host's as it is
Received(gs) == [local EXCEPT ![Cur] = [g \in Groups |->
                   IF g \in gs /\ Present(board[Cur][g]) THEN board[Cur][g] ELSE @[g]]]

CopyResults ==
  /\ pc = "copy"
  /\ local' = Received(Groups)
  /\ board' = AfterCopy
  /\ NextFolder
  /\ failures' = IF folder < 3 THEN 0 ELSE failures
  /\ UNCHANGED <<workload, launches, clean>>

\* scp fails after some of the files
CopyFails ==
  /\ pc = "copy"
  /\ failures < MaxFailures
  /\ \E gs \in SUBSET Groups : local' = Received(gs)
  /\ board' = AfterCopy
  /\ NextFolder
  /\ failures' = IF folder < 3 THEN 0 ELSE failures + 1
  /\ clean' = FALSE
  /\ UNCHANGED <<workload, launches>>

Terminated == pc = "idle" /\ launches = MaxLaunch /\ UNCHANGED vars

Next == Launch \/ RemoveResults \/ StartScript \/ SshFails \/ Measure \/ GroupFails
        \/ BoardCrashes \/ CopyResults \/ CopyFails \/ Terminated

Spec == Init /\ [][Next]_vars

----------------------------------------------------------------------------
(* run/verbose-list: reads the host's files, changes nothing *)

\* What grep finds for an event, in the order of the files
Found(g, a) == IF Present(local[a][g]) THEN <<[abi |-> a, count |-> local[a][g]]>> ELSE <<>>
Values(g) == Found(g, GlobOrder[1]) \o Found(g, GlobOrder[2]) \o Found(g, GlobOrder[3])

\* The row: values[0..2], and 0 (here FALSE) for those that are missing
NoValue == [abi |-> "none", count |-> NoFile]
Row(g) == [i \in 1..3 |-> IF i <= Len(Values(g)) THEN Values(g)[i] ELSE NoValue]

----------------------------------------------------------------------------
(* Properties *)

\* "hybrid purecap-benchmark purecap", the comment above the printing loop
Label == <<"hybrid", "benchmark", "purecap">>

\* After a launch in which nothing failed, the table is that launch's: every
\* row full, every value in the column of its ABI and counted over a whole
\* run, whatever went wrong in the launches before.
CleanLaunchTable ==
  pc = "idle" /\ launches > 0 /\ clean =>
    \A g \in Groups :
       Row(g) = [i \in 1..3 |-> [abi |-> Label[i], count |-> Now(TRUE)]]

\* One failing step in a run folder, before the copy, never makes launch collect
\* a count of an earlier launch: either the removal of the old results worked,
\* or the removal is the step that failed and every group is measured again.
\* Two steps can: the removal, and a connection (or, with speccpu, whose script
\* removes nothing itself, any group).
SingleFailureFresh ==
  [][\A a \in Abi, g \in Groups :
       local'[a][g] # local[a][g] /\ failures <= 1
         => local'[a][g].launch = launches]_vars

\* Wherever "&&" stands before pmcstat -R, a count on the host is that of a
\* whole run.
WholeCounts ==
  \A a \in Abi, g \in Groups :
     Present(local[a][g]) /\ ~local[a][g].whole
       => workload = "sqlite-bench" /\ g \in LooseGroups
=============================================================================
