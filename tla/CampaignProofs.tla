----------------------------- MODULE CampaignProofs ----------------------------
(***************************************************************************)
(* The scripts on the host.  First launch: for any number of event groups, *)
(* launches and failures, which counts can reach the host and the table.   *)
(* Then check-abi: what its two kinds report, for any number of binaries   *)
(* and any pattern of wrong ones and lost connections.                     *)
(***************************************************************************)
EXTENDS Campaign, CheckAbi, SequenceTheorems, TLAPS

\* No count of an earlier launch in the results folder of the board that launch
\* is at
NoStale == \A g \in Groups : board[Cur][g].launch \in {0, launches}

\* The groups the script is past have been measured by this launch
Remeasured == \A g \in Groups : g < group => board[Cur][g].launch = launches

\* Why one failure is not enough: before the copy, either nothing old is left,
\* or the removal was the failure, and everything is being measured again.
FreshInv ==
  /\ pc = "rm" => failures = 0
  /\ pc \in {"ssh", "measure"} /\ failures = 0 => NoStale
  /\ pc = "measure" /\ failures <= 1 => NoStale \/ Remeasured
  /\ pc = "copy" /\ failures <= 1 => NoStale

\* Only the groups without "&&" yield counts of broken runs, on the board too
May(c, g) == ~Present(c) \/ c.whole \/ (workload = "sqlite-bench" /\ g \in LooseGroups)
WholeInv == \A a \in Abi, g \in Groups : May(board[a][g], g) /\ May(local[a][g], g)

Inv == TypeOK /\ FreshInv /\ WholeInv

----------------------------------------------------------------------------
LEMMA Orders == ASSUME TypeOK PROVE Cur \in Abi
  BY DEF TypeOK, Cur, RunFolders, FoldersOf, Abi

LEMMA Counts ==
  /\ NoFile \in Count /\ NoFile.launch = 0 /\ ~Present(NoFile)
  /\ Empty \in [Groups -> Count] /\ (\A g \in Groups : Empty[g] = NoFile)
  BY DEF NoFile, Count, Empty, Present

LEMMA NowCount ==
  ASSUME TypeOK, NEW w \in BOOLEAN
  PROVE  Now(w) \in Count /\ Now(w).launch = launches /\ (w => Now(w).whole)
  BY BoundsAssumption DEF TypeOK, Now, Count

LEMMA InvInit == Init => Inv
  <1> SUFFICES ASSUME Init PROVE Inv
    OBVIOUS
  <1>1. TypeOK
    BY Counts, GroupsAssumption, BoundsAssumption DEF Init, TypeOK, Groups
  <1>2. FreshInv
    BY DEF Init, FreshInv
  <1>3. WholeInv
    BY Counts DEF Init, WholeInv, May
  <1> QED BY <1>1, <1>2, <1>3 DEF Inv

\* Two ways the files on the board change: a folder is emptied, ...
LEMMA Emptied ==
  ASSUME TypeOK, board' = [board EXCEPT ![Cur] = Empty]
  PROVE  /\ board' \in [Abi -> [Groups -> Count]]
         /\ \A g \in Groups : board'[Cur][g] = NoFile
         /\ \A a \in Abi, g \in Groups : board'[a][g] \in {board[a][g], NoFile}
  BY Orders, Counts DEF TypeOK

\* ... or one file is written.
LEMMA Written ==
  ASSUME TypeOK, NEW c \in Count, Write(c)
  PROVE  /\ board' \in [Abi -> [Groups -> Count]]
         /\ board'[Cur][group] = c
         /\ \A g \in Groups \ {group} : board'[Cur][g] = board[Cur][g]
         /\ \A a \in Abi, g \in Groups :
               board'[a][g] = board[a][g] \/ (g = group /\ board'[a][g] = c)
  <1> DEFINE f == [board[Cur] EXCEPT ![group] = c]
  <1>1. board[Cur] \in [Groups -> Count] /\ group \in Groups /\ Cur \in Abi
    BY Orders DEF TypeOK
  <1>2. f \in [Groups -> Count] /\ f[group] = c
        /\ \A g \in Groups \ {group} : f[g] = board[Cur][g]
    BY <1>1
  <1>3. board' = [board EXCEPT ![Cur] = f]
    BY DEF Write
  <1> HIDE DEF f
  <1>4. board' \in [Abi -> [Groups -> Count]] /\ board'[Cur] = f
        /\ \A a \in Abi \ {Cur} : board'[a] = board[a]
    BY <1>1, <1>2, <1>3 DEF TypeOK
  <1> QED BY <1>2, <1>4

\* What the host has after a copy
LEMMA Copied ==
  ASSUME TypeOK, NEW gs, local' = Received(gs)
  PROVE  /\ local' \in [Abi -> [Groups -> Count]]
         /\ \A a \in Abi, g \in Groups :
               local'[a][g] = local[a][g] \/ (a = Cur /\ local'[a][g] = board[Cur][g])
  <1> DEFINE f == [g \in Groups |->
                     IF g \in gs /\ Present(board[Cur][g]) THEN board[Cur][g]
                                                          ELSE local[Cur][g]]
  <1>1. Cur \in Abi /\ board[Cur] \in [Groups -> Count] /\ local[Cur] \in [Groups -> Count]
    BY Orders DEF TypeOK
  <1>2. f \in [Groups -> Count]
    BY <1>1
  <1>3. local' = [local EXCEPT ![Cur] = f]
    BY DEF Received
  <1>4. \A g \in Groups : f[g] \in {board[Cur][g], local[Cur][g]}
    OBVIOUS
  <1> HIDE DEF f
  <1>5. local' \in [Abi -> [Groups -> Count]] /\ local'[Cur] = f
        /\ \A a \in Abi \ {Cur} : local'[a] = local[a]
    BY <1>1, <1>2, <1>3 DEF TypeOK
  <1> QED BY <1>4, <1>5

\* Where launch goes when a folder is done with, or its script has failed
LEMMA Onward ==
  ASSUME TypeOK, NextFolder
  PROVE  /\ folder' \in 1..3 /\ group' \in Groups
         /\ pc' \in {"idle", "rm"} /\ (pc' = "rm" <=> folder < 3)
  BY GroupsAssumption DEF TypeOK, NextFolder, Groups

LEMMA Skipped ==
  ASSUME TypeOK, NEW n \in 0..MaxFailures, Skip(n)
  PROVE  /\ folder' \in 1..3 /\ group' \in Groups /\ failures' \in 0..MaxFailures
         /\ pc' \in {"idle", "rm", "copy"}
         /\ pc' = "rm" => failures' = 0
         /\ pc' = "copy" => folder' = folder /\ failures' = n
  <1>1. CASE CopiesAnyway
    BY <1>1 DEF Skip, TypeOK
  <1>2. CASE ~CopiesAnyway
    BY <1>2, Onward, BoundsAssumption DEF Skip
  <1> QED BY <1>1, <1>2

LEMMA StaleUnchanged ==
  ASSUME NoStale, UNCHANGED <<workload, folder, board, launches>>
  PROVE  NoStale'
  BY DEF NoStale, Cur, RunFolders

LEMMA InvStep == Inv /\ [Next]_vars => Inv'
  <1> SUFFICES ASSUME Inv, [Next]_vars PROVE Inv'
    OBVIOUS
  <1>0. TypeOK /\ FreshInv /\ WholeInv
    BY DEF Inv
  <1>1. CASE Launch
    <2>1. TypeOK'
      BY <1>0, <1>1, BoundsAssumption DEF TypeOK, Launch
    <2>2. FreshInv'
      BY <1>1 DEF Launch, FreshInv
    <2>3. WholeInv'
      BY <1>0, <1>1 DEF Launch, WholeInv, May
    <2> QED BY <2>1, <2>2, <2>3 DEF Inv
  <1>2. CASE RemoveResults
    <2>1. /\ pc = "rm" /\ pc' = "ssh" /\ failures = 0
          /\ UNCHANGED <<workload, launches, folder, group, local>>
      BY <1>0, <1>2 DEF RemoveResults, FreshInv
    <2>2. CASE Succeeds /\ board' = [board EXCEPT ![Cur] = Empty]
      <3>1. /\ board' \in [Abi -> [Groups -> Count]]
            /\ \A g \in Groups : board'[Cur][g] = NoFile
            /\ \A a \in Abi, g \in Groups : board'[a][g] \in {board[a][g], NoFile}
        BY <1>0, <2>2, Emptied
      <3>2. TypeOK'
        BY <1>0, <2>1, <2>2, <3>1 DEF TypeOK, Succeeds
      <3>3. NoStale'
        BY <2>1, <3>1, Counts DEF NoStale, Cur, RunFolders
      <3>4. FreshInv'
        BY <2>1, <3>3 DEF FreshInv
      <3>5. WholeInv'
        BY <1>0, <2>1, <3>1, Counts DEF WholeInv, May
      <3> QED BY <3>2, <3>4, <3>5 DEF Inv
    <2>3. CASE Fails /\ UNCHANGED board
      <3>1. TypeOK'
        <4>1. failures' \in 0..MaxFailures
          BY <2>1, <2>3, BoundsAssumption DEF Fails
        <4>2. clean' \in BOOLEAN
          BY <2>3 DEF Fails
        <4> QED BY <1>0, <2>1, <2>3, <4>1, <4>2 DEF TypeOK
      <3>2. FreshInv'
        BY <2>1, <2>3 DEF FreshInv, Fails
      <3>3. WholeInv'
        BY <1>0, <2>1, <2>3 DEF WholeInv, May
      <3> QED BY <3>1, <3>2, <3>3 DEF Inv
    <2> QED BY <1>2, <2>2, <2>3 DEF RemoveResults
  <1>3. CASE StartScript
    <2>1. /\ pc = "ssh" /\ pc' = "measure" /\ group' = 1
          /\ UNCHANGED <<workload, launches, folder, local, failures, clean>>
      BY <1>3 DEF StartScript, Succeeds
    <2>2. /\ board' \in [Abi -> [Groups -> Count]]
          /\ \A a \in Abi, g \in Groups : board'[a][g] \in {board[a][g], NoFile}
      <3>1. CASE workload = "speccpu"
        BY <3>1, <1>0, <1>3 DEF StartScript, AfterPrologue, TypeOK
      <3>2. CASE workload # "speccpu"
        BY <3>2, <1>0, <1>3, Emptied DEF StartScript, AfterPrologue
      <3> QED BY <3>1, <3>2
    <2>3. Cur' = Cur /\ Cur \in Abi
      BY <1>0, <2>1, Orders DEF Cur, RunFolders
    <2>4. TypeOK'
      BY <1>0, <2>1, <2>2, GroupsAssumption DEF TypeOK, Groups
    <2>5. NoStale => NoStale'
      BY <2>1, <2>2, <2>3, Counts DEF NoStale
    <2>6. Remeasured'
      BY <2>1 DEF Remeasured, Groups
    <2>7. FreshInv'
      BY <1>0, <2>1, <2>5, <2>6 DEF FreshInv
    <2>8. WholeInv'
      BY <1>0, <2>1, <2>2, Counts DEF WholeInv, May
    <2> QED BY <2>4, <2>7, <2>8 DEF Inv
  <1>4. CASE SshFails
    <2>1. /\ pc = "ssh" /\ failures < MaxFailures /\ clean' = FALSE /\ Skip(failures + 1)
          /\ UNCHANGED <<workload, launches, board, local>>
      BY <1>4 DEF SshFails
    <2>2. failures + 1 \in 0..MaxFailures
      BY <1>0, <2>1, BoundsAssumption DEF TypeOK
    <2>3. /\ folder' \in 1..3 /\ group' \in Groups /\ failures' \in 0..MaxFailures
          /\ pc' \in {"idle", "rm", "copy"}
          /\ pc' = "rm" => failures' = 0
          /\ pc' = "copy" => folder' = folder /\ failures' = failures + 1
      BY <1>0, <2>1, <2>2, Skipped
    <2>4. TypeOK'
      BY <1>0, <2>1, <2>3 DEF TypeOK
    <2>5. pc' = "copy" /\ failures' <= 1 => NoStale'
      BY <1>0, <2>1, <2>3, StaleUnchanged DEF FreshInv, TypeOK
    <2>6. FreshInv'
      BY <2>3, <2>5 DEF FreshInv
    <2>7. WholeInv'
      BY <1>0, <2>1 DEF WholeInv, May
    <2> QED BY <2>4, <2>6, <2>7 DEF Inv
  <1>5. CASE Measure
    <2>1. /\ pc = "measure" /\ Write(Now(TRUE)) /\ AfterGroup
          /\ UNCHANGED <<workload, launches, local, failures, clean, folder>>
      BY <1>5 DEF Measure, AfterGroup, Succeeds
    <2>2. Now(TRUE) \in Count /\ Now(TRUE).launch = launches /\ Now(TRUE).whole
      BY <1>0, NowCount
    <2>3. /\ board' \in [Abi -> [Groups -> Count]]
          /\ board'[Cur][group] = Now(TRUE)
          /\ \A g \in Groups \ {group} : board'[Cur][g] = board[Cur][g]
          /\ \A a \in Abi, g \in Groups :
                board'[a][g] = board[a][g] \/ (g = group /\ board'[a][g] = Now(TRUE))
      BY <1>0, <2>1, <2>2, Written
    <2>4. /\ group \in 1..LastGroup
          /\ \/ group < LastGroup /\ group' = group + 1 /\ pc' = "measure"
             \/ group = LastGroup /\ group' = group /\ pc' = "copy"
      BY <1>0, <2>1, GroupsAssumption DEF AfterGroup, TypeOK, Groups
    <2>5. TypeOK'
      BY <1>0, <2>1, <2>3, <2>4, GroupsAssumption DEF TypeOK, Groups
    <2>6. Cur' = Cur
      BY <2>1 DEF Cur, RunFolders
    <2>7. NoStale => NoStale'
      BY <2>1, <2>2, <2>3, <2>6 DEF NoStale
    <2>8. Remeasured => \A g \in Groups : g <= group => board'[Cur][g].launch = launches
      <3> SUFFICES ASSUME Remeasured, NEW g \in Groups, g <= group
                   PROVE  board'[Cur][g].launch = launches
        OBVIOUS
      <3>1. CASE g = group
        BY <3>1, <2>2, <2>3
      <3>2. CASE g # group
        <4>1. g < group
          BY <3>2, <2>4, GroupsAssumption DEF Groups
        <4> QED BY <3>2, <4>1, <2>3 DEF Remeasured
      <3> QED BY <3>1, <3>2
    <2>9. CASE group < LastGroup
      <3>1. Remeasured => Remeasured'
        BY <2>1, <2>4, <2>6, <2>8, <2>9 DEF Remeasured, Groups
      <3>2. FreshInv'
        BY <1>0, <2>1, <2>4, <2>7, <2>9, <3>1 DEF FreshInv
      <3> QED BY <1>0, <2>1, <2>2, <2>3, <2>5, <3>2 DEF Inv, WholeInv, May
    <2>10. CASE group = LastGroup
      <3>1. Remeasured => NoStale'
        BY <2>1, <2>4, <2>6, <2>8, <2>10 DEF NoStale, Groups
      <3>2. FreshInv'
        BY <1>0, <2>1, <2>4, <2>7, <2>10, <3>1, GroupsAssumption DEF FreshInv
      <3> QED BY <1>0, <2>1, <2>2, <2>3, <2>5, <3>2 DEF Inv, WholeInv, May
    <2> QED BY <2>4, <2>9, <2>10
  <1>6. CASE GroupFails
    <2>1. /\ pc = "measure" /\ failures < MaxFailures /\ clean' = FALSE
          /\ UNCHANGED <<workload, launches, local>>
          /\ UNCHANGED board \/ (~Chained(group) /\ Write(Now(FALSE)))
      BY <1>6 DEF GroupFails
    <2>2. failures \in 0..MaxFailures /\ failures + 1 \in 0..MaxFailures
      BY <1>0, <2>1, BoundsAssumption DEF TypeOK
    <2>3. Now(FALSE) \in Count /\ Now(FALSE).launch = launches
      BY <1>0, NowCount
    <2>4. /\ board' \in [Abi -> [Groups -> Count]]
          /\ \A g \in Groups : board'[Cur][g] = board[Cur][g] \/ board'[Cur][g] = Now(FALSE)
          /\ \A a \in Abi, g \in Groups :
                board'[a][g] = board[a][g] \/ (g = group /\ ~Chained(group))
      <3>1. CASE UNCHANGED board
        BY <3>1, <1>0 DEF TypeOK
      <3>2. CASE ~Chained(group) /\ Write(Now(FALSE))
        BY <3>2, <1>0, <2>3, Written
      <3> QED BY <2>1, <3>1, <3>2
    <2>5. /\ folder' \in 1..3 /\ group' \in Groups /\ failures' \in 0..MaxFailures
          /\ pc' \in {"idle", "rm", "copy", "measure"}
          /\ pc' = "rm" => failures' = 0
          /\ pc' \in {"copy", "measure"} => folder' = folder /\ failures' = failures + 1
      <3>1. CASE group # LastGroup
        BY <3>1, <1>0, <1>6, <2>1, <2>2, GroupsAssumption DEF GroupFails, AfterGroup, TypeOK, Groups
      <3>2. CASE group = LastGroup
        BY <3>2, <1>0, <1>6, <2>2, Skipped DEF GroupFails
      <3> QED BY <3>1, <3>2
    <2>6. TypeOK'
      BY <1>0, <2>1, <2>4, <2>5 DEF TypeOK
    <2>7. pc' \in {"copy", "measure"} /\ failures' <= 1 => NoStale'
      <3> SUFFICES ASSUME pc' \in {"copy", "measure"}, failures' <= 1 PROVE NoStale'
        OBVIOUS
      <3>1. failures = 0 /\ folder' = folder
        BY <2>2, <2>5
      <3>2. NoStale
        BY <1>0, <2>1, <3>1 DEF FreshInv
      <3>3. Cur' = Cur
        BY <2>1, <3>1 DEF Cur, RunFolders
      <3> QED BY <2>1, <2>3, <2>4, <3>2, <3>3 DEF NoStale
    <2>8. FreshInv'
      BY <2>2, <2>5, <2>7 DEF FreshInv
    <2>9. WholeInv'
      BY <1>0, <2>1, <2>4 DEF WholeInv, May, Chained
    <2> QED BY <2>6, <2>8, <2>9 DEF Inv
  <1>7. CASE BoardCrashes
    <2>1. /\ pc = "measure" /\ failures < MaxFailures /\ clean' = FALSE /\ Skip(failures + 1)
          /\ UNCHANGED <<workload, launches, board, local>>
      BY <1>7 DEF BoardCrashes
    <2>2. failures + 1 \in 0..MaxFailures
      BY <1>0, <2>1, BoundsAssumption DEF TypeOK
    <2>3. /\ folder' \in 1..3 /\ group' \in Groups /\ failures' \in 0..MaxFailures
          /\ pc' \in {"idle", "rm", "copy"}
          /\ pc' = "rm" => failures' = 0
          /\ pc' = "copy" => folder' = folder /\ failures' = failures + 1
      BY <1>0, <2>1, <2>2, Skipped
    <2>4. TypeOK'
      BY <1>0, <2>1, <2>3 DEF TypeOK
    <2>5. pc' = "copy" /\ failures' <= 1 => NoStale'
      BY <1>0, <2>1, <2>3, StaleUnchanged DEF FreshInv, TypeOK
    <2>6. FreshInv'
      BY <2>3, <2>5 DEF FreshInv
    <2>7. WholeInv'
      BY <1>0, <2>1 DEF WholeInv, May
    <2> QED BY <2>4, <2>6, <2>7 DEF Inv
  <1>8. CASE CopyResults \/ CopyFails
    <2>1. PICK gs : local' = Received(gs)
      BY <1>8 DEF CopyResults, CopyFails
    <2>2. /\ board' = AfterCopy /\ NextFolder /\ clean' \in BOOLEAN
          /\ UNCHANGED <<workload, launches>>
      BY <1>0, <1>8 DEF CopyResults, CopyFails, TypeOK
    <2>3. failures' \in 0..MaxFailures /\ (folder < 3 => failures' = 0)
      BY <1>0, <1>8, BoundsAssumption DEF CopyResults, CopyFails, TypeOK
    <2>4. /\ local' \in [Abi -> [Groups -> Count]]
          /\ \A a \in Abi, g \in Groups :
                local'[a][g] = local[a][g] \/ (a = Cur /\ local'[a][g] = board[Cur][g])
      BY <1>0, <2>1, Copied
    <2>5. /\ board' \in [Abi -> [Groups -> Count]]
          /\ \A a \in Abi, g \in Groups : board'[a][g] \in {board[a][g], NoFile}
      <3>1. CASE workload = "llama-cpp"
        BY <3>1, <1>0, <2>2, Emptied DEF AfterCopy
      <3>2. CASE workload # "llama-cpp"
        BY <3>2, <1>0, <2>2 DEF AfterCopy, TypeOK
      <3> QED BY <3>1, <3>2
    <2>6. /\ folder' \in 1..3 /\ group' \in Groups
          /\ pc' \in {"idle", "rm"} /\ (pc' = "rm" <=> folder < 3)
      BY <1>0, <2>2, Onward
    <2>7. TypeOK'
      BY <1>0, <2>2, <2>3, <2>4, <2>5, <2>6 DEF TypeOK
    <2>8. FreshInv'
      BY <2>3, <2>6 DEF FreshInv
    <2>9. WholeInv'
      <3>1. \A c, g : May(c, g)' <=> May(c, g)
        BY <2>2 DEF May
      <3>2. Cur \in Abi
        BY <1>0, Orders
      <3> QED BY <1>0, <2>2, <2>4, <2>5, <3>2, Counts DEF WholeInv, May
    <2> QED BY <2>7, <2>8, <2>9 DEF Inv
  <1>9. CASE Terminated \/ UNCHANGED vars
    <2>1. UNCHANGED vars
      BY <1>9 DEF Terminated
    <2>2. TypeOK' /\ WholeInv'
      BY <1>0, <2>1 DEF vars, TypeOK, WholeInv, May
    <2>3. FreshInv'
      BY <1>0, <2>1 DEF vars, FreshInv, NoStale, Remeasured, Cur, RunFolders
    <2> QED BY <2>2, <2>3 DEF Inv
  <1> QED BY <1>1, <1>2, <1>3, <1>4, <1>5, <1>6, <1>7, <1>8, <1>9 DEF Next

----------------------------------------------------------------------------
(* A clean launch: what has been collected, folder by folder *)

Collected(a) == \A g \in Groups : local[a][g] = Now(TRUE)
Past(i)      == i < folder \/ pc = "idle"

CleanInv ==
  /\ pc # "idle" => launches > 0
  /\ clean /\ launches > 0 =>
       /\ \A i \in 1..3 : Past(i) => Collected(RunFolders[i])
       /\ pc = "measure" => \A g \in Groups : g < group => board[Cur][g] = Now(TRUE)
       /\ pc = "copy" => \A g \in Groups : board[Cur][g] = Now(TRUE)
       /\ pc = "idle" => folder = 3

\* The folders of the others stay as they are, and all are gone through
LEMMA Distinct ==
  /\ \A i, j \in 1..3 : RunFolders[i] = RunFolders[j] => i = j
  /\ \A i \in 1..3 : RunFolders[i] \in Abi
  /\ \A a \in Abi : \E i \in 1..3 : RunFolders[i] = a
  BY DEF RunFolders, FoldersOf, Abi

LEMMA CleanInit == Init => CleanInv
  BY DEF Init, CleanInv

\* A step that fails spoils the launch
LEMMA Spoiled ==
  ASSUME CleanInv, pc # "idle", clean' = FALSE, launches' = launches
  PROVE  CleanInv'
  BY DEF CleanInv

\* A copy with nothing missing
LEMMA AllCopied ==
  ASSUME TypeOK, launches > 0, local' = Received(Groups), UNCHANGED <<workload, launches>>,
         \A g \in Groups : board[Cur][g] = Now(TRUE)
  PROVE  /\ \A g \in Groups : local'[Cur][g] = Now(TRUE)
         /\ \A i \in 1..3 : i # folder /\ Collected(RunFolders[i]) => Collected(RunFolders[i])'
  <1> DEFINE f == [g \in Groups |->
                     IF g \in Groups /\ Present(board[Cur][g]) THEN board[Cur][g]
                                                              ELSE local[Cur][g]]
  <1>1. Cur \in Abi /\ Cur = RunFolders[folder] /\ folder \in 1..3
    BY Orders DEF Cur, TypeOK
  <1>2. \A g \in Groups : f[g] = Now(TRUE)
    <2>1. Present(Now(TRUE))
      BY DEF Present, Now, TypeOK
    <2> QED BY <2>1
  <1>3. local' = [local EXCEPT ![Cur] = f]
    BY DEF Received
  <1> HIDE DEF f
  <1>4. local'[Cur] = f /\ \A a \in Abi \ {Cur} : local'[a] = local[a]
    BY <1>1, <1>3 DEF TypeOK
  <1>5. Now(TRUE)' = Now(TRUE) /\ RunFolders' = RunFolders
    BY DEF Now, RunFolders
  <1>6. \A i \in 1..3 : i # folder => RunFolders[i] \in Abi \ {Cur}
    BY <1>1, Distinct
  <1>7. \A g \in Groups : local'[Cur][g] = Now(TRUE)
    BY <1>2, <1>4
  <1>8. ASSUME NEW i \in 1..3, i # folder, Collected(RunFolders[i])
        PROVE  Collected(RunFolders[i])'
    BY <1>4, <1>5, <1>6, <1>8 DEF Collected
  <1> QED BY <1>7, <1>8

LEMMA CleanStep == Inv /\ CleanInv /\ [Next]_vars => CleanInv'
  <1> SUFFICES ASSUME Inv, CleanInv, [Next]_vars PROVE CleanInv'
    OBVIOUS
  <1>0. TypeOK
    BY DEF Inv
  <1>1. CASE Launch
    <2>1. launches' > 0 /\ folder' = 1 /\ pc' = "rm"
      BY <1>0, <1>1 DEF Launch, TypeOK
    <2> QED BY <2>1 DEF CleanInv, Past
  <1>2. CASE RemoveResults \/ StartScript
    <2>1. /\ pc # "idle" /\ UNCHANGED <<workload, launches, local, folder>>
          /\ pc' \in {"ssh", "measure"} /\ (pc' = "measure" => group' = 1)
      BY <1>2 DEF RemoveResults, StartScript
    <2>2. CASE clean' = FALSE
      BY <2>1, <2>2, Spoiled
    <2>3. CASE clean' = clean
      <3>1. \A i \in 1..3 : Past(i)' <=> Past(i)
        BY <2>1 DEF Past
      <3>2. \A i \in 1..3 : Collected(RunFolders[i])' <=> Collected(RunFolders[i])
        BY <2>1 DEF Collected, RunFolders, Now
      <3>3. pc' = "measure" => \A g \in Groups : ~(g < group')
        BY <2>1 DEF Groups
      <3> QED BY <2>1, <2>3, <3>1, <3>2, <3>3 DEF CleanInv
    <2> QED BY <1>2, <2>2, <2>3 DEF RemoveResults, StartScript, Succeeds, Fails
  <1>3. CASE SshFails \/ GroupFails \/ BoardCrashes \/ CopyFails
    BY <1>3, Spoiled DEF SshFails, GroupFails, BoardCrashes, CopyFails
  <1>4. CASE Measure
    <2>1. /\ pc = "measure" /\ Write(Now(TRUE)) /\ AfterGroup
          /\ UNCHANGED <<workload, launches, local, clean, folder>>
      BY <1>4 DEF Measure, AfterGroup, Succeeds
    <2>2. SUFFICES ASSUME clean, launches > 0 PROVE CleanInv'
      BY <2>1 DEF CleanInv
    <2>3. /\ board'[Cur][group] = Now(TRUE)
          /\ \A g \in Groups \ {group} : board'[Cur][g] = board[Cur][g]
      BY <1>0, <2>1, NowCount, Written
    <2>4. /\ group \in 1..LastGroup
          /\ \/ group < LastGroup /\ group' = group + 1 /\ pc' = "measure"
             \/ group = LastGroup /\ pc' = "copy"
      BY <1>0, <2>1, GroupsAssumption DEF AfterGroup, TypeOK, Groups
    <2>5. \A g \in Groups : g <= group => board'[Cur][g] = Now(TRUE)
      <3> SUFFICES ASSUME NEW g \in Groups, g <= group PROVE board'[Cur][g] = Now(TRUE)
        OBVIOUS
      <3>1. CASE g = group
        BY <3>1, <2>3
      <3>2. CASE g # group
        <4>1. g < group
          BY <3>2, <2>4, GroupsAssumption DEF Groups
        <4> QED BY <3>2, <4>1, <2>1, <2>2, <2>3 DEF CleanInv
      <3> QED BY <3>1, <3>2
    <2>6. Cur' = Cur /\ Now(TRUE)' = Now(TRUE)
      BY <2>1 DEF Cur, RunFolders, Now
    <2>7. \A i \in 1..3 : Past(i)' => Past(i)
      BY <2>1, <2>4 DEF Past
    <2>8. \A i \in 1..3 : Collected(RunFolders[i])' <=> Collected(RunFolders[i])
      BY <2>1 DEF Collected, RunFolders, Now
    <2>9. /\ pc' = "measure" => \A g \in Groups : g < group' => g <= group
          /\ pc' = "copy" => \A g \in Groups : g <= group
      BY <2>4, GroupsAssumption DEF Groups
    <2> QED BY <2>1, <2>2, <2>4, <2>5, <2>6, <2>7, <2>8, <2>9 DEF CleanInv
  <1>5. CASE CopyResults
    <2>1. /\ pc = "copy" /\ local' = Received(Groups) /\ NextFolder
          /\ UNCHANGED <<workload, launches, clean>>
      BY <1>5 DEF CopyResults
    <2>2. SUFFICES ASSUME clean, launches > 0 PROVE CleanInv'
      BY <2>1 DEF CleanInv
    <2>3. \A g \in Groups : board[Cur][g] = Now(TRUE)
      BY <2>1, <2>2 DEF CleanInv
    <2>4. /\ \A g \in Groups : local'[Cur][g] = Now(TRUE)
          /\ \A i \in 1..3 :
                i # folder /\ Collected(RunFolders[i]) => Collected(RunFolders[i])'
      BY <1>0, <2>1, <2>2, <2>3, AllCopied
    <2>5. /\ folder \in 1..3
          /\ \/ folder < 3 /\ folder' = folder + 1 /\ pc' = "rm"
             \/ folder = 3 /\ folder' = 3 /\ pc' = "idle"
      BY <1>0, <2>1 DEF NextFolder, TypeOK
    <2>6. \A i \in 1..3 : Past(i)' => (i = folder \/ (i # folder /\ Past(i)))
      BY <2>1, <2>5 DEF Past
    <2>7. \A i \in 1..3 : i = folder => Collected(RunFolders[i])'
      <3>1. RunFolders' = RunFolders /\ Now(TRUE)' = Now(TRUE)
        BY <2>1 DEF RunFolders, Now
      <3>2. Cur = RunFolders[folder]
        BY DEF Cur
      <3> QED BY <2>4, <3>1, <3>2 DEF Collected
    <2>8. \A i \in 1..3 : Past(i)' => Collected(RunFolders[i])'
      <3> SUFFICES ASSUME NEW i \in 1..3, Past(i)' PROVE Collected(RunFolders[i])'
        OBVIOUS
      <3>1. CASE i = folder
        BY <3>1, <2>7
      <3>2. CASE i # folder
        <4>1. Collected(RunFolders[i])
          BY <3>2, <2>2, <2>6 DEF CleanInv
        <4> QED BY <3>2, <4>1, <2>4
      <3> QED BY <3>1, <3>2
    <2> QED BY <2>2, <2>5, <2>8, <2>1 DEF CleanInv
  <1>6. CASE Terminated \/ UNCHANGED vars
    <2>1. UNCHANGED vars
      BY <1>6 DEF Terminated
    <2> QED BY <2>1 DEF vars, CleanInv, Past, Collected, Now, Cur, RunFolders
  <1> QED BY <1>1, <1>2, <1>3, <1>4, <1>5, <1>6 DEF Next

LEMMA Three ==
  ASSUME NEW S, NEW x \in S, NEW y \in S, NEW z \in S
  PROVE  <<x>> \o <<y>> \o <<z>> = <<x, y, z>>
  <1> DEFINE t == <<x>> \o <<y>>
             u == <<z>>
  <1>1. <<x>> \in Seq(S) /\ <<y>> \in Seq(S) /\ u \in Seq(S) /\ Len(u) = 1 /\ u[1] = z
    OBVIOUS
  <1>2. t \in Seq(S) /\ Len(t) = 2 /\ t[1] = x /\ t[2] = y
    BY <1>1, ConcatProperties
  <1>3. <<x, y, z>> \in Seq(S) /\ Len(<<x, y, z>>) = 3
    OBVIOUS
  <1> HIDE DEF t, u
  <1>4. t \o u \in Seq(S) /\ Len(t \o u) = 3
        /\ (t \o u)[1] = x /\ (t \o u)[2] = y /\ (t \o u)[3] = z
    <2>1. /\ t \o u \in Seq(S)
          /\ Len(t \o u) = Len(t) + Len(u)
          /\ \A i \in 1..Len(t) + Len(u) :
                (t \o u)[i] = IF i <= Len(t) THEN t[i] ELSE u[i - Len(t)]
      BY <1>1, <1>2, ConcatProperties
    <2> QED BY <1>1, <1>2, <2>1
  <1>5. \A i \in 1..Len(t \o u) : (t \o u)[i] = <<x, y, z>>[i]
    BY <1>4
  <1>6. t \o u = <<x, y, z>>
    BY <1>3, <1>4, <1>5, SeqEqual
  <1> QED BY <1>6 DEF t, u

\* grep finds the events of all three folders, and in the order of the labels
LEMMA FullRow ==
  ASSUME TypeOK, launches > 0, NEW g \in Groups, \A a \in Abi : local[a][g] = Now(TRUE)
  PROVE  Row(g) = [i \in 1..3 |-> [abi |-> Label[i], count |-> Now(TRUE)]]
  <1> DEFINE c == Now(TRUE)
             s(a) == <<[abi |-> a, count |-> c]>>
  <1>1. Present(c)
    BY DEF Present, Now, TypeOK
  <1>2. \A a \in Abi : Found(g, a) = s(a)
    BY <1>1 DEF Found
  <1>3. Found(g, "hybrid") = s("hybrid") /\ Found(g, "benchmark") = s("benchmark")
        /\ Found(g, "purecap") = s("purecap")
    BY <1>2 DEF Abi
  <1>4. Values(g) = s("hybrid") \o s("benchmark") \o s("purecap")
    BY <1>3 DEF Values, GlobOrder
  <1> HIDE DEF c
  <1>5. /\ Values(g) = <<[abi |-> "hybrid", count |-> c], [abi |-> "benchmark", count |-> c],
                         [abi |-> "purecap", count |-> c]>>
    <2> DEFINE R == [abi : Abi, count : {c}]
    <2>1. /\ [abi |-> "hybrid", count |-> c] \in R /\ [abi |-> "benchmark", count |-> c] \in R
          /\ [abi |-> "purecap", count |-> c] \in R
      BY DEF Abi
    <2> HIDE DEF R
    <2> QED BY <1>4, <2>1, Three
  <1>6. Len(Values(g)) = 3 /\ \A i \in 1..3 : Values(g)[i] = [abi |-> Label[i], count |-> c]
    BY <1>5 DEF Label
  <1>7. Row(g) = [i \in 1..3 |-> [abi |-> Label[i], count |-> c]]
    BY <1>6 DEF Row
  <1> QED BY <1>7 DEF c

----------------------------------------------------------------------------
LEMMA Invariance == Spec => []Inv
  <1> QED BY InvInit, InvStep, PTL DEF Spec

\* Every state is well typed.
THEOREM TypeCorrect == Spec => []TypeOK
  <1>1. Inv => TypeOK
    BY DEF Inv
  <1> QED BY <1>1, Invariance, PTL

\* Counts of broken runs reach the host only where the script lacks an "&&".
THEOREM Whole == Spec => []WholeCounts
  <1>1. Inv => WholeCounts
    BY DEF Inv, WholeInv, May, WholeCounts
  <1> QED BY <1>1, Invariance, PTL

\* With at most one failed step, a copy brings counts of this launch only.
THEOREM Fresh == Spec => SingleFailureFresh
  <1> DEFINE A == \A a \in Abi, g \in Groups :
                    local'[a][g] # local[a][g] /\ failures <= 1
                      => local'[a][g].launch = launches
  <1>1. Inv /\ [Next]_vars => [A]_vars
    <2> SUFFICES ASSUME Inv, Next PROVE A
      BY DEF vars
    <2>1. TypeOK /\ FreshInv
      BY DEF Inv
    <2>2. CASE CopyResults \/ CopyFails
      <3>1. PICK gs : local' = Received(gs)
        BY <2>2 DEF CopyResults, CopyFails
      <3>2. \A a \in Abi, g \in Groups :
              local'[a][g] # local[a][g] => Present(board[Cur][g]) /\ local'[a][g] = board[Cur][g]
        BY <2>1, <3>1, Orders DEF Received, TypeOK
      <3> QED BY <2>1, <2>2, <3>2 DEF FreshInv, NoStale, Present, CopyResults, CopyFails
    <2>3. CASE UNCHANGED local
      BY <2>3
    <2> QED BY <2>2, <2>3 DEF Next, Launch, RemoveResults, StartScript, SshFails, Measure,
                              GroupFails, BoardCrashes, Terminated, vars
  <1> QED BY <1>1, Invariance, PTL DEF Spec, SingleFailureFresh
\* The table printed after a launch without a failure is that launch's, value by
\* value in the column of its ABI.
THEOREM CleanTable == Spec => []CleanLaunchTable
  <1>1. Inv /\ CleanInv => CleanLaunchTable
    <2> SUFFICES ASSUME TypeOK, CleanInv, pc = "idle", launches > 0, clean, NEW g \in Groups
                 PROVE  Row(g) = [i \in 1..3 |-> [abi |-> Label[i], count |-> Now(TRUE)]]
      BY DEF Inv, CleanLaunchTable
    <2>1. \A i \in 1..3 : Collected(RunFolders[i])
      BY DEF CleanInv, Past
    <2>2. \A a \in Abi : local[a][g] = Now(TRUE)
      <3> SUFFICES ASSUME NEW a \in Abi PROVE local[a][g] = Now(TRUE)
        OBVIOUS
      <3>1. PICK i \in 1..3 : RunFolders[i] = a
        BY Distinct
      <3>2. Collected(RunFolders[i])
        BY <2>1
      <3> QED BY <3>1, <3>2 DEF Collected
    <2> QED BY <2>2, FullRow
  <1>2. Spec => []CleanInv
    BY CleanInit, CleanStep, Invariance, PTL DEF Spec
  <1> QED BY <1>1, <1>2, Invariance, PTL

----------------------------------------------------------------------------
(* check-abi: the script of speccpu *)

\* The binary whose ssh was the last to end
LastChecked == IF line = N + 2 THEN N ELSE line - 1

UnreachedInv == \A b \in unreached : b < line

\* $? of the speccpu script remembers whether the last binary checked was good
StatusInv == IF line = 1 THEN status = 0 ELSE (status = 0 <=> Good(LastChecked))

\* As long as nobody is named and $? is 0, all binaries so far are good.  This
\* is the induction over the lines that MessageMeansSuccess needs.
SilentInv == status = 0 /\ suspects = {} => \A b \in Binary : b < line => Good(b)

MessageInv == message => line = N + 2 /\ status = 0

SpeccpuInv == /\ script = "speccpu"
              /\ CheckTypeOK /\ UnreachedInv /\ StatusInv /\ SilentInv /\ MessageInv
              /\ SuspectsFollowWrong

LEMMA CheckInitType == CheckInit => CheckTypeOK
  <1> SUFFICES ASSUME CheckInit PROVE CheckTypeOK
    OBVIOUS
  <1>1. line \in 1..N + 2 /\ status \in {0, 1, 255}
    BY NAssumption DEF CheckInit
  <1>2. right \in [Binary -> BOOLEAN] /\ message \in BOOLEAN
    BY DEF CheckInit
  <1>3. suspects \subseteq Binary /\ unreached \subseteq Binary
    BY DEF CheckInit
  <1> QED BY <1>1, <1>2, <1>3 DEF CheckTypeOK, CheckInit

LEMMA SpeccpuInit == CheckInit /\ script = "speccpu" => SpeccpuInv
  <1> SUFFICES ASSUME CheckInit, script = "speccpu" PROVE SpeccpuInv
    OBVIOUS
  <1>1. CheckTypeOK
    BY CheckInitType
  <1>2. UnreachedInv /\ StatusInv /\ MessageInv
    BY DEF CheckInit, UnreachedInv, StatusInv, MessageInv
  <1>3. SilentInv /\ SuspectsFollowWrong
    BY NAssumption DEF CheckInit, SilentInv, SuspectsFollowWrong, Binary
  <1> QED BY <1>1, <1>2, <1>3 DEF SpeccpuInv

LEMMA StatusValues ==
  ASSUME NEW b \in Binary, right \in [Binary -> BOOLEAN], NEW reached \in BOOLEAN
  PROVE  /\ ExitStatus(b, reached) \in {0, 1, 255}
         /\ ExitStatus(b, reached) = 0 <=> reached /\ right[b]
  BY DEF ExitStatus

LEMMA SpeccpuStep == SpeccpuInv /\ [CheckNext]_checkVars => SpeccpuInv'
  <1> SUFFICES ASSUME SpeccpuInv, [CheckNext]_checkVars PROVE SpeccpuInv'
    OBVIOUS
  <1> USE NAssumption DEF Binary, SpeccpuInv
  <1>1. CASE CheckWithinTest
    <2>1. PICK reached \in BOOLEAN :
            /\ suspects' = suspects \cup NamedInside(line, ExitStatus(line, reached))
            /\ status' = ExitStatus(line, reached)
            /\ Advance(reached)
      BY <1>1 DEF CheckWithinTest
    <2> DEFINE s == ExitStatus(line, reached)
    <2>2. line \in 1..N /\ line' = line + 1 /\ right' = right /\ message' = message /\ script' = script
      BY <1>1, <2>1 DEF CheckWithinTest, Advance
    <2>3. s \in {0, 1, 255} /\ (s = 0 <=> reached /\ right[line])
      BY <2>2, StatusValues DEF CheckTypeOK
    <2>4. unreached' = IF reached THEN unreached ELSE unreached \cup {line}
      BY <2>1 DEF Advance
    <2>5. \A b \in 1..N : b = line => (Good(b)' <=> s = 0)
      BY <2>2, <2>3, <2>4 DEF Good, UnreachedInv, CheckTypeOK
    <2>6. \A b \in 1..N : b < line => (Good(b)' <=> Good(b))
      BY <2>2, <2>4 DEF Good
    <2>7. line # N + 2 /\ line' # 1
      BY <2>2
    <2> HIDE DEF s
    <2>8. status' = s /\ suspects' = suspects \cup NamedInside(line, s)
      BY <2>1 DEF s
    <2>9. CheckTypeOK'
      BY <2>2, <2>3, <2>4, <2>8 DEF CheckTypeOK, NamedInside
    <2>10. UnreachedInv'
      BY <2>2, <2>4 DEF UnreachedInv, CheckTypeOK
    <2>11. StatusInv'
      <3>1. LastChecked' = line
        BY <2>2 DEF LastChecked
      <3>2. Good(LastChecked)' <=> s = 0
        BY <3>1, <2>2, <2>5 DEF Good
      <3> QED BY <3>2, <2>7, <2>8 DEF StatusInv
    <2>12. SilentInv'
      <3> SUFFICES ASSUME s = 0, suspects' = {}, NEW b \in 1..N, b < line'
                   PROVE  Good(b)'
        BY <2>8 DEF SilentInv
      <3>1. status = 0 /\ suspects = {}
        BY <2>8 DEF NamedInside
      <3>2. CASE b = line
        BY <3>2, <2>5
      <3>3. CASE b < line
        BY <3>1, <3>3, <2>6 DEF SilentInv
      <3> QED BY <3>2, <3>3, <2>2
    <2>13. MessageInv'
      BY <2>2, <2>7 DEF MessageInv
    <2>14. SuspectsFollowWrong'
      <3>1. CASE line = 1
        <4>1. suspects' = {}
          BY <3>1, <2>8 DEF NamedInside, StatusInv, SuspectsFollowWrong
        <4> QED BY <4>1, <3>1, <2>2 DEF SuspectsFollowWrong
      <3>2. CASE line > 1
        <4>1. status = 0 <=> Good(line - 1)
          BY <3>2, <2>2, <2>7 DEF StatusInv, LastChecked
        <4>2. \A b \in 1..N : b = line =>
                 (b \in NamedInside(line, s) <=> Good(b)' /\ ~Good(b - 1)')
          <5> SUFFICES ASSUME NEW b \in 1..N, b = line
                       PROVE b \in NamedInside(line, s) <=> Good(b)' /\ ~Good(b - 1)'
            OBVIOUS
          <5>1. b - 1 \in 1..N /\ b - 1 < line
            BY <3>2
          <5>2. Good(b - 1)' <=> status = 0
            BY <5>1, <2>6, <4>1
          <5> QED BY <5>2, <2>5 DEF NamedInside
        <4>3. NamedInside(line, s) \subseteq {line}
          BY DEF NamedInside
        <4>4. \A b \in 1..N : b < line /\ b > 1 =>
                 (Good(b)' /\ ~Good(b - 1)' <=> Good(b) /\ ~Good(b - 1))
          BY <2>2, <2>6
        <4>5. ASSUME NEW b \in 1..N
              PROVE b \in suspects' <=> b < line' /\ b > 1 /\ Good(b)' /\ ~Good(b - 1)'
          <5>1. CASE b = line
            BY <5>1, <4>2, <2>2, <2>8, <3>2 DEF SuspectsFollowWrong
          <5>2. CASE b # line
            BY <5>2, <4>3, <4>4, <2>2, <2>8 DEF SuspectsFollowWrong
          <5> QED BY <5>1, <5>2
        <4>6. suspects' \subseteq 1..N
          BY <2>9 DEF CheckTypeOK
        <4> QED BY <4>5, <4>6 DEF SuspectsFollowWrong
      <3> QED BY <3>1, <3>2, <2>2
    <2> QED BY <2>2, <2>9, <2>10, <2>11, <2>12, <2>13, <2>14
  <1>2. CASE Finish
    <2>1. /\ line = N + 1 /\ line' = N + 2
          /\ (message' <=> status = 0)
          /\ UNCHANGED <<script, right, status, suspects, unreached>>
      BY <1>2 DEF Finish, PrintedOnSuccess
    <2>2. \A b : Good(b)' <=> Good(b)
      BY <2>1 DEF Good
    <2>3. CheckTypeOK'
      BY <1>2, <2>1 DEF CheckTypeOK, Finish, PrintedOnSuccess
    <2>4. UnreachedInv'
      BY <2>1 DEF UnreachedInv, CheckTypeOK
    <2>5. StatusInv'
      BY <2>1, <2>2 DEF StatusInv, LastChecked
    <2>6. SilentInv'
      BY <2>1, <2>2 DEF SilentInv
    <2>7. MessageInv'
      BY <2>1 DEF MessageInv
    <2>8. SuspectsFollowWrong'
      BY <2>1, <2>2 DEF SuspectsFollowWrong
    <2> QED BY <2>1, <2>3, <2>4, <2>5, <2>6, <2>7, <2>8
  <1>3. CASE CheckTerminated \/ UNCHANGED checkVars
    <2>1. UNCHANGED checkVars
      BY <1>3 DEF CheckTerminated
    <2>2. \A b : Good(b)' <=> Good(b)
      BY <2>1 DEF Good, checkVars
    <2>3. CheckTypeOK' /\ UnreachedInv' /\ MessageInv'
      BY <2>1 DEF checkVars, CheckTypeOK, UnreachedInv, MessageInv
    <2>4. StatusInv' /\ SilentInv'
      BY <2>1, <2>2 DEF checkVars, StatusInv, SilentInv, LastChecked
    <2>5. SuspectsFollowWrong'
      BY <2>1, <2>2 DEF checkVars, SuspectsFollowWrong
    <2> QED BY <2>1, <2>3, <2>4, <2>5 DEF checkVars
  <1> QED BY <1>1, <1>2, <1>3 DEF CheckNext, CheckThenTest

----------------------------------------------------------------------------
(* The scripts of the other workloads *)

WorkloadInv == script = "workload" /\ CheckTypeOK /\ UnreachedInv /\ SuspectsExact /\ (message => line = N + 2)

LEMMA WorkloadInit == CheckInit /\ script = "workload" => WorkloadInv
  <1> SUFFICES ASSUME CheckInit, script = "workload" PROVE WorkloadInv
    OBVIOUS
  <1>1. CheckTypeOK /\ UnreachedInv
    BY CheckInitType DEF UnreachedInv, CheckInit
  <1>2. SuspectsExact
    BY NAssumption DEF CheckInit, SuspectsExact, Binary
  <1> QED BY <1>1, <1>2 DEF WorkloadInv, CheckInit

LEMMA WorkloadStep == WorkloadInv /\ [CheckNext]_checkVars => WorkloadInv'
  <1> SUFFICES ASSUME WorkloadInv, [CheckNext]_checkVars PROVE WorkloadInv'
    OBVIOUS
  <1> USE NAssumption DEF Binary, WorkloadInv
  <1>1. CASE CheckThenTest
    <2>1. PICK reached \in BOOLEAN :
            /\ suspects' = suspects \cup NamedAfter(line, ExitStatus(line, reached))
            /\ status' = 0
            /\ Advance(reached)
      BY <1>1 DEF CheckThenTest
    <2> DEFINE s == ExitStatus(line, reached)
    <2>2. line \in 1..N /\ line' = line + 1 /\ right' = right /\ message' = message /\ script' = script
      BY <1>1, <2>1 DEF CheckThenTest, Advance
    <2>3. s = 0 <=> reached /\ right[line]
      BY <2>2, StatusValues DEF CheckTypeOK
    <2>4. unreached' = IF reached THEN unreached ELSE unreached \cup {line}
      BY <2>1 DEF Advance
    <2>5. \A b \in 1..N : b = line => (Good(b)' <=> s = 0)
      BY <2>2, <2>3, <2>4 DEF Good, UnreachedInv, CheckTypeOK
    <2>6. \A b \in 1..N : b < line => (Good(b)' <=> Good(b))
      BY <2>2, <2>4 DEF Good
    <2> HIDE DEF s
    <2>7. suspects' = suspects \cup NamedAfter(line, s)
      BY <2>1 DEF s
    <2>8. CheckTypeOK'
      BY <2>1, <2>2, <2>4, <2>7 DEF CheckTypeOK, NamedAfter
    <2>9. UnreachedInv' /\ (message' => line' = N + 2)
      BY <2>2, <2>4 DEF UnreachedInv, CheckTypeOK
    <2>10. SuspectsExact'
      <3>1. ASSUME NEW b \in 1..N PROVE b \in suspects' <=> b < line' /\ ~Good(b)'
        <4>1. CASE b = line
          BY <4>1, <2>2, <2>5, <2>7 DEF SuspectsExact, NamedAfter
        <4>2. CASE b # line
          BY <4>2, <2>2, <2>6, <2>7 DEF SuspectsExact, NamedAfter
        <4> QED BY <4>1, <4>2
      <3>2. suspects' \subseteq 1..N
        BY <2>8 DEF CheckTypeOK
      <3> QED BY <3>1, <3>2 DEF SuspectsExact
    <2> QED BY <2>2, <2>8, <2>9, <2>10
  <1>2. CASE Finish
    <2>1. /\ line = N + 1 /\ line' = N + 2
          /\ message' = TRUE
          /\ UNCHANGED <<script, right, status, suspects, unreached>>
      BY <1>2 DEF Finish, PrintedAlways
    <2>2. \A b : Good(b)' <=> Good(b)
      BY <2>1 DEF Good
    <2>3. CheckTypeOK' /\ UnreachedInv' /\ (message' => line' = N + 2)
      BY <2>1 DEF CheckTypeOK, UnreachedInv
    <2>4. SuspectsExact'
      BY <2>1, <2>2 DEF SuspectsExact
    <2> QED BY <2>1, <2>3, <2>4
  <1>3. CASE CheckTerminated \/ UNCHANGED checkVars
    <2>1. UNCHANGED checkVars
      BY <1>3 DEF CheckTerminated
    <2>2. \A b : Good(b)' <=> Good(b)
      BY <2>1 DEF Good, checkVars
    <2>3. CheckTypeOK' /\ UnreachedInv' /\ (message' => line' = N + 2)
      BY <2>1 DEF checkVars, CheckTypeOK, UnreachedInv
    <2>4. SuspectsExact'
      BY <2>1, <2>2 DEF checkVars, SuspectsExact
    <2> QED BY <2>1, <2>3, <2>4 DEF checkVars
  <1> QED BY <1>1, <1>2, <1>3 DEF CheckNext, CheckWithinTest

----------------------------------------------------------------------------
LEMMA CheckInductive == CheckSpec => [](SpeccpuInv \/ WorkloadInv)
  <1>1. CheckInit => SpeccpuInv \/ WorkloadInv
    BY SpeccpuInit, WorkloadInit DEF CheckInit
  <1> QED BY <1>1, SpeccpuStep, WorkloadStep, PTL DEF CheckSpec

\* Every variable keeps its type.
THEOREM CheckTypeCorrect == CheckSpec => []CheckTypeOK
  <1>1. SpeccpuInv \/ WorkloadInv => CheckTypeOK
    BY DEF SpeccpuInv, WorkloadInv
  <1> QED BY <1>1, CheckInductive, PTL

\* All check-abi scripts: a closing message without a warning is a promise.
THEOREM Message == CheckSpec => []MessageMeansSuccess
  <1>1. SpeccpuInv => MessageMeansSuccess
    BY NAssumption DEF SpeccpuInv, SilentInv, MessageInv, MessageMeansSuccess, Binary
  <1>2. WorkloadInv => MessageMeansSuccess
    BY NAssumption DEF WorkloadInv, SuspectsExact, MessageMeansSuccess, Binary
  <1> QED BY <1>1, <1>2, CheckInductive, PTL

\* speccpu/run/check-abi: each warning names the binary behind a wrong one.
THEOREM SpeccpuWarnings == CheckSpec => []SuspectsFollowWrong
  <1>1. SpeccpuInv \/ WorkloadInv => SuspectsFollowWrong
    BY DEF SpeccpuInv, WorkloadInv, SuspectsFollowWrong
  <1> QED BY <1>1, CheckInductive, PTL

\* The other check-abi scripts: the warnings name the bad binaries, all and only.
THEOREM WorkloadWarnings == CheckSpec => []SuspectsExact
  <1>1. SpeccpuInv \/ WorkloadInv => SuspectsExact
    BY DEF SpeccpuInv, WorkloadInv, SuspectsExact
  <1> QED BY <1>1, CheckInductive, PTL
=============================================================================
