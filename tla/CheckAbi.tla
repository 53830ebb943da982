------------------------------- MODULE CheckAbi --------------------------------
(***************************************************************************)
(* The check-abi scripts: "no output means success".  Each writes a script *)
(* to /tmp, one ssh per binary that greps what file(1) says on the board,  *)
(* and runs it with bash.  They differ in where the exit status is looked  *)
(* at.                                                                     *)
(*   sqlite-bench, quickjs, llama-cpp, matrix-multiply: a line of its own  *)
(*   after the ssh tests $?.                                               *)
(*   speccpu: the test is inside the double-quoted command of the ssh      *)
(*   itself, so $? is replaced on the host before the ssh starts, by the   *)
(*   status of the ssh of the line BEFORE; and it only runs after "&&",    *)
(*   when grep found this binary right.                                    *)
(***************************************************************************)
EXTENDS Naturals

CONSTANT N   \* binaries: run folders x binary names, in the order of the loops

ASSUME NAssumption == N \in Nat \ {0}

Binary == 1..N

VARIABLES script,     \* which of the two kinds it is
          right,      \* file(1) reports the ABI the filter of its folder asks for
          line,       \* the binary the generated script checks next
          status,     \* $? in the generated script
          suspects,   \* binaries named in a "may suffer wrong abis" line
          unreached,  \* history: binaries whose ssh failed
          message     \* "All binaries have checked ABIs (no output means success)"

checkVars == <<script, right, line, status, suspects, unreached, message>>

CheckTypeOK ==
  /\ script \in {"workload", "speccpu"}
  /\ right \in [Binary -> BOOLEAN]
  /\ line \in 1..N + 2
  /\ status \in {0, 1, 255}
  /\ suspects \subseteq Binary
  /\ unreached \subseteq Binary
  /\ message \in BOOLEAN

CheckInit ==
  /\ script \in {"workload", "speccpu"}
  /\ right \in [Binary -> BOOLEAN]
  /\ line = 1
  /\ status = 0
  /\ suspects = {}
  /\ unreached = {}
  /\ message = FALSE

\* Variants named ...Bug are faults the properties have to notice; no action
\* uses them.

\* ssh exits 255 when it cannot connect, else with the status of its command
\* (fault: a lost connection looks like a good answer).
ExitStatusBug(b, reached) == IF right[b] \/ ~reached THEN 0 ELSE 1
ExitStatus(b, reached) ==
  CASE ~reached -> 255
    [] reached /\ right[b] -> 0
    [] reached /\ ~right[b] -> 1

\* The test of sqlite-bench and its likes: the binary of this line, if its ssh
\* did not succeed (fault: if it did).
NamedAfterBug(b, s) == IF s = 0 THEN {b} ELSE {}
NamedAfter(b, s)    == IF s # 0 THEN {b} ELSE {}

\* The test of speccpu: the binary of this line, if grep found it right and the
\* ssh before did not succeed (fault: the next line starts with status 0).
NamedInsideBug(b, s) == {}
NamedInside(b, s)    == IF s = 0 /\ status # 0 THEN {b} ELSE {}

\* What a line leaves alone and what it does whatever the answer
Advance(reached) ==
  /\ line' = line + 1
  /\ unreached' = IF reached THEN unreached ELSE unreached \cup {line}
  /\ UNCHANGED <<script, right, message>>

\* One binary: its ssh, then a test that resets $? to 0
CheckThenTest ==
  /\ script = "workload"
  /\ line \in Binary
  /\ \E reached \in BOOLEAN :
       /\ suspects' = suspects \cup NamedAfter(line, ExitStatus(line, reached))
       /\ status' = 0
       /\ Advance(reached)

\* One binary: its ssh, which carries the test with it
CheckWithinTest ==
  /\ script = "speccpu"
  /\ line \in Binary
  /\ \E reached \in BOOLEAN :
       /\ suspects' = suspects \cup NamedInside(line, ExitStatus(line, reached))
       /\ status' = ExitStatus(line, reached)
       /\ Advance(reached)

\* What follows "bash /tmp/...check-abi": ";" in the one, "&&" in the other
PrintedAlways == TRUE
PrintedOnSuccessBug == TRUE
PrintedOnSuccess == status = 0

Finish ==
  /\ line = N + 1
  /\ message' = IF script = "speccpu" THEN PrintedOnSuccess ELSE PrintedAlways
  /\ line' = N + 2
  /\ UNCHANGED <<script, right, status, suspects, unreached>>

Finished   == line = N + 2
CheckTerminated == Finished /\ UNCHANGED checkVars

CheckNext == CheckThenTest \/ CheckWithinTest \/ Finish \/ CheckTerminated

CheckSpec == CheckInit /\ [][CheckNext]_checkVars

----------------------------------------------------------------------------
(* Properties *)

Good(b) == right[b] /\ b \notin unreached

\* The closing message with no suspect named before it means that every binary
\* was reached and is right.  For speccpu this hangs on the "&&" before the
\* printf: a suspect is only ever named behind a wrong binary.
MessageMeansSuccess ==
  message /\ suspects = {} => \A b \in Binary : Good(b)

\* The workload scripts name exactly the binaries that are wrong or could not
\* be checked, whichever connections fail.
SuspectsExact ==
  script = "workload" => suspects = {b \in Binary : b < line /\ ~Good(b)}

\* What the speccpu script's warnings mean: the binary before the one named is
\* the last of a row of wrong ones.
SuspectsFollowWrong ==
  script = "speccpu" => suspects = {b \in Binary : b < line /\ b > 1 /\ Good(b) /\ ~Good(b - 1)}
=============================================================================
