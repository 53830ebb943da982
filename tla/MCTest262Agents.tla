--------------------------- MODULE MCTest262Agents ---------------------------
(* Small JavaScript tests for Test262Agents. *)
EXTENDS Test262Agents

\* Agent scripts: register once and report; and register again, from a job
\* queued by the first callback (the only way that survives its return).
Once   == << <<"receive">>, <<"report">> >>
Twice  == << <<"receive">>, <<"report", "await", "receive">>, <<"report">> >>
\* register again inside the callback, which agent_start forgets
Inside == << <<"receive">>, <<"receive", "report">> >>
Silent == << <<"report">> >>
Dies   == << <<"receive", "await", "fail">> >>
Throws == << <<"throw", "receive">> >>

Times(op, n) == [i \in 1..n |-> op]

\* The tests of the test262 suite have this shape: start n agents, broadcast
\* once, wait for a report from each.
Polite(n) == [main |-> Times("start", n) \o <<"broadcast">> \o Times("await", n),
              agents |-> Times(Once, n)]
PolitePlans == { <<Polite(1), Polite(2)>>, <<Polite(3)>>,
                 << [main |-> <<"start", "broadcast">>, agents |-> <<Once>>] >> }

\* r broadcasts, each after all reports of the one before
Rounds(n, r) ==
  [main |-> Times("start", n) \o
            [i \in 1..(r * (n + 1)) |-> IF i % (n + 1) = 1 THEN "broadcast" ELSE "await"],
   agents |-> Times(Twice, n)]
RoundsPlans == { <<Rounds(2, 2)>>, <<Rounds(1, 2)>>, <<Polite(2)>>, <<Polite(1), Rounds(2, 2)>> }
TwoRounds   == { <<Rounds(2, 2)>> }

\* Two broadcasts in a row, to agents that do what they like
Rude(agents) ==
  [main |-> Times("start", Len(agents)) \o <<"broadcast", "poll", "broadcast">>,
   agents |-> agents]
RudePlans == { <<Rude(<<x, y>>)>> : x, y \in {Once, Twice, Inside, Silent, Dies, Throws} }

AllPlans == PolitePlans \cup RoundsPlans \cup RudePlans

\* The hypothesis of the theorem about ReportsOfThisTest: in all these plans a
\* test that another follows waits for all its reports.
ASSUME FetchingAssumption == \A p \in AllPlans : LeavesNone(p)

\* Tests of the shape the suite has end: started agents take the one broadcast,
\* wake the main thread, report and are joined.
PoliteTestsEnd == TestsEnd(PolitePlans)
=============================================================================
