-------------------------- MODULE BroadcastBarrier ---------------------------
(***************************************************************************)
(* What $262.agent.broadcast promises (the comment above its critical      *)
(* section in quickjs/src/run-test262.c): every agent enrolled when a      *)
(* broadcast is made takes that broadcast, once, and the caller goes on    *)
(* only when all of them have.  How the agents learn of it, and what they  *)
(* do in between, is left out.                                             *)
(***************************************************************************)
EXTENDS Naturals

CONSTANT Agent

VARIABLES members,   \* enrolled agents
          owing,     \* those that have yet to take the current broadcast
          open,      \* no broadcast is in progress
          round,     \* broadcasts made
          seen       \* the last broadcast each agent took

bvars == <<members, owing, open, round, seen>>

BInit == members = {} /\ owing = {} /\ open = TRUE /\ round = 0 /\ seen = [a \in Agent |-> 0]

Enrol(a) == /\ open /\ a \notin members
            /\ members' = members \cup {a}
            /\ seen' = [seen EXCEPT ![a] = 0]
            /\ UNCHANGED <<owing, open, round>>

Issue == /\ open
         /\ open' = FALSE
         /\ owing' = members
         /\ round' = round + 1
         /\ UNCHANGED <<members, seen>>

Deliver(a) == /\ a \in owing
              /\ owing' = owing \ {a}
              /\ seen' = [seen EXCEPT ![a] = round]
              /\ UNCHANGED <<members, open, round>>

Complete == /\ ~open /\ owing = {}
            /\ open' = TRUE
            /\ UNCHANGED <<members, owing, round, seen>>

Leave(a) == /\ open /\ a \in members
            /\ members' = members \ {a}
            /\ UNCHANGED <<owing, open, round, seen>>

Restart == /\ open /\ members = {}
           /\ round' = 0
           /\ UNCHANGED <<members, owing, open, seen>>

BNext == \/ \E a \in Agent : Enrol(a) \/ Deliver(a) \/ Leave(a)
         \/ Issue \/ Complete \/ Restart

BSpec == BInit /\ [][BNext]_bvars
=============================================================================
