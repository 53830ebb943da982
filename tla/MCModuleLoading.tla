-------------------------- MODULE MCModuleLoading --------------------------
(* All module graphs on modules 1..n, n being 3 in the runs, up to the names
   of the modules.                                                          *)
EXTENDS ModuleLoading

\* What a module can request: any modules but itself, each once, in any order
Requests(m) ==
  {s \in UNION {[1..n -> Module \ {m}] : n \in 0..(Cardinality(Module) - 1)} :
     IsInjective(s)}
AllGraphs == {g \in [Module -> UNION {Requests(m) : m \in Module}] :
                \A m \in Module : g[m] \in Requests(m)}

\* The same graph under other names, and one of each class of such graphs
Rename(p, g) == [m \in Module |-> LET x == CHOOSE x \in Module : p[x] = m
                                  IN [i \in DOMAIN g[x] |-> p[g[x][i]]]]
SameShape(g) == {Rename(p, g) : p \in {q \in [Module -> Module] : IsInjective(q)}}
Shapes == {CHOOSE g \in C : TRUE : C \in {SameShape(g) : g \in AllGraphs}}

OneBroken == {{}} \cup {{m} : m \in Module}
NoneBroken == {{}}
=============================================================================
