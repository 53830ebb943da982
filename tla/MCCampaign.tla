------------------------------ MODULE MCCampaign -------------------------------
(* Two groups, one of each kind, stand for the eight. *)
EXTENDS Campaign

AllWorkloads == {"speccpu", "sqlite-bench", "quickjs", "llama-cpp"}
OneWorkload  == {"sqlite-bench"}
SecondLoose  == {2}
=============================================================================
