--------------------------- MODULE MCAgentMemory ---------------------------
(* An instance of AgentMemory for TLC: an important text and a common one.    *)
EXTENDS AgentMemory

CONSTANTS failed, weather

MCImportance ==
  [v \in Values |-> CASE v = failed -> 7
                      [] v = weather -> 5
                      [] OTHER -> IF v.choice = "forced" THEN 8 ELSE 6]
=============================================================================
