--------------------------- MODULE MC_LlmSession ---------------------------
(* A small tool loop: a query of a configured back end, a pair of a tool    *)
(* the model made up and one whose back end is missing, no call at all.     *)
EXTENDS LlmSession

MC_Loki == [name |-> "query_loki", args |-> "object"]
MC_Prom == [name |-> "query_prometheus", args |-> "object"]
MC_Bad == [name |-> "other", args |-> "object"]
MC_Read == [name |-> "read_file", args |-> "object"]
MC_Replies == {<<>>, <<MC_Loki>>, <<MC_Bad, MC_Prom, MC_Read>>}
=============================================================================
