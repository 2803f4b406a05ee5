------------------------------- MODULE MC_Dhs -------------------------------
(***************************************************************************)
(* Small instances of Dhs: EXPO, which is not recorded and forbids a       *)
(* delete, FLIGHT in the mission database and DIAG in its own.             *)
(***************************************************************************)
EXTENDS Dhs

MC_Profiles == {"EXPO", "FLIGHT", "DIAG"}
MC_PersistenceOf ==
  [p \in MC_Profiles |-> CASE p = "EXPO"   -> None
                           [] p = "FLIGHT" -> "comms.db"
                           [] p = "DIAG"   -> "diag.db"]
One      == [log \in Logs |-> 1]
Nothing  == [p \in MC_Profiles |-> {}]
NoTtl    == [p \in MC_Profiles |-> None]
Ondemand == [p \in MC_Profiles |-> "ondemand"]

\* A trip, its end, and one more mission of either database; two events
\* beyond those: a failure, a death, a sample, a delete, a day.
Evening == [says |-> 3, switches |-> 1, photos |-> 1, rare |-> 2]
=============================================================================
