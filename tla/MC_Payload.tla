----------------------------- MODULE MC_Payload -----------------------------
(***************************************************************************)
(* Small instances of Payload: a trip and a bench run, with ids of their   *)
(* own so that a frame of one in the directory of the other can be told.   *)
(***************************************************************************)
EXTENDS Payload

MC_Pairs == {[id |-> 1, root |-> "comms"], [id |-> 2, root |-> "diag"]}

Short == [says |-> 4, lost |-> 1, rare |-> 2, timeouts |-> 1]

\* With every word of DHS heard.
Heard == [Short EXCEPT !.lost = 0]
=============================================================================
