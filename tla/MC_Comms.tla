------------------------------ MODULE MC_Comms ------------------------------
(***************************************************************************)
(* Small instances of Comms: FLIGHT, which beacons, and MAINTENANCE, which *)
(* says nothing.                                                           *)
(***************************************************************************)
EXTENDS Comms

MC_DownlinkOf ==
  [p \in {"FLIGHT", "MAINTENANCE"} |-> [lora |-> p = "FLIGHT", beacon |-> p = "FLIGHT"]]

MC_Statuses ==
  {[profile |-> "FLIGHT", state |-> state] :
     state \in {"STANDBY", "NOMINAL", "SAFE", "CRITICAL"}}
  \cup {[profile |-> "MAINTENANCE", state |-> "STANDBY"]}

\* In units of the ack delay, in proportion.
MC_Interval == [s \in {"NOMINAL", "SAFE"} |-> IF s = "NOMINAL" THEN 1 ELSE 2]

Command(verb) == [ours |-> TRUE, bang |-> FALSE, verb |-> verb]
Typo == [ours |-> TRUE, bang |-> TRUE, verb |-> "fhoto"]
Stranger == [ours |-> FALSE, bang |-> TRUE, verb |-> "ping"]

MC_Table == {"ping", "photo", "on", "off", "safe"}
MC_Lines == {Command(verb) : verb \in {"ping", "photo", "off"}} \cup {Typo, Stranger}
Talk == [heard |-> 3, says |-> 1, rare |-> 1]
Photographs == {Command("photo")}
Brief == [heard |-> 2, says |-> 1, rare |-> 0]
=============================================================================
