----------------------------- MODULE MC_ObcHostd -----------------------------
(***************************************************************************)
(* Small instances of ObcHostd: the default profile and FLIGHT, which has  *)
(* no radio, a TTL and may be resumed.                                     *)
(***************************************************************************)
EXTENDS ObcHostd

Two   == {"HOSTED", "FLIGHT"}

MC_Active     == Profiles \ {"HOSTED"}
MC_ServicesOf == [p \in Profiles |-> {}]
MC_TtlOf      == [p \in Profiles |-> IF p = "FLIGHT" THEN 1 ELSE None]
MC_GovernorOf == [p \in Profiles |->
                    IF p = "FLIGHT" THEN "powersave" ELSE "ondemand"]
MC_WantedOf   == [p \in Profiles |-> IF p = "FLIGHT" THEN {} ELSE {"bot"}]
MC_NetworkOf  == [p \in Profiles |->
                    IF p = "FLIGHT" THEN [mode |-> "off", mdns |-> FALSE]
                    ELSE [mode |-> "client", mdns |-> TRUE]]

OnBattery(volts) ==
  [median |-> volts, voltage |-> volts, external |-> FALSE, rate |-> -200]

\* A full pack away from a socket.
NoMains == {OnBattery(3900)}

NoMinutes == {}
=============================================================================
