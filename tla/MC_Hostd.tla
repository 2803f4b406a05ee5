------------------------------ MODULE MC_Hostd ------------------------------
(***************************************************************************)
(* Small instances of Hostd: the default profile, EXPO with an access      *)
(* point and FLIGHT without a radio, with a TTL and resumable; one mission *)
(* service and one foreign unit.                                           *)
(***************************************************************************)
EXTENDS Hostd

MC_Profiles   == {"HOSTED", "EXPO", "FLIGHT"}
MC_Active     == {"EXPO", "FLIGHT"}
MC_ServicesOf == [p \in MC_Profiles |-> IF p = "HOSTED" THEN {} ELSE {"dhs"}]
MC_TtlOf      == [p \in MC_Profiles |-> IF p = "FLIGHT" THEN 1 ELSE None]
MC_GovernorOf == [p \in MC_Profiles |->
                    IF p = "FLIGHT" THEN "powersave" ELSE "ondemand"]
MC_WantedOf   == [p \in MC_Profiles |->
                    IF p = "HOSTED" THEN {"bot"} ELSE {"dhs"}]
MC_NetworkOf  == [p \in MC_Profiles |->
                    CASE p = "HOSTED" -> [mode |-> "client", mdns |-> TRUE]
                      [] p = "EXPO"   -> [mode |-> "ap", mdns |-> TRUE]
                      [] p = "FLIGHT" -> [mode |-> "off", mdns |-> FALSE]]

Apply(profile, ttl, resume) ==
  [kind |-> "apply_profile", profile |-> profile, ttl |-> ttl,
   resume |-> resume]

\* Every action OBC or the control socket sends.
AllActions ==
  {Apply(p, None, FALSE) : p \in MC_Profiles \cup {None}}
  \cup {Apply("FLIGHT", 1, TRUE)}
  \cup {[kind |-> "set_governor", governor |-> "powersave"],
        [kind |-> "restart_service", service |-> "dhs"],
        [kind |-> "clear_resume"], [kind |-> "poweroff"]}
=============================================================================
