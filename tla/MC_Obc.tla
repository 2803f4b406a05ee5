------------------------------- MODULE MC_Obc -------------------------------
(***************************************************************************)
(* Small instances of Obc.  One platform-only default profile, one active  *)
(* profile without a TTL and FLIGHT, which has one and may be resumed.     *)
(* The runs differ in the environment they give OBC: which readings,       *)
(* heartbeats, commands and host reports may arrive.                       *)
(***************************************************************************)
EXTENDS Obc

MC_Profiles   == {"HOSTED", "DEMO", "FLIGHT"}
MC_Active     == {"DEMO", "FLIGHT"}
MC_ServicesOf == [p \in MC_Profiles |-> IF p = "HOSTED" THEN {} ELSE Services]
MC_GovernorOf == [p \in MC_Profiles |->
                    IF p = "FLIGHT" THEN "powersave" ELSE "ondemand"]
MC_TtlOf      == [p \in MC_Profiles |-> IF p = "FLIGHT" THEN 1 ELSE None]

Battery(volts) ==
  [median |-> volts, voltage |-> volts, external |-> FALSE, rate |-> -200]
OnCharger(volts, slope) ==
  [median |-> volts, voltage |-> volts, external |-> TRUE, rate |-> slope]

\* One reading in each band of the pack, a flat pack that was just plugged in
\* (no slope yet), one whose charger has failed, and an unreadable gauge.
PowerReadings ==
  {Battery(v) : v \in {3449, 3450, 3580, 3640, 3750}}
  \cup {OnCharger(3400, None), OnCharger(3400, -30),
        [median |-> None, voltage |-> None, external |-> None, rate |-> None]}

\* The one reading of the liveness run.
FlatBattery == {Battery(3449)}

Reports(profiles, ttls) ==
  [profile: profiles, ttl: ttls, boot: {FALSE}, previous: {None}]

PlainReports == Reports(MC_Profiles, {None})

\* FLIGHT, without the deadline that would end it.
FlightReports == Reports({"FLIGHT"}, {None})

NoMinutes == {}
=============================================================================
