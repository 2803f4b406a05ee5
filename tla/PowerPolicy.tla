----------------------------- MODULE PowerPolicy -----------------------------
(***************************************************************************)
(* obc/power_policy.py: which mission state a battery reading calls for.   *)
(* Volts are integers in millivolts, the slope in mV/h, as the thresholds  *)
(* of the code have no finer resolution.                                   *)
(***************************************************************************)
EXTENDS CubesatTypes

\* Mutant: a recovery threshold below the descent it undoes.
RecoveryWithoutHysteresis == 3580

LowPowerVolts     == 3640
SafeVolts         == 3580
CriticalVolts     == 3450
RecoveryVolts     == 3750
DrainingMvPerHour == -30

LowPowerSources == {"DEPLOY", "NOMINAL"}
Recoverable     == {"LOW_POWER", "SAFE"}

\* What an eps_status carries for OBC.  `median` and `voltage` are None when
\* the payload has no such number, `external` is None when it is no boolean.
EpsStatus ==
  [median: Nat \cup {None}, voltage: Nat \cup {None},
   external: BOOLEAN \cup {None}, rate: Int \cup {None}]

\* reading_from: the median, else the raw sample, else no verdict at all.
\* A pin that was not published counts as no mains.
ReadingFrom(eps) ==
  LET volts == IF eps.median # None THEN eps.median ELSE eps.voltage
  IN  IF volts = None THEN None
      ELSE [voltage |-> volts, external |-> eps.external = TRUE,
            rate |-> eps.rate]

\* The pin alone is not trusted: a pack that still falls is not on mains.
OnMains(r) ==
  /\ r.external
  /\ r.rate = None \/ r.rate > DrainingMvPerHour

\* evaluate: the state this reading calls for, or None to stay where we are.
\* On mains nothing descends; off mains the deepest threshold passed wins.
Evaluate(r, state) ==
  CASE OnMains(r) /\ state \in Recoverable -> "NOMINAL"
    [] ~OnMains(r) /\ r.voltage < CriticalVolts /\ state # "CRITICAL" ->
         "CRITICAL"
    [] ~OnMains(r) /\ r.voltage \in CriticalVolts .. (SafeVolts - 1)
         /\ state \notin {"SAFE", "CRITICAL"} -> "SAFE"
    [] ~OnMains(r) /\ r.voltage >= RecoveryVolts /\ state \in Recoverable ->
         "NOMINAL"
    [] ~OnMains(r) /\ r.voltage \in SafeVolts .. (LowPowerVolts - 1)
         /\ state \in LowPowerSources -> "LOW_POWER"
    [] OTHER -> None
=============================================================================
