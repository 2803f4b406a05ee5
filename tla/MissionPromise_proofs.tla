------------------------- MODULE MissionPromise_proofs -------------------------
(***************************************************************************)
(* What follows from the promise alone, for every table of profiles.       *)
(***************************************************************************)
EXTENDS MissionPromise, TLAPS

\* A service that keeps the promise never flies a profile that asks for no
\* mission, and never carries a fault into a state that flies (obc/service.py,
\* _recover and _apply_profile_update).
THEOREM PromiseIsKept == PromiseSpec => []PromiseKept
<1> USE DEF PromiseKept, MissionStates, Flying, Down, Flies
<1>1. PromiseInit => PromiseKept
  BY DEF PromiseInit
<1>2. PromiseKept /\ [PromiseNext]_promised => PromiseKept'
  <2> SUFFICES ASSUME PromiseKept, [PromiseNext]_promised PROVE PromiseKept'
    OBVIOUS
  <2>1. CASE Starts
    BY <2>1 DEF Starts
  <2>2. CASE Sinks
    <3>1. \/ mission' = mission
          \/ mission' \in Down
          \/ mission' = "LOW_POWER" /\ mission \in {"DEPLOY", "NOMINAL"}
      BY <2>2, Zenon DEF Sinks, Lower
    <3>2. mission \in Down => mission' \in Down
      BY <2>2 DEF Sinks, Lower
    <3>3. mission' \in MissionStates /\ (mission' \in Flying => Flies(profile))
      BY <3>1
    <3>4. profile' = profile
      BY <2>2 DEF Sinks
    <3>5. grounded' \in BOOLEAN /\ (grounded' => mission' \in Down)
      <4>1. CASE grounded' = grounded
        BY <3>2, <4>1
      <4>2. CASE grounded' = TRUE /\ mission' \in Down
        BY <4>2
      <4> QED BY <2>2, <4>1, <4>2 DEF Sinks
    <3> QED BY <3>3, <3>4, <3>5
  <2>3. CASE Concludes
    BY <2>3 DEF Concludes
  <2>4. CASE Recovers
    BY <2>4 DEF Recovers, Recovered
  <2>5. CASE Pardons
    BY <2>5 DEF Pardons, Recovered
  <2>6. CASE Switches
    BY <2>6 DEF Switches
  <2>7. CASE Forgets
    BY <2>7 DEF Forgets
  <2>8. CASE UNCHANGED promised
    BY <2>8 DEF promised
  <2> QED BY <2>1, <2>2, <2>3, <2>4, <2>5, <2>6, <2>7, <2>8 DEF PromiseNext
<1> QED BY <1>1, <1>2, PTL DEF PromiseSpec

===============================================================================
