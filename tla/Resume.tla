------------------------------- MODULE Resume -------------------------------
(***************************************************************************)
(* obc/resume.py and the resume half of obc/service.py's state: whether an *)
(* unexpected reset should put the satellite back where it was.  The       *)
(* record OBC keeps of the question:                                       *)
(*   candidate  _resume: the trip that waits for a mains reading, or None  *)
(*   wait       time left of that wait                                     *)
(*   settle     time left until the session counts as a flight, or None    *)
(*   report     _boot_report: None until the question has been answered,   *)
(*              then "resumed" or the reason of the refusal                *)
(***************************************************************************)
EXTENDS CubesatTypes

CONSTANTS
  MaxConsecutive,    \* RESUME_MAX_CONSECUTIVE
  EvidenceTimeout,   \* RESUME_EVIDENCE_TIMEOUT_SEC
  ResumeSettle       \* RESUME_SETTLE_SEC

Refusals == {"mains", "ttl", "loop", "noeps", "profile"}
Report   == {None, "resumed"} \cup Refusals

ASSUME ResumeAssumption ==
  /\ MaxConsecutive \in Nat
  /\ EvidenceTimeout \in Nat
  /\ ResumeSettle \in Nat
  /\ None \notin Refusals

ResumeState ==
  [ candidate: PreviousRun \cup {None}, wait: 0 .. EvidenceTimeout,
    settle: (0 .. ResumeSettle) \cup {None}, report: Report ]

InitResume ==
  [candidate |-> None, wait |-> 0, settle |-> None, report |-> None]

\* candidate_from: why a previous run may not resume, or None when only the
\* mains reading is missing.
Refusal(previous) ==
  CASE previous = None -> "profile"
    [] previous # None /\ previous.profile \notin Resumable -> "profile"
    [] previous # None /\ previous.profile \in Resumable
       /\ previous.count >= MaxConsecutive -> "loop"
    [] previous # None /\ previous.profile \in Resumable
       /\ previous.count < MaxConsecutive /\ previous.ttl = 0 -> "ttl"
    [] OTHER -> None

\* The question is open: no report yet and nothing being waited for.
Unasked(r) == r.report = None /\ r.candidate = None

Await(r, previous) ==
  [r EXCEPT !.candidate = previous, !.wait = EvidenceTimeout]

\* Mutant: the answer is recorded, the question stays open.
AnswerKeepsCandidate(r, report) == [r EXCEPT !.report = report]

\* Any answer drops the candidate and stays for the life of the process.
Answer(r, report) ==
  [r EXCEPT !.candidate = None, !.wait = 0, !.report = report]

ResumeElapse(r) ==
  [r EXCEPT !.wait = Down(@), !.settle = IF @ = None THEN None ELSE Down(@)]
=============================================================================
