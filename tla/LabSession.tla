------------------------------- MODULE LabSession -------------------------------
(***************************************************************************)
(* A session of the behaviour lab (services/behavior-lab-engine/src/       *)
(* session_store.ts, scoring.ts): telemetry is ingested, a challenge is    *)
(* submitted and scored at once, and a shadow record is written when the   *)
(* hub has answered. Other requests of the same session run meanwhile.     *)
(* Sessions share only the list of records, to which each appends.         *)
(***************************************************************************)
EXTENDS Integers, FiniteSets

CONSTANTS
  Call,        \* slots for concurrent requests
  Report,      \* the telemetry that clients send, before normalisation
  GoodWindow,  \* click_window_good_ms of the pressure event
  MaxRequests, \* bound: requests of the session
  None

Entry == {"quiz", "plain log", "pressure"}   \* plain log: a daily log without a quiz
Scenario(entry) == IF entry = "pressure" THEN "pressure_sim" ELSE "narrative"

(* What a summary may report: seconds read, percent of progress, tenths of *)
(* scroll entropy, milliseconds, counts, and the quiz as 0 or 1.           *)
Field == {"reading", "progress", "entropy", "blur", "latency", "retry", "wait", "click", "quiz"}

Telemetry(fields) ==
  [scenario : {"narrative", "pressure_sim", "live_shadow"}, at : [fields -> Int]]
IsTelemetry(t) ==
  /\ t \in Telemetry(DOMAIN t.at) /\ DOMAIN t.at \subseteq Field
  /\ "quiz" \in DOMAIN t.at => t.at["quiz"] \in {0, 1}

Decision == {"allow", "step_up", "block"}

ASSUME ReportAssumption == \A t \in Report : IsTelemetry(t)
ASSUME BoundAssumption == GoodWindow \in Nat /\ MaxRequests \in Nat

VARIABLES
  entry,    \* what the session was started for
  latest,   \* telemetry_latest
  requests, \* requests so far, with telemetry or a submission
  call,     \* submissions that await the hub
  records   \* shadow records of the session; overlapped is history: another
            \* request wrote telemetry while this one waited for the hub

vars == <<entry, latest, requests, call, records>>

-----------------------------------------------------------------------------
(* Telemetry.                                                              *)

Clamp(x, low, high) == IF x < low THEN low ELSE IF x > high THEN high ELSE x
AtLeastZero(x) == IF x < 0 THEN 0 ELSE x

(* Only the click may be early; progress is a ratio.                       *)
normalizeTelemetry(t) ==
  [t EXCEPT !.at = [field \in DOMAIN t.at |->
     CASE field \in {"click", "quiz"} -> t.at[field]
       [] field = "progress" -> Clamp(t.at[field], 0, 100)
       [] OTHER -> AtLeastZero(t.at[field])]]

Overlay(a, b) ==
  [field \in DOMAIN a \cup DOMAIN b |-> IF field \in DOMAIN b THEN b[field] ELSE a[field]]

(* What the last summary said stands where the new one is silent.          *)
mergeTelemetry(a, b) ==
  IF a = None THEN b
  ELSE IF b = None THEN a
  ELSE [b EXCEPT !.at = Overlay(a.at, b.at)]

Has(t, field) == t # None /\ field \in DOMAIN t.at
Value(t, field) == IF Has(t, field) THEN t.at[field] ELSE 0

WithQuiz(t, correct) ==
  IF t = None THEN None
  ELSE [t EXCEPT !.at = Overlay(@, [quiz |-> IF correct THEN 1 ELSE 0])]

-----------------------------------------------------------------------------
(* Scores.                                                                 *)

Points(condition, points) == IF condition THEN points ELSE 0

Dwell(reading) ==
  IF reading >= 180 THEN 18 ELSE IF reading >= 90 THEN 10
  ELSE IF reading > 0 /\ reading < 45 THEN -28 ELSE -8

(* The mean of both scores, rounded; no graph risk is passed in the lab.   *)
Confidence(base, pressure) == Clamp((base + pressure + 1) \div 2, 0, 100)

scoreNarrativeShadow(t, correct) ==
  LET progress == Value(t, "progress")
      natural == Value(t, "entropy") \in 3..80
      latency == Value(t, "latency")
      base == 55 + Dwell(Value(t, "reading"))
        + Points(Has(t, "progress"), Points(progress >= 85, 10) - Points(progress < 50, 14))
        + Points(Has(t, "entropy"), IF natural THEN 8 ELSE -12)
        - Points(Value(t, "blur") >= 6, 10)
        + Points(latency \in 600..20000, 6) - Points(latency \in 1..179, 10)
        + (IF correct THEN 20 ELSE -35)
  IN Confidence(base, IF correct THEN 55 ELSE 40)

Click(t) ==
  LET delta == t.at["click"] IN
  IF delta \in 0..GoodWindow THEN 18
  ELSE IF delta > 4 * GoodWindow \/ delta < -100 THEN -22 ELSE -6

scorePressureShadow(t) ==
  LET retry == Value(t, "retry")
      wait == Value(t, "wait")
      pressure == 55 + (IF Has(t, "click") THEN Click(t) ELSE -12)
        + (IF retry <= 2 THEN 8 ELSE IF retry >= 5 THEN -25 ELSE -8)
        + Points(Has(t, "wait"), Points(wait \in 300..8000, 8) - Points(wait < 50, 10))
        + Points(Has(t, "latency"), IF Value(t, "latency") \in 80..4000 THEN 5 ELSE -10)
  IN Confidence(48 - Points(Value(t, "blur") >= 4, 12), pressure)

LocalDecision(confidence) ==
  IF confidence < 35 THEN "block" ELSE IF confidence < 50 THEN "step_up" ELSE "allow"

SampledFrom(confidence, limit) == LocalDecision(confidence) = "allow" /\ confidence >= limit
SampleEligibleWhenAllowed(confidence) == SampledFrom(confidence, 50)
SampleEligible(confidence) == SampledFrom(confidence, 80)

Label(confidence) ==
  IF confidence >= 80 THEN "human_likely"
  ELSE IF confidence < 35 THEN "bot_likely" ELSE "unknown"

(* evaluatePressureUnlock; the other entries unlock by their quiz.         *)
HitLate(t) == Has(t, "click") /\ t.at["click"] >= 0 /\ Value(t, "retry") <= 4
Hit(t) == Has(t, "click") /\ t.at["click"] \in 0..GoodWindow /\ Value(t, "retry") <= 4

Unlocked(e, t, answer) ==
  CASE e = "quiz" -> answer
    [] e = "plain log" -> TRUE
    [] e = "pressure" -> Hit(t)

Scored(e, t, unlocked) == IF e = "pressure" THEN t ELSE WithQuiz(t, unlocked)

(* telemetry_latest after a submission.                                    *)
StoredAsSent(e, t, unlocked) == t
Stored(e, t, unlocked) == Scored(e, t, unlocked)

Score(e, t, unlocked) ==
  IF e = "pressure" THEN scorePressureShadow(t)
  ELSE scoreNarrativeShadow(Scored(e, t, unlocked), unlocked)

-----------------------------------------------------------------------------
(* Requests.                                                               *)

Init ==
  /\ entry \in Entry
  /\ latest = None /\ requests = 0
  /\ call = [c \in Call |-> None]
  /\ records = {}

Overlapped ==
  [c \in Call |-> IF call[c] = None THEN None ELSE [call[c] EXCEPT !.overlapped = TRUE]]

ingestLabTelemetry(report) ==
  /\ requests < MaxRequests
  /\ report.scenario = Scenario(entry)
  /\ latest' = normalizeTelemetry(report)
  /\ requests' = requests + 1
  /\ call' = Overlapped
  /\ UNCHANGED <<entry, records>>

(* submitLabChallenge up to its await. A report, if any, may be of another *)
(* scenario: unlike ingestLabTelemetry it is not compared.                 *)
Submit(c, report, answer) ==
  /\ call[c] = None
  /\ requests < MaxRequests
  /\ LET sent == IF report = None THEN None ELSE normalizeTelemetry(report)
         telemetry == mergeTelemetry(latest, sent)
         unlocked == Unlocked(entry, telemetry, answer)
     IN /\ latest' = Stored(entry, telemetry, unlocked)
        /\ call' = [Overlapped EXCEPT ![c] =
             [scored |-> Scored(entry, telemetry, unlocked), unlocked |-> unlocked,
              confidence |-> Score(entry, telemetry, unlocked), overlapped |-> FALSE]]
  /\ requests' = requests + 1
  /\ UNCHANGED <<entry, records>>

(* The hub has answered, or failed and the local decision stands. The      *)
(* telemetry is read again.                                                *)
RecordOf(submission, hub) ==
  [scored |-> submission.scored, unlocked |-> submission.unlocked,
   confidence |-> submission.confidence, overlapped |-> submission.overlapped,
   telemetry |-> latest,
   decision |-> IF hub = None THEN LocalDecision(submission.confidence) ELSE hub,
   eligible |-> SampleEligible(submission.confidence),
   label |-> Label(submission.confidence)]

Answered(c, hub) ==
  /\ call[c] # None
  /\ records' = records \cup {RecordOf(call[c], hub)}
  /\ call' = [call EXCEPT ![c] = None]
  /\ UNCHANGED <<entry, latest, requests>>

Next ==
  \/ \E report \in Report : ingestLabTelemetry(report)
  \/ \E c \in Call :
       \/ \E report \in Report \cup {None}, answer \in BOOLEAN : Submit(c, report, answer)
       \/ \E hub \in Decision \cup {None} : Answered(c, hub)

Spec == Init /\ [][Next]_vars

-----------------------------------------------------------------------------
(* Properties.                                                             *)

SummaryOK(t) ==
  t # None => /\ IsTelemetry(t)
              /\ \A field \in DOMAIN t.at \ {"click"} : t.at[field] \in Nat
              /\ Value(t, "progress") <= 100

(* Types: what is stored was normalised, and scores are in range.          *)
TypeOK ==
  /\ entry \in Entry /\ SummaryOK(latest) /\ requests \in 0..MaxRequests
  /\ \A s \in ({call[c] : c \in Call} \ {None}) \cup records :
       /\ SummaryOK(s.scored) /\ s.unlocked \in BOOLEAN
       /\ s.confidence \in 0..100 /\ s.overlapped \in BOOLEAN
  /\ \A r \in records : /\ SummaryOK(r.telemetry) /\ r.decision \in Decision
                        /\ r.eligible \in BOOLEAN
                        /\ r.label \in {"human_likely", "bot_likely", "unknown"}

(* Whatever was sent before and merged in, a sample is taken only from     *)
(* reading: the quiz was answered right in this very submission and the    *)
(* page was read for a minute and a half. No pressure event and no wrong   *)
(* answer reaches the limit (scoreNarrativeShadow, finalizeShadowResult).  *)
SampledIsEarned ==
  \A r \in records : r.eligible =>
    entry # "pressure" /\ r.unlocked /\ Value(r.scored, "reading") >= 90

(* The two views of a pressure event agree: whoever hits its window within *)
(* the retries that count as a success is not blocked by the local score,  *)
(* however odd the rest of the telemetry is (evaluatePressureUnlock,       *)
(* scorePressureShadow).                                                   *)
HitIsNeverBlocked ==
  \A r \in records : entry = "pressure" /\ r.unlocked => LocalDecision(r.confidence) # "block"

(* A record shows the telemetry that was scored, unless another request of *)
(* the session wrote during the wait for the hub: the telemetry is read    *)
(* again when the record is written (submitLabChallenge).                  *)
MixedOnlyByOverlap ==
  \A r \in records : ~r.overlapped => r.telemetry = r.scored
=============================================================================
