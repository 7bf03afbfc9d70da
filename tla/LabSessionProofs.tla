--------------------------- MODULE LabSessionProofs ---------------------------
(***************************************************************************)
(* Proofs about LabSession, for any telemetry that clients send, any       *)
(* window of the pressure event, and any number of requests at once. The   *)
(* scores are sums of bounded parts: what a sample needs is read off from  *)
(* the most that the other parts can give.                                 *)
(***************************************************************************)
EXTENDS LabSession, TLAPS

(* What a submission carries, in progress or on record.                    *)
Carries(s) ==
  /\ SummaryOK(s.scored) /\ s.unlocked \in BOOLEAN
  /\ s.confidence \in 0..100 /\ s.overlapped \in BOOLEAN

Earned(s) ==
  /\ SampleEligible(s.confidence) =>
       entry # "pressure" /\ s.unlocked /\ Value(s.scored, "reading") >= 90
  /\ entry = "pressure" /\ s.unlocked => LocalDecision(s.confidence) # "block"

Shape(s) ==
  s \in [scored : {s.scored}, unlocked : BOOLEAN, confidence : 0..100, overlapped : BOOLEAN]

Submissions ==
  /\ call = [c \in Call |-> call[c]]
  /\ \A c \in Call : call[c] # None =>
       /\ Shape(call[c]) /\ Carries(call[c]) /\ Earned(call[c])
       /\ ~call[c].overlapped => latest = call[c].scored

Recorded ==
  \A r \in records :
    /\ Carries(r) /\ Earned(r)
    /\ SummaryOK(r.telemetry) /\ r.decision \in Decision
    /\ r.eligible = SampleEligible(r.confidence) /\ r.eligible \in BOOLEAN
    /\ r.label \in {"human_likely", "bot_likely", "unknown"}
    /\ ~r.overlapped => r.telemetry = r.scored

IInv ==
  /\ entry \in Entry /\ SummaryOK(latest) /\ requests \in 0..MaxRequests
  /\ Submissions /\ Recorded

USE BoundAssumption

-----------------------------------------------------------------------------
(* Telemetry.                                                              *)

LEMMA Values ==
  ASSUME NEW t, SummaryOK(t), NEW field \in Field
  PROVE  /\ Value(t, field) \in Int
         /\ field # "click" => Value(t, field) \in Nat
         /\ Has(t, field) => Value(t, field) = t.at[field]
BY DEF SummaryOK, IsTelemetry, Telemetry, Value, Has

(* A summary is a record of its scenario and a function on some fields.    *)
LEMMA Telling ==
  ASSUME NEW t, IsTelemetry(t), NEW at, NEW fields \in SUBSET Field,
         at \in [fields -> Int],
         "quiz" \in fields => at["quiz"] \in {0, 1}
  PROVE  /\ IsTelemetry([t EXCEPT !.at = at])
         /\ [t EXCEPT !.at = at].at = at /\ DOMAIN at = fields
BY DEF IsTelemetry, Telemetry

LEMMA Normalised ==
  ASSUME NEW t, IsTelemetry(t)
  PROVE  SummaryOK(normalizeTelemetry(t))
<1>1. PICK at : at = [field \in DOMAIN t.at |->
                        CASE field \in {"click", "quiz"} -> t.at[field]
                          [] field = "progress" -> Clamp(t.at[field], 0, 100)
                          [] OTHER -> AtLeastZero(t.at[field])]
  OBVIOUS
<1>2. normalizeTelemetry(t) = [t EXCEPT !.at = at]
  BY <1>1 DEF normalizeTelemetry
<1>3. /\ DOMAIN t.at \in SUBSET Field
      /\ \A field \in DOMAIN t.at : t.at[field] \in Int
      /\ "quiz" \in DOMAIN t.at => t.at["quiz"] \in {0, 1}
  BY DEF IsTelemetry, Telemetry
<1>4. /\ DOMAIN at = DOMAIN t.at
      /\ \A field \in DOMAIN t.at :
           /\ at[field] \in Int /\ (field # "click" => at[field] \in Nat)
           /\ field = "progress" => at[field] <= 100
           /\ field = "quiz" => at[field] \in {0, 1}
  <2> SUFFICES ASSUME NEW field \in DOMAIN t.at
               PROVE  /\ at[field] \in Int /\ (field # "click" => at[field] \in Nat)
                      /\ field = "progress" => at[field] <= 100
                      /\ field = "quiz" => at[field] \in {0, 1}
    BY <1>1
  <2>1. CASE field \in {"click", "quiz"}
    <3>1. at[field] = t.at[field]
      BY <1>1, <2>1
    <3> QED BY <1>3, <2>1, <3>1
  <2>2. CASE field = "progress"
    <3>1. at[field] = Clamp(t.at[field], 0, 100)
      BY <1>1, <2>2
    <3> QED BY <1>3, <2>2, <3>1 DEF Clamp
  <2>3. CASE field \notin {"click", "quiz", "progress"}
    <3>1. at[field] = AtLeastZero(t.at[field])
      BY <1>1, <2>3
    <3> QED BY <1>3, <2>3, <3>1 DEF AtLeastZero
  <2> QED BY <2>1, <2>2, <2>3
<1>5. at \in [DOMAIN t.at -> Int]
  BY <1>1, <1>4
<1>6. IsTelemetry([t EXCEPT !.at = at]) /\ [t EXCEPT !.at = at].at = at
  BY <1>3, <1>4, <1>5, Telling
<1> QED BY <1>2, <1>4, <1>6 DEF SummaryOK, Value, Has

LEMMA Overlaid ==
  ASSUME NEW t, SummaryOK(t), t # None, NEW u, SummaryOK(u), u # None
  PROVE  SummaryOK([u EXCEPT !.at = Overlay(t.at, u.at)])
<1>1. PICK at : at = Overlay(t.at, u.at)
  OBVIOUS
<1>2. /\ IsTelemetry(t) /\ IsTelemetry(u)
      /\ \A field \in DOMAIN t.at : t.at[field] \in Int /\ (field # "click" => t.at[field] \in Nat)
      /\ \A field \in DOMAIN u.at : u.at[field] \in Int /\ (field # "click" => u.at[field] \in Nat)
      /\ DOMAIN t.at \subseteq Field /\ DOMAIN u.at \subseteq Field
      /\ "quiz" \in DOMAIN t.at => t.at["quiz"] \in {0, 1}
      /\ "quiz" \in DOMAIN u.at => u.at["quiz"] \in {0, 1}
      /\ "progress" \in DOMAIN t.at => t.at["progress"] <= 100
      /\ "progress" \in DOMAIN u.at => u.at["progress"] <= 100
  BY DEF SummaryOK, IsTelemetry, Telemetry, Value, Has
<1>3. /\ DOMAIN at = DOMAIN t.at \cup DOMAIN u.at
      /\ at = [field \in DOMAIN at |-> at[field]]
      /\ \A field \in DOMAIN at : \/ field \in DOMAIN t.at /\ at[field] = t.at[field]
                                  \/ field \in DOMAIN u.at /\ at[field] = u.at[field]
  BY <1>1 DEF Overlay
<1>4. /\ \A field \in DOMAIN at : at[field] \in Int /\ (field # "click" => at[field] \in Nat)
      /\ DOMAIN at \in SUBSET Field
      /\ "quiz" \in DOMAIN at => at["quiz"] \in {0, 1}
      /\ "progress" \in DOMAIN at => at["progress"] <= 100
  BY <1>2, <1>3
<1>5. at \in [DOMAIN at -> Int]
  BY <1>3, <1>4
<1>6. IsTelemetry([u EXCEPT !.at = at]) /\ [u EXCEPT !.at = at].at = at
  BY <1>2, <1>4, <1>5, Telling
<1> QED BY <1>1, <1>4, <1>6 DEF SummaryOK, Value, Has

LEMMA Merged ==
  ASSUME NEW t, SummaryOK(t), NEW u, SummaryOK(u)
  PROVE  SummaryOK(mergeTelemetry(t, u))
BY Overlaid DEF mergeTelemetry

LEMMA Quizzed ==
  ASSUME NEW t, SummaryOK(t), NEW correct \in BOOLEAN
  PROVE  SummaryOK(WithQuiz(t, correct))
<1>1. CASE t = None
  BY <1>1 DEF WithQuiz, SummaryOK
<1>2. CASE t # None
  <2>1. PICK quiz : quiz = [quiz |-> IF correct THEN 1 ELSE 0]
    OBVIOUS
  <2>2. /\ quiz \in [{"quiz"} -> Int] /\ quiz["quiz"] \in {0, 1}
        /\ DOMAIN quiz = {"quiz"}
    BY <2>1
  <2>3. PICK at : at = Overlay(t.at, quiz)
    OBVIOUS
  <2>4. /\ IsTelemetry(t) /\ DOMAIN t.at \subseteq Field
        /\ \A field \in DOMAIN t.at : t.at[field] \in Int /\ (field # "click" => t.at[field] \in Nat)
        /\ "progress" \in DOMAIN t.at => t.at["progress"] <= 100
    BY <1>2 DEF SummaryOK, IsTelemetry, Telemetry, Value, Has
  <2>5. /\ DOMAIN at = DOMAIN t.at \cup {"quiz"}
        /\ at = [field \in DOMAIN at |-> at[field]]
        /\ at["quiz"] \in {0, 1}
        /\ \A field \in DOMAIN at : field = "quiz" \/ (field \in DOMAIN t.at /\ at[field] = t.at[field])
    <3>1. at = [field \in DOMAIN t.at \cup {"quiz"} |->
                  IF field \in {"quiz"} THEN quiz[field] ELSE t.at[field]]
      BY <2>2, <2>3 DEF Overlay
    <3>2. DOMAIN at = DOMAIN t.at \cup {"quiz"} /\ at = [field \in DOMAIN at |-> at[field]]
      BY <3>1
    <3>3. \A field \in DOMAIN t.at \cup {"quiz"} :
            field # "quiz" => field \in DOMAIN t.at /\ at[field] = t.at[field]
      BY <3>1
    <3>4. "quiz" \in DOMAIN t.at \cup {"quiz"} /\ "quiz" \in {"quiz"}
      OBVIOUS
    <3>5. at["quiz"] = quiz["quiz"]
      BY <3>1, <3>4
    <3>6. at["quiz"] \in {0, 1}
      BY <2>2, <3>5
    <3>7. \A field \in DOMAIN at : field = "quiz" \/ (field \in DOMAIN t.at /\ at[field] = t.at[field])
      <4>1. DOMAIN at = DOMAIN t.at \cup {"quiz"}
        BY <3>2
      <4> QED BY <3>3, <4>1, Zenon
    <3> QED BY <3>2, <3>6, <3>7
  <2>6. /\ \A field \in DOMAIN at : at[field] \in Int /\ (field # "click" => at[field] \in Nat)
        /\ DOMAIN at \in SUBSET Field
        /\ "progress" \in DOMAIN at => at["progress"] <= 100
    <3>1. "quiz" \in Field
      BY DEF Field
    <3> QED BY <2>4, <2>5, <3>1
  <2>7. at \in [DOMAIN at -> Int]
    BY <2>5, <2>6
  <2>8. IsTelemetry([t EXCEPT !.at = at]) /\ [t EXCEPT !.at = at].at = at
    BY <2>4, <2>5, <2>6, <2>7, Telling
  <2>9. WithQuiz(t, correct) = [t EXCEPT !.at = at]
    BY <1>2, <2>1, <2>3 DEF WithQuiz
  <2> QED BY <2>6, <2>8, <2>9 DEF SummaryOK, Value, Has
<1> QED BY <1>1, <1>2

-----------------------------------------------------------------------------
(* Scores.                                                                 *)

LEMMA ConfidenceBounds ==
  ASSUME NEW base \in Int, NEW pressure \in Int
  PROVE  /\ Confidence(base, pressure) \in 0..100
         /\ Confidence(base, pressure) >= 80 => base + pressure >= 159
         /\ base + pressure >= 69 => Confidence(base, pressure) >= 35
BY DEF Confidence, Clamp

(* Without the quiz a reader gets at most 51, without the time 73.         *)
LEMMA NarrativeEarns ==
  ASSUME NEW t, SummaryOK(t), NEW correct \in BOOLEAN
  PROVE  /\ scoreNarrativeShadow(t, correct) \in 0..100
         /\ scoreNarrativeShadow(t, correct) >= 80 => correct /\ Value(t, "reading") >= 90
<1>1. /\ Value(t, "reading") \in Nat /\ Value(t, "progress") \in Nat
      /\ Value(t, "blur") \in Nat /\ Value(t, "latency") \in Nat
  BY Values DEF Field
<1> DEFINE dwell == Dwell(Value(t, "reading"))
           early == Points(Value(t, "progress") < 50, 14)
           progress == Points(Has(t, "progress"), Points(Value(t, "progress") >= 85, 10) - early)
           entropy == Points(Has(t, "entropy"), IF Value(t, "entropy") \in 3..80 THEN 8 ELSE -12)
           blur == Points(Value(t, "blur") >= 6, 10)
           steady == Points(Value(t, "latency") \in 600..20000, 6)
           hasty == Points(Value(t, "latency") \in 1..179, 10)
           base == 55 + dwell + progress + entropy - blur + steady - hasty
                   + (IF correct THEN 20 ELSE -35)
<1>3. dwell \in -28..18 /\ (Value(t, "reading") < 90 => dwell <= -8)
  BY <1>1 DEF Dwell
<1>5. progress \in -14..10
  BY <1>1 DEF Points
<1>7. entropy \in -12..8
  BY DEF Points
<1>9. blur \in 0..10
  BY <1>1 DEF Points
<1>11. steady \in 0..6
  BY <1>1 DEF Points
<1>13. hasty \in 0..10
  BY <1>1 DEF Points
<1>15. scoreNarrativeShadow(t, correct) = Confidence(base, IF correct THEN 55 ELSE 40)
  BY DEF scoreNarrativeShadow
<1> HIDE DEF dwell, progress, entropy, blur, steady, hasty
<1>14. base \in Int
  BY <1>3, <1>5, <1>7, <1>9, <1>11, <1>13
<1>16. (correct => base <= 99 + dwell) /\ (~correct => base <= 62)
  BY <1>3, <1>5, <1>7, <1>9, <1>11, <1>13
<1> HIDE DEF base
<1>17. CASE correct
  <2>1. base + 55 >= 159 => Value(t, "reading") >= 90
    BY <1>1, <1>3, <1>14, <1>16, <1>17
  <2>2. scoreNarrativeShadow(t, correct) = Confidence(base, 55)
    BY <1>15, <1>17
  <2>3. Confidence(base, 55) \in 0..100 /\ (Confidence(base, 55) >= 80 => base + 55 >= 159)
    BY <1>14, ConfidenceBounds
  <2> QED BY <1>17, <2>1, <2>2, <2>3
<1>18. CASE ~correct
  <2>1. base + 40 < 159
    BY <1>14, <1>16, <1>18
  <2>2. scoreNarrativeShadow(t, correct) = Confidence(base, 40)
    BY <1>15, <1>18
  <2>4. /\ Confidence(base, 40) \in 0..100
        /\ Confidence(base, 40) >= 80 => base + 40 >= 159
    BY <1>14, ConfidenceBounds
  <2>3. Confidence(base, 40) \in 0..100 /\ ~(Confidence(base, 40) >= 80)
    BY <1>14, <2>1, <2>4
  <2> QED BY <2>2, <2>3
<1> QED BY <1>17, <1>18

(* A pressure event gets at most 71, and at least 41 when it is a hit.     *)
LEMMA PressureStaysMiddling ==
  ASSUME NEW t, SummaryOK(t)
  PROVE  /\ scorePressureShadow(t) \in 0..100
         /\ scorePressureShadow(t) < 80
         /\ Hit(t) => scorePressureShadow(t) >= 35
<1>1. /\ Value(t, "retry") \in Nat /\ Value(t, "wait") \in Nat
      /\ Value(t, "blur") \in Nat /\ Value(t, "latency") \in Nat
      /\ Has(t, "click") => t.at["click"] \in Int
  <2>1. Value(t, "click") \in Int /\ (Has(t, "click") => Value(t, "click") = t.at["click"])
    BY Values DEF Field
  <2> QED BY <2>1, Values DEF Field
<1> DEFINE click == IF Has(t, "click") THEN Click(t) ELSE -12
           retry == IF Value(t, "retry") <= 2 THEN 8
                    ELSE IF Value(t, "retry") >= 5 THEN -25 ELSE -8
           hasty == Points(Value(t, "wait") < 50, 10)
           wait == Points(Has(t, "wait"), Points(Value(t, "wait") \in 300..8000, 8) - hasty)
           latency == Points(Has(t, "latency"), IF Value(t, "latency") \in 80..4000 THEN 5 ELSE -10)
           blur == Points(Value(t, "blur") >= 4, 12)
           pressure == 55 + click + retry + wait + latency
           base == 48 - blur
<1>3. click \in -22..18 /\ (Hit(t) => click = 18)
  BY <1>1 DEF Click, Hit
<1>5. retry \in -25..8 /\ (Hit(t) => retry >= -8)
  BY <1>1 DEF Hit
<1>7. wait \in -10..8
  <2> DEFINE ready == Points(Value(t, "wait") \in 300..8000, 8)
  <2>1. ready \in 0..8 /\ hasty \in 0..10
    BY <1>1 DEF Points
  <2>2. wait = Points(Has(t, "wait"), ready - hasty)
    OBVIOUS
  <2> HIDE DEF ready, hasty
  <2> QED BY <2>1, <2>2 DEF Points
<1>9. latency \in -10..5
  BY <1>1 DEF Points
<1>11. blur \in 0..12
  BY <1>1 DEF Points
<1>14. scorePressureShadow(t) = Confidence(base, pressure)
  BY DEF scorePressureShadow
<1> HIDE DEF click, retry, wait, latency, blur
<1>12. pressure \in Int /\ base \in Int
  BY <1>3, <1>5, <1>7, <1>9, <1>11
<1>15. base + pressure <= 142 /\ (Hit(t) => base + pressure >= 69)
  BY <1>3, <1>5, <1>7, <1>9, <1>11
<1> HIDE DEF pressure, base
<1>16. /\ Confidence(base, pressure) \in 0..100
       /\ Confidence(base, pressure) >= 80 => base + pressure >= 159
       /\ base + pressure >= 69 => Confidence(base, pressure) >= 35
  BY <1>12, ConfidenceBounds
<1>18. Confidence(base, pressure) < 80
  BY <1>12, <1>15, <1>16
<1> QED BY <1>14, <1>15, <1>16, <1>18

-----------------------------------------------------------------------------
(* The steps.                                                              *)

LEMMA Starts == Init => IInv
BY DEF Init, IInv, Submissions, Recorded, SummaryOK

(* Marking the others overlapped leaves what they carry.                   *)
LEMMA OverlappedKeeps ==
  ASSUME Submissions
  PROVE  \A c \in Call : Overlapped[c] # None =>
           /\ Shape(Overlapped[c]) /\ Carries(Overlapped[c]) /\ Earned(Overlapped[c])
           /\ Overlapped[c].overlapped
<1> SUFFICES ASSUME NEW c \in Call, Overlapped[c] # None
             PROVE  /\ Shape(Overlapped[c]) /\ Carries(Overlapped[c]) /\ Earned(Overlapped[c])
                    /\ Overlapped[c].overlapped
  OBVIOUS
<1>1. call[c] # None /\ Overlapped[c] = [call[c] EXCEPT !.overlapped = TRUE]
  BY DEF Overlapped
<1>2. Shape(call[c]) /\ Carries(call[c]) /\ Earned(call[c])
  BY <1>1 DEF Submissions
<1>3. /\ Overlapped[c].scored = call[c].scored /\ Overlapped[c].unlocked = call[c].unlocked
      /\ Overlapped[c].confidence = call[c].confidence /\ Overlapped[c].overlapped = TRUE
      /\ Shape(Overlapped[c])
  BY <1>1, <1>2 DEF Shape
<1> QED BY <1>2, <1>3 DEF Carries, Earned

LEMMA IngestKeeps ==
  ASSUME IInv, NEW report \in Report, ingestLabTelemetry(report)
  PROVE  IInv'
<1>1. SummaryOK(latest')
  BY Normalised, ReportAssumption DEF ingestLabTelemetry
<1>2. requests' \in 0..MaxRequests
  BY DEF IInv, ingestLabTelemetry
<1>3. Submissions'
  <2>1. call' = Overlapped /\ entry' = entry
    BY DEF ingestLabTelemetry
  <2>2. Overlapped = [c \in Call |-> Overlapped[c]]
    BY DEF Overlapped
  <2> QED BY <2>1, <2>2, OverlappedKeeps DEF IInv, Submissions, Earned
<1>4. Recorded'
  BY DEF IInv, Recorded, Earned, ingestLabTelemetry
<1> QED BY <1>1, <1>2, <1>3, <1>4 DEF IInv, ingestLabTelemetry

(* What a submission puts up for scoring, and the score it gets.           *)
LEMMA ScoredWell ==
  ASSUME entry \in Entry, NEW t, SummaryOK(t), NEW answer \in BOOLEAN,
         NEW unlocked, unlocked = Unlocked(entry, t, answer)
  PROVE  /\ SummaryOK(Scored(entry, t, unlocked)) /\ unlocked \in BOOLEAN
         /\ Score(entry, t, unlocked) \in 0..100
         /\ SampleEligible(Score(entry, t, unlocked)) =>
              /\ entry # "pressure" /\ unlocked
              /\ Value(Scored(entry, t, unlocked), "reading") >= 90
         /\ entry = "pressure" /\ unlocked => LocalDecision(Score(entry, t, unlocked)) # "block"
<1>1. unlocked \in BOOLEAN /\ (entry = "pressure" => unlocked = Hit(t))
  BY DEF Entry, Unlocked, Hit
<1>2. CASE entry = "pressure"
  <2>1. Scored(entry, t, unlocked) = t /\ Score(entry, t, unlocked) = scorePressureShadow(t)
    BY <1>2 DEF Scored, Score
  <2>2. /\ scorePressureShadow(t) \in 0..100 /\ scorePressureShadow(t) < 80
        /\ Hit(t) => scorePressureShadow(t) >= 35
    BY PressureStaysMiddling
  <2>3. ~SampleEligible(scorePressureShadow(t))
    BY <2>2 DEF SampleEligible, SampledFrom
  <2>4. scorePressureShadow(t) >= 35 => LocalDecision(scorePressureShadow(t)) # "block"
    BY <2>2 DEF LocalDecision
  <2> QED BY <1>1, <1>2, <2>1, <2>2, <2>3, <2>4
<1>3. CASE entry # "pressure"
  <2>1. PICK quizzed : quizzed = WithQuiz(t, unlocked)
    OBVIOUS
  <2>2. /\ Scored(entry, t, unlocked) = quizzed
        /\ Score(entry, t, unlocked) = scoreNarrativeShadow(quizzed, unlocked)
    BY <1>3, <2>1 DEF Scored, Score
  <2>3. SummaryOK(quizzed)
    BY <1>1, <2>1, Quizzed
  <2>4. /\ scoreNarrativeShadow(quizzed, unlocked) \in 0..100
        /\ scoreNarrativeShadow(quizzed, unlocked) >= 80 =>
             unlocked /\ Value(quizzed, "reading") >= 90
    BY <1>1, <2>3, NarrativeEarns
  <2>5. SampleEligible(scoreNarrativeShadow(quizzed, unlocked)) =>
          scoreNarrativeShadow(quizzed, unlocked) >= 80
    BY DEF SampleEligible, SampledFrom
  <2> QED BY <1>1, <1>3, <2>2, <2>3, <2>4, <2>5
<1> QED BY <1>2, <1>3

LEMMA SubmitKeeps ==
  ASSUME IInv, NEW c \in Call, NEW report \in Report \cup {None}, NEW answer \in BOOLEAN,
         Submit(c, report, answer)
  PROVE  IInv'
<1>1. PICK sent : sent = IF report = None THEN None ELSE normalizeTelemetry(report)
  OBVIOUS
<1>2. SummaryOK(sent)
  BY <1>1, Normalised, ReportAssumption DEF SummaryOK
<1>3. PICK t : t = mergeTelemetry(latest, sent)
  OBVIOUS
<1>4. SummaryOK(t)
  BY <1>2, <1>3, Merged DEF IInv
<1>5. PICK unlocked : unlocked = Unlocked(entry, t, answer)
  OBVIOUS
<1>6. PICK scored : scored = Scored(entry, t, unlocked)
  OBVIOUS
<1>7. PICK confidence : confidence = Score(entry, t, unlocked)
  OBVIOUS
<1>8. /\ SummaryOK(scored) /\ unlocked \in BOOLEAN /\ confidence \in 0..100
      /\ SampleEligible(confidence) => entry # "pressure" /\ unlocked /\ Value(scored, "reading") >= 90
      /\ entry = "pressure" /\ unlocked => LocalDecision(confidence) # "block"
  BY <1>4, <1>5, <1>6, <1>7, ScoredWell DEF IInv
<1>9. PICK s : s = [scored |-> scored, unlocked |-> unlocked, confidence |-> confidence,
                    overlapped |-> FALSE]
  OBVIOUS
<1>10. /\ latest' = scored /\ call' = [Overlapped EXCEPT ![c] = s]
       /\ requests' \in 0..MaxRequests /\ UNCHANGED <<entry, records>>
  <2>1. latest' = scored
    BY <1>1, <1>3, <1>5, <1>6 DEF Submit, Stored
  <2>2. call' = [Overlapped EXCEPT ![c] = s]
    BY <1>1, <1>3, <1>5, <1>6, <1>7, <1>9 DEF Submit
  <2>3. requests' \in 0..MaxRequests /\ UNCHANGED <<entry, records>>
    BY DEF IInv, Submit
  <2> QED BY <2>1, <2>2, <2>3
<1>11. Shape(s) /\ Carries(s) /\ Earned(s) /\ s.scored = scored
  BY <1>8, <1>9 DEF Shape, Carries, Earned
<1>12. Submissions'
  <2>1. call' = [d \in Call |-> IF d = c THEN s ELSE Overlapped[d]]
    BY <1>10 DEF Overlapped
  <2>2. \A d \in Call : call'[d] # None =>
          /\ Shape(call'[d]) /\ Carries(call'[d]) /\ Earned(call'[d])
          /\ ~call'[d].overlapped => latest' = call'[d].scored
    BY <1>10, <1>11, <2>1, OverlappedKeeps DEF IInv
  <2> QED BY <1>10, <2>1, <2>2 DEF Submissions, Earned
<1>13. Recorded'
  BY <1>10 DEF IInv, Recorded, Earned
<1> QED BY <1>8, <1>10, <1>12, <1>13 DEF IInv

LEMMA AnsweredKeeps ==
  ASSUME IInv, NEW c \in Call, NEW hub \in Decision \cup {None}, Answered(c, hub)
  PROVE  IInv'
<1>1. /\ Shape(call[c]) /\ Carries(call[c]) /\ Earned(call[c])
      /\ ~call[c].overlapped => latest = call[c].scored
  BY DEF IInv, Submissions, Answered
<1>2. PICK r : r = RecordOf(call[c], hub)
  OBVIOUS
<1>3. /\ r.scored = call[c].scored /\ r.unlocked = call[c].unlocked
      /\ r.confidence = call[c].confidence /\ r.overlapped = call[c].overlapped
      /\ r.telemetry = latest /\ r.eligible = SampleEligible(call[c].confidence)
      /\ r.label = Label(call[c].confidence)
      /\ r.decision = IF hub = None THEN LocalDecision(call[c].confidence) ELSE hub
  BY <1>2 DEF RecordOf
<1>4. Carries(r) /\ Earned(r)
  BY <1>1, <1>3 DEF Carries, Earned
<1>5. /\ r.decision \in Decision /\ r.eligible \in BOOLEAN
      /\ r.label \in {"human_likely", "bot_likely", "unknown"}
  <2>1. LocalDecision(call[c].confidence) \in Decision
    BY DEF LocalDecision, Decision
  <2>2. Label(call[c].confidence) \in {"human_likely", "bot_likely", "unknown"}
    BY DEF Label
  <2>3. SampleEligible(call[c].confidence) \in BOOLEAN
    BY DEF SampleEligible, SampledFrom
  <2> QED BY <1>3, <2>1, <2>2, <2>3
<1>6. /\ records' = records \cup {r} /\ UNCHANGED <<entry, latest, requests>>
      /\ call' = [call EXCEPT ![c] = None]
  BY <1>2 DEF Answered
<1>7. Recorded'
  BY <1>1, <1>3, <1>4, <1>5, <1>6 DEF IInv, Recorded, Earned
<1>8. Submissions'
  <2>1. call' = [d \in Call |-> IF d = c THEN None ELSE call[d]]
    BY <1>6 DEF IInv, Submissions
  <2> QED BY <1>6, <2>1 DEF IInv, Submissions, Earned
<1> QED BY <1>6, <1>7, <1>8 DEF IInv

LEMMA StepKeeps ==
  ASSUME IInv, [Next]_vars
  PROVE  IInv'
<1>1. CASE UNCHANGED vars
  BY <1>1 DEF IInv, Submissions, Recorded, Earned, vars
<1>2. CASE Next
  BY <1>2, IngestKeeps, SubmitKeeps, AnsweredKeeps DEF Next
<1> QED BY <1>1, <1>2

-----------------------------------------------------------------------------
(* The theorems.                                                           *)

(* Submissions and records keep what their scores promise.                 *)
THEOREM InvariantHolds == Spec => []IInv
<1>1. Init => IInv
  BY Starts
<1>2. IInv /\ [Next]_vars => IInv'
  BY StepKeeps
<1> QED BY <1>1, <1>2, PTL DEF Spec

(* The state keeps its types, whatever clients report.                     *)
THEOREM TypesKept == Spec => []TypeOK
<1>1. IInv => TypeOK
  BY DEF IInv, Submissions, Recorded, Carries, TypeOK
<1> QED BY <1>1, InvariantHolds, PTL

(* Samples are taken from readers only (scoreNarrativeShadow,              *)
(* scorePressureShadow, finalizeShadowResult).                             *)
THEOREM SamplesAreEarned == Spec => []SampledIsEarned
<1>1. IInv => SampledIsEarned
  BY DEF IInv, Recorded, Earned, SampledIsEarned
<1> QED BY <1>1, InvariantHolds, PTL

(* No hit is blocked by the local score, for any window                    *)
(* (evaluatePressureUnlock, scorePressureShadow).                          *)
THEOREM HitsAreNotBlocked == Spec => []HitIsNeverBlocked
<1>1. IInv => HitIsNeverBlocked
  BY DEF IInv, Recorded, Earned, HitIsNeverBlocked
<1> QED BY <1>1, InvariantHolds, PTL

(* A record shows other telemetry than was scored only if another request  *)
(* came between (submitLabChallenge).                                      *)
THEOREM RecordsMixByOverlap == Spec => []MixedOnlyByOverlap
<1>1. IInv => MixedOnlyByOverlap
  BY DEF IInv, Recorded, MixedOnlyByOverlap
<1> QED BY <1>1, InvariantHolds, PTL
=============================================================================
