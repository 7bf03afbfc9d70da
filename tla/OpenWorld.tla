------------------------------- MODULE OpenWorld -------------------------------
(***************************************************************************)
(* A session of the open-world game (services/hide-sis-engine/src/         *)
(* openworld_engine.ts, openworld_llm.ts). An action is applied at once;   *)
(* its scene, and the ending of a session, come from a language model that *)
(* is awaited. Meanwhile other requests of the same session may act or     *)
(* finalise, and the await may throw. Sessions share nothing: one stands   *)
(* for all.                                                                *)
(***************************************************************************)
EXTENDS Scale, FiniteSetsExt

CONSTANTS
  Call,     \* slots for concurrent requests
  Input,    \* the actions that are tried
  Delta,    \* the score deltas the language model proposes
  Text,     \* endings it may write
  Under,    \* scores whose weighted sum, in doubles, falls short of an exact half
  MaxTicks  \* bound: actions applied

Location == {"hall", "archive", "rooftop", "garden", "corridor"}
Npc == {"picha", "baibua", "archivist", "witness"}
Core == {"picha", "baibua"}
Clue == 1..5

TimeBudget == 100
actionTimeCost(type) ==
  CASE type = "MOVE" -> 12 [] type = "INTERROGATE" -> 14 [] type = "SEARCH" -> 10
    [] type = "USE_CLUE" -> 16 [] type = "LIE" -> 8 [] type = "ALLY" -> 12
    [] type = "REST" -> 9

(* The clues, in the order in which they are found.                        *)
TruthValue == <<14, 12, 16, 18, 20>>
PollutionRisk == <<1, 0, 1, 0, 1>>

(* An action; what it does not need is None.                               *)
Action ==
  [type : {"MOVE", "INTERROGATE", "SEARCH", "USE_CLUE", "LIE", "ALLY", "REST"},
   target : Location \cup Npc \cup {None}, clue : Clue \cup {None}]

ASSUME InputAssumption ==
  /\ Input \subseteq Action
  /\ \A a \in Input :
       /\ a.type = "MOVE" => a.target \in Location
       /\ a.type \in {"INTERROGATE", "USE_CLUE", "LIE", "ALLY"} => a.target \in Npc
       /\ a.type = "USE_CLUE" => a.clue \in Clue
ASSUME DeltaAssumption ==
  Delta \subseteq [truth : Int, purity : Int, relation : Int, humanity : Int]
ASSUME BoundAssumption == MaxTicks \in Nat

-----------------------------------------------------------------------------
VARIABLES
  play,       \* what actions change: the world, the player and the counters
  finalized,  \* the final payload, or None; the session is completed with it
  call,       \* requests in progress
  thrown      \* history: a request was lost to a language model that threw
              \* when all the time was used up

vars == <<play, finalized, call, thrown>>

(* truth is counted in halves; confirmed: the core testimony was proven in *)
(* time. count is how often each kind of action was taken.                 *)
Play(count) ==
  [ticks : Nat, time : 0..TimeBudget, location : Location,
   relation : [Npc -> -3..3], pollution : 0..12, truth : 0..240, found : 0..5,
   heat : 0..120, dignity : 0..100, usedOn : SUBSET Npc, confirmed : BOOLEAN,
   lies : Nat, allies : Nat, rests : Nat, count : {count}]

Score == [truth : 0..100, purity : 0..100, relation : 0..100, humanity : 0..100]
Weighed(score) ==
  35 * score.truth + 25 * score.purity + 20 * score.relation + 20 * score.humanity
ASSUME UnderAssumption ==
  \A score \in Under : score \in Score /\ Weighed(score) % 100 = 50

Payload == [score : Score, grade : 1..5, text : Text \cup {None}]
Request == [stage : {"scene", "ending"}, score : Score \cup {None}]

ASSUME NoneAssumption == None \notin Npc \cup Payload \cup Request

buildPlayerState ==
  [ticks |-> 0, time |-> 0, location |-> "hall",
   relation |-> [n \in Npc |-> IF n = "picha" THEN 1 ELSE 0],
   pollution |-> 0, truth |-> 0, found |-> 0, heat |-> 0, dignity |-> 70,
   usedOn |-> {}, confirmed |-> FALSE, lies |-> 0, allies |-> 0, rests |-> 0,
   count |-> [key \in {} |-> 0]]

Init ==
  /\ play = buildPlayerState
  /\ finalized = None
  /\ call = [c \in Call |-> None]
  /\ thrown = FALSE

-----------------------------------------------------------------------------
(* Phases, novelty and gates.                                              *)

phaseOf(time) ==
  IF time < 40 THEN "INVESTIGATION" ELSE IF time < 75 THEN "CORROBORATION" ELSE "RESOLUTION"

(* buildActionKey: a search is told apart by where it is made.             *)
KeyOf(p, a) == IF a.type = "SEARCH" THEN [a EXCEPT !.target = p.location] ELSE a

Repeats(p, a) == IF KeyOf(p, a) \in DOMAIN p.count THEN p.count[KeyOf(p, a)] ELSE 0

(* 1 / (1 + 0.6 repeats) of a value.                                       *)
WithNovelty(p, a, value) == Rounded(5 * value, 5 + 3 * Repeats(p, a))

Known(p, a) == a.clue \in 1..p.found
Reveals(p, a) ==
  \/ a.type = "SEARCH" /\ p.found < 5
  \/ a.type = "INTERROGATE"
  \/ a.type = "USE_CLUE" /\ Known(p, a)

Proposed(p, a) ==
  CASE a.type = "SEARCH" -> WithNovelty(p, a, TruthValue[p.found + 1])
    [] a.type = "INTERROGATE" -> WithNovelty(p, a, IF p.relation[a.target] >= 1 THEN 8 ELSE 5)
    [] a.type = "USE_CLUE" -> Rounded(11 * TruthValue[a.clue], 4 * (5 + 3 * Repeats(p, a)))

(* The action that proves the core testimony in the last phase.            *)
ConfirmsUnproven(p, a) ==
  phaseOf(p.time) = "RESOLUTION" /\ a.type = "INTERROGATE" /\ a.target \in Core
Confirms(p, a) ==
  /\ phaseOf(p.time) = "RESOLUTION"
  /\ a.type = "INTERROGATE" /\ a.target \in Core \cap p.usedOn

(* truthGainAfterPhaseGate, in halves; p is after the time was spent.      *)
Gained(p, a, proposed) ==
  CASE phaseOf(p.time) = "INVESTIGATION" -> 2 * proposed
    [] phaseOf(p.time) = "CORROBORATION" ->
         IF a.type = "SEARCH" THEN proposed
         ELSE IF a.type = "INTERROGATE" /\ a.target \notin p.usedOn /\ proposed > 2 THEN 4
         ELSE 2 * proposed
    [] phaseOf(p.time) = "RESOLUTION" -> IF Confirms(p, a) THEN 2 * proposed ELSE 0

RelationDelta(p, a) ==
  CASE a.type = "INTERROGATE" -> IF p.relation[a.target] >= 0 THEN 1 ELSE -1
    [] a.type = "USE_CLUE" -> IF Known(p, a) THEN 1 ELSE 0
    [] a.type = "LIE" -> -1
    [] a.type = "ALLY" -> IF p.relation[a.target] >= 0 THEN 1 ELSE 0
    [] OTHER -> 0

PollutionDelta(p, a) ==
  CASE a.type = "SEARCH" /\ p.found < 5 -> PollutionRisk[p.found + 1]
    [] a.type = "USE_CLUE" /\ Known(p, a) -> -1
    [] a.type = "LIE" -> 2
    [] a.type = "ALLY" -> -RelationDelta(p, a)
    [] a.type = "REST" -> -1
    [] OTHER -> 0

HeatDelta(p, a) ==
  CASE a.type \in {"MOVE", "SEARCH"} -> 2
    [] a.type \in {"INTERROGATE", "LIE"} -> 4
    [] a.type = "USE_CLUE" -> IF Known(p, a) THEN 1 ELSE 0
    [] a.type = "ALLY" -> 1
    [] a.type = "REST" -> -10

CountedAfresh(p, a) ==
  [key \in DOMAIN p.count \cup {KeyOf(p, a)} |->
     IF key = KeyOf(p, a) THEN 1 ELSE p.count[key]]
Counted(p, a) ==
  [key \in DOMAIN p.count \cup {KeyOf(p, a)} |->
     IF key = KeyOf(p, a) THEN Repeats(p, a) + 1 ELSE p.count[key]]

Tally(n, condition) == IF condition THEN n + 1 ELSE n

(* applyAction. A clue is marked as used before the gate is asked.         *)
Spent(p, a) ==
  [p EXCEPT !.ticks = @ + 1,
            !.time = Clamp(@ + actionTimeCost(a.type), 0, TimeBudget),
            !.usedOn = IF a.type = "USE_CLUE" /\ Known(p, a) THEN @ \cup {a.target} ELSE @]

Moved(relation, n, by) == [relation EXCEPT ![n] = Clamp(@ + by, -3, 3)]

After(p, a) ==
  LET spent == Spent(p, a)
      gained == IF Reveals(p, a) THEN Gained(spent, a, Proposed(p, a)) ELSE 0
      by == RelationDelta(p, a)
  IN [spent EXCEPT
        !.location = IF a.type = "MOVE" THEN a.target ELSE @,
        !.relation = IF a.target \in Npc THEN Moved(@, a.target, by) ELSE @,
        !.truth = Clamp(@ + gained, 0, 240),
        !.pollution = Clamp(@ + PollutionDelta(p, a), 0, 12),
        !.heat = Clamp(@ + HeatDelta(p, a), 0, 120),
        !.found = IF a.type = "SEARCH" THEN Clamp(@ + 1, 0, 5) ELSE @,
        !.confirmed = @ \/ (Reveals(p, a) /\ Confirms(spent, a)),
        !.dignity = Clamp(@ + by, 0, 100),
        !.lies = Tally(@, a.type = "LIE"),
        !.allies = Tally(@, a.type = "ALLY"),
        !.rests = Tally(@, a.type = "REST"),
        !.count = Counted(p, a)]

-----------------------------------------------------------------------------
(* Scores (computeScore).                                                  *)

Penalty(condition, points) == IF condition THEN points ELSE 0
LoweredFreely(score, penalty) == score - penalty
Lowered(score, penalty) == Clamp(score - penalty, 0, 100)

TruthScore(p) ==
  LET known == Clamp(Rounded(p.truth, 2), 0, 100)
      corroborated == Lowered(known, Penalty(p.usedOn = {}, 12))
      proven == Lowered(corroborated, Penalty(p.usedOn \cap Core = {}, 16))
  IN Lowered(proven, Penalty(~p.confirmed, 20))

relationToScore(value) == Rounded(100 * (value + 3), 6)

RelationScore(p) ==
  LET score(n) == relationToScore(p.relation[n])
      core == score("picha") + score("baibua")
      others == score("archivist") + score("witness")
  IN Clamp(Rounded(8 * core + 2 * others, 20), 0, 100)

Above(x, limit) == IF x > limit THEN x - limit ELSE 0

HumanityScore(p) ==
  LET tenths == 560 + 60 * p.allies + 30 * p.rests - 110 * p.lies
                - 6 * Above(p.heat, 65) - 30 * Above(p.pollution, 4)
  IN IF tenths <= 0 THEN 0 ELSE Clamp(Rounded(tenths, 10), 0, 100)

computeScore(p) ==
  [truth |-> TruthScore(p),
   purity |-> 100 - Clamp(11 * p.pollution, 0, 100),
   relation |-> Lowered(RelationScore(p), Penalty(p.heat >= 85, 10)),
   humanity |-> Lowered(HumanityScore(p), Penalty(p.heat >= 85, 8))]

(* Math.round of a sum of doubles: an exact half is rounded up, unless the *)
(* sum falls short of it.                                                  *)
Composite(score) == Rounded(Weighed(score), 100) - (IF score \in Under THEN 1 ELSE 0)

(* Grades D, C, B, A and S as 1 to 5.                                      *)
gradeOf ==
  [composite \in 0..100 |->
     IF composite >= 88 THEN 5 ELSE IF composite >= 78 THEN 4
     ELSE IF composite >= 66 THEN 3 ELSE IF composite >= 52 THEN 2 ELSE 1]
Grade(score) == gradeOf[Composite(score)]

Abs(x) == IF x < 0 THEN -x ELSE x

(* Math.round of a / b also for negative a: halves go up.                  *)
RoundedSigned(a, b) == IF a >= 0 THEN Rounded(a, b) ELSE -((2 * (-a) + b - 1) \div (2 * b))

(* normalizeScoreDelta: three points each, scaled down beyond six in all.  *)
NoDelta == [truth |-> 0, purity |-> 0, relation |-> 0, humanity |-> 0]
UnboundedDelta == [raw \in Delta \cup {NoDelta} |-> raw]
normalizeScoreDelta ==
  [raw \in Delta \cup {NoDelta} |->
     LET Cut(x) == Clamp(x, -3, 3)
         total == Abs(Cut(raw.truth)) + Abs(Cut(raw.purity)) + Abs(Cut(raw.relation))
                  + Abs(Cut(raw.humanity))
         Share(x) == IF total <= 6 THEN Cut(x) ELSE RoundedSigned(6 * Cut(x), total)
     IN [truth |-> Share(raw.truth), purity |-> Share(raw.purity),
         relation |-> Share(raw.relation), humanity |-> Share(raw.humanity)]]

(* applyLlmAdjustment: the engine's score stands if the grade would move   *)
(* by more than one.                                                       *)
Adjusted(score, raw) ==
  LET delta == normalizeScoreDelta[raw]
      Move(x, by) == Clamp(x + by, 0, 100)
      moved == [truth |-> Move(score.truth, delta.truth),
                purity |-> Move(score.purity, delta.purity),
                relation |-> Move(score.relation, delta.relation),
                humanity |-> Move(score.humanity, delta.humanity)]
  IN IF Abs(Grade(moved) - Grade(score)) > 1 THEN score ELSE moved

-----------------------------------------------------------------------------
(* Requests.                                                               *)

Continue(c, r) == call' = [call EXCEPT ![c] = r]
End(c) == call' = [call EXCEPT ![c] = None]

(* applyOpenWorldAction: the action takes effect before the scene is       *)
(* awaited. A completed session is only shown: no step.                    *)
Act(c, a) ==
  /\ call[c] = None /\ finalized = None
  /\ play.ticks < MaxTicks
  /\ play' = After(play, a)
  /\ Continue(c, [stage |-> "scene", score |-> None])
  /\ UNCHANGED <<finalized, thrown>>

(* finalizeSession up to its await: the score is taken now. A session that *)
(* has its final payload keeps it.                                         *)
BeginEndingAgain(c) == Continue(c, [stage |-> "ending", score |-> computeScore(play)])
BeginEnding(c) ==
  IF finalized # None THEN End(c)
  ELSE Continue(c, [stage |-> "ending", score |-> computeScore(play)])

(* The scene has come, the model's or the fallback's. Time is read again:  *)
(* another request may have used it up.                                    *)
Overspent == play.time > TimeBudget
Exhausted == play.time >= TimeBudget

SceneArrives(c) ==
  /\ call[c] # None /\ call[c].stage = "scene"
  /\ IF Exhausted THEN BeginEnding(c) ELSE End(c)
  /\ UNCHANGED <<play, finalized, thrown>>

Finalize(c) ==
  /\ call[c] = None
  /\ BeginEnding(c)
  /\ UNCHANGED <<play, finalized, thrown>>

(* The ending has come: the session is final, whatever it was by now.      *)
EndingArrives(c, text, raw) ==
  /\ call[c] # None /\ call[c].stage = "ending"
  /\ \E score \in {Adjusted(call[c].score, raw)} :
       finalized' = [score |-> score, grade |-> Grade(score), text |-> text]
  /\ End(c)
  /\ UNCHANGED <<play, thrown>>

(* fallbackEnding: no key, an answer that is not usable; no delta.         *)
FallbackEnding(c) == EndingArrives(c, None, NoDelta)

(* The call of the language model throws, and the request with it.         *)
ModelThrows(c) ==
  /\ call[c] # None
  /\ End(c)
  /\ thrown' = (thrown \/ Exhausted)
  /\ UNCHANGED <<play, finalized>>

Settles(c) ==
  SceneArrives(c) \/ FallbackEnding(c) \/ ModelThrows(c)
  \/ \E text \in Text, raw \in Delta : EndingArrives(c, text, raw)

Next ==
  \E c \in Call :
    \/ \E a \in Input : Act(c, a)
    \/ Finalize(c) \/ Settles(c)

Spec == Init /\ [][Next]_vars

-----------------------------------------------------------------------------
(* Properties.                                                             *)

(* Types. A request that awaits its ending brings the score it will have.  *)
TypeOK ==
  /\ play \in Play(play.count)
  /\ DOMAIN play.count \subseteq [type : {a.type : a \in Input},
                                  target : Location \cup Npc \cup {None},
                                  clue : Clue \cup {None}]
  /\ \A key \in DOMAIN play.count : play.count[key] \in 1..play.ticks
  /\ finalized \in Payload \cup {None}
  /\ call \in [Call -> Request \cup {None}]
  /\ \A c \in Call : call[c] # None /\ call[c].stage = "ending" => call[c].score \in Score
  /\ thrown \in BOOLEAN

(* The novelty discount sees every action: each counts once, under one key *)
(* (buildActionKey, registerAction).                                       *)
TicksAreCounted ==
  play.ticks = MapThenSumSet(LAMBDA key : play.count[key], DOMAIN play.count)

(* Whatever it proposes, the language model moves the composite score by   *)
(* no more than three points, two that it weighs and one of rounding, and  *)
(* the grade by no more than one: what is told is close to what the engine *)
(* computed (normalizeScoreDelta, applyLlmAdjustment).                     *)
ModelMovesLittle ==
  \A c \in Call : call[c] # None /\ call[c].stage = "ending" =>
    \A raw \in Delta :
      LET adjusted == Adjusted(call[c].score, raw) IN
      /\ Abs(Composite(adjusted) - Composite(call[c].score)) <= 3
      /\ Abs(Grade(adjusted) - Grade(call[c].score)) <= 1

(* Late in the game the truth score is stuck (RULEBOOK) unless a clue is   *)
(* held against a core witness, then or earlier, when his testimony is     *)
(* confirmed by it. What else raises it is the first clue shown to anyone, *)
(* by the twelve points that were withheld for showing none: neither       *)
(* searching, asking again nor a second clue helps (truthGainAfterPhaseGate*)
(* and the penalties of computeScore).                                     *)
LateTruthNeedsCore ==
  [][phaseOf(play.time) = "RESOLUTION" /\ TruthScore(play') > TruthScore(play)
       => \/ play'.confirmed /\ play'.usedOn \cap Core # {}
          \/ play'.usedOn \cap Core # play.usedOn \cap Core
          \/ /\ play.usedOn = {} /\ play'.usedOn # {}
             /\ TruthScore(play') <= TruthScore(play) + 12]_vars

(* A settled session is not played on, and no further ending is asked of   *)
(* the model: only endings that were awaited already, of overlapping       *)
(* requests, may still replace the final payload (finalizeSession,         *)
(* applyOpenWorldAction).                                                  *)
AwaitingEnding == {c \in Call : call[c] # None /\ call[c].stage = "ending"}
SettledIsFinal ==
  [][finalized # None =>
       /\ play' = play
       /\ AwaitingEnding' \subseteq AwaitingEnding
       /\ AwaitingEnding = {} => finalized' = finalized]_vars

(* Time that is used up settles the session, whichever of the overlapping  *)
(* requests used it up and in whatever order the scenes come, unless the   *)
(* language model threw after that: then the session stays open and can be *)
(* played on (RULEBOOK: every action costs time, and when it is used up    *)
(* the session is settled).                                                *)
ExhaustedIsSettled ==
  play.time = TimeBudget /\ (\A c \in Call : call[c] = None) => finalized # None \/ thrown
=============================================================================
