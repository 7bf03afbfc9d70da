---------------------------- MODULE HideSisSession ----------------------------
(***************************************************************************)
(* A session of the story game (services/hide-sis-engine/src/              *)
(* session_store.ts, packages/universal-shield-sdk/src/hide_sis_types.ts). *)
(* Ten nodes in three chapters are walked in one order; a turn is quoted   *)
(* from the chapter's budget, moves relation, dignity and pollution, and   *)
(* is recorded as an event, with a decision event where the choice is one. *)
(* Sessions share nothing and each call is synchronous, so one session     *)
(* stands for all. The last node has no successor and can be played again. *)
(* The specification is StorySpec, so that a module can extend both this   *)
(* one and OpenWorld.                                                      *)
(***************************************************************************)
EXTENDS Scale, Sequences

CONSTANT MaxEvents  \* bound: events of a session, for the turns at the last node

ASSUME EventsAssumption == MaxEvents \in Nat

Mode == {"verified", "guest", "bot_suspected"}
Node == {11, 12, 13, 21, 22, 23, 24, 31, 32, 33}
Chapter == 1..3
Decision == {"pact_commit", "pact_delay", "pact_backdoor",
             "bury_truth", "disclose", "double_play"}
EndDecision == {"bury_truth", "disclose", "double_play"}
Ending == {"silk_burial", "broken_oath", "framed"}

ASSUME StoryNoneAssumption == None \notin Decision \cup Ending

ChapterOf(node) == node \div 10

nodeFlowPastPact(node) ==
  CASE node = 13 -> 21 [] node = 23 -> 31 [] node = 33 -> 33 [] OTHER -> node + 1
nodeFlow(node) ==
  CASE node = 13 -> 21 [] node = 24 -> 31 [] node = 33 -> 33 [] OTHER -> node + 1

-----------------------------------------------------------------------------
(* The story: what each choice does, by node and number.                   *)

Choice == [relation : -1..1, risk : BOOLEAN, dignity : -3..4,
           code : Decision \cup {None}, reveal : BOOLEAN]

Safe(relation) == [relation |-> relation, risk |-> FALSE, dignity |-> 0,
                   code |-> None, reveal |-> FALSE]
Risky(relation) == [Safe(relation) EXCEPT !.risk = TRUE]
Decides(choice, code) == [choice EXCEPT !.code = code]
Earns(choice, dignity) == [choice EXCEPT !.dignity = dignity]
Revealing(choice) == [choice EXCEPT !.reveal = TRUE]

SealingAtARisk == Risky(0)
Sealing == Safe(0)

story(node) ==
  CASE node = 11 -> <<Risky(-1), Safe(1), Safe(0)>>
    [] node = 12 -> <<Earns(Safe(1), 4), Earns(Risky(-1), -3)>>
    [] node = 13 -> <<Safe(0), Risky(-1), Safe(1)>>
    [] node = 21 -> <<Safe(1), Safe(0), Risky(-1)>>
    [] node = 22 -> <<Earns(Safe(0), 3), Earns(Safe(0), 4), Earns(Safe(0), 3)>>
    [] node = 23 -> <<Revealing(Safe(1)), Risky(-1), Revealing(Safe(0))>>
    [] node = 24 -> <<Decides(Safe(1), "pact_commit"), Decides(Safe(0), "pact_delay"),
                      Decides(Risky(-1), "pact_backdoor")>>
    [] node = 31 -> <<Safe(1), Risky(0), Risky(-1)>>
    [] node = 32 -> <<Decides(Safe(1), "bury_truth"), Decides(Safe(-1), "disclose"),
                      Decides(Risky(-1), "double_play")>>
    [] node = 33 -> <<Sealing>>

Interrogative(node) == node \notin {24, 32, 33}

-----------------------------------------------------------------------------
VARIABLES
  session,
  events   \* turn, decision and final events, in the order they are recorded

storyVars == <<session, events>>

FullBudget == 10000  \* of a chapter, in basis points

Session == [mode : Mode, dignity : 0..100, relation : -3..3, pollution : 0..3,
            reveal : BOOLEAN, unlocked : BOOLEAN, node : Node, completed : BOOLEAN,
            decision : EndDecision \cup {None}, ending : Ending \cup {None},
            budget : [Chapter -> 0..FullBudget], attempts : [Node -> Nat],
            footprints : SUBSET (1..3)]

Turn == [kind : {"turn"}, node : Node, choice : 1..3, relation : -1..1, polluted : BOOLEAN]
Decided == [kind : {"decision"}, node : Node, code : Decision, relation : -3..3]
Finalized == [kind : {"finalize"}, ending : Ending, dignity : 0..100, relation : -3..3,
              unlocked : BOOLEAN, framed : BOOLEAN]

StartDignity(mode) ==
  CASE mode = "verified" -> 72 [] mode = "guest" -> 50 [] mode = "bot_suspected" -> 20

Started(mode) ==
  [mode |-> mode, dignity |-> StartDignity(mode), relation |-> 0, pollution |-> 0,
   reveal |-> FALSE, unlocked |-> FALSE, node |-> 11, completed |-> FALSE,
   decision |-> None, ending |-> None, budget |-> [c \in Chapter |-> FullBudget],
   attempts |-> [n \in Node |-> 0], footprints |-> {}]

StoryInit ==
  /\ \E mode \in Mode : session = Started(mode)
  /\ events = <<>>

-----------------------------------------------------------------------------
(* Quotes (quoteNode): the cost in basis points of the chapter's budget.   *)

(* 650 times the heat of the chapter (1, 1.2, 1.45), of a dignity below    *)
(* 100 and of repeated attempts (1.45 each), and 1.35 of that.             *)
Heat(chapter) == CASE chapter = 1 -> 20 [] chapter = 2 -> 24 [] chapter = 3 -> 29

(* The exact halves at which the product of doubles rounds down.           *)
FallsShort(chapter, dignity, attempts) ==
  chapter = 1 /\ <<dignity, attempts>> \in {<<79, 1>>, <<44, 2>>}

RawCost(chapter, dignity, attempts) ==
  Rounded(650 * Heat(chapter) * (240 - dignity) * 29 ^ (attempts - 1),
          20 * 140 * 20 ^ (attempts - 1))
  - (IF FallsShort(chapter, dignity, attempts) THEN 1 ELSE 0)

Cost(s) ==
  IF Interrogative(s.node)
  THEN LET raw == RawCost(ChapterOf(s.node), s.dignity, 1 + s.attempts[s.node]) IN
       Clamp(Rounded(27 * raw, 20), 300, 7500)
  ELSE 200

LeftAfterOfOneBudget(s) == s.budget[1] + s.budget[2] + s.budget[3] - 2 * FullBudget - Cost(s)
LeftAfter(s) == s.budget[ChapterOf(s.node)] - Cost(s)
Blocked(s) == Interrogative(s.node) /\ LeftAfter(s) <= 0

-----------------------------------------------------------------------------
(* Gates and endings (hide_sis_types.ts).                                  *)

Polluted(s) == s.pollution >= 2

TruthUnlocked(s) == s.dignity >= 70 /\ s.relation >= 0 /\ ~Polluted(s) /\ s.reveal

StableIgnoringDignity(s) == s.decision = "bury_truth" /\ s.relation >= 2 /\ ~Polluted(s)
Stable(s) ==
  s.decision = "bury_truth" /\ s.dignity >= 70 /\ s.relation >= 2 /\ ~Polluted(s)

EndingOf(s) ==
  IF Stable(s) THEN "silk_burial"
  ELSE IF Polluted(s) \/ s.relation <= 0 THEN "framed" ELSE "broken_oath"

-----------------------------------------------------------------------------
(* A turn (commitTurn).                                                    *)

(* A footprint of node 22 counts once.                                     *)
DignityGained(s, choice, c) ==
  IF s.node = 22 /\ choice \in s.footprints THEN 0 ELSE c.dignity

Strong(c) == c.reveal \/ c.code \in {"pact_commit", "bury_truth"}
Restores(c, gained) == ~c.risk /\ (c.relation >= 0 \/ gained > 0 \/ Strong(c))

computePollutionDelta(blocked, c, gained) ==
  (IF blocked THEN 2 ELSE 0) + (IF c.risk THEN 1 ELSE 0)
  - (IF ~Restores(c, gained) THEN 0 ELSE IF Strong(c) THEN 3 ELSE 1)

EventPollutedStrictly(delta) == delta > 1
EventPolluted(delta) == delta > 0

Played(s, choice) ==
  LET c == story(s.node)[choice]
      gained == DignityGained(s, choice, c)
      delta == computePollutionDelta(Blocked(s), c, gained)
  IN [s EXCEPT
        !.attempts[s.node] = @ + 1,
        !.budget[ChapterOf(s.node)] = Clamp(LeftAfter(s), 0, FullBudget),
        !.relation = Clamp(@ + c.relation, -3, 3),
        !.footprints = IF s.node = 22 THEN @ \cup {choice} ELSE @,
        !.dignity = Clamp(@ + gained, 0, 100),
        !.pollution = Clamp(@ + delta, 0, 3),
        !.reveal = @ \/ c.reveal \/ (s.node = 23 /\ choice = 2 /\ s.relation >= 3),
        !.decision = IF c.code \in EndDecision THEN c.code ELSE @]

Committed(s, choice) ==
  LET played == Played(s, choice)
  IN [played EXCEPT !.unlocked = TruthUnlocked(played), !.node = nodeFlow(s.node)]

EventsOf(s, choice) ==
  LET c == story(s.node)[choice]
      delta == computePollutionDelta(Blocked(s), c, DignityGained(s, choice, c))
      turn == [kind |-> "turn", node |-> s.node, choice |-> choice,
               relation |-> c.relation, polluted |-> EventPolluted(delta)]
      decided == [kind |-> "decision", node |-> s.node, code |-> c.code,
                  relation |-> Committed(s, choice).relation]
  IN IF c.code = None THEN <<turn>> ELSE <<turn, decided>>

CommitTurn(choice) ==
  /\ ~session.completed
  /\ choice \in DOMAIN story(session.node)
  /\ Len(events) < MaxEvents
  /\ session' = Committed(session, choice)
  /\ events' = events \o EventsOf(session, choice)

(* finalizeSession; on a completed session it only repeats its answer.     *)
Ended(s) == [s EXCEPT !.ending = EndingOf(s), !.unlocked = TruthUnlocked(s), !.completed = TRUE]

FinalizeAgain ==
  /\ session.decision # None
  /\ session' = Ended(session)
  /\ events' = Append(events,
       [kind |-> "finalize", ending |-> EndingOf(session), dignity |-> session.dignity,
        relation |-> session.relation, unlocked |-> TruthUnlocked(session),
        framed |-> EndingOf(session) = "framed"])
FinalizeSession == ~session.completed /\ FinalizeAgain

StoryNext == (\E choice \in 1..3 : CommitTurn(choice)) \/ FinalizeSession

StorySpec == StoryInit /\ [][StoryNext]_storyVars

-----------------------------------------------------------------------------
(* Properties.                                                             *)

(* Types, with the walk: every node behind the player was played once, a   *)
(* later one never; the final decision is taken exactly when the last node *)
(* is reached, which is when the page may offer to finalise.               *)
StoryTypeOK ==
  /\ session \in Session
  /\ events \in Seq(Turn \cup Decided \cup Finalized)
  /\ \A n \in Node \ {33} : session.attempts[n] = IF n < session.node THEN 1 ELSE 0
  /\ session.decision # None <=> session.node = 33

(* No quote is ever blocked: chapters have budgets of their own and no     *)
(* interrogation is repeated, so that pressure alone never pollutes        *)
(* (quoteNode, computePollutionDelta).                                     *)
NeverBlocked == ~Blocked(session)

(* Whether dignity allows the true ending is settled by the mode a session *)
(* starts in: when the final decision is taken every verified player       *)
(* passes that gate and nobody else does, whatever was played.             *)
DignityGateFollowsMode ==
  /\ session.decision # None => (session.dignity >= 70 <=> session.mode = "verified")
  /\ session.ending = "silk_burial" => session.mode = "verified"

(* Once the final decision is taken no further turn, of which there is no  *)
(* limit, makes the ending worse; it is sealed by finalising.              *)
Worth(ending) ==
  CASE ending = "framed" -> 0 [] ending = "broken_oath" -> 1 [] ending = "silk_burial" -> 2
EndingOnlyImproves ==
  [][/\ session.decision # None =>
          /\ session'.decision = session.decision
          /\ Worth(EndingOf(session')) >= Worth(EndingOf(session))
     /\ session.completed => UNCHANGED storyVars]_storyVars
=============================================================================
