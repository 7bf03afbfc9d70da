----------------------------- MODULE HideSisReplay -----------------------------
(***************************************************************************)
(* Replaying a session from its events                                     *)
(* (services/hide-sis-engine/src/state_machine.ts). Replay sees what the   *)
(* events tell: it knows neither the bounds of relation nor the dignity on *)
(* the way, keeps pollution and the unlocked truth once seen, and takes    *)
(* any turn at the reveal gate for a pass.                                 *)
(***************************************************************************)
EXTENDS HideSisSession

ReplayStart(dignity) ==
  [dignity |-> dignity, relation |-> 0, polluted |-> FALSE, reveal |-> FALSE,
   unlocked |-> FALSE, ending |-> None, finalized |-> FALSE, decisions |-> <<>>]

SeenAddingUp(state, e) ==
  CASE e.kind = "turn" ->
         [state EXCEPT !.relation = @ + e.relation,
                       !.polluted = @ \/ e.polluted,
                       !.reveal = @ \/ e.node = 23]
    [] e.kind = "decision" -> [state EXCEPT !.decisions = Append(@, e.code)]
    [] e.kind = "finalize" ->
         [state EXCEPT !.ending = e.ending, !.finalized = TRUE, !.dignity = e.dignity,
                       !.relation = e.relation, !.unlocked = e.unlocked]
Seen(state, e) ==
  CASE e.kind = "turn" ->
         [state EXCEPT !.relation = @ + e.relation,
                       !.polluted = @ \/ e.polluted,
                       !.reveal = @ \/ e.node = 23]
    [] e.kind = "decision" ->
         [state EXCEPT !.decisions = Append(@, e.code),
                       !.relation = e.relation,
                       !.reveal = @ \/ e.node = 23]
    [] e.kind = "finalize" ->
         [state EXCEPT !.ending = e.ending, !.finalized = TRUE, !.dignity = e.dignity,
                       !.relation = e.relation, !.unlocked = e.unlocked,
                       !.polluted = @ \/ e.framed]

Step(state, e) ==
  LET seen == Seen(state, e) IN
  [seen EXCEPT !.unlocked = @ \/ (/\ seen.dignity >= 70 /\ seen.relation >= 0
                                  /\ ~seen.polluted /\ seen.reveal)]

(* Without a final event the ending is guessed from the last decision.     *)
Guessed(state) ==
  LET last == state.decisions[Len(state.decisions)]
      decision == IF last \in EndDecision THEN last ELSE "double_play"
  IN IF /\ decision = "bury_truth" /\ state.dignity >= 70
        /\ state.relation >= 2 /\ ~state.polluted
     THEN "silk_burial"
     ELSE IF state.polluted \/ state.relation <= 0 THEN "framed" ELSE "broken_oath"

(* What is shown before the first event and after each.                    *)
Showing(dignity, history) ==
  LET shown[n \in 0..Len(history)] ==
        IF n = 0 THEN ReplayStart(dignity) ELSE Step(shown[n - 1], history[n])
  IN shown

replaySession(dignity, history) ==
  LET state == Showing(dignity, history)[Len(history)] IN
  IF state.ending = None /\ state.decisions # <<>>
  THEN [state EXCEPT !.ending = Guessed(state)] ELSE state

Replayed == replaySession(StartDignity(session.mode), events)

(* A replay never paints a session better than it is: pollution that       *)
(* counts, the passed gate and unlocked truth all show, and the ending it  *)
(* guesses before the session is final is never above the one due. Once    *)
(* the final decision is taken it knows the relation, although it adds up  *)
(* deltas that the session clamps: the decision events put it right. Of a  *)
(* finished session it tells ending, dignity and unlocked truth.           *)
ReplayNeverFlatters ==
  /\ Polluted(session) => Replayed.polluted
  /\ session.reveal => Replayed.reveal
  /\ session.decision # None => Replayed.relation = session.relation
  /\ session.decision # None => Worth(Replayed.ending) <= Worth(EndingOf(session))
  /\ session.completed =>
       /\ Replayed.ending = session.ending
       /\ Replayed.dignity = session.dignity
       /\ session.unlocked => Replayed.unlocked
=============================================================================
