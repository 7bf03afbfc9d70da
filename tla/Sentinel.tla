-------------------------------- MODULE Sentinel --------------------------------
(***************************************************************************)
(* The sentinel (crates/sentinel/src/main.rs) and what it watches and      *)
(* governs: one task subscribes to the logs of the program and queues the  *)
(* preview events, the other judges them one by one, asks the agent and    *)
(* writes a patched model hash to the program. The program accepts a       *)
(* preview only for the active hash, and the oracle signs only for the     *)
(* baseline: a patch silences the feed it came from.                       *)
(*                                                                         *)
(* Time is kept as ages, each capped one above the limit it is held        *)
(* against.                                                                *)
(***************************************************************************)
EXTENDS Integers, Sequences

CONSTANTS
  Sig,         \* transaction signatures
  Window,      \* window_secs
  DedupeTtl,   \* dedupe_ttl_secs
  MinSamples,  \* min_samples_for_growth
  MinInterval, \* min_action_interval_secs
  Capacity,    \* event_channel_capacity
  RigEnabled,  \* whether the agent is asked
  None

(* The shipped configuration forgets a signature later than its sample.    *)
ASSUME ConfigAssumption ==
  /\ Window \in Nat /\ DedupeTtl \in Nat /\ DedupeTtl >= Window
  /\ MinSamples \in Nat /\ MinInterval \in Nat /\ Capacity \in Nat \ {0}
  /\ RigEnabled \in BOOLEAN
ASSUME NoneAssumption == None \notin Nat /\ None \notin Sig

VARIABLES
  patched,  \* the program's active hash is one of the sentinel's
  wire,     \* notifications the node still has to deliver, per transaction
  link,     \* whether the subscription is up
  held,     \* the event the subscriber is queueing
  channel,  \* the queue
  seen,     \* SignatureDedupe: age of each known signature
  window,   \* SlidingWindow, oldest first
  alert,    \* what the detection loop is busy with, or None
  cooldown, \* age of last_success_action_at
  loose,    \* a transaction was given up on and may still land
  landing   \* history: age of the loop's last landing, and whether it was
            \* confirmed to this process

vars == <<patched, wire, link, held, channel, seen, window, alert, cooldown, loose, landing>>
subscriber == <<wire, link, held>>
detector == <<seen, window>>

Tier == {"observe", "mild", "severe"}
Sample == [sig : Sig, age : 0..(Window + 1)]
Alert == [tier : {"mild", "severe"}, stage : {"deciding", "sending", "landed"}]

Init ==
  /\ patched = FALSE
  /\ wire = [s \in Sig |-> 0] /\ link = TRUE /\ held = None
  /\ channel = <<>>
  /\ seen = [s \in Sig |-> None] /\ window = <<>>
  /\ alert = None /\ cooldown = MinInterval
  /\ loose = FALSE /\ landing = [age |-> MinInterval, confirmed |-> FALSE]

-----------------------------------------------------------------------------
(* The feed.                                                               *)

(* preview_price requires the payload's hash to be the active one; the     *)
(* payloads of the oracle carry the baseline.                              *)
AcceptedAlways == TRUE
Accepted == ~patched

(* A preview is executed; its logs are announced once or twice, if anyone  *)
(* listens. Announcing s again stands for another announcement of the same *)
(* transaction, or for another one when s has been forgotten everywhere.   *)
Preview(s) ==
  /\ Accepted /\ link
  /\ wire[s] = 0
  /\ \E copies \in {1, 2} : wire' = [wire EXCEPT ![s] = copies]
  /\ UNCHANGED <<patched, link, held, channel, detector, alert, cooldown, loose, landing>>

(* subscribe_preview_events: an event is decoded and its time taken ...    *)
Deliver(s) ==
  /\ link /\ held = None
  /\ wire[s] > 0
  /\ wire' = [wire EXCEPT ![s] = @ - 1]
  /\ held' = [sig |-> s, age |-> 0]
  /\ UNCHANGED <<patched, link, channel, detector, alert, cooldown, loose, landing>>

(* ... and then sent, which waits while the queue is full.                 *)
Room == Len(channel) < Capacity

Enqueue ==
  /\ held # None
  /\ Room
  /\ channel' = Append(channel, held)
  /\ held' = None
  /\ UNCHANGED <<patched, wire, link, detector, alert, cooldown, loose, landing>>

(* The stream closes between two events: what was not delivered is lost.   *)
Disconnect ==
  /\ link /\ held = None
  /\ link' = FALSE
  /\ wire' = [s \in Sig |-> 0]
  /\ UNCHANGED <<patched, held, channel, detector, alert, cooldown, loose, landing>>

Reconnect ==
  /\ ~link
  /\ link' = TRUE
  /\ UNCHANGED <<patched, wire, held, channel, detector, alert, cooldown, loose, landing>>

-----------------------------------------------------------------------------
(* detection_loop.                                                         *)

Duplicate(s) == seen[s] # None /\ seen[s] <= DedupeTtl
RememberedForWindow ==
  [s \in Sig |-> IF seen[s] # None /\ seen[s] < Window THEN seen[s] ELSE None]
Remembered == [s \in Sig |-> IF Duplicate(s) THEN seen[s] ELSE None]

(* The window is evicted from its front, up to the first sample in time.   *)
Fresh(sample) == sample.age <= Window
FirstFresh(samples) ==
  CHOOSE k \in 1..(Len(samples) + 1) :
    /\ k <= Len(samples) => Fresh(samples[k])
    /\ \A i \in 1..(k - 1) : ~Fresh(samples[i])
Evicted(samples) == SubSeq(samples, FirstFresh(samples), Len(samples))
Pushed(sample) == Evicted(Append(window, sample))

(* judge_attack_probability. The probability mixes the shape of the window *)
(* with thresholds that move with the clock: any tier may come out.        *)
Judged(samples) ==
  IF samples = <<>> \/ Len(samples) < MinSamples THEN {"observe"} ELSE Tier

Raise(tier) ==
  IF tier = "observe" THEN UNCHANGED alert
  ELSE alert' = [tier |-> tier, stage |-> "deciding"]

Receive ==
  /\ alert = None
  /\ channel # <<>>
  /\ channel' = Tail(channel)
  /\ LET event == Head(channel) IN
       IF Remembered[event.sig] # None
       THEN seen' = Remembered /\ UNCHANGED <<window, alert>>
       ELSE /\ seen' = [Remembered EXCEPT ![event.sig] = 0]
            /\ window' = Pushed(event)
            /\ \E tier \in Judged(Pushed(event)) : Raise(tier)
  /\ UNCHANGED <<patched, subscriber, cooldown, loose, landing>>

(* decide: without an agent, or when it fails, the answer is to act. The   *)
(* agent is asked before the cooldown is looked at.                        *)
Decisions == IF RigEnabled THEN BOOLEAN ELSE {TRUE}

CoolingMild == alert.tier = "mild" /\ cooldown < MinInterval
Cooling == cooldown < MinInterval

(* trigger_if_needed up to the transaction. The loop waits for each alert, *)
(* so action_in_flight never holds here. A mild alert that is bypassed     *)
(* counts as a success.                                                    *)
Decide(act) ==
  /\ alert # None /\ alert.stage = "deciding"
  /\ IF Cooling THEN alert' = None /\ UNCHANGED cooldown
     ELSE IF act \/ alert.tier = "severe"
     THEN alert' = [alert EXCEPT !.stage = "sending"] /\ UNCHANGED cooldown
     ELSE alert' = None /\ cooldown' = 0
  /\ UNCHANGED <<patched, subscriber, channel, detector, loose, landing>>

(* set_scoring_model_hash is executed. The hash is a new one every time:   *)
(* it covers the reason and the scores.                                    *)
Land ==
  /\ alert # None /\ alert.stage = "sending"
  /\ patched' = TRUE
  /\ alert' = [alert EXCEPT !.stage = "landed"]
  /\ landing' = [age |-> 0, confirmed |-> FALSE]
  /\ UNCHANGED <<subscriber, channel, detector, cooldown, loose>>

Confirm ==
  /\ alert # None /\ alert.stage = "landed"
  /\ alert' = None /\ cooldown' = 0
  /\ landing' = [landing EXCEPT !.confirmed = TRUE]
  /\ UNCHANGED <<patched, subscriber, channel, detector, loose>>

(* send_and_confirm_transaction or a call before it fails. A transaction   *)
(* that was sent may have landed, or land later.                           *)
GivenUpRetrying ==
  /\ alert' = [alert EXCEPT !.stage = "sending"]
  /\ IF alert.stage = "sending" THEN loose' \in {loose, TRUE} ELSE UNCHANGED loose
GivenUp ==
  /\ alert' = None
  /\ IF alert.stage = "sending" THEN loose' \in {loose, TRUE} ELSE UNCHANGED loose

Fail ==
  /\ alert # None /\ alert.stage \in {"sending", "landed"}
  /\ GivenUp
  /\ UNCHANGED <<patched, subscriber, channel, detector, cooldown, landing>>

LandLate ==
  /\ loose
  /\ patched' = TRUE /\ loose' = FALSE
  /\ UNCHANGED <<subscriber, channel, detector, alert, cooldown, landing>>

-----------------------------------------------------------------------------
(* The surroundings.                                                       *)

(* reset_admin_guardrails, by hand.                                        *)
Reset ==
  /\ patched' = FALSE
  /\ UNCHANGED <<subscriber, channel, detector, alert, cooldown, loose, landing>>

(* The process dies and is started again; what it sent may still land.     *)
Restart ==
  /\ link' = TRUE /\ wire' = [s \in Sig |-> 0] /\ held' = None /\ channel' = <<>>
  /\ seen' = [s \in Sig |-> None] /\ window' = <<>>
  /\ alert' = None /\ cooldown' = MinInterval
  /\ loose' = (loose \/ (alert # None /\ alert.stage = "sending"))
  /\ landing' = [landing EXCEPT !.confirmed = FALSE]
  /\ UNCHANGED patched

Older(age, limit) == IF age = None THEN None ELSE IF age < limit THEN age + 1 ELSE age
OlderSample(sample) == [sample EXCEPT !.age = Older(@, Window + 1)]
OlderSamples(samples) == [i \in DOMAIN samples |-> OlderSample(samples[i])]

Tick ==
  /\ held' = IF held = None THEN None ELSE OlderSample(held)
  /\ channel' = OlderSamples(channel)
  /\ window' = OlderSamples(window)
  /\ seen' = [s \in Sig |-> Older(seen[s], DedupeTtl + 1)]
  /\ cooldown' = Older(cooldown, MinInterval)
  /\ landing' = [landing EXCEPT !.age = Older(@, MinInterval)]
  /\ UNCHANGED <<patched, wire, link, alert, loose>>

LoopStep ==
  \/ Receive
  \/ \E act \in Decisions : Decide(act)
  \/ Land \/ Confirm \/ Fail

Delivery == \E s \in Sig : Deliver(s)

Next ==
  \/ \E s \in Sig : Preview(s)
  \/ Delivery \/ Enqueue \/ Disconnect \/ Reconnect
  \/ LoopStep \/ LandLate
  \/ Reset \/ Restart \/ Tick

(* The loop awaits the agent, for which the code sets no time limit.       *)
Asking == RigEnabled /\ alert # None /\ alert.stage = "deciding"

(* Both tasks are polled and the node delivers while it is connected. The  *)
(* calls to the node end, by the limits of its client and the expiry of    *)
(* the transaction; nothing is assumed of the agent.                       *)
Fairness == WF_vars(LoopStep /\ ~Asking) /\ WF_vars(Enqueue) /\ WF_vars(Delivery)

Spec == Init /\ [][Next]_vars /\ Fairness

-----------------------------------------------------------------------------
(* Properties.                                                             *)

(* Types; the queue keeps its capacity.                                    *)
TypeOK ==
  /\ patched \in BOOLEAN /\ link \in BOOLEAN /\ loose \in BOOLEAN
  /\ wire \in [Sig -> 0..2]
  /\ held \in Sample \cup {None}
  /\ channel \in Seq(Sample) /\ Len(channel) <= Capacity
  /\ seen \in [Sig -> 0..(DedupeTtl + 1) \cup {None}] /\ window \in Seq(Sample)
  /\ alert \in Alert \cup {None}
  /\ cooldown \in 0..MinInterval
  /\ landing \in [age : 0..MinInterval, confirmed : BOOLEAN]

(* However late an event was queued and however often it was announced, a  *)
(* transaction counts once in what is judged: the dedupe forgets by the    *)
(* time of reading, the window by the time of observation                  *)
(* (SignatureDedupe, SlidingWindow).                                       *)
CountedOnce ==
  \A i, j \in DOMAIN window : i # j => window[i].sig # window[j].sig

(* The loop lands no patch within a cooldown of its last one, severe or    *)
(* not, unless that one was not confirmed to this process, by a failed     *)
(* confirmation or a restart. A given-up transaction that lands late keeps *)
(* no distance itself, and lifts none (trigger_if_needed, execute_action). *)
PatchesAreSpaced ==
  [][Land /\ landing.confirmed => landing.age >= MinInterval]_vars

(* The agent's answer never comes.                                         *)
AgentHangs == <>[]Asking

(* A full queue is drained in the end: the subscriber is never stuck       *)
(* behind an alert, whatever the agent says and however the calls to the   *)
(* node end. Only an agent that neither answers nor fails can hold it      *)
(* (subscribe_preview_events, detection_loop).                             *)
SubscriberGetsThrough == AgentHangs \/ (held # None ~> held = None)

(* The sentinel does not keep rewriting the hash: unless an administrator  *)
(* resets it, the feed dries up and the loop falls silent, and with it the *)
(* watch. It ends idle, or asking an agent that never answers              *)
(* (validate_preview_request_fields, detection_loop).                      *)
SilencedByItsPatch ==
  <>[]patched => AgentHangs \/ <>[](alert = None /\ held = None /\ channel = <<>>)
=============================================================================
