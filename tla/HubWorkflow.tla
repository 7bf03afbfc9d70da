------------------------------ MODULE HubWorkflow ------------------------------
(***************************************************************************)
(* Quotes and workflows of the fan-pass hub (services/fan-pass-hub/src:    *)
(* decision_engine.ts, hub_workflow.ts) over the graph store. A quote is   *)
(* looked up in a cache before the shield oracle is awaited and cached     *)
(* after it; a workflow then records its quote, its action and a relation  *)
(* in one synchronous turn of three writes, each of which may throw. The   *)
(* process may die between any two of these steps.                         *)
(***************************************************************************)
EXTENDS Naturals, Sequences

CONSTANTS
  Wallet,
  Item,       \* releases, memberships and tasks
  Target,     \* what a relation points to: an asset, community or creator
  target,     \* the target of each item
  Action,     \* the actions quoted for
  Sensitive,  \* actions that need step-up: resale, claim, membership_upgrade
  Proof,      \* bundles of proofs
  Input,      \* the requests that are tried
  Posted,     \* kinds of events that callers post to the graph directly
  Call,       \* slots for concurrent requests
  MaxEvent, MaxVersion,  \* bounds of the graph store
  MaxAsked,   \* bound: requests received
  None

Decision == {"allow", "step_up", "block"}
Bias == {"none", "step_up", "block"}

(* What the three kinds of workflow do (actionAndEventForWorkflow).        *)
WorkflowAction == {"purchase", "membership_upgrade", "task_complete"}

(* What distinguishes requests: the context is reduced to the bias of its  *)
(* telemetry (assessScenarioTelemetry).                                    *)
Request == [wallet : Wallet, item : Item, action : Action,
            proof : Proof \cup {None}, bias : Bias]

(* Events: an action or a quote, for an item, with the decision.           *)
Kind == [type : Action \cup {"quote"}, item : Item, decision : Decision]

ASSUME NoneAssumption == None \notin Nat
ASSUME InputAssumption == Input \subseteq Request /\ Posted \subseteq Kind
ASSUME TargetAssumption == target \in [Item -> Target]
ASSUME ActionAssumption == Sensitive \subseteq Action
ASSUME BoundAssumption == MaxEvent \in Nat /\ MaxVersion \in Nat /\ MaxAsked \in Nat

VARIABLES
  mem, loaded, disk, pending, fresh, acked,  \* of the graph store
  cache,    \* cached quotes, by request and snapshot version
  call,     \* requests in progress
  turn,     \* the request whose synchronous turn is under way, or None
  spent,    \* proofs whose claims are alive at the oracle
  signed,   \* history of attestations the oracle signed
  asked,    \* requests received
  answers   \* history of quotes given and workflows answered

graphVars == <<mem, loaded, disk, pending, fresh, acked>>
vars == <<mem, loaded, disk, pending, fresh, acked,
          cache, call, turn, spent, signed, asked, answers>>

Graph == INSTANCE GraphStore WITH
  EventType <- Kind, Edge <- Wallet \X Target, Weight <- {1}, Caller <- {}

(* The oracle's attestations carry the serial of the request they answer.  *)
Attestation == [serial : Nat, wallet : Wallet, proof : Proof \cup {None}]
Status == {"ok", "refused", "unavailable"}
Quote == [decision : Decision, status : Status, version : Nat,
          attestation : Nat \cup {None}]
Entry == [input : Input, version : Nat, quote : Quote]

Mode == {"verified", "guest", "bot_suspected"}
Stage == {"asked", "answered", "quoted", "recording", "relating"}

(* A request: version is the snapshot version it read; its mode is needed  *)
(* until the oracle has answered, its quote known from then on; the events *)
(* are those it has recorded.                                              *)
Progress == [serial : Nat, input : Input, workflow : BOOLEAN, version : Nat,
             mode : Mode \cup {None}, stage : Stage, quote : Quote \cup {None},
             quoteEvent : Nat \cup {None}, actionEvent : Nat \cup {None}]

Given == [request : Progress, executed : BOOLEAN]

ASSUME IdleAssumption == None \notin Call \cup Progress
ASSUME StoreAssumption == None \notin Graph!Graph \cup Graph!Snapshot

Init ==
  /\ Graph!Init
  /\ cache = {}
  /\ call = [c \in Call |-> None]
  /\ turn = None
  /\ spent = {}
  /\ signed = {}
  /\ asked = 0
  /\ answers = {}

-----------------------------------------------------------------------------
(* Deciding.                                                               *)

(* determineMode: without proofs a sensitive action may be suspected of    *)
(* being a bot's, as the reputation of the wallet has it.                  *)
Modes(input) ==
  IF input.proof # None THEN {"verified"}
  ELSE IF input.action \in Sensitive THEN {"guest", "bot_suspected"}
  ELSE {"guest"}

Biased(bias, decision) ==
  CASE bias = "block" -> "block"
    [] bias = "step_up" -> IF decision = "allow" THEN "step_up" ELSE decision
    [] bias = "none" -> decision

(* The oracle signed: low dignity and bots are blocked.                    *)
DecideSigned(input, mode, low) ==
  Biased(input.bias,
    IF low \/ mode = "bot_suspected" THEN "block"
    ELSE IF input.action \in Sensitive /\ mode # "verified" THEN "step_up"
    ELSE "allow")

(* It did not: a refusal of proofs blocks, anything else asks for more;    *)
(* a bias replaces either.                                                 *)
DecideUnsigned(input, status) ==
  IF input.bias # "none" THEN input.bias
  ELSE IF status = "refused" THEN "block" ELSE "step_up"

-----------------------------------------------------------------------------
(* Quoting (quoteHubDecision).                                             *)

(* cacheKey: the request and the snapshot version.                         *)
SameKeyAnyProof(e, input, version) ==
  e.input = [input EXCEPT !.proof = e.input.proof] /\ e.version = version
SameKeyAnyVersion(e, input, version) == e.input = input
SameKey(e, input, version) == e.input = input /\ e.version = version

Cached(input, version) == {e \in cache : SameKey(e, input, version)}

Continue(c, r) == call' = [call EXCEPT ![c] = r]
End(c) == call' = [call EXCEPT ![c] = None]

Give(r, executed) == answers' = answers \cup {[request |-> r, executed |-> executed]}

(* Up to the await of the oracle; a cached quote is returned without it.   *)
Ask(c, input, workflow) ==
  LET version == Graph!State.version
      Started(mode) ==
        [serial |-> asked, input |-> input, workflow |-> workflow, version |-> version,
         mode |-> mode, stage |-> "asked", quote |-> None,
         quoteEvent |-> None, actionEvent |-> None]
      Served(e) == [Started(None) EXCEPT !.stage = "quoted", !.quote = e.quote]
  IN
  /\ turn = None /\ call[c] = None
  /\ asked < MaxAsked
  /\ workflow => input.bias = "none" /\ input.action \in WorkflowAction
  /\ asked' = asked + 1
  /\ mem' = Graph!State /\ loaded' = TRUE
  /\ \/ /\ Cached(input, version) = {}
        /\ \E mode \in Modes(input) : Continue(c, Started(mode))
        /\ UNCHANGED answers
     \/ \E e \in Cached(input, version) :
          IF workflow THEN Continue(c, Served(e)) /\ UNCHANGED answers
                      ELSE Give(Served(e), FALSE) /\ UNCHANGED call
  /\ UNCHANGED <<disk, pending, fresh, acked, cache, turn, spent, signed>>

(* handleShieldScoreRequest signs for a guest, or for proofs that it can   *)
(* claim; refuses proofs (400, 409), having claimed some of them or none;  *)
(* or fails in another way.                                                *)
ShieldDecides(c, status, low, claimed) ==
  LET r == call[c]
      proofs == {r.input.proof} \ {None}
      decision == IF status = "ok" THEN DecideSigned(r.input, r.mode, low)
                                   ELSE DecideUnsigned(r.input, status)
      attestation == IF status = "ok" THEN r.serial ELSE None IN
  /\ turn = None
  /\ r # None /\ r.stage = "asked"
  /\ claimed \subseteq proofs \ spent
  /\ status = "ok" => proofs \cap spent = {} /\ claimed = proofs
  /\ status = "refused" => proofs # {}
  /\ spent' = spent \cup claimed
  /\ signed' = IF status = "ok"
               THEN signed \cup {[serial |-> r.serial, wallet |-> r.input.wallet,
                                  proof |-> r.input.proof]}
               ELSE signed
  /\ Continue(c, [r EXCEPT !.stage = "answered", !.mode = None,
                           !.quote = [decision |-> decision, status |-> status,
                                      version |-> r.version, attestation |-> attestation]])
  /\ UNCHANGED <<graphVars, cache, turn, asked, answers>>

(* After the await: the quote is cached, whatever is cached by now.        *)
StoreQuote(c) ==
  LET r == call[c]
      entry == [input |-> r.input, version |-> r.version, quote |-> r.quote] IN
  /\ turn = None
  /\ r # None /\ r.stage = "answered"
  /\ cache' = (cache \ Cached(r.input, r.version)) \cup {entry}
  /\ IF r.workflow
     THEN Continue(c, [r EXCEPT !.stage = "quoted"]) /\ UNCHANGED answers
     ELSE End(c) /\ Give(r, FALSE)
  /\ UNCHANGED <<graphVars, turn, spent, signed, asked>>

-----------------------------------------------------------------------------
(* The turn of a workflow (executeFanPassWorkflow after its quote). A      *)
(* write that throws ends the request; what it changed in memory stays.    *)

Record(r, type, ok) ==
  Graph!IngestGraphEvent(r.input.wallet,
    [type |-> type, item |-> r.input.item, decision |-> r.quote.decision], ok)

RecordQuote(c, ok) ==
  LET r == call[c]
      next == [r EXCEPT !.stage = "recording", !.quoteEvent = fresh] IN
  /\ turn = None
  /\ r # None /\ r.stage = "quoted"
  /\ fresh + 2 <= MaxEvent /\ Graph!State.version + 3 <= MaxVersion  \* room for the turn
  /\ Record(r, "quote", ok)
  /\ IF ~ok THEN End(c) /\ UNCHANGED <<turn, answers>>
     ELSE IF r.quote.decision # "allow"
     THEN End(c) /\ Give(next, FALSE) /\ UNCHANGED turn
     ELSE Continue(c, next) /\ turn' = c /\ UNCHANGED answers
  /\ UNCHANGED <<cache, spent, signed, asked>>

RecordAction(c, ok) ==
  LET r == call[c] IN
  /\ turn = c
  /\ r # None /\ r.stage = "recording"
  /\ Record(r, r.input.action, ok)
  /\ IF ok THEN Continue(c, [r EXCEPT !.stage = "relating", !.actionEvent = fresh])
                /\ UNCHANGED turn
           ELSE End(c) /\ turn' = None
  /\ UNCHANGED <<cache, spent, signed, asked, answers>>

Relate(r, ok) ==
  Graph!UpsertRelationEdge(<<r.input.wallet, target[r.input.item]>>, 1, ok)

RecordRelationUnchecked(c, ok) ==
  LET r == call[c] IN
  /\ turn = c
  /\ r # None /\ r.stage = "relating"
  /\ Relate(r, ok)
  /\ End(c) /\ turn' = None
  /\ Give(r, TRUE)
  /\ UNCHANGED <<cache, spent, signed, asked>>
RecordRelation(c, ok) ==
  LET r == call[c] IN
  /\ turn = c
  /\ r # None /\ r.stage = "relating"
  /\ Relate(r, ok)
  /\ End(c) /\ turn' = None
  /\ IF ok THEN Give(r, TRUE) ELSE UNCHANGED answers
  /\ UNCHANGED <<cache, spent, signed, asked>>

-----------------------------------------------------------------------------
(* Events posted directly, lapsing claims, and the death of the process,   *)
(* with which the cache and the requests go.                               *)

PostEvent(wallet, kind, ok) ==
  /\ turn = None
  /\ Graph!IngestGraphEvent(wallet, kind, ok)
  /\ UNCHANGED <<cache, call, turn, spent, signed, asked, answers>>

Lapse(proof) ==
  /\ proof \in spent
  /\ spent' = spent \ {proof}
  /\ UNCHANGED <<graphVars, cache, call, turn, signed, asked, answers>>

RestartKeepingCache ==
  /\ Graph!Restart
  /\ call' = [c \in Call |-> None]
  /\ turn' = None
  /\ UNCHANGED <<cache, spent, signed, asked, answers>>
Restart ==
  /\ Graph!Restart
  /\ cache' = {}
  /\ call' = [c \in Call |-> None]
  /\ turn' = None
  /\ UNCHANGED <<spent, signed, asked, answers>>

Next ==
  \/ \E c \in Call, input \in Input, workflow \in BOOLEAN : Ask(c, input, workflow)
  \/ \E c \in Call, status \in Status, low \in BOOLEAN,
        claimed \in SUBSET Proof : ShieldDecides(c, status, low, claimed)
  \/ \E c \in Call : StoreQuote(c)
  \/ \E c \in Call, ok \in BOOLEAN :
       RecordQuote(c, ok) \/ RecordAction(c, ok) \/ RecordRelation(c, ok)
  \/ \E w \in Wallet, kind \in Posted, ok \in BOOLEAN : PostEvent(w, kind, ok)
  \/ \E proof \in Proof : Lapse(proof)
  \/ Restart

Spec == Init /\ [][Next]_vars

-----------------------------------------------------------------------------
(* Properties.                                                             *)

(* Types, with what ties the parts together: a cached quote is never for a *)
(* snapshot the graph has not reached, although versions go back when the  *)
(* process dies; and only a request allowed to execute holds the turn.     *)
TypeOK ==
  /\ Graph!TypeOK
  /\ cache \subseteq Entry
  /\ call \in [Call -> Progress \cup {None}]
  /\ turn \in Call \cup {None}
  /\ spent \subseteq Proof
  /\ signed \subseteq Attestation
  /\ asked \in Nat
  /\ answers \subseteq Given
  /\ \A e \in cache : e.version <= Graph!State.version
  /\ \A c \in Call :
       turn = c <=> call[c] # None /\ call[c].stage \in {"recording", "relating"}

Executed == {a.request : a \in {x \in answers : x.executed}}
EventOf(r, g, id, type) ==
  \E e \in g.events : /\ e.id = id /\ e.wallet = r.input.wallet
                      /\ e.type.type = type /\ e.type.item = r.input.item
                      /\ e.type.decision = "allow"

(* A workflow that answered executed has its quote, its action and its     *)
(* relation in the file, for ever, whatever failed or died around it.      *)
ExecutedIsOnRecord ==
  \A r \in Executed :
    /\ disk # None
    /\ EventOf(r, disk, r.quoteEvent, "quote")
    /\ EventOf(r, disk, r.actionEvent, r.input.action)
    /\ disk.relations[<<r.input.wallet, target[r.input.item]>>] # None

(* An executed workflow rests on an attestation for its own wallet and     *)
(* proofs, and a sensitive one on proofs that the oracle accepted, through *)
(* caching, overlapping requests and restarts.                             *)
ExecutedIsAttested ==
  \A r \in Executed :
    /\ r.input.action \in Sensitive => r.input.proof # None
    /\ \E a \in signed : /\ a.serial = r.quote.attestation
                         /\ a.wallet = r.input.wallet /\ a.proof = r.input.proof

(* Workflows share an attestation only if they asked at one snapshot: once *)
(* anything was recorded it lets nobody else execute.                      *)
AttestationServesOneSnapshot ==
  \A r, s \in Executed :
    r.quote.attestation = s.quote.attestation =>
      r.version = s.version /\ r.input = s.input

(* The same request is decided the same at one snapshot version (the test  *)
(* "keeps quote decision deterministic for same input under same snapshot  *)
(* version").                                                              *)
DecisionDeterministic ==
  \A a, b \in answers :
    /\ a.request.input = b.request.input /\ a.request.version = b.request.version
    => a.request.quote.decision = b.request.quote.decision

(* Proofs that the oracle refuses block, also when the telemetry is        *)
(* suspicious (the test "blocks invalid verified proof ownership           *)
(* mismatch").                                                             *)
RefusedProofsBlock ==
  \A a \in answers :
    a.request.quote.status = "refused" => a.request.quote.decision = "block"
=============================================================================
