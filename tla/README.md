# Formal models of UNFORGIVEN core

TLA+ models of the parts of this repository that decide who owns a ticket, who
gets an attestation, what the fan graph remembers, how the games score and when
the sentinel acts, with TLC configurations that check them on small instances
and TLAPS proofs of their main properties.
`PROJECT.json` maps every definition to the lines it models.

```
tlc -workers 2 -config MCTicketProgram.cfg  MCTicketProgram
tlc -workers 2 -config MCGraphStore.cfg     MCGraphStore
tlc -workers 2 -config MCOracleIssuance.cfg MCOracleIssuance
tlc -workers 2 -config MCHubWorkflow.cfg    MCHubWorkflow
tlc -workers 2 -config MCRateLimit.cfg      MCRateLimit
tlc -workers 2 -config MCHideSis.cfg        HideSisReplay
tlc -workers 2 -config MCOpenWorld.cfg      MCOpenWorld
tlc -workers 2 -config MCLabSession.cfg     MCLabSession
tlc -workers 2 -config MCSentinel.cfg       MCSentinel
tlapm TicketProgramProofs.tla                     # and the other *Proofs modules
```

## 1. The system

A fan proves who she is with Reclaim proofs, the **shield oracle** checks them and
signs an attestation, and the **on-chain program** turns the attestation into a
ticket, once, at a price it computes. Tickets are resold through the program's
escrow. The **sentinel** watches the chain and may replace the program's scoring
model. Off chain, the **fan-pass hub** quotes and runs purchases and keeps a
graph of what wallets did, whose snapshots are anchored on the chain. Two games,
**Hide-Sis** and the **behavior lab**, produce and consume behavioural scores.

| component | code | state | operations | hard behaviour |
|---|---|---|---|---|
| on-chain program | `programs/unforgiven_v2/src/lib.rs` | config accounts, per ticket: proof use, mint, receipt, listing, escrow and token accounts; lamports | initialise (2), rotate_oracle, set_scoring_model_hash, reset_admin_guardrails, preview_price, execute_shield, list, cancel and fill | account lifecycle over many transactions, owners acting through the token program, payloads that outlive a key rotation |
| VRGDA pricing | `programs/unforgiven_v2/src/unforgiven_math.rs` | none | fixed-point price and blocked flag | overflow and saturation |
| shield oracle | `services/shield-oracle/src` | Redis keys, memory claims, recent proofs, per process | score request, claim of proof identifiers | awaits between claims, Redis failing with or without effect, restarts, several processes |
| rate limiter | `services/shield-oracle/src/rate_limit.ts` | fixed windows in Redis or memory | consume for address and wallet, cleaning | a clock read before the awaits, two stores that come and go |
| dignity scoring | `services/dignity-scoring/src` | none | sum of adapter scores | none |
| fan-pass graph store | `services/fan-pass-hub/src/graph_store.ts`, `chain_adapter.ts` | graph in memory, file, receipts by version | ingest, upsert, export, anchor | an await between hash and receipt, failed writes, crashes |
| hub decisions and workflow | `services/fan-pass-hub/src/decision_engine.ts`, `hub_workflow.ts` | quote cache, releases, commits | quote, execute, catalog | cache read before an await, several writes per purchase |
| Hide-Sis sessions | `services/hide-sis-engine/src/session_store.ts`, `state_machine.ts` | sessions, events | start, quote, commit, finalize, replay | a last node that can be played again, history that tells less than the state |
| Hide-Sis open world | `services/hide-sis-engine/src/openworld_engine.ts`, `openworld_llm.ts` | world sessions | act, finalize | scenes and endings await a language model, which may throw |
| behavior lab | `services/behavior-lab-engine/src` | sessions, telemetry, records | start, telemetry, submit | other requests during the wait for the hub, partial telemetry |
| sentinel | `crates/sentinel/src/main.rs` | queue, seen signatures, window, cooldown | subscribe, receive, judge, decide, patch | duplicated and delayed events, a full queue, lost or late confirmations |
| v1 program, client, SDK, web routes, scripts | | | | superseded, or encoding and I/O only |

How they interact: the hub calls the oracle's handler and records in the graph
store (calls in one process); the program verifies the oracle's signature and
compares the model hash of the payload with its configuration (messages carried
by the fan); the sentinel changes that configuration (transactions); oracle
processes share Redis.

What makes each correct:

- program: one token per consumed attestation, in one place until its owner
  burns it; receipt, listing and escrow tell of the same sale; no way in which a
  listed ticket is stuck; money is taken only for a ticket; history is not
  rewritten.
- oracle: a proof is spent once per window wherever it is presented; an owner is
  never shut out by something that has lapsed.
- graph store: what was acknowledged survives while the file can be read; a version names one content; a
  receipt certifies what it names.
- rate limiter: a window never admits more than its limit, is not given up
  early, and whoever waits as told is not refused by it again, or in Redis only
  within the half second that its TTL is rounded by.
- hub: one answer per input and snapshot; a recorded purchase has its relation.
- games: an ending is earned and final; replay does not flatter; the language
  model adds colour and very few points; a shadow sample rests on evidence.
- sentinel: a transaction counts once, patches are a cooldown apart, and its
  queue moves on unless the agent it asks hangs.

## 2. Modules and how they correspond to the code

### TicketProgram (with TicketOwnership, MCTicketProgram)

One action per instruction of `lib.rs` that changes state. A Solana transaction
is atomic: an instruction that fails anywhere leaves every account as it was, so
all requirements of an instruction are guards, in the `Accounts` struct and in
the body alike, and a failing instruction is a stutter.

| variable | code |
|---|---|
| `globalConfig`, `adminConfig` | the `GlobalConfigV2` and `AdminConfig` accounts |
| `proofUse`, `mints` | `ProofUse` accounts and ticket mints, by (user, proof hash, nonce): the seeds of both addresses |
| `receipt`, `listing`, `escrow` | `TicketReceipt`, `TicketListing` and the escrow token account of each mint |
| `ticketToken` | the derived token account of each mint and wallet: absent, empty, one token |
| `otherToken` | whether the token is in an ordinary token account of a wallet |
| `burned` | mints whose supply is 0 again, for good: the mint authority was given up with the first token |
| `lamports`, `now` | balances and the clock |

`Signed` is the set of payloads some oracle key has signed. A user keeps them,
so any of them can be presented at any time. `TransferOut`, `TransferBack`,
`TransferOther`, `CloseEmpty` and `Burn` are what an owner does with the token
program alone; a burned ticket keeps its receipt, and no instruction of the program
is possible for it any more than for one that was moved out. A token account whose authority was handed on is treated like an ordinary
account of its new owner. Account deposits are one amount `Rent`, paid and
refunded as each instruction does; `CanPay` asks for the largest amount the payer
has to put up at once, before refunds.

`TicketOwnership` is the abstract specification: issue once to the named wallet,
offer, withdraw, sell. `TicketProgram` implements it, reading `owner` off the
receipts and `offer` off the listings; all other instructions are stutters of it.

### GraphStore (MCGraphStore)

One process and its file. JavaScript runs each synchronous part without
interruption, so a part between two awaits is one action: `IngestGraphEvent`,
`UpsertRelationEdge`, `ExportWalletGraph` (the load that any read performs),
`AnchorSend` and `AnchorStore`/`AnchorRejected` around the await of the chain
adapter, and `Restart`. `Persist(next, ok)` is `writePersistedState`: memory has
already changed when writing throws, which is `ok = FALSE`. `State` is
`getState`, which loads the file first in a new process; loading files each
receipt under the version it names (`Rekeyed`), storing files it under the
version current after the await (`AnchorStore`), and the difference is the
finding below. `LoadFails` is a load of an existing file that cannot be read or
parsed, which the code takes for a missing file: it goes on with an empty graph, and
the next write replaces the file. What callers were told before is given up then, so
that `acked` begins again. `LoadFails` is part of `UnreliableSpec`, which the run
`graph_store` checks; `Spec`, on which the hub's composition and the proofs build,
is the store whose file can be read. Reputation scores and the event's free-form context are left out;
so is what an edge's weight is computed from.

### OracleIssuance (MCOracleIssuance)

Several processes, a shared Redis and the memory of each process. A request is
received (`Receive`), its proofs are verified (`Verify`), its identifiers are
claimed one after the other, each claim an await of its own, and the answer is
computed in one synchronous part (`Issue`, in `Finish`, or at once for guests).
A claim has four outcomes:

| action | code |
|---|---|
| `ClaimInRedis`, `RefusedByRedis` | the reply of `SET NX EX` |
| `ClaimWithoutRedis` | there is no client, or the command failed without effect |
| `ClaimLosingReply` | the key was set and the connection lost before the reply |

The last two end in `FallBack`: unavailable where Redis is required, otherwise a
claim in memory. A key is the time at which it expires, 0 if there never was one;
time is in seconds and `KeyFree` says that it has expired, which is what sweeping
and Redis expiry do. `grants` and `issued` are history variables: the claims
that took effect, with place and time, and the attestations signed.
`RequestInput` reduces a request to the outcome of its checks (`valid`), whether
its numbers can be encoded (`encodable`), its wallet, the hash (which the caller
may choose) and the identifiers of its bundle. Reading the environment, setting
up a connection and loading the key are abstracted to their outcomes.

### HubWorkflow (MCHubWorkflow)

Quotes and workflows of the hub, composed with GraphStore: `Graph` is an
instance of it over the same variables, and every write of a workflow is one of
its operations. A request goes through these actions:

| action | code |
|---|---|
| `Ask` | `quoteHubDecision` up to its await: the snapshot version is read and the cache looked into, a cached quote is served |
| `ShieldDecides` | the oracle's answer and the decision made from it |
| `StoreQuote` | the quote is cached, whatever another request has cached meanwhile |
| `RecordQuote`, `RecordAction`, `RecordRelation` | the rest of `executeFanPassWorkflow`, three writes in one synchronous turn |
| `PostEvent` | the graph route, which records events for any caller |
| `Lapse`, `Restart` | claims run out at the oracle; the process dies and takes the cache along |

The three writes are three actions because the process may die between them and
each may fail. JavaScript lets no other request run in between: `turn` names the
request whose turn it is, and all other actions but `Lapse` and `Restart` wait for it.
The oracle is what the hub sees of it: it signs, refuses proofs, or is not
available, and has claimed the proofs or not when it did not sign; `OracleIssuance` is the
detailed model. A context is reduced to the bias its telemetry causes and a
reputation to the mode it leads to. Anchoring is not part of this composition
(`Caller <- {}`), and relations are changed by workflows alone.

### RateLimit (MCRateLimit)

`evaluateShieldRateLimit` as the API route calls it, with both scopes. A request
reads the clock once, on arrival, and keeps that time (`at`) through its awaits.

| action | code |
|---|---|
| `Arrive` | the route up to the limiter, where the clock is read |
| `Send`, `Count`, `Reply` | the request to Redis, the script there (INCR, and EXPIRE for a new key), the reply |
| `Unavailable`, `ChargeMemory` | no Redis, before or after the script took effect: refusal where it is required, else `consume` in memory |
| `Restart`, `Tick` | a process dies with its windows; the clock, which also expires keys |

`Pass` and `Refuse` are what follows a decision: the next scope, the handler, or
a refusal with its time to come back. The clock counts ticks, `Second` of them to a
second, because times to come back are whole seconds: memory rounds them up
(`MemoryRetry`), Redis's `TTL` rounds to the nearest (`Ttl`), and 0 makes the route
answer the whole window (`RedisRetry`). `Instant` is what the clock is seen at.
`passed` and `refused` are histories. How a
caller's address is found is left out. Limits and window are constants above 0;
with 0 the code disables the scope.

### HideSisSession and HideSisReplay

The whole story table (ten nodes in three chapters, every choice with its deltas)
as the function `story`, and a session as one record. `CommitTurn` is
`commitTurn`: quote, budget, dignity, pollution, truth gate, and one or two
events. `FinalizeSession` answers repeated calls with what it answered first. All
calls are synchronous and sessions share nothing, so one session stands for all.
Costs and rounding are computed in integers, exact but where the code's doubles
fall short of an exact half (`FallsShort`), which it then rounds down.
`HideSisReplay` is `replaySession`: what is shown is a function on the number of
events seen. Texts, hints
and the humanity score are left out.

`Scale` holds the arithmetic both games share, clamping and rounding. The story's
specification is named `StorySpec` so that `HideSisProofs` can extend both games.

### OpenWorld (MCOpenWorld)

One session and several requests on it. `Act` applies an action at once
(`After` is `applyAction` with phase gates, novelty and tallies) and awaits its
scene; `SceneArrives` goes on to the ending if time is used up, whoever used it;
`Finalize` asks for the ending; `EndingArrives`, `FallbackEnding` and
`ModelThrows` are the outcomes of that await. `finalized` is written by every
ending that was awaited, also when another has come before: the code does not
look again after its await. The score is `computeScore`, and `Adjusted` applies
what the model proposed, within its bounds. The composite is a weighted sum of
doubles, which for some scores is less than an exact half and rounds the other
way: `Under` is the set of these scores, any set for the proofs. Texts, previews
(`estimateAction`) and guidance change nothing and are left out; the world is the
one seed template of the code, and only targets that exist are tried.

### LabSession (MCLabSession)

One session of the behaviour lab and requests on it: `ingestLabTelemetry`,
`Submit` (merge, unlock, score, and the telemetry kept, up to the await of the
hub) and `Answered` (the record, with the telemetry read *again*). A summary is
a partial function from fields to numbers, as fields are optional in
`TelemetrySummaryV1`; both shadow scores and `finalizeShadowResult` are computed
from it. Amounts are in seconds, percent and tenths. `overlapped` is history: it
says that another request wrote telemetry during the wait. Answers are right or
wrong; texts of the score's explanation are left out.

### Sentinel (MCSentinel)

The two tasks of `main.rs`, the node between them and the program, and the part
of the program's governance that the sentinel writes.

| action | code |
|---|---|
| `Preview`, `Deliver`, `Enqueue` | the program accepts a preview and the node announces it, possibly twice; the subscriber reads it (it is observed now) and then queues it, or waits |
| `Disconnect`, `Reconnect` | the stream ends, announcements are lost |
| `Receive` | one pass of the detection loop: dedupe, window, judgement |
| `Decide` | agent and cooldown; an agent that fails falls back to a rule |
| `Land`, `LandLate`, `Confirm`, `Fail` | the transaction lands, is confirmed to the sentinel, or is given up on and may still land |
| `Reset` | `reset_admin_guardrails` by the administrator |

`Decide` asks the agent before it looks at the cooldown, and waits for it without a
limit of time (`Asking`). `landing` is history: the age of the loop's last landing
and whether it was confirmed. A transaction that was given up on and lands late
leaves it alone, as it leaves the sentinel's own cooldown.

Time is kept as ages, capped one above the limit each is compared with, so there
is no bound on time. The fuzzy judgement is any tier. `patched` abstracts the
active model hash: the oracle signs for one constant hash only, so
`validate_preview_request_fields` accepts a preview only while it is active.
`action_in_flight` never holds when it is read, because the loop waits for each
alert, and is left out.

## 3. Runs

| run | result | instance |
|---|---|---|
| `ticket_program` | passes | three wallets (one the authority), ids (alice, n1), (alice, n2) and (bob, n1) among six possible mints, five signed payloads, asks 0, 2, 3, ten lamports each, two resales |
| `graph_store` | passes | one wallet and edge, two overlapping anchor calls, two events, four versions, writes and reads that fail |
| `graph_store_anchor` | violation | one anchor call, reads do not fail |
| `oracle_issuance` | passes | two processes with a restart each, two request slots, two requests out of six inputs, two identifiers, lifetimes of two seconds, three seconds |
| `hub_workflow` | passes | one wallet asking for a membership upgrade with and without proofs, purchases posted directly, two concurrent requests, four events, seven versions |
| `hub_overlap` | violation | one input with proofs |
| `hub_suspicious` | violation | one input with proofs and suspicious telemetry |
| `rate_limit` | passes | a process that requires Redis and one that does not, two requests at once and three in all, an address with limit 2 and a wallet with limit 1, a window of two seconds of three ticks each, the clock seen at 0, 2, 5 and 8 ticks |
| `hide_sis` | passes | the whole story in each mode, 14 events before the final one, so up to three turns at the last node |
| `open_world` | passes | two requests at once, seven actions out of five, proposals at and beyond the bounds of a delta, five scores whose sum falls short of its half |
| `lab_session` | passes | each kind of entry, three requests, two at the hub at once, six partial reports |
| `sentinel` | passes | two transactions announced up to twice each, window 1, dedupe 2, cooldown 2, a queue of one, no bound on time |

A property is on a run's list when the code could break it and a test would
hardly show it. All type invariants are proved (section 4), as is `FileOnlyGrows`;
a run checks one only where it says more than types: in HubWorkflow who has the
turn, in HideSisSession the walk through the story, in OpenWorld the ranges that
the scores stay in.

**ticket_program** checks custody (`TokenInOnePlace`: the one token of an issued
ticket is in exactly one place, and in none once it is burned; `EscrowMatchesListing`,
`OnlyHolderHasTicketAccount`), that the market does not get stuck
(`ListingsCanBeClosed`: a seller can always cancel, and any other wallet with the
money can buy where fee and counter allow), money (`PaymentBuysTicket`: nobody is charged
more than a deposit without becoming the holder; that lamports are neither made
nor lost is up to the system program, whose transfers the instructions use), history
(`ReceiptHistory`, `StrandedStaysStranded`) and the refinement
`ImplementsOwnership`. Bounds: three wallets let a ticket go from
buyer to buyer and back to its first owner, and let treasury, seller and buyer be
distinct or coincide; two payloads share an id under two keys, one is under the
other model hash, one blocked and one malformed; one of the asks has a fee that
overflows `U64Max = 5`, the other one does not; two resales reach the limit of
the counter. A third ticket would only repeat: an instruction touches one mint,
and mints meet in balances alone.
`StrandedStaysStranded` records a limit of the design: after an owner moves
the token out, or burns it, and closes the derived account, no instruction
recreates it.

**graph_store** checks that acknowledged events survive crashes, failed writes and
a version counter that a crash takes back (`AcknowledgedSurvives`,
`VersionsToldIncrease`), and that a receipt which names the current version
certifies the current contents (`ReceiptTellsTruth`). Two anchor calls suffice
to answer out of order; two events and four versions allow a failed write,
a crash, and the same version given out again for other contents.
Reads of the file fail as well, so that versions start again from an empty graph and
meet the numbers of receipts that the old one had sent or filed; a receipt of the
current version still certifies the current contents, since only a new process reads
the file, the anchor calls of the old one died with it, and its receipts go with the
rest of the graph. Known limit: one failed read when a process starts, also a passing
one, loses the graph with the next write (`graph_store.ts:63-72`, `:88-89`), and
versions told before are told again. All that is promised is since the last such read.

**oracle_issuance** checks `ClaimsApart`, `ProofUsedOncePerWindow`,
`OneActivePerProcess` and `RefusalsJustified`. Overlapping bundles share an
identifier, two bundles share a hash, and lifetimes expire within the explored
time; two requests are what each property speaks of. The same model was explored
once without restarts and with three requests. `CHECK_DEADLOCK FALSE` there, and
in the other runs with bounds on time or requests: an instance whose serials,
lives and seconds are used up stops, as the bounds say.

**hub_workflow** checks that a workflow which answered `executed` has its quote,
action and relation in the file for ever (`ExecutedIsOnRecord`), that it rests on
an attestation for its own wallet and proofs (`ExecutedIsAttested`), and that an
attestation cached for a snapshot executes nothing once that snapshot is past
(`AttestationServesOneSnapshot`). Two requests are what each property speaks of,
and may overlap or follow one another; four events and seven versions are enough
for both to execute, or for one to execute around a failed write, a posted event
or a crash. A turn starts only where the bounds leave room for its three writes.
The one wallet does not lose generality in the cache, whose key contains it.

**rate_limit** checks that on one window of Redis no more than the limit pass, over
all processes and with lost replies, and that windows of a key do not overlap
(`WithinLimit`); that nobody who comes back when told meets the window that
refused him, if it is one of memory, and if it is one of Redis, meets it for less
than half a second more (`WaitingPaysOff`); and that a window in memory is not given up early
by a stalled request (`NoEarlyReset`). Three requests fill a limit of two and
exceed it. The readings of the clock fall between seconds, in every phase of them,
so that remainders are rounded both ways, and the last one lets a window of two
seconds end under a request that stalls. Known limits, none of them against a promise of the code: a window cleaned
from memory can be created again by a request that was stalled, with its old start;
Redis and the memory of each process count apart; a token of the address stays
spent when the wallet is refused.

**hide_sis** checks that no quote blocks a player (`NeverBlocked`), that the mode a
session starts in settles whether dignity allows the best ending
(`DignityGateFollowsMode`), that turns after the story has ended, of which there
is no limit, never make the ending worse (`EndingOnlyImproves`), and that
replaying the events never shows a session better than it was
(`ReplayNeverFlatters`). A walk to the
last node leaves 11 events; a turn there lowers the pollution by one and changes
nothing else that counts, so three turns, from at most 3, reach the state that
further turns repeat. Replay does differ from the store
otherwise: any choice at node 23 counts as the gate passed, and truth once seen
stays seen.

**open_world** checks that every action counts under one key of the novelty
discount, also while endings are awaited (`TicksAreCounted`), that the model moves
the composite score by at most three points
and one grade (`ModelMovesLittle`), that a session out of time is settled or being
settled unless the model threw in a request that found the time used up
(`ExhaustedIsSettled`), that only an ending awaited
already can touch a settled one (`SettledIsFinal`), and that late truth needs
corroborated core testimony (`LateTruthNeedsCore`), but for twelve points: the
first clue of a game lifts the penalty for having shown none, whoever it is shown
to and however late, while RULEBOOK speaks of core testimony only. The third point
of the composite is real: 51, 89, 72 and 45 add up to 63.49999999999999 and round
to 63, and two points more on each to 65.5 and 66; `MCUnder` holds such scores. Seven actions use up the time
and pass through all phases. Known limits: two overlapping finalisations overwrite
each other and tell their callers different endings, an action during the await
of an ending is not scored, and after a throw the exhausted session stays open to
further actions.

**lab_session** checks that a sample needs the right answer in this submission and a
minute and a half of reading (`SampledIsEarned`), that a hit in the pressure event
is not blocked by its own score (`HitIsNeverBlocked`), and that only an overlapping
request pairs a record with telemetry it was not scored on (`MixedOnlyByOverlap`).
Reports are partial so that submissions add them up, and one is of the other
scenario, which a submission does not compare.

**sentinel** checks `CountedOnce`, `PatchesAreSpaced`, and under fairness
`SubscriberGetsThrough` and `SilencedByItsPatch`; both leave out the behaviours in
which the agent is asked and never answers (`AgentHangs`), which holds the queue for
ever since no limit of time is set. Two transactions, each announced
twice, with a queue of one make an event wait behind an alert for longer than the
window; ages reach past every limit. `SilencedByItsPatch` records a consequence
of the design: as long as nobody resets the hash, the sentinel's patch dries up
the feed the sentinel watches. Known limits: a mild alert that the agent lets pass
starts the cooldown and can hide a severe one; after an unconfirmed landing there
is no cooldown at all, and a transaction that was given up on may also land right
after a confirmed one, so that `PatchesAreSpaced` speaks of what the loop lands
itself; an agent that hangs stops the watch; events of a lost connection are lost.

### Finding: the anchor of another version

`anchorCurrentSnapshot` files a receipt under the version it reads *after* the
chain has confirmed (`graph_store.ts:319`). When an event is ingested meanwhile,
the export shows the receipt of version v as the `latest_anchor` of version
v + 1, which `tests/fan-pass-hub.ts:111` says it is not. `graph_store_anchor`
shows the behaviour, in four steps. The receipt itself stays truthful
(`ReceiptTellsTruth`), and a restart files it under its own version.

### Finding: two decisions for one snapshot

`quoteHubDecision` looks into the cache before it awaits the oracle
(`decision_engine.ts:231`) and fills it afterwards. Overlapping requests with the
same proofs both miss; the oracle claims the proofs for one of them and refuses
the other, so that one input has two decisions at one version, where
`tests/fan-pass-hub.ts:38` says it has one. `hub_overlap` shows it.

### Finding: suspicious telemetry softens a refusal

When the oracle refuses proofs, the fallback decides `block`, but a `step_up` bias
replaces that (`decision_engine.ts:270`); on the signed path the bias only makes
decisions stricter. `tests/fan-pass-hub.ts:61` says that invalid proofs block.
`hub_suspicious` shows `step_up` for refused proofs.

## 4. Proofs

All properties below hold for any values of the constants that satisfy the named
assumptions of the modules: any number of wallets, payloads, processes, requests
and identifiers, without the bounds of the instances.

| module | theorem | argument |
|---|---|---|
| `TicketProgramProofs` | `TypeCorrect` | per action; no balance goes negative because `CanPay` covers what each update takes |
| | `CustodyHolds` | the invariant `Custody`: every mint is unissued, held, on sale or burned, and each of these says where its token is and which accounts it may have |
| | `OneTokenInOnePlace` (until it is burned), `ListingsAgree`, `NoLeftoverAccounts` | consequences of `Custody` |
| | `ListingsStayReady` | what `Custody` says of a listing is what cancel and fill ask of its accounts |
| | `ReceiptsKeepHistory`, `StrandedForever` | action properties, per action, from `Custody` |
| | `PaymentsBuyTickets` | only `ExecuteShield` and `FillTicketListing` take more than a deposit, each from the wallet it makes the holder |
| | `ProgramImplementsLedger` | every instruction is a step of `TicketOwnership` or a stutter |
| `GraphStoreProofs` | `TypesHold`, `NoAcknowledgedEventLost`, `NoVersionToldTwice`, `ReceiptsAreTruthful`, `FileNeverShrinks` | the invariant `Durable` |
| `OracleIssuanceProofs` | `TypesKept` | per action |
| | `ClaimsNeverOverlap` | the invariant `Ledger`: a live claim is covered by the key of its place, and a key stands for a claim |
| | `ProofsUsedOnce` | `SerialsHold` and `PaidHolds`: what a request has passed in its bundle was granted to it, in Redis if that is required |
| | `OneActive` | `Active`: `seenProofByUniq` covers every attestation of the current life |
| | `RefusalsAlwaysJustified` | `Ledger` and `Active`, step by step |
| `HubWorkflowProofs` | `InvariantHolds` | `Calls`, `Sound`, `Single`, `Unused`, per action |
| | `ExecutedAlwaysAttested` | `Sound`: a quote that allows, wherever it is, was signed for its input |
| | `AttestationsServeOneSnapshot` | `Single`: one serial is borne by one input and version |
| | `HubInvHolds` | `HubInv`: the above with the store's `Durable` and `OnRecord`, per action |
| | `ExecutedStaysOnRecord`, `TypesHold` | consequences of `HubInv` |
| | `HubUsesTheStore` | every step of the hub is a step of `GraphStore` or leaves its variables alone |
| `RateLimitProofs` | `InvariantHolds`, `TypesKept` | per action |
| | `LimitKept` | `TokensCounted` and `TokensDistinct`: the counter has gone past every token given out |
| | `WaitingAlwaysPaysOff` | `Promises`: a refusal names the end of its window or a later time, in Redis up to half a second less, by which TTL rounds |
| | `NothingResetEarly` | the time of a request is never ahead of the clock |
| `LabSessionProofs` | `InvariantHolds`, `TypesKept` | per action; normalised and merged telemetry is telemetry |
| | `SamplesAreEarned`, `HitsAreNotBlocked` | the scores as sums of bounded parts |
| | `RecordsMixByOverlap` | what waits without overlap has `latest` as it scored it |
| `HideSisProofs` | `WorldTypesHold` | every field of the play and every score in its range, through each clamp and each rounded division |
| | `ModelAlwaysMovesLittle` | a weighted sum of four changes, each within three points and scaled down together beyond six, whichever half points the doubles fall short of (`Under` is any set) |
| | `ExhaustedIsAlwaysSettled` | `Settling`: while time is used up, somebody is still to settle the session |
| | `SettledStaysFinal`, `LateTruthAlwaysNeedsCore` | per action; the second from what the phase gate lets `After` gain |
| | `TicksAreAlwaysCounted` | `Ticking`: a finite set of counters whose total is the number of actions; an action adds one to the counter of one key, old or new |
| | `StoryIsWalked` | the invariant `Walked`, choice by choice of the story |
| | `StoryTypesHold`, `StoryIsNeverBlocked`, `DignityGateAlwaysFollowsMode` | consequences of `Walked` |
| | `EndingAlwaysImproves` | the last choice leaves everything an ending depends on but the pollution, which it lowers |
| | `ReplayNeverEverFlatters` | `ReplayInv`: every function with the equation of the replay tells the session as `Told` says, event by event |
| `SentinelProofs` | `InvariantHolds`, `TypesKept` | per action |
| | `EventsCountOnce` | `Pipeline` |
| | `PatchesKeepApart` | `Spaced` |

Why the strengthenings are needed. `TokenInOnePlace` alone does not exclude a
listing without escrow, from which a cancellation would make a second token:
`Custody` says where everything is in each situation. In the graph
store the properties are about the file, but a failed write leaves memory ahead
of it, so `Durable` relates the two (what is in the file is in memory, and
versions told are at most the file's) together with what anchor calls have sent.
In the oracle two claims are compared by time, but the code only sees the key:
`Ledger` says that the key outlives every claim, in Redis and in the current
life of each process, and that it stands for some claim, which is what a refusal
needs.

In the hub a property about executed workflows depends on where a quote has been:
it is signed for a request, cached, served to another one, and carried to the
answer. `Bears` names all these places at once; a serial is not borne before it
is asked for, and then by one input at one version. Nothing is needed of the
graph for that, so failed writes and versions taken back cannot disturb it.
That an executed workflow is on record does need the graph: each request knows
which events it has recorded so far, `OnRecord` keeps them in the file from the
step that wrote them to the answer and beyond, and what keeps them there is the
store's own `Durable`, whose proof carries over because the hub writes by the
store's operations only (`HubUsesTheStore`). Relations are needed in memory as
well, since the next write replaces the file by what memory holds. In the rate limiter a reply is used
later than it was counted; the invariant says of each token, in hand or in the
history, that the counter is at or past it, and that its TTL is what was left then,
rounded: the request comes back the later for every step it took since. In the lab the parts of the score
are bounded one by one: without the quiz the confidence stays below 52, without
the reading time below 74, in a pressure event below 72, and a hit has at least
41. In the sentinel the pipeline is ordered by observation, so that eviction from
the front leaves only fresh samples in the window, and every fresh sample is known
to the dedupe, for no longer than its own age: it is still remembered because
`DedupeTtl >= Window`, which the shipped configuration satisfies (20 and 10
seconds) and nothing enforces. A confirmed landing is no more recent than the last
success, and nothing is sent before the cooldown is over.

In the story no property is inductive alone, because each is about where a walk
ends. `Walked` ties the node to what came before it: which nodes were played, so
that every interrogation is a first attempt and costs at most 2200 of 10000; the
most a chapter can have cost so far, so that at its last interrogation 5600 are
left; and how far dignity has come from its start, by at most 3 down at node 12,
which node 22 makes good, and 8 up in all. Hence verified players (72 and more)
pass the gate of 70 at the end, and guests (at most 58) do not. In the open world
the bound on what the model moves is one of arithmetic: of changes that are scaled
down together beyond six points, no combination weighs more than two points of
the composite, and rounding a sum that moved by at most two points moves by at
most two, or by three where it starts from a half that the doubles fall short of.
The replay is computed from the whole history, which no prover here can
reason about by induction; `ReplayInv` does that work along the steps of the
session instead. A replay of a longer history, restricted to the shorter one, is a
replay of it, so a recorded event adds one `Step` to what was shown before.
`Told` is stronger than the property: any pollution shows, not only what counts,
the last decision is known, and until the session is final the dignity is that it
started with, which is why a guess cannot open the gate for anyone the mode
excludes. `Settling` is needed because time is used up by one request and the
ending is asked for by another.

Two of the proofs meet a sum or an order of updates. `MapThenSumSet` adds up the
counters in the order in which `CHOOSE` picks their keys, so that nothing about a
sum is obvious: that it does not depend on the order (`TotalWithout`) is shown for
every finite set by taking a smallest subset for which it fails (`SmallestSet`,
from the library's theorem that strict inclusion of finite sets is well founded)
and computing it in two ways. In the ticket program who pays and who is paid may
be one wallet (the seller or the buyer may be the treasury), so the balances an
instruction changes are updated one after the other, `Credited` applied to what
`Debited` left; the lemmas on balances treat wallets that coincide.

Only model-checked: the liveness properties of the sentinel; `ListingsCanBeClosed`,
which is stated with `ENABLED` (`ListingsStayReady` proves the guards behind it);
and the properties of the graph store where reads of the file fail
(`UnreliableSpec`), while the theorems are about a file that can be read (`Spec`).

## 5. Fairness

Only the sentinel's specification states fairness: weak fairness of the detection
loop but while it asks the agent (`LoopStep /\ ~Asking`), of queueing (`Enqueue`) and
of delivery. tokio polls both tasks for ever, the calls to the node end with an
answer or an error (then `Fail`), by the time limit of the RPC client and the expiry
of the transaction's blockhash, and a node delivers while it is connected. The call
of the agent (`main.rs:441-444`) has no limit of time, so nothing is assumed of it:
it may answer anything, fail, or never end, and the liveness properties say what
holds when it does not hang (`AgentHangs`). Nothing is assumed of transactions
landing, of reconnecting or of the administrator.

Elsewhere no liveness is claimed. Nobody is obliged to send a transaction; a
request to the oracle may wait as long as its Redis client reconnects, and an
anchor call or a scene as long as the chain or the model does not answer, since
the code sets no limit of its own. Availability is stated as what is possible in
every state (`ListingsCanBeClosed`, `NeverBlocked`) or as what is never refused
without cause (`RefusalsJustified`, `WaitingPaysOff`).

## 6. Not modelled

- program: recorded timestamps and events (no instruction reads them), lamports
  sent to a derived address before it is used, a transfer of the upgrade
  authority, sizes of deposits, the byte layout of payloads and the inspection of
  the ed25519 instruction (a payload is signed by a key or it is not).
- graph store: two processes on one file, a file that parses but whose entries are
  not what the code wrote, reputation.
- oracle: which checks a proof passes, the score, a clock that goes back.
- hub: prices, release and catalogue data, the time of a quote (a cached quote is
  served past its `expires_at`, without a check, until the version moves), and
  `max_supply` and `required_reputation`, which no code enforces.
- VRGDA pricing: a pure function in 96-bit fixed point, whose values TLC cannot
  enumerate; price and blocked flag are free inputs of the program model.
- sentinel: how the three dimensions are judged (floating point), the messages of
  agent and node, and the contents of a patch beyond its hash.
- games: texts, hints, previews and guidance; the catalogue of the lab only reads.
- dignity scoring, the v1 program, the client and SDK, the web pages and routes,
  scripts and demos: pure sums, a superseded version, encoding and I/O. They are
  listed in `PROJECT.json` with the reason. Much of the repository's volume is of
  this kind (transaction builders, address derivation, pages, smoke scripts), keeps
  no state of its own, and has nothing a model of this project would tell apart.

## 7. Plan

Done, in this order: TicketProgram, GraphStore, OracleIssuance and HubWorkflow;
then RateLimit, HideSisSession with its replay, OpenWorld, LabSession and
Sentinel; proofs of every safety property the runs check but the one named in
section 4. What a next step would be:

1. The fixed-point functions of the VRGDA against exact rationals at small widths.
2. More of the hub: releases and the catalogue.
