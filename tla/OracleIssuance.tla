---------------------------- MODULE OracleIssuance ----------------------------
(***************************************************************************)
(* How the shield oracle issues attestations                               *)
(* (services/shield-oracle/src: handler.ts, reclaim_verify.ts,             *)
(* proof_replay_store.ts): a verified request claims the identifiers of    *)
(* its proofs one by one, in Redis or in the memory of its process, before *)
(* the attestation is signed. Several processes share Redis; each runs one *)
(* synchronous part at a time, and requests interleave at the awaits.      *)
(* Time is in seconds.                                                     *)
(***************************************************************************)
EXTENDS Naturals, Sequences

CONSTANTS
  Process,
  Request,     \* slots for concurrent requests
  Wallet, Identifier, Hash,
  Input,       \* the requests that are tried
  ClaimTtl,    \* RECLAIM_REPLAY_TTL_SECONDS
  ProofTtl,    \* PROOF_TTL_SECONDS
  MaxSerial,   \* bound: requests received
  MaxLife,     \* bound: restarts of one process
  MaxNow,      \* bound: the last second explored
  None

(* A request: valid stands for the checks that precede the claims          *)
(* (ownership, signature, provider, context, non-empty identifiers), and   *)
(* encodable for the ranges that serializeShieldPayloadV0 enforces. The    *)
(* caller may choose the hash.                                             *)
RequestInput == [verified : BOOLEAN, valid : BOOLEAN, encodable : BOOLEAN,
                 wallet : Wallet, hash : Hash, bundle : Seq(Identifier)]

ASSUME InputAssumption ==
  /\ Input \subseteq RequestInput
  /\ \A input \in Input : input.verified /\ input.valid => input.bundle # <<>>
ASSUME AmountAssumption ==
  /\ ClaimTtl \in Nat \ {0} /\ ProofTtl \in Nat \ {0}
  /\ MaxSerial \in Nat /\ MaxLife \in Nat /\ MaxNow \in Nat

VARIABLES
  requireRedis,  \* requireRedisForReplayProtection(), fixed by the environment
  redis,         \* when the key of each identifier expires; 0: no key
  memory,        \* the same of the memoryStore of each process
  seen,          \* seenProofByUniq of each process: expiry by (hash, wallet)
  life,          \* restarts of each process
  call,          \* requests in progress
  answer,        \* the answer given in the last step, or None
  fresh,         \* the next request's serial
  grants,        \* history of claims that took effect
  issued,        \* history of attestations signed
  now

stores == <<redis, memory, seen>>
vars == <<requireRedis, redis, memory, seen, life, call, answer, fresh, grants, issued, now>>

Status == {"ok", "invalid", "replayed", "unavailable", "reused", "error"}

(* Where a claim is kept: Redis, or the memory of one life of a process.   *)
InRedis == <<None, 0>>
Place == {InRedis} \cup (Process \X Nat)
Grant == [id : Identifier, at : Nat, place : Place, to : Nat]
Attestation == [serial : Nat, process : Process, life : Nat, input : Input, at : Nat]

(* The claims of bundle[1] .. bundle[next - 1] were granted; next = 0      *)
(* while the proofs are being verified.                                    *)
Call == [serial : Nat, process : Process, input : Input, next : Nat]

ASSUME NoneAssumption ==
  None \notin Call \cup Process \cup [request : Request, status : Status]

Init ==
  /\ requireRedis \in BOOLEAN
  /\ redis = [i \in Identifier |-> 0]
  /\ memory = [p \in Process |-> [i \in Identifier |-> 0]]
  /\ seen = [p \in Process |-> [u \in Hash \X Wallet |-> 0]]
  /\ life = [p \in Process |-> 0]
  /\ call = [r \in Request |-> None]
  /\ answer = None
  /\ fresh = 0
  /\ grants = {}
  /\ issued = {}
  /\ now = 0

-----------------------------------------------------------------------------
Answer(r, status) ==
  /\ call' = [call EXCEPT ![r] = None]
  /\ answer' = [request |-> r, status |-> status]

Attested(c) ==
  [serial |-> c.serial, process |-> c.process, life |-> life[c.process],
   input |-> c.input, at |-> now]

Uniq(input) == <<input.hash, input.wallet>>

(* The part of handleShieldScoreRequest after the verification, which does *)
(* not await: sign, and remember a verified proof for as long as the       *)
(* attestation is valid.                                                   *)
IssueForgetting(r, c) ==
  IF ~c.input.encodable
  THEN Answer(r, "error") /\ UNCHANGED <<seen, issued>>
  ELSE /\ Answer(r, "ok")
       /\ issued' = issued \cup {Attested(c)}
       /\ UNCHANGED seen
Issue(r, c) ==
  LET p == c.process
      u == Uniq(c.input) IN
  IF c.input.verified /\ seen[p][u] > now
  THEN Answer(r, "reused") /\ UNCHANGED <<seen, issued>>
  ELSE IF ~c.input.encodable
  THEN Answer(r, "error") /\ UNCHANGED <<seen, issued>>
  ELSE /\ Answer(r, "ok")
       /\ issued' = issued \cup {Attested(c)}
       /\ seen' = IF c.input.verified THEN [seen EXCEPT ![p][u] = now + ProofTtl] ELSE seen

(* A guest or a suspected bot is served at once; a verified request awaits *)
(* verifyProof.                                                            *)
Receive(r, p, input) ==
  LET c == [serial |-> fresh, process |-> p, input |-> input, next |-> 0] IN
  /\ call[r] = None
  /\ fresh < MaxSerial
  /\ fresh' = fresh + 1
  /\ IF input.verified
     THEN /\ call' = [call EXCEPT ![r] = c]
          /\ answer' = None
          /\ UNCHANGED <<seen, issued>>
     ELSE Issue(r, c)
  /\ UNCHANGED <<requireRedis, redis, memory, life, grants, now>>

(* verifyReclaimProofBundle up to the first claim.                         *)
Verify(r) ==
  /\ call[r] # None /\ call[r].next = 0
  /\ IF call[r].input.valid
     THEN call' = [call EXCEPT ![r].next = 1] /\ answer' = None
     ELSE Answer(r, "invalid")
  /\ UNCHANGED <<requireRedis, stores, life, fresh, grants, issued, now>>

-----------------------------------------------------------------------------
(* Claims (claimProofIdentifierForReplayProtection).                       *)

Claiming(r) == call[r] # None /\ call[r].next \in 1..Len(call[r].input.bundle)
Wanted(r) == call[r].input.bundle[call[r].next]

GrantOf(r, place) ==
  [id |-> Wanted(r), at |-> now, place |-> place, to |-> call[r].serial]

Advance(r) ==
  /\ call' = [call EXCEPT ![r].next = @ + 1]
  /\ answer' = None

(* SET key NX EX ttl, when the key is free.                                *)
KeyForever(i) == redis[i] = 0
KeyFree(i) == redis[i] <= now
SetKeyInMillis(i) == redis' = [redis EXCEPT ![i] = now + 1000 * ClaimTtl]
SetKey(i) == redis' = [redis EXCEPT ![i] = now + ClaimTtl]

ClaimInRedis(r) ==
  /\ Claiming(r)
  /\ KeyFree(Wanted(r))
  /\ SetKey(Wanted(r))
  /\ Advance(r)
  /\ grants' = grants \cup {GrantOf(r, InRedis)}
  /\ UNCHANGED <<requireRedis, memory, seen, life, fresh, issued, now>>

RefusedByRedis(r) ==
  /\ Claiming(r)
  /\ ~KeyFree(Wanted(r))
  /\ Answer(r, "replayed")
  /\ UNCHANGED <<requireRedis, stores, life, fresh, grants, issued, now>>

(* claimInMemory, with the expired entries swept first.                    *)
MemoryUnchecked(p, i) == TRUE
MemoryFree(p, i) == memory[p][i] <= now

(* Where a claim goes when there is no client or the SET throws.           *)
FallBackAlways(r, burned) ==
  LET p == call[r].process
      i == Wanted(r) IN
  /\ memory' = [memory EXCEPT ![p][i] = now + ClaimTtl]
  /\ grants' = grants \cup burned \cup {GrantOf(r, <<p, life[p]>>)}
  /\ Advance(r)
FallBack(r, burned) ==
  LET p == call[r].process
      i == Wanted(r) IN
  \/ /\ requireRedis
     /\ Answer(r, "unavailable")
     /\ grants' = grants \cup burned
     /\ UNCHANGED memory
  \/ /\ ~requireRedis
     /\ ~MemoryFree(p, i)
     /\ Answer(r, "replayed")
     /\ grants' = grants \cup burned
     /\ UNCHANGED memory
  \/ /\ ~requireRedis
     /\ MemoryFree(p, i)
     /\ memory' = [memory EXCEPT ![p][i] = now + ClaimTtl]
     /\ grants' = grants \cup burned \cup {GrantOf(r, <<p, life[p]>>)}
     /\ Advance(r)

(* No client, or a SET that failed without effect.                         *)
ClaimWithoutRedis(r) ==
  /\ Claiming(r)
  /\ FallBack(r, {})
  /\ UNCHANGED <<requireRedis, redis, seen, life, fresh, issued, now>>

(* The SET took effect, and the connection was lost before the reply.      *)
ClaimLosingReply(r) ==
  /\ Claiming(r)
  /\ KeyFree(Wanted(r))
  /\ SetKey(Wanted(r))
  /\ FallBack(r, {GrantOf(r, InRedis)})
  /\ UNCHANGED <<requireRedis, seen, life, fresh, issued, now>>

-----------------------------------------------------------------------------
Finish(r) ==
  /\ call[r] # None
  /\ call[r].next = Len(call[r].input.bundle) + 1
  /\ Issue(r, call[r])
  /\ UNCHANGED <<requireRedis, redis, memory, life, fresh, grants, now>>

(* The process dies with its memory and the requests it was serving.       *)
Restart(p) ==
  /\ life[p] < MaxLife
  /\ life' = [life EXCEPT ![p] = @ + 1]
  /\ memory' = [memory EXCEPT ![p] = [i \in Identifier |-> 0]]
  /\ seen' = [seen EXCEPT ![p] = [u \in Hash \X Wallet |-> 0]]
  /\ call' = [r \in Request |->
                IF call[r] # None /\ call[r].process = p THEN None ELSE call[r]]
  /\ answer' = None
  /\ UNCHANGED <<requireRedis, redis, fresh, grants, issued, now>>

Tick ==
  /\ now < MaxNow
  /\ now' = now + 1
  /\ answer' = None
  /\ UNCHANGED <<requireRedis, stores, life, call, fresh, grants, issued>>

Next ==
  \/ \E r \in Request, p \in Process, input \in Input : Receive(r, p, input)
  \/ \E r \in Request : Verify(r)
  \/ \E r \in Request : ClaimInRedis(r)
  \/ \E r \in Request : RefusedByRedis(r)
  \/ \E r \in Request : ClaimWithoutRedis(r)
  \/ \E r \in Request : ClaimLosingReply(r)
  \/ \E r \in Request : Finish(r)
  \/ \E p \in Process : Restart(p)
  \/ Tick

Spec == Init /\ [][Next]_vars

-----------------------------------------------------------------------------
(* Properties.                                                             *)

(* Types, with the bounds of what is counted: keys live for at most a      *)
(* lifetime, and serials have been given out.                              *)
TypeOK ==
  /\ requireRedis \in BOOLEAN
  /\ redis \in [Identifier -> Nat]
  /\ memory \in [Process -> [Identifier -> Nat]]
  /\ seen \in [Process -> [Hash \X Wallet -> Nat]]
  /\ life \in [Process -> Nat]
  /\ call \in [Request -> Call \cup {None}]
  /\ answer \in [request : Request, status : Status] \cup {None}
  /\ fresh \in Nat
  /\ grants \subseteq Grant
  /\ issued \subseteq Attestation
  /\ now \in Nat
  /\ \A i \in Identifier : redis[i] <= now + ClaimTtl
  /\ \A r \in Request : call[r] # None => call[r].serial < fresh
  /\ \A a \in issued : a.serial < fresh

Apart(s, t, gap) == s + gap <= t \/ t + gap <= s

(* Two claims of an identifier that took effect in one store, Redis or the *)
(* memory of one process life, are at least the claims' lifetime apart,    *)
(* whatever replies were lost and however requests interleave.             *)
ClaimsApart ==
  \A g, h \in grants :
    g # h /\ g.id = h.id /\ g.place = h.place => Apart(g.at, h.at, ClaimTtl)

Used(a) == {a.input.bundle[n] : n \in DOMAIN a.input.bundle}
PaidWith(a, i) == {g \in grants : g.to = a.serial /\ g.id = i}

(* Where Redis is required, two verified attestations that rest on the     *)
(* same proof identifier were paid for by claims a whole lifetime apart,   *)
(* over all processes, restarts and outages of Redis.                      *)
ProofUsedOncePerWindow ==
  requireRedis =>
    \A a, b \in issued :
      a # b /\ a.input.verified /\ b.input.verified =>
        \A i \in Used(a) \cap Used(b) :
          \E g \in PaidWith(a, i), h \in PaidWith(b, i) : Apart(g.at, h.at, ClaimTtl)

(* One life of a process never has two valid verified attestations for the *)
(* same proof hash and wallet, even if they rest on different identifiers  *)
(* and their requests overlapped.                                          *)
OneActivePerProcess ==
  \A a, b \in issued :
    /\ a # b /\ a.input.verified /\ b.input.verified
    /\ a.process = b.process /\ a.life = b.life
    /\ Uniq(a.input) = Uniq(b.input)
    => Apart(a.at, b.at, ProofTtl)

ReplayJustified(r) ==
  answer' = [request |-> r, status |-> "replayed"] =>
    \E g \in grants : g.id = Wanted(r) /\ g.at <= now /\ now < g.at + ClaimTtl
ReuseJustified(r) ==
  answer' = [request |-> r, status |-> "reused"] =>
    \E a \in issued :
      /\ a.process = call[r].process
      /\ Uniq(a.input) = Uniq(call[r].input)
      /\ now < a.at + ProofTtl

(* A request is refused as a replay only while some claim of the           *)
(* identifier is alive, and as reused only while its process has an        *)
(* unexpired attestation for the hash and wallet: a lapsed claim or an     *)
(* expired attestation never shuts an owner out.                           *)
RefusalsJustified ==
  [][\A r \in Request : ReplayJustified(r) /\ ReuseJustified(r)]_vars
=============================================================================
