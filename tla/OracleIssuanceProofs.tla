------------------------- MODULE OracleIssuanceProofs -------------------------
(* Proofs about OracleIssuance.                                              *)
EXTENDS OracleIssuance, TLAPS

(* Updating one entry of a function of functions.                            *)
LEMMA NestedUpdate ==
  ASSUME NEW S, NEW T, NEW f \in [S -> [T -> Nat]], NEW x \in S, NEW y \in T, NEW n \in Nat
  PROVE  [f EXCEPT ![x][y] = n] \in [S -> [T -> Nat]]
  OBVIOUS

(* A request in progress is well formed.                                     *)
LEMMA CallKnown ==
  ASSUME TypeOK, NEW r \in Request, call[r] # None
  PROVE  /\ call[r] \in Call
         /\ call[r].serial \in Nat /\ call[r].process \in Process
         /\ call[r].input \in Input /\ call[r].next \in Nat
         /\ call[r].input.bundle \in Seq(Identifier)
         /\ Uniq(call[r].input) \in Hash \X Wallet
<1>1. call[r] \in Call
  BY DEF TypeOK
<1>2. call[r].input \in RequestInput
  BY <1>1, InputAssumption DEF Call
<1> QED
  BY <1>1, <1>2 DEF Call, RequestInput, Uniq

(* What a claim asks for is an identifier.                                   *)
LEMMA WantedKnown ==
  ASSUME TypeOK, NEW r \in Request, Claiming(r)
  PROVE  Wanted(r) \in Identifier
<1>1. call[r].input.bundle \in Seq(Identifier) /\ call[r].next \in 1..Len(call[r].input.bundle)
  BY CallKnown DEF Claiming
<1> QED
  BY <1>1 DEF Wanted

LEMMA GrantKnown ==
  ASSUME TypeOK, NEW r \in Request, Claiming(r)
  PROVE  /\ GrantOf(r, InRedis) \in Grant
         /\ GrantOf(r, <<call[r].process, life[call[r].process]>>) \in Grant
<1>1. Wanted(r) \in Identifier /\ call[r].serial \in Nat /\ call[r].process \in Process
  BY WantedKnown, CallKnown DEF Claiming
<1>2. life[call[r].process] \in Nat /\ now \in Nat
  BY <1>1 DEF TypeOK
<1> QED
  BY <1>1, <1>2 DEF GrantOf, Grant, Place

(* Answering and advancing keep the requests well formed.                    *)
LEMMA AnswerTyped ==
  ASSUME TypeOK, NEW r \in Request, NEW status \in Status, Answer(r, status)
  PROVE  /\ call' \in [Request -> Call \cup {None}]
         /\ answer' \in [request : Request, status : Status] \cup {None}
         /\ \A q \in Request : call'[q] # None => call'[q].serial < fresh
  BY DEF TypeOK, Answer

LEMMA AdvanceTyped ==
  ASSUME TypeOK, NEW r \in Request, Claiming(r), Advance(r)
  PROVE  /\ call' \in [Request -> Call \cup {None}]
         /\ answer' \in [request : Request, status : Status] \cup {None}
         /\ \A q \in Request : call'[q] # None => call'[q].serial < fresh
<1>1. call[r] \in Call
  BY CallKnown DEF Claiming
<1>2. [call[r] EXCEPT !.next = @ + 1] \in Call
  BY <1>1 DEF Call
<1>3. call' = [call EXCEPT ![r] = [call[r] EXCEPT !.next = @ + 1]]
  BY <1>1 DEF Advance, TypeOK
<1>4. [call[r] EXCEPT !.next = @ + 1].serial = call[r].serial
  BY <1>1 DEF Call
<1> QED
  BY <1>1, <1>2, <1>3, <1>4 DEF TypeOK, Advance, Claiming

LEMMA IssueTyped ==
  ASSUME TypeOK, NEW r \in Request, NEW c \in Call, Issue(r, c),
         c.serial < fresh \/ (c.serial = fresh /\ fresh' = fresh + 1)
  PROVE  /\ call' \in [Request -> Call \cup {None}]
         /\ answer' \in [request : Request, status : Status] \cup {None}
         /\ \A q \in Request : call'[q] # None => call'[q].serial < fresh
         /\ seen' \in [Process -> [Hash \X Wallet -> Nat]]
         /\ issued' \subseteq Attestation
         /\ \A a \in issued' : a.serial < fresh \/ (a.serial = fresh /\ fresh' = fresh + 1)
<1>1. Uniq(c.input) \in Hash \X Wallet /\ c.process \in Process /\ c.serial \in Nat /\ c.input \in Input
  <2>1. c.input \in RequestInput
    BY InputAssumption DEF Call
  <2> QED
    BY <2>1 DEF Call, RequestInput, Uniq
<1>2. Attested(c) \in Attestation /\ Attested(c).serial = c.serial
  BY <1>1 DEF TypeOK, Attested, Attestation
<1>3. /\ now + ProofTtl \in Nat
      /\ seen \in [Process -> [Hash \X Wallet -> Nat]]
  <2>1. now \in Nat /\ seen \in [Process -> [Hash \X Wallet -> Nat]]
    BY DEF TypeOK
  <2>2. now + ProofTtl \in Nat
    BY <2>1, AmountAssumption
  <2> QED
    BY <2>1, <2>2
<1>4. Answer(r, "ok") \/ Answer(r, "error") \/ Answer(r, "reused")
  BY DEF Issue
<1>5. /\ call' \in [Request -> Call \cup {None}]
      /\ answer' \in [request : Request, status : Status] \cup {None}
      /\ \A q \in Request : call'[q] # None => call'[q].serial < fresh
  BY <1>4, AnswerTyped DEF Status
<1>6. issued' = issued \/ issued' = issued \cup {Attested(c)}
  BY DEF Issue
<1>7. seen' = seen \/ seen' = [seen EXCEPT ![c.process][Uniq(c.input)] = now + ProofTtl]
  BY DEF Issue
<1>8. seen' \in [Process -> [Hash \X Wallet -> Nat]]
  <2>1. [seen EXCEPT ![c.process][Uniq(c.input)] = now + ProofTtl]
          \in [Process -> [Hash \X Wallet -> Nat]]
    BY <1>1, <1>3, NestedUpdate
  <2> QED
    BY <1>3, <1>7, <2>1
<1> QED
  BY <1>2, <1>5, <1>6, <1>8 DEF TypeOK

(* What the fallback of a claim leaves: the request answered or advanced,    *)
(* and memory and grants of their types.                                     *)
LEMMA FallBackTyped ==
  ASSUME TypeOK, NEW r \in Request, Claiming(r),
         NEW burned \in SUBSET Grant, FallBack(r, burned)
  PROVE  /\ call' \in [Request -> Call \cup {None}]
         /\ answer' \in [request : Request, status : Status] \cup {None}
         /\ \A q \in Request : call'[q] # None => call'[q].serial < fresh
         /\ memory' \in [Process -> [Identifier -> Nat]]
         /\ grants' \subseteq Grant
<1>1. Answer(r, "unavailable") \/ Answer(r, "replayed") \/ Advance(r)
  BY DEF FallBack
<1>2. memory' = memory
      \/ memory' = [memory EXCEPT ![call[r].process][Wanted(r)] = now + ClaimTtl]
  BY DEF FallBack
<1>3. Wanted(r) \in Identifier /\ call[r].process \in Process
  BY WantedKnown, CallKnown DEF Claiming
<1>4. memory' \in [Process -> [Identifier -> Nat]]
  <2>1. now + ClaimTtl \in Nat /\ memory \in [Process -> [Identifier -> Nat]]
    BY AmountAssumption DEF TypeOK
  <2> QED
    BY <1>2, <1>3, <2>1, NestedUpdate
<1>5. grants' = grants \cup burned
      \/ grants' = grants \cup burned \cup {GrantOf(r, <<call[r].process, life[call[r].process]>>)}
  BY DEF FallBack
<1>6. grants' \subseteq Grant
  <2>1. GrantOf(r, <<call[r].process, life[call[r].process]>>) \in Grant
    BY GrantKnown
  <2>2. grants \subseteq Grant
    BY DEF TypeOK
  <2> QED
    BY <1>5, <2>1, <2>2
<1> QED
  BY <1>1, <1>4, <1>6, AnswerTyped, AdvanceTyped DEF Status

LEMMA SetKeyTyped ==
  ASSUME TypeOK, NEW i \in Identifier, SetKey(i)
  PROVE  /\ redis' \in [Identifier -> Nat]
         /\ \A j \in Identifier : redis'[j] <= now + ClaimTtl
  BY AmountAssumption DEF TypeOK, SetKey

LEMMA TypeInit == Init => TypeOK
  BY AmountAssumption DEF Init, TypeOK

LEMMA TypeStep == TypeOK /\ [Next]_vars => TypeOK'
<1> SUFFICES ASSUME TypeOK, [Next]_vars PROVE TypeOK'
  OBVIOUS
<1>1. CASE UNCHANGED vars
  BY <1>1 DEF TypeOK, vars
<1>2. ASSUME NEW r \in Request, NEW p \in Process, NEW input \in Input, Receive(r, p, input)
      PROVE  TypeOK'
  <2> DEFINE c == [serial |-> fresh, process |-> p, input |-> input, next |-> 0]
  <2>1. c \in Call /\ c.serial = fresh /\ fresh \in Nat /\ fresh' = fresh + 1
    BY <1>2 DEF Call, TypeOK, Receive
  <2>2. CASE input.verified
    <3>1. call' = [call EXCEPT ![r] = c] /\ answer' = None /\ UNCHANGED <<seen, issued>>
      BY <1>2, <2>2 DEF Receive
    <3>2. \A q \in Request : call'[q] # None => call'[q].serial < fresh'
      <4> SUFFICES ASSUME NEW q \in Request, call'[q] # None
                   PROVE  call'[q].serial < fresh'
        OBVIOUS
      <4>1. CASE q = r
        <5>1. call'[q] = c
          BY <3>1, <4>1 DEF TypeOK
        <5> QED
          BY <2>1, <5>1
      <4>2. CASE q # r
        <5>1. call'[q] = call[q]
          BY <3>1, <4>2 DEF TypeOK
        <5>2. call[q].serial \in Nat /\ call[q].serial < fresh
          BY <5>1, CallKnown DEF TypeOK
        <5> QED
          BY <2>1, <5>1, <5>2
      <4> QED
        BY <4>1, <4>2
    <3>3. \A a \in issued : a.serial < fresh'
      <4>1. \A a \in issued : a.serial \in Nat /\ a.serial < fresh
        BY DEF TypeOK, Attestation
      <4> QED
        BY <2>1, <4>1
    <3>4. call' \in [Request -> Call \cup {None}]
      BY <2>1, <3>1 DEF TypeOK
    <3>5. fresh' \in Nat
      BY <2>1
    <3> QED
      BY <1>2, <3>1, <3>2, <3>3, <3>4, <3>5 DEF TypeOK, Receive
  <2>3. CASE ~input.verified
    <3>1. Issue(r, c)
      BY <1>2, <2>3 DEF Receive
    <3>2. /\ call' \in [Request -> Call \cup {None}]
          /\ answer' \in [request : Request, status : Status] \cup {None}
          /\ \A q \in Request : call'[q] # None => call'[q].serial < fresh
          /\ seen' \in [Process -> [Hash \X Wallet -> Nat]]
          /\ issued' \subseteq Attestation
          /\ \A a \in issued' : a.serial < fresh \/ (a.serial = fresh /\ fresh' = fresh + 1)
      BY <2>1, <3>1, IssueTyped
    <3>3. \A q \in Request : call'[q] # None => call'[q].serial \in Nat
      BY <3>2 DEF Call
    <3>4. \A a \in issued' : a.serial \in Nat
      BY <3>2 DEF Attestation
    <3>5. fresh' \in Nat
      BY <2>1
    <3> QED
      <4>1. \A q \in Request : call'[q] # None => call'[q].serial < fresh'
        BY <2>1, <3>2, <3>3
      <4>2. \A a \in issued' : a.serial < fresh'
        BY <2>1, <3>2, <3>4
      <4> QED
        BY <1>2, <2>1, <3>2, <3>5, <4>1, <4>2 DEF TypeOK, Receive
  <2> QED
    BY <2>2, <2>3
<1>3. ASSUME NEW r \in Request, Verify(r) PROVE TypeOK'
  <2>1. call[r] \in Call
    BY <1>3, CallKnown DEF Verify
  <2>2. [call[r] EXCEPT !.next = 1] \in Call /\ [call[r] EXCEPT !.next = 1].serial = call[r].serial
    BY <2>1 DEF Call
  <2>3. Answer(r, "invalid")
        \/ (call' = [call EXCEPT ![r] = [call[r] EXCEPT !.next = 1]] /\ answer' = None)
    BY <1>3 DEF Verify, TypeOK
  <2>4. /\ call' \in [Request -> Call \cup {None}]
        /\ answer' \in [request : Request, status : Status] \cup {None}
        /\ \A q \in Request : call'[q] # None => call'[q].serial < fresh
    <3>1. CASE Answer(r, "invalid")
      BY <3>1, AnswerTyped DEF Status
    <3>2. CASE call' = [call EXCEPT ![r] = [call[r] EXCEPT !.next = 1]] /\ answer' = None
      BY <1>3, <2>1, <2>2, <3>2 DEF TypeOK, Verify
    <3> QED
      BY <2>3, <3>1, <3>2
  <2> QED
    BY <1>3, <2>4 DEF Verify, TypeOK, stores
<1>4. ASSUME NEW r \in Request, ClaimInRedis(r) PROVE TypeOK'
  <2>1. Claiming(r) /\ Wanted(r) \in Identifier /\ GrantOf(r, InRedis) \in Grant
    BY <1>4, WantedKnown, GrantKnown DEF ClaimInRedis
  <2> QED
    BY <1>4, <2>1, AdvanceTyped, SetKeyTyped DEF ClaimInRedis, TypeOK
<1>5. ASSUME NEW r \in Request, RefusedByRedis(r) PROVE TypeOK'
  BY <1>5, AnswerTyped DEF RefusedByRedis, TypeOK, Status, stores
<1>6. ASSUME NEW r \in Request, ClaimWithoutRedis(r) PROVE TypeOK'
  BY <1>6, FallBackTyped DEF ClaimWithoutRedis, TypeOK
<1>7. ASSUME NEW r \in Request, ClaimLosingReply(r) PROVE TypeOK'
  <2>1. Claiming(r) /\ Wanted(r) \in Identifier /\ {GrantOf(r, InRedis)} \in SUBSET Grant
    BY <1>7, WantedKnown, GrantKnown DEF ClaimLosingReply
  <2> QED
    BY <1>7, <2>1, FallBackTyped, SetKeyTyped DEF ClaimLosingReply, TypeOK
<1>8. ASSUME NEW r \in Request, Finish(r) PROVE TypeOK'
  <2>1. call[r] \in Call /\ call[r].serial < fresh /\ Issue(r, call[r])
    BY <1>8, CallKnown DEF Finish, TypeOK
  <2>2. fresh' = fresh /\ fresh \in Nat
    BY <1>8 DEF Finish, TypeOK
  <2>3. /\ call' \in [Request -> Call \cup {None}]
        /\ answer' \in [request : Request, status : Status] \cup {None}
        /\ \A q \in Request : call'[q] # None => call'[q].serial < fresh
        /\ seen' \in [Process -> [Hash \X Wallet -> Nat]]
        /\ issued' \subseteq Attestation
        /\ \A a \in issued' : a.serial < fresh \/ (a.serial = fresh /\ fresh' = fresh + 1)
    BY <2>1, IssueTyped
  <2>4. \A a \in issued' : a.serial < fresh'
    BY <2>2, <2>3
  <2> QED
    BY <1>8, <2>2, <2>3, <2>4 DEF Finish, TypeOK
<1>9. ASSUME NEW p \in Process, Restart(p) PROVE TypeOK'
  BY <1>9 DEF Restart, TypeOK
<1>10. CASE Tick
  <2>1. \A i \in Identifier : redis[i] <= (now + 1) + ClaimTtl
    <3>1. now \in Nat /\ ClaimTtl \in Nat
      BY AmountAssumption DEF TypeOK
    <3>2. \A i \in Identifier : redis[i] \in Nat /\ redis[i] <= now + ClaimTtl
      BY DEF TypeOK
    <3> QED
      BY <3>1, <3>2
  <2>2. now' = now + 1 /\ now' \in Nat
    BY <1>10 DEF Tick, TypeOK
  <2>3. \A i \in Identifier : redis'[i] <= now' + ClaimTtl
    BY <1>10, <2>1, <2>2 DEF Tick, stores
  <2> QED
    BY <1>10, <2>2, <2>3 DEF Tick, TypeOK, stores
<1> QED
  BY <1>1, <1>2, <1>3, <1>4, <1>5, <1>6, <1>7, <1>8, <1>9, <1>10 DEF Next

(* Every variable keeps its type, no key outlives a claim's lifetime, and    *)
(* every serial in use has been given out (all of shield-oracle's handlers). *)
THEOREM TypesKept == Spec => []TypeOK
  BY TypeInit, TypeStep, PTL DEF Spec

-----------------------------------------------------------------------------
(* The stores. Their contents are parameters, since a claim may change       *)
(* Redis and the memory of a process in one step.                            *)

(* Claims lie in the past, in lives that began, are covered by the key of    *)
(* the place they were made in, and are apart.                               *)
Ledger(G, R, M, L, t) ==
  /\ \A g \in G : g.at <= t
  /\ \A g \in G, p \in Process, l \in Nat : g.place = <<p, l>> => l <= L[p]
  /\ \A g \in G : g.place = InRedis => g.at + ClaimTtl <= R[g.id]
  /\ \A g \in G, p \in Process : g.place = <<p, L[p]>> => g.at + ClaimTtl <= M[p][g.id]
  /\ \A g, h \in G :
       g # h /\ g.id = h.id /\ g.place = h.place => Apart(g.at, h.at, ClaimTtl)
  /\ \A i \in Identifier :
       R[i] = 0 \/ \E g \in G : g.id = i /\ g.at + ClaimTtl = R[i]
  /\ \A p \in Process, i \in Identifier :
       M[p][i] = 0 \/ \E g \in G : g.id = i /\ g.at + ClaimTtl = M[p][i]

StoresTyped(G, R, M, L, t) ==
  /\ G \subseteq Grant
  /\ R \in [Identifier -> Nat]
  /\ M \in [Process -> [Identifier -> Nat]]
  /\ L \in [Process -> Nat]
  /\ t \in Nat

(* Redis is no process.                                                      *)
LEMMA PlacesDiffer ==
  ASSUME NEW p \in Process, NEW l \in Nat
  PROVE  <<p, l>> # InRedis
  BY NoneAssumption DEF InRedis

(* A claim in Redis whose key was free keeps the ledger.                     *)
LEMMA RedisClaim ==
  ASSUME NEW G, NEW R, NEW M, NEW L, NEW t,
         StoresTyped(G, R, M, L, t), Ledger(G, R, M, L, t),
         NEW g \in Grant, g.place = InRedis, g.at = t, R[g.id] <= t
  PROVE  Ledger(G \cup {g}, [R EXCEPT ![g.id] = t + ClaimTtl], M, L, t)
<1> DEFINE R2 == [R EXCEPT ![g.id] = t + ClaimTtl]
           G2 == G \cup {g}
<1>1. g.id \in Identifier /\ t \in Nat /\ ClaimTtl \in Nat /\ ClaimTtl > 0
  BY AmountAssumption DEF Grant, StoresTyped
<1>2. /\ R2[g.id] = t + ClaimTtl
      /\ \A i \in Identifier : R[i] \in Nat
      /\ \A i \in Identifier : i # g.id => R2[i] = R[i]
  BY <1>1 DEF StoresTyped
<1>3. \A h \in G : h.at \in Nat /\ h.id \in Identifier
  BY DEF StoresTyped, Grant
<1>4. \A h \in G2 : h.at <= t
  BY <1>1 DEF Ledger
<1>5. \A h \in G2, p \in Process, l \in Nat : h.place = <<p, l>> => l <= L[p]
  BY PlacesDiffer DEF Ledger
<1>6. \A h \in G2 : h.place = InRedis => h.at + ClaimTtl <= R2[h.id]
  <2> SUFFICES ASSUME NEW h \in G2, h.place = InRedis PROVE h.at + ClaimTtl <= R2[h.id]
    OBVIOUS
  <2>1. CASE h = g
    BY <1>1, <1>2, <2>1
  <2>2. CASE h \in G /\ h.id = g.id
    <3>1. h.at + ClaimTtl <= R[h.id]
      BY <2>2 DEF Ledger
    <3> QED
      BY <1>1, <1>2, <1>3, <2>2, <3>1
  <2>3. CASE h \in G /\ h.id # g.id
    BY <1>2, <1>3, <2>3 DEF Ledger
  <2> QED
    BY <2>1, <2>2, <2>3
<1>7. \A h \in G2, p \in Process : h.place = <<p, L[p]>> => h.at + ClaimTtl <= M[p][h.id]
  <2>1. \A p \in Process : L[p] \in Nat
    BY DEF StoresTyped
  <2>2. \A p \in Process : g.place # <<p, L[p]>>
    BY <2>1, PlacesDiffer
  <2>3. \A h \in G, p \in Process : h.place = <<p, L[p]>> => h.at + ClaimTtl <= M[p][h.id]
    BY DEF Ledger
  <2> QED
    BY <2>2, <2>3
<1>8. \A h, k \in G2 :
        h # k /\ h.id = k.id /\ h.place = k.place => Apart(h.at, k.at, ClaimTtl)
  <2>1. \A h \in G : h.id = g.id /\ h.place = g.place => h.at + ClaimTtl <= g.at
    <3> SUFFICES ASSUME NEW h \in G, h.id = g.id, h.place = g.place
                 PROVE  h.at + ClaimTtl <= g.at
      OBVIOUS
    <3>1. h.at + ClaimTtl <= R[h.id]
      BY DEF Ledger
    <3> QED
      BY <1>1, <1>2, <1>3, <3>1
  <2> QED
    BY <2>1 DEF Ledger, Apart
<1>9. \A i \in Identifier : R2[i] = 0 \/ \E h \in G2 : h.id = i /\ h.at + ClaimTtl = R2[i]
  BY <1>1, <1>2 DEF Ledger
<1>10. \A p \in Process, i \in Identifier :
         M[p][i] = 0 \/ \E h \in G2 : h.id = i /\ h.at + ClaimTtl = M[p][i]
  BY DEF Ledger
<1> QED
  BY <1>4, <1>5, <1>6, <1>7, <1>8, <1>9, <1>10 DEF Ledger

(* So does one in the memory of a process, whose entry was free.             *)
LEMMA MemoryClaim ==
  ASSUME NEW G, NEW R, NEW M, NEW L, NEW t,
         StoresTyped(G, R, M, L, t), Ledger(G, R, M, L, t),
         NEW q \in Process,
         NEW g \in Grant, g.place = <<q, L[q]>>, g.at = t, M[q][g.id] <= t
  PROVE  Ledger(G \cup {g}, R, [M EXCEPT ![q][g.id] = t + ClaimTtl], L, t)
<1> DEFINE M2 == [M EXCEPT ![q][g.id] = t + ClaimTtl]
           G2 == G \cup {g}
<1>1. g.id \in Identifier /\ t \in Nat /\ ClaimTtl \in Nat /\ ClaimTtl > 0
  BY AmountAssumption DEF Grant, StoresTyped
<1>2. /\ M2[q][g.id] = t + ClaimTtl
      /\ \A p \in Process, i \in Identifier : M[p][i] \in Nat
      /\ \A p \in Process, i \in Identifier : ~(p = q /\ i = g.id) => M2[p][i] = M[p][i]
  BY <1>1 DEF StoresTyped
<1>3. \A h \in G : h.at \in Nat /\ h.id \in Identifier
  BY DEF StoresTyped, Grant
<1>4. \A h \in G2 : h.at <= t
  BY <1>1 DEF Ledger
<1>5. \A h \in G2, p \in Process, l \in Nat : h.place = <<p, l>> => l <= L[p]
  <2>1. L[q] \in Nat
    BY DEF StoresTyped
  <2>2. \A p \in Process, l \in Nat : g.place = <<p, l>> => p = q /\ l = L[q]
    OBVIOUS
  <2> QED
    BY <2>1, <2>2 DEF Ledger
<1>6. \A h \in G2 : h.place = InRedis => h.at + ClaimTtl <= R[h.id]
  <2>1. L[q] \in Nat
    BY DEF StoresTyped
  <2>2. g.place # InRedis
    BY <2>1, PlacesDiffer
  <2>3. \A h \in G : h.place = InRedis => h.at + ClaimTtl <= R[h.id]
    BY DEF Ledger
  <2> QED
    BY <2>2, <2>3
<1>7. \A h \in G2, p \in Process : h.place = <<p, L[p]>> => h.at + ClaimTtl <= M2[p][h.id]
  <2> SUFFICES ASSUME NEW h \in G2, NEW p \in Process, h.place = <<p, L[p]>>
               PROVE  h.at + ClaimTtl <= M2[p][h.id]
    OBVIOUS
  <2>1. CASE h = g
    <3>1. p = q
      BY <2>1
    <3> QED
      BY <1>1, <1>2, <2>1, <3>1
  <2>2. CASE h \in G /\ p = q /\ h.id = g.id
    <3>1. h.at + ClaimTtl <= M[p][h.id]
      BY <2>2 DEF Ledger
    <3> QED
      BY <1>1, <1>2, <1>3, <2>2, <3>1
  <2>3. CASE h \in G /\ ~(p = q /\ h.id = g.id)
    BY <1>2, <1>3, <2>3 DEF Ledger
  <2> QED
    BY <2>1, <2>2, <2>3
<1>8. \A h, k \in G2 :
        h # k /\ h.id = k.id /\ h.place = k.place => Apart(h.at, k.at, ClaimTtl)
  <2>1. \A h \in G : h.id = g.id /\ h.place = g.place => h.at + ClaimTtl <= g.at
    <3> SUFFICES ASSUME NEW h \in G, h.id = g.id, h.place = g.place
                 PROVE  h.at + ClaimTtl <= g.at
      OBVIOUS
    <3>1. h.at + ClaimTtl <= M[q][h.id]
      BY DEF Ledger
    <3> QED
      BY <1>1, <1>2, <1>3, <3>1
  <2> QED
    BY <2>1 DEF Ledger, Apart
<1>9. \A i \in Identifier : R[i] = 0 \/ \E h \in G2 : h.id = i /\ h.at + ClaimTtl = R[i]
  BY DEF Ledger
<1>10. \A p \in Process, i \in Identifier :
         M2[p][i] = 0 \/ \E h \in G2 : h.id = i /\ h.at + ClaimTtl = M2[p][i]
  BY <1>1, <1>2 DEF Ledger
<1> QED
  BY <1>4, <1>5, <1>6, <1>7, <1>8, <1>9, <1>10 DEF Ledger

(* A restart forgets the memory of a life in which no claim is ever made     *)
(* again.                                                                    *)
LEMMA LedgerRestart ==
  ASSUME NEW G, NEW R, NEW M, NEW L, NEW t,
         StoresTyped(G, R, M, L, t), Ledger(G, R, M, L, t), NEW q \in Process
  PROVE  Ledger(G, R, [M EXCEPT ![q] = [i \in Identifier |-> 0]],
                [L EXCEPT ![q] = @ + 1], t)
<1> DEFINE M2 == [M EXCEPT ![q] = [i \in Identifier |-> 0]]
           L2 == [L EXCEPT ![q] = @ + 1]
<1>1. /\ \A p \in Process : L[p] \in Nat
      /\ L2[q] = L[q] + 1 /\ \A p \in Process : p # q => L2[p] = L[p]
      /\ \A i \in Identifier : M2[q][i] = 0
      /\ \A p \in Process : p # q => M2[p] = M[p]
  BY DEF StoresTyped
<1>2. \A g \in G, p \in Process, l \in Nat : g.place = <<p, l>> => l <= L2[p]
  <2> SUFFICES ASSUME NEW g \in G, NEW p \in Process, NEW l \in Nat, g.place = <<p, l>>
               PROVE  l <= L2[p]
    OBVIOUS
  <2>1. l <= L[p]
    BY DEF Ledger
  <2>2. L2[p] = L[p] \/ L2[p] = L[p] + 1
    BY <1>1
  <2> QED
    BY <1>1, <2>1, <2>2
<1>3. \A g \in G, p \in Process : g.place = <<p, L2[p]>> => g.at + ClaimTtl <= M2[p][g.id]
  <2> SUFFICES ASSUME NEW g \in G, NEW p \in Process, g.place = <<p, L2[p]>>
               PROVE  g.at + ClaimTtl <= M2[p][g.id]
    OBVIOUS
  <2>1. CASE p = q
    <3>1. L[q] \in Nat /\ L2[p] = L[q] + 1
      BY <1>1, <2>1
    <3>2. L[q] + 1 \in Nat /\ g.place = <<q, L[q] + 1>>
      BY <2>1, <3>1
    <3>3. L[q] + 1 <= L[q]
      BY <3>2 DEF Ledger
    <3> QED
      BY <3>1, <3>3
  <2>2. CASE p # q
    BY <1>1, <2>2 DEF Ledger
  <2> QED
    BY <2>1, <2>2
<1>4. \A p \in Process, i \in Identifier :
        M2[p][i] = 0 \/ \E g \in G : g.id = i /\ g.at + ClaimTtl = M2[p][i]
  BY <1>1 DEF Ledger
<1> QED
  BY <1>2, <1>3, <1>4 DEF Ledger

LedgerHolds == Ledger(grants, redis, memory, life, now)

LEMMA StoresKnown == TypeOK => StoresTyped(grants, redis, memory, life, now)
  BY DEF TypeOK, StoresTyped

(* A step that leaves the stores alone.                                      *)
LEMMA LedgerLater ==
  ASSUME TypeOK, LedgerHolds, UNCHANGED <<grants, redis, memory, life>>,
         now' = now \/ now' = now + 1
  PROVE  LedgerHolds'
<1>1. now \in Nat /\ \A g \in grants : g.at \in Nat
  BY DEF TypeOK, Grant
<1>2. \A g \in grants : g.at <= now'
  BY <1>1 DEF LedgerHolds, Ledger
<1> QED
  BY <1>2 DEF LedgerHolds, Ledger

(* What a fallback does to memory and grants, the burned claims aside.       *)
LEMMA FallBackCases ==
  ASSUME TypeOK, NEW r \in Request, Claiming(r), NEW burned, FallBack(r, burned)
  PROVE  LET p == call[r].process
             g == GrantOf(r, <<p, life[p]>>) IN
         \/ memory' = memory /\ grants' = grants \cup burned
         \/ /\ memory[p][g.id] <= now
            /\ memory' = [memory EXCEPT ![p][g.id] = now + ClaimTtl]
            /\ grants' = (grants \cup burned) \cup {g}
  BY DEF FallBack, MemoryFree, GrantOf

LEMMA LedgerInit == Init => LedgerHolds
  BY DEF Init, LedgerHolds, Ledger

LEMMA LedgerStep == TypeOK /\ LedgerHolds /\ [Next]_vars => LedgerHolds'
<1> SUFFICES ASSUME TypeOK, LedgerHolds, [Next]_vars PROVE LedgerHolds'
  OBVIOUS
<1> USE StoresKnown
<1>1. CASE UNCHANGED vars
  BY <1>1, LedgerLater DEF vars
<1>2. ASSUME NEW r \in Request, NEW p \in Process, NEW input \in Input, Receive(r, p, input)
      PROVE  LedgerHolds'
  BY <1>2, LedgerLater DEF Receive
<1>3. ASSUME NEW r \in Request, Verify(r) PROVE LedgerHolds'
  BY <1>3, LedgerLater DEF Verify, stores
<1>4. ASSUME NEW r \in Request, ClaimInRedis(r) PROVE LedgerHolds'
  <2> DEFINE g == GrantOf(r, InRedis)
  <2>1. g \in Grant /\ g.place = InRedis /\ g.at = now /\ g.id = Wanted(r)
    BY <1>4, GrantKnown DEF ClaimInRedis, GrantOf
  <2>2. redis[g.id] <= now /\ redis' = [redis EXCEPT ![g.id] = now + ClaimTtl]
    BY <1>4, <2>1 DEF ClaimInRedis, KeyFree, SetKey
  <2>3. Ledger(grants \cup {g}, [redis EXCEPT ![g.id] = now + ClaimTtl], memory, life, now)
    BY <2>1, <2>2, RedisClaim DEF LedgerHolds
  <2> QED
    BY <1>4, <2>2, <2>3 DEF ClaimInRedis, LedgerHolds
<1>5. ASSUME NEW r \in Request, RefusedByRedis(r) PROVE LedgerHolds'
  BY <1>5, LedgerLater DEF RefusedByRedis, stores
<1>6. ASSUME NEW r \in Request, ClaimWithoutRedis(r) PROVE LedgerHolds'
  <2> DEFINE p == call[r].process
             g == GrantOf(r, <<p, life[p]>>)
  <2>1. g \in Grant /\ g.place = <<p, life[p]>> /\ g.at = now /\ p \in Process
    BY <1>6, GrantKnown, CallKnown DEF ClaimWithoutRedis, GrantOf, Claiming
  <2>2. \/ memory' = memory /\ grants' = grants
        \/ /\ memory[p][g.id] <= now
           /\ memory' = [memory EXCEPT ![p][g.id] = now + ClaimTtl]
           /\ grants' = grants \cup {g}
    <3>1. Claiming(r) /\ FallBack(r, {}) /\ grants \cup {} = grants
      BY <1>6 DEF ClaimWithoutRedis
    <3> QED
      BY <3>1, FallBackCases
  <2>3. CASE memory' = memory /\ grants' = grants
    BY <1>6, <2>3, LedgerLater DEF ClaimWithoutRedis
  <2>4. CASE /\ memory[p][g.id] <= now
             /\ memory' = [memory EXCEPT ![p][g.id] = now + ClaimTtl]
             /\ grants' = grants \cup {g}
    <3>1. Ledger(grants \cup {g}, redis, [memory EXCEPT ![p][g.id] = now + ClaimTtl], life, now)
      BY <2>1, <2>4, MemoryClaim DEF LedgerHolds
    <3> QED
      BY <1>6, <2>4, <3>1 DEF ClaimWithoutRedis, LedgerHolds
  <2> QED
    BY <2>2, <2>3, <2>4
<1>7. ASSUME NEW r \in Request, ClaimLosingReply(r) PROVE LedgerHolds'
  <2> DEFINE p == call[r].process
             b == GrantOf(r, InRedis)
             g == GrantOf(r, <<p, life[p]>>)
             G == grants \cup {b}
             R == [redis EXCEPT ![b.id] = now + ClaimTtl]
  <2>1. /\ b \in Grant /\ b.place = InRedis /\ b.at = now /\ b.id = Wanted(r)
        /\ g \in Grant /\ g.place = <<p, life[p]>> /\ g.at = now
        /\ p \in Process /\ Wanted(r) \in Identifier
    BY <1>7, GrantKnown, CallKnown, WantedKnown DEF ClaimLosingReply, GrantOf, Claiming
  <2>2. redis[b.id] <= now /\ redis' = R
    BY <1>7, <2>1 DEF ClaimLosingReply, KeyFree, SetKey
  <2>3. Ledger(G, R, memory, life, now)
    BY <2>1, <2>2, RedisClaim DEF LedgerHolds
  <2>4. StoresTyped(G, R, memory, life, now)
    <3>1. R \in [Identifier -> Nat]
      BY <1>7, <2>1, <2>2, SetKeyTyped DEF ClaimLosingReply
    <3> QED
      BY <2>1, <3>1 DEF StoresTyped
  <2>5. \/ memory' = memory /\ grants' = G
        \/ /\ memory[p][g.id] <= now
           /\ memory' = [memory EXCEPT ![p][g.id] = now + ClaimTtl]
           /\ grants' = G \cup {g}
    BY <1>7, FallBackCases DEF ClaimLosingReply
  <2>6. now' = now /\ life' = life
    BY <1>7 DEF ClaimLosingReply
  <2>7. CASE memory' = memory /\ grants' = G
    BY <2>2, <2>3, <2>6, <2>7 DEF LedgerHolds
  <2>8. CASE /\ memory[p][g.id] <= now
             /\ memory' = [memory EXCEPT ![p][g.id] = now + ClaimTtl]
             /\ grants' = G \cup {g}
    <3>1. Ledger(G \cup {g}, R, [memory EXCEPT ![p][g.id] = now + ClaimTtl], life, now)
      BY <2>1, <2>3, <2>4, <2>8, MemoryClaim
    <3> QED
      BY <2>2, <2>6, <2>8, <3>1 DEF LedgerHolds
  <2> QED
    BY <2>5, <2>7, <2>8
<1>8. ASSUME NEW r \in Request, Finish(r) PROVE LedgerHolds'
  BY <1>8, LedgerLater DEF Finish
<1>9. ASSUME NEW p \in Process, Restart(p) PROVE LedgerHolds'
  <2>1. Ledger(grants, redis, [memory EXCEPT ![p] = [i \in Identifier |-> 0]],
               [life EXCEPT ![p] = @ + 1], now)
    BY LedgerRestart DEF LedgerHolds
  <2> QED
    BY <1>9, <2>1 DEF Restart, LedgerHolds
<1>10. CASE Tick
  BY <1>10, LedgerLater DEF Tick, stores
<1> QED
  BY <1>1, <1>2, <1>3, <1>4, <1>5, <1>6, <1>7, <1>8, <1>9, <1>10 DEF Next

THEOREM LedgerAlways == Spec => []LedgerHolds
  BY LedgerInit, LedgerStep, TypesKept, PTL DEF Spec

(* Claims of one identifier in one store never overlap, whatever replies     *)
(* were lost (claimProofIdentifierForReplayProtection).                      *)
THEOREM ClaimsNeverOverlap == Spec => []ClaimsApart
<1>1. LedgerHolds => ClaimsApart
  BY DEF LedgerHolds, Ledger, ClaimsApart
<1> QED
  BY <1>1, LedgerAlways, PTL

-----------------------------------------------------------------------------
(* Requests and the attestations they lead to.                               *)

(* The claim of bundle[m] for the request with a serial took effect, in      *)
(* Redis if that is required.                                                *)
Covered(G, serial, bundle, m) ==
  \E g \in G : /\ g.to = serial /\ g.id = bundle[m]
               /\ requireRedis => g.place = InRedis

(* What a step may do to the request in a slot: end it, leave it, receive a  *)
(* new one, or move it past claims that took effect.                         *)
Received(q) ==
  /\ call[q] = None
  /\ call'[q].serial = fresh /\ call'[q].next = 0 /\ fresh' = fresh + 1
  /\ issued' = issued
  /\ \A o \in Request : o # q => call'[o] = call[o]
Moved(q) ==
  /\ call[q] # None
  /\ call'[q].serial = call[q].serial /\ call'[q].input = call[q].input
  /\ \A m \in 1..Len(call[q].input.bundle) :
       m < call'[q].next =>
         m < call[q].next \/ Covered(grants', call[q].serial, call[q].input.bundle, m)
CallMoves(q) == call'[q] = None \/ call'[q] = call[q] \/ Received(q) \/ Moved(q)

(* What it may do to the attestations: nothing, or sign one for a guest that *)
(* just arrived or for a request all of whose claims took effect.            *)
SignedFor(c) ==
  /\ issued' = issued \cup {Attested(c)}
  /\ \/ /\ c.serial = fresh /\ fresh' = fresh + 1 /\ ~c.input.verified
        /\ \A q \in Request : call'[q] # None => call'[q] = call[q]
     \/ \E r \in Request :
          /\ call[r] = c /\ c # None /\ c.next = Len(c.input.bundle) + 1
          /\ call'[r] = None
          /\ \A q \in Request : q # r => call'[q] = call[q]
IssuedMoves == issued' = issued \/ \E c \in Call : SignedFor(c)

LEMMA AnswerMoves ==
  ASSUME TypeOK, NEW r \in Request, NEW status, Answer(r, status)
  PROVE  call'[r] = None /\ \A q \in Request : q # r => call'[q] = call[q]
  BY DEF TypeOK, Answer

LEMMA AdvanceMoves ==
  ASSUME TypeOK, NEW r \in Request, Claiming(r), Advance(r),
         Covered(grants', call[r].serial, call[r].input.bundle, call[r].next)
  PROVE  \A q \in Request : CallMoves(q)
<1>1. call[r] \in Call /\ call[r].next \in Nat /\ call[r] # None
  BY CallKnown DEF Claiming
<1>2. call'[r] = [call[r] EXCEPT !.next = @ + 1] /\ \A q \in Request : q # r => call'[q] = call[q]
  BY DEF Advance, TypeOK
<1>3. /\ call'[r].serial = call[r].serial /\ call'[r].input = call[r].input
      /\ call'[r].next = call[r].next + 1
  BY <1>1, <1>2 DEF Call
<1>4. \A m \in 1..Len(call[r].input.bundle) :
        m < call'[r].next => m < call[r].next \/ m = call[r].next
  BY <1>1, <1>3
<1>5. Moved(r)
  BY <1>1, <1>3, <1>4 DEF Moved
<1> QED
  BY <1>2, <1>5 DEF CallMoves

(* A granted claim covers the identifier it was made for.                    *)
LEMMA GrantCovers ==
  ASSUME NEW r \in Request, NEW G, NEW place, GrantOf(r, place) \in G,
         requireRedis => place = InRedis
  PROVE  Covered(G, call[r].serial, call[r].input.bundle, call[r].next)
  BY DEF GrantOf, Wanted, Covered

LEMMA FallBackMoves ==
  ASSUME TypeOK, NEW r \in Request, Claiming(r), NEW burned, FallBack(r, burned)
  PROVE  \A q \in Request : CallMoves(q)
<1> DEFINE g == GrantOf(r, <<call[r].process, life[call[r].process]>>)
<1>1. CASE Answer(r, "unavailable") \/ Answer(r, "replayed")
  BY <1>1, AnswerMoves DEF CallMoves
<1>2. CASE ~requireRedis /\ g \in grants' /\ Advance(r)
  <2>1. Covered(grants', call[r].serial, call[r].input.bundle, call[r].next)
    BY <1>2, GrantCovers
  <2> QED
    BY <1>2, <2>1, AdvanceMoves
<1> QED
  BY <1>1, <1>2 DEF FallBack

(* How answering at the end of a request moves requests and attestations.    *)
LEMMA IssueCases ==
  ASSUME NEW r \in Request, NEW c \in Call, Issue(r, c)
  PROVE  LET p == c.process
             u == Uniq(c.input) IN
         /\ \E status \in Status : Answer(r, status)
         /\ \/ issued' = issued /\ seen' = seen
            \/ issued' = issued \cup {Attested(c)} /\ ~c.input.verified /\ seen' = seen
            \/ /\ issued' = issued \cup {Attested(c)} /\ c.input.verified
               /\ ~(seen[p][u] > now)
               /\ seen' = [seen EXCEPT ![p][u] = now + ProofTtl]
  BY DEF Issue, Status

LEMMA StepMoves ==
  ASSUME TypeOK, [Next]_vars
  PROVE  (\A q \in Request : CallMoves(q)) /\ IssuedMoves
<1>1. CASE UNCHANGED vars
  BY <1>1 DEF vars, CallMoves, IssuedMoves
<1>2. ASSUME NEW r \in Request, NEW p \in Process, NEW input \in Input, Receive(r, p, input)
      PROVE  (\A q \in Request : CallMoves(q)) /\ IssuedMoves
  <2> DEFINE c == [serial |-> fresh, process |-> p, input |-> input, next |-> 0]
  <2>1. /\ c \in Call /\ c.serial = fresh /\ c.next = 0 /\ c.input = input
        /\ fresh' = fresh + 1 /\ call[r] = None
    BY <1>2 DEF Call, TypeOK, Receive
  <2>2. CASE input.verified
    <3>1. call' = [call EXCEPT ![r] = c] /\ UNCHANGED issued
      BY <1>2, <2>2 DEF Receive
    <3>2. call'[r] = c /\ \A q \in Request : q # r => call'[q] = call[q]
      BY <3>1 DEF TypeOK
    <3>3. Received(r)
      BY <2>1, <3>1, <3>2 DEF Received
    <3> QED
      BY <3>1, <3>2, <3>3 DEF CallMoves, IssuedMoves
  <2>3. CASE ~input.verified
    <3>1. Issue(r, c)
      BY <1>2, <2>3 DEF Receive
    <3>2. \E status \in Status : Answer(r, status)
      BY <2>1, <3>1, IssueCases
    <3>3. call'[r] = None /\ \A q \in Request : q # r => call'[q] = call[q]
      BY <3>2, AnswerMoves
    <3>4. issued' = issued \/ issued' = issued \cup {Attested(c)}
      BY <2>1, <3>1, IssueCases
    <3>5. issued' = issued \cup {Attested(c)} => SignedFor(c)
      BY <2>1, <2>3, <3>3 DEF SignedFor
    <3> QED
      BY <2>1, <3>3, <3>4, <3>5 DEF CallMoves, IssuedMoves
  <2> QED
    BY <2>2, <2>3
<1>3. ASSUME NEW r \in Request, Verify(r)
      PROVE  (\A q \in Request : CallMoves(q)) /\ IssuedMoves
  <2>1. call[r] \in Call /\ call[r] # None /\ call[r].next = 0
    BY <1>3, CallKnown DEF Verify
  <2>2. CASE Answer(r, "invalid")
    BY <1>3, <2>2, AnswerMoves DEF CallMoves, IssuedMoves, Verify
  <2>3. CASE call' = [call EXCEPT ![r].next = 1]
    <3>1. call'[r] = [call[r] EXCEPT !.next = 1] /\ \A q \in Request : q # r => call'[q] = call[q]
      BY <2>3 DEF TypeOK
    <3>2. /\ call'[r].serial = call[r].serial /\ call'[r].input = call[r].input
          /\ call'[r].next = 1
      BY <2>1, <3>1 DEF Call
    <3>3. \A m \in 1..Len(call[r].input.bundle) : ~(m < 1)
      OBVIOUS
    <3>4. Moved(r)
      BY <2>1, <3>2, <3>3 DEF Moved
    <3> QED
      BY <1>3, <3>1, <3>4 DEF CallMoves, IssuedMoves, Verify
  <2> QED
    BY <1>3, <2>2, <2>3 DEF Verify
<1>4. ASSUME NEW r \in Request, ClaimInRedis(r)
      PROVE  (\A q \in Request : CallMoves(q)) /\ IssuedMoves
  <2>1. Covered(grants', call[r].serial, call[r].input.bundle, call[r].next)
    BY <1>4, GrantCovers DEF ClaimInRedis
  <2> QED
    BY <1>4, <2>1, AdvanceMoves DEF ClaimInRedis, IssuedMoves
<1>5. ASSUME NEW r \in Request, RefusedByRedis(r)
      PROVE  (\A q \in Request : CallMoves(q)) /\ IssuedMoves
  BY <1>5, AnswerMoves DEF RefusedByRedis, CallMoves, IssuedMoves
<1>6. ASSUME NEW r \in Request, ClaimWithoutRedis(r)
      PROVE  (\A q \in Request : CallMoves(q)) /\ IssuedMoves
  BY <1>6, FallBackMoves DEF ClaimWithoutRedis, IssuedMoves
<1>7. ASSUME NEW r \in Request, ClaimLosingReply(r)
      PROVE  (\A q \in Request : CallMoves(q)) /\ IssuedMoves
  BY <1>7, FallBackMoves DEF ClaimLosingReply, IssuedMoves
<1>8. ASSUME NEW r \in Request, Finish(r)
      PROVE  (\A q \in Request : CallMoves(q)) /\ IssuedMoves
  <2>1. /\ call[r] \in Call /\ call[r] # None /\ Issue(r, call[r])
        /\ call[r].next = Len(call[r].input.bundle) + 1
    BY <1>8, CallKnown DEF Finish
  <2>2. \E status \in Status : Answer(r, status)
    BY <2>1, IssueCases
  <2>3. call'[r] = None /\ \A q \in Request : q # r => call'[q] = call[q]
    BY <2>2, AnswerMoves
  <2>4. issued' = issued \/ issued' = issued \cup {Attested(call[r])}
    BY <2>1, IssueCases
  <2>5. issued' = issued \cup {Attested(call[r])} => SignedFor(call[r])
    BY <2>1, <2>3 DEF SignedFor
  <2> QED
    BY <2>1, <2>3, <2>4, <2>5 DEF CallMoves, IssuedMoves
<1>9. ASSUME NEW p \in Process, Restart(p)
      PROVE  (\A q \in Request : CallMoves(q)) /\ IssuedMoves
  BY <1>9 DEF Restart, CallMoves, IssuedMoves
<1>10. CASE Tick
  BY <1>10 DEF Tick, CallMoves, IssuedMoves
<1> QED
  BY <1>1, <1>2, <1>3, <1>4, <1>5, <1>6, <1>7, <1>8, <1>9, <1>10 DEF Next

(* No serial is shared.                                                      *)
SerialsHold ==
  /\ \A q, r \in Request :
       q # r /\ call[q] # None /\ call[r] # None => call[q].serial # call[r].serial
  /\ \A r \in Request, a \in issued : call[r] # None => a.serial # call[r].serial
  /\ \A a, b \in issued : a.serial = b.serial => a = b

LEMMA SerialsStep == TypeOK /\ SerialsHold /\ [Next]_vars => SerialsHold'
<1> SUFFICES ASSUME TypeOK, SerialsHold, [Next]_vars PROVE SerialsHold'
  OBVIOUS
<1>1. (\A q \in Request : CallMoves(q)) /\ IssuedMoves
  BY StepMoves
<1>2. /\ fresh \in Nat
      /\ \A r \in Request : call[r] # None => call[r].serial \in Nat /\ call[r].serial < fresh
      /\ \A a \in issued : a.serial \in Nat /\ a.serial < fresh
  BY CallKnown DEF TypeOK, Attestation
<1>3. \A q \in Request : call'[q] # None =>
        \/ call[q] # None /\ call'[q].serial = call[q].serial
        \/ Received(q)
  BY <1>1 DEF CallMoves, Moved
<1>4. \A q, r \in Request :
        q # r /\ call'[q] # None /\ call'[r] # None => call'[q].serial # call'[r].serial
  <2> SUFFICES ASSUME NEW q \in Request, NEW r \in Request, q # r,
                      call'[q] # None, call'[r] # None
               PROVE  call'[q].serial # call'[r].serial
    OBVIOUS
  <2>1. CASE Received(q)
    BY <1>2, <2>1 DEF Received
  <2>2. CASE Received(r)
    BY <1>2, <2>2 DEF Received
  <2>3. CASE ~Received(q) /\ ~Received(r)
    BY <1>3, <2>3 DEF SerialsHold
  <2> QED
    BY <2>1, <2>2, <2>3
<1>5. CASE issued' = issued
  <2>1. \A r \in Request, a \in issued : call'[r] # None => a.serial # call'[r].serial
    BY <1>2, <1>3 DEF SerialsHold, Received
  <2> QED
    BY <1>4, <1>5, <2>1 DEF SerialsHold
<1>6. ASSUME NEW c \in Call, SignedFor(c), issued' # issued PROVE SerialsHold'
  <2>1. \A q \in Request : ~Received(q)
    BY <1>6 DEF Received
  <2>2. Attested(c).serial = c.serial /\ issued' = issued \cup {Attested(c)}
    BY <1>6 DEF SignedFor, Attested
  <2>3. \A a \in issued : a.serial # c.serial
    BY <1>2, <1>6 DEF SignedFor, SerialsHold
  <2>4. \A r \in Request : call'[r] # None => call'[r].serial # c.serial
    BY <1>2, <1>6 DEF SignedFor, SerialsHold
  <2>5. \A r \in Request, a \in issued : call'[r] # None => a.serial # call'[r].serial
    BY <1>3, <2>1 DEF SerialsHold
  <2>6. \A r \in Request, a \in issued' : call'[r] # None => a.serial # call'[r].serial
    BY <2>2, <2>4, <2>5
  <2>7. \A a, b \in issued' : a.serial = b.serial => a = b
    BY <2>2, <2>3 DEF SerialsHold
  <2> QED
    BY <1>4, <2>6, <2>7 DEF SerialsHold
<1> QED
  BY <1>1, <1>5, <1>6 DEF IssuedMoves

-----------------------------------------------------------------------------
(* Every identifier a request has passed, and every one a verified           *)
(* attestation rests on, was claimed for it.                                 *)
PaidHolds ==
  /\ \A r \in Request : call[r] # None =>
       \A m \in 1..Len(call[r].input.bundle) :
         m < call[r].next => Covered(grants, call[r].serial, call[r].input.bundle, m)
  /\ \A a \in issued : a.input.verified =>
       \A m \in 1..Len(a.input.bundle) : Covered(grants, a.serial, a.input.bundle, m)

LEMMA GrantsGrow ==
  ASSUME [Next]_vars
  PROVE  grants \subseteq grants' /\ requireRedis' = requireRedis
<1>1. CASE UNCHANGED vars
  BY <1>1 DEF vars
<1>2. ASSUME NEW r \in Request, NEW burned, FallBack(r, burned)
      PROVE  grants \subseteq grants'
  BY <1>2 DEF FallBack
<1>3. CASE \E r \in Request : ClaimWithoutRedis(r) \/ ClaimLosingReply(r)
  BY <1>2, <1>3 DEF ClaimWithoutRedis, ClaimLosingReply
<1>4. CASE \E r \in Request :
             ClaimInRedis(r) \/ RefusedByRedis(r) \/ Verify(r) \/ Finish(r)
  BY <1>4 DEF ClaimInRedis, RefusedByRedis, Verify, Finish
<1>5. CASE Tick \/ \E p \in Process : Restart(p)
  BY <1>5 DEF Tick, Restart
<1>6. CASE \E r \in Request, p \in Process, input \in Input : Receive(r, p, input)
  BY <1>6 DEF Receive
<1> QED
  BY <1>1, <1>3, <1>4, <1>5, <1>6 DEF Next

LEMMA CoveredKept ==
  ASSUME [Next]_vars, NEW serial, NEW bundle, NEW m, Covered(grants, serial, bundle, m)
  PROVE  Covered(grants, serial, bundle, m)'
  BY GrantsGrow DEF Covered

LEMMA PaidStep == TypeOK /\ PaidHolds /\ [Next]_vars => PaidHolds'
<1> SUFFICES ASSUME TypeOK, PaidHolds, [Next]_vars PROVE PaidHolds'
  OBVIOUS
<1>1. (\A q \in Request : CallMoves(q)) /\ IssuedMoves
  BY StepMoves
<1>2. requireRedis' = requireRedis
  BY GrantsGrow
<1>3. ASSUME NEW q \in Request, call'[q] # None,
             NEW m \in 1..Len(call'[q].input.bundle), m < call'[q].next
      PROVE  Covered(grants, call[q].serial, call[q].input.bundle, m)'
  <2>1. CASE Received(q)
    BY <1>3, <2>1 DEF Received
  <2>2. CASE call'[q] = call[q]
    <3>1. Covered(grants, call[q].serial, call[q].input.bundle, m)
      BY <1>3, <2>2 DEF PaidHolds
    <3> QED
      BY <2>2, <3>1, CoveredKept, GrantsGrow DEF Covered
  <2>3. CASE Moved(q)
    <3>1. /\ call'[q].serial = call[q].serial /\ call'[q].input = call[q].input
          /\ call[q] # None /\ m \in 1..Len(call[q].input.bundle)
      BY <1>3, <2>3 DEF Moved
    <3>2. \/ Covered(grants, call[q].serial, call[q].input.bundle, m)
          \/ Covered(grants', call[q].serial, call[q].input.bundle, m)
      BY <1>3, <2>3, <3>1 DEF Moved, PaidHolds
    <3> QED
      BY <1>2, <3>1, <3>2, GrantsGrow DEF Covered
  <2> QED
    BY <1>1, <1>3, <2>1, <2>2, <2>3 DEF CallMoves
<1>4. ASSUME NEW a \in issued', a.input.verified, NEW m \in 1..Len(a.input.bundle)
      PROVE  Covered(grants, a.serial, a.input.bundle, m)'
  <2>1. CASE a \in issued
    <3>1. Covered(grants, a.serial, a.input.bundle, m)
      BY <1>4, <2>1 DEF PaidHolds
    <3> QED
      BY <3>1, GrantsGrow DEF Covered
  <2>2. ASSUME NEW c \in Call, SignedFor(c), a = Attested(c)
        PROVE  Covered(grants, a.serial, a.input.bundle, m)'
    <3>1. a.serial = c.serial /\ a.input = c.input
      BY <2>2 DEF Attested
    <3>2. PICK r \in Request : call[r] = c /\ c # None /\ c.next = Len(c.input.bundle) + 1
      BY <1>4, <2>2, <3>1 DEF SignedFor
    <3>3. m < c.next
      <4>1. c.input.bundle \in Seq(Identifier)
        BY <3>2, CallKnown
      <4> QED
        BY <1>4, <3>1, <3>2, <4>1
    <3>4. Covered(grants, c.serial, c.input.bundle, m)
      BY <1>4, <3>1, <3>2, <3>3 DEF PaidHolds
    <3> QED
      BY <3>1, <3>4, GrantsGrow DEF Covered
  <2> QED
    BY <1>1, <2>1, <2>2 DEF IssuedMoves, SignedFor
<1> QED
  BY <1>3, <1>4 DEF PaidHolds

THEOREM PaidAlways == Spec => [](SerialsHold /\ PaidHolds)
<1>1. Init => SerialsHold /\ PaidHolds
  BY DEF Init, SerialsHold, PaidHolds
<1>2. TypeOK /\ SerialsHold /\ PaidHolds /\ [Next]_vars => SerialsHold' /\ PaidHolds'
  BY SerialsStep, PaidStep
<1> QED
  BY <1>1, <1>2, TypesKept, PTL DEF Spec

(* Where Redis is required, attestations that rest on one identifier were    *)
(* paid for by claims a lifetime apart, over all processes, restarts and     *)
(* outages (verifyReclaimProofBundle with the replay store).                 *)
THEOREM ProofsUsedOnce == Spec => []ProofUsedOncePerWindow
<1>1. ASSUME TypeOK, LedgerHolds, SerialsHold, PaidHolds PROVE ProofUsedOncePerWindow
  <2> SUFFICES ASSUME requireRedis, NEW a \in issued, NEW b \in issued, a # b,
                      a.input.verified, b.input.verified, NEW i \in Used(a) \cap Used(b)
               PROVE  \E g \in PaidWith(a, i), h \in PaidWith(b, i) :
                        Apart(g.at, h.at, ClaimTtl)
    BY DEF ProofUsedOncePerWindow
  <2>1. a.input.bundle \in Seq(Identifier) /\ b.input.bundle \in Seq(Identifier)
    <3>1. a \in Attestation /\ b \in Attestation
      BY <1>1 DEF TypeOK
    <3>2. a.input \in RequestInput /\ b.input \in RequestInput
      BY <3>1, InputAssumption DEF Attestation
    <3> QED
      BY <3>2 DEF RequestInput
  <2>2. PICK m \in 1..Len(a.input.bundle) : a.input.bundle[m] = i
    BY <2>1 DEF Used
  <2>3. PICK n \in 1..Len(b.input.bundle) : b.input.bundle[n] = i
    BY <2>1 DEF Used
  <2>4. PICK g \in grants : g.to = a.serial /\ g.id = i /\ g.place = InRedis
    BY <1>1, <2>2 DEF PaidHolds, Covered
  <2>5. PICK h \in grants : h.to = b.serial /\ h.id = i /\ h.place = InRedis
    BY <1>1, <2>3 DEF PaidHolds, Covered
  <2>6. g # h
    BY <1>1, <2>4, <2>5 DEF SerialsHold
  <2>7. Apart(g.at, h.at, ClaimTtl)
    BY <1>1, <2>4, <2>5, <2>6 DEF LedgerHolds, Ledger
  <2> QED
    BY <2>4, <2>5, <2>7 DEF PaidWith
<1> QED
  BY <1>1, TypesKept, LedgerAlways, PaidAlways, PTL

-----------------------------------------------------------------------------
(* seenProofByUniq of a process holds the expiry of the last attestation of  *)
(* its current life for each hash and wallet.                                *)
Active(I, S, L, t) ==
  /\ \A a \in I : a.at <= t /\ a.life <= L[a.process]
  /\ \A a \in I : a.input.verified /\ a.life = L[a.process] =>
       a.at + ProofTtl <= S[a.process][Uniq(a.input)]
  /\ \A a, b \in I :
       /\ a # b /\ a.input.verified /\ b.input.verified
       /\ a.process = b.process /\ a.life = b.life /\ Uniq(a.input) = Uniq(b.input)
       => Apart(a.at, b.at, ProofTtl)
  /\ \A p \in Process, u \in Hash \X Wallet :
       S[p][u] = 0 \/ \E a \in I : a.process = p /\ Uniq(a.input) = u
                                  /\ a.at + ProofTtl = S[p][u]

ActiveHolds == Active(issued, seen, life, now)

LEMMA AttestationKnown ==
  ASSUME NEW a \in Attestation
  PROVE  /\ a.process \in Process /\ a.life \in Nat /\ a.at \in Nat
         /\ Uniq(a.input) \in Hash \X Wallet
<1>1. a.input \in RequestInput /\ a.process \in Process /\ a.life \in Nat /\ a.at \in Nat
  BY InputAssumption DEF Attestation
<1> QED
  BY <1>1 DEF RequestInput, Uniq

(* A guest's attestation is not remembered.                                  *)
LEMMA ActiveGuest ==
  ASSUME TypeOK, ActiveHolds, NEW a \in Attestation,
         ~a.input.verified, a.at = now, a.life = life[a.process]
  PROVE  Active(issued \cup {a}, seen, life, now)
<1>1. now \in Nat /\ life[a.process] \in Nat
  BY AttestationKnown DEF TypeOK
<1>2. \A b \in issued \cup {a} : b.at <= now /\ b.life <= life[b.process]
  BY <1>1 DEF ActiveHolds, Active
<1> QED
  BY <1>2 DEF ActiveHolds, Active

(* A verified one is, and is only issued when the last one has expired.      *)
LEMMA ActiveVerified ==
  ASSUME TypeOK, ActiveHolds, NEW a \in Attestation,
         a.at = now, a.life = life[a.process],
         ~(seen[a.process][Uniq(a.input)] > now)
  PROVE  Active(issued \cup {a},
                [seen EXCEPT ![a.process][Uniq(a.input)] = now + ProofTtl], life, now)
<1> DEFINE p == a.process
           u == Uniq(a.input)
           S2 == [seen EXCEPT ![p][u] = now + ProofTtl]
           I2 == issued \cup {a}
<1>1. /\ p \in Process /\ u \in Hash \X Wallet /\ life[p] \in Nat /\ now \in Nat
      /\ ProofTtl \in Nat /\ ProofTtl > 0
  <2>1. p \in Process /\ u \in Hash \X Wallet
    BY AttestationKnown
  <2>2. life[p] \in Nat /\ now \in Nat
    BY <2>1 DEF TypeOK
  <2> QED
    BY <2>1, <2>2, AmountAssumption
<1>2. \A b \in issued :
        b.process \in Process /\ b.at \in Nat /\ Uniq(b.input) \in Hash \X Wallet
  BY AttestationKnown DEF TypeOK
<1>3. seen \in [Process -> [Hash \X Wallet -> Nat]]
  BY DEF TypeOK
<1>4. /\ S2[p][u] = now + ProofTtl
      /\ \A q \in Process, v \in Hash \X Wallet : ~(q = p /\ v = u) => S2[q][v] = seen[q][v]
  BY <1>1, <1>3
<1>5. \A b \in I2 : b.at <= now /\ b.life <= life[b.process]
  BY <1>1 DEF ActiveHolds, Active
<1>6. \A b \in issued : b.input.verified /\ b.life = life[b.process] =>
        b.at + ProofTtl <= seen[b.process][Uniq(b.input)]
  BY DEF ActiveHolds, Active
<1>7. \A b \in I2 : b.input.verified /\ b.life = life[b.process] =>
        b.at + ProofTtl <= S2[b.process][Uniq(b.input)]
  <2> SUFFICES ASSUME NEW b \in I2, b.input.verified, b.life = life[b.process]
               PROVE  b.at + ProofTtl <= S2[b.process][Uniq(b.input)]
    OBVIOUS
  <2>1. CASE b = a
    BY <1>1, <1>4, <2>1
  <2>2. CASE b \in issued /\ b.process = p /\ Uniq(b.input) = u
    <3>1. b.at <= now /\ b.at \in Nat
      BY <1>2, <1>5, <2>2
    <3> QED
      BY <1>1, <1>4, <2>2, <3>1
  <2>3. CASE b \in issued /\ ~(b.process = p /\ Uniq(b.input) = u)
    BY <1>2, <1>4, <1>6, <2>3
  <2> QED
    BY <2>1, <2>2, <2>3
<1>8. \A b \in issued :
        /\ b.input.verified /\ b.process = p /\ b.life = a.life /\ Uniq(b.input) = u
        => b.at + ProofTtl <= a.at
  <2> SUFFICES ASSUME NEW b \in issued, b.input.verified, b.process = p,
                      b.life = a.life, Uniq(b.input) = u
               PROVE  b.at + ProofTtl <= a.at
    OBVIOUS
  <2>1. b.at + ProofTtl <= seen[p][u]
    BY <1>6
  <2>2. seen[p][u] \in Nat /\ seen[p][u] <= now
    BY <1>1, <1>3
  <2> QED
    BY <1>1, <1>2, <2>1, <2>2
<1>9. \A b, c \in I2 :
        /\ b # c /\ b.input.verified /\ c.input.verified
        /\ b.process = c.process /\ b.life = c.life /\ Uniq(b.input) = Uniq(c.input)
        => Apart(b.at, c.at, ProofTtl)
  BY <1>8 DEF ActiveHolds, Active, Apart
<1>10. \A q \in Process, v \in Hash \X Wallet :
         S2[q][v] = 0 \/ \E b \in I2 : b.process = q /\ Uniq(b.input) = v
                                     /\ b.at + ProofTtl = S2[q][v]
  <2> SUFFICES ASSUME NEW q \in Process, NEW v \in Hash \X Wallet
               PROVE  S2[q][v] = 0 \/ \E b \in I2 : b.process = q /\ Uniq(b.input) = v
                                                   /\ b.at + ProofTtl = S2[q][v]
    OBVIOUS
  <2>1. CASE q = p /\ v = u
    BY <1>4, <2>1
  <2>2. CASE ~(q = p /\ v = u)
    BY <1>4, <2>2 DEF ActiveHolds, Active
  <2> QED
    BY <2>1, <2>2
<1> QED
  BY <1>5, <1>7, <1>9, <1>10 DEF Active

LEMMA ActiveIssue ==
  ASSUME TypeOK, ActiveHolds, NEW r \in Request, NEW c \in Call, Issue(r, c),
         UNCHANGED <<life, now>>
  PROVE  ActiveHolds'
<1> DEFINE a == Attested(c)
<1>1. a \in Attestation /\ a.at = now /\ a.life = life[a.process]
      /\ a.process = c.process /\ a.input = c.input
  BY DEF TypeOK, Attested, Attestation, Call
<1>2. CASE issued' = issued /\ seen' = seen
  BY <1>2 DEF ActiveHolds, Active
<1>3. CASE issued' = issued \cup {a} /\ ~c.input.verified /\ seen' = seen
  <2>1. Active(issued \cup {a}, seen, life, now)
    BY <1>1, <1>3, ActiveGuest
  <2> QED
    BY <1>3, <2>1 DEF ActiveHolds
<1>4. CASE /\ issued' = issued \cup {a}
           /\ ~(seen[c.process][Uniq(c.input)] > now)
           /\ seen' = [seen EXCEPT ![c.process][Uniq(c.input)] = now + ProofTtl]
  <2>1. Active(issued \cup {a}, [seen EXCEPT ![c.process][Uniq(c.input)] = now + ProofTtl],
               life, now)
    BY <1>1, <1>4, ActiveVerified
  <2> QED
    BY <1>4, <2>1 DEF ActiveHolds
<1> QED
  BY <1>2, <1>3, <1>4, IssueCases

LEMMA ActiveLater ==
  ASSUME TypeOK, ActiveHolds, UNCHANGED <<issued, seen, life>>,
         now' = now \/ now' = now + 1
  PROVE  ActiveHolds'
<1>1. now \in Nat /\ \A a \in issued : a.at \in Nat
  BY DEF TypeOK, Attestation
<1>2. \A a \in issued : a.at <= now'
  BY <1>1 DEF ActiveHolds, Active
<1> QED
  BY <1>2 DEF ActiveHolds, Active

LEMMA ActiveRestart ==
  ASSUME TypeOK, ActiveHolds, NEW p \in Process, Restart(p)
  PROVE  ActiveHolds'
<1>1. /\ \A q \in Process : life[q] \in Nat
      /\ life'[p] = life[p] + 1 /\ \A q \in Process : q # p => life'[q] = life[q]
      /\ \A u \in Hash \X Wallet : seen'[p][u] = 0
      /\ \A q \in Process : q # p => seen'[q] = seen[q]
      /\ issued' = issued /\ now' = now
  BY DEF TypeOK, Restart
<1>2. \A a \in issued : a.process \in Process /\ a.life \in Nat
  BY DEF TypeOK, Attestation
<1>3. \A a \in issued : a.life <= life'[a.process]
  <2>1. \A a \in issued : a.life <= life[a.process]
    BY DEF ActiveHolds, Active
  <2>2. \A q \in Process : life[q] <= life'[q] /\ life'[q] \in Nat
    BY <1>1
  <2> QED
    BY <1>1, <1>2, <2>1, <2>2
<1>4. \A a \in issued : a.input.verified /\ a.life = life'[a.process] =>
        a.at + ProofTtl <= seen'[a.process][Uniq(a.input)]
  <2> SUFFICES ASSUME NEW a \in issued, a.input.verified, a.life = life'[a.process]
               PROVE  a.at + ProofTtl <= seen'[a.process][Uniq(a.input)]
    OBVIOUS
  <2>1. a.process # p
    <3>1. a.life <= life[a.process]
      BY DEF ActiveHolds, Active
    <3> QED
      BY <1>1, <1>2, <3>1
  <2> QED
    BY <1>1, <1>2, <2>1 DEF ActiveHolds, Active
<1>5. \A q \in Process, u \in Hash \X Wallet :
        seen'[q][u] = 0 \/ \E a \in issued : a.process = q /\ Uniq(a.input) = u
                                            /\ a.at + ProofTtl = seen'[q][u]
  BY <1>1 DEF ActiveHolds, Active
<1> QED
  BY <1>1, <1>3, <1>4, <1>5 DEF ActiveHolds, Active

LEMMA ActiveStep == TypeOK /\ ActiveHolds /\ [Next]_vars => ActiveHolds'
<1> SUFFICES ASSUME TypeOK, ActiveHolds, [Next]_vars PROVE ActiveHolds'
  OBVIOUS
<1>1. CASE UNCHANGED vars
  BY <1>1, ActiveLater DEF vars
<1>2. ASSUME NEW r \in Request, NEW p \in Process, NEW input \in Input, Receive(r, p, input)
      PROVE  ActiveHolds'
  <2> DEFINE c == [serial |-> fresh, process |-> p, input |-> input, next |-> 0]
  <2>1. c \in Call
    BY DEF Call, TypeOK
  <2>2. UNCHANGED <<life, now>> /\ (UNCHANGED <<seen, issued>> \/ Issue(r, c))
    BY <1>2 DEF Receive
  <2> QED
    BY <2>1, <2>2, ActiveIssue, ActiveLater
<1>3. CASE \E r \in Request :
             \/ Verify(r) \/ ClaimInRedis(r) \/ RefusedByRedis(r)
             \/ ClaimWithoutRedis(r) \/ ClaimLosingReply(r)
  BY <1>3, ActiveLater
     DEF Verify, ClaimInRedis, RefusedByRedis, ClaimWithoutRedis, ClaimLosingReply, stores
<1>4. ASSUME NEW r \in Request, Finish(r) PROVE ActiveHolds'
  BY <1>4, CallKnown, ActiveIssue DEF Finish
<1>5. ASSUME NEW p \in Process, Restart(p) PROVE ActiveHolds'
  BY <1>5, ActiveRestart
<1>6. CASE Tick
  BY <1>6, ActiveLater DEF Tick, stores
<1> QED
  BY <1>1, <1>2, <1>3, <1>4, <1>5, <1>6 DEF Next

THEOREM ActiveAlways == Spec => []ActiveHolds
<1>1. Init => ActiveHolds
  BY DEF Init, ActiveHolds, Active
<1> QED
  BY <1>1, ActiveStep, TypesKept, PTL DEF Spec

(* In one life of a process two verified attestations for one hash and       *)
(* wallet are never valid together (handleShieldScoreRequest).               *)
THEOREM OneActive == Spec => []OneActivePerProcess
<1>1. ActiveHolds => OneActivePerProcess
  BY DEF ActiveHolds, Active, OneActivePerProcess
<1> QED
  BY <1>1, ActiveAlways, PTL

-----------------------------------------------------------------------------
(* Refusals. A step that answers says so in answer, about one request.       *)
Answered(r, status) == answer' = [request |-> r, status |-> status]

LEMMA AnswersDiffer ==
  ASSUME NEW q \in Request, NEW s, NEW r \in Request, NEW t,
         Answered(q, s), Answered(r, t)
  PROVE  q = r /\ s = t
<1>1. [request |-> q, status |-> s] = [request |-> r, status |-> t]
  BY DEF Answered
<1>2. [request |-> q, status |-> s].request = q /\ [request |-> q, status |-> s].status = s
  OBVIOUS
<1>3. [request |-> r, status |-> t].request = r /\ [request |-> r, status |-> t].status = t
  OBVIOUS
<1> QED
  BY <1>1, <1>2, <1>3

LEMMA NoAnswer ==
  ASSUME answer' = None, NEW q \in Request, NEW s \in Status
  PROVE  ~Answered(q, s)
  BY NoneAssumption DEF Answered

(* Which steps refuse: as a replay where a key or an entry is alive, as      *)
(* reused where the process remembers the attestation.                       *)
LEMMA WhoRefuses ==
  ASSUME TypeOK, Next, NEW q \in Request
  PROVE  /\ Answered(q, "replayed") =>
              /\ Claiming(q)
              /\ \/ ~KeyFree(Wanted(q))
                 \/ ~MemoryFree(call[q].process, Wanted(q))
         /\ Answered(q, "reused") =>
              call[q] # None /\ seen[call[q].process][Uniq(call[q].input)] > now
<1> DEFINE Goal == /\ Answered(q, "replayed") =>
                        /\ Claiming(q)
                        /\ \/ ~KeyFree(Wanted(q))
                           \/ ~MemoryFree(call[q].process, Wanted(q))
                   /\ Answered(q, "reused") =>
                        call[q] # None /\ seen[call[q].process][Uniq(call[q].input)] > now
<1>s. "replayed" \in Status /\ "reused" \in Status
  BY DEF Status
<1>1. ASSUME NEW r \in Request, NEW p \in Process, NEW input \in Input, Receive(r, p, input)
      PROVE  Goal
  <2> DEFINE c == [serial |-> fresh, process |-> p, input |-> input, next |-> 0]
  <2>1. CASE input.verified
    <3>1. answer' = None
      BY <1>1, <2>1 DEF Receive
    <3> QED
      BY <1>s, <3>1, NoAnswer
  <2>2. CASE ~input.verified
    <3>1. Issue(r, c) /\ ~c.input.verified
      BY <1>1, <2>2 DEF Receive
    <3>2. Answered(r, "error") \/ Answered(r, "ok")
      BY <3>1 DEF Issue, Answer, Answered
    <3> QED
      BY <3>2, AnswersDiffer
  <2> QED
    BY <2>1, <2>2
<1>2. ASSUME NEW r \in Request, Verify(r) PROVE Goal
  <2>1. answer' = None \/ Answered(r, "invalid")
    BY <1>2 DEF Verify, Answer, Answered
  <2> QED
    BY <1>s, <2>1, NoAnswer, AnswersDiffer
<1>3. ASSUME NEW r \in Request, ClaimInRedis(r) PROVE Goal
  BY <1>s, <1>3, NoAnswer DEF ClaimInRedis, Advance
<1>4. ASSUME NEW r \in Request, RefusedByRedis(r) PROVE Goal
  <2>1. Answered(r, "replayed") /\ Claiming(r) /\ ~KeyFree(Wanted(r))
    BY <1>4 DEF RefusedByRedis, Answer, Answered
  <2> QED
    BY <2>1, AnswersDiffer
<1>5. ASSUME NEW r \in Request, NEW burned, Claiming(r), FallBack(r, burned) PROVE Goal
  <2>1. \/ answer' = None \/ Answered(r, "unavailable")
        \/ Answered(r, "replayed") /\ ~MemoryFree(call[r].process, Wanted(r))
    BY <1>5 DEF FallBack, Answer, Advance, Answered
  <2> QED
    BY <1>s, <1>5, <2>1, NoAnswer, AnswersDiffer
<1>6. ASSUME NEW r \in Request, Finish(r) PROVE Goal
  <2>1. \/ Answered(r, "error") \/ Answered(r, "ok")
        \/ Answered(r, "reused") /\ call[r] # None
           /\ seen[call[r].process][Uniq(call[r].input)] > now
    BY <1>6 DEF Finish, Issue, Answer, Answered
  <2> QED
    BY <2>1, AnswersDiffer
<1>7. ASSUME NEW p \in Process, Restart(p) PROVE Goal
  BY <1>s, <1>7, NoAnswer DEF Restart
<1>8. ASSUME Tick PROVE Goal
  BY <1>s, <1>8, NoAnswer DEF Tick
<1> QED
  BY <1>1, <1>2, <1>3, <1>4, <1>5, <1>6, <1>7, <1>8 DEF Next, ClaimWithoutRedis, ClaimLosingReply

LEMMA StepJustified ==
  ASSUME TypeOK, LedgerHolds, ActiveHolds, Next, NEW q \in Request
  PROVE  ReplayJustified(q) /\ ReuseJustified(q)
<1>1. ASSUME Answered(q, "replayed")
      PROVE  \E g \in grants : g.id = Wanted(q) /\ g.at <= now /\ now < g.at + ClaimTtl
  <2>1. /\ Claiming(q)
        /\ \/ ~KeyFree(Wanted(q))
           \/ ~MemoryFree(call[q].process, Wanted(q))
    BY <1>1, WhoRefuses
  <2>2. Wanted(q) \in Identifier /\ call[q].process \in Process
    BY <2>1, WantedKnown, CallKnown DEF Claiming
  <2>3. PICK n \in Nat : /\ ~(n <= now)
                         /\ n = 0 \/ \E g \in grants : g.id = Wanted(q) /\ g.at + ClaimTtl = n
    <3>1. /\ redis[Wanted(q)] \in Nat
          /\ memory[call[q].process][Wanted(q)] \in Nat
      BY <2>2 DEF TypeOK
    <3>2. CASE ~KeyFree(Wanted(q))
      BY <2>2, <3>1, <3>2 DEF KeyFree, LedgerHolds, Ledger
    <3>3. CASE ~MemoryFree(call[q].process, Wanted(q))
      BY <2>2, <3>1, <3>3 DEF MemoryFree, LedgerHolds, Ledger
    <3> QED
      BY <2>1, <3>2, <3>3
  <2>4. now \in Nat
    BY DEF TypeOK
  <2>5. PICK g \in grants : g.id = Wanted(q) /\ g.at + ClaimTtl = n
    BY <2>3, <2>4
  <2>6. g.at <= now
    BY DEF LedgerHolds, Ledger
  <2> QED
    BY <2>3, <2>4, <2>5, <2>6
<1>2. ASSUME Answered(q, "reused")
      PROVE  \E a \in issued : /\ a.process = call[q].process
                               /\ Uniq(a.input) = Uniq(call[q].input)
                               /\ now < a.at + ProofTtl
  <2>1. call[q] # None /\ seen[call[q].process][Uniq(call[q].input)] > now
    BY <1>2, WhoRefuses
  <2>2. call[q].process \in Process /\ Uniq(call[q].input) \in Hash \X Wallet
    BY <2>1, CallKnown
  <2>3. now \in Nat /\ seen[call[q].process][Uniq(call[q].input)] \in Nat
    BY <2>2 DEF TypeOK
  <2>4. PICK a \in issued :
          /\ a.process = call[q].process /\ Uniq(a.input) = Uniq(call[q].input)
          /\ a.at + ProofTtl = seen[call[q].process][Uniq(call[q].input)]
    BY <2>1, <2>2, <2>3 DEF ActiveHolds, Active
  <2> QED
    BY <2>1, <2>3, <2>4
<1> QED
  BY <1>1, <1>2 DEF ReplayJustified, ReuseJustified, Answered

(* A refusal as replay or reuse is never about a claim that has lapsed or an *)
(* attestation that has expired (verifyReclaimProofBundle and                *)
(* handleShieldScoreRequest).                                                *)
THEOREM RefusalsAlwaysJustified == Spec => RefusalsJustified
<1>1. TypeOK /\ LedgerHolds /\ ActiveHolds /\ [Next]_vars =>
        [\A r \in Request : ReplayJustified(r) /\ ReuseJustified(r)]_vars
  BY StepJustified
<1> QED
  BY <1>1, TypesKept, LedgerAlways, ActiveAlways, PTL DEF Spec, RefusalsJustified
=============================================================================
