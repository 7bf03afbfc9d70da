---------------------------- MODULE RateLimitProofs ----------------------------
(***************************************************************************)
(* Proofs about RateLimit, for any processes, keys, limits and window. The *)
(* inductive invariant says of every token, in a history or in the hands   *)
(* of a request, that the counter of its key has gone past it: either it   *)
(* still counts the token's window, at least that far, or it began another *)
(* one after that window. Memory needs no more than its types.             *)
(***************************************************************************)
EXTENDS RateLimit, TLAPS

HasToken(c) == call[c] # None /\ call[c].stage = "counted"

(* The counter of k is at or past the n-th token of the window of start.   *)
Counted(k, start, n) ==
  /\ counter[k] # None
  /\ \/ start + Window = counter[k].until /\ n <= counter[k].count
     \/ start + Window + Window <= counter[k].until

(* Two tokens of a key differ within a window or are of windows apart.     *)
Distinct(j, s, m, k, t, n) ==
  j = k => (s = t /\ m # n) \/ s + Window <= t \/ t + Window <= s

CountersOld == \A k \in Key : counter[k] # None => Window <= counter[k].until

TokensCounted ==
  /\ \A t \in passed : t.n <= Limit[t.key] /\ Counted(t.key, t.start, t.n)
  /\ \A c \in Call : HasToken(c) =>
       Counted(KeyOf(call[c]), call[c].token.start, call[c].token.n)

TokensDistinct ==
  /\ \A s, t \in passed : s # t => Distinct(s.key, s.start, s.n, t.key, t.start, t.n)
  /\ \A t \in passed, c \in Call : HasToken(c) =>
       Distinct(t.key, t.start, t.n,
                KeyOf(call[c]), call[c].token.start, call[c].token.n)
  /\ \A c, d \in Call : c # d /\ HasToken(c) /\ HasToken(d) =>
       Distinct(KeyOf(call[c]), call[c].token.start, call[c].token.n,
                KeyOf(call[d]), call[d].token.start, call[d].token.n)

(* Half a second after the time told, in Redis, and at that time, in       *)
(* memory, the window that refused is over.                                *)
Promises ==
  /\ \A r \in refused :
       /\ r.store = "memory" => r.start + Window <= r.back
       /\ r.store = "redis" => 2 * (r.start + Window) <= 2 * r.back + Second
  /\ \A c \in Call : HasToken(c) =>
       2 * (call[c].token.start + Window)
         <= 2 * (now + RedisRetry(call[c].token) * Second) + Second

IInv == TypeOK /\ CountersOld /\ TokensCounted /\ TokensDistinct /\ Promises

LEMMA WindowType == Window \in Nat \ {0}
BY WindowAssumption DEF Window

USE LimitAssumption, WindowType, StrictAssumption

-----------------------------------------------------------------------------
(* Windows in memory.                                                      *)

(* What a process may have in memory at a time.                            *)
Windows(w, p, time) ==
  /\ w \in [Key -> Bucket \cup {None}]
  /\ \A k \in Key : w[k] # None => /\ p \notin Strict
                                   /\ w[k].start <= time
                                   /\ w[k].count \in 1..Limit[k]

LEMMA MemoryTypes == TypeOK => \A p \in Process : Windows(bucket[p], p, now)
BY DEF TypeOK, Windows

LEMMA KeyOfRequest ==
  ASSUME TypeOK, NEW c \in Call, call[c] # None
  PROVE  call[c] \in Request /\ KeyOf(call[c]) \in Key
BY DEF TypeOK, Request, KeyOf, Key

LEMMA CleanedWindows ==
  ASSUME TypeOK, NEW c \in Call, call[c] # None
  PROVE  Windows(Cleaned(call[c]), call[c].process, now)
<1>1. call[c].process \in Process
  BY DEF TypeOK, Request
<1>2. Windows(bucket[call[c].process], call[c].process, now)
  BY <1>1, MemoryTypes
<1> QED BY <1>1, <1>2 DEF Windows, Cleaned

LEMMA ChargedWindows ==
  ASSUME TypeOK, NEW c \in Call, call[c] # None, call[c].process \notin Strict,
         NEW k \in Key, ~Full(Cleaned(call[c])[k], k, call[c].at)
  PROVE  Windows([Cleaned(call[c]) EXCEPT ![k] = Charged(Cleaned(call[c])[k], call[c].at)],
                 call[c].process, now)
<1> DEFINE w == Cleaned(call[c])
           b == Charged(w[k], call[c].at)
<1>1. Windows(w, call[c].process, now)
  BY CleanedWindows
<1>2. call[c].at \in Nat /\ call[c].at <= now /\ now \in Nat
  BY DEF TypeOK, Request
<1>3. b \in Bucket /\ b.start <= now /\ b.count \in 1..Limit[k]
  <2>1. CASE Fresh(w[k], call[c].at)
    BY <1>2, <2>1 DEF Charged, Bucket
  <2>2. CASE ~Fresh(w[k], call[c].at)
    <3>1. w[k] \in Bucket /\ w[k].start <= now /\ w[k].count \in 1..Limit[k]
      BY <1>1, <2>2 DEF Windows, Fresh
    <3>2. ~(w[k].count >= Limit[k])
      BY <2>2 DEF Full
    <3>3. b = [w[k] EXCEPT !.count = @ + 1]
      BY <2>2 DEF Charged
    <3> QED BY <3>1, <3>2, <3>3 DEF Bucket
  <2> QED BY <2>1, <2>2
<1> QED BY <1>1, <1>3 DEF Windows

-----------------------------------------------------------------------------
(* Seconds told.                                                           *)

LEMMA DivisionFloors ==
  ASSUME NEW a \in Nat, NEW b \in Nat \ {0}
  PROVE  a \div b \in Nat /\ a < b * (a \div b) + b
<1>1. a \div b \in Nat
  OBVIOUS
<1>2. a < b * (a \div b) + b
  OBVIOUS
<1> QED BY <1>1, <1>2

(* The seconds told by memory are at least what is left.                   *)
LEMMA RoundedUpCovers ==
  ASSUME NEW ticks \in Int
  PROVE  /\ Positive(RoundedUp(ticks)) \in Nat
         /\ ticks <= Positive(RoundedUp(ticks)) * Second
<1> DEFINE q == RoundedUp(ticks)
<1>1. Second \in Nat \ {0}
  BY WindowAssumption
<1>2. CASE ticks <= 0
  <2>1. Positive(q) \in Nat
    <3>1. q \in Int
      BY <1>1 DEF RoundedUp
    <3> QED BY <3>1 DEF Positive
  <2>2. 0 <= Positive(q) * Second
    BY <1>1, <2>1
  <2>3. Positive(q) * Second \in Int
    BY <1>1, <2>1
  <2> QED BY <1>2, <2>1, <2>2, <2>3
<1>3. CASE ticks > 0
  <2>1. ticks + Second - 1 \in Nat
    BY <1>1, <1>3
  <2>2. q \in Nat /\ ticks + Second - 1 < Second * q + Second
    BY <1>1, <2>1, DivisionFloors DEF RoundedUp
  <2>3. PICK told \in Nat : told = Positive(q) /\ q <= told
    BY <2>2 DEF Positive
  <2>4. Second * q <= told * Second /\ Second * q \in Nat /\ told * Second \in Nat
    BY <1>1, <2>2, <2>3
  <2> QED BY <1>1, <2>2, <2>3, <2>4
<1> QED BY <1>2, <1>3

(* Those told by Redis may fall short of what is left by half a second.    *)
LEMMA TtlNearlyCovers ==
  ASSUME NEW ticks \in Nat, NEW token \in Token, token.ttl = Ttl(ticks)
  PROVE  RedisRetry(token) \in Nat /\ 2 * ticks <= 2 * (RedisRetry(token) * Second) + Second
<1> DEFINE q == token.ttl
<1>1. Second \in Nat \ {0} /\ WindowSecs \in Nat \ {0} 
  BY WindowAssumption
<1>2. 2 * ticks + Second \in Nat /\ 2 * Second \in Nat \ {0}
  BY <1>1
<1>3. q \in Nat /\ 2 * ticks + Second < (2 * Second) * q + 2 * Second
  BY <1>2, DivisionFloors DEF Ttl
<1>4. CASE q > 0
  <2>1. RedisRetry(token) = q
    BY <1>3, <1>4 DEF RedisRetry, Positive
  <2>2. (2 * Second) * q = 2 * (q * Second) /\ q * Second \in Nat
    BY <1>1, <1>3
  <2> QED BY <1>1, <1>3, <2>1, <2>2
<1>5. CASE ~(q > 0)
  <2>1. RedisRetry(token) = WindowSecs
    BY <1>1, <1>5 DEF RedisRetry, Positive
  <2>2. q = 0 /\ (2 * Second) * q = 0
    BY <1>1, <1>3, <1>5
  <2>3. WindowSecs * Second \in Nat
    BY <1>1
  <2> QED BY <1>1, <1>3, <2>1, <2>2, <2>3
<1> QED BY <1>4, <1>5

LEMMA RetryIsTime ==
  ASSUME NEW token \in Token
  PROVE  RedisRetry(token) * Second \in Nat
<1>1. RedisRetry(token) \in Nat
  BY WindowAssumption DEF RedisRetry, Positive, Token
<1> QED BY <1>1, WindowAssumption

LEMMA TtlType ==
  ASSUME NEW ticks \in Nat
  PROVE  Ttl(ticks) \in Nat
<1>1. 2 * ticks + Second \in Nat /\ 2 * Second \in Nat \ {0}
  BY WindowAssumption
<1> QED BY <1>1, DivisionFloors DEF Ttl

-----------------------------------------------------------------------------
(* Windows in Redis.                                                       *)

LEMMA IncrementedTypes ==
  ASSUME TypeOK, CountersOld, NEW k \in Key
  PROVE  /\ Incremented(k) \in Counter
         /\ now < Incremented(k).until
         /\ Window <= Incremented(k).until
         /\ TokenOf(Incremented(k)) \in Token
<1>1. now \in Nat /\ (counter[k] # None => counter[k] \in Counter)
  BY DEF TypeOK
<1>2. /\ Incremented(k) \in Counter
      /\ now < Incremented(k).until
      /\ Window <= Incremented(k).until
  BY <1>1 DEF Incremented, Live, Counter, CountersOld
<1>3. PICK i : i = Incremented(k)
  OBVIOUS
<1>4. i.until - now \in Nat /\ i.until - Window \in Nat /\ i.count \in Nat
  BY <1>1, <1>2, <1>3 DEF Counter
<1>5. TokenOf(i) \in Token
  BY <1>4, TtlType DEF TokenOf, Token
<1> QED BY <1>2, <1>3, <1>5

(* Counting leaves every earlier token counted and different from the new. *)
LEMMA IncrementedCounts ==
  ASSUME TypeOK, CountersOld, NEW k \in Key, NEW start \in Nat, NEW n \in Nat,
         Counted(k, start, n)
  PROVE  LET i == Incremented(k) IN
         /\ \/ start + Window = i.until /\ n <= i.count
            \/ start + Window + Window <= i.until
         /\ Distinct(k, start, n, k, i.until - Window, i.count)
<1>1. now \in Nat /\ counter[k] \in Counter /\ counter[k] # None
  BY DEF TypeOK, Counted
<1>2. CASE Live(k)
  <2>1. Incremented(k).until = counter[k].until
        /\ Incremented(k).count = counter[k].count + 1
    BY <1>1, <1>2 DEF Incremented, Counter
  <2> QED BY <1>1, <2>1 DEF Counted, Distinct, Counter
<1>3. CASE ~Live(k)
  <2>1. Incremented(k).until = now + Window /\ counter[k].until <= now
    BY <1>1, <1>3 DEF Incremented, Live, Counter
  <2> QED BY <1>1, <2>1 DEF Counted, Distinct, Counter
<1> QED BY <1>2, <1>3

-----------------------------------------------------------------------------
(* Types.                                                                  *)

LEMMA MemoryKept ==
  ASSUME TypeOK, now' = now, NEW p \in Process, NEW w, Windows(w, p, now),
         bucket' = [bucket EXCEPT ![p] = w]
  PROVE  /\ bucket' \in [Process -> [Key -> Bucket \cup {None}]]
         /\ \A q \in Process, k \in Key :
              bucket'[q][k] # None => /\ q \notin Strict
                                      /\ bucket'[q][k].start <= now'
                                      /\ bucket'[q][k].count \in 1..Limit[k]
BY DEF TypeOK, Windows

CallsTyped ==
  /\ call \in [Call -> Request \cup {None}]
  /\ \A c \in Call : call[c] # None => /\ call[c].at <= now
                                       /\ call[c].scope = "wallet" => call[c].wallet # None
                                       /\ call[c].stage = "counted" <=> call[c].token # None

LEMMA PassTypes ==
  ASSUME TypeOK, now' = now, NEW c \in Call, call[c] # None, Pass(c)
  PROVE  CallsTyped'
<1>1. CASE call[c].scope = "ip" /\ call[c].wallet # None
  <2> DEFINE r == [call[c] EXCEPT !.scope = "wallet", !.stage = "starting", !.token = None]
  <2>1. call' = [call EXCEPT ![c] = r]
    BY <1>1 DEF Pass, Continue
  <2>3. call[c] \in Request /\ call[c].at <= now
    BY DEF TypeOK
  <2>4. PICK q : q = call[c]
    OBVIOUS
  <2>5. [q EXCEPT !.scope = "wallet", !.stage = "starting", !.token = None] \in Request
    BY <2>3, <2>4 DEF Request
  <2>2. r \in Request /\ r.at <= now' /\ r.wallet # None /\ r.token = None
        /\ r.stage = "starting"
    BY <1>1, <2>3, <2>4, <2>5 DEF Request
  <2> QED BY <2>1, <2>2 DEF TypeOK, CallsTyped
<1>2. CASE ~(call[c].scope = "ip" /\ call[c].wallet # None)
  BY <1>2 DEF TypeOK, CallsTyped, Pass, End
<1> QED BY <1>1, <1>2

LEMMA EndTypes ==
  ASSUME TypeOK, now' = now, NEW c \in Call, End(c)
  PROVE  CallsTyped'
BY DEF TypeOK, CallsTyped, End

LEMMA RefuseTypes ==
  ASSUME TypeOK, now' = now, NEW c \in Call, call[c] # None, NEW start \in Nat, NEW secs,
         secs * Second \in Nat, NEW store \in {"redis", "memory"}, Refuse(c, store, start, secs)
  PROVE  CallsTyped' /\ refused' \subseteq Refusal
<1>1. CallsTyped'
  BY EndTypes DEF Refuse
<1>2. KeyOf(call[c]) \in Key /\ now + secs * Second \in Nat
  BY KeyOfRequest DEF TypeOK
<1> QED BY <1>1, <1>2 DEF Refuse, TypeOK, Refusal

LEMMA TypesStep ==
  ASSUME TypeOK, CountersOld, [Next]_vars
  PROVE  TypeOK'
<1>1. CASE UNCHANGED vars
  BY <1>1 DEF TypeOK, vars
<1>2. ASSUME NEW c \in Call, NEW p \in Process, NEW ip \in Ip, NEW wallet \in Wallet \cup {None},
             Arrive(c, p, ip, wallet)
      PROVE  TypeOK'
  BY <1>2 DEF TypeOK, Arrive, Continue, Request
<1>3. ASSUME NEW c \in Call, Send(c)
      PROVE  TypeOK'
  <2>1. CallsTyped'
    <3> DEFINE r == [call[c] EXCEPT !.stage = "sent"]
    <3>1. call[c] # None /\ call[c] \in Request /\ call[c].stage # "counted"
      BY <1>3 DEF Send, TypeOK
    <3>2. /\ r \in Request /\ r.stage = "sent" /\ r.token = call[c].token
          /\ r.at = call[c].at /\ r.scope = call[c].scope /\ r.wallet = call[c].wallet
      BY <3>1 DEF Request
    <3> QED BY <1>3, <3>1, <3>2 DEF TypeOK, CallsTyped, Send, Continue
  <2>2. call[c].process \in Process /\ Windows(Cleaned(call[c]), call[c].process, now)
    BY <1>3, CleanedWindows DEF Send, TypeOK, Request
  <2> QED BY <1>3, <2>1, <2>2, MemoryKept DEF TypeOK, CallsTyped, Send
<1>4. ASSUME NEW c \in Call, Count(c)
      PROVE  TypeOK'
  <2> DEFINE k == KeyOf(call[c])
             r == [call[c] EXCEPT !.stage = "counted", !.token = TokenOf(Incremented(k))]
  <2>1. call[c] # None /\ k \in Key /\ call[c] \in Request
    BY <1>4, KeyOfRequest DEF Count
  <2>2. Incremented(k) \in Counter /\ TokenOf(Incremented(k)) \in Token
    BY <2>1, IncrementedTypes
  <2>3. /\ r \in Request
        /\ r.stage = "counted" /\ r.token \in Token
        /\ r.at = call[c].at /\ r.scope = call[c].scope /\ r.wallet = call[c].wallet
    BY <2>1, <2>2 DEF Request
  <2>4. None \notin Token
    BY NoneAssumption
  <2> QED BY <1>4, <2>1, <2>2, <2>3, <2>4 DEF TypeOK, Count, Continue
<1>5. ASSUME NEW c \in Call, Reply(c)
      PROVE  TypeOK'
  <2> DEFINE r == call[c]
  <2>1. r # None /\ r \in Request /\ KeyOf(r) \in Key /\ r.token \in Token
    BY <1>5, KeyOfRequest DEF Reply, TypeOK, Request
  <2>2. CASE r.token.n > Limit[KeyOf(r)]
    <3>1. Refuse(c, "redis", r.token.start, RedisRetry(r.token)) /\ now' = now
      BY <1>5, <2>2 DEF Reply
    <3>2. r.token.start \in Nat /\ RedisRetry(r.token) * Second \in Nat
      BY <2>1, RetryIsTime DEF Token
    <3>3. CallsTyped' /\ refused' \subseteq Refusal
      BY <2>1, <3>1, <3>2, RefuseTypes
    <3> QED BY <1>5, <2>2, <3>3 DEF Reply, TypeOK, CallsTyped
  <2>3. CASE ~(r.token.n > Limit[KeyOf(r)])
    <3>1. CallsTyped'
      BY <1>5, <2>1, <2>3, PassTypes DEF Reply
    <3>2. passed' \subseteq [serial : Nat, key : Key, start : Nat, n : Nat]
      BY <1>5, <2>1, <2>3 DEF Reply, TypeOK, Token, Request
    <3> QED BY <1>5, <2>3, <3>1, <3>2 DEF Reply, TypeOK, CallsTyped
  <2> QED BY <2>2, <2>3
<1>6. ASSUME NEW c \in Call, Unavailable(c)
      PROVE  TypeOK'
  <2>1. CallsTyped'
    BY <1>6, EndTypes DEF Unavailable
  <2>2. call[c].process \in Process /\ Windows(Cleaned(call[c]), call[c].process, now)
    BY <1>6, CleanedWindows DEF Unavailable, TypeOK, Request
  <2> QED BY <1>6, <2>1, <2>2, MemoryKept DEF TypeOK, CallsTyped, Unavailable
<1>7. ASSUME NEW c \in Call, ChargeMemory(c)
      PROVE  TypeOK'
  <2> DEFINE r == call[c]
             k == KeyOf(r)
             w == Cleaned(r)
  <2>1. r # None /\ r \in Request /\ k \in Key /\ r.process \in Process /\ r.at \in Nat
        /\ r.process \notin Strict
    BY <1>7, KeyOfRequest DEF ChargeMemory, Request
  <2>2. Windows(w, r.process, now)
    BY <2>1, CleanedWindows
  <2>3. CASE Full(w[k], k, r.at)
    <3>1. w[k] \in Bucket
      BY <2>1, <2>2, <2>3 DEF Windows, Full, Fresh
    <3>2. w[k].start \in Nat /\ MemoryRetry(w[k], r.at) * Second \in Nat
      <4>1. w[k].start \in Nat /\ Wait(w[k], r.at) \in Int
        BY <2>1, <3>1 DEF Wait, Bucket
      <4>2. MemoryRetry(w[k], r.at) \in Nat
        BY <4>1, RoundedUpCovers DEF MemoryRetry
      <4> QED BY <4>1, <4>2, WindowAssumption
    <3>3. CallsTyped' /\ refused' \subseteq Refusal
      BY <1>7, <2>1, <2>3, <3>2, RefuseTypes DEF ChargeMemory
    <3>4. bucket' = [bucket EXCEPT ![r.process] = w]
      BY <1>7, <2>3 DEF ChargeMemory
    <3> QED BY <1>7, <2>1, <2>2, <3>3, <3>4, MemoryKept DEF ChargeMemory, TypeOK, CallsTyped
  <2>4. CASE ~Full(w[k], k, r.at)
    <3> DEFINE v == [w EXCEPT ![k] = Charged(w[k], r.at)]
    <3>1. Windows(v, r.process, now)
      BY <2>1, <2>4, ChargedWindows
    <3>2. bucket' = [bucket EXCEPT ![r.process] = v]
      BY <1>7, <2>4 DEF ChargeMemory
    <3>3. CallsTyped'
      BY <1>7, <2>1, <2>4, PassTypes DEF ChargeMemory
    <3> QED BY <1>7, <2>1, <2>4, <3>1, <3>2, <3>3, MemoryKept DEF ChargeMemory, TypeOK, CallsTyped
  <2> QED BY <2>3, <2>4
<1>8. ASSUME NEW p \in Process, Restart(p)
      PROVE  TypeOK'
  BY <1>8 DEF TypeOK, Restart
<1>9. CASE \E time \in Instant : Tick(time)
  <2>1. now' \in Nat /\ now <= now' /\ UNCHANGED <<bucket, counter, call, asked, passed, refused>>
    BY <1>9, BoundAssumption DEF TypeOK, Tick
  <2>2. \A p \in Process, k \in Key : bucket[p][k] # None => bucket[p][k].start <= now'
    BY <2>1 DEF TypeOK, Bucket
  <2>3. \A c \in Call : call[c] # None => call[c].at <= now'
    BY <2>1 DEF TypeOK, Request
  <2> QED BY <2>1, <2>2, <2>3 DEF TypeOK
<1> QED BY <1>1, <1>2, <1>3, <1>4, <1>5, <1>6, <1>7, <1>8, <1>9 DEF Next

-----------------------------------------------------------------------------
(* Tokens.                                                                 *)

LEMMA CountersStep ==
  ASSUME TypeOK, CountersOld, [Next]_vars
  PROVE  CountersOld'
<1>1. ASSUME NEW c \in Call, Count(c)
      PROVE  CountersOld'
  <2>1. KeyOf(call[c]) \in Key /\ Window <= Incremented(KeyOf(call[c])).until
    BY <1>1, KeyOfRequest, IncrementedTypes DEF Count
  <2> QED BY <1>1, <2>1 DEF Count, CountersOld, TypeOK
<1>2. CASE UNCHANGED counter
  BY <1>2 DEF CountersOld
<1> QED BY <1>1, <1>2 DEF Next, vars, Arrive, Send, Reply, Unavailable, ChargeMemory, Restart, Tick

(* A step that neither counts nor hands out tokens.                        *)
LEMMA TokensUntouched ==
  ASSUME TokensCounted, TokensDistinct, UNCHANGED <<counter, passed>>,
         \A c \in Call : HasToken(c)' => HasToken(c) /\ call'[c] = call[c]
  PROVE  TokensCounted' /\ TokensDistinct'
BY DEF TokensCounted, TokensDistinct, Counted, Distinct, HasToken, KeyOf

LEMMA TokensOnCount ==
  ASSUME TypeOK, CountersOld, TokensCounted, TokensDistinct, NEW c \in Call, Count(c)
  PROVE  TokensCounted' /\ TokensDistinct'
<1> DEFINE k == KeyOf(call[c])
           i == Incremented(k)
<1>1. /\ call[c] # None /\ call[c] \in Request /\ k \in Key /\ ~HasToken(c)
      /\ passed' = passed /\ counter' = [counter EXCEPT ![k] = i]
  BY KeyOfRequest DEF Count, HasToken
<1>2. /\ i \in Counter /\ None # i
      /\ i.until \in Nat /\ Window <= i.until
  <2>1. i \in Counter /\ Window <= i.until
    BY <1>1, IncrementedTypes
  <2> QED BY <2>1, NoneAssumption DEF Counter
<1>0. PICK key \in Key, s \in Nat, n \in Nat : key = k /\ s = i.until - Window /\ n = i.count
  BY <1>1, <1>2 DEF Counter
<1>3. /\ call'[c].token.start = s /\ call'[c].token.n = n
      /\ KeyOf(call[c])' = key
  BY <1>0, <1>1 DEF Count, Continue, TypeOK, TokenOf, Request, KeyOf
<1>4. \A d \in Call : d # c => call'[d] = call[d] /\ KeyOf(call[d])' = KeyOf(call[d])
                              /\ HasToken(d)' = HasToken(d)
  BY DEF Count, Continue, TypeOK, KeyOf, HasToken
<1>5. \A j \in Key, start, m \in Nat :
        Counted(j, start, m) => Counted(j, start, m)' /\ Distinct(j, start, m, key, s, n)
  <2> TAKE j \in Key, start \in Nat, m \in Nat
  <2> HAVE Counted(j, start, m)
  <2>1. CASE j # k
    BY <1>0, <1>1, <2>1 DEF Counted, Distinct, TypeOK
  <2>2. CASE j = k
    BY <1>0, <1>1, <1>2, <2>2, IncrementedCounts DEF Counted, TypeOK
  <2> QED BY <2>1, <2>2
<1>6. \A t \in passed : t.key \in Key /\ t.start \in Nat /\ t.n \in Nat
  BY DEF TypeOK
<1>7. \A d \in Call : HasToken(d) =>
        KeyOf(call[d]) \in Key /\ call[d].token.start \in Nat /\ call[d].token.n \in Nat
  <2> TAKE d \in Call
  <2> HAVE HasToken(d)
  <2>1. call[d] # None /\ call[d].token # None /\ call[d] \in Request
    BY DEF HasToken, TypeOK
  <2> QED BY <2>1, KeyOfRequest DEF Request, Token
<1>8. Counted(key, s, n)'
  <2>1. counter'[key] = i
    BY <1>0, <1>1 DEF TypeOK
  <2>2. s + Window = i.until /\ n <= i.count
    BY <1>0, <1>2
  <2> QED BY <1>2, <2>1, <2>2 DEF Counted
<1>9. TokensCounted'
  <2>1. \A t \in passed : t.n <= Limit[t.key] /\ Counted(t.key, t.start, t.n)'
    BY <1>5, <1>6 DEF TokensCounted
  <2>2. ASSUME NEW d \in Call, HasToken(d)'
        PROVE  Counted(KeyOf(call[d]), call[d].token.start, call[d].token.n)'
    <3>1. CASE d = c
      <4>1. KeyOf(call[d])' = key /\ call'[d].token.start = s
            /\ call'[d].token.n = n
        BY <1>3, <3>1
      <4> QED BY <1>8, <4>1 DEF Counted
    <3>2. CASE d # c
      BY <1>4, <1>5, <1>7, <2>2, <3>2 DEF TokensCounted, Counted
    <3> QED BY <3>1, <3>2
  <2> QED BY <1>1, <2>1, <2>2 DEF TokensCounted
<1>10. TokensDistinct'
  <2>1. \A t \in passed : Distinct(t.key, t.start, t.n, key, s, n)
    BY <1>5, <1>6 DEF TokensCounted
  <2>2. \A d \in Call : HasToken(d) =>
          /\ Distinct(KeyOf(call[d]), call[d].token.start, call[d].token.n,
                      key, s, n)
          /\ Distinct(key, s, n,
                      KeyOf(call[d]), call[d].token.start, call[d].token.n)
    <3> TAKE d \in Call
    <3> HAVE HasToken(d)
    <3>1. Distinct(KeyOf(call[d]), call[d].token.start, call[d].token.n,
                   key, s, n)
      BY <1>5, <1>7 DEF TokensCounted
    <3> QED BY <3>1 DEF Distinct
  <2> QED BY <1>1, <1>3, <1>4, <2>1, <2>2 DEF TokensDistinct, Distinct
<1> QED BY <1>9, <1>10

(* What other steps leave of the tokens in flight.                         *)
LEMMA ReplyKeepsTokens ==
  ASSUME TypeOK, NEW c \in Call, Reply(c)
  PROVE  \A d \in Call : HasToken(d)' => d # c /\ HasToken(d) /\ call'[d] = call[d]
<1> DEFINE r == call[c]
<1>1. call \in [Call -> Request \cup {None}] /\ r # None /\ r \in Request
  BY DEF Reply, TypeOK
<1>2. CASE call' = [call EXCEPT ![c] = None]
  BY <1>1, <1>2 DEF HasToken
<1>3. CASE call' = [call EXCEPT ![c] = [r EXCEPT !.scope = "wallet", !.stage = "starting",
                                                 !.token = None]]
  BY <1>1, <1>3 DEF HasToken, Request
<1> QED BY <1>2, <1>3 DEF Reply, Refuse, Pass, End, Continue

LEMMA OthersKeepTokens ==
  ASSUME TypeOK, NEW c \in Call,
         \/ Send(c) \/ Unavailable(c) \/ ChargeMemory(c)
         \/ \E p \in Process, ip \in Ip, w \in Wallet \cup {None} : Arrive(c, p, ip, w)
  PROVE  \A d \in Call : HasToken(d)' => HasToken(d) /\ call'[d] = call[d]
<1>1. call \in [Call -> Request \cup {None}]
  BY DEF TypeOK
<1>2. CASE call' = [call EXCEPT ![c] = None]
  BY <1>1, <1>2 DEF HasToken
<1>3. CASE Send(c)
  <2>1. call[c] \in Request
    BY <1>1, <1>3 DEF Send
  <2> QED BY <1>1, <1>3, <2>1 DEF Send, Continue, HasToken, Request
<1>4. CASE ChargeMemory(c) /\ Pass(c)
  <2>1. call[c] \in Request
    BY <1>1, <1>4 DEF ChargeMemory
  <2>2. CASE call' = [call EXCEPT ![c] = [call[c] EXCEPT !.scope = "wallet",
                                            !.stage = "starting", !.token = None]]
    BY <1>1, <2>1, <2>2 DEF HasToken, Request
  <2> QED BY <1>2, <1>4, <2>2 DEF Pass, End, Continue
<1>5. CASE \E p \in Process, ip \in Ip, w \in Wallet \cup {None} : Arrive(c, p, ip, w)
  BY <1>1, <1>5 DEF Arrive, Continue, HasToken
<1> QED BY <1>2, <1>3, <1>4, <1>5 DEF Unavailable, ChargeMemory, Refuse, End

LEMMA TokensOnReply ==
  ASSUME TypeOK, TokensCounted, TokensDistinct, NEW c \in Call, Reply(c)
  PROVE  TokensCounted' /\ TokensDistinct'
<1> DEFINE r == call[c]
           t == [serial |-> r.serial, key |-> KeyOf(r), start |-> r.token.start, n |-> r.token.n]
<1>1. /\ HasToken(c) /\ counter' = counter
      /\ \A d \in Call : HasToken(d)' => d # c /\ HasToken(d) /\ call'[d] = call[d]
  BY ReplyKeepsTokens DEF Reply, HasToken
<1>2. CASE r.token.n > Limit[KeyOf(r)]
  BY <1>1, <1>2, TokensUntouched DEF Reply
<1>3. CASE ~(r.token.n > Limit[KeyOf(r)])
  <2>1. passed' = passed \cup {t}
    BY <1>3 DEF Reply
  <2>2. r # None /\ r \in Request /\ r.token \in Token /\ KeyOf(r) \in Key
    BY <1>1, KeyOfRequest DEF HasToken, TypeOK, Request
  <2>3. t.n <= Limit[t.key] /\ Counted(t.key, t.start, t.n)
    BY <1>1, <1>3, <2>2 DEF TokensCounted, Token
  <2>4. \A s \in passed : /\ Distinct(s.key, s.start, s.n, t.key, t.start, t.n)
                          /\ Distinct(t.key, t.start, t.n, s.key, s.start, s.n)
    BY <1>1 DEF TokensDistinct, Distinct
  <2>5. \A d \in Call : HasToken(d)' =>
          Distinct(t.key, t.start, t.n, KeyOf(call[d])', call'[d].token.start, call'[d].token.n)
    BY <1>1 DEF TokensDistinct, KeyOf
  <2>6. TokensCounted'
    BY <1>1, <2>1, <2>3 DEF TokensCounted, Counted, KeyOf
  <2>7. TokensDistinct'
    <3>1. \A u, v \in passed' : u # v => Distinct(u.key, u.start, u.n, v.key, v.start, v.n)
      BY <2>1, <2>4 DEF TokensDistinct
    <3>2. \A u \in passed', d \in Call : HasToken(d)' =>
            Distinct(u.key, u.start, u.n, KeyOf(call[d])', call'[d].token.start, call'[d].token.n)
      BY <1>1, <2>1, <2>5 DEF TokensDistinct, KeyOf
    <3>3. \A d, e \in Call : d # e /\ HasToken(d)' /\ HasToken(e)' =>
            Distinct(KeyOf(call[d])', call'[d].token.start, call'[d].token.n,
                     KeyOf(call[e])', call'[e].token.start, call'[e].token.n)
      BY <1>1 DEF TokensDistinct, KeyOf
    <3> QED BY <3>1, <3>2, <3>3 DEF TokensDistinct, Distinct
  <2> QED BY <2>6, <2>7
<1> QED BY <1>2, <1>3

LEMMA TokensStep ==
  ASSUME TypeOK, CountersOld, TokensCounted, TokensDistinct, [Next]_vars
  PROVE  TokensCounted' /\ TokensDistinct'
<1>1. ASSUME NEW c \in Call, Count(c) \/ Reply(c)
      PROVE  TokensCounted' /\ TokensDistinct'
  BY <1>1, TokensOnCount, TokensOnReply
<1>2. ASSUME NEW c \in Call,
             \/ Send(c) \/ Unavailable(c) \/ ChargeMemory(c)
             \/ \E p \in Process, ip \in Ip, w \in Wallet \cup {None} : Arrive(c, p, ip, w)
      PROVE  TokensCounted' /\ TokensDistinct'
  <2>1. UNCHANGED <<counter, passed>>
    BY <1>2 DEF Send, Unavailable, ChargeMemory, Arrive
  <2>2. \A d \in Call : HasToken(d)' => HasToken(d) /\ call'[d] = call[d]
    BY <1>2, OthersKeepTokens
  <2> QED BY <2>1, <2>2, TokensUntouched
<1>3. CASE UNCHANGED vars \/ (\E time \in Instant : Tick(time)) \/ \E p \in Process : Restart(p)
  <2>1. UNCHANGED <<counter, passed>>
    BY <1>3 DEF vars, Tick, Restart
  <2>2. \A d \in Call : HasToken(d)' => HasToken(d) /\ call'[d] = call[d]
    BY <1>3 DEF vars, Tick, Restart, HasToken, TypeOK
  <2> QED BY <2>1, <2>2, TokensUntouched
<1> QED BY <1>1, <1>2, <1>3 DEF Next

-----------------------------------------------------------------------------
(* Promised times.                                                         *)

LEMMA PromisesStep ==
  ASSUME TypeOK, CountersOld, Promises, [Next]_vars
  PROVE  Promises'
<1> USE DEF Promises
<1>1. CASE UNCHANGED vars
  BY <1>1 DEF vars, HasToken
<1>2. ASSUME NEW c \in Call, Count(c)
      PROVE  Promises'
  <2>1. call[c] # None /\ call[c] \in Request /\ KeyOf(call[c]) \in Key /\ now \in Nat
    BY <1>2, KeyOfRequest DEF Count, TypeOK
  <2>2. Incremented(KeyOf(call[c])).until \in Nat
    BY <2>1, IncrementedTypes DEF Counter
  <2>3. call'[c].token = TokenOf(Incremented(KeyOf(call[c])))
        /\ \A d \in Call : d # c => call'[d] = call[d]
    BY <1>2, <2>1 DEF Count, Continue, TypeOK, Request
  <2>4. 2 * (call'[c].token.start + Window)
          <= 2 * (now + RedisRetry(call'[c].token) * Second) + Second
    <3> DEFINE until == Incremented(KeyOf(call[c])).until
               token == TokenOf(Incremented(KeyOf(call[c])))
    <3>1. token \in Token /\ now < until
      BY <2>1, IncrementedTypes
    <3>2. token.start + Window = until /\ token.ttl = Ttl(until - now) /\ until - now \in Nat
      BY <2>1, <2>2, <3>1 DEF TokenOf
    <3>3. RedisRetry(token) * Second \in Nat
          /\ 2 * (until - now) <= 2 * (RedisRetry(token) * Second) + Second
      BY <3>1, <3>2, TtlNearlyCovers, RetryIsTime
    <3> QED BY <2>1, <2>2, <2>3, <3>2, <3>3, WindowAssumption
  <2> QED BY <1>2, <2>3, <2>4 DEF Count, HasToken
<1>3. ASSUME NEW c \in Call, Reply(c)
      PROVE  Promises'
  <2> DEFINE r == call[c]
  <2>1. r # None /\ r.token \in Token /\ HasToken(c) /\ now \in Nat
    BY <1>3 DEF Reply, TypeOK, Request, HasToken
  <2>2. \A d \in Call : HasToken(d)' => HasToken(d) /\ call'[d] = call[d]
    BY <1>3, ReplyKeepsTokens
  <2>3. 2 * (r.token.start + Window) <= 2 * (now + RedisRetry(r.token) * Second) + Second
    BY <2>1
  <2> QED BY <1>3, <2>2, <2>3 DEF Reply, Refuse
<1>4. ASSUME NEW c \in Call, ChargeMemory(c)
      PROVE  Promises'
  <2> DEFINE r == call[c]
             k == KeyOf(r)
             b == Cleaned(r)[k]
  <2>1. /\ r # None /\ r \in Request /\ k \in Key /\ r.at \in Nat /\ r.at <= now
        /\ now \in Nat
    BY <1>4, KeyOfRequest DEF ChargeMemory, TypeOK, Request
  <2>2. \A d \in Call : HasToken(d)' => HasToken(d) /\ call'[d] = call[d]
    BY <1>4, OthersKeepTokens
  <2>3. CASE Full(b, k, r.at)
    <3>1. b \in Bucket
      BY <2>1, <2>3, CleanedWindows DEF Windows, Full, Fresh
    <3>2. b.start + Window <= now + MemoryRetry(b, r.at) * Second
      <4>1. Wait(b, r.at) \in Int /\ b.start + Window <= now + Wait(b, r.at)
        BY <2>1, <3>1 DEF Wait, Bucket
      <4>2. PICK told \in Nat : told = MemoryRetry(b, r.at) /\ Wait(b, r.at) <= told * Second
        BY <4>1, RoundedUpCovers DEF MemoryRetry
      <4>3. told * Second \in Nat
        BY WindowAssumption
      <4> QED BY <2>1, <3>1, <4>1, <4>2, <4>3 DEF Bucket
    <3> QED BY <1>4, <2>2, <2>3, <3>2 DEF ChargeMemory, Refuse
  <2>4. CASE ~Full(b, k, r.at)
    BY <1>4, <2>2, <2>4 DEF ChargeMemory
  <2> QED BY <2>3, <2>4
<1>5. ASSUME NEW c \in Call,
             \/ Send(c) \/ Unavailable(c)
             \/ \E p \in Process, ip \in Ip, w \in Wallet \cup {None} : Arrive(c, p, ip, w)
      PROVE  Promises'
  <2>1. \A d \in Call : HasToken(d)' => HasToken(d) /\ call'[d] = call[d]
    BY <1>5, OthersKeepTokens
  <2> QED BY <1>5, <2>1 DEF Send, Unavailable, Arrive
<1>6. ASSUME NEW p \in Process, Restart(p)
      PROVE  Promises'
  BY <1>6 DEF Restart, HasToken
<1>7. ASSUME NEW time \in Instant, Tick(time)
      PROVE  Promises'
  <2>1. now \in Nat /\ now' \in Nat /\ now < now' /\ UNCHANGED <<call, refused>>
    BY <1>7, BoundAssumption DEF Tick, TypeOK
  <2>2. ASSUME NEW c \in Call, HasToken(c)
        PROVE  2 * (call[c].token.start + Window)
                 <= 2 * (now' + RedisRetry(call[c].token) * Second) + Second
    <3>1. call[c].token \in Token
      BY <2>2 DEF HasToken, TypeOK, Request
    <3>2. call[c].token.start \in Nat /\ RedisRetry(call[c].token) * Second \in Nat
      BY <3>1, RetryIsTime DEF Token
    <3> QED BY <2>1, <2>2, <3>2, WindowAssumption
  <2> QED BY <2>1, <2>2 DEF HasToken
<1> QED BY <1>1, <1>2, <1>3, <1>4, <1>5, <1>6, <1>7 DEF Next

-----------------------------------------------------------------------------
(* The theorems.                                                           *)

THEOREM InvariantHolds == Spec => []IInv
<1>1. Init => IInv
  BY DEF Init, IInv, TypeOK, CountersOld, TokensCounted, TokensDistinct, Promises, HasToken
<1>2. IInv /\ [Next]_vars => IInv'
  BY TypesStep, CountersStep, TokensStep, PromisesStep DEF IInv
<1> QED BY <1>1, <1>2, PTL DEF Spec

THEOREM TypesKept == Spec => []TypeOK
<1>1. IInv => TypeOK
  BY DEF IInv
<1> QED BY <1>1, InvariantHolds, PTL

THEOREM LimitKept == Spec => []WithinLimit
<1>1. IInv => WithinLimit
  BY DEF IInv, TokensCounted, TokensDistinct, Distinct, WithinLimit, TypeOK
<1> QED BY <1>1, InvariantHolds, PTL

THEOREM WaitingAlwaysPaysOff == Spec => []WaitingPaysOff
<1>1. ASSUME IInv
      PROVE  WaitingPaysOff
  <2>1. ASSUME NEW r \in refused,
               \/ r.store = "memory" /\ r.back <= now
               \/ r.store = "redis" /\ 2 * r.back + Second <= 2 * now
        PROVE  /\ r.start + Window <= now
               /\ r.key \in Key /\ r.start \in Nat /\ now \in Nat
    BY <1>1, <2>1, WindowAssumption DEF IInv, Promises, TypeOK, Refusal
  <2> QED BY <1>1, <2>1 DEF WaitingPaysOff, Live, Lapsed, IInv, TypeOK, Counter, Bucket
<1> QED BY <1>1, InvariantHolds, PTL

THEOREM NothingResetEarly == Spec => NoEarlyReset
<1> DEFINE GaveUp(p, k) == /\ bucket[p][k] # None
                           /\ bucket'[p][k] = None \/ bucket'[p][k].start # bucket[p][k].start
           Step == \A p \in Process, k \in Key :
                     GaveUp(p, k) => bucket[p][k].start + Window <= now \/ Restart(p)
<1>1. ASSUME TypeOK, [Next]_vars
      PROVE  [Step]_vars
  <2>1. ASSUME NEW c \in Call, Send(c) \/ Unavailable(c) \/ ChargeMemory(c)
        PROVE  Step
    <3> SUFFICES ASSUME NEW p \in Process, NEW k \in Key, GaveUp(p, k)
                 PROVE  bucket[p][k].start + Window <= now
      BY DEF Step
    <3> DEFINE r == call[c]
               b == bucket[p][k]
    <3>1. /\ r # None /\ r \in Request /\ r.process \in Process /\ KeyOf(r) \in Key
          /\ r.at \in Nat /\ r.at <= now /\ now \in Nat
      BY <1>1, <2>1, KeyOfRequest DEF Send, Unavailable, ChargeMemory, TypeOK, Request
    <3>2. bucket \in [Process -> [Key -> Bucket \cup {None}]] /\ b \in Bucket
      BY <1>1 DEF TypeOK
    <3>3. Lapsed(b, r.at) => b.start + Window <= now
      BY <3>1, <3>2 DEF Lapsed, Bucket
    <3>4. p = r.process
      BY <2>1, <3>2 DEF Send, Unavailable, ChargeMemory
    <3>5. Cleaned(r)[k] = b \/ Lapsed(b, r.at)
      BY <3>4 DEF Cleaned
    <3>6. CASE bucket' = [bucket EXCEPT ![p] = Cleaned(r)]
      BY <3>2, <3>3, <3>5, <3>6
    <3>7. CASE bucket' = [bucket EXCEPT ![p] =
                            [Cleaned(r) EXCEPT ![KeyOf(r)] = Charged(Cleaned(r)[KeyOf(r)], r.at)]]
      <4>1. Cleaned(r) \in [Key -> Bucket \cup {None}]
        BY <1>1, <3>1, CleanedWindows DEF Windows
      <4>2. k # KeyOf(r) => bucket'[p][k] = Cleaned(r)[k]
        BY <3>2, <3>7, <4>1
      <4>3. k = KeyOf(r) => bucket'[p][k] = Charged(Cleaned(r)[k], r.at)
        BY <3>2, <3>7, <4>1
      <4>4. Cleaned(r)[k] = b /\ ~Lapsed(b, r.at) =>
              Charged(Cleaned(r)[k], r.at) # None /\ Charged(Cleaned(r)[k], r.at).start = b.start
        BY <3>2, NoneAssumption DEF Charged, Fresh, Bucket
      <4> QED BY <3>3, <3>5, <4>2, <4>3, <4>4
    <3> QED BY <2>1, <3>4, <3>6, <3>7 DEF Send, Unavailable, ChargeMemory
  <2>2. CASE UNCHANGED bucket
    BY <2>2 DEF Step
  <2>3. CASE \E p \in Process : Restart(p)
    <3> SUFFICES ASSUME NEW p \in Process, NEW k \in Key, GaveUp(p, k)
                 PROVE  Restart(p)
      BY DEF Step
    <3>1. PICK q \in Process : Restart(q)
      BY <2>3
    <3>2. bucket' = [bucket EXCEPT ![q] = [j \in Key |-> None]]
      BY <3>1 DEF Restart
    <3>3. p = q
      BY <1>1, <3>2 DEF TypeOK
    <3> QED BY <3>1, <3>3
  <2> QED BY <1>1, <2>1, <2>2, <2>3 DEF Next, vars, Arrive, Count, Reply, Tick
<1>2. [][Step]_vars => NoEarlyReset
  BY PTL DEF NoEarlyReset, Step, GaveUp
<1> QED BY <1>1, <1>2, TypesKept, PTL DEF Spec

=============================================================================
