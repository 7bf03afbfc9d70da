------------------------------- MODULE RateLimit -------------------------------
(***************************************************************************)
(* The rate limiter in front of the shield oracle                          *)
(* (services/shield-oracle/src/rate_limit.ts, called by                    *)
(* app/api/shield-score/route.ts). Every request takes a token for its     *)
(* address and then one for its wallet, in fixed windows that are counted  *)
(* in Redis by all processes together or, when Redis fails a process that  *)
(* may do without it, in that process's memory. A request reads the clock  *)
(* once, before its first await, and uses that time to the end.            *)
(***************************************************************************)
EXTENDS Integers

CONSTANTS
  Process,
  Strict,     \* the processes with SHIELD_RATE_LIMIT_REQUIRE_REDIS
  Ip, Wallet, \* what is counted, the keys of the two scopes
  Limit,      \* tokens of a key in one window
  WindowSecs, \* length of a window, in seconds
  Second,     \* a second in ticks of the clock
  Call,       \* slots for concurrent requests
  Instant, MaxAsked,  \* bounds: what the clock is seen at, the requests received
  None

Key == Ip \cup Wallet
Window == WindowSecs * Second

ASSUME StrictAssumption == Strict \subseteq Process
ASSUME LimitAssumption == Limit \in [Key -> Nat \ {0}]
ASSUME WindowAssumption == WindowSecs \in Nat \ {0} /\ Second \in Nat \ {0}
ASSUME BoundAssumption == Instant \subseteq Nat /\ MaxAsked \in Nat

VARIABLES
  now,
  bucket,   \* the windows each process keeps in memory
  counter,  \* the windows kept in Redis
  call,     \* requests in progress
  asked,    \* requests received
  passed,   \* history of the tokens of Redis that let a request pass
  refused   \* history of refusals, with the time to come back at

vars == <<now, bucket, counter, call, asked, passed, refused>>

Bucket == [start : Nat, count : Nat]
Counter == [count : Nat, until : Nat]  \* a key with its expiry

(* A token: its place in the count of the window that began at start, and  *)
(* the seconds that Redis says are left of it.                             *)
Token == [start : Nat, n : Nat, ttl : Nat]

Request == [serial : Nat, process : Process, ip : Ip, wallet : Wallet \cup {None},
            at : Nat, scope : {"ip", "wallet"},
            stage : {"starting", "sent", "counted"}, token : Token \cup {None}]

(* A refusal by a window and the time to come back at.                     *)
Refusal == [key : Key, store : {"redis", "memory"}, start : Nat, back : Nat]

ASSUME NoneAssumption == None \notin Wallet \cup Bucket \cup Counter \cup Token \cup Request

Init ==
  /\ now = 0
  /\ bucket = [p \in Process |-> [k \in Key |-> None]]
  /\ counter = [k \in Key |-> None]
  /\ call = [c \in Call |-> None]
  /\ asked = 0
  /\ passed = {}
  /\ refused = {}

KeyOf(r) == IF r.scope = "ip" THEN r.ip ELSE r.wallet

-----------------------------------------------------------------------------
(* Windows in memory.                                                      *)

LapsedEarly(b, at) == at - b.start + 1 >= Window
Lapsed(b, at) == at - b.start >= Window

(* cleanupRateLimitState runs before the first scope.                      *)
Cleaned(r) ==
  IF r.scope = "ip" /\ r.stage = "starting"
  THEN [k \in Key |-> LET b == bucket[r.process][k] IN
                      IF b # None /\ Lapsed(b, r.at) THEN None ELSE b]
  ELSE bucket[r.process]

Fresh(b, at) == b = None \/ Lapsed(b, at)
Full(b, k, at) == ~Fresh(b, at) /\ b.count >= Limit[k]
Charged(b, at) == IF Fresh(b, at) THEN [start |-> at, count |-> 1]
                  ELSE [b EXCEPT !.count = @ + 1]

WaitSinceStart(b, at) == at - b.start
Wait(b, at) == Window - (at - b.start)

(* Whole seconds, rounded up, and one at least.                            *)
Positive(secs) == IF secs > 1 THEN secs ELSE 1
RoundedUp(ticks) == (ticks + Second - 1) \div Second
MemoryRetry(b, at) == Positive(RoundedUp(Wait(b, at)))

-----------------------------------------------------------------------------
(* Windows in Redis: INCR, EXPIRE of a new key and TTL in one script.      *)

Live(k) == counter[k] # None /\ now < counter[k].until
IncrementedExtending(k) ==
  [count |-> IF Live(k) THEN counter[k].count + 1 ELSE 1, until |-> now + Window]
Incremented(k) ==
  IF Live(k) THEN [counter[k] EXCEPT !.count = @ + 1]
             ELSE [count |-> 1, until |-> now + Window]

(* TTL answers in whole seconds, rounded to the nearest: less than half a  *)
(* second is 0, and that stands for the whole window.                      *)
Ttl(ticks) == (2 * ticks + Second) \div (2 * Second)
TokenOf(counted) == [start |-> counted.until - Window, n |-> counted.count,
                     ttl |-> Ttl(counted.until - now)]
RedisRetry(token) == Positive(IF token.ttl > 0 THEN token.ttl ELSE WindowSecs)

-----------------------------------------------------------------------------
(* The course of a request (evaluateShieldRateLimit, consumeForScope).     *)

Continue(c, r) == call' = [call EXCEPT ![c] = r]
End(c) == call' = [call EXCEPT ![c] = None]

Arrive(c, p, ip, wallet) ==
  /\ call[c] = None /\ asked < MaxAsked
  /\ asked' = asked + 1
  /\ Continue(c, [serial |-> asked, process |-> p, ip |-> ip, wallet |-> wallet, at |-> now,
                  scope |-> "ip", stage |-> "starting", token |-> None])
  /\ UNCHANGED <<now, bucket, counter, passed, refused>>

(* A scope is passed: on to the wallet, if there is one.                   *)
Pass(c) ==
  IF call[c].scope = "ip" /\ call[c].wallet # None
  THEN Continue(c, [call[c] EXCEPT !.scope = "wallet", !.stage = "starting", !.token = None])
  ELSE End(c)

Refuse(c, store, start, secs) ==
  /\ End(c)
  /\ refused' = refused \cup {[key |-> KeyOf(call[c]), store |-> store, start |-> start,
                               back |-> now + secs * Second]}

(* Redis is connected and the script is sent.                              *)
Send(c) ==
  /\ call[c] # None /\ call[c].stage = "starting"
  /\ bucket' = [bucket EXCEPT ![call[c].process] = Cleaned(call[c])]
  /\ Continue(c, [call[c] EXCEPT !.stage = "sent"])
  /\ UNCHANGED <<now, counter, asked, passed, refused>>

(* The script runs.                                                        *)
Count(c) ==
  /\ call[c] # None /\ call[c].stage = "sent"
  /\ LET k == KeyOf(call[c]) IN
       /\ counter' = [counter EXCEPT ![k] = Incremented(k)]
       /\ Continue(c, [call[c] EXCEPT !.stage = "counted", !.token = TokenOf(Incremented(k))])
  /\ UNCHANGED <<now, bucket, asked, passed, refused>>

(* Its reply arrives.                                                      *)
Reply(c) ==
  /\ call[c] # None /\ call[c].stage = "counted"
  /\ LET r == call[c]
         k == KeyOf(r) IN
       IF r.token.n > Limit[k]
       THEN Refuse(c, "redis", r.token.start, RedisRetry(r.token)) /\ UNCHANGED passed
       ELSE /\ Pass(c)
            /\ passed' = passed \cup {[serial |-> r.serial, key |-> k,
                                       start |-> r.token.start, n |-> r.token.n]}
            /\ UNCHANGED refused
  /\ UNCHANGED <<now, bucket, counter, asked>>

(* Redis is not connected, or its call failed, with or without effect: a   *)
(* process that requires it refuses (503), any other counts in memory.     *)
Unavailable(c) ==
  /\ call[c] # None /\ call[c].process \in Strict
  /\ bucket' = [bucket EXCEPT ![call[c].process] = Cleaned(call[c])]
  /\ End(c)
  /\ UNCHANGED <<now, counter, asked, passed, refused>>

ChargeMemory(c) ==
  /\ call[c] # None /\ call[c].process \notin Strict
  /\ LET r == call[c]
         k == KeyOf(r)
         b == Cleaned(r)[k] IN
       IF Full(b, k, r.at)
       THEN /\ bucket' = [bucket EXCEPT ![r.process] = Cleaned(r)]
            /\ Refuse(c, "memory", b.start, MemoryRetry(b, r.at))
       ELSE /\ bucket' = [bucket EXCEPT ![r.process] =
                            [Cleaned(r) EXCEPT ![k] = Charged(b, r.at)]]
            /\ Pass(c) /\ UNCHANGED refused
  /\ UNCHANGED <<now, counter, asked, passed>>

(* A process dies and starts again.                                        *)
Restart(p) ==
  /\ bucket' = [bucket EXCEPT ![p] = [k \in Key |-> None]]
  /\ call' = [c \in Call |->
                IF call[c] # None /\ call[c].process = p THEN None ELSE call[c]]
  /\ UNCHANGED <<now, counter, asked, passed, refused>>

Tick(time) ==
  /\ now < time
  /\ now' = time
  /\ UNCHANGED <<bucket, counter, call, asked, passed, refused>>

Next ==
  \/ \E c \in Call, p \in Process, ip \in Ip, wallet \in Wallet \cup {None} :
       Arrive(c, p, ip, wallet)
  \/ \E c \in Call : Send(c) \/ Count(c) \/ Reply(c) \/ Unavailable(c) \/ ChargeMemory(c)
  \/ \E p \in Process : Restart(p)
  \/ \E time \in Instant : Tick(time)

Spec == Init /\ [][Next]_vars

-----------------------------------------------------------------------------
(* Properties.                                                             *)

(* Types, with the limit: no window in memory counts more than it admits   *)
(* (a count in Redis goes on), none begins in the future, and a process    *)
(* that requires Redis keeps no window in memory.                          *)
TypeOK ==
  /\ now \in Nat
  /\ bucket \in [Process -> [Key -> Bucket \cup {None}]]
  /\ counter \in [Key -> Counter \cup {None}]
  /\ call \in [Call -> Request \cup {None}]
  /\ asked \in Nat
  /\ passed \subseteq [serial : Nat, key : Key, start : Nat, n : Nat]
  /\ refused \subseteq Refusal
  /\ \A p \in Process, k \in Key :
       bucket[p][k] # None => /\ p \notin Strict
                              /\ bucket[p][k].start <= now
                              /\ bucket[p][k].count \in 1..Limit[k]
  /\ \A c \in Call : call[c] # None => /\ call[c].at <= now
                                       /\ call[c].scope = "wallet" => call[c].wallet # None
                                       /\ call[c].stage = "counted" <=> call[c].token # None

(* Over all processes, and with replies lost, at most Limit requests pass  *)
(* on one window of Redis, each on a token of its own, and the windows of  *)
(* a key do not overlap (consumeRedis).                                    *)
WithinLimit ==
  \A s, t \in passed :
    /\ s.n <= Limit[s.key]
    /\ s.key = t.key =>
         /\ s.start = t.start => s.n # t.n \/ s = t
         /\ s.start # t.start => s.start + Window <= t.start \/ t.start + Window <= s.start

(* Whoever was refused and comes back when told (Retry-After) no longer    *)
(* meets the window of memory that refused, in any process, and meets that *)
(* of Redis for less than half a second more: its TTL is a rounded number  *)
(* of seconds. That holds however late the refusal was handed out, and for *)
(* requests that were charged by the time they arrived at.                 *)
WaitingPaysOff ==
  \A r \in refused :
    /\ r.store = "memory" /\ r.back <= now =>
         \A p \in Process : LET b == bucket[p][r.key] IN
           b # None /\ b.start = r.start => Lapsed(b, now)
    /\ r.store = "redis" /\ 2 * r.back + Second <= 2 * now =>
         (Live(r.key) => counter[r.key].until # r.start + Window)

(* A window in memory is given up only when it is over by the clock,       *)
(* although cleaning and charging go by the time a request arrived, or     *)
(* when its process dies (cleanupRateLimitState, consume).                 *)
NoEarlyReset ==
  [][\A p \in Process, k \in Key :
       /\ bucket[p][k] # None
       /\ bucket'[p][k] = None \/ bucket'[p][k].start # bucket[p][k].start
       => bucket[p][k].start + Window <= now \/ Restart(p)]_vars
=============================================================================
