--------------------------- MODULE HubWorkflowProofs ---------------------------
(***************************************************************************)
(* Proofs about HubWorkflow, for any number of wallets, items, proofs and  *)
(* requests at once and any failure or death in between. First: what a     *)
(* workflow executes on was signed for it, and one attestation lets only   *)
(* one request at one snapshot execute. Nothing is needed of the graph for *)
(* these: a quote travels from the oracle to the cache, from there to      *)
(* other requests, and to the answers, and keeps its input and version on  *)
(* the way. Then: what a workflow that answered executed has recorded is   *)
(* in the file for ever. Here the hub is shown to use the graph store by   *)
(* its operations only, and the invariants proved of the store carry over. *)
(***************************************************************************)
EXTENDS HubWorkflow, TLAPS

USE NoneAssumption

Shape(r) ==
  r = [serial |-> r.serial, input |-> r.input, workflow |-> r.workflow, version |-> r.version,
       mode |-> r.mode, stage |-> r.stage, quote |-> r.quote,
       quoteEvent |-> r.quoteEvent, actionEvent |-> r.actionEvent]

(* What an allowing quote rests on.                                        *)
Attested(quote, input) ==
  quote.decision = "allow" =>
    /\ input.action \in Sensitive => input.proof # None
    /\ quote.attestation \in Nat
    /\ \E a \in signed : /\ a.serial = quote.attestation
                         /\ a.wallet = input.wallet /\ a.proof = input.proof

Waiting(c) == call[c] # None /\ call[c].stage = "asked"
Quoted(c) == call[c] # None /\ call[c].stage # "asked"

Calls ==
  /\ asked \in Nat
  /\ call = [c \in Call |-> call[c]]
  /\ \A c \in Call : call[c] # None => Shape(call[c]) /\ call[c].input \in Input
  /\ \A c \in Call : Waiting(c) =>
       /\ call[c].serial \in Nat /\ call[c].serial < asked
       /\ call[c].mode \in Modes(call[c].input)
  /\ \A c, d \in Call : Waiting(c) /\ Waiting(d) /\ c # d => call[c].serial # call[d].serial

Sound ==
  /\ \A c \in Call : Quoted(c) => Attested(call[c].quote, call[c].input)
  /\ \A c \in Call : Quoted(c) /\ call[c].stage \in {"recording", "relating"} =>
       call[c].quote.decision = "allow"
  /\ \A e \in cache : Attested(e.quote, e.input)
  /\ \A x \in answers : x.executed =>
       x.request.quote.decision = "allow" /\ Attested(x.request.quote, x.request.input)

(* A request at some snapshot that has, had, or could have a quote with    *)
(* this attestation.                                                       *)
Bears(serial, input, version) ==
  \/ \E c \in Call : /\ Quoted(c) /\ call[c].quote.attestation = serial
                     /\ call[c].input = input /\ call[c].version = version
  \/ \E e \in cache : /\ e.quote.attestation = serial
                      /\ e.input = input /\ e.version = version
  \/ \E x \in answers : /\ x.executed /\ x.request.quote.attestation = serial
                        /\ x.request.input = input /\ x.request.version = version

(* Serials are not used up before they are signed for, and then once.      *)
Single ==
  \A serial \in Nat : \A i, v, j, w :
    Bears(serial, i, v) /\ Bears(serial, j, w) => i = j /\ v = w
Unused ==
  \A serial \in Nat : \A i, v : Bears(serial, i, v) =>
    serial < asked /\ \A c \in Call : Waiting(c) => call[c].serial # serial

IInv == Calls /\ Sound /\ Single /\ Unused

-----------------------------------------------------------------------------
(* When no new bearer appears, the old ones stay single and known.         *)
LEMMA NoNewBearer ==
  ASSUME IInv, asked' \in Nat, asked' >= asked,
         \A serial \in Nat : \A i, v : Bears(serial, i, v)' => Bears(serial, i, v),
         \A c \in Call : Waiting(c)' =>
           \/ Waiting(c) /\ call'[c].serial = call[c].serial
           \/ call'[c].serial = asked
  PROVE  Single' /\ Unused'
<1>1. asked \in Nat
  BY DEF IInv, Calls
<1>2. \A serial \in Nat : \A i, v, j, w :
        Bears(serial, i, v)' /\ Bears(serial, j, w)' => i = j /\ v = w
  BY DEF IInv, Single
<1>3. \A serial \in Nat : \A i, v : Bears(serial, i, v)' =>
        serial < asked' /\ \A c \in Call : Waiting(c)' => call'[c].serial # serial
  BY <1>1 DEF IInv, Unused
<1> QED BY <1>2, <1>3 DEF Single, Unused

(* Signatures are kept.                                                    *)
LEMMA StaysAttested ==
  ASSUME signed \subseteq signed'
  PROVE  \A quote, input : Attested(quote, input) => Attested(quote, input)'
BY DEF Attested

LEMMA Starts == Init => IInv
<1> SUFFICES ASSUME Init PROVE IInv
  OBVIOUS
<1>1. /\ asked = 0 /\ cache = {} /\ answers = {}
      /\ call = [c \in Call |-> None] /\ \A c \in Call : call[c] = None
  BY DEF Init
<1>2. \A serial, i, v : ~Bears(serial, i, v)
  BY <1>1 DEF Bears, Quoted
<1> QED BY <1>1, <1>2 DEF IInv, Calls, Sound, Single, Unused, Waiting, Quoted

(* The oracle's answer, or its failure.                                    *)
LEMMA AllowedIsSigned ==
  ASSUME NEW r, r.input \in Input, r.mode \in Modes(r.input),
         NEW status \in Status, NEW low \in BOOLEAN,
         IF status = "ok" THEN DecideSigned(r.input, r.mode, low) = "allow"
                          ELSE DecideUnsigned(r.input, status) = "allow"
  PROVE  status = "ok" /\ (r.input.action \in Sensitive => r.input.proof # None)
<1>1. status = "ok"
  <2>1. r.input.bias \in Bias
    BY InputAssumption DEF Request
  <2> QED BY <2>1 DEF DecideUnsigned, Bias
<1>2. r.mode # "bot_suspected" /\ ~(r.input.action \in Sensitive /\ r.mode # "verified")
  <2>1. r.input.bias \in Bias
    BY InputAssumption DEF Request
  <2>2. DecideSigned(r.input, r.mode, low) = "allow"
    BY <1>1
  <2>3. \A d \in {"block", "step_up"} : Biased(r.input.bias, d) # "allow"
    BY <2>1 DEF Biased, Bias
  <2>4. CASE r.mode = "bot_suspected"
    BY <2>2, <2>3, <2>4 DEF DecideSigned
  <2>5. CASE r.input.action \in Sensitive /\ r.mode # "verified"
    BY <2>2, <2>3, <2>5 DEF DecideSigned
  <2> QED BY <2>4, <2>5
<1>3. r.mode = "verified" => r.input.proof # None
  BY DEF Modes
<1> QED BY <1>1, <1>2, <1>3

-----------------------------------------------------------------------------
(* Steps in which quotes only move on.                                     *)

(* This quote is sound, and known for this request at this snapshot.       *)
Known(quote, input, version) ==
  /\ Attested(quote, input)
  /\ quote.attestation \in Nat => Bears(quote.attestation, input, version)

KnownRequest(r) ==
  /\ Shape(r) /\ r.input \in Input
  /\ r.stage # "asked" /\ Known(r.quote, r.input, r.version)
  /\ r.stage \in {"recording", "relating"} => r.quote.decision = "allow"

NewRequest(r) ==
  /\ Shape(r) /\ r.input \in Input
  /\ r.stage = "asked" /\ r.serial = asked /\ r.mode \in Modes(r.input)

LEMMA Moved ==
  ASSUME IInv, NEW c \in Call, NEW r,
         call' = [call EXCEPT ![c] = r],
         r = None \/ KnownRequest(r) \/ (NewRequest(r) /\ asked' = asked + 1),
         signed' = signed, asked' \in {asked, asked + 1},
         \A e \in cache' : e \in cache \/ Known(e.quote, e.input, e.version),
         \A x \in answers' :
           \/ x \in answers \/ ~x.executed
           \/ /\ x.request.quote.decision = "allow"
              /\ Known(x.request.quote, x.request.input, x.request.version)
  PROVE  IInv'
<1>1. /\ asked \in Nat /\ asked' \in Nat /\ asked' >= asked
      /\ call' = [d \in Call |-> IF d = c THEN r ELSE call[d]]
  BY DEF IInv, Calls
<1>2. \A d \in Call : call'[d] = IF d = c THEN r ELSE call[d]
  BY <1>1
<1>3. \A quote, input : Attested(quote, input) => Attested(quote, input)'
  BY StaysAttested
<1>4. \A d \in Call : Quoted(d)' =>
        \/ Quoted(d) /\ call'[d] = call[d]
        \/ call'[d] = r /\ KnownRequest(r)
  BY <1>2 DEF Quoted, NewRequest
<1>5. \A d \in Call : Waiting(d)' =>
        \/ d # c /\ Waiting(d) /\ call'[d] = call[d]
        \/ d = c /\ call'[d] = r /\ NewRequest(r) /\ asked' = asked + 1
  BY <1>2 DEF Waiting, KnownRequest
<1>6. Calls'
  <2>1. \A d \in Call : call'[d] # None => Shape(call'[d]) /\ call'[d].input \in Input
    BY <1>2 DEF IInv, Calls, KnownRequest, NewRequest
  <2>2. \A d \in Call : Waiting(d)' =>
          /\ call'[d].serial \in Nat /\ call'[d].serial < asked'
          /\ call'[d].mode \in Modes(call'[d].input)
    BY <1>1, <1>5 DEF IInv, Calls, NewRequest
  <2>3. \A d, e \in Call : Waiting(d)' /\ Waiting(e)' /\ d # e => call'[d].serial # call'[e].serial
    BY <1>1, <1>5 DEF IInv, Calls, NewRequest
  <2> QED BY <1>1, <2>1, <2>2, <2>3 DEF Calls, Waiting, Shape, Modes
<1>7. Sound'
  <2>1. \A d \in Call : Quoted(d)' =>
          /\ Attested(call'[d].quote, call'[d].input)
          /\ call'[d].stage \in {"recording", "relating"} => call'[d].quote.decision = "allow"
    BY <1>4 DEF IInv, Sound, KnownRequest, Known
  <2>2. \A e \in cache' : Attested(e.quote, e.input)
    BY DEF IInv, Sound, Known
  <2>3. \A x \in answers' : x.executed =>
          x.request.quote.decision = "allow" /\ Attested(x.request.quote, x.request.input)
    BY DEF IInv, Sound, Known
  <2> QED BY <2>1, <2>2, <2>3 DEF Sound, Quoted, Attested
<1>8. \A serial \in Nat : \A i, v : Bears(serial, i, v)' => Bears(serial, i, v)
  <2> SUFFICES ASSUME NEW serial \in Nat, NEW i, NEW v, Bears(serial, i, v)'
               PROVE  Bears(serial, i, v)
    OBVIOUS
  <2>1. ASSUME NEW d \in Call, Quoted(d)', call'[d].quote.attestation = serial,
               call'[d].input = i, call'[d].version = v
        PROVE  Bears(serial, i, v)
    <3>1. CASE Quoted(d) /\ call'[d] = call[d]
      BY <2>1, <3>1 DEF Bears
    <3>2. CASE call'[d] = r /\ KnownRequest(r)
      BY <2>1, <3>2 DEF KnownRequest, Known
    <3> QED BY <1>4, <2>1, <3>1, <3>2
  <2>2. ASSUME NEW e \in cache', e.quote.attestation = serial, e.input = i, e.version = v
        PROVE  Bears(serial, i, v)
    <3>1. CASE e \in cache
      BY <2>2, <3>1 DEF Bears
    <3>2. CASE Known(e.quote, e.input, e.version)
      BY <2>2, <3>2 DEF Known
    <3> QED BY <2>2, <3>1, <3>2
  <2>3. ASSUME NEW x \in answers', x.executed, x.request.quote.attestation = serial,
               x.request.input = i, x.request.version = v
        PROVE  Bears(serial, i, v)
    <3>1. CASE x \in answers
      BY <2>3, <3>1 DEF Bears
    <3>2. CASE Known(x.request.quote, x.request.input, x.request.version)
      BY <2>3, <3>2 DEF Known
    <3> QED BY <2>3, <3>1, <3>2
  <2> QED BY <2>1, <2>2, <2>3 DEF Bears
<1>9. \A d \in Call : Waiting(d)' =>
        \/ Waiting(d) /\ call'[d].serial = call[d].serial
        \/ call'[d].serial = asked
  BY <1>5 DEF NewRequest
<1>10. Single' /\ Unused'
  BY <1>1, <1>8, <1>9, NoNewBearer
<1> QED BY <1>6, <1>7, <1>10 DEF IInv

(* A quoted request is a known one.                                        *)
LEMMA QuotedIsKnown ==
  ASSUME IInv, NEW c \in Call, Quoted(c)
  PROVE  KnownRequest(call[c])
<1>1. /\ Shape(call[c]) /\ call[c].input \in Input /\ call[c].stage # "asked"
      /\ Attested(call[c].quote, call[c].input)
      /\ call[c].stage \in {"recording", "relating"} => call[c].quote.decision = "allow"
  BY DEF IInv, Calls, Sound, Quoted
<1>2. Bears(call[c].quote.attestation, call[c].input, call[c].version)
  BY DEF Bears
<1> QED BY <1>1, <1>2 DEF KnownRequest, Known

(* Steps that leave the calls alone.                                       *)
LEMMA StaysPut ==
  ASSUME IInv, UNCHANGED <<call, cache, signed>>, asked' \in {asked, asked + 1},
         \A x \in answers' : x \in answers \/ ~x.executed
  PROVE  IInv'
<1>1. asked \in Nat /\ asked' \in Nat /\ asked' >= asked
  BY DEF IInv, Calls
<1>2. Calls'
  BY <1>1 DEF IInv, Calls, Waiting, Shape, Modes
<1>3. Sound'
  BY DEF IInv, Sound, Quoted, Attested
<1>4. \A serial \in Nat : \A i, v : Bears(serial, i, v)' => Bears(serial, i, v)
  BY DEF Bears, Quoted
<1>5. Single' /\ Unused'
  BY <1>1, <1>4, NoNewBearer DEF Waiting
<1> QED BY <1>2, <1>3, <1>5 DEF IInv

-----------------------------------------------------------------------------
(* The actions.                                                            *)

LEMMA AskKeeps ==
  ASSUME IInv, NEW c \in Call, NEW input \in Input, NEW workflow \in BOOLEAN,
         Ask(c, input, workflow)
  PROVE  IInv'
<1>1. PICK version : version = Graph!State.version
  OBVIOUS
<1> DEFINE Started(mode) ==
      [serial |-> asked, input |-> input, workflow |-> workflow, version |-> version,
       mode |-> mode, stage |-> "asked", quote |-> None,
       quoteEvent |-> None, actionEvent |-> None]
    Served(e) == [Started(None) EXCEPT !.stage = "quoted", !.quote = e.quote]
<1>2. asked' = asked + 1 /\ signed' = signed /\ cache' = cache
  BY DEF Ask
<1>3. \/ \E mode \in Modes(input) : Continue(c, Started(mode)) /\ UNCHANGED answers
      \/ \E e \in Cached(input, version) :
           IF workflow THEN Continue(c, Served(e)) /\ UNCHANGED answers
                       ELSE Give(Served(e), FALSE) /\ UNCHANGED call
  BY <1>1 DEF Ask
<1>4. ASSUME NEW mode \in Modes(input), Continue(c, Started(mode)), UNCHANGED answers
      PROVE  IInv'
  <2>1. PICK r : r = Started(mode)
    OBVIOUS
  <2>2. NewRequest(r)
    BY <2>1 DEF NewRequest, Shape
  <2>3. call' = [call EXCEPT ![c] = r]
    BY <1>4, <2>1 DEF Continue
  <2> QED BY <1>2, <1>4, <2>2, <2>3, Moved
<1>5. ASSUME NEW e \in Cached(input, version),
             IF workflow THEN Continue(c, Served(e)) /\ UNCHANGED answers
                         ELSE Give(Served(e), FALSE) /\ UNCHANGED call
      PROVE  IInv'
  <2>1. e \in cache /\ e.input = input /\ e.version = version
    BY DEF Cached, SameKey
  <2>2. Known(e.quote, input, version)
    BY <2>1 DEF IInv, Sound, Known, Bears
  <2>3. CASE workflow
    <3>1. PICK r : r = Served(e)
      OBVIOUS
    <3>2. /\ Shape(r) /\ r.stage = "quoted" /\ r.quote = e.quote
          /\ r.input = input /\ r.version = version
      BY <3>1 DEF Shape
    <3>3. KnownRequest(r)
      BY <2>2, <3>2 DEF KnownRequest
    <3>4. call' = [call EXCEPT ![c] = r] /\ UNCHANGED answers
      BY <1>5, <2>3, <3>1 DEF Continue
    <3> QED BY <1>2, <3>3, <3>4, Moved
  <2>4. CASE ~workflow
    <3>1. call' = call /\ \A x \in answers' : x \in answers \/ ~x.executed
      BY <1>5, <2>4 DEF Give
    <3> QED BY <1>2, <3>1, StaysPut
  <2> QED BY <2>3, <2>4
<1> QED BY <1>3, <1>4, <1>5

LEMMA ShieldDecidesKeeps ==
  ASSUME IInv, NEW c \in Call, NEW status \in Status, NEW low \in BOOLEAN,
         NEW claimed \in SUBSET Proof, ShieldDecides(c, status, low, claimed)
  PROVE  IInv'
<1>1. PICK r : r = call[c]
  OBVIOUS
<1>2. /\ Waiting(c) /\ Shape(r) /\ r.input \in Input /\ r.serial \in Nat /\ r.serial < asked
      /\ r.mode \in Modes(r.input)
      /\ UNCHANGED <<cache, asked, answers>> /\ asked \in Nat
  BY <1>1 DEF IInv, Calls, ShieldDecides, Waiting
<1>3. PICK decision : decision = IF status = "ok" THEN DecideSigned(r.input, r.mode, low)
                                                  ELSE DecideUnsigned(r.input, status)
  OBVIOUS
<1>4. PICK attestation : attestation = IF status = "ok" THEN r.serial ELSE None
  OBVIOUS
<1>5. PICK q : q = [decision |-> decision, status |-> status, version |-> r.version,
                    attestation |-> attestation]
  OBVIOUS
<1>6. PICK n : n = [r EXCEPT !.stage = "answered", !.mode = None, !.quote = q]
  OBVIOUS
<1>7. /\ n.stage = "answered" /\ n.quote = q /\ n.input = r.input /\ n.version = r.version
      /\ Shape(n)
  BY <1>2, <1>6 DEF Shape
<1>8. /\ call' = [call EXCEPT ![c] = n]
      /\ signed' = IF status = "ok"
                   THEN signed \cup {[serial |-> r.serial, wallet |-> r.input.wallet,
                                      proof |-> r.input.proof]}
                   ELSE signed
  BY <1>1, <1>3, <1>4, <1>5, <1>6 DEF ShieldDecides, Continue
<1>9. \A d \in Call : call'[d] = IF d = c THEN n ELSE call[d]
  BY <1>8 DEF IInv, Calls
<1>10. \A quote, input : Attested(quote, input) => Attested(quote, input)'
  BY <1>8, StaysAttested
<1>11. Attested(q, r.input)'
  <2> SUFFICES ASSUME decision = "allow" PROVE Attested(q, r.input)'
    BY <1>5 DEF Attested
  <2>1. status = "ok" /\ (r.input.action \in Sensitive => r.input.proof # None)
    BY <1>2, <1>3, AllowedIsSigned
  <2>2. [serial |-> r.serial, wallet |-> r.input.wallet, proof |-> r.input.proof] \in signed'
    BY <1>8, <2>1
  <2>3. q.attestation = r.serial
    BY <1>4, <1>5, <2>1
  <2> QED BY <1>2, <2>1, <2>2, <2>3 DEF Attested
<1>12. \A d \in Call : Waiting(d)' => d # c /\ Waiting(d) /\ call'[d] = call[d]
  BY <1>7, <1>9 DEF Waiting
<1>13. \A d \in Call : Quoted(d)' =>
         \/ Quoted(d) /\ call'[d] = call[d]
         \/ d = c /\ call'[d] = n
  BY <1>9 DEF Quoted
<1>14. Calls'
  <2>1. call' = [d \in Call |-> call'[d]]
    BY <1>8 DEF IInv, Calls
  <2>2. \A d \in Call : call'[d] # None => Shape(call'[d]) /\ call'[d].input \in Input
    BY <1>2, <1>7, <1>9 DEF IInv, Calls
  <2>3. \A d \in Call : Waiting(d)' =>
          /\ call'[d].serial \in Nat /\ call'[d].serial < asked'
          /\ call'[d].mode \in Modes(call'[d].input)
    BY <1>2, <1>12 DEF IInv, Calls
  <2>4. \A d, e \in Call : Waiting(d)' /\ Waiting(e)' /\ d # e => call'[d].serial # call'[e].serial
    BY <1>12 DEF IInv, Calls
  <2> QED BY <1>2, <2>1, <2>2, <2>3, <2>4 DEF Calls, Waiting, Shape, Modes
<1>15. Sound'
  <2>1. ASSUME NEW d \in Call, Quoted(d)'
        PROVE  /\ Attested(call[d].quote, call[d].input)'
               /\ call'[d].stage \in {"recording", "relating"} => call'[d].quote.decision = "allow"
    <3>1. PICK quote, input : quote = call'[d].quote /\ input = call'[d].input
      OBVIOUS
    <3>2. Attested(quote, input)'
      <4>1. CASE Quoted(d) /\ call'[d] = call[d]
        BY <1>10, <3>1, <4>1 DEF IInv, Sound
      <4>2. CASE d = c /\ call'[d] = n
        BY <1>7, <1>11, <3>1, <4>2
      <4> QED BY <1>13, <2>1, <4>1, <4>2
    <3>3. Attested(call[d].quote, call[d].input)'
      BY <3>1, <3>2 DEF Attested
    <3>4. call'[d].stage \in {"recording", "relating"} => call'[d].quote.decision = "allow"
      BY <1>7, <1>13, <2>1 DEF IInv, Sound
    <3> QED BY <3>3, <3>4
  <2>2. \A e \in cache' : Attested(e.quote, e.input)'
    BY <1>2, <1>10 DEF IInv, Sound
  <2>3. \A x \in answers' : x.executed =>
          x.request.quote.decision = "allow" /\ Attested(x.request.quote, x.request.input)'
    BY <1>2, <1>10 DEF IInv, Sound
  <2> QED BY <2>1, <2>2, <2>3 DEF Sound
<1>16. \A serial \in Nat : \A i, v : Bears(serial, i, v)' =>
         \/ Bears(serial, i, v)
         \/ serial = r.serial /\ i = r.input /\ v = r.version
  <2> SUFFICES ASSUME NEW serial \in Nat, NEW i, NEW v, Bears(serial, i, v)',
                      ~Bears(serial, i, v)
               PROVE  serial = r.serial /\ i = r.input /\ v = r.version
    OBVIOUS
  <2>1. PICK d \in Call : /\ Quoted(d)' /\ call'[d].quote.attestation = serial
                          /\ call'[d].input = i /\ call'[d].version = v
    BY <1>2 DEF Bears
  <2>2. ~(Quoted(d) /\ call'[d] = call[d])
    BY <2>1 DEF Bears
  <2>3. d = c /\ call'[d] = n
    BY <1>13, <2>1, <2>2
  <2> QED BY <1>4, <1>5, <1>7, <2>1, <2>3
<1>17. \A i, v : ~Bears(r.serial, i, v)
  BY <1>1, <1>2 DEF IInv, Unused
<1>18. Single'
  <2>1. \A serial \in Nat : \A i, v, j, w :
          Bears(serial, i, v)' /\ Bears(serial, j, w)' => i = j /\ v = w
    BY <1>16, <1>17 DEF IInv, Single
  <2> QED BY <2>1 DEF Single
<1>19. Unused'
  <2>1. \A d \in Call : Waiting(d)' => call'[d].serial # r.serial
    BY <1>1, <1>2, <1>12 DEF IInv, Calls
  <2>2. \A serial \in Nat : \A i, v : Bears(serial, i, v)' =>
          serial < asked' /\ \A d \in Call : Waiting(d)' => call'[d].serial # serial
    BY <1>2, <1>12, <1>16, <2>1 DEF IInv, Unused
  <2> QED BY <2>2 DEF Unused
<1> QED BY <1>14, <1>15, <1>18, <1>19 DEF IInv

LEMMA StoreQuoteKeeps ==
  ASSUME IInv, NEW c \in Call, StoreQuote(c)
  PROVE  IInv'
<1>1. PICK r : r = call[c]
  OBVIOUS
<1>2. r # None /\ r.stage = "answered" /\ UNCHANGED <<signed, asked>>
  BY <1>1 DEF StoreQuote
<1>3. KnownRequest(r)
  BY <1>1, <1>2, QuotedIsKnown DEF Quoted
<1>4. \A e \in cache' : e \in cache \/ Known(e.quote, e.input, e.version)
  <2>1. PICK e : e = [input |-> r.input, version |-> r.version, quote |-> r.quote]
    OBVIOUS
  <2>2. cache' = (cache \ Cached(r.input, r.version)) \cup {e}
    BY <1>1, <2>1 DEF StoreQuote
  <2>3. Known(e.quote, e.input, e.version)
    BY <1>3, <2>1 DEF KnownRequest
  <2> QED BY <2>2, <2>3
<1>5. CASE r.workflow
  <2>1. PICK n : n = [r EXCEPT !.stage = "quoted"]
    OBVIOUS
  <2>2. KnownRequest(n)
    <3>1. /\ Shape(n) /\ n.input = r.input /\ n.version = r.version /\ n.quote = r.quote
          /\ n.stage = "quoted"
      BY <1>3, <2>1 DEF KnownRequest, Shape
    <3> QED BY <1>3, <3>1 DEF KnownRequest
  <2>3. call' = [call EXCEPT ![c] = n] /\ UNCHANGED answers
    BY <1>1, <1>5, <2>1 DEF StoreQuote, Continue
  <2> QED BY <1>2, <1>4, <2>2, <2>3, Moved
<1>6. CASE ~r.workflow
  <2>1. call' = [call EXCEPT ![c] = None] /\ \A x \in answers' : x \in answers \/ ~x.executed
    BY <1>1, <1>6 DEF StoreQuote, End, Give
  <2> QED BY <1>2, <1>4, <2>1, Moved
<1> QED BY <1>5, <1>6

LEMMA TurnKeeps ==
  ASSUME IInv, NEW c \in Call, NEW ok \in BOOLEAN,
         RecordQuote(c, ok) \/ RecordAction(c, ok) \/ RecordRelation(c, ok)
  PROVE  IInv'
<1>1. PICK r : r = call[c]
  OBVIOUS
<1>2. UNCHANGED <<signed, asked, cache>>
  BY DEF RecordQuote, RecordAction, RecordRelation
<1>3. CASE RecordQuote(c, ok)
  <2>1. r # None /\ r.stage = "quoted"
    BY <1>1, <1>3 DEF RecordQuote
  <2>2. KnownRequest(r)
    BY <1>1, <2>1, QuotedIsKnown DEF Quoted
  <2>3. PICK n : n = [r EXCEPT !.stage = "recording", !.quoteEvent = fresh]
    OBVIOUS
  <2>4. /\ Shape(n) /\ n.input = r.input /\ n.version = r.version /\ n.quote = r.quote
        /\ n.stage = "recording"
    BY <2>2, <2>3 DEF KnownRequest, Shape
  <2>5. CASE End(c) /\ \A x \in answers' : x \in answers \/ ~x.executed
    BY <1>2, <2>5, Moved DEF End
  <2>6. CASE ok /\ r.quote.decision = "allow"
    <3>1. KnownRequest(n)
      BY <2>2, <2>4, <2>6 DEF KnownRequest
    <3>2. call' = [call EXCEPT ![c] = n] /\ UNCHANGED answers
      BY <1>1, <1>3, <2>3, <2>6 DEF RecordQuote, Continue
    <3> QED BY <1>2, <3>1, <3>2, Moved
  <2> QED BY <1>1, <1>3, <2>5, <2>6 DEF RecordQuote, Give
<1>4. CASE RecordAction(c, ok)
  <2>1. r # None /\ r.stage = "recording" /\ UNCHANGED answers
    BY <1>1, <1>4 DEF RecordAction
  <2>2. KnownRequest(r) /\ r.quote.decision = "allow"
    BY <1>1, <2>1, QuotedIsKnown DEF IInv, Sound, Quoted
  <2>3. PICK n : n = [r EXCEPT !.stage = "relating", !.actionEvent = fresh]
    OBVIOUS
  <2>4. /\ Shape(n) /\ n.input = r.input /\ n.version = r.version /\ n.quote = r.quote
        /\ n.stage = "relating"
    BY <2>2, <2>3 DEF KnownRequest, Shape
  <2>5. KnownRequest(n)
    BY <2>2, <2>4 DEF KnownRequest
  <2>6. call' = [call EXCEPT ![c] = n] \/ call' = [call EXCEPT ![c] = None]
    BY <1>1, <1>4, <2>3 DEF RecordAction, Continue, End
  <2> QED BY <1>2, <2>1, <2>5, <2>6, Moved
<1>5. CASE RecordRelation(c, ok)
  <2>1. r # None /\ r.stage = "relating"
    BY <1>1, <1>5 DEF RecordRelation
  <2>2. KnownRequest(r) /\ r.quote.decision = "allow"
    BY <1>1, <2>1, QuotedIsKnown DEF IInv, Sound, Quoted
  <2>3. call' = [call EXCEPT ![c] = None]
    BY <1>5 DEF RecordRelation, End
  <2>4. \A x \in answers' :
          \/ x \in answers
          \/ /\ x.request.quote.decision = "allow"
             /\ Known(x.request.quote, x.request.input, x.request.version)
    BY <1>1, <1>5, <2>2 DEF RecordRelation, Give, KnownRequest
  <2> QED BY <1>2, <2>3, <2>4, Moved
<1> QED BY <1>3, <1>4, <1>5

LEMMA RestartKeeps ==
  ASSUME IInv, Restart
  PROVE  IInv'
<1>1. /\ cache' = {} /\ call' = [c \in Call |-> None]
      /\ UNCHANGED <<signed, asked, answers>>
  BY DEF Restart
<1>2. \A c \in Call : call'[c] = None
  BY <1>1
<1>3. \A c \in Call : ~Waiting(c)' /\ ~Quoted(c)'
  BY <1>2 DEF Waiting, Quoted
<1>4. Calls'
  BY <1>1, <1>2, <1>3 DEF IInv, Calls
<1>5. Sound'
  BY <1>1, <1>3 DEF IInv, Sound, Attested
<1>6. \A serial \in Nat : \A i, v : Bears(serial, i, v)' => Bears(serial, i, v)
  BY <1>1, <1>3 DEF Bears
<1>7. Single' /\ Unused'
  <2>1. asked' \in Nat /\ asked' >= asked
    BY <1>1 DEF IInv, Calls
  <2> QED BY <1>3, <1>6, <2>1, NoNewBearer
<1> QED BY <1>4, <1>5, <1>7 DEF IInv

LEMMA StepKeeps ==
  ASSUME IInv, [Next]_vars
  PROVE  IInv'
<1>1. CASE UNCHANGED vars
  BY <1>1, StaysPut DEF vars, IInv, Calls
<1>2. ASSUME NEW w \in Wallet, NEW kind \in Posted, NEW ok \in BOOLEAN, PostEvent(w, kind, ok)
      PROVE  IInv'
  BY <1>2, StaysPut DEF PostEvent
<1>3. ASSUME NEW proof \in Proof, Lapse(proof)
      PROVE  IInv'
  BY <1>3, StaysPut DEF Lapse
<1> QED BY <1>1, <1>2, <1>3, AskKeeps, ShieldDecidesKeeps, StoreQuoteKeeps, TurnKeeps, RestartKeeps
        DEF Next

-----------------------------------------------------------------------------
(* The theorems.                                                           *)

(* Quotes stay sound and bound to their request and snapshot.              *)
THEOREM InvariantHolds == Spec => []IInv
<1>1. Init => IInv
  BY Starts
<1>2. IInv /\ [Next]_vars => IInv'
  BY StepKeeps
<1> QED BY <1>1, <1>2, PTL DEF Spec

(* Whatever executed was signed for its wallet and proofs, and had proofs  *)
(* where they are asked for (quoteHubDecision, executeFanPassWorkflow).    *)
THEOREM ExecutedAlwaysAttested == Spec => []ExecutedIsAttested
<1>1. IInv => ExecutedIsAttested
  BY DEF IInv, Sound, Attested, ExecutedIsAttested, Executed
<1> QED BY <1>1, InvariantHolds, PTL

(* One attestation lets one request at one snapshot execute (cacheKey,     *)
(* quoteHubDecision).                                                      *)
THEOREM AttestationsServeOneSnapshot == Spec => []AttestationServesOneSnapshot
<1>1. ASSUME IInv PROVE AttestationServesOneSnapshot
  <2> SUFFICES ASSUME NEW x \in answers, x.executed, NEW y \in answers, y.executed,
                      x.request.quote.attestation = y.request.quote.attestation
               PROVE  /\ x.request.version = y.request.version
                      /\ x.request.input = y.request.input
    BY DEF AttestationServesOneSnapshot, Executed
  <2>1. x.request.quote.attestation \in Nat
    BY <1>1 DEF IInv, Sound, Attested
  <2>2. /\ Bears(x.request.quote.attestation, x.request.input, x.request.version)
        /\ Bears(x.request.quote.attestation, y.request.input, y.request.version)
    BY DEF Bears
  <2> QED BY <1>1, <2>1, <2>2 DEF IInv, Single
<1> QED BY <1>1, InvariantHolds, PTL
-----------------------------------------------------------------------------
(* The file. The graph store is GraphStore with its proofs, over the same  *)
(* variables; every write of a workflow is one of its operations.          *)
Store == INSTANCE GraphStoreProofs WITH
  EventType <- Kind, Edge <- Wallet \X Target, Weight <- {1}, Caller <- {}

LEMMA StoreAssumptionsHold == Store!BoundAssumption /\ Store!NoneAssumption
<1>1. Store!BoundAssumption
  BY BoundAssumption DEF Store!BoundAssumption
<1>2. Store!NoneAssumption
  BY StoreAssumption
  DEF Store!NoneAssumption, Graph!Graph, Graph!Snapshot, Graph!Anchor, Graph!Event,
      Graph!Relations, Store!Graph, Store!Snapshot, Store!Anchor, Store!Event, Store!Relations
<1> QED BY <1>1, <1>2

LEMMA StateIsStores == Graph!State = Store!State
BY DEF Graph!State, Store!State, Graph!Hydrated, Store!Hydrated, Graph!Rekeyed, Store!Rekeyed

LEMMA IngestIsStores ==
  ASSUME NEW w, NEW type, NEW ok, Graph!IngestGraphEvent(w, type, ok)
  PROVE  Store!IngestGraphEvent(w, type, ok)
BY StateIsStores
DEF Graph!IngestGraphEvent, Store!IngestGraphEvent, Graph!Persist, Store!Persist,
    Graph!Acknowledge, Store!Acknowledge

LEMMA UpsertIsStores ==
  ASSUME NEW edge, NEW weight, NEW ok, Graph!UpsertRelationEdge(edge, weight, ok)
  PROVE  Store!UpsertRelationEdge(edge, weight, ok)
BY StateIsStores
DEF Graph!UpsertRelationEdge, Store!UpsertRelationEdge, Graph!Persist, Store!Persist,
    Graph!Acknowledge, Store!Acknowledge

LEMMA RestartIsStores == Graph!Restart => Store!Restart
BY DEF Graph!Restart, Store!Restart, Graph!defaultState, Store!defaultState

(* The steps of the hub, as the graph sees them: a read, a post, a record  *)
(* or relation, a death, or nothing.                                       *)
Reads == mem' = Store!State /\ loaded' = TRUE /\ UNCHANGED <<disk, pending, fresh, acked>>
Ingests ==
  \E w \in Wallet, kind \in Kind, ok \in BOOLEAN : Store!IngestGraphEvent(w, kind, ok)
Upserts ==
  \E edge \in Wallet \X Target, ok \in BOOLEAN : Store!UpsertRelationEdge(edge, 1, ok)

LEMMA StoreSteps ==
  ASSUME Store!Durable, Reads \/ Ingests \/ Upserts \/ Store!Restart \/ UNCHANGED graphVars
  PROVE  [Store!Next]_(Store!vars)
<1>1. CASE Reads
  <2>1. CASE loaded
    <3>1. Store!State = mem /\ loaded = TRUE
      BY <2>1 DEF Store!State, Store!Durable, Store!TypeOK
    <3> QED BY <1>1, <3>1 DEF Reads, Store!vars
  <2>2. CASE ~loaded
    BY <1>1, <2>2 DEF Reads, Store!Next, Store!ExportWalletGraph
  <2> QED BY <2>1, <2>2
<1>2. CASE Ingests
  BY <1>2 DEF Ingests, Store!Next
<1>3. CASE Upserts
  BY <1>3 DEF Upserts, Store!Next
<1>4. CASE Store!Restart
  BY <1>4 DEF Store!Next
<1>5. CASE UNCHANGED graphVars
  BY <1>5 DEF graphVars, Store!vars
<1> QED BY <1>1, <1>2, <1>3, <1>4, <1>5

(* Relations reach memory with the file.                                   *)
Related(g, edge) == g.relations[edge] # None
MemoryKeepsRelations ==
  loaded /\ disk # None => \A edge \in Wallet \X Target : Related(disk, edge) => Related(mem, edge)

(* A write leaves what the file had, and brings what it was to bring.      *)
FileGrows ==
  disk # None =>
    /\ disk' # None /\ disk.events \subseteq disk'.events
    /\ \A edge \in Wallet \X Target : Related(disk, edge) => Related(disk, edge)'

LEMMA StateKeepsRelations ==
  ASSUME Store!Durable, MemoryKeepsRelations, disk # None
  PROVE  \A edge \in Wallet \X Target : Related(disk, edge) => Related(Store!State, edge)
<1>1. CASE loaded
  BY <1>1 DEF MemoryKeepsRelations, Store!State
<1>2. CASE ~loaded
  <2>1. Store!State = Store!Hydrated(disk) /\ disk \in Store!Graph
    BY <1>2 DEF Store!State, Store!Durable, Store!TypeOK, Store!GraphOK
  <2>2. Store!State.relations = disk.relations
    BY <2>1 DEF Store!Hydrated, Store!Graph
  <2> QED BY <2>2 DEF Related
<1> QED BY <1>1, <1>2

LEMMA WriteKeeps ==
  ASSUME Store!Durable, MemoryKeepsRelations, NEW next, next # None, NEW ok \in BOOLEAN,
         Store!Persist(next, ok), Store!State.events \subseteq next.events,
         \A edge \in Wallet \X Target : Related(Store!State, edge) => Related(next, edge)
  PROVE  FileGrows /\ MemoryKeepsRelations' /\ (ok => disk' = next)
<1>1. mem' = next /\ loaded' = TRUE /\ disk' = IF ok THEN next ELSE disk
  BY DEF Store!Persist
<1>2. disk # None => disk.events \subseteq next.events
  BY StoreAssumptionsHold, Store!StateOK DEF Store!Covers
<1>3. disk # None =>
        \A edge \in Wallet \X Target : Related(disk, edge) => Related(next, edge)
  BY StateKeepsRelations
<1> QED BY <1>1, <1>2, <1>3 DEF FileGrows, MemoryKeepsRelations, Related

LEMMA IngestWrites ==
  ASSUME Store!Durable, MemoryKeepsRelations,
         NEW w \in Wallet, NEW kind \in Kind, NEW ok \in BOOLEAN,
         Store!IngestGraphEvent(w, kind, ok)
  PROVE  /\ FileGrows /\ MemoryKeepsRelations'
         /\ ok => /\ disk' # None
                  /\ [id |-> fresh, wallet |-> w, type |-> kind] \in disk'.events
<1> DEFINE event == [id |-> fresh, wallet |-> w, type |-> kind]
<1>1. PICK next : next = [Store!State EXCEPT !.events = @ \cup {event},
                                             !.version = Store!State.version + 1]
  OBVIOUS
<1>2. Store!State \in Store!Graph /\ fresh \in Nat /\ event \in Store!Event
  BY StoreAssumptionsHold, Store!StateOK
  DEF Store!GraphOK, Store!Durable, Store!TypeOK, Store!Event
<1>3. /\ next.events = Store!State.events \cup {event}
      /\ next.relations = Store!State.relations
      /\ next \in Store!Graph
  <2>1. next = [version |-> Store!State.version + 1,
                events |-> Store!State.events \cup {event},
                relations |-> Store!State.relations, anchors |-> Store!State.anchors]
    BY <1>1, <1>2 DEF Store!Graph
  <2>2. /\ Store!State.version + 1 \in Nat
        /\ Store!State.events \cup {event} \in SUBSET Store!Event
        /\ Store!State.relations \in Store!Relations
        /\ Store!State.anchors \in SUBSET Store!Anchor
    BY <1>2 DEF Store!Graph
  <2> HIDE DEF event
  <2> QED BY <2>1, <2>2 DEF Store!Graph
<1>4. next # None
  BY <1>3, StoreAssumptionsHold DEF Store!NoneAssumption
<1>5. Store!Persist(next, ok)
  BY <1>1 DEF Store!IngestGraphEvent
<1>6. FileGrows /\ MemoryKeepsRelations' /\ (ok => disk' = next)
  BY <1>3, <1>4, <1>5, WriteKeeps DEF Related
<1> QED BY <1>3, <1>4, <1>6

LEMMA UpsertWrites ==
  ASSUME Store!Durable, MemoryKeepsRelations,
         NEW edge \in Wallet \X Target, NEW ok \in BOOLEAN,
         Store!UpsertRelationEdge(edge, 1, ok)
  PROVE  /\ FileGrows /\ MemoryKeepsRelations'
         /\ ok => disk' # None /\ Related(disk, edge)'
<1>1. PICK next : next = [Store!State EXCEPT !.relations = [@ EXCEPT ![edge] = 1],
                                             !.version = Store!State.version + 1]
  OBVIOUS
<1>2. Store!State \in Store!Graph
  BY StoreAssumptionsHold, Store!StateOK DEF Store!GraphOK
<1>3. Store!State.relations \in [Wallet \X Target -> {1} \cup {None}]
  BY <1>2 DEF Store!Graph, Store!Relations
<1>4. /\ next.events = Store!State.events
      /\ next.relations = [Store!State.relations EXCEPT ![edge] = 1]
      /\ next \in Store!Graph
  <2>1. PICK relations : relations = [Store!State.relations EXCEPT ![edge] = 1]
    OBVIOUS
  <2>2. relations \in Store!Relations
    BY <1>3, <2>1 DEF Store!Relations
  <2>3. next = [version |-> Store!State.version + 1, events |-> Store!State.events,
                relations |-> relations, anchors |-> Store!State.anchors]
    BY <1>1, <1>2, <2>1 DEF Store!Graph
  <2>4. /\ Store!State.version + 1 \in Nat
        /\ Store!State.events \in SUBSET Store!Event
        /\ Store!State.anchors \in SUBSET Store!Anchor
    BY <1>2 DEF Store!Graph
  <2> QED BY <2>1, <2>2, <2>3, <2>4 DEF Store!Graph
<1>5. next # None
  BY <1>4, StoreAssumptionsHold DEF Store!NoneAssumption
<1>6. 1 # None
  BY NoneAssumption
<1>7. next.relations[edge] = 1
  BY <1>3, <1>4
<1>8. \A x \in Wallet \X Target : Related(Store!State, x) => Related(next, x)
  BY <1>3, <1>4, <1>6 DEF Related
<1>9. Store!Persist(next, ok)
  BY <1>1 DEF Store!UpsertRelationEdge
<1>10. FileGrows /\ MemoryKeepsRelations' /\ (ok => disk' = next)
  BY <1>4, <1>5, <1>8, <1>9, WriteKeeps
<1> QED BY <1>5, <1>6, <1>7, <1>10 DEF Related

(* Other steps leave the file alone.                                       *)
LEMMA QuietFile ==
  ASSUME Store!Durable, MemoryKeepsRelations,
         Reads \/ Store!Restart \/ UNCHANGED graphVars
  PROVE  FileGrows /\ MemoryKeepsRelations' /\ disk' = disk
<1>1. disk' = disk
  BY DEF Reads, Store!Restart, graphVars
<1>2. FileGrows
  BY <1>1 DEF FileGrows, Related
<1>3. MemoryKeepsRelations'
  <2>1. CASE Reads
    BY <1>1, <2>1, StateKeepsRelations DEF Reads, MemoryKeepsRelations, Related
  <2>2. CASE Store!Restart
    BY <2>2 DEF Store!Restart, MemoryKeepsRelations
  <2>3. CASE UNCHANGED graphVars
    BY <2>3 DEF graphVars, MemoryKeepsRelations, Related
  <2> QED BY <2>1, <2>2, <2>3
<1> QED BY <1>1, <1>2, <1>3

-----------------------------------------------------------------------------
(* What requests have on file: its quote once it records, its action once  *)
(* it relates, and all three when it has executed.                         *)
OnFile(r) ==
  /\ r.stage \in {"recording", "relating"} =>
       disk # None /\ EventOf(r, disk, r.quoteEvent, "quote")
  /\ r.stage = "relating" => EventOf(r, disk, r.actionEvent, r.input.action)

EdgeOf(r) == <<r.input.wallet, target[r.input.item]>>
Recorded(r) ==
  /\ disk # None
  /\ EventOf(r, disk, r.quoteEvent, "quote")
  /\ EventOf(r, disk, r.actionEvent, r.input.action)
  /\ Related(disk, EdgeOf(r))

OnRecord ==
  /\ \A c \in Call : call[c] # None => OnFile(call[c])
  /\ \A x \in answers : x.executed => Recorded(x.request)

Version == Store!State.version
InTurn(r) == r # None /\ r.stage \in {"recording", "relating"}
Moving(r) ==
  /\ r \in Progress
  /\ r.stage # "asked" => r.quote \in Quote
  /\ r.version <= Version

Typed ==
  /\ cache \subseteq Entry /\ \A e \in cache : e.version <= Version
  /\ call \in [Call -> Progress \cup {None}]
  /\ \A c \in Call : call[c] # None => Moving(call[c])
  /\ turn \in Call \cup {None}
  /\ \A c \in Call : turn = c <=> InTurn(call[c])
  /\ spent \subseteq Proof /\ signed \subseteq Attestation /\ asked \in Nat
  /\ answers \subseteq Given

HubInv == IInv /\ Store!Durable /\ MemoryKeepsRelations /\ Typed /\ OnRecord

LEMMA InputsAreRequests ==
  ASSUME NEW input \in Input
  PROVE  /\ input.wallet \in Wallet /\ input.item \in Item /\ input.action \in Action
         /\ input.proof \in Proof \cup {None}
         /\ <<input.wallet, target[input.item]>> \in Wallet \X Target
BY InputAssumption, TargetAssumption DEF Request

LEMMA VersionIsNat == Store!Durable => Version \in Nat /\ fresh \in Nat
BY StoreAssumptionsHold, Store!StateOK
DEF Version, Store!GraphOK, Store!Graph, Store!Durable, Store!TypeOK

(* What a step of the graph keeps; only a death takes versions back.       *)
LEMMA GraphKeeps ==
  ASSUME Store!Durable, MemoryKeepsRelations,
         Reads \/ Ingests \/ Upserts \/ Store!Restart \/ UNCHANGED graphVars
  PROVE  /\ Store!Durable' /\ MemoryKeepsRelations' /\ FileGrows
         /\ Version \in Nat
         /\ Store!Restart \/ (Version' \in Nat /\ Version <= Version')
<1>1. Store!Durable'
  BY StoreSteps, StoreAssumptionsHold, Store!DurableStep
<1>2. MemoryKeepsRelations' /\ FileGrows
  BY IngestWrites, UpsertWrites, QuietFile DEF Ingests, Upserts
<1>3. Version \in Nat
  BY VersionIsNat
<1>4. ASSUME Reads PROVE Version' \in Nat /\ Version <= Version'
  <2>1. Store!State' = Store!State
    BY <1>4 DEF Reads, Store!State
  <2>2. Version' = Version
    BY <2>1 DEF Version
  <2> QED BY <1>3, <2>2
<1>5. ASSUME Ingests PROVE Version' \in Nat /\ Version <= Version'
  <2>1. PICK w \in Wallet, kind \in Kind, ok \in BOOLEAN : Store!IngestGraphEvent(w, kind, ok)
    BY <1>5 DEF Ingests
  <2>2. loaded' = TRUE
    BY <2>1 DEF Store!IngestGraphEvent, Store!Persist
  <2>3. mem'.version = Version + 1
    <3>1. Store!State \in Store!Graph
      BY StoreAssumptionsHold, Store!StateOK DEF Store!GraphOK
    <3>2. PICK events : mem' = [Store!State EXCEPT !.events = events,
                                                  !.version = Store!State.version + 1]
      BY <2>1 DEF Store!IngestGraphEvent, Store!Persist
    <3> QED BY <3>1, <3>2 DEF Version, Store!Graph
  <2>4. Version' = Version + 1
    BY <2>2, <2>3 DEF Version, Store!State
  <2> QED BY <1>3, <2>4
<1>6. ASSUME Upserts PROVE Version' \in Nat /\ Version <= Version'
  <2>1. PICK edge \in Wallet \X Target, ok \in BOOLEAN : Store!UpsertRelationEdge(edge, 1, ok)
    BY <1>6 DEF Upserts
  <2>2. loaded' = TRUE
    BY <2>1 DEF Store!UpsertRelationEdge, Store!Persist
  <2>3. mem'.version = Version + 1
    <3>1. Store!State \in Store!Graph
      BY StoreAssumptionsHold, Store!StateOK DEF Store!GraphOK
    <3>2. PICK relations : mem' = [Store!State EXCEPT !.relations = relations,
                                                     !.version = Store!State.version + 1]
      BY <2>1 DEF Store!UpsertRelationEdge, Store!Persist
    <3> QED BY <3>1, <3>2 DEF Version, Store!Graph
  <2>4. Version' = Version + 1
    BY <2>2, <2>3 DEF Version, Store!State
  <2> QED BY <1>3, <2>4
<1>7. ASSUME UNCHANGED graphVars PROVE Version' \in Nat /\ Version <= Version'
  <2>1. Store!State' = Store!State
    BY <1>7 DEF graphVars, Store!State
  <2>2. Version' = Version
    BY <2>1 DEF Version
  <2> QED BY <1>3, <2>2
<1>8. Store!Restart \/ (Version' \in Nat /\ Version <= Version')
  BY <1>4, <1>5, <1>6, <1>7
<1> QED BY <1>1, <1>2, <1>3, <1>8

(* What is on file stays there.                                            *)
LEMMA FilesStay ==
  ASSUME FileGrows
  PROVE  /\ \A r : OnFile(r) => OnFile(r)'
         /\ \A r : Recorded(r) /\ EdgeOf(r) \in Wallet \X Target => Recorded(r)'
<1>1. \A r, id, type : disk # None /\ EventOf(r, disk, id, type) => EventOf(r, disk', id, type)
  BY DEF FileGrows, EventOf
<1>2. disk # None => disk' # None
  BY DEF FileGrows
<1>3. \A r : OnFile(r) => OnFile(r)'
  BY <1>1, <1>2 DEF OnFile
<1>4. \A r : Recorded(r) /\ EdgeOf(r) \in Wallet \X Target => Recorded(r)'
  BY <1>1, <1>2 DEF Recorded, FileGrows, EdgeOf
<1> QED BY <1>3, <1>4

LEMMA GivenOnFile ==
  ASSUME Typed, NEW x \in answers
  PROVE  EdgeOf(x.request) \in Wallet \X Target
BY InputsAreRequests DEF Typed, Given, Progress, EdgeOf

(* A request that moves on, or ends.                                       *)
LEMMA RequestMoves ==
  ASSUME HubInv, FileGrows, Version <= Version', Version' \in Nat, NEW c \in Call, NEW r,
         call' = [call EXCEPT ![c] = r],
         r = None \/ (Moving(r)' /\ OnFile(r)'),
         turn \in {None, c}, turn' = IF InTurn(r) THEN c ELSE None,
         \A e \in cache' : e \in cache \/ (e \in Entry /\ e.version <= Version'),
         \A x \in answers' :
           x \in answers \/ (x \in Given /\ (x.executed => Recorded(x.request)')),
         spent' \subseteq Proof, signed' \subseteq Attestation, asked' \in Nat
  PROVE  Typed' /\ OnRecord'
<1> USE IdleAssumption
<1>1. /\ Typed /\ OnRecord /\ Version \in Nat
      /\ \A d \in Call : call'[d] = IF d = c THEN r ELSE call[d]
  BY VersionIsNat DEF HubInv, Typed
<1>2. ASSUME NEW d \in Call, call'[d] # None
      PROVE  Moving(call[d])' /\ OnFile(call[d])'
  <2>1. PICK s : s = call'[d]
    OBVIOUS
  <2>2. Moving(s)' /\ OnFile(s)'
    <3>1. CASE d = c
      BY <1>1, <1>2, <2>1, <3>1
    <3>2. CASE d # c
      <4>1. s = call[d] /\ Moving(s) /\ OnFile(s)
        BY <1>1, <1>2, <2>1, <3>2 DEF Typed, OnRecord
      <4>2. s.version \in Nat
        BY <4>1 DEF Moving, Progress
      <4>3. Moving(s)'
        BY <1>1, <4>1, <4>2 DEF Moving
      <4> QED BY <4>1, <4>3, FilesStay
    <3> QED BY <3>1, <3>2
  <2> QED BY <2>1, <2>2 DEF Moving, OnFile, EventOf
<1>3. OnRecord'
  <2>1. ASSUME NEW x \in answers', x.executed PROVE Recorded(x.request)'
    BY <1>1, <2>1, FilesStay, GivenOnFile DEF OnRecord
  <2> QED BY <1>2, <2>1 DEF OnRecord
<1>4. Typed'
  <2>1. cache' \subseteq Entry /\ \A e \in cache' : e.version <= Version'
    <3>1. \A e \in Entry : e.version \in Nat
      BY DEF Entry
    <3> QED BY <1>1, <3>1 DEF Typed
  <2>2. call' \in [Call -> Progress \cup {None}]
    BY <1>1 DEF Typed, Moving
  <2>3. turn' \in Call \cup {None}
    OBVIOUS
  <2>4. ASSUME NEW d \in Call PROVE turn' = d <=> InTurn(call'[d])
    <3>1. CASE d = c
      BY <1>1, <3>1
    <3>2. CASE d # c
      BY <1>1, <3>2 DEF Typed
    <3> QED BY <3>1, <3>2
  <2>5. answers' \subseteq Given
    BY <1>1 DEF Typed
  <2> QED BY <1>2, <2>1, <2>2, <2>3, <2>4, <2>5 DEF Typed, InTurn
<1> QED BY <1>3, <1>4

-----------------------------------------------------------------------------
(* The actions again, for the file.                                        *)

LEMMA AskFiles ==
  ASSUME HubInv, NEW c \in Call, NEW input \in Input, NEW workflow \in BOOLEAN,
         Ask(c, input, workflow)
  PROVE  HubInv'
<1> USE IdleAssumption
<1>1. Reads
  BY StateIsStores DEF Ask, Reads
<1>2. /\ Store!Durable' /\ MemoryKeepsRelations' /\ FileGrows /\ IInv'
      /\ Version \in Nat /\ Version' \in Nat /\ Version' = Version /\ Version <= Version'
  <2>1. Version' = Version
    BY <1>1 DEF Reads, Version, Store!State
  <2> QED BY <1>1, <2>1, GraphKeeps, AskKeeps, VersionIsNat DEF HubInv
<1>3. Typed /\ OnRecord /\ asked \in Nat
  BY DEF HubInv, Typed
<1>4. /\ turn = None /\ turn' = None /\ cache' = cache
      /\ spent' \subseteq Proof /\ signed' \subseteq Attestation /\ asked' \in Nat
  <2>1. /\ turn = None /\ turn' = turn /\ cache' = cache /\ spent' = spent
        /\ signed' = signed /\ asked' = asked + 1
    BY DEF Ask
  <2> QED BY <1>3, <2>1 DEF Typed
<1> DEFINE Started(mode) ==
      [serial |-> asked, input |-> input, workflow |-> workflow, version |-> Version,
       mode |-> mode, stage |-> "asked", quote |-> None,
       quoteEvent |-> None, actionEvent |-> None]
    Served(e) == [Started(None) EXCEPT !.stage = "quoted", !.quote = e.quote]
<1>5. \/ \E mode \in Modes(input) : Continue(c, Started(mode)) /\ UNCHANGED answers
      \/ \E e \in Cached(input, Version) :
           IF workflow THEN Continue(c, Served(e)) /\ UNCHANGED answers
                       ELSE Give(Served(e), FALSE) /\ UNCHANGED call
  BY StateIsStores DEF Ask, Version
<1>6. ASSUME NEW mode \in Modes(input), Continue(c, Started(mode)), UNCHANGED answers
      PROVE  Typed' /\ OnRecord'
  <2>1. PICK r : r = Started(mode)
    OBVIOUS
  <2>2. mode \in Mode
    BY DEF Modes, Mode
  <2>3. r \in Progress /\ r.stage = "asked" /\ r.version = Version
    BY <1>2, <1>3, <2>1, <2>2 DEF Progress, Stage
  <2>4. Moving(r)' /\ OnFile(r)' /\ ~InTurn(r)
    BY <1>2, <2>3 DEF Moving, OnFile, InTurn
  <2>5. /\ call' = [call EXCEPT ![c] = r] /\ answers' = answers
        /\ turn \in {None, c} /\ turn' = IF InTurn(r) THEN c ELSE None
    BY <1>4, <1>6, <2>1, <2>4 DEF Continue
  <2> QED BY <1>2, <1>4, <2>4, <2>5, RequestMoves
<1>7. ASSUME NEW e \in Cached(input, Version),
             IF workflow THEN Continue(c, Served(e)) /\ UNCHANGED answers
                         ELSE Give(Served(e), FALSE) /\ UNCHANGED call
      PROVE  Typed' /\ OnRecord'
  <2>1. PICK r : r = Served(e)
    OBVIOUS
  <2>2. e \in cache /\ e.quote \in Quote
    BY <1>3 DEF Cached, Typed, Entry
  <2>3. r = [serial |-> asked, input |-> input, workflow |-> workflow, version |-> Version,
             mode |-> None, stage |-> "quoted", quote |-> e.quote,
             quoteEvent |-> None, actionEvent |-> None]
    BY <2>1
  <2>4. r \in Progress /\ r.stage = "quoted" /\ r.quote \in Quote /\ r.version = Version
    BY <1>2, <1>3, <2>2, <2>3 DEF Progress, Stage
  <2>5. Moving(r)' /\ OnFile(r)' /\ ~InTurn(r)
    BY <1>2, <2>4 DEF Moving, OnFile, InTurn
  <2>6. CASE workflow
    <3>1. /\ call' = [call EXCEPT ![c] = r] /\ answers' = answers
          /\ turn \in {None, c} /\ turn' = IF InTurn(r) THEN c ELSE None
      BY <1>4, <1>7, <2>1, <2>5, <2>6 DEF Continue
    <3> QED BY <1>2, <1>4, <2>5, <3>1, RequestMoves
  <2>7. CASE ~workflow
    <3>1. PICK given : given = [request |-> r, executed |-> FALSE]
      OBVIOUS
    <3>2. given \in Given /\ ~given.executed
      BY <2>4, <3>1 DEF Given
    <3>3. call' = call /\ answers' = answers \cup {given}
      BY <1>7, <2>1, <2>7, <3>1 DEF Give
    <3>4. call' = [call EXCEPT ![c] = None]
      BY <1>3, <3>3 DEF Ask, Typed
    <3>5. turn \in {None, c} /\ turn' = IF InTurn(None) THEN c ELSE None
      BY <1>4 DEF InTurn
    <3> QED BY <1>2, <1>4, <3>2, <3>3, <3>4, <3>5, RequestMoves
  <2> QED BY <2>6, <2>7
<1> QED BY <1>2, <1>5, <1>6, <1>7 DEF HubInv

LEMMA QuietGraph ==
  ASSUME HubInv, UNCHANGED graphVars
  PROVE  /\ Store!Durable' /\ MemoryKeepsRelations' /\ FileGrows
         /\ Version \in Nat /\ Version' = Version
         /\ Version' \in Nat /\ Version <= Version'
<1>1. Store!State' = Store!State
  BY DEF graphVars, Store!State
<1> QED BY <1>1, GraphKeeps, VersionIsNat DEF HubInv, Version

LEMMA ShieldDecidesFiles ==
  ASSUME HubInv, NEW c \in Call, NEW status \in Status, NEW low \in BOOLEAN,
         NEW claimed \in SUBSET Proof, ShieldDecides(c, status, low, claimed)
  PROVE  HubInv'
<1> USE IdleAssumption
<1>1. UNCHANGED graphVars /\ UNCHANGED <<cache, turn, asked, answers>> /\ turn = None
  BY DEF ShieldDecides
<1>2. /\ Store!Durable' /\ MemoryKeepsRelations' /\ FileGrows /\ IInv'
      /\ Version \in Nat /\ Version' = Version
      /\ Version' \in Nat /\ Version <= Version'
  BY <1>1, QuietGraph, ShieldDecidesKeeps DEF HubInv
<1>3. PICK r : r = call[c]
  OBVIOUS
<1>4. /\ Typed /\ r \in Progress /\ r.version <= Version
      /\ r.input \in Input /\ r.mode \in Modes(r.input)
  BY <1>3 DEF HubInv, Typed, Moving, ShieldDecides, IInv, Calls, Waiting
<1>5. PICK decision : decision = IF status = "ok" THEN DecideSigned(r.input, r.mode, low)
                                                  ELSE DecideUnsigned(r.input, status)
  OBVIOUS
<1>6. PICK q : q = [decision |-> decision, status |-> status, version |-> r.version,
                    attestation |-> IF status = "ok" THEN r.serial ELSE None]
  OBVIOUS
<1>7. PICK n : n = [r EXCEPT !.stage = "answered", !.mode = None, !.quote = q]
  OBVIOUS
<1>8. decision \in Decision
  <2>1. r.input.bias \in Bias
    BY <1>4, InputAssumption DEF Request
  <2>2. \A d \in Decision : Biased(r.input.bias, d) \in Decision
    BY <2>1 DEF Biased, Bias, Decision
  <2> QED BY <1>5, <2>1, <2>2 DEF DecideSigned, DecideUnsigned, Decision, Bias
<1>9. q \in Quote
  BY <1>4, <1>6, <1>8 DEF Quote, Progress
<1>10. n \in Progress /\ n.stage = "answered" /\ n.quote = q /\ n.version = r.version
  BY <1>4, <1>7, <1>9 DEF Progress, Stage
<1>11. Moving(n)' /\ OnFile(n)' /\ ~InTurn(n)
  BY <1>2, <1>4, <1>9, <1>10 DEF Moving, OnFile, InTurn
<1>12. /\ call' = [call EXCEPT ![c] = n]
       /\ spent' = spent \cup claimed
       /\ signed' = IF status = "ok"
                    THEN signed \cup {[serial |-> r.serial, wallet |-> r.input.wallet,
                                       proof |-> r.input.proof]}
                    ELSE signed
  BY <1>3, <1>5, <1>6, <1>7 DEF ShieldDecides, Continue
<1>13. signed' \subseteq Attestation
  <2>1. [serial |-> r.serial, wallet |-> r.input.wallet, proof |-> r.input.proof] \in Attestation
    BY <1>4, InputsAreRequests DEF Attestation, Progress
  <2> QED BY <1>4, <1>12, <2>1 DEF Typed
<1>14. spent' \subseteq Proof /\ asked' \in Nat
  BY <1>1, <1>4, <1>12 DEF Typed
<1>15. /\ turn \in {None, c} /\ turn' = IF InTurn(n) THEN c ELSE None
       /\ cache' = cache /\ answers' = answers
  BY <1>1, <1>11
<1>16. Typed' /\ OnRecord'
  BY <1>1, <1>2, <1>11, <1>12, <1>13, <1>14, <1>15, RequestMoves
<1> QED BY <1>2, <1>16 DEF HubInv

LEMMA StoreQuoteFiles ==
  ASSUME HubInv, NEW c \in Call, StoreQuote(c)
  PROVE  HubInv'
<1> USE IdleAssumption
<1>1. UNCHANGED graphVars /\ UNCHANGED <<turn, spent, signed, asked>> /\ turn = None
  BY DEF StoreQuote
<1>2. /\ Store!Durable' /\ MemoryKeepsRelations' /\ FileGrows /\ IInv'
      /\ Version \in Nat /\ Version' = Version
      /\ Version' \in Nat /\ Version <= Version'
  BY <1>1, QuietGraph, StoreQuoteKeeps DEF HubInv
<1>3. PICK r : r = call[c]
  OBVIOUS
<1>4. /\ Typed /\ r \in Progress /\ r.version <= Version /\ r.quote \in Quote
      /\ r.stage = "answered"
  BY <1>3 DEF HubInv, Typed, Moving, StoreQuote
<1>5. PICK entry : entry = [input |-> r.input, version |-> r.version, quote |-> r.quote]
  OBVIOUS
<1>6. entry \in Entry /\ entry.version <= Version'
  BY <1>2, <1>4, <1>5 DEF Entry, Progress
<1>7. \A e \in cache' : e \in cache \/ (e \in Entry /\ e.version <= Version')
  BY <1>3, <1>5, <1>6 DEF StoreQuote
<1>8. spent' \subseteq Proof /\ signed' \subseteq Attestation /\ asked' \in Nat
  BY <1>1, <1>4 DEF Typed
<1>9. CASE r.workflow
  <2>1. PICK n : n = [r EXCEPT !.stage = "quoted"]
    OBVIOUS
  <2>2. n \in Progress /\ n.stage = "quoted" /\ n.quote = r.quote /\ n.version = r.version
    BY <1>4, <2>1 DEF Progress, Stage
  <2>3. Moving(n)' /\ OnFile(n)' /\ ~InTurn(n)
    BY <1>2, <1>4, <2>2 DEF Moving, OnFile, InTurn
  <2>4. /\ call' = [call EXCEPT ![c] = n] /\ answers' = answers
        /\ turn \in {None, c} /\ turn' = IF InTurn(n) THEN c ELSE None
    BY <1>1, <1>3, <1>9, <2>1, <2>3 DEF StoreQuote, Continue
  <2>5. Typed' /\ OnRecord'
    BY <1>1, <1>2, <1>7, <1>8, <2>3, <2>4, RequestMoves
  <2> QED BY <1>2, <2>5 DEF HubInv
<1>10. CASE ~r.workflow
  <2>1. PICK given : given = [request |-> r, executed |-> FALSE]
    OBVIOUS
  <2>2. given \in Given /\ ~given.executed
    BY <1>4, <2>1 DEF Given
  <2>3. call' = [call EXCEPT ![c] = None] /\ answers' = answers \cup {given}
    BY <1>3, <1>10, <2>1 DEF StoreQuote, End, Give
  <2>4. turn \in {None, c} /\ turn' = IF InTurn(None) THEN c ELSE None
    BY <1>1 DEF InTurn
  <2>5. Typed' /\ OnRecord'
    BY <1>2, <1>7, <1>8, <2>2, <2>3, <2>4, RequestMoves
  <2> QED BY <1>2, <2>5 DEF HubInv
<1> QED BY <1>9, <1>10

(* A write of a workflow, as the store takes it.                           *)
LEMMA RecordIsIngest ==
  ASSUME NEW r \in Progress, r.quote \in Quote, NEW type \in Action \cup {"quote"},
         NEW ok \in BOOLEAN, Record(r, type, ok),
         Store!Durable, MemoryKeepsRelations
  PROVE  /\ Ingests /\ fresh' \in Nat /\ fresh \in Nat
         /\ ok /\ r.quote.decision = "allow" =>
              disk' # None /\ EventOf(r, disk', fresh, type)
<1>1. PICK kind : kind = [type |-> type, item |-> r.input.item, decision |-> r.quote.decision]
  OBVIOUS
<1>2. r.input.wallet \in Wallet /\ kind \in Kind
  BY <1>1, InputsAreRequests DEF Progress, Quote, Kind
<1>3. Store!IngestGraphEvent(r.input.wallet, kind, ok)
  BY <1>1, IngestIsStores DEF Record
<1>4. fresh \in Nat /\ fresh' \in Nat
  BY <1>3, VersionIsNat DEF Store!IngestGraphEvent
<1>5. ASSUME ok, r.quote.decision = "allow"
      PROVE  disk' # None /\ EventOf(r, disk', fresh, type)
  <2>1. PICK e : e = [id |-> fresh, wallet |-> r.input.wallet, type |-> kind]
    OBVIOUS
  <2>2. disk' # None /\ e \in disk'.events
    BY <1>2, <1>3, <1>5, <2>1, IngestWrites
  <2>3. e.id = fresh /\ e.wallet = r.input.wallet /\ e.type = kind
    BY <2>1
  <2> QED BY <1>1, <1>5, <2>2, <2>3 DEF EventOf
<1> QED BY <1>2, <1>3, <1>4, <1>5 DEF Ingests

LEMMA RecordQuoteFiles ==
  ASSUME HubInv, NEW c \in Call, NEW ok \in BOOLEAN, RecordQuote(c, ok)
  PROVE  HubInv'
<1> USE IdleAssumption
<1>1. PICK r : r = call[c]
  OBVIOUS
<1>2. /\ turn = None /\ r # None /\ r.stage = "quoted" /\ Record(r, "quote", ok)
      /\ UNCHANGED <<cache, spent, signed, asked>>
  BY <1>1 DEF RecordQuote
<1>3. /\ Typed /\ r \in Progress /\ r.version <= Version /\ r.quote \in Quote
      /\ Store!Durable /\ MemoryKeepsRelations
  BY <1>1, <1>2 DEF HubInv, Typed, Moving
<1>4. /\ Ingests /\ fresh \in Nat
      /\ ok /\ r.quote.decision = "allow" =>
           disk' # None /\ EventOf(r, disk', fresh, "quote")
  BY <1>2, <1>3, RecordIsIngest
<1>5. /\ Store!Durable' /\ MemoryKeepsRelations' /\ FileGrows /\ Version <= Version'
      /\ Version \in Nat /\ Version' \in Nat
  <2>1. ~Store!Restart
    BY <1>4, VersionIsNat, <1>3 DEF Ingests, Store!IngestGraphEvent, Store!Restart
  <2> QED BY <1>3, <1>4, <2>1, GraphKeeps
<1>6. PICK n : n = [r EXCEPT !.stage = "recording", !.quoteEvent = fresh]
  OBVIOUS
<1>7. /\ n \in Progress /\ n.stage = "recording" /\ n.quote = r.quote /\ n.input = r.input
      /\ n.version = r.version /\ n.quoteEvent = fresh
  BY <1>3, <1>4, <1>6 DEF Progress, Stage
<1>8. /\ \A e \in cache' : e \in cache \/ (e \in Entry /\ e.version <= Version')
      /\ spent' \subseteq Proof /\ signed' \subseteq Attestation /\ asked' \in Nat
  BY <1>2, <1>3 DEF Typed
<1>9. CASE ok /\ r.quote.decision = "allow"
  <2>1. r.version \in Nat
    BY <1>3 DEF Progress
  <2>2. Moving(n)' /\ InTurn(n)
    BY <1>3, <1>5, <1>7, <2>1 DEF Moving, InTurn
  <2>3. OnFile(n)'
    BY <1>4, <1>7, <1>9 DEF OnFile, EventOf
  <2>4. /\ call' = [call EXCEPT ![c] = n] /\ answers' = answers
        /\ turn \in {None, c} /\ turn' = IF InTurn(n) THEN c ELSE None
    BY <1>1, <1>2, <1>6, <1>9, <2>2 DEF RecordQuote, Continue
  <2> QED BY <1>5, <1>8, <2>2, <2>3, <2>4, RequestMoves, TurnKeeps DEF HubInv
<1>10. CASE ~(ok /\ r.quote.decision = "allow")
  <2>1. PICK given : given = [request |-> n, executed |-> FALSE]
    OBVIOUS
  <2>2. given \in Given /\ ~given.executed
    BY <1>7, <2>1 DEF Given
  <2>3. /\ call' = [call EXCEPT ![c] = None] /\ turn' = None
        /\ answers' = answers \/ answers' = answers \cup {given}
    BY <1>1, <1>2, <1>6, <1>10, <2>1 DEF RecordQuote, End, Give
  <2>4. turn \in {None, c} /\ turn' = IF InTurn(None) THEN c ELSE None
    BY <1>2, <2>3 DEF InTurn
  <2>5. Typed' /\ OnRecord'
    BY <1>5, <1>8, <2>2, <2>3, <2>4, RequestMoves
  <2> QED BY <1>5, <2>5, TurnKeeps DEF HubInv
<1> QED BY <1>9, <1>10

LEMMA RecordActionFiles ==
  ASSUME HubInv, NEW c \in Call, NEW ok \in BOOLEAN, RecordAction(c, ok)
  PROVE  HubInv'
<1> USE IdleAssumption
<1>1. PICK r : r = call[c]
  OBVIOUS
<1>2. /\ turn = c /\ r # None /\ r.stage = "recording" /\ Record(r, r.input.action, ok)
      /\ UNCHANGED <<cache, spent, signed, asked, answers>>
  BY <1>1 DEF RecordAction
<1>3. /\ Typed /\ r \in Progress /\ r.version <= Version /\ r.quote \in Quote
      /\ Store!Durable /\ MemoryKeepsRelations /\ OnFile(r) /\ r.quote.decision = "allow"
  BY <1>1, <1>2 DEF HubInv, Typed, Moving, OnRecord, IInv, Sound, Quoted
<1>4. /\ Ingests /\ fresh \in Nat
      /\ ok => disk' # None /\ EventOf(r, disk', fresh, r.input.action)
  <2>1. r.input.action \in Action \cup {"quote"}
    BY <1>3, InputsAreRequests DEF Progress
  <2> QED BY <1>2, <1>3, <2>1, RecordIsIngest
<1>5. /\ Store!Durable' /\ MemoryKeepsRelations' /\ FileGrows /\ Version <= Version'
      /\ Version \in Nat /\ Version' \in Nat
  <2>1. ~Store!Restart
    BY <1>4, VersionIsNat, <1>3 DEF Ingests, Store!IngestGraphEvent, Store!Restart
  <2> QED BY <1>3, <1>4, <2>1, GraphKeeps
<1>6. PICK n : n = [r EXCEPT !.stage = "relating", !.actionEvent = fresh]
  OBVIOUS
<1>7. /\ n \in Progress /\ n.stage = "relating" /\ n.quote = r.quote /\ n.input = r.input
      /\ n.version = r.version /\ n.actionEvent = fresh /\ n.quoteEvent = r.quoteEvent
  BY <1>3, <1>4, <1>6 DEF Progress, Stage
<1>8. /\ \A e \in cache' : e \in cache \/ (e \in Entry /\ e.version <= Version')
      /\ spent' \subseteq Proof /\ signed' \subseteq Attestation /\ asked' \in Nat
      /\ answers' = answers /\ turn \in {None, c}
  BY <1>2, <1>3 DEF Typed
<1>9. CASE ok
  <2>1. r.version \in Nat
    BY <1>3 DEF Progress
  <2>2. Moving(n)' /\ InTurn(n)
    BY <1>3, <1>5, <1>7, <2>1 DEF Moving, InTurn
  <2>3. EventOf(r, disk', r.quoteEvent, "quote")
    BY <1>2, <1>3, <1>5 DEF OnFile, EventOf, FileGrows
  <2>4. OnFile(n)'
    BY <1>4, <1>7, <1>9, <2>3 DEF OnFile, EventOf
  <2>5. /\ call' = [call EXCEPT ![c] = n]
        /\ turn' = IF InTurn(n) THEN c ELSE None
    BY <1>1, <1>2, <1>6, <1>9, <2>2 DEF RecordAction, Continue
  <2> QED BY <1>5, <1>8, <2>2, <2>4, <2>5, RequestMoves, TurnKeeps DEF HubInv
<1>10. CASE ~ok
  <2>1. call' = [call EXCEPT ![c] = None] /\ turn' = IF InTurn(None) THEN c ELSE None
    BY <1>10 DEF RecordAction, End, InTurn
  <2>2. Typed' /\ OnRecord'
    BY <1>5, <1>8, <2>1, RequestMoves
  <2> QED BY <1>5, <2>2, TurnKeeps DEF HubInv
<1> QED BY <1>9, <1>10

LEMMA RecordRelationFiles ==
  ASSUME HubInv, NEW c \in Call, NEW ok \in BOOLEAN, RecordRelation(c, ok)
  PROVE  HubInv'
<1> USE IdleAssumption
<1>1. PICK r : r = call[c]
  OBVIOUS
<1>2. /\ turn = c /\ r # None /\ r.stage = "relating" /\ Relate(r, ok)
      /\ UNCHANGED <<cache, spent, signed, asked>>
      /\ call' = [call EXCEPT ![c] = None] /\ turn' = None
  BY <1>1 DEF RecordRelation, End
<1>3. /\ Typed /\ r \in Progress /\ Store!Durable /\ MemoryKeepsRelations /\ OnFile(r)
  BY <1>1, <1>2 DEF HubInv, Typed, Moving, OnRecord
<1>4. EdgeOf(r) \in Wallet \X Target
  BY <1>3, InputsAreRequests DEF Progress, EdgeOf
<1>5. Store!UpsertRelationEdge(EdgeOf(r), 1, ok)
  BY <1>2, UpsertIsStores DEF Relate, EdgeOf
<1>6. Upserts /\ (ok => disk' # None /\ Related(disk', EdgeOf(r)))
  BY <1>3, <1>4, <1>5, UpsertWrites DEF Upserts, Related
<1>7. /\ Store!Durable' /\ MemoryKeepsRelations' /\ FileGrows /\ Version <= Version'
      /\ Version \in Nat /\ Version' \in Nat
  <2>1. loaded' = TRUE
    BY <1>5 DEF Store!UpsertRelationEdge, Store!Persist
  <2>2. ~Store!Restart
    BY <2>1 DEF Store!Restart
  <2> QED BY <1>3, <1>6, <2>2, GraphKeeps
<1>8. /\ \A e \in cache' : e \in cache \/ (e \in Entry /\ e.version <= Version')
      /\ spent' \subseteq Proof /\ signed' \subseteq Attestation /\ asked' \in Nat
  BY <1>2, <1>3 DEF Typed
<1>9. PICK given : given = [request |-> r, executed |-> TRUE]
  OBVIOUS
<1>10. given \in Given /\ given.request = r
  BY <1>3, <1>9 DEF Given
<1>11. ok => Recorded(r)'
  BY <1>2, <1>3, <1>6, <1>7 DEF OnFile, EventOf, FileGrows, Recorded, Related, EdgeOf
<1>12. \A x \in answers' :
         x \in answers \/ (x \in Given /\ (x.executed => Recorded(x.request)'))
  <2>1. answers' = IF ok THEN answers \cup {given} ELSE answers
    BY <1>1, <1>9 DEF RecordRelation, Give
  <2> QED BY <1>10, <1>11, <2>1 DEF Recorded, EventOf, Related, EdgeOf
<1>13. turn \in {None, c} /\ turn' = IF InTurn(None) THEN c ELSE None
  BY <1>2 DEF InTurn
<1>14. Typed' /\ OnRecord'
  BY <1>2, <1>7, <1>8, <1>12, <1>13, RequestMoves
<1> QED BY <1>7, <1>14, TurnKeeps DEF HubInv

(* Steps of others: nothing in progress moves.                             *)
LEMMA OthersKeep ==
  ASSUME HubInv, FileGrows, Version \in Nat, Version' \in Nat, Version <= Version',
         UNCHANGED <<cache, call, turn, signed, asked, answers>>, spent' \subseteq Proof
  PROVE  Typed' /\ OnRecord'
<1>1. Typed /\ OnRecord
  BY DEF HubInv
<1>2. \A r : Moving(r) => Moving(r)'
  BY DEF Moving, Progress
<1>3. OnRecord'
  <2>1. ASSUME NEW c \in Call, call'[c] # None PROVE OnFile(call[c])'
    <3>1. PICK r : r = call[c]
      OBVIOUS
    <3>2. OnFile(r)'
      BY <1>1, <2>1, <3>1, FilesStay DEF OnRecord
    <3> QED BY <3>1, <3>2 DEF OnFile, EventOf
  <2>2. ASSUME NEW x \in answers', x.executed PROVE Recorded(x.request)'
    BY <1>1, <2>2, FilesStay, GivenOnFile DEF OnRecord
  <2> QED BY <2>1, <2>2 DEF OnRecord
<1>4. Typed'
  <2>1. \A e \in cache' : e.version <= Version'
    <3>1. \A e \in Entry : e.version \in Nat
      BY DEF Entry
    <3> QED BY <1>1, <3>1 DEF Typed
  <2>2. ASSUME NEW c \in Call, call'[c] # None PROVE Moving(call[c])'
    <3>1. PICK r : r = call[c]
      OBVIOUS
    <3>2. Moving(r)'
      BY <1>1, <1>2, <2>2, <3>1 DEF Typed
    <3> QED BY <3>1, <3>2 DEF Moving
  <2> QED BY <1>1, <2>1, <2>2 DEF Typed, InTurn
<1> QED BY <1>3, <1>4

LEMMA RestartFiles ==
  ASSUME HubInv, Restart
  PROVE  HubInv'
<1>1. Store!Restart /\ cache' = {} /\ call' = [c \in Call |-> None] /\ turn' = None
      /\ UNCHANGED <<spent, signed, asked, answers>>
  BY RestartIsStores DEF Restart
<1>2. Store!Durable' /\ MemoryKeepsRelations' /\ FileGrows /\ Typed /\ OnRecord
  BY <1>1, GraphKeeps DEF HubInv
<1>3. \A c \in Call : call'[c] = None /\ c # None
  BY <1>1, IdleAssumption
<1>4. Typed'
  BY <1>1, <1>2, <1>3 DEF Typed, InTurn
<1>5. OnRecord'
  <2>1. ASSUME NEW x \in answers', x.executed PROVE Recorded(x.request)'
    BY <1>1, <1>2, <2>1, FilesStay, GivenOnFile DEF OnRecord
  <2> QED BY <1>3, <2>1 DEF OnRecord
<1> QED BY <1>2, <1>4, <1>5, RestartKeeps DEF HubInv

LEMMA HubStarts == Init => HubInv
<1> SUFFICES ASSUME Init PROVE HubInv
  OBVIOUS
<1>1. Store!Init
  BY DEF Init, Graph!Init, Store!Init, Graph!defaultState, Store!defaultState
<1>2. Store!Durable
  BY <1>1, StoreAssumptionsHold, Store!DurableInit
<1>3. MemoryKeepsRelations
  BY <1>1 DEF Store!Init, MemoryKeepsRelations
<1>4. /\ cache = {} /\ call = [c \in Call |-> None] /\ turn = None /\ spent = {}
      /\ signed = {} /\ asked = 0 /\ answers = {}
  BY DEF Init
<1>5. \A c \in Call : call[c] = None /\ c # None
  BY <1>4, IdleAssumption
<1>6. Typed
  BY <1>4, <1>5 DEF Typed, InTurn
<1>7. OnRecord
  BY <1>4, <1>5 DEF OnRecord
<1> QED BY <1>2, <1>3, <1>6, <1>7, Starts DEF HubInv

LEMMA HubSteps ==
  ASSUME HubInv, [Next]_vars
  PROVE  HubInv'
<1>1. ASSUME UNCHANGED vars PROVE HubInv'
  <2>1. UNCHANGED graphVars /\ UNCHANGED <<cache, call, turn, spent, signed, asked, answers>>
    BY <1>1 DEF vars, graphVars
  <2>2. spent' \subseteq Proof
    BY <2>1 DEF HubInv, Typed
  <2> QED BY <1>1, <2>1, <2>2, QuietGraph, OthersKeep, StepKeeps DEF HubInv
<1>2. ASSUME NEW w \in Wallet, NEW kind \in Posted, NEW ok \in BOOLEAN, PostEvent(w, kind, ok)
      PROVE  HubInv'
  <2>1. kind \in Kind /\ UNCHANGED <<cache, call, turn, spent, signed, asked, answers>>
    BY <1>2, InputAssumption DEF PostEvent
  <2>2. Store!IngestGraphEvent(w, kind, ok)
    BY <1>2, IngestIsStores DEF PostEvent
  <2>3. Ingests /\ ~Store!Restart
    BY <2>1, <2>2 DEF Ingests, Store!IngestGraphEvent, Store!Persist, Store!Restart
  <2>4. /\ Store!Durable' /\ MemoryKeepsRelations' /\ FileGrows /\ Version <= Version'
        /\ Version \in Nat /\ Version' \in Nat
    BY <2>3, GraphKeeps DEF HubInv
  <2>5. spent' \subseteq Proof
    BY <2>1 DEF HubInv, Typed
  <2>6. IInv'
    BY <1>2, StepKeeps DEF Next, HubInv
  <2> QED BY <2>1, <2>4, <2>5, <2>6, OthersKeep DEF HubInv
<1>3. ASSUME NEW proof \in Proof, Lapse(proof)
      PROVE  HubInv'
  <2>1. /\ UNCHANGED graphVars /\ UNCHANGED <<cache, call, turn, signed, asked, answers>>
        /\ spent' \subseteq Proof
    BY <1>3 DEF Lapse, HubInv, Typed
  <2>2. IInv'
    BY <1>3, StepKeeps DEF Next, HubInv
  <2> QED BY <2>1, <2>2, QuietGraph, OthersKeep DEF HubInv
<1> QED BY <1>1, <1>2, <1>3, AskFiles, ShieldDecidesFiles, StoreQuoteFiles, RecordQuoteFiles,
           RecordActionFiles, RecordRelationFiles, RestartFiles DEF Next

-----------------------------------------------------------------------------
(* The theorems about the record.                                          *)

(* The store stays durable, memory keeps the relations of the file, and    *)
(* each request in progress and each answer has on file what it recorded,  *)
(* whatever fails or dies (executeFanPassWorkflow over ingestGraphEvent    *)
(* and upsertRelationEdge).                                                *)
THEOREM HubInvHolds == Spec => []HubInv
<1>1. Init => HubInv
  BY HubStarts
<1>2. HubInv /\ [Next]_vars => HubInv'
  BY HubSteps
<1> QED BY <1>1, <1>2, PTL DEF Spec

(* A workflow that answered executed has its quote, its action and its     *)
(* relation in the file, for ever (executeFanPassWorkflow's three writes   *)
(* of the graph store).                                                    *)
THEOREM ExecutedStaysOnRecord == Spec => []ExecutedIsOnRecord
<1>1. HubInv => ExecutedIsOnRecord
  BY DEF HubInv, OnRecord, Recorded, Related, EdgeOf, ExecutedIsOnRecord, Executed
<1> QED BY <1>1, HubInvHolds, PTL

(* Types, with the bound on what is cached and the holder of the turn.     *)
THEOREM TypesHold == Spec => []TypeOK
<1>1. ASSUME HubInv PROVE TypeOK
  <2>1. Store!TypeOK
    BY <1>1 DEF HubInv, Store!Durable
  <2>2. Graph!TypeOK
    BY <2>1
    DEF Graph!TypeOK, Store!TypeOK, Graph!GraphOK, Store!GraphOK, Graph!Graph, Store!Graph,
        Graph!Snapshot, Store!Snapshot, Graph!Anchor, Store!Anchor, Graph!Event, Store!Event,
        Graph!Relations, Store!Relations, Graph!Ack, Store!Ack
  <2>3. \A e \in cache : e.version <= Graph!State.version
    BY <1>1, StateIsStores DEF HubInv, Typed, Version
  <2> QED BY <1>1, <2>2, <2>3 DEF TypeOK, HubInv, Typed, InTurn
<1> QED BY <1>1, HubInvHolds, PTL

(* Every step of the hub is a step of the graph store, or leaves it alone: *)
(* what is proved of the store alone holds of the store in the hub.        *)
THEOREM HubUsesTheStore == Spec => Store!Spec
<1>1. Init => Store!Init
  BY DEF Init, Graph!Init, Store!Init, Graph!defaultState, Store!defaultState
<1>2. ASSUME HubInv, [Next]_vars
      PROVE  [Store!Next]_(Store!vars)
  <2>1. CASE UNCHANGED graphVars
    BY <1>2, <2>1, StoreSteps DEF HubInv
  <2>2. ASSUME NEW c \in Call, NEW input \in Input, NEW workflow \in BOOLEAN,
               Ask(c, input, workflow)
        PROVE  Reads
    BY <2>2, StateIsStores DEF Ask, Reads
  <2>3. ASSUME NEW c \in Call, NEW ok \in BOOLEAN,
               RecordQuote(c, ok) \/ RecordAction(c, ok)
        PROVE  Ingests
    <3>1. call[c] # None /\ Moving(call[c]) /\ call[c].stage # "asked"
      BY <1>2, <2>3 DEF RecordQuote, RecordAction, HubInv, Typed
    <3>2. PICK type \in Action \cup {"quote"} : Record(call[c], type, ok)
      BY <2>3, <3>1, InputsAreRequests DEF RecordQuote, RecordAction, Moving, Progress
    <3> QED BY <1>2, <3>1, <3>2, RecordIsIngest DEF HubInv, Moving
  <2>4. ASSUME NEW c \in Call, NEW ok \in BOOLEAN, RecordRelation(c, ok)
        PROVE  Upserts
    <3>1. call[c].input \in Input
      BY <1>2, <2>4 DEF RecordRelation, HubInv, Typed, Moving, Progress
    <3> QED BY <2>4, <3>1, InputsAreRequests, UpsertIsStores DEF RecordRelation, Relate, Upserts
  <2>5. ASSUME NEW w \in Wallet, NEW kind \in Posted, NEW ok \in BOOLEAN, PostEvent(w, kind, ok)
        PROVE  Ingests
    BY <2>5, InputAssumption, IngestIsStores DEF PostEvent, Ingests
  <2>6. Restart => Store!Restart
    BY RestartIsStores DEF Restart
  <2>7. ASSUME NEW c \in Call, NEW status \in Status, NEW low \in BOOLEAN,
               NEW claimed \in SUBSET Proof, ShieldDecides(c, status, low, claimed)
        PROVE  UNCHANGED graphVars
    BY <2>7 DEF ShieldDecides
  <2>8. (\E c \in Call : StoreQuote(c)) \/ (\E proof \in Proof : Lapse(proof)) \/ UNCHANGED vars
          => UNCHANGED graphVars
    BY DEF StoreQuote, Lapse, vars, graphVars
  <2>9. Reads \/ Ingests \/ Upserts \/ Store!Restart \/ UNCHANGED graphVars
    BY <1>2, <2>2, <2>3, <2>4, <2>5, <2>6, <2>7, <2>8 DEF Next
  <2> QED BY <1>2, <2>9, StoreSteps DEF HubInv
<1> QED BY <1>1, <1>2, HubInvHolds, PTL DEF Spec, Store!Spec
=============================================================================
