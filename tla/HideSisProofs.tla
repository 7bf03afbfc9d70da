---------------------------- MODULE HideSisProofs ----------------------------
(***************************************************************************)
(* TLAPS proofs about the two games of Hide-Sis, for any bounds: first     *)
(* OpenWorld, for any requests, actions and proposals of the language      *)
(* model, then HideSisSession and HideSisReplay.                           *)
(***************************************************************************)
EXTENDS OpenWorld, HideSisReplay, FiniteSetTheorems, TLAPS

-----------------------------------------------------------------------------
(* Arithmetic.                                                             *)

LEMMA ClampBounds ==
  ASSUME NEW x \in Int, NEW low \in Int, NEW high \in Int, low <= high
  PROVE  /\ Clamp(x, low, high) \in low..high
         /\ x \in low..high => Clamp(x, low, high) = x
BY DEF Clamp

LEMMA RoundedRange ==
  ASSUME NEW a \in Nat, NEW b \in Nat \ {0}, NEW m \in Nat, a <= b * m
  PROVE  Rounded(a, b) \in 0..m
<1>1. 2 * a + b \in Nat /\ 2 * b \in Nat \ {0} /\ 2 * a + b < (2 * b) * (m + 1)
  OBVIOUS
<1>2. ASSUME NEW x \in Nat, NEW d \in Nat \ {0}, x < d * (m + 1) PROVE x \div d \in 0..m
  BY <1>2
<1> QED BY <1>1, <1>2 DEF Rounded

LEMMA RoundedInt ==
  ASSUME NEW a \in Nat, NEW b \in Nat \ {0}
  PROVE  Rounded(a, b) \in Nat
BY DEF Rounded

LEMMA RoundedHalves ==
  ASSUME NEW a \in Nat
  PROVE  /\ Rounded(a, 100) \in Int
         /\ 2 * a - 100 < 200 * Rounded(a, 100) /\ 200 * Rounded(a, 100) <= 2 * a + 100
         /\ a % 100 = 50 => 200 * Rounded(a, 100) = 2 * a + 100
BY DEF Rounded

-----------------------------------------------------------------------------
(* Sums over finite sets.                                                  *)

(* Induction over the subsets of a finite set, as the existence of a       *)
(* smallest counterexample.                                                *)
LEMMA SmallestSet ==
  ASSUME NEW S, IsFiniteSet(S), NEW B \in SUBSET SUBSET S, B # {}
  PROVE  \E b \in B : \A c \in B : c \subseteq b => c = b
<1>1. IsWellFoundedOn(StrictSubsetOrdering(S), SUBSET S)
  BY FS_FiniteSubsetsOfFinite, FS_StrictSubsetOrderingWellFounded
<1>2. PICK b \in B : \A c \in B : ~(<<c, b>> \in StrictSubsetOrdering(S))
  BY <1>1, WFMin
<1> QED BY <1>2 DEF StrictSubsetOrdering

(* How MapThenSumSet adds up the values of a function: element by element. *)
(* Total(f, S) is MapThenSumSet(LAMBDA x : f[x], S) with its definitions   *)
(* expanded.                                                               *)
FirstOf(s) == CHOOSE x \in s : TRUE
IsFold(g, f, S) ==
  g = [s \in SUBSET S |-> IF s = {} THEN 0 ELSE f[FirstOf(s)] + g[s \ {FirstOf(s)}]]
Total(f, S) == (CHOOSE g : IsFold(g, f, S))[S]

LEMMA FirstIn ==
  ASSUME NEW s, s # {}
  PROVE  FirstOf(s) \in s
BY DEF FirstOf

LEMMA FoldStep ==
  ASSUME NEW f, NEW S, NEW g, IsFold(g, f, S), NEW s \in SUBSET S
  PROVE  /\ s = {} => g[s] = 0
         /\ s # {} => g[s] = f[FirstOf(s)] + g[s \ {FirstOf(s)}]
<1>1. PICK h : h = [t \in SUBSET S |-> IF t = {} THEN 0
                                      ELSE f[FirstOf(t)] + g[t \ {FirstOf(t)}]]
  OBVIOUS
<1>2. g = h
  BY <1>1 DEF IsFold
<1>3. /\ s = {} => h[s] = 0
      /\ s # {} => h[s] = f[FirstOf(s)] + g[s \ {FirstOf(s)}]
  BY <1>1
<1> QED BY <1>2, <1>3

(* Two folds agree where both are defined.                                 *)
LEMMA FoldsAgree ==
  ASSUME NEW f, NEW S, NEW T, NEW g, NEW h, IsFold(g, f, S), IsFold(h, f, T),
         NEW u, u \subseteq S, u \subseteq T, IsFiniteSet(u)
  PROVE  g[u] = h[u]
<1> DEFINE B == {s \in SUBSET u : g[s] # h[s]}
<1>1. SUFFICES ASSUME B # {} PROVE FALSE
  OBVIOUS
<1>2. PICK C : C = B
  OBVIOUS
<1>3. C \in SUBSET SUBSET u /\ C # {}
  BY <1>1, <1>2
<1>4. PICK b \in C : \A c \in C : c \subseteq b => c = b
  BY <1>3, SmallestSet
<1>5. b \in B /\ \A c \in B : c \subseteq b => c = b
  BY <1>2, <1>4
<1>6. /\ b \in SUBSET u /\ b \in SUBSET S /\ b \in SUBSET T /\ g[b] # h[b]
  BY <1>5
<1>7. b # {}
  BY <1>6, FoldStep
<1>8. PICK x, c : x = FirstOf(b) /\ c = b \ {x}
  OBVIOUS
<1>9. x \in b /\ c \subseteq b /\ c # b /\ c \in SUBSET u
  BY <1>6, <1>7, <1>8, FirstIn
<1>10. g[c] = h[c]
  BY <1>5, <1>9
<1>11. g[b] = f[x] + g[c] /\ h[b] = f[x] + h[c]
  BY <1>6, <1>7, <1>8, FoldStep
<1> QED BY <1>6, <1>10, <1>11

(* Every finite set has a fold.                                            *)
LEMMA FoldExists ==
  ASSUME NEW f, NEW S, IsFiniteSet(S)
  PROVE  \E g : IsFold(g, f, S)
<1> DEFINE B == {s \in SUBSET S : ~ \E g : IsFold(g, f, s)}
<1>1. SUFFICES ASSUME B # {} PROVE FALSE
  OBVIOUS
<1>2. PICK C : C = B
  OBVIOUS
<1>3. C \in SUBSET SUBSET S /\ C # {}
  BY <1>1, <1>2
<1>4. PICK b \in C : \A c \in C : c \subseteq b => c = b
  BY <1>3, SmallestSet
<1>5. b \in B /\ \A c \in B : c \subseteq b => c = b
  BY <1>2, <1>4
<1>6. b \in SUBSET S /\ ~ \E g : IsFold(g, f, b)
  BY <1>5
<1>7. \A c : c \subseteq b /\ c # b => \E g : IsFold(g, f, c)
  BY <1>5, <1>6
<1> DEFINE Of(c) == CHOOSE g : IsFold(g, f, c)
           G == [s \in SUBSET b |-> IF s = {} THEN 0 ELSE
                   f[FirstOf(s)] + Of(s \ {FirstOf(s)})[s \ {FirstOf(s)}]]
<1>8. \A c : c \subseteq b /\ c # b => IsFold(Of(c), f, c)
  BY <1>7
<1>9. PICK g : g = G
  OBVIOUS
<1>10. \A s \in SUBSET b : IsFiniteSet(s)
  <2>1. IsFiniteSet(b)
    BY <1>6, FS_Subset
  <2> QED BY <2>1, FS_Subset
<1>11. ASSUME NEW c \in SUBSET b, c # b PROVE g[c] = Of(c)[c]
  <2>1. PICK h : h = Of(c)
    OBVIOUS
  <2>2. IsFold(h, f, c)
    BY <1>8, <1>11, <2>1
  <2>3. CASE c = {}
    <3>1. h[c] = 0
      BY <2>2, <2>3, FoldStep
    <3>2. g[c] = 0
      BY <1>9, <2>3
    <3> QED BY <2>1, <3>1, <3>2
  <2>4. CASE c # {}
    <3>1. PICK x, d : x = FirstOf(c) /\ d = c \ {x}
      OBVIOUS
    <3>2. x \in c /\ d \subseteq c /\ d \subseteq b /\ d # b /\ IsFiniteSet(d)
      BY <1>10, <1>11, <2>4, <3>1, FirstIn
    <3>3. PICK k : k = Of(d)
      OBVIOUS
    <3>4. IsFold(k, f, d)
      BY <1>8, <3>2, <3>3
    <3>5. h[d] = k[d]
      BY <2>2, <3>2, <3>4, FoldsAgree
    <3>6. h[c] = f[x] + h[d]
      BY <2>2, <2>4, <3>1, FoldStep
    <3>7. g[c] = f[x] + k[d]
      BY <1>9, <2>4, <3>1, <3>3
    <3> QED BY <2>1, <3>5, <3>6, <3>7
  <2> QED BY <2>3, <2>4
<1>12. ASSUME NEW s \in SUBSET b
      PROVE  G[s] = IF s = {} THEN 0 ELSE f[FirstOf(s)] + g[s \ {FirstOf(s)}]
  <2>1. CASE s = {}
    BY <2>1
  <2>2. CASE s # {}
    <3>1. PICK x, d : x = FirstOf(s) /\ d = s \ {x}
      OBVIOUS
    <3>2. d \in SUBSET b /\ d # b
      BY <2>2, <3>1, FirstIn
    <3>3. g[d] = Of(d)[d]
      BY <1>11, <3>2
    <3>4. G[s] = f[x] + Of(d)[d]
      BY <2>2, <3>1
    <3> QED BY <2>2, <3>1, <3>3, <3>4
  <2> QED BY <2>1, <2>2
<1>13. G = [s \in SUBSET b |-> IF s = {} THEN 0 ELSE f[FirstOf(s)] + g[s \ {FirstOf(s)}]]
  BY <1>12
<1>14. IsFold(g, f, b)
  BY <1>9, <1>13 DEF IsFold
<1> QED BY <1>6, <1>14

(* A total is zero, or a value and the total of the rest.                  *)
LEMMA TotalStep ==
  ASSUME NEW f, NEW S, IsFiniteSet(S)
  PROVE  /\ S = {} => Total(f, S) = 0
         /\ S # {} => Total(f, S) = f[FirstOf(S)] + Total(f, S \ {FirstOf(S)})
<1>1. PICK g : g = CHOOSE h : IsFold(h, f, S)
  OBVIOUS
<1>2. IsFold(g, f, S)
  BY <1>1, FoldExists
<1>3. Total(f, S) = g[S]
  BY <1>1 DEF Total
<1>4. CASE S = {}
  BY <1>2, <1>3, <1>4, FoldStep
<1>5. CASE S # {}
  <2>1. PICK x, c : x = FirstOf(S) /\ c = S \ {x}
    OBVIOUS
  <2>2. c \subseteq S /\ IsFiniteSet(c)
    BY <2>1, FS_Subset
  <2>3. PICK h : h = CHOOSE k : IsFold(k, f, c)
    OBVIOUS
  <2>4. IsFold(h, f, c)
    BY <2>2, <2>3, FoldExists
  <2>5. g[c] = h[c]
    BY <1>2, <2>2, <2>4, FoldsAgree
  <2>6. Total(f, c) = h[c]
    BY <2>3 DEF Total
  <2>7. g[S] = f[x] + g[c]
    BY <1>2, <1>5, <2>1, FoldStep
  <2> QED BY <1>3, <1>5, <2>1, <2>5, <2>6, <2>7
<1> QED BY <1>4, <1>5

LEMMA TotalInt ==
  ASSUME NEW f, NEW S, IsFiniteSet(S), \A x \in S : f[x] \in Int
  PROVE  Total(f, S) \in Int
<1> DEFINE B == {s \in SUBSET S : Total(f, s) \notin Int}
<1>1. SUFFICES ASSUME B # {} PROVE FALSE
  OBVIOUS
<1>2. PICK C : C = B
  OBVIOUS
<1>3. C \in SUBSET SUBSET S /\ C # {}
  BY <1>1, <1>2
<1>4. PICK b \in C : \A c \in C : c \subseteq b => c = b
  BY <1>3, SmallestSet
<1>5. b \in B /\ \A c \in B : c \subseteq b => c = b
  BY <1>2, <1>4
<1>6. b \in SUBSET S /\ Total(f, b) \notin Int /\ IsFiniteSet(b)
  BY <1>5, FS_Subset
<1>7. b # {}
  <2>1. SUFFICES ASSUME b = {} PROVE FALSE
    OBVIOUS
  <2>2. Total(f, b) = 0
    BY <1>6, <2>1, TotalStep
  <2>3. 0 \in Int
    OBVIOUS
  <2> QED BY <1>6, <2>2, <2>3
<1>8. PICK x, c : x = FirstOf(b) /\ c = b \ {x}
  OBVIOUS
<1>9. x \in S /\ x \in b /\ c \in SUBSET S /\ c \subseteq b /\ c # b
  BY <1>6, <1>7, <1>8, FirstIn
<1>10. Total(f, c) \in Int
  BY <1>5, <1>9
<1>11. Total(f, b) = f[x] + Total(f, c)
  BY <1>6, <1>7, <1>8, TotalStep
<1> QED BY <1>6, <1>9, <1>10, <1>11

(* Functions that agree on a set have one total.                           *)
LEMMA SameTotal ==
  ASSUME NEW f, NEW h, NEW S, IsFiniteSet(S), \A x \in S : f[x] = h[x]
  PROVE  Total(f, S) = Total(h, S)
<1> DEFINE B == {s \in SUBSET S : Total(f, s) # Total(h, s)}
<1>1. SUFFICES ASSUME B # {} PROVE FALSE
  OBVIOUS
<1>2. PICK C : C = B
  OBVIOUS
<1>3. C \in SUBSET SUBSET S /\ C # {}
  BY <1>1, <1>2
<1>4. PICK b \in C : \A c \in C : c \subseteq b => c = b
  BY <1>3, SmallestSet
<1>5. b \in B /\ \A c \in B : c \subseteq b => c = b
  BY <1>2, <1>4
<1>6. b \in SUBSET S /\ Total(f, b) # Total(h, b) /\ IsFiniteSet(b)
  BY <1>5, FS_Subset
<1>7. b # {}
  BY <1>6, TotalStep
<1>8. PICK x, c : x = FirstOf(b) /\ c = b \ {x}
  OBVIOUS
<1>9. x \in S /\ x \in b /\ c \in SUBSET S /\ c \subseteq b /\ c # b
  BY <1>6, <1>7, <1>8, FirstIn
<1>10. Total(f, c) = Total(h, c) /\ f[x] = h[x]
  BY <1>5, <1>9
<1>11. Total(f, b) = f[x] + Total(f, c) /\ Total(h, b) = h[x] + Total(h, c)
  BY <1>6, <1>7, <1>8, TotalStep
<1> QED BY <1>6, <1>10, <1>11

(* Any element may be taken out of a total.                                *)
LEMMA TotalWithout ==
  ASSUME NEW f, NEW S, IsFiniteSet(S), \A x \in S : f[x] \in Int, NEW k \in S
  PROVE  Total(f, S) = f[k] + Total(f, S \ {k})
<1> DEFINE B == {s \in SUBSET S : \E y \in s : Total(f, s) # f[y] + Total(f, s \ {y})}
<1>1. SUFFICES ASSUME B # {} PROVE FALSE
  OBVIOUS
<1>2. PICK C : C = B
  OBVIOUS
<1>3. C \in SUBSET SUBSET S /\ C # {}
  BY <1>1, <1>2
<1>4. PICK b \in C : \A c \in C : c \subseteq b => c = b
  BY <1>3, SmallestSet
<1>5. PICK y \in b : Total(f, b) # f[y] + Total(f, b \ {y})
  BY <1>2, <1>4
<1>6. b \in SUBSET S /\ IsFiniteSet(b)
  BY <1>3, <1>4, FS_Subset
<1>7. \A c, z : c \subseteq b /\ c # b /\ z \in c => Total(f, c) = f[z] + Total(f, c \ {z})
  BY <1>2, <1>4, <1>6
<1>8. PICK x, c : x = FirstOf(b) /\ c = b \ {x}
  OBVIOUS
<1>9. x \in b /\ c \subseteq b /\ c # b
  BY <1>8, FirstIn
<1>10. Total(f, b) = f[x] + Total(f, c)
  BY <1>6, <1>8, TotalStep
<1>11. x # y
  BY <1>5, <1>8, <1>10
<1>12. PICK d, e : d = b \ {y} /\ e = b \ {x, y}
  OBVIOUS
<1>13. Total(f, c) = f[y] + Total(f, e)
  <2>1. c \ {y} = e /\ y \in c
    BY <1>8, <1>11, <1>12
  <2> QED BY <1>7, <1>9, <2>1
<1>14. Total(f, d) = f[x] + Total(f, e)
  <2>1. d \ {x} = e /\ x \in d /\ d \subseteq b /\ d # b
    BY <1>9, <1>11, <1>12
  <2> QED BY <1>7, <2>1
<1>15. f[x] \in Int /\ f[y] \in Int
  BY <1>6, <1>9
<1>16. Total(f, e) \in Int
  <2>1. e \in SUBSET S
    BY <1>6, <1>12
  <2>2. IsFiniteSet(e)
    BY <2>1, FS_Subset
  <2> QED BY <2>1, <2>2, TotalInt
<1> QED BY <1>5, <1>10, <1>12, <1>13, <1>14, <1>15, <1>16

-----------------------------------------------------------------------------
(* The play.                                                               *)

Key == [type : {a.type : a \in Input}, target : Location \cup Npc \cup {None},
        clue : Clue \cup {None}]
PlayOK(p) ==
  /\ p \in Play(p.count)
  /\ DOMAIN p.count \subseteq Key
  /\ \A key \in DOMAIN p.count : p.count[key] \in 1..p.ticks

LEMMA RepeatsNat ==
  ASSUME NEW p, PlayOK(p), NEW a
  PROVE  Repeats(p, a) \in 0..p.ticks
BY DEF PlayOK, Play, Repeats

LEMMA ProposedNat ==
  ASSUME NEW p, PlayOK(p), NEW a \in Input, Reveals(p, a)
  PROVE  Proposed(p, a) \in Nat
<1>1. Repeats(p, a) \in Nat
  BY RepeatsNat DEF PlayOK, Play
<1>2. ASSUME NEW value \in Nat PROVE WithNovelty(p, a, value) \in Nat
  BY <1>1, RoundedInt DEF WithNovelty
<1>3. CASE a.type = "SEARCH"
  <2>1. p.found + 1 \in 1..5
    BY <1>3 DEF Reveals, PlayOK, Play
  <2>2. TruthValue[p.found + 1] \in Nat
    BY <2>1 DEF TruthValue
  <2> QED BY <1>2, <1>3, <2>2 DEF Proposed
<1>4. CASE a.type = "INTERROGATE"
  <2>1. (IF p.relation[a.target] >= 1 THEN 8 ELSE 5) \in Nat
    OBVIOUS
  <2> QED BY <1>2, <1>4, <2>1 DEF Proposed
<1>5. CASE a.type = "USE_CLUE"
  <2>1. a.clue \in 1..5
    BY <1>5, InputAssumption DEF Clue
  <2>2. TruthValue[a.clue] \in Nat
    BY <2>1 DEF TruthValue
  <2>3. 11 * TruthValue[a.clue] \in Nat /\ 4 * (5 + 3 * Repeats(p, a)) \in Nat \ {0}
    BY <1>1, <2>2
  <2> QED BY <1>5, <2>3, RoundedInt DEF Proposed
<1> QED BY <1>3, <1>4, <1>5 DEF Reveals

LEMMA GainedInt ==
  ASSUME NEW p, NEW a, NEW proposed \in Nat, p.time \in 0..100
  PROVE  Gained(p, a, proposed) \in Int
BY DEF Gained, phaseOf

LEMMA DeltasInt ==
  ASSUME NEW p, PlayOK(p), NEW a \in Input
  PROVE  /\ RelationDelta(p, a) \in -1..1
         /\ PollutionDelta(p, a) \in Int /\ HeatDelta(p, a) \in Int
         /\ actionTimeCost(a.type) \in 8..16
<1>1. a.type \in {"MOVE", "INTERROGATE", "SEARCH", "USE_CLUE", "LIE", "ALLY", "REST"}
  BY InputAssumption DEF Action
<1>2. RelationDelta(p, a) \in -1..1
  BY DEF RelationDelta
<1>3. HeatDelta(p, a) \in Int /\ actionTimeCost(a.type) \in 8..16
  BY <1>1 DEF HeatDelta, actionTimeCost
<1>4. PollutionDelta(p, a) \in Int
  <2>1. p.found < 5 => PollutionRisk[p.found + 1] \in Int
    BY DEF PollutionRisk, PlayOK, Play
  <2> QED BY <1>2, <2>1 DEF PollutionDelta
<1> QED BY <1>2, <1>3, <1>4

(* A play is the record of its fields.                                     *)
LEMMA PlayShape ==
  ASSUME NEW c, NEW p \in Play(c)
  PROVE  p = [ticks |-> p.ticks, time |-> p.time, location |-> p.location, relation |-> p.relation,
              pollution |-> p.pollution, truth |-> p.truth, found |-> p.found, heat |-> p.heat,
              dignity |-> p.dignity, usedOn |-> p.usedOn, confirmed |-> p.confirmed,
              lies |-> p.lies, allies |-> p.allies, rests |-> p.rests, count |-> p.count]
BY DEF Play

(* A play stays a play when the costs of an action are paid.               *)
LEMMA PaidPlay ==
  ASSUME NEW c, NEW s \in Play(c),
         NEW ticks \in Nat, NEW time \in 0..TimeBudget, NEW usedOn \in SUBSET Npc
  PROVE  [s EXCEPT !.ticks = ticks, !.time = time, !.usedOn = usedOn] \in Play(c)
<1>1. PICK s1 : s1 = [s EXCEPT !.ticks = ticks]
  OBVIOUS
<1>2. s1 \in Play(c)
  BY <1>1 DEF Play
<1>3. PICK s2 : s2 = [s1 EXCEPT !.time = time]
  OBVIOUS
<1>4. s2 \in Play(c)
  BY <1>2, <1>3 DEF Play
<1>5. PICK s3 : s3 = [s2 EXCEPT !.usedOn = usedOn]
  OBVIOUS
<1>6. s3 \in Play(c)
  BY <1>4, <1>5 DEF Play
<1> QED BY <1>1, <1>3, <1>5, <1>6

(* A play stays a play when it moves and learns.                           *)
LEMMA MovedPlay ==
  ASSUME NEW c, NEW s \in Play(c), NEW location \in Location, NEW relation \in [Npc -> -3..3],
         NEW truth \in 0..240, NEW pollution \in 0..12
  PROVE  [s EXCEPT !.location = location, !.relation = relation,
                   !.truth = truth, !.pollution = pollution] \in Play(c)
<1>1. PICK s1 : s1 = [s EXCEPT !.location = location]
  OBVIOUS
<1>2. s1 \in Play(c)
  BY <1>1 DEF Play
<1>3. PICK s2 : s2 = [s1 EXCEPT !.relation = relation]
  OBVIOUS
<1>4. s2 \in Play(c)
  BY <1>2, <1>3 DEF Play
<1>5. PICK s3 : s3 = [s2 EXCEPT !.truth = truth]
  OBVIOUS
<1>6. s3 \in Play(c)
  BY <1>4, <1>5 DEF Play
<1>7. PICK s4 : s4 = [s3 EXCEPT !.pollution = pollution]
  OBVIOUS
<1>8. s4 \in Play(c)
  BY <1>6, <1>7 DEF Play
<1> QED BY <1>1, <1>3, <1>5, <1>7, <1>8

(* A play stays a play when what it stirs up changes.                      *)
LEMMA StirredPlay ==
  ASSUME NEW c, NEW s \in Play(c), NEW heat \in 0..120, NEW found \in 0..5,
         NEW confirmed \in BOOLEAN, NEW dignity \in 0..100
  PROVE  [s EXCEPT !.heat = heat, !.found = found,
                   !.confirmed = confirmed, !.dignity = dignity] \in Play(c)
<1>1. PICK s1 : s1 = [s EXCEPT !.heat = heat]
  OBVIOUS
<1>2. s1 \in Play(c)
  BY <1>1 DEF Play
<1>3. PICK s2 : s2 = [s1 EXCEPT !.found = found]
  OBVIOUS
<1>4. s2 \in Play(c)
  BY <1>2, <1>3 DEF Play
<1>5. PICK s3 : s3 = [s2 EXCEPT !.confirmed = confirmed]
  OBVIOUS
<1>6. s3 \in Play(c)
  BY <1>4, <1>5 DEF Play
<1>7. PICK s4 : s4 = [s3 EXCEPT !.dignity = dignity]
  OBVIOUS
<1>8. s4 \in Play(c)
  BY <1>6, <1>7 DEF Play
<1> QED BY <1>1, <1>3, <1>5, <1>7, <1>8

(* A play stays a play when its tallies change.                            *)
LEMMA TalliedPlay ==
  ASSUME NEW c, NEW s \in Play(c), NEW lies \in Nat, NEW allies \in Nat,
         NEW rests \in Nat, NEW count
  PROVE  [s EXCEPT !.lies = lies, !.allies = allies,
                   !.rests = rests, !.count = count] \in Play(count)
<1>1. PICK s1 : s1 = [s EXCEPT !.lies = lies]
  OBVIOUS
<1>2. s1 \in Play(c)
  BY <1>1 DEF Play
<1>3. PICK s2 : s2 = [s1 EXCEPT !.allies = allies]
  OBVIOUS
<1>4. s2 \in Play(c)
  BY <1>2, <1>3 DEF Play
<1>5. PICK s3 : s3 = [s2 EXCEPT !.rests = rests]
  OBVIOUS
<1>6. s3 \in Play(c)
  BY <1>4, <1>5 DEF Play
<1>7. PICK s4 : s4 = [s3 EXCEPT !.count = count]
  OBVIOUS
<1>8. s4 \in Play(count)
  BY <1>6, <1>7 DEF Play
<1> QED BY <1>1, <1>3, <1>5, <1>7, <1>8

LEMMA SpentFields ==
  ASSUME NEW p, PlayOK(p), NEW a \in Input
  PROVE  LET s == Spent(p, a) IN
         /\ s \in Play(p.count) /\ s.ticks = p.ticks + 1 /\ s.time \in 0..100 /\ p.time <= s.time
         /\ s.usedOn = IF a.type = "USE_CLUE" /\ Known(p, a)
                       THEN p.usedOn \cup {a.target} ELSE p.usedOn
         /\ s.location = p.location /\ s.relation = p.relation /\ s.pollution = p.pollution
         /\ s.truth = p.truth /\ s.found = p.found /\ s.heat = p.heat /\ s.dignity = p.dignity
         /\ s.confirmed = p.confirmed /\ s.lies = p.lies /\ s.allies = p.allies
         /\ s.rests = p.rests /\ s.count = p.count
<1>1. PICK time : time = Clamp(p.time + actionTimeCost(a.type), 0, TimeBudget)
  OBVIOUS
<1>2. PICK usedOn : usedOn = IF a.type = "USE_CLUE" /\ Known(p, a)
                             THEN p.usedOn \cup {a.target} ELSE p.usedOn
  OBVIOUS
<1>3. p \in Play(p.count)
  BY DEF PlayOK
<1>4. time \in 0..100 /\ p.time <= time
  BY <1>1, <1>3, DeltasInt DEF Clamp, Play, TimeBudget
<1>5. usedOn \in SUBSET Npc
  BY <1>2, <1>3, InputAssumption DEF Play
<1>6. Spent(p, a) = [p EXCEPT !.ticks = p.ticks + 1, !.time = time, !.usedOn = usedOn]
  BY <1>1, <1>2, <1>3 DEF Spent, Play
<1>8. PICK s : s = Spent(p, a)
  OBVIOUS
<1>9. /\ s.ticks = p.ticks + 1 /\ s.time = time /\ s.usedOn = usedOn
      /\ s.location = p.location /\ s.relation = p.relation /\ s.pollution = p.pollution
      /\ s.truth = p.truth /\ s.found = p.found /\ s.heat = p.heat /\ s.dignity = p.dignity
      /\ s.confirmed = p.confirmed /\ s.lies = p.lies /\ s.allies = p.allies
      /\ s.rests = p.rests /\ s.count = p.count
  BY <1>3, <1>6, <1>8, PlayShape
<1>7. p.ticks + 1 \in Nat /\ time \in 0..TimeBudget
  BY <1>3, <1>4 DEF Play, TimeBudget
<1>10. s \in Play(p.count)
  <2>1. PICK ticks : ticks = p.ticks + 1
    OBVIOUS
  <2>2. [p EXCEPT !.ticks = ticks, !.time = time, !.usedOn = usedOn] \in Play(p.count)
    BY <1>3, <1>5, <1>7, <2>1, PaidPlay
  <2> QED BY <1>6, <1>8, <2>1, <2>2
<1> QED BY <1>2, <1>4, <1>8, <1>9, <1>10

(* What an action does to a play, field by field.                          *)
GainedBy(p, a) == IF Reveals(p, a) THEN Gained(Spent(p, a), a, Proposed(p, a)) ELSE 0

LEMMA AfterFields ==
  ASSUME NEW p, PlayOK(p), NEW a \in Input
  PROVE  LET q == After(p, a)
             s == Spent(p, a) IN
         /\ PlayOK(q)
         /\ q.ticks = p.ticks + 1 /\ q.time = s.time /\ q.usedOn = s.usedOn
         /\ q.count = Counted(p, a)
         /\ q.truth = Clamp(p.truth + GainedBy(p, a), 0, 240)
         /\ q.confirmed = (p.confirmed \/ (Reveals(p, a) /\ Confirms(s, a)))
<1>1. PICK s : s = Spent(p, a)
  OBVIOUS
<1>2. /\ s \in Play(p.count) /\ s.ticks = p.ticks + 1 /\ s.time \in 0..100 /\ p.time <= s.time
      /\ s.location = p.location /\ s.relation = p.relation /\ s.pollution = p.pollution
      /\ s.truth = p.truth /\ s.found = p.found /\ s.heat = p.heat /\ s.dignity = p.dignity
      /\ s.confirmed = p.confirmed /\ s.lies = p.lies /\ s.allies = p.allies
      /\ s.rests = p.rests /\ s.count = p.count
  BY <1>1, SpentFields
<1>3. p \in Play(p.count)
  BY DEF PlayOK
<1>4. PICK r : r = RelationDelta(p, a)
  OBVIOUS
<1>5. /\ r \in -1..1 /\ PollutionDelta(p, a) \in Int /\ HeatDelta(p, a) \in Int
      /\ GainedBy(p, a) \in Int
  BY <1>1, <1>2, <1>4, DeltasInt, ProposedNat, GainedInt DEF GainedBy
<1>6. PICK location : location = IF a.type = "MOVE" THEN a.target ELSE p.location
  OBVIOUS
<1>7. PICK relation : relation =
        IF a.target \in Npc
        THEN Moved(p.relation, a.target, r)
        ELSE p.relation
  OBVIOUS
<1>8. PICK truth : truth = Clamp(p.truth + GainedBy(p, a), 0, 240)
  OBVIOUS
<1>9. PICK pollution, heat, found, dignity :
        /\ pollution = Clamp(p.pollution + PollutionDelta(p, a), 0, 12)
        /\ heat = Clamp(p.heat + HeatDelta(p, a), 0, 120)
        /\ found = IF a.type = "SEARCH" THEN Clamp(p.found + 1, 0, 5) ELSE p.found
        /\ dignity = Clamp(p.dignity + r, 0, 100)
  OBVIOUS
<1>10. PICK confirmed : confirmed = (p.confirmed \/ (Reveals(p, a) /\ Confirms(s, a)))
  OBVIOUS
<1>11. PICK lies, allies, rests :
         /\ lies = Tally(p.lies, a.type = "LIE") /\ allies = Tally(p.allies, a.type = "ALLY")
         /\ rests = Tally(p.rests, a.type = "REST")
  OBVIOUS
<1>12. PICK count : count = Counted(p, a)
  OBVIOUS
<1>13. After(p, a) =
         [s EXCEPT !.location = location, !.relation = relation, !.truth = truth,
                   !.pollution = pollution, !.heat = heat, !.found = found,
                   !.confirmed = confirmed, !.dignity = dignity, !.lies = lies,
                   !.allies = allies, !.rests = rests, !.count = count]
  <2>1. After(p, a) =
          [s EXCEPT
             !.location = IF a.type = "MOVE" THEN a.target ELSE s.location,
             !.relation = IF a.target \in Npc
                          THEN Moved(s.relation, a.target, r)
                          ELSE s.relation,
             !.truth = Clamp(s.truth + GainedBy(p, a), 0, 240),
             !.pollution = Clamp(s.pollution + PollutionDelta(p, a), 0, 12),
             !.heat = Clamp(s.heat + HeatDelta(p, a), 0, 120),
             !.found = IF a.type = "SEARCH" THEN Clamp(s.found + 1, 0, 5) ELSE s.found,
             !.confirmed = s.confirmed \/ (Reveals(p, a) /\ Confirms(s, a)),
             !.dignity = Clamp(s.dignity + r, 0, 100),
             !.lies = Tally(s.lies, a.type = "LIE"),
             !.allies = Tally(s.allies, a.type = "ALLY"),
             !.rests = Tally(s.rests, a.type = "REST"),
             !.count = Counted(p, a)]
    BY <1>1, <1>4 DEF After, GainedBy
  <2> QED BY <2>1, <1>2, <1>6, <1>7, <1>8, <1>9, <1>10, <1>11, <1>12
<1>15. location \in Location
  BY <1>3, <1>6, InputAssumption DEF Play
<1>16. relation \in [Npc -> -3..3]
  <2>1. ASSUME a.target \in Npc PROVE Clamp(p.relation[a.target] + r, -3, 3) \in -3..3
    BY <1>3, <1>5, <2>1 DEF Clamp, Play
  <2>2. p.relation \in [Npc -> -3..3]
    BY <1>3 DEF Play
  <2> QED BY <1>7, <2>1, <2>2 DEF Moved
<1>25. /\ p.truth \in Int /\ p.pollution \in Int /\ p.heat \in Int /\ p.found \in 0..5
       /\ p.dignity \in Int /\ r \in Int
  BY <1>3, <1>5 DEF Play
<1>26. \A x \in Int : /\ Clamp(x, 0, 240) \in 0..240 /\ Clamp(x, 0, 12) \in 0..12
                      /\ Clamp(x, 0, 120) \in 0..120 /\ Clamp(x, 0, 100) \in 0..100
                      /\ Clamp(x, 0, 5) \in 0..5
  BY DEF Clamp
<1>17. truth \in 0..240
  <2>1. p.truth + GainedBy(p, a) \in Int
    BY <1>5, <1>25
  <2> QED BY <2>1, <1>26, <1>8
<1>18. pollution \in 0..12 /\ heat \in 0..120 /\ found \in 0..5 /\ dignity \in 0..100
  <2>1. /\ p.pollution + PollutionDelta(p, a) \in Int /\ p.heat + HeatDelta(p, a) \in Int
        /\ p.found + 1 \in Int /\ p.dignity + r \in Int
    BY <1>5, <1>25
  <2> QED BY <2>1, <1>25, <1>26, <1>9
<1>19. confirmed \in BOOLEAN /\ lies \in Nat /\ allies \in Nat /\ rests \in Nat
  BY <1>3, <1>10, <1>11 DEF Tally, Play
<1>20. DOMAIN count \subseteq Key /\ \A key \in DOMAIN count : count[key] \in 1..(p.ticks + 1)
  <2>1. KeyOf(p, a) \in Key
    BY <1>3, InputAssumption DEF KeyOf, Key, Action, Play
  <2>2. Repeats(p, a) \in 0..p.ticks /\ p.ticks \in Nat
    BY <1>3, RepeatsNat DEF Play
  <2>3. DOMAIN count = DOMAIN p.count \cup {KeyOf(p, a)}
    BY <1>12 DEF Counted
  <2>4. \A key \in DOMAIN count :
          count[key] = IF key = KeyOf(p, a) THEN Repeats(p, a) + 1 ELSE p.count[key]
    BY <1>12 DEF Counted
  <2> QED BY <2>1, <2>2, <2>3, <2>4 DEF PlayOK
<1>21. PICK q : q = After(p, a)
  OBVIOUS
<1>14. q \in Play(count)
  <2>1. PICK pool : pool = p.count
    OBVIOUS
  <2>2. s \in Play(pool)
    BY <1>2, <2>1
  <2>3. PICK s1 : s1 = [s EXCEPT !.location = location, !.relation = relation,
                                !.truth = truth, !.pollution = pollution]
    OBVIOUS
  <2>4. s1 \in Play(pool)
    BY <1>15, <1>16, <1>17, <1>18, <2>2, <2>3, MovedPlay
  <2>5. PICK s2 : s2 = [s1 EXCEPT !.heat = heat, !.found = found,
                                 !.confirmed = confirmed, !.dignity = dignity]
    OBVIOUS
  <2>6. s2 \in Play(pool)
    BY <1>18, <1>19, <2>4, <2>5, StirredPlay
  <2>7. [s2 EXCEPT !.lies = lies, !.allies = allies,
                   !.rests = rests, !.count = count] \in Play(count)
    BY <1>19, <2>6, TalliedPlay
  <2> QED BY <1>13, <1>21, <2>3, <2>5, <2>7
<1>22. /\ q.ticks = p.ticks + 1 /\ q.time = s.time /\ q.usedOn = s.usedOn /\ q.count = count
       /\ q.truth = truth /\ q.confirmed = confirmed
  BY <1>2, <1>13, <1>21, PlayShape
<1>23. q \in Play(q.count)
  BY <1>14, <1>22
<1>24. PlayOK(q)
  BY <1>20, <1>22, <1>23 DEF PlayOK
<1> QED BY <1>1, <1>8, <1>10, <1>12, <1>21, <1>22, <1>24

-----------------------------------------------------------------------------
(* Scores.                                                                 *)

LEMMA InScale == \A x \in Int : Clamp(x, 0, 100) \in 0..100
BY DEF Clamp

LEMMA LoweredRange ==
  ASSUME NEW x \in Int, NEW penalty \in Nat
  PROVE  Lowered(x, penalty) \in 0..100
BY DEF Lowered, Clamp

LEMMA TruthScoreRange ==
  ASSUME NEW p, p.truth \in 0..240
  PROVE  TruthScore(p) \in 0..100
<1>11. PICK unused, unproven, doubt :
         /\ unused = Penalty(p.usedOn = {}, 12) /\ doubt = Penalty(~p.confirmed, 20)
         /\ unproven = Penalty(p.usedOn \cap Core = {}, 16)
  OBVIOUS
<1>1. unused \in Nat /\ unproven \in Nat /\ doubt \in Nat
  BY <1>11 DEF Penalty
<1>2. Clamp(Rounded(p.truth, 2), 0, 100) \in 0..100
  <2>1. 2 \in Nat \ {0} /\ p.truth \in Nat
    OBVIOUS
  <2>2. Rounded(p.truth, 2) \in Int
    BY <2>1, RoundedInt
  <2> QED BY <2>2, InScale
<1>3. PICK known : known = Clamp(Rounded(p.truth, 2), 0, 100)
  OBVIOUS
<1>4. PICK corroborated : corroborated = Lowered(known, unused)
  OBVIOUS
<1>5. PICK proven : proven = Lowered(corroborated, unproven)
  OBVIOUS
<1>6. proven \in Int
  <2>1. known \in Int
    BY <1>2, <1>3
  <2>2. Lowered(known, unused) \in 0..100
    BY <1>1, <2>1, LoweredRange
  <2>3. corroborated \in Int
    BY <1>4, <2>2
  <2>4. Lowered(corroborated, unproven) \in 0..100
    BY <1>1, <2>3, LoweredRange
  <2> QED BY <1>5, <2>4
<1>8. TruthScore(p) = Lowered(proven, doubt)
  BY <1>3, <1>4, <1>5, <1>11 DEF TruthScore
<1>10. Lowered(proven, doubt) \in 0..100
  BY <1>1, <1>6, LoweredRange
<1> QED BY <1>8, <1>10

LEMMA RelationScoreRange ==
  ASSUME NEW p, p.relation \in [Npc -> -3..3]
  PROVE  RelationScore(p) \in 0..100
<1>1. ASSUME NEW n \in Npc PROVE relationToScore(p.relation[n]) \in Nat
  <2>1. 100 * (p.relation[n] + 3) \in Nat
    OBVIOUS
  <2> QED BY <2>1, RoundedInt DEF relationToScore
<1>2. PICK x \in Nat : RelationScore(p) = Clamp(Rounded(x, 20), 0, 100)
  <2>1. /\ relationToScore(p.relation["picha"]) \in Nat
        /\ relationToScore(p.relation["baibua"]) \in Nat
        /\ relationToScore(p.relation["archivist"]) \in Nat
        /\ relationToScore(p.relation["witness"]) \in Nat
    BY <1>1 DEF Npc
  <2> QED BY <2>1 DEF RelationScore
<1>3. Rounded(x, 20) \in Int
  BY <1>2, RoundedInt
<1> QED BY <1>2, <1>3, InScale

LEMMA HumanityScoreRange ==
  ASSUME NEW p, p.allies \in Nat, p.rests \in Nat, p.lies \in Nat, p.heat \in Nat,
         p.pollution \in Nat
  PROVE  HumanityScore(p) \in 0..100
<1>1. Above(p.heat, 65) \in Nat /\ Above(p.pollution, 4) \in Nat
  BY DEF Above
<1>2. PICK tenths : tenths = 560 + 60 * p.allies + 30 * p.rests - 110 * p.lies
                             - 6 * Above(p.heat, 65) - 30 * Above(p.pollution, 4)
  OBVIOUS
<1>3. tenths \in Int
  BY <1>1, <1>2
<1>4. HumanityScore(p) = IF tenths <= 0 THEN 0 ELSE Clamp(Rounded(tenths, 10), 0, 100)
  BY <1>2 DEF HumanityScore
<1>5. ASSUME tenths > 0 PROVE Clamp(Rounded(tenths, 10), 0, 100) \in 0..100
  <2>1. tenths \in Nat /\ 10 \in Nat \ {0}
    BY <1>3, <1>5
  <2>2. Rounded(tenths, 10) \in Int
    BY <2>1, RoundedInt
  <2> QED BY <2>2, InScale
<1> QED BY <1>3, <1>4, <1>5

(* Whatever was played, what the engine computes is a score.               *)
LEMMA ScoreOfPlay ==
  ASSUME NEW p, PlayOK(p)
  PROVE  computeScore(p) \in Score
<1>1. p \in Play(p.count)
  BY DEF PlayOK
<1>2. /\ p.truth \in 0..240 /\ p.relation \in [Npc -> -3..3] /\ p.allies \in Nat
      /\ p.rests \in Nat /\ p.lies \in Nat /\ p.heat \in 0..120 /\ p.pollution \in 0..12
  BY <1>1 DEF Play
<1>3. TruthScore(p) \in 0..100
  BY <1>2, TruthScoreRange
<1>4. 100 - Clamp(11 * p.pollution, 0, 100) \in 0..100
  BY <1>2 DEF Clamp
<1>5. Lowered(RelationScore(p), Penalty(p.heat >= 85, 10)) \in 0..100
  <2>1. RelationScore(p) \in 0..100
    BY <1>2, RelationScoreRange
  <2>2. PICK x, penalty : x = RelationScore(p) /\ penalty = Penalty(p.heat >= 85, 10)
    OBVIOUS
  <2>3. x \in Int /\ penalty \in Nat
    BY <2>1, <2>2 DEF Penalty
  <2>4. Lowered(x, penalty) \in 0..100
    BY <2>3, LoweredRange
  <2> QED BY <2>2, <2>4
<1>6. Lowered(HumanityScore(p), Penalty(p.heat >= 85, 8)) \in 0..100
  <2>1. HumanityScore(p) \in 0..100
    BY <1>2, HumanityScoreRange
  <2>2. PICK x, penalty : x = HumanityScore(p) /\ penalty = Penalty(p.heat >= 85, 8)
    OBVIOUS
  <2>3. x \in Int /\ penalty \in Nat
    BY <2>1, <2>2 DEF Penalty
  <2>4. Lowered(x, penalty) \in 0..100
    BY <2>3, LoweredRange
  <2> QED BY <2>2, <2>4
<1> QED BY <1>3, <1>4, <1>5, <1>6 DEF computeScore, Score

(* The composite is within half a point of the weighed score, whichever    *)
(* way a half is rounded.                                                  *)
LEMMA CompositeNear ==
  ASSUME NEW score, Weighed(score) \in Nat
  PROVE  /\ Composite(score) \in Int
         /\ 2 * Weighed(score) - 100 <= 200 * Composite(score)
         /\ 200 * Composite(score) <= 2 * Weighed(score) + 100
<1>1. PICK x, n : x = Weighed(score) /\ n = Rounded(x, 100)
  OBVIOUS
<1>2. /\ x \in Nat /\ n \in Int
      /\ 2 * x - 100 < 200 * n /\ 200 * n <= 2 * x + 100
      /\ x % 100 = 50 => 200 * n = 2 * x + 100
  BY <1>1, RoundedHalves
<1>3. CASE score \in Under
  <2>1. Composite(score) = n - 1 /\ x % 100 = 50
    BY <1>1, <1>3, UnderAssumption DEF Composite
  <2> QED BY <1>1, <1>2, <2>1
<1>4. CASE score \notin Under
  <2>1. Composite(score) = n
    BY <1>1, <1>2, <1>4 DEF Composite
  <2> QED BY <1>1, <1>2, <2>1
<1> QED BY <1>3, <1>4

LEMMA CompositeRange ==
  ASSUME NEW score \in Score
  PROVE  Composite(score) \in 0..100 /\ Grade(score) \in 1..5
<1>1. PICK a, b, c, d : /\ a = score.truth /\ b = score.purity /\ c = score.relation
                        /\ d = score.humanity
  OBVIOUS
<1>2. a \in 0..100 /\ b \in 0..100 /\ c \in 0..100 /\ d \in 0..100
  BY <1>1 DEF Score
<1>3. Composite(score) \in 0..100
  <2>1. PICK x : x = 35 * a + 25 * b + 20 * c + 20 * d
    OBVIOUS
  <2>7. x = Weighed(score)
    BY <1>1, <2>1 DEF Weighed
  <2>2. x \in Nat /\ x <= 100 * 100 /\ 100 \in Nat \ {0}
    BY <1>2, <2>1
  <2>3. Rounded(x, 100) \in 0..100
    BY <2>2, RoundedRange
  <2>4. PICK n : n = Composite(score)
    OBVIOUS
  <2>5. n \in Int /\ 2 * x - 100 <= 200 * n /\ 200 * n <= 2 * x + 100
    BY <2>7, <2>2, <2>4, CompositeNear
  <2>6. n <= Rounded(x, 100)
    BY <2>7, <2>3, <2>4 DEF Composite
  <2> QED BY <2>2, <2>3, <2>4, <2>5, <2>6
<1>4. \A composite \in 0..100 : gradeOf[composite] \in 1..5
  BY DEF gradeOf
<1> QED BY <1>3, <1>4 DEF Grade

(* What a proposal is cut to: six points in all, roughly, so that weighing *)
(* them by the composite's weights never exceeds two points; rounding may  *)
(* add a third.                                                            *)
Points == [truth : -3..3, purity : -3..3, relation : -3..3, humanity : -3..3]
Share(x, total) == IF total <= 6 THEN x ELSE RoundedSigned(6 * x, total)

LEMMA ShareShrinks ==
  ASSUME NEW x \in -3..3, NEW total \in 0..12
  PROVE  /\ Share(x, total) \in -3..3
         /\ total <= 7 => Abs(Share(x, total)) <= Abs(x)
         /\ total >= 8 => Abs(Share(x, total)) <= 2
<1>1. ASSUME NEW t \in {7, 8, 9, 10, 11, 12}
      PROVE  /\ RoundedSigned(6 * x, t) \in -3..3
             /\ t = 7 => Abs(RoundedSigned(6 * x, t)) <= Abs(x)
             /\ t >= 8 => Abs(RoundedSigned(6 * x, t)) <= 2
  BY <1>1 DEF RoundedSigned, Rounded, Abs
<1>2. CASE total <= 6
  BY <1>2 DEF Share, Abs
<1>3. CASE total \in {7, 8, 9, 10, 11, 12}
  BY <1>1, <1>3 DEF Share
<1> QED BY <1>2, <1>3

LEMMA WeighingOrder ==
  ASSUME NEW i \in 0..3, NEW j \in 0..3, NEW k \in 0..3, NEW l \in 0..3,
         NEW m \in 0..3, NEW n \in 0..3, NEW o \in 0..3, NEW p \in 0..3,
         m <= i, n <= j, o <= k, p <= l
  PROVE  35 * m + 25 * n + 20 * o + 20 * p <= 35 * i + 25 * j + 20 * k + 20 * l
OBVIOUS

LEMMA AbsBothWays ==
  ASSUME NEW x \in Int, NEW y \in Int, NEW n \in Int, Abs(x - y) <= n
  PROVE  x - y <= n /\ y - x <= n
BY DEF Abs

LEMMA DeltaShares ==
  ASSUME NEW raw \in Delta \cup {NoDelta}
  PROVE  \E x \in Points, total \in 0..12 :
           /\ total = Abs(x.truth) + Abs(x.purity) + Abs(x.relation) + Abs(x.humanity)
           /\ normalizeScoreDelta[raw] =
                [truth |-> Share(x.truth, total), purity |-> Share(x.purity, total),
                 relation |-> Share(x.relation, total), humanity |-> Share(x.humanity, total)]
<1>1. /\ raw.truth \in Int /\ raw.purity \in Int /\ raw.relation \in Int
      /\ raw.humanity \in Int
  BY DeltaAssumption DEF NoDelta
<1>2. \A x \in Int : Clamp(x, -3, 3) \in -3..3
  BY DEF Clamp
<1>3. PICK t, u, r, h : /\ t = Clamp(raw.truth, -3, 3) /\ u = Clamp(raw.purity, -3, 3)
                        /\ r = Clamp(raw.relation, -3, 3) /\ h = Clamp(raw.humanity, -3, 3)
  OBVIOUS
<1>4. t \in -3..3 /\ u \in -3..3 /\ r \in -3..3 /\ h \in -3..3
  BY <1>1, <1>2, <1>3
<1>5. PICK total : total = Abs(t) + Abs(u) + Abs(r) + Abs(h)
  OBVIOUS
<1>6. total \in 0..12
  BY <1>4, <1>5 DEF Abs
<1>7. normalizeScoreDelta[raw] =
        [truth |-> Share(t, total), purity |-> Share(u, total),
         relation |-> Share(r, total), humanity |-> Share(h, total)]
  BY <1>3, <1>5 DEF normalizeScoreDelta, Share
<1>8. PICK x : x = [truth |-> t, purity |-> u, relation |-> r, humanity |-> h]
  OBVIOUS
<1>9. x \in Points /\ x.truth = t /\ x.purity = u /\ x.relation = r /\ x.humanity = h
  BY <1>4, <1>8 DEF Points
<1> QED BY <1>5, <1>6, <1>7, <1>9

LEMMA WeighedDelta ==
  ASSUME NEW raw \in Delta \cup {NoDelta}
  PROVE  \E t, u, r, h \in -3..3 :
           /\ normalizeScoreDelta[raw] =
                [truth |-> t, purity |-> u, relation |-> r, humanity |-> h]
           /\ 35 * Abs(t) + 25 * Abs(u) + 20 * Abs(r) + 20 * Abs(h) <= 200
<1>1. PICK x \in Points, total \in 0..12 :
         /\ total = Abs(x.truth) + Abs(x.purity) + Abs(x.relation) + Abs(x.humanity)
         /\ normalizeScoreDelta[raw] =
              [truth |-> Share(x.truth, total), purity |-> Share(x.purity, total),
               relation |-> Share(x.relation, total), humanity |-> Share(x.humanity, total)]
  BY DeltaShares
<1>2. /\ x.truth \in -3..3 /\ x.purity \in -3..3 /\ x.relation \in -3..3
      /\ x.humanity \in -3..3
  BY DEF Points
<1>3. PICK t, u, r, h : /\ t = Share(x.truth, total) /\ u = Share(x.purity, total)
                        /\ r = Share(x.relation, total) /\ h = Share(x.humanity, total)
  OBVIOUS
<1>4. t \in -3..3 /\ u \in -3..3 /\ r \in -3..3 /\ h \in -3..3
  BY <1>2, <1>3, ShareShrinks
<1>5. ASSUME total <= 7
      PROVE  35 * Abs(t) + 25 * Abs(u) + 20 * Abs(r) + 20 * Abs(h) <= 200
  <2>1. /\ Abs(t) <= Abs(x.truth) /\ Abs(u) <= Abs(x.purity)
        /\ Abs(r) <= Abs(x.relation) /\ Abs(h) <= Abs(x.humanity)
    BY <1>2, <1>3, <1>5, ShareShrinks
  <2>2. PICK i, j, k, l : i = Abs(x.truth) /\ j = Abs(x.purity) /\ k = Abs(x.relation)
                          /\ l = Abs(x.humanity)
    OBVIOUS
  <2>3. i \in 0..3 /\ j \in 0..3 /\ k \in 0..3 /\ l \in 0..3 /\ i + j + k + l <= 7
    BY <1>1, <1>2, <1>5, <2>2 DEF Abs
  <2>4. 35 * i + 25 * j + 20 * k + 20 * l <= 200
    BY <2>3
  <2>5. Abs(t) \in 0..3 /\ Abs(u) \in 0..3 /\ Abs(r) \in 0..3 /\ Abs(h) \in 0..3
    BY <1>4 DEF Abs
  <2>6. 35 * Abs(t) + 25 * Abs(u) + 20 * Abs(r) + 20 * Abs(h)
          <= 35 * i + 25 * j + 20 * k + 20 * l
    BY <2>1, <2>2, <2>3, <2>5, WeighingOrder
  <2>7. PICK m, n, o, p : m = Abs(t) /\ n = Abs(u) /\ o = Abs(r) /\ p = Abs(h)
    OBVIOUS
  <2> QED BY <2>3, <2>4, <2>5, <2>6, <2>7
<1>6. ASSUME total >= 8
      PROVE  35 * Abs(t) + 25 * Abs(u) + 20 * Abs(r) + 20 * Abs(h) <= 200
  <2>1. Abs(t) <= 2 /\ Abs(u) <= 2 /\ Abs(r) <= 2 /\ Abs(h) <= 2
    BY <1>2, <1>3, <1>6, ShareShrinks
  <2>2. Abs(t) \in Int /\ Abs(u) \in Int /\ Abs(r) \in Int /\ Abs(h) \in Int
    BY <1>4 DEF Abs
  <2> QED BY <2>1, <2>2
<1>7. 35 * Abs(t) + 25 * Abs(u) + 20 * Abs(r) + 20 * Abs(h) <= 200
  BY <1>5, <1>6
<1>8. normalizeScoreDelta[raw] = [truth |-> t, purity |-> u, relation |-> r, humanity |-> h]
  BY <1>1, <1>3
<1> QED BY <1>4, <1>7, <1>8

LEMMA MoveWithin ==
  ASSUME NEW x \in 0..100, NEW by \in -3..3
  PROVE  /\ Clamp(x + by, 0, 100) \in 0..100
         /\ Abs(Clamp(x + by, 0, 100) - x) <= Abs(by)
BY DEF Clamp, Abs

(* The score moves by at most three points of the composite, one grade.    *)
LEMMA AdjustedNear ==
  ASSUME NEW score \in Score, NEW raw \in Delta \cup {NoDelta}
  PROVE  /\ Adjusted(score, raw) \in Score
         /\ Abs(Composite(Adjusted(score, raw)) - Composite(score)) <= 3
         /\ Abs(Grade(Adjusted(score, raw)) - Grade(score)) <= 1
<1>1. PICK t \in -3..3, u \in -3..3, r \in -3..3, h \in -3..3 :
         /\ normalizeScoreDelta[raw] =
              [truth |-> t, purity |-> u, relation |-> r, humanity |-> h]
         /\ 35 * Abs(t) + 25 * Abs(u) + 20 * Abs(r) + 20 * Abs(h) <= 200
  BY WeighedDelta
<1>2. PICK e, f, g, s : /\ e = score.truth /\ f = score.purity /\ g = score.relation
                        /\ s = score.humanity
  OBVIOUS
<1>15. e \in 0..100 /\ f \in 0..100 /\ g \in 0..100 /\ s \in 0..100
  BY <1>2 DEF Score
<1>3. PICK a, b, c, d :
        /\ a = Clamp(e + t, 0, 100) /\ b = Clamp(f + u, 0, 100)
        /\ c = Clamp(g + r, 0, 100) /\ d = Clamp(s + h, 0, 100)
  OBVIOUS
<1>4. /\ a \in 0..100 /\ b \in 0..100 /\ c \in 0..100 /\ d \in 0..100
      /\ Abs(a - e) <= Abs(t) /\ Abs(b - f) <= Abs(u)
      /\ Abs(c - g) <= Abs(r) /\ Abs(d - s) <= Abs(h)
  <2>1. a \in 0..100 /\ Abs(a - e) <= Abs(t)
    BY <1>15, <1>3, MoveWithin
  <2>2. b \in 0..100 /\ Abs(b - f) <= Abs(u)
    BY <1>15, <1>3, MoveWithin
  <2>3. c \in 0..100 /\ Abs(c - g) <= Abs(r)
    BY <1>15, <1>3, MoveWithin
  <2>4. d \in 0..100 /\ Abs(d - s) <= Abs(h)
    BY <1>15, <1>3, MoveWithin
  <2> QED BY <2>1, <2>2, <2>3, <2>4
<1>16. a \in 0..100 /\ b \in 0..100 /\ c \in 0..100 /\ d \in 0..100
  BY <1>4
<1>5. PICK moved : moved = [truth |-> a, purity |-> b, relation |-> c, humanity |-> d]
  OBVIOUS
<1>6. /\ moved \in Score /\ moved.truth = a /\ moved.purity = b /\ moved.relation = c
      /\ moved.humanity = d
  BY <1>4, <1>5 DEF Score
<1>7. Adjusted(score, raw) =
        IF Abs(Grade(moved) - Grade(score)) > 1 THEN score ELSE moved
  BY <1>1, <1>2, <1>3, <1>5 DEF Adjusted
<1>8. PICK x, y : /\ x = 35 * a + 25 * b + 20 * c + 20 * d
                  /\ y = 35 * e + 25 * f + 20 * g + 20 * s
  OBVIOUS
<1>9. x \in Nat /\ y \in Nat /\ x - y <= 200 /\ y - x <= 200
  <2>1. x \in Nat /\ y \in Nat
    BY <1>15, <1>16, <1>8
  <2>2. PICK i, j, k, l : i = Abs(t) /\ j = Abs(u) /\ k = Abs(r) /\ l = Abs(h)
    OBVIOUS
  <2>3. 35 * i + 25 * j + 20 * k + 20 * l <= 200
    BY <1>1, <2>2
  <2>6. i \in 0..3 /\ j \in 0..3 /\ k \in 0..3 /\ l \in 0..3
    BY <2>2 DEF Abs
  <2>9. Abs(a - e) <= i /\ Abs(b - f) <= j /\ Abs(c - g) <= k /\ Abs(d - s) <= l
    BY <1>4, <2>2
  <2>4. /\ a \in Int /\ b \in Int /\ c \in Int /\ d \in Int
        /\ e \in Int /\ f \in Int /\ g \in Int /\ s \in Int
        /\ i \in Int /\ j \in Int /\ k \in Int /\ l \in Int
    BY <1>15, <1>16, <2>6
  <2>5. /\ a - e <= i /\ e - a <= i /\ b - f <= j /\ f - b <= j
        /\ c - g <= k /\ g - c <= k /\ d - s <= l /\ s - d <= l
    BY <2>4, <2>9, AbsBothWays
  <2>8. x - y <= 200 /\ y - x <= 200
    BY <1>8, <1>15, <1>16, <2>3, <2>6, <2>5
  <2> QED BY <2>1, <2>8
<1>10. x = Weighed(moved) /\ y = Weighed(score)
  BY <1>2, <1>6, <1>8 DEF Weighed
<1>11. Abs(Composite(moved) - Composite(score)) <= 3
  <2>1. PICK m, n : m = Composite(moved) /\ n = Composite(score)
    OBVIOUS
  <2>2. /\ m \in Int /\ 2 * x - 100 <= 200 * m /\ 200 * m <= 2 * x + 100
        /\ n \in Int /\ 2 * y - 100 <= 200 * n /\ 200 * n <= 2 * y + 100
    BY <1>9, <1>10, <2>1, CompositeNear
  <2>4. m - n <= 3 /\ n - m <= 3
    BY <1>9, <2>2
  <2> QED BY <2>1, <2>2, <2>4 DEF Abs
<1>12. /\ Composite(score) \in 0..100 /\ Grade(score) \in 1..5 /\ Grade(moved) \in 1..5
  BY <1>6, CompositeRange
<1>13. CASE Abs(Grade(moved) - Grade(score)) > 1
  <2>1. Adjusted(score, raw) = score
    BY <1>7, <1>13
  <2> QED BY <1>12, <2>1 DEF Abs
<1>14. CASE ~(Abs(Grade(moved) - Grade(score)) > 1)
  <2>1. Adjusted(score, raw) = moved
    BY <1>7, <1>14
  <2>2. Abs(Grade(moved) - Grade(score)) <= 1
    BY <1>12, <1>14 DEF Abs
  <2> QED BY <1>6, <1>11, <2>1, <2>2
<1> QED BY <1>13, <1>14

-----------------------------------------------------------------------------
(* The session.                                                            *)

LEMMA StartsTyped == Init => TypeOK
<1> SUFFICES ASSUME Init PROVE TypeOK
  OBVIOUS
<1>1. play \in Play(play.count) /\ DOMAIN play.count = {}
  BY DEF Init, buildPlayerState, Play, TimeBudget, Location, Npc
<1>2. /\ finalized = None /\ call = [c \in Call |-> None] /\ thrown = FALSE
  BY DEF Init
<1> QED BY <1>1, <1>2 DEF TypeOK

LEMMA TypedPlay == TypeOK => PlayOK(play)
BY DEF TypeOK, PlayOK, Key

(* A request that begins its ending has the score of the play as it is.    *)
LEMMA EndingBegins ==
  ASSUME TypeOK, NEW c \in Call, BeginEnding(c), UNCHANGED <<play, finalized, thrown>>
  PROVE  TypeOK'
<1>1. PICK score : score = computeScore(play)
  OBVIOUS
<1>2. score \in Score
  BY <1>1, TypedPlay, ScoreOfPlay
<1>3. PICK r : r = [stage |-> "ending", score |-> score]
  OBVIOUS
<1>4. r \in Request /\ r.score \in Score /\ r # None
  BY <1>2, <1>3, NoneAssumption DEF Request
<1>5. call' = [call EXCEPT ![c] = None] \/ call' = [call EXCEPT ![c] = r]
  BY <1>1, <1>3 DEF BeginEnding, Continue, End
<1>6. call' \in [Call -> Request \cup {None}]
  BY <1>4, <1>5 DEF TypeOK
<1>7. \A d \in Call : call'[d] = call[d] \/ call'[d] = None \/ call'[d] = r
  BY <1>5 DEF TypeOK
<1>8. \A d \in Call : call'[d] # None /\ call'[d].stage = "ending" => call'[d].score \in Score
  BY <1>4, <1>7 DEF TypeOK
<1> QED BY <1>6, <1>8 DEF TypeOK

LEMMA CallEnds ==
  ASSUME TypeOK, NEW c \in Call, End(c)
  PROVE  /\ call' \in [Call -> Request \cup {None}]
         /\ \A d \in Call :
              call'[d] # None /\ call'[d].stage = "ending" => call'[d].score \in Score
         /\ \A d \in Call : call'[d] = IF d = c THEN None ELSE call[d]
BY DEF TypeOK, End

LEMMA ActTyped ==
  ASSUME TypeOK, NEW c \in Call, NEW a \in Input, Act(c, a)
  PROVE  TypeOK'
<1>1. PlayOK(play')
  BY TypedPlay, AfterFields DEF Act
<1>2. PICK r : r = [stage |-> "scene", score |-> None]
  OBVIOUS
<1>3. r \in Request /\ r.stage = "scene"
  BY <1>2 DEF Request
<1>4. call' = [call EXCEPT ![c] = r]
  BY <1>2 DEF Act, Continue
<1>5. call' \in [Call -> Request \cup {None}]
  BY <1>3, <1>4 DEF TypeOK
<1>6. \A d \in Call : call'[d] # None /\ call'[d].stage = "ending" => call'[d].score \in Score
  BY <1>3, <1>4 DEF TypeOK
<1> QED BY <1>1, <1>5, <1>6 DEF TypeOK, PlayOK, Key, Act

LEMMA EndingTyped ==
  ASSUME TypeOK, NEW c \in Call, NEW text \in Text \cup {None}, NEW raw \in Delta \cup {NoDelta},
         EndingArrives(c, text, raw)
  PROVE  TypeOK' /\ finalized' \in Payload
<1>1. call[c] # None /\ call[c].stage = "ending" /\ call[c].score \in Score
  BY DEF EndingArrives, TypeOK
<1>2. PICK score : score = Adjusted(call[c].score, raw)
  OBVIOUS
<1>3. score \in Score /\ Grade(score) \in 1..5
  BY <1>1, <1>2, AdjustedNear, CompositeRange
<1>4. finalized' = [score |-> score, grade |-> Grade(score), text |-> text]
  BY <1>2 DEF EndingArrives
<1>5. finalized' \in Payload
  BY <1>3, <1>4 DEF Payload
<1>6. End(c) /\ UNCHANGED <<play, thrown>>
  BY DEF EndingArrives
<1> QED BY <1>5, <1>6, CallEnds DEF TypeOK

LEMMA StepsTyped ==
  ASSUME TypeOK, [Next]_vars
  PROVE  TypeOK'
<1>1. CASE UNCHANGED vars
  BY <1>1 DEF vars, TypeOK
<1>2. ASSUME NEW c \in Call, NEW a \in Input, Act(c, a)
      PROVE  TypeOK'
  BY <1>2, ActTyped
<1>3. ASSUME NEW c \in Call, Finalize(c)
      PROVE  TypeOK'
  BY <1>3, EndingBegins DEF Finalize
<1>4. ASSUME NEW c \in Call, SceneArrives(c)
      PROVE  TypeOK'
  <2>1. CASE BeginEnding(c)
    BY <1>4, <2>1, EndingBegins DEF SceneArrives
  <2>2. CASE End(c)
    BY <1>4, <2>2, CallEnds DEF SceneArrives, TypeOK
  <2> QED BY <1>4, <2>1, <2>2 DEF SceneArrives
<1>5. ASSUME NEW c \in Call, FallbackEnding(c)
      PROVE  TypeOK'
  BY <1>5, EndingTyped DEF FallbackEnding
<1>6. ASSUME NEW c \in Call, NEW text \in Text, NEW raw \in Delta, EndingArrives(c, text, raw)
      PROVE  TypeOK'
  BY <1>6, EndingTyped
<1>7. ASSUME NEW c \in Call, ModelThrows(c)
      PROVE  TypeOK'
  BY <1>7, CallEnds DEF ModelThrows, TypeOK
<1> QED BY <1>1, <1>2, <1>3, <1>4, <1>5, <1>6, <1>7 DEF Next, Settles

(* Types, whatever is played, proposed or thrown (applyAction,             *)
(* computeScore, applyLlmAdjustment).                                      *)
THEOREM WorldTypesHold == Spec => []TypeOK
<1>1. Init => TypeOK
  BY StartsTyped
<1>2. TypeOK /\ [Next]_vars => TypeOK'
  BY StepsTyped
<1> QED BY <1>1, <1>2, PTL DEF Spec

(* The language model moves the composite score by at most two points, the *)
(* grade by at most one, whatever it proposes (normalizeScoreDelta,        *)
(* applyLlmAdjustment).                                                    *)
THEOREM ModelAlwaysMovesLittle == Spec => []ModelMovesLittle
<1>1. TypeOK => ModelMovesLittle
  BY AdjustedNear DEF TypeOK, ModelMovesLittle
<1> QED BY <1>1, WorldTypesHold, PTL

(* Time that is used up settles the session unless the model threw         *)
(* (applyOpenWorldAction, finalizeSession): whoever is still awaited will. *)
Settling ==
  play.time = TimeBudget => finalized # None \/ thrown \/ \E c \in Call : call[c] # None

LEMMA EndingIsAwaited ==
  ASSUME TypeOK, NEW c \in Call, BeginEnding(c), finalized = None
  PROVE  call'[c] # None /\ call'[c].stage = "ending"
<1>1. PICK r : r = [stage |-> "ending", score |-> computeScore(play)]
  OBVIOUS
<1>2. r \in Request
  BY <1>1, TypedPlay, ScoreOfPlay DEF Request
<1>3. call' = [call EXCEPT ![c] = r]
  BY <1>1 DEF BeginEnding, Continue
<1> QED BY <1>1, <1>2, <1>3, NoneAssumption DEF TypeOK

LEMMA StepsSettle ==
  ASSUME TypeOK, Settling, [Next]_vars
  PROVE  Settling'
<1>1. CASE UNCHANGED vars
  BY <1>1 DEF vars, Settling
<1>2. ASSUME NEW c \in Call, NEW a \in Input, Act(c, a)
      PROVE  Settling'
  <2>1. PICK r : r = [stage |-> "scene", score |-> None]
    OBVIOUS
  <2>2. r # None /\ call' = [call EXCEPT ![c] = r]
    BY <1>2, <2>1, NoneAssumption DEF Act, Continue, Request
  <2> QED BY <2>2 DEF Settling, TypeOK
<1>3. ASSUME NEW c \in Call, Finalize(c)
      PROVE  Settling'
  <2>1. CASE finalized # None
    BY <1>3, <2>1 DEF Finalize, Settling
  <2>2. CASE finalized = None
    BY <1>3, <2>2, EndingIsAwaited DEF Finalize, Settling
  <2> QED BY <2>1, <2>2
<1>4. ASSUME NEW c \in Call, SceneArrives(c)
      PROVE  Settling'
  <2>1. CASE Exhausted /\ finalized = None
    BY <1>4, <2>1, EndingIsAwaited DEF SceneArrives, Settling
  <2>2. CASE finalized # None
    BY <1>4, <2>2 DEF SceneArrives, Settling
  <2>3. CASE ~Exhausted
    BY <1>4, <2>3 DEF SceneArrives, Settling, Exhausted, TimeBudget
  <2> QED BY <2>1, <2>2, <2>3
<1>5. ASSUME NEW c \in Call, FallbackEnding(c)
      PROVE  Settling'
  BY <1>5, EndingTyped, NoneAssumption DEF FallbackEnding, Settling
<1>6. ASSUME NEW c \in Call, NEW text \in Text, NEW raw \in Delta, EndingArrives(c, text, raw)
      PROVE  Settling'
  BY <1>6, EndingTyped, NoneAssumption DEF Settling
<1>7. ASSUME NEW c \in Call, ModelThrows(c)
      PROVE  Settling'
  <2>1. play' = play /\ finalized' = finalized /\ thrown' = (thrown \/ Exhausted)
    BY <1>7 DEF ModelThrows
  <2>2. CASE Exhausted
    <3>1. thrown'
      BY <2>1, <2>2
    <3> QED BY <3>1 DEF Settling
  <2>3. CASE ~Exhausted
    <3>1. play.time # TimeBudget
      BY <2>3 DEF Exhausted, TimeBudget
    <3> QED BY <2>1, <3>1 DEF Settling
  <2> QED BY <2>2, <2>3
<1> QED BY <1>1, <1>2, <1>3, <1>4, <1>5, <1>6, <1>7 DEF Next, Settles

(* When no request is under way and the time is used up, the session is    *)
(* settled, or the model threw after that (applyOpenWorldAction,           *)
(* finalizeSession).                                                       *)
THEOREM ExhaustedIsAlwaysSettled == Spec => []ExhaustedIsSettled
<1>1. Init => Settling
  BY DEF Init, Settling, buildPlayerState, TimeBudget
<1>2. TypeOK /\ Settling /\ [Next]_vars => Settling'
  BY StepsSettle
<1>3. Settling => ExhaustedIsSettled
  BY DEF Settling, ExhaustedIsSettled
<1> QED BY <1>1, <1>2, <1>3, WorldTypesHold, PTL DEF Spec

(* Once settled, only endings that were awaited already may still replace  *)
(* the final payload (finalizeSession, applyOpenWorldAction).              *)
LEMMA StepsKeepFinal ==
  ASSUME TypeOK, [Next]_vars, finalized # None
  PROVE  /\ play' = play /\ AwaitingEnding' \subseteq AwaitingEnding
         /\ AwaitingEnding = {} => finalized' = finalized
<1>1. CASE UNCHANGED vars
  BY <1>1 DEF vars, AwaitingEnding
<1>2. ASSUME NEW c \in Call, End(c)
      PROVE  AwaitingEnding' \subseteq AwaitingEnding
  BY <1>2, CallEnds DEF AwaitingEnding
<1>3. ASSUME NEW c \in Call, NEW a \in Input, Act(c, a)
      PROVE  FALSE
  BY <1>3 DEF Act
<1>4. ASSUME NEW c \in Call, Finalize(c) \/ SceneArrives(c) \/ ModelThrows(c)
      PROVE  End(c) /\ play' = play /\ finalized' = finalized
  BY <1>4 DEF Finalize, SceneArrives, ModelThrows, BeginEnding
<1>5. ASSUME NEW c \in Call, NEW text \in Text \cup {None}, NEW raw \in Delta \cup {NoDelta},
             EndingArrives(c, text, raw)
      PROVE  End(c) /\ play' = play /\ AwaitingEnding # {}
  BY <1>5 DEF EndingArrives, AwaitingEnding
<1>6. ASSUME NEW c \in Call, FallbackEnding(c)
      PROVE  End(c) /\ play' = play /\ AwaitingEnding # {}
  BY <1>5, <1>6 DEF FallbackEnding
<1> QED BY <1>1, <1>2, <1>3, <1>4, <1>5, <1>6 DEF Next, Settles

(* A settled session is not played on and is asked no further ending.      *)
THEOREM SettledStaysFinal == Spec => SettledIsFinal
<1>1. TypeOK /\ [Next]_vars =>
        (finalized # None =>
           /\ play' = play /\ AwaitingEnding' \subseteq AwaitingEnding
           /\ AwaitingEnding = {} => finalized' = finalized)
  BY StepsKeepFinal
<1> QED BY <1>1, WorldTypesHold, PTL DEF Spec, SettledIsFinal

(* Lowering two scores by the same penalty keeps them as near.             *)
LEMMA LoweredNear ==
  ASSUME NEW x \in Int, NEW y \in Int, NEW penalty \in Nat, x <= y + 12
  PROVE  Lowered(x, penalty) <= Lowered(y, penalty) + 12
BY DEF Lowered, Clamp

LEMMA LoweredByTwelve ==
  ASSUME NEW x \in 0..100
  PROVE  Lowered(x, 0) <= Lowered(x, 12) + 12
BY DEF Lowered, Clamp

(* A first clue is worth the penalty for having shown none.                *)
LEMMA FirstClueWorth ==
  ASSUME NEW p, NEW q, p.truth \in 0..240, q.truth = p.truth, q.confirmed = p.confirmed,
         q.usedOn \cap Core = p.usedOn \cap Core, p.usedOn = {}, q.usedOn # {}
  PROVE  TruthScore(q) <= TruthScore(p) + 12
<1>1. PICK known, unproven, doubt :
         /\ known = Clamp(Rounded(p.truth, 2), 0, 100)
         /\ unproven = Penalty(p.usedOn \cap Core = {}, 16)
         /\ doubt = Penalty(~p.confirmed, 20)
  OBVIOUS
<1>2. known \in 0..100
  <2>1. 2 \in Nat \ {0} /\ p.truth \in Nat
    OBVIOUS
  <2>2. Rounded(p.truth, 2) \in Int
    BY <2>1, RoundedInt
  <2> QED BY <1>1, <2>2, InScale
<1>3. unproven \in Nat /\ doubt \in Nat
  BY <1>1 DEF Penalty
<1>4. PICK x, y : x = Lowered(known, 0) /\ y = Lowered(known, 12)
  OBVIOUS
<1>5. x \in 0..100 /\ y \in 0..100 /\ x <= y + 12
  <2>1. known \in Int /\ 0 \in Nat /\ 12 \in Nat
    BY <1>2
  <2>2. Lowered(known, 0) \in 0..100 /\ Lowered(known, 12) \in 0..100
    BY <2>1, LoweredRange
  <2> QED BY <1>2, <1>4, <2>2, LoweredByTwelve
<1>6. PICK v, w : v = Lowered(x, unproven) /\ w = Lowered(y, unproven)
  OBVIOUS
<1>7. v \in 0..100 /\ w \in 0..100 /\ v <= w + 12
  <2>1. x \in Int /\ y \in Int
    BY <1>5
  <2> QED BY <1>3, <1>5, <1>6, <2>1, LoweredRange, LoweredNear
<1>8. Lowered(v, doubt) <= Lowered(w, doubt) + 12
  <2>1. v \in Int /\ w \in Int
    BY <1>7
  <2> QED BY <1>3, <1>7, <2>1, LoweredNear
<1>9. TruthScore(p) = Lowered(w, doubt)
  BY <1>1, <1>4, <1>6 DEF TruthScore, Penalty
<1>10. TruthScore(q) = Lowered(v, doubt)
  BY <1>1, <1>4, <1>6 DEF TruthScore, Penalty
<1> QED BY <1>8, <1>9, <1>10

(* Without a clue held against a core witness, now or before a testimony   *)
(* that it confirms, late truth gains no more than that                    *)
(* (truthGainAfterPhaseGate, computeScore).                                *)
LEMMA LateTruth ==
  ASSUME NEW p, PlayOK(p), NEW a \in Input, phaseOf(p.time) = "RESOLUTION",
         After(p, a).usedOn \cap Core = p.usedOn \cap Core,
         ~(After(p, a).confirmed /\ After(p, a).usedOn \cap Core # {})
  PROVE  \/ TruthScore(After(p, a)) = TruthScore(p)
         \/ /\ p.usedOn = {} /\ After(p, a).usedOn # {}
            /\ TruthScore(After(p, a)) <= TruthScore(p) + 12
<1>1. PICK q, s : q = After(p, a) /\ s = Spent(p, a)
  OBVIOUS
<1>2. /\ q.usedOn = s.usedOn /\ q.truth = Clamp(p.truth + GainedBy(p, a), 0, 240)
      /\ q.confirmed = (p.confirmed \/ (Reveals(p, a) /\ Confirms(s, a)))
  BY <1>1, AfterFields
<1>3. s.time \in 0..100 /\ p.time <= s.time /\ p.time \in 0..100 /\ p.truth \in 0..240
  <2>1. Spent(p, a).time \in 0..100 /\ p.time <= Spent(p, a).time
    BY SpentFields
  <2>2. p.time \in 0..100 /\ p.truth \in 0..240
    BY DEF PlayOK, Play, TimeBudget
  <2> QED BY <1>1, <2>1, <2>2
<1>4. phaseOf(s.time) = "RESOLUTION"
  BY <1>3 DEF phaseOf
<1>5. ~(Reveals(p, a) /\ Confirms(s, a))
  <2> SUFFICES ASSUME Reveals(p, a), Confirms(s, a) PROVE FALSE
    OBVIOUS
  <2>1. s.usedOn \cap Core # {}
    BY DEF Confirms
  <2> QED BY <1>1, <1>2, <2>1
<1>6. GainedBy(p, a) = 0
  <2>1. ASSUME Reveals(p, a) PROVE Gained(s, a, Proposed(p, a)) = 0
    BY <1>4, <1>5, <2>1 DEF Gained
  <2> QED BY <1>1, <2>1 DEF GainedBy
<1>7. q.truth = p.truth
  BY <1>2, <1>3, <1>6 DEF Clamp
<1>8. q.confirmed = p.confirmed
  <2>1. p.confirmed \in BOOLEAN
    BY DEF PlayOK, Play
  <2> QED BY <1>2, <1>5, <2>1
<1>9. q.usedOn \cap Core = p.usedOn \cap Core
  BY <1>1
<1>10. p.usedOn \subseteq q.usedOn
  <2>1. Spent(p, a).usedOn = IF a.type = "USE_CLUE" /\ Known(p, a)
                             THEN p.usedOn \cup {a.target} ELSE p.usedOn
    BY SpentFields
  <2> QED BY <1>1, <1>2, <2>1
<1>11. CASE p.usedOn = {} /\ q.usedOn # {}
  BY <1>1, <1>3, <1>7, <1>8, <1>9, <1>11, FirstClueWorth
<1>12. CASE ~(p.usedOn = {} /\ q.usedOn # {})
  <2>1. (q.usedOn = {}) = (p.usedOn = {})
    BY <1>10, <1>12
  <2>2. TruthScore(q) = TruthScore(p)
    BY <1>7, <1>8, <1>9, <2>1 DEF TruthScore
  <2> QED BY <1>1, <2>2
<1> QED BY <1>11, <1>12

(* In the last phase the truth score is stuck but for clues held against   *)
(* the core witnesses, and the one-time worth of a first clue              *)
(* (truthGainAfterPhaseGate, computeScore).                                *)
THEOREM LateTruthAlwaysNeedsCore == Spec => LateTruthNeedsCore
<1>1. ASSUME TypeOK, [Next]_vars, phaseOf(play.time) = "RESOLUTION",
             TruthScore(play') > TruthScore(play)
      PROVE  \/ play'.confirmed /\ play'.usedOn \cap Core # {}
             \/ play'.usedOn \cap Core # play.usedOn \cap Core
             \/ /\ play.usedOn = {} /\ play'.usedOn # {}
                /\ TruthScore(play') <= TruthScore(play) + 12
  <2>1. TruthScore(play) \in 0..100
    BY <1>1, TruthScoreRange DEF TypeOK, Play
  <2>2. play' # play
    BY <1>1, <2>1
  <2>3. PICK c \in Call, a \in Input : Act(c, a)
    BY <1>1, <2>2
    DEF Next, vars, Settles, Finalize, SceneArrives, FallbackEnding, ModelThrows, EndingArrives
  <2>4. play' = After(play, a)
    BY <2>3 DEF Act
  <2>5. TruthScore(play') # TruthScore(play)
    BY <1>1, <2>1
  <2> QED BY <1>1, <2>4, <2>5, TypedPlay, LateTruth
<1> QED BY <1>1, WorldTypesHold, PTL DEF Spec, LateTruthNeedsCore

(* An action is counted under one key (buildActionKey).                    *)
LEMMA OneMoreCounted ==
  ASSUME NEW p, PlayOK(p), NEW a \in Input, IsFiniteSet(DOMAIN p.count)
  PROVE  /\ IsFiniteSet(DOMAIN Counted(p, a))
         /\ Total(Counted(p, a), DOMAIN Counted(p, a)) = Total(p.count, DOMAIN p.count) + 1
<1>1. PICK k, old, new, was, is :
        /\ k = KeyOf(p, a) /\ old = p.count /\ new = Counted(p, a)
        /\ was = DOMAIN old /\ is = DOMAIN new
  OBVIOUS
<1>2. is = was \cup {k} /\ k \in is
  BY <1>1 DEF Counted
<1>3. IsFiniteSet(was) /\ IsFiniteSet(is)
  BY <1>1, <1>2, FS_AddElement
<1>4. \A x \in is : new[x] = IF x = k THEN Repeats(p, a) + 1 ELSE old[x]
  BY <1>1 DEF Counted
<1>5. \A x \in was : old[x] \in Int
  BY <1>1 DEF PlayOK, Play
<1>6. Repeats(p, a) \in Int
  BY RepeatsNat DEF PlayOK, Play
<1>7. \A x \in is : new[x] \in Int
  BY <1>2, <1>4, <1>5, <1>6
<1>8. PICK rest : rest = was \ {k}
  OBVIOUS
<1>9. rest = is \ {k} /\ IsFiniteSet(rest) /\ (\A x \in rest : new[x] = old[x])
  BY <1>2, <1>3, <1>4, <1>8, FS_Subset
<1>10. Total(new, is) = Repeats(p, a) + 1 + Total(old, rest)
  <2>1. Total(new, is) = new[k] + Total(new, is \ {k})
    BY <1>2, <1>3, <1>7, TotalWithout
  <2>2. Total(new, rest) = Total(old, rest)
    BY <1>9, SameTotal
  <2> QED BY <1>2, <1>4, <1>9, <2>1, <2>2
<1>11. Total(old, was) = Repeats(p, a) + Total(old, rest)
  <2>1. Total(old, rest) \in Int
    BY <1>5, <1>8, <1>9, TotalInt
  <2>2. CASE k \in was
    <3>1. Total(old, was) = old[k] + Total(old, was \ {k})
      BY <1>3, <1>5, <2>2, TotalWithout
    <3>2. Repeats(p, a) = old[k]
      BY <1>1, <2>2 DEF Repeats
    <3> QED BY <1>8, <3>1, <3>2
  <2>3. CASE k \notin was
    <3>1. rest = was
      BY <1>8, <2>3
    <3>2. Repeats(p, a) = 0
      BY <1>1, <2>3 DEF Repeats
    <3> QED BY <2>1, <3>1, <3>2
  <2> QED BY <2>2, <2>3
<1>12. Total(old, rest) \in Int
  BY <1>5, <1>8, <1>9, TotalInt
<1>13. Total(new, is) = Total(old, was) + 1
  BY <1>6, <1>10, <1>11, <1>12
<1> QED BY <1>1, <1>3, <1>13

(* The counts of the novelty discount are a finite bag of all the ticks.   *)
Ticking ==
  /\ IsFiniteSet(DOMAIN play.count)
  /\ play.ticks = Total(play.count, DOMAIN play.count)

LEMMA StepsTick ==
  ASSUME TypeOK, Ticking, [Next]_vars
  PROVE  Ticking'
<1>1. CASE play' = play
  BY <1>1 DEF Ticking
<1>2. CASE play' # play
  <2>1. PICK c \in Call, a \in Input : Act(c, a)
    BY <1>2
    DEF Next, vars, Settles, Finalize, SceneArrives, FallbackEnding, ModelThrows, EndingArrives
  <2>2. PICK q : q = After(play, a)
    OBVIOUS
  <2>3. play' = q /\ PlayOK(play)
    BY <2>1, <2>2, TypedPlay DEF Act
  <2>4. q.ticks = play.ticks + 1 /\ q.count = Counted(play, a)
    BY <2>2, <2>3, AfterFields
  <2>5. /\ IsFiniteSet(DOMAIN q.count)
        /\ Total(q.count, DOMAIN q.count) = Total(play.count, DOMAIN play.count) + 1
    BY <2>3, <2>4, OneMoreCounted DEF Ticking
  <2> QED BY <2>3, <2>4, <2>5 DEF Ticking
<1> QED BY <1>1, <1>2

(* Every action counts under one key of the novelty discount, so that the  *)
(* counts add up to the ticks, whatever awaits meanwhile (buildActionKey,  *)
(* applyAction).                                                           *)
THEOREM TicksAreAlwaysCounted == Spec => []TicksAreCounted
<1>1. ASSUME Init PROVE Ticking
  <2>1. DOMAIN play.count = {} /\ play.ticks = 0
    BY <1>1 DEF Init, buildPlayerState
  <2>2. Total(play.count, {}) = 0
    BY FS_EmptySet, TotalStep
  <2> QED BY <2>1, <2>2, FS_EmptySet DEF Ticking
<1>2. TypeOK /\ Ticking /\ [Next]_vars => Ticking'
  BY StepsTick
<1>3. Ticking => TicksAreCounted
  BY DEF Ticking, TicksAreCounted, MapThenSumSet, MapThenFoldSet, IsFold, FirstOf, Total
<1> QED BY <1>1, <1>2, <1>3, WorldTypesHold, PTL DEF Spec

-----------------------------------------------------------------------------
(* The story game.                                                         *)

(* The choices of the story, as far as the invariants need them.           *)
Does(c, relation, dignity, code) ==
  c.relation = relation /\ c.dignity = dignity /\ c.code = code /\ ~c.reveal
Uncovers(c, relation) == c.relation = relation /\ c.dignity = 0 /\ c.code = None

LEMMA ChoicesDo ==
  ASSUME NEW r
  PROVE  /\ Does(Safe(r), r, 0, None) /\ Does(Risky(r), r, 0, None)
         /\ Uncovers(Revealing(Safe(r)), r)
         /\ \A d : /\ Does(Earns(Safe(r), d), r, d, None)
                   /\ Does(Earns(Risky(r), d), r, d, None)
         /\ \A x : /\ Does(Decides(Safe(r), x), r, 0, x)
                   /\ Does(Decides(Risky(r), x), r, 0, x)
BY DEF Does, Uncovers, Safe, Risky, Earns, Decides, Revealing

Fits(n, c) ==
  /\ c.relation \in -1..1
  /\ c.dignity \in IF n = 12 THEN {4, -3} ELSE IF n = 22 THEN {3, 4} ELSE {0}
  /\ c.code \in IF n = 24 THEN {"pact_commit", "pact_delay", "pact_backdoor"}
                ELSE IF n = 32 THEN EndDecision ELSE {None}
  /\ c.reveal => n = 23

LEMMA StoryFits ==
  ASSUME NEW n \in Node, NEW i \in DOMAIN story(n)
  PROVE  i \in 1..3 /\ Fits(n, story(n)[i])
<1>1. CASE n = 11
  <2>1. PICK a, b, c :
          /\ story(n) = <<a, b, c>>
          /\ a = Risky(-1) /\ b = Safe(1)
          /\ c = Safe(0)
    BY <1>1 DEF story
  <2>2. Does(a, -1, 0, None) /\ Does(b, 1, 0, None) /\ Does(c, 0, 0, None)
    BY <2>1, ChoicesDo
  <2> QED BY <1>1, <2>1, <2>2 DEF Does, Fits
<1>2. CASE n = 12
  <2>1. PICK a, b :
          /\ story(n) = <<a, b>>
          /\ a = Earns(Safe(1), 4) /\ b = Earns(Risky(-1), -3)
    BY <1>2 DEF story
  <2>2. Does(a, 1, 4, None) /\ Does(b, -1, -3, None)
    BY <2>1, ChoicesDo
  <2> QED BY <1>2, <2>1, <2>2 DEF Does, Fits
<1>3. CASE n = 13
  <2>1. PICK a, b, c :
          /\ story(n) = <<a, b, c>>
          /\ a = Safe(0) /\ b = Risky(-1)
          /\ c = Safe(1)
    BY <1>3 DEF story
  <2>2. Does(a, 0, 0, None) /\ Does(b, -1, 0, None) /\ Does(c, 1, 0, None)
    BY <2>1, ChoicesDo
  <2> QED BY <1>3, <2>1, <2>2 DEF Does, Fits
<1>4. CASE n = 21
  <2>1. PICK a, b, c :
          /\ story(n) = <<a, b, c>>
          /\ a = Safe(1) /\ b = Safe(0)
          /\ c = Risky(-1)
    BY <1>4 DEF story
  <2>2. Does(a, 1, 0, None) /\ Does(b, 0, 0, None) /\ Does(c, -1, 0, None)
    BY <2>1, ChoicesDo
  <2> QED BY <1>4, <2>1, <2>2 DEF Does, Fits
<1>5. CASE n = 22
  <2>1. PICK a, b, c :
          /\ story(n) = <<a, b, c>>
          /\ a = Earns(Safe(0), 3) /\ b = Earns(Safe(0), 4)
          /\ c = Earns(Safe(0), 3)
    BY <1>5 DEF story
  <2>2. Does(a, 0, 3, None) /\ Does(b, 0, 4, None) /\ Does(c, 0, 3, None)
    BY <2>1, ChoicesDo
  <2> QED BY <1>5, <2>1, <2>2 DEF Does, Fits
<1>6. CASE n = 23
  <2>1. PICK a, b, c :
          /\ story(n) = <<a, b, c>>
          /\ a = Revealing(Safe(1)) /\ b = Risky(-1)
          /\ c = Revealing(Safe(0))
    BY <1>6 DEF story
  <2>2. Uncovers(a, 1) /\ Does(b, -1, 0, None) /\ Uncovers(c, 0)
    BY <2>1, ChoicesDo
  <2> QED BY <1>6, <2>1, <2>2 DEF Does, Uncovers, Fits
<1>7. CASE n = 24
  <2>1. PICK a, b, c :
          /\ story(n) = <<a, b, c>>
          /\ a = Decides(Safe(1), "pact_commit")
          /\ b = Decides(Safe(0), "pact_delay")
          /\ c = Decides(Risky(-1), "pact_backdoor")
    BY <1>7 DEF story
  <2>2. /\ Does(a, 1, 0, "pact_commit") /\ Does(b, 0, 0, "pact_delay")
        /\ Does(c, -1, 0, "pact_backdoor")
    BY <2>1, ChoicesDo
  <2> QED BY <1>7, <2>1, <2>2 DEF Does, Fits
<1>8. CASE n = 31
  <2>1. PICK a, b, c :
          /\ story(n) = <<a, b, c>>
          /\ a = Safe(1) /\ b = Risky(0)
          /\ c = Risky(-1)
    BY <1>8 DEF story
  <2>2. Does(a, 1, 0, None) /\ Does(b, 0, 0, None) /\ Does(c, -1, 0, None)
    BY <2>1, ChoicesDo
  <2> QED BY <1>8, <2>1, <2>2 DEF Does, Fits
<1>9. CASE n = 32
  <2>1. PICK a, b, c :
          /\ story(n) = <<a, b, c>>
          /\ a = Decides(Safe(1), "bury_truth")
          /\ b = Decides(Safe(-1), "disclose")
          /\ c = Decides(Risky(-1), "double_play")
    BY <1>9 DEF story
  <2>2. Does(a, 1, 0, "bury_truth") /\ Does(b, -1, 0, "disclose") /\ Does(c, -1, 0, "double_play")
    BY <2>1, ChoicesDo
  <2> QED BY <1>9, <2>1, <2>2 DEF Does, Fits, EndDecision
<1>10. CASE n = 33
  <2>1. PICK a :
          /\ story(n) = <<a>>
          /\ a = Sealing
    BY <1>10 DEF story
  <2>2. Does(a, 0, 0, None)
    BY <2>1, ChoicesDo DEF Sealing
  <2> QED BY <1>10, <2>1, <2>2 DEF Does, Fits
<1> QED BY <1>1, <1>2, <1>3, <1>4, <1>5, <1>6, <1>7, <1>8, <1>9, <1>10 DEF Node

(* The last node can be played for ever; it seals and restores.            *)
LEMMA SealingRestores ==
  ASSUME NEW i \in DOMAIN story(33)
  PROVE  LET c == story(33)[i] IN
         /\ ~c.risk /\ ~c.reveal /\ c.relation = 0
         /\ Restores(c, 0) /\ ~Strong(c)
<1>1. story(33) = <<Sealing>>
  BY DEF story
<1>2. PICK c : c = story(33)[i]
  OBVIOUS
<1>3. c = Sealing
  BY <1>1, <1>2
<1>4. ~c.risk /\ ~c.reveal /\ c.relation = 0 /\ c.code = None
  BY <1>3 DEF Sealing, Safe
<1>5. ~Strong(c)
  BY <1>4, StoryNoneAssumption DEF Strong, Decision
<1>6. Restores(c, 0)
  BY <1>4 DEF Restores
<1> QED BY <1>2, <1>4, <1>5, <1>6

-----------------------------------------------------------------------------
(* Costs: a first attempt takes less than a quarter of a budget.           *)

LEMMA RawBound ==
  ASSUME NEW x \in Nat, x <= 4524800
  PROVE  Rounded(x, 2800) \in Nat /\ Rounded(x, 2800) <= 1616
BY SMT DEF Rounded

LEMMA BudgetBound ==
  ASSUME NEW x \in Int
  PROVE  /\ Clamp(x, 0, FullBudget) \in 0..FullBudget
         /\ x \in 0..FullBudget => Clamp(x, 0, FullBudget) = x
<1>1. FullBudget \in Nat
  BY SMT DEF FullBudget
<1> QED BY SMT, <1>1 DEF Clamp

LEMMA CostBound ==
  ASSUME NEW s, s.node \in Node, s.dignity \in 0..100,
         Interrogative(s.node) => s.attempts[s.node] = 0
  PROVE  Cost(s) \in Nat \ {0} /\ Cost(s) <= 2200
<1>1. CASE ~Interrogative(s.node)
  BY SMT, <1>1 DEF Cost
<1>2. CASE Interrogative(s.node)
  <2>1. PICK d : d = s.dignity
    OBVIOUS
  <2>2. PICK heat : heat = Heat(ChapterOf(s.node))
    OBVIOUS
  <2>3. heat \in {20, 24, 29}
    BY <2>2 DEF Heat, ChapterOf, Node
  <2>4. PICK raw : raw = RawCost(ChapterOf(s.node), d, 1 + 0)
    OBVIOUS
  <2>5. \/ raw = Rounded(650 * heat * (240 - d), 2800)
        \/ raw = Rounded(650 * heat * (240 - d), 2800) - 1
    <3>1. 29 ^ ((1 + 0) - 1) = 1 /\ 20 * 140 * 20 ^ ((1 + 0) - 1) = 2800
      OBVIOUS
    <3>2. d \in 0..100
      BY <2>1
    <3>3. 650 * heat * (240 - d) * 1 = 650 * heat * (240 - d)
      BY <2>3, <3>2
    <3>4. Rounded(650 * heat * (240 - d), 2800) - 0 = Rounded(650 * heat * (240 - d), 2800)
      <4>1. 650 * heat * (240 - d) \in Nat /\ 2800 \in Nat \ {0}
        BY <2>3, <3>2
      <4>2. Rounded(650 * heat * (240 - d), 2800) \in Nat
        BY <4>1, RoundedInt
      <4> QED BY <4>2
    <3> QED BY <2>2, <2>4, <3>1, <3>3, <3>4 DEF RawCost
  <2>6. raw \in Int /\ -1 <= raw /\ raw <= 1616
    <3>1. d \in 0..100
      BY <2>1
    <3>2. PICK x : x = 650 * heat * (240 - d)
      OBVIOUS
    <3>3. x \in Nat /\ x <= 4524800
      BY SMT, <2>3, <3>1, <3>2
    <3>5. raw = Rounded(x, 2800) \/ raw = Rounded(x, 2800) - 1
      BY <2>5, <3>2
    <3>6. Rounded(x, 2800) \in Nat /\ Rounded(x, 2800) <= 1616
      BY SMT, <3>3, RawBound
    <3> QED BY SMT, <3>5, <3>6
  <2>7. PICK cost : cost = Clamp(Rounded(27 * raw, 20), 300, 7500)
    OBVIOUS
  <2>8. cost \in Nat \ {0} /\ cost <= 2200
    BY SMT, <2>6, <2>7 DEF Clamp, Rounded
  <2> QED BY SMT, <1>2, <2>1, <2>4, <2>7, <2>8 DEF Cost
<1> QED BY <1>1, <1>2

-----------------------------------------------------------------------------
(* A turn, field by field.                                                 *)

LEMMA FlowStays == \A n \in Node : nodeFlow(n) \in Node
BY DEF nodeFlow, Node

LEMMA TurnFields ==
  ASSUME NEW s \in Session, NEW i \in DOMAIN story(s.node),
         LeftAfter(s) \in Int
  PROVE  LET t == Committed(s, i)
             c == story(s.node)[i]
             gained == DignityGained(s, i, c)
         IN
         /\ t \in Session
         /\ t.mode = s.mode /\ t.completed = s.completed /\ t.ending = s.ending
         /\ t.node = nodeFlow(s.node)
         /\ t.dignity = Clamp(s.dignity + gained, 0, 100)
         /\ t.relation = Clamp(s.relation + c.relation, -3, 3)
         /\ t.pollution =
              Clamp(s.pollution + computePollutionDelta(Blocked(s), c, gained), 0, 3)
         /\ t.footprints = IF s.node = 22 THEN s.footprints \cup {i} ELSE s.footprints
         /\ t.decision = IF c.code \in EndDecision THEN c.code ELSE s.decision
         /\ t.reveal => s.reveal \/ s.node = 23
         /\ t.budget = [s.budget EXCEPT ![ChapterOf(s.node)] =
                          Clamp(LeftAfter(s), 0, FullBudget)]
         /\ t.attempts = [s.attempts EXCEPT ![s.node] = s.attempts[s.node] + 1]
<1>1. PICK c : c = story(s.node)[i]
  OBVIOUS
<1>2. PICK gained : gained = DignityGained(s, i, c)
  OBVIOUS
<1>3. PICK delta : delta = computePollutionDelta(Blocked(s), c, gained)
  OBVIOUS
<1>4. s.node \in Node
  BY DEF Session
<1>5. i \in 1..3 /\ Fits(s.node, c)
  BY <1>1, <1>4, StoryFits
<1>6. gained \in -3..4
  BY <1>2, <1>5 DEF DignityGained, Fits
<1>7. delta \in Int
  BY <1>3 DEF computePollutionDelta
<1>8. PICK attempts : attempts = [s.attempts EXCEPT ![s.node] = s.attempts[s.node] + 1]
  OBVIOUS
<1>15. PICK left : left = Clamp(LeftAfter(s), 0, FullBudget)
  OBVIOUS
<1>9. PICK budget : budget = [s.budget EXCEPT ![ChapterOf(s.node)] = left]
  OBVIOUS
<1>10. PICK relation, dignity, pollution :
         /\ relation = Clamp(s.relation + c.relation, -3, 3)
         /\ dignity = Clamp(s.dignity + gained, 0, 100)
         /\ pollution = Clamp(s.pollution + delta, 0, 3)
  OBVIOUS
<1>11. PICK footprints : footprints = IF s.node = 22 THEN s.footprints \cup {i} ELSE s.footprints
  OBVIOUS
<1>12. PICK reveal : reveal = (s.reveal \/ c.reveal \/ (s.node = 23 /\ i = 2 /\ s.relation >= 3))
  OBVIOUS
<1>13. PICK decision : decision = IF c.code \in EndDecision THEN c.code ELSE s.decision
  OBVIOUS
<1>14. PICK unlocked : unlocked \in BOOLEAN /\ Committed(s, i) =
         [mode |-> s.mode, dignity |-> dignity, relation |-> relation, pollution |-> pollution,
          reveal |-> reveal, unlocked |-> unlocked, node |-> nodeFlow(s.node),
          completed |-> s.completed, decision |-> decision, ending |-> s.ending,
          budget |-> budget, attempts |-> attempts, footprints |-> footprints]
  <2>1. PICK played : played =
          [s EXCEPT !.attempts = attempts, !.budget = budget, !.relation = relation,
                    !.footprints = footprints, !.dignity = dignity, !.pollution = pollution,
                    !.reveal = reveal, !.decision = decision]
    OBVIOUS
  <2>7. Played(s, i) = played
    BY <1>1, <1>2, <1>3, <1>8, <1>9, <1>10, <1>11, <1>12, <1>13, <1>15, <2>1
    DEF Played
  <2>2. Committed(s, i) =
          [played EXCEPT !.unlocked = TruthUnlocked(played),
                         !.node = nodeFlow(s.node)]
    BY <2>7 DEF Committed
  <2>3. TruthUnlocked(played) \in BOOLEAN
    BY DEF TruthUnlocked
  <2>4. played =
          [mode |-> s.mode, dignity |-> dignity, relation |-> relation, pollution |-> pollution,
           reveal |-> reveal, unlocked |-> s.unlocked, node |-> s.node,
           completed |-> s.completed, decision |-> decision, ending |-> s.ending,
           budget |-> budget, attempts |-> attempts, footprints |-> footprints]
    <3>1. s = [mode |-> s.mode, dignity |-> s.dignity, relation |-> s.relation,
               pollution |-> s.pollution, reveal |-> s.reveal, unlocked |-> s.unlocked,
               node |-> s.node, completed |-> s.completed, decision |-> s.decision,
               ending |-> s.ending, budget |-> s.budget, attempts |-> s.attempts,
               footprints |-> s.footprints]
      BY DEF Session
    <3> QED BY <2>1, <3>1
  <2>5. PICK unlocked : unlocked = TruthUnlocked(played)
    OBVIOUS
  <2>6. Committed(s, i) = [played EXCEPT !.unlocked = unlocked, !.node = nodeFlow(s.node)]
    BY <2>2, <2>5
  <2>8. Committed(s, i) =
          [mode |-> s.mode, dignity |-> dignity, relation |-> relation, pollution |-> pollution,
           reveal |-> reveal, unlocked |-> unlocked, node |-> nodeFlow(s.node),
           completed |-> s.completed, decision |-> decision, ending |-> s.ending,
           budget |-> budget, attempts |-> attempts, footprints |-> footprints]
    BY <2>4, <2>6
  <2> QED BY <2>3, <2>5, <2>8
<1>16. reveal \in BOOLEAN
  BY <1>12
<1>17. /\ dignity \in 0..100 /\ relation \in -3..3 /\ pollution \in 0..3
  <2>1. /\ s.relation + c.relation \in Int /\ s.dignity + gained \in Int
        /\ s.pollution + delta \in Int
    BY <1>5, <1>6, <1>7 DEF Fits, Session
  <2>2. \A x \in Int : /\ Clamp(x, -3, 3) \in -3..3 /\ Clamp(x, 0, 100) \in 0..100
                       /\ Clamp(x, 0, 3) \in 0..3
    BY DEF Clamp
  <2> QED BY <1>10, <2>1, <2>2
<1>18. left \in 0..FullBudget
  BY SMT, <1>15, BudgetBound
<1>19. ChapterOf(s.node) \in Chapter
  BY <1>4 DEF ChapterOf, Chapter, Node
<1>20. budget \in [Chapter -> 0..FullBudget] /\ attempts \in [Node -> Nat]
  <2>1. s.budget \in [Chapter -> 0..FullBudget] /\ s.attempts \in [Node -> Nat]
    BY SMT DEF Session
  <2>2. s.attempts[s.node] + 1 \in Nat
    BY <1>4, <2>1
  <2> QED BY SMT, <1>4, <1>8, <1>9, <1>18, <1>19, <2>1, <2>2
<1>21. footprints \in SUBSET (1..3) /\ decision \in EndDecision \cup {None}
  BY <1>5, <1>11, <1>13 DEF Session
<1>22. PICK t : t = Committed(s, i)
  OBVIOUS
<1>23. /\ t.mode = s.mode /\ t.completed = s.completed /\ t.ending = s.ending
       /\ t.node = nodeFlow(s.node) /\ t.dignity = dignity /\ t.relation = relation
       /\ t.pollution = pollution /\ t.footprints = footprints /\ t.decision = decision
       /\ t.budget = budget /\ t.attempts = attempts /\ t.reveal = reveal
  BY <1>14, <1>22
<1>25. reveal => s.reveal \/ s.node = 23
  BY <1>5, <1>12 DEF Fits
<1>24. t \in Session
  <2>1. /\ s.mode \in Mode /\ s.completed \in BOOLEAN
        /\ s.ending \in Ending \cup {None} /\ nodeFlow(s.node) \in Node
    BY <1>4, FlowStays DEF Session
  <2> QED BY <1>14, <1>16, <1>17, <1>20, <1>21, <1>22, <2>1 DEF Session
<1> QED BY <1>1, <1>2, <1>3, <1>8, <1>9, <1>10, <1>11, <1>13, <1>15, <1>22, <1>23, <1>24, <1>25

-----------------------------------------------------------------------------
(* The walk: where a player is says what was played, what it cost and how  *)
(* far dignity has come from where the mode let it start.                  *)

PlayedOnce(s) == \A n \in Node \ {33} : s.attempts[n] = IF n < s.node THEN 1 ELSE 0

Paid(s) ==
  /\ \A ch \in Chapter :
       ch > ChapterOf(s.node) => s.budget[ch] = FullBudget
  /\ s.node \in {11, 21, 31} => s.budget[ChapterOf(s.node)] = FullBudget
  /\ s.node \in {12, 22, 32} => s.budget[ChapterOf(s.node)] >= FullBudget - 2200
  /\ s.node \in {13, 23} => s.budget[ChapterOf(s.node)] >= FullBudget - 4400

Earned(s) ==
  LET start == StartDignity(s.mode) IN
  /\ s.node <= 22 => s.footprints = {}
  /\ s.node <= 12 => s.dignity = start
  /\ 12 < s.node /\ s.node <= 22 => start - 3 <= s.dignity /\ s.dignity <= start + 4
  /\ 22 < s.node => start <= s.dignity /\ s.dignity <= start + 8

Walked(s) ==
  /\ s \in Session
  /\ PlayedOnce(s) /\ Paid(s) /\ Earned(s)
  /\ s.decision # None <=> s.node = 33
  /\ s.ending = "silk_burial" => s.mode = "verified"

LEMMA FullIsNat == FullBudget \in Nat /\ FullBudget > 6600
BY SMT DEF FullBudget

LEMMA StartWalked ==
  ASSUME NEW mode \in Mode
  PROVE  Walked(Started(mode))
<1>1. PICK s : s = Started(mode)
  OBVIOUS
<1>2. PICK start : start = StartDignity(mode)
  OBVIOUS
<1>3. start \in 0..100
  BY <1>2 DEF StartDignity, Mode
<1>4. PICK budget, attempts : /\ budget = [c \in Chapter |-> FullBudget]
                              /\ attempts = [n \in Node |-> 0]
  OBVIOUS
<1>5. s = [mode |-> mode, dignity |-> start, relation |-> 0, pollution |-> 0,
           reveal |-> FALSE, unlocked |-> FALSE, node |-> 11, completed |-> FALSE,
           decision |-> None, ending |-> None, budget |-> budget,
           attempts |-> attempts, footprints |-> {}]
  BY <1>1, <1>2, <1>4 DEF Started
<1>6. /\ s.mode = mode /\ s.dignity = start /\ s.node = 11 /\ s.decision = None
      /\ s.ending = None /\ s.budget = budget /\ s.attempts = attempts /\ s.footprints = {}
  BY <1>5
<1>7. FullBudget \in 0..FullBudget
  BY SMT DEF FullBudget
<1>8. budget \in [Chapter -> 0..FullBudget] /\ attempts \in [Node -> Nat]
  BY <1>4, <1>7
<1>9. s \in Session
  BY <1>3, <1>5, <1>8 DEF Session, Node
<1>10. PlayedOnce(s)
  BY <1>4, <1>6 DEF PlayedOnce, Node
<1>11. Paid(s)
  BY <1>4, <1>6 DEF Paid, ChapterOf, Chapter
<1>12. Earned(s)
  BY <1>2, <1>6 DEF Earned
<1>13. s.ending # "silk_burial"
  BY <1>6, StoryNoneAssumption DEF Ending
<1> QED BY <1>1, <1>6, <1>9, <1>10, <1>11, <1>12, <1>13 DEF Walked

LEMMA WalkedCost ==
  ASSUME NEW s, Walked(s)
  PROVE  /\ Cost(s) \in Nat \ {0} /\ Cost(s) <= 2200
         /\ LeftAfter(s) \in Int
         /\ LeftAfter(s) = s.budget[ChapterOf(s.node)] - Cost(s)
         /\ ~Blocked(s)
<1>1. s.node \in Node /\ s.dignity \in 0..100
  BY DEF Walked, Session
<1>2. Interrogative(s.node) => s.attempts[s.node] = 0
  BY <1>1 DEF Walked, PlayedOnce, Interrogative, Node
<1>3. Cost(s) \in Nat \ {0} /\ Cost(s) <= 2200
  BY <1>1, <1>2, CostBound
<1>4. PICK left : left = s.budget[ChapterOf(s.node)]
  OBVIOUS
<1>5. left \in Nat
  <2>1. ChapterOf(s.node) \in Chapter
    BY <1>1 DEF ChapterOf, Chapter, Node
  <2>2. s.budget \in [Chapter -> 0..FullBudget]
    BY DEF Walked, Session
  <2>3. s.budget[ChapterOf(s.node)] \in 0..FullBudget
    BY <2>1, <2>2
  <2> QED BY SMT, <1>4, <2>3, FullIsNat
<1>6. Interrogative(s.node) => left >= FullBudget - 4400
  <2>1. CASE s.node \in {11, 21, 31}
    BY SMT, <1>4, <2>1, FullIsNat DEF Walked, Paid
  <2>2. CASE s.node \in {12, 22, 32}
    BY SMT, <1>4, <1>5, <2>2, FullIsNat DEF Walked, Paid
  <2>3. CASE s.node \in {13, 23}
    BY SMT, <1>4, <1>5, <2>3, FullIsNat DEF Walked, Paid
  <2> QED BY <1>1, <2>1, <2>2, <2>3 DEF Interrogative, Node
<1>7. LeftAfter(s) = left - Cost(s)
  BY <1>4 DEF LeftAfter
<1>8. Interrogative(s.node) => LeftAfter(s) > 0
  BY SMT, <1>3, <1>5, <1>6, <1>7, FullIsNat
<1>9. ~Blocked(s)
  BY SMT, <1>3, <1>5, <1>7, <1>8 DEF Blocked
<1> QED BY <1>3, <1>4, <1>5, <1>7, <1>9

LEMMA TurnWalks ==
  ASSUME NEW s, Walked(s), NEW i \in DOMAIN story(s.node)
  PROVE  Walked(Committed(s, i))
<1>1. PICK t, c : t = Committed(s, i) /\ c = story(s.node)[i]
  OBVIOUS
<1>2. PICK gained : gained = DignityGained(s, i, c)
  OBVIOUS
<1>3. s \in Session /\ s.node \in Node /\ LeftAfter(s) \in Int
  BY WalkedCost DEF Walked, Session
<1>4. /\ t \in Session
      /\ t.mode = s.mode /\ t.ending = s.ending /\ t.node = nodeFlow(s.node)
      /\ t.dignity = Clamp(s.dignity + gained, 0, 100)
      /\ t.footprints = IF s.node = 22 THEN s.footprints \cup {i} ELSE s.footprints
      /\ t.decision = IF c.code \in EndDecision THEN c.code ELSE s.decision
      /\ t.budget = [s.budget EXCEPT ![ChapterOf(s.node)] =
                       Clamp(LeftAfter(s), 0, FullBudget)]
      /\ t.attempts = [s.attempts EXCEPT ![s.node] = s.attempts[s.node] + 1]
  <2> DEFINE u == Committed(s, i)
  <2>1. /\ u \in Session
        /\ u.mode = s.mode /\ u.ending = s.ending /\ u.node = nodeFlow(s.node)
        /\ u.dignity = Clamp(s.dignity + DignityGained(s, i, story(s.node)[i]), 0, 100)
        /\ u.footprints = IF s.node = 22 THEN s.footprints \cup {i} ELSE s.footprints
        /\ u.decision = IF story(s.node)[i].code \in EndDecision
                        THEN story(s.node)[i].code ELSE s.decision
        /\ u.budget = [s.budget EXCEPT ![ChapterOf(s.node)] =
                         Clamp(LeftAfter(s), 0, FullBudget)]
        /\ u.attempts = [s.attempts EXCEPT ![s.node] = s.attempts[s.node] + 1]
    BY <1>3, TurnFields
  <2> QED BY <1>1, <1>2, <2>1
<1>5. Fits(s.node, c)
  BY <1>1, <1>3, StoryFits
<1>6. PICK n, m : n = s.node /\ m = t.node
  OBVIOUS
<1>7. n \in Node /\ m = nodeFlow(n)
  BY <1>3, <1>4, <1>6
<1>8. PlayedOnce(t)
  <2>1. s.attempts \in [Node -> Nat]
    BY <1>3 DEF Session
  <2>2. \A k \in Node : t.attempts[k] = IF k = n THEN s.attempts[n] + 1 ELSE s.attempts[k]
    BY <1>4, <1>6, <1>7, <2>1
  <2>3. \A k \in Node \ {33} : k < m <=> k < n \/ k = n
    BY <1>7 DEF Node, nodeFlow
  <2>4. \A k \in Node \ {33} : s.attempts[k] = IF k < n THEN 1 ELSE 0
    BY <1>6 DEF Walked, PlayedOnce
  <2>5. \A k \in Node \ {33} : k = n => ~(k < n)
    BY <1>7 DEF Node
  <2>6. \A k \in Node \ {33} : t.attempts[k] = IF k < m THEN 1 ELSE 0
    BY <2>2, <2>3, <2>4, <2>5
  <2> QED BY <1>6, <2>6 DEF PlayedOnce
<1>9. Paid(t)
  <2>1. PICK left : left = LeftAfter(s)
    OBVIOUS
  <2>2. s.budget \in [Chapter -> 0..FullBudget]
    BY <1>3 DEF Session
  <2>3. \A ch \in Chapter :
          t.budget[ch] = IF ch = ChapterOf(n)
                         THEN Clamp(left, 0, FullBudget) ELSE s.budget[ch]
    BY <1>4, <1>6, <2>1, <2>2
  <2>4. PICK had, cost : /\ had = s.budget[ChapterOf(n)]
                         /\ cost = Cost(s)
    OBVIOUS
  <2>5. /\ cost \in Nat /\ cost <= 2200 /\ left = had - cost
    BY <1>6, <2>1, <2>4, WalkedCost
  <2>6. PICK full : full = FullBudget
    OBVIOUS
  <2>7. full \in Nat /\ full > 6600
    BY <2>6, FullIsNat
  <2>8. ChapterOf(n) \in Chapter /\ ChapterOf(m) \in Chapter
    BY <1>7, FlowStays DEF ChapterOf, Chapter, Node
  <2>9. had \in 0..full
    BY <2>2, <2>4, <2>6, <2>8
  <2>10. PICK kept : kept = Clamp(left, 0, full)
    OBVIOUS
  <2>11. left >= 0 => kept = left
    <3>1. left \in Int /\ left <= full
      BY SMT, <2>5, <2>7, <2>9
    <3> QED BY SMT, <2>10, <3>1, <2>7 DEF Clamp
  <2>12. \A ch \in Chapter :
           ch > ChapterOf(m) => t.budget[ch] = full
    <3>1. \A ch \in Chapter : ch > ChapterOf(m) => ch > ChapterOf(n)
      BY <1>7 DEF Node, nodeFlow, ChapterOf, Chapter
    <3>2. \A ch \in Chapter : ch > ChapterOf(n) => s.budget[ch] = full
      BY <1>6, <2>6 DEF Walked, Paid
    <3>3. \A ch \in Chapter : ch > ChapterOf(n) => ch # ChapterOf(n)
      BY <2>8 DEF Chapter
    <3> QED BY <2>3, <2>6, <3>1, <3>2, <3>3
  <2>13. m \in {11, 21, 31} => t.budget[ChapterOf(m)] = full
    <3>1. m \in {11, 21, 31} => ChapterOf(m) > ChapterOf(n)
      BY <1>7 DEF Node, nodeFlow, ChapterOf
    <3>2. ChapterOf(m) > ChapterOf(n) =>
            /\ s.budget[ChapterOf(m)] = full
            /\ ChapterOf(m) # ChapterOf(n)
      BY <1>6, <2>6, <2>8 DEF Walked, Paid, Chapter
    <3> QED BY <2>3, <2>8, <3>1, <3>2
  <2>14. m \in {12, 22, 32} => t.budget[ChapterOf(m)] >= full - 2200
    <3>1. SUFFICES ASSUME m \in {12, 22, 32} PROVE t.budget[ChapterOf(m)] >= full - 2200
      OBVIOUS
    <3>2. n \in {11, 21, 31} /\ ChapterOf(m) = ChapterOf(n)
      BY <1>7, <3>1 DEF Node, nodeFlow, ChapterOf
    <3>3. had = full
      BY <1>6, <2>4, <2>6, <3>2 DEF Walked, Paid
    <3>4. t.budget[ChapterOf(m)] = kept
      BY <2>3, <2>6, <2>8, <2>10, <3>2
    <3> QED BY SMT, <2>5, <2>7, <2>11, <3>3, <3>4
  <2>15. m \in {13, 23} => t.budget[ChapterOf(m)] >= full - 4400
    <3>1. SUFFICES ASSUME m \in {13, 23} PROVE t.budget[ChapterOf(m)] >= full - 4400
      OBVIOUS
    <3>2. n \in {12, 22} /\ ChapterOf(m) = ChapterOf(n)
      BY <1>7, <3>1 DEF Node, nodeFlow, ChapterOf
    <3>3. had >= full - 2200
      BY <1>6, <2>4, <2>6, <3>2 DEF Walked, Paid
    <3>4. t.budget[ChapterOf(m)] = kept
      BY <2>3, <2>6, <2>8, <2>10, <3>2
    <3>5. had \in Int
      BY SMT, <2>7, <2>9
    <3> QED BY SMT, <2>5, <2>7, <2>11, <3>3, <3>4, <3>5
  <2> QED BY <1>6, <2>6, <2>12, <2>13, <2>14, <2>15 DEF Paid
<1>10. Earned(t)
  <2>1. PICK start : start = StartDignity(s.mode)
    OBVIOUS
  <2>2. start \in {72, 50, 20}
    BY <1>3, <2>1 DEF StartDignity, Session, Mode
  <2>3. PICK d, e : d = s.dignity /\ e = t.dignity
    OBVIOUS
  <2>4. d \in Int
    BY <1>3, <2>3 DEF Session
  <2>5. gained \in IF n = 12 THEN {4, -3} ELSE IF n = 22 THEN {3, 4} ELSE {0}
    BY <1>2, <1>5, <1>6 DEF Fits, DignityGained, Walked, Earned
  <2>6. /\ n <= 12 => d = start
        /\ 12 < n /\ n <= 22 => start - 3 <= d /\ d <= start + 4
        /\ 22 < n => start <= d /\ d <= start + 8
    BY <1>6, <2>1, <2>3 DEF Walked, Earned
  <2>7. d + gained >= 0 /\ d + gained <= 100
    BY <1>7, <2>2, <2>4, <2>5, <2>6 DEF Node
  <2>8. e = d + gained
    BY <1>4, <2>3, <2>4, <2>5, <2>7 DEF Clamp
  <2>9. /\ m <= 12 => e = start
        /\ 12 < m /\ m <= 22 => start - 3 <= e /\ e <= start + 4
        /\ 22 < m => start <= e /\ e <= start + 8
    BY <1>7, <2>2, <2>4, <2>5, <2>6, <2>8 DEF Node, nodeFlow
  <2>10. m <= 22 => t.footprints = {}
    BY <1>4, <1>6, <1>7 DEF Walked, Earned, Node, nodeFlow
  <2> QED BY <1>4, <1>6, <2>1, <2>3, <2>9, <2>10 DEF Earned
<1>11. t.decision # None <=> t.node = 33
  BY <1>4, <1>5, <1>6, <1>7, StoryNoneAssumption
  DEF Walked, Fits, Node, nodeFlow, EndDecision,
      Decision
<1> QED BY <1>1, <1>4, <1>8, <1>9, <1>10, <1>11 DEF Walked

-----------------------------------------------------------------------------
(* What is recorded.                                                       *)

Event == Turn \cup Decided \cup Finalized

LEMMA EventsFit ==
  ASSUME NEW s, Walked(s), NEW i \in DOMAIN story(s.node)
  PROVE  LET c == story(s.node)[i] IN
         \E turn, decided :
           /\ turn \in Turn
           /\ turn.node = s.node /\ turn.relation = c.relation
           /\ turn.polluted = EventPolluted(computePollutionDelta(Blocked(s), c,
                                                     DignityGained(s, i, c)))
           /\ c.code = None => EventsOf(s, i) = <<turn>>
           /\ c.code # None =>
                /\ decided \in Decided /\ decided.code = c.code
                /\ decided.relation = Committed(s, i).relation
                /\ EventsOf(s, i) = <<turn, decided>>
<1>1. PICK c : c = story(s.node)[i]
  OBVIOUS
<1>2. PICK polluted, relation :
        /\ polluted = EventPolluted(computePollutionDelta(Blocked(s), c,
                                            DignityGained(s, i, c)))
        /\ relation = Committed(s, i).relation
  OBVIOUS
<1>3. polluted \in BOOLEAN
  BY <1>2 DEF EventPolluted
<1>4. relation \in -3..3
  BY <1>2, TurnWalks DEF Walked, Session
<1>5. s.node \in Node
  BY DEF Walked, Session
<1>6. i \in 1..3 /\ Fits(s.node, c)
  BY <1>1, <1>5, StoryFits
<1>7. PICK turn, decided :
        /\ turn = [kind |-> "turn", node |-> s.node, choice |-> i,
                   relation |-> c.relation, polluted |-> polluted]
        /\ decided = [kind |-> "decision", node |-> s.node, code |-> c.code,
                      relation |-> relation]
  OBVIOUS
<1>8. turn \in Turn
  BY <1>3, <1>5, <1>6, <1>7 DEF Turn, Fits
<1>9. c.code # None => c.code \in Decision
  BY <1>6 DEF Fits, Decision, EndDecision
<1>10. c.code # None => decided \in Decided
  BY <1>4, <1>5, <1>7, <1>9 DEF Decided
<1>11. EventsOf(s, i) = IF c.code = None THEN <<turn>> ELSE <<turn, decided>>
  BY <1>1, <1>2, <1>7 DEF EventsOf
<1>12. turn.node = s.node /\ turn.relation = c.relation /\ turn.polluted = polluted
  BY <1>7
<1>13. decided.code = c.code /\ decided.relation = relation
  BY <1>7
<1> QED BY <1>1, <1>2, <1>8, <1>10, <1>11, <1>12, <1>13

LEMMA EventsRecorded ==
  ASSUME NEW s, Walked(s), NEW i \in DOMAIN story(s.node)
  PROVE  EventsOf(s, i) \in Seq(Event)
<1>1. PICK turn, decided :
        /\ turn \in Turn
        /\ \/ EventsOf(s, i) = <<turn>>
           \/ decided \in Decided /\ EventsOf(s, i) = <<turn, decided>>
  BY EventsFit
<1>2. CASE EventsOf(s, i) = <<turn>>
  <2>1. turn \in Event
    BY <1>1 DEF Event
  <2> QED BY <1>2, <2>1
<1>3. CASE decided \in Decided /\ EventsOf(s, i) = <<turn, decided>>
  <2>1. turn \in Event /\ decided \in Event
    BY <1>1, <1>3 DEF Event
  <2> QED BY <1>3, <2>1
<1> QED BY <1>1, <1>2, <1>3

-----------------------------------------------------------------------------
(* The end: only a verified player passes the dignity gate.                *)

LEMMA GateAtTheEnd ==
  ASSUME NEW s, Walked(s), s.decision # None
  PROVE  s.dignity >= 70 <=> s.mode = "verified"
<1>1. s.node = 33
  BY DEF Walked
<1>2. s.mode \in Mode /\ s.dignity \in 0..100
  BY DEF Walked, Session
<1>3. PICK d, start : d = s.dignity /\ start = StartDignity(s.mode)
  OBVIOUS
<1>4. start <= d /\ d <= start + 8
  BY <1>1, <1>3 DEF Walked, Earned
<1>5. start = IF s.mode = "verified" THEN 72 ELSE IF s.mode = "guest" THEN 50 ELSE 20
  BY <1>2, <1>3 DEF StartDignity, Mode
<1>6. s.mode = "verified" => d >= 70
  BY <1>2, <1>3, <1>4, <1>5
<1>7. s.mode # "verified" => ~(d >= 70)
  BY <1>2, <1>3, <1>4, <1>5
<1> QED BY <1>3, <1>6, <1>7

LEMMA EndWalks ==
  ASSUME NEW s, Walked(s), s.decision # None
  PROVE  LET t == Ended(s) IN
         /\ Walked(t)
         /\ t.dignity = s.dignity /\ t.relation = s.relation
         /\ t.pollution = s.pollution /\ t.decision = s.decision
         /\ t.mode = s.mode /\ t.reveal = s.reveal /\ t.completed
         /\ t.ending = EndingOf(s) /\ t.unlocked = TruthUnlocked(s)
<1>1. PICK ending, unlocked :
        ending = EndingOf(s) /\ unlocked = TruthUnlocked(s)
  OBVIOUS
<1>2. PICK t : t = Ended(s)
  OBVIOUS
<1>3. t = [s EXCEPT !.ending = ending, !.unlocked = unlocked, !.completed = TRUE]
  BY <1>1, <1>2 DEF Ended
<1>4. s = [mode |-> s.mode, dignity |-> s.dignity, relation |-> s.relation,
           pollution |-> s.pollution, reveal |-> s.reveal, unlocked |-> s.unlocked,
           node |-> s.node, completed |-> s.completed, decision |-> s.decision,
           ending |-> s.ending, budget |-> s.budget, attempts |-> s.attempts,
           footprints |-> s.footprints]
  BY DEF Walked, Session
<1>5. PICK done : done = TRUE
  OBVIOUS
<1>6. t = [mode |-> s.mode, dignity |-> s.dignity, relation |-> s.relation,
           pollution |-> s.pollution, reveal |-> s.reveal, unlocked |-> unlocked,
           node |-> s.node, completed |-> done, decision |-> s.decision,
           ending |-> ending, budget |-> s.budget, attempts |-> s.attempts,
           footprints |-> s.footprints]
  BY <1>3, <1>4, <1>5
<1>7. /\ t.mode = s.mode /\ t.dignity = s.dignity /\ t.relation = s.relation
      /\ t.pollution = s.pollution /\ t.node = s.node /\ t.decision = s.decision
      /\ t.budget = s.budget /\ t.attempts = s.attempts /\ t.footprints = s.footprints
      /\ t.ending = ending /\ t.reveal = s.reveal /\ t.unlocked = unlocked
      /\ t.completed = done
  BY <1>6
<1>8. t \in Session
  <2>1. /\ s.mode \in Mode /\ s.dignity \in 0..100 /\ s.relation \in -3..3
        /\ s.pollution \in 0..3 /\ s.reveal \in BOOLEAN /\ s.node \in Node
        /\ s.decision \in EndDecision \cup {None}
        /\ s.budget \in [Chapter -> 0..FullBudget]
        /\ s.attempts \in [Node -> Nat] /\ s.footprints \in SUBSET (1..3)
    BY DEF Walked, Session
  <2>2. ending \in Ending /\ unlocked \in BOOLEAN /\ done \in BOOLEAN
    BY <1>1, <1>5 DEF EndingOf, Ending, TruthUnlocked
  <2> QED BY <1>6, <2>1, <2>2 DEF Session
<1>9. PlayedOnce(t) /\ Paid(t) /\ Earned(t)
  BY <1>7 DEF Walked, PlayedOnce, Paid, Earned
<1>10. t.decision # None <=> t.node = 33
  BY <1>7 DEF Walked
<1>11. t.ending = "silk_burial" => t.mode = "verified"
  BY <1>1, <1>7, GateAtTheEnd DEF EndingOf, Stable
<1> QED BY <1>1, <1>2, <1>5, <1>7, <1>8, <1>9, <1>10, <1>11 DEF Walked

(* A turn after the final decision leaves everything but pollution, which  *)
(* it lowers, so that the ending it would have is no worse.                *)
LEMMA LateTurnRestores ==
  ASSUME NEW s, Walked(s), s.decision # None,
         NEW i \in DOMAIN story(s.node)
  PROVE  LET t == Committed(s, i) IN
         /\ t.decision = s.decision /\ t.dignity = s.dignity /\ t.relation = s.relation
         /\ t.pollution <= s.pollution
<1>1. s.node = 33
  BY DEF Walked
<1>2. PICK t, c : t = Committed(s, i) /\ c = story(s.node)[i]
  OBVIOUS
<1>3. PICK gained : gained = DignityGained(s, i, c)
  OBVIOUS
<1>4. PICK delta : delta = computePollutionDelta(Blocked(s), c, gained)
  OBVIOUS
<1>5. s \in Session /\ LeftAfter(s) \in Int /\ ~Blocked(s)
  BY WalkedCost DEF Walked
<1>6. /\ t.dignity = Clamp(s.dignity + gained, 0, 100)
      /\ t.relation = Clamp(s.relation + c.relation, -3, 3)
      /\ t.pollution = Clamp(s.pollution + delta, 0, 3)
      /\ t.decision = IF c.code \in EndDecision THEN c.code ELSE s.decision
  <2>1. t.dignity = Clamp(s.dignity + gained, 0, 100)
    BY <1>2, <1>3, <1>5, TurnFields
  <2>2. t.relation = Clamp(s.relation + c.relation, -3, 3)
    BY <1>2, <1>5, TurnFields
  <2>3. t.pollution = Clamp(s.pollution + delta, 0, 3)
    BY <1>2, <1>3, <1>4, <1>5, TurnFields
  <2>4. t.decision = IF c.code \in EndDecision THEN c.code ELSE s.decision
    BY <1>2, <1>5, TurnFields
  <2> QED BY <2>1, <2>2, <2>3, <2>4
<1>7. /\ ~c.risk /\ ~c.reveal /\ Restores(c, 0) /\ ~Strong(c)
  BY <1>1, <1>2, SealingRestores
<1>8. c.relation = 0 /\ c.code = None /\ c.dignity = 0
  <2>1. story(33) = <<Sealing>>
    BY DEF story
  <2>2. c = Sealing
    BY <1>1, <1>2, <2>1
  <2> QED BY <2>2 DEF Sealing, Safe
<1>9. gained = 0
  BY <1>1, <1>3, <1>8 DEF DignityGained
<1>10. delta = -1
  BY <1>4, <1>5, <1>7, <1>9 DEF computePollutionDelta
<1>11. s.dignity \in 0..100 /\ s.relation \in -3..3 /\ s.pollution \in 0..3
  BY <1>5 DEF Session
<1>12. t.dignity = s.dignity /\ t.relation = s.relation
  BY <1>6, <1>8, <1>9, <1>11 DEF Clamp
<1>13. t.pollution <= s.pollution
  BY <1>6, <1>10, <1>11 DEF Clamp
<1>14. t.decision = s.decision
  BY <1>6, <1>8, StoryNoneAssumption DEF Decision, EndDecision
<1> QED BY <1>2, <1>12, <1>13, <1>14

LEMMA WorthKeeps ==
  ASSUME NEW s \in Session, NEW t \in Session,
         t.decision = s.decision, t.dignity = s.dignity, t.relation = s.relation,
         t.pollution <= s.pollution
  PROVE  Worth(EndingOf(t)) >= Worth(EndingOf(s))
<1>1. s.pollution \in 0..3 /\ t.pollution \in 0..3
  BY DEF Session
<1>2. Polluted(t) => Polluted(s)
  BY <1>1 DEF Polluted
<1>3. Stable(s) => Stable(t)
  BY <1>2 DEF Stable
<1>4. \A e \in Ending : Worth(e) \in 0..2
  BY DEF Ending, Worth
<1>5. CASE Stable(t)
  <2>1. Worth(EndingOf(t)) = 2
    BY <1>5 DEF EndingOf, Worth
  <2>2. EndingOf(s) \in Ending
    BY DEF EndingOf, Ending
  <2> QED BY <1>4, <2>1, <2>2
<1>6. CASE ~Stable(t) /\ (Polluted(s) \/ s.relation <= 0)
  <2>1. EndingOf(s) = "framed"
    BY <1>3, <1>6 DEF EndingOf
  <2>2. EndingOf(t) \in Ending
    BY DEF EndingOf, Ending
  <2>3. Worth("framed") = 0
    BY DEF Worth
  <2> QED BY <1>4, <2>1, <2>2, <2>3
<1>7. CASE ~Stable(t) /\ ~(Polluted(s) \/ s.relation <= 0)
  <2>1. EndingOf(s) = "broken_oath" /\ EndingOf(t) = "broken_oath"
    BY <1>2, <1>3, <1>7 DEF EndingOf
  <2>2. Worth("broken_oath") = 1
    BY DEF Worth
  <2> QED BY <2>1, <2>2
<1> QED BY <1>5, <1>6, <1>7

-----------------------------------------------------------------------------
(* The inductive invariant of a session.                                   *)

StoryInv == Walked(session) /\ events \in Seq(Event)

LEMMA StoryInvStarts ==
  ASSUME StoryInit
  PROVE  StoryInv
BY StartWalked DEF StoryInit, StoryInv

LEMMA CommitTurnKeeps ==
  ASSUME StoryInv, NEW i \in 1..3, CommitTurn(i)
  PROVE  StoryInv'
<1>1. Walked(session) /\ i \in DOMAIN story(session.node)
  BY DEF StoryInv, CommitTurn
<1>2. Walked(Committed(session, i)) /\ EventsOf(session, i) \in Seq(Event)
  BY <1>1, TurnWalks, EventsRecorded
<1>3. session' = Committed(session, i) /\ events' = events \o EventsOf(session, i)
  BY DEF CommitTurn
<1>4. events' \in Seq(Event)
  BY <1>2, <1>3 DEF StoryInv
<1> QED BY <1>2, <1>3, <1>4 DEF StoryInv

LEMMA FinalEvent ==
  ASSUME Walked(session), FinalizeSession
  PROVE  \E final \in Finalized :
           /\ final.ending = EndingOf(session) /\ final.dignity = session.dignity
           /\ final.relation = session.relation /\ final.unlocked = TruthUnlocked(session)
           /\ events' = Append(events, final)
<1>1. PICK ending, unlocked, framed :
        /\ ending = EndingOf(session) /\ unlocked = TruthUnlocked(session)
        /\ framed = (EndingOf(session) = "framed")
  OBVIOUS
<1>2. /\ ending \in Ending /\ unlocked \in BOOLEAN /\ framed \in BOOLEAN
  BY <1>1 DEF EndingOf, Ending, TruthUnlocked
<1>3. PICK final : final =
        [kind |-> "finalize", ending |-> ending, dignity |-> session.dignity,
         relation |-> session.relation, unlocked |-> unlocked, framed |-> framed]
  OBVIOUS
<1>4. session.dignity \in 0..100 /\ session.relation \in -3..3
  BY DEF Walked, Session
<1>5. final \in Finalized
  BY <1>2, <1>3, <1>4 DEF Finalized
<1>6. /\ final.ending = ending /\ final.dignity = session.dignity
      /\ final.relation = session.relation /\ final.unlocked = unlocked
  BY <1>3
<1>7. events' = Append(events, final)
  BY <1>1, <1>3 DEF FinalizeSession, FinalizeAgain
<1> QED BY <1>1, <1>5, <1>6, <1>7

LEMMA FinalizeKeeps ==
  ASSUME StoryInv, FinalizeSession
  PROVE  StoryInv'
<1>1. Walked(session) /\ session.decision # None /\ session' = Ended(session)
  BY DEF StoryInv, FinalizeSession, FinalizeAgain
<1>2. Walked(Ended(session))
  BY <1>1, EndWalks
<1>3. PICK final \in Finalized : events' = Append(events, final)
  BY <1>1, FinalEvent
<1>4. final \in Event
  BY DEF Event
<1>5. events' \in Seq(Event)
  BY <1>3, <1>4 DEF StoryInv
<1> QED BY <1>1, <1>2, <1>5 DEF StoryInv

(* Every reachable session is one that walked the story as Walked says.    *)
THEOREM StoryIsWalked == StorySpec => []StoryInv
<1>1. StoryInit => StoryInv
  BY StoryInvStarts
<1>2. StoryInv /\ [StoryNext]_<<session, events>> => StoryInv'
  <2>1. SUFFICES ASSUME StoryInv, [StoryNext]_<<session, events>> PROVE StoryInv'
    OBVIOUS
  <2>2. CASE StoryNext
    BY <2>1, <2>2, CommitTurnKeeps, FinalizeKeeps DEF StoryNext
  <2>3. CASE UNCHANGED <<session, events>>
    BY <2>1, <2>3 DEF StoryInv
  <2> QED BY <2>1, <2>2, <2>3
<1> QED BY <1>1, <1>2, PTL DEF StorySpec, storyVars

(* A session has its types, every node behind the player was played once   *)
(* and no later one, and the final decision is taken exactly on arrival at *)
(* the last node (commitTurn, finalizeSession).                            *)
THEOREM StoryTypesHold == StorySpec => []StoryTypeOK
<1>1. StoryInv => StoryTypeOK
  BY DEF StoryInv, Walked, PlayedOnce, Event, StoryTypeOK
<1> QED BY <1>1, StoryIsWalked, PTL

(* No interrogation is ever blocked for want of budget, so that pressure   *)
(* alone never pollutes a session (quoteNode, computePollutionDelta).      *)
THEOREM StoryIsNeverBlocked == StorySpec => []NeverBlocked
<1>1. StoryInv => NeverBlocked
  BY WalkedCost DEF StoryInv, NeverBlocked
<1> QED BY <1>1, StoryIsWalked, PTL

(* Whether the dignity gate of the true ending opens is settled by the     *)
(* mode the session starts in (createSession, evaluateEnding).             *)
THEOREM DignityGateAlwaysFollowsMode == StorySpec => []DignityGateFollowsMode
<1>1. StoryInv => DignityGateFollowsMode
  BY GateAtTheEnd DEF StoryInv, Walked, DignityGateFollowsMode
<1> QED BY <1>1, StoryIsWalked, PTL

(* After the final decision no turn makes the ending worse, and nothing    *)
(* changes a session that is finalised (commitTurn, finalizeSession).      *)
THEOREM EndingAlwaysImproves == StorySpec => EndingOnlyImproves
<1>1. ASSUME StoryInv, StoryNext
      PROVE  /\ session.decision # None =>
                  /\ session'.decision = session.decision
                  /\ Worth(EndingOf(session')) >= Worth(EndingOf(session))
             /\ ~session.completed
  <2>1. ~session.completed
    BY <1>1 DEF StoryNext, CommitTurn, FinalizeSession
  <2>2. SUFFICES ASSUME session.decision # None
                 PROVE  /\ session'.decision = session.decision
                        /\ Worth(EndingOf(session'))
                             >= Worth(EndingOf(session))
    BY <2>1
  <2>3. Walked(session) /\ session \in Session
    BY <1>1 DEF StoryInv, Walked
  <2>4. StoryInv'
    BY <1>1, CommitTurnKeeps, FinalizeKeeps DEF StoryNext
  <2>5. session' \in Session
    BY <2>4 DEF StoryInv, Walked
  <2>6. /\ session'.decision = session.decision /\ session'.dignity = session.dignity
        /\ session'.relation = session.relation /\ session'.pollution <= session.pollution
    <3>1. ASSUME NEW i \in 1..3, CommitTurn(i)
          PROVE  /\ session'.decision = session.decision /\ session'.dignity = session.dignity
                 /\ session'.relation = session.relation
                 /\ session'.pollution <= session.pollution
      BY <2>2, <2>3, <3>1, LateTurnRestores DEF CommitTurn
    <3>2. CASE FinalizeSession
      <4>1. session' = Ended(session)
        BY <3>2 DEF FinalizeSession, FinalizeAgain
      <4>2. session.pollution \in 0..3
        BY <2>3 DEF Session
      <4> QED BY <2>2, <2>3, <4>1, <4>2, EndWalks
    <3> QED BY <1>1, <3>1, <3>2 DEF StoryNext
  <2>7. Worth(EndingOf(session')) >= Worth(EndingOf(session))
    BY <2>3, <2>5, <2>6, WorthKeeps
  <2> QED BY <2>6, <2>7
<1>2. StoryInv /\ [StoryNext]_<<session, events>> =>
        [/\ session.decision # None =>
              /\ session'.decision = session.decision
              /\ Worth(EndingOf(session')) >= Worth(EndingOf(session))
         /\ session.completed => UNCHANGED <<session, events>>]_<<session, events>>
  BY <1>1
<1> QED BY <1>2, StoryIsWalked, PTL DEF StorySpec, EndingOnlyImproves, storyVars

-----------------------------------------------------------------------------
(* Replay. What is shown after each event is a function on the numbers of  *)
(* events; every function with the equation of Showing tells the truth.    *)

IsShowing(f, dignity, history) ==
  f = [n \in 0..Len(history) |->
         IF n = 0 THEN ReplayStart(dignity) ELSE Step(f[n - 1], history[n])]

LEMMA ShowingIsOne ==
  ASSUME NEW dignity, NEW history, \E f : IsShowing(f, dignity, history)
  PROVE  IsShowing(Showing(dignity, history), dignity, history)
<1>1. Showing(dignity, history) = CHOOSE f : IsShowing(f, dignity, history)
  BY DEF Showing, IsShowing
<1> QED BY <1>1

LEMMA ShowingExtends ==
  ASSUME NEW S, NEW h \in Seq(S), NEW e \in S, NEW dignity, NEW f, IsShowing(f, dignity, h)
  PROVE  \E g : IsShowing(g, dignity, Append(h, e))
<1>1. PICK k \in Nat : k = Len(h)
  OBVIOUS
<1>9. PICK longer : longer = Append(h, e)
  OBVIOUS
<1>2. PICK last : last = Step(f[k], e)
  OBVIOUS
<1>3. PICK g : g = [n \in 0..(k + 1) |-> IF n <= k THEN f[n] ELSE last]
  OBVIOUS
<1>4. Len(longer) = k + 1 /\ longer[k + 1] = e
  BY <1>1, <1>9
<1>5. \A n \in 1..k : longer[n] = h[n]
  BY <1>1, <1>9
<1>6. \A n \in 0..k : f[n] = IF n = 0 THEN ReplayStart(dignity) ELSE Step(f[n - 1], h[n])
  BY <1>1 DEF IsShowing
<1>7. \A n \in 0..(k + 1) :
        g[n] = IF n = 0 THEN ReplayStart(dignity) ELSE Step(g[n - 1], longer[n])
  <2>1. ASSUME NEW n \in 0..(k + 1)
        PROVE  g[n] = IF n = 0 THEN ReplayStart(dignity) ELSE Step(g[n - 1], longer[n])
    <3>1. CASE n = 0
      BY <1>3, <1>6, <3>1
    <3>2. CASE n \in 1..k
      <4>1. g[n] = f[n] /\ g[n - 1] = f[n - 1]
        BY <1>3, <3>2
      <4>2. n # 0 /\ n \in 0..k /\ longer[n] = h[n]
        BY <1>5, <3>2
      <4>3. f[n] = Step(f[n - 1], h[n])
        BY <1>6, <4>2
      <4> QED BY <4>1, <4>2, <4>3
    <3>3. CASE n = k + 1
      <4>1. g[n] = last /\ g[n - 1] = f[k]
        BY <1>3, <3>3
      <4>2. n # 0 /\ longer[n] = e
        BY <1>4, <3>3
      <4> QED BY <1>2, <4>1, <4>2
    <3> QED BY <3>1, <3>2, <3>3
  <2> QED BY <2>1
<1>8. IsShowing(g, dignity, longer)
  BY <1>3, <1>4, <1>7 DEF IsShowing
<1> QED BY <1>9, <1>8

LEMMA ShowingBefore ==
  ASSUME NEW S, NEW h \in Seq(S), NEW e \in S, NEW dignity, NEW g,
         IsShowing(g, dignity, Append(h, e))
  PROVE  \E f : /\ IsShowing(f, dignity, h)
                /\ g[Len(Append(h, e))] = Step(f[Len(h)], e)
<1>1. PICK k \in Nat : k = Len(h)
  OBVIOUS
<1>9. PICK longer : longer = Append(h, e)
  OBVIOUS
<1>2. PICK f : f = [n \in 0..k |-> g[n]]
  OBVIOUS
<1>3. Len(longer) = k + 1 /\ longer[k + 1] = e
  BY <1>1, <1>9
<1>4. \A n \in 1..k : longer[n] = h[n]
  BY <1>1, <1>9
<1>5. \A n \in 0..(k + 1) :
        g[n] = IF n = 0 THEN ReplayStart(dignity) ELSE Step(g[n - 1], longer[n])
  BY <1>3, <1>9 DEF IsShowing
<1>6. \A n \in 0..k : f[n] = IF n = 0 THEN ReplayStart(dignity) ELSE Step(f[n - 1], h[n])
  <2>1. ASSUME NEW n \in 0..k
        PROVE  f[n] = IF n = 0 THEN ReplayStart(dignity) ELSE Step(f[n - 1], h[n])
    <3>1. CASE n = 0
      BY <1>2, <1>5, <3>1
    <3>2. CASE n \in 1..k
      <4>1. f[n] = g[n] /\ f[n - 1] = g[n - 1]
        BY <1>2, <3>2
      <4>2. n # 0 /\ n \in 0..(k + 1) /\ longer[n] = h[n]
        BY <1>4, <3>2
      <4>3. g[n] = Step(g[n - 1], longer[n])
        BY <1>5, <4>2
      <4> QED BY <4>1, <4>2, <4>3
    <3> QED BY <3>1, <3>2
  <2> QED BY <2>1
<1>7. IsShowing(f, dignity, h)
  BY <1>1, <1>2, <1>6 DEF IsShowing
<1>8. g[k + 1] = Step(f[k], e)
  BY <1>2, <1>3, <1>5
<1> QED BY <1>1, <1>9, <1>3, <1>7, <1>8

Shown == [dignity : Int, relation : Int, polluted : BOOLEAN, reveal : BOOLEAN,
          unlocked : BOOLEAN, ending : Ending \cup {None}, finalized : BOOLEAN,
          decisions : Seq(Decision)]

(* What a replay tells of a session: any pollution, the last decision, and *)
(* until the session is final no ending and the dignity it started with.   *)
Told(shown, s) ==
  /\ shown \in Shown
  /\ s.pollution > 0 => shown.polluted
  /\ s.reveal => shown.reveal
  /\ s.decision # None =>
       /\ shown.relation = s.relation /\ shown.decisions # <<>>
       /\ shown.decisions[Len(shown.decisions)] = s.decision
  /\ ~s.completed => shown.ending = None /\ shown.dignity = StartDignity(s.mode)
  /\ s.completed =>
       /\ s.decision # None /\ s.ending = EndingOf(s)
       /\ shown.ending = s.ending /\ shown.dignity = s.dignity
       /\ s.unlocked => shown.unlocked

LEMMA ShownRecord ==
  ASSUME NEW shown \in Shown
  PROVE  shown = [dignity |-> shown.dignity, relation |-> shown.relation,
                  polluted |-> shown.polluted, reveal |-> shown.reveal,
                  unlocked |-> shown.unlocked, ending |-> shown.ending,
                  finalized |-> shown.finalized, decisions |-> shown.decisions]
BY DEF Shown

(* A step adds to what is seen only that the truth is unlocked.            *)
LEMMA StepSees ==
  ASSUME NEW shown, NEW e, Seen(shown, e) \in Shown
  PROVE  LET t == Step(shown, e)
             seen == Seen(shown, e) IN
         /\ t \in Shown
         /\ t.dignity = seen.dignity /\ t.relation = seen.relation
         /\ t.polluted = seen.polluted /\ t.reveal = seen.reveal
         /\ t.ending = seen.ending /\ t.decisions = seen.decisions
         /\ seen.unlocked => t.unlocked
<1>1. PICK seen : seen = Seen(shown, e)
  OBVIOUS
<1>2. PICK unlocked : unlocked = (seen.unlocked \/ (/\ seen.dignity >= 70 /\ seen.relation >= 0
                                                    /\ ~seen.polluted /\ seen.reveal))
  OBVIOUS
<1>3. PICK t : t = Step(shown, e)
  OBVIOUS
<1>4. t = [seen EXCEPT !.unlocked = unlocked]
  BY <1>1, <1>2, <1>3 DEF Step
<1>5. t = [dignity |-> seen.dignity, relation |-> seen.relation,
           polluted |-> seen.polluted, reveal |-> seen.reveal,
           unlocked |-> unlocked, ending |-> seen.ending,
           finalized |-> seen.finalized, decisions |-> seen.decisions]
  BY <1>1, <1>4, ShownRecord
<1>6. /\ t.dignity = seen.dignity /\ t.relation = seen.relation
      /\ t.polluted = seen.polluted /\ t.reveal = seen.reveal /\ t.unlocked = unlocked
      /\ t.ending = seen.ending /\ t.decisions = seen.decisions
  BY <1>5
<1>7. unlocked \in BOOLEAN
  BY <1>2
<1>8. t \in Shown
  BY <1>1, <1>5, <1>7 DEF Shown
<1>9. seen.unlocked => unlocked
  BY <1>2
<1> QED BY <1>1, <1>3, <1>6, <1>8, <1>9

LEMMA TurnSeen ==
  ASSUME NEW shown \in Shown, NEW e \in Turn
  PROVE  LET t == Step(shown, e) IN
         /\ t \in Shown
         /\ t.relation = shown.relation + e.relation
         /\ t.polluted = (shown.polluted \/ e.polluted)
         /\ t.reveal = (shown.reveal \/ e.node = 23)
         /\ t.dignity = shown.dignity /\ t.ending = shown.ending
         /\ t.decisions = shown.decisions
<1>1. e.kind = "turn" /\ e.relation \in Int /\ e.polluted \in BOOLEAN
  BY DEF Turn
<1>2. PICK relation, polluted, reveal :
        /\ relation = shown.relation + e.relation
        /\ polluted = (shown.polluted \/ e.polluted)
        /\ reveal = (shown.reveal \/ e.node = 23)
  OBVIOUS
<1>3. PICK seen : seen = Seen(shown, e)
  OBVIOUS
<1>4. seen = [shown EXCEPT !.relation = relation, !.polluted = polluted, !.reveal = reveal]
  BY <1>1, <1>2, <1>3, ShownRecord DEF Seen
<1>5. seen = [dignity |-> shown.dignity, relation |-> relation, polluted |-> polluted,
              reveal |-> reveal, unlocked |-> shown.unlocked, ending |-> shown.ending,
              finalized |-> shown.finalized, decisions |-> shown.decisions]
  <2>1. shown = [dignity |-> shown.dignity, relation |-> shown.relation,
                 polluted |-> shown.polluted, reveal |-> shown.reveal,
                 unlocked |-> shown.unlocked, ending |-> shown.ending,
                 finalized |-> shown.finalized, decisions |-> shown.decisions]
    BY ShownRecord
  <2> QED BY <1>4, <2>1
<1>6. /\ seen.relation = relation /\ seen.polluted = polluted /\ seen.reveal = reveal
      /\ seen.dignity = shown.dignity /\ seen.ending = shown.ending
      /\ seen.decisions = shown.decisions
  BY <1>5
<1>7. relation \in Int /\ polluted \in BOOLEAN /\ reveal \in BOOLEAN
  BY <1>1, <1>2 DEF Shown
<1>8. seen \in Shown
  BY <1>5, <1>7 DEF Shown
<1> QED BY <1>2, <1>3, <1>6, <1>8, StepSees

LEMMA DecisionSeen ==
  ASSUME NEW shown \in Shown, NEW e \in Decided
  PROVE  LET t == Step(shown, e) IN
         /\ t \in Shown
         /\ t.relation = e.relation /\ t.polluted = shown.polluted
         /\ shown.reveal => t.reveal
         /\ t.dignity = shown.dignity /\ t.ending = shown.ending
         /\ t.decisions # <<>> /\ t.decisions[Len(t.decisions)] = e.code
<1>1. e.kind = "decision" /\ e.relation \in Int /\ e.code \in Decision
  BY DEF Decided
<1>2. PICK relation, decisions, reveal :
        /\ relation = e.relation
        /\ decisions = Append(shown.decisions, e.code)
        /\ reveal = (shown.reveal \/ e.node = 23)
  OBVIOUS
<1>3. PICK seen : seen = Seen(shown, e)
  OBVIOUS
<1>4. seen = [shown EXCEPT !.decisions = decisions, !.relation = relation, !.reveal = reveal]
  BY <1>1, <1>2, <1>3, ShownRecord DEF Seen
<1>5. seen = [dignity |-> shown.dignity, relation |-> relation, polluted |-> shown.polluted,
              reveal |-> reveal, unlocked |-> shown.unlocked, ending |-> shown.ending,
              finalized |-> shown.finalized, decisions |-> decisions]
  <2>1. shown = [dignity |-> shown.dignity, relation |-> shown.relation,
                 polluted |-> shown.polluted, reveal |-> shown.reveal,
                 unlocked |-> shown.unlocked, ending |-> shown.ending,
                 finalized |-> shown.finalized, decisions |-> shown.decisions]
    BY ShownRecord
  <2> QED BY <1>4, <2>1
<1>6. /\ seen.relation = relation /\ seen.polluted = shown.polluted /\ seen.reveal = reveal
      /\ seen.dignity = shown.dignity /\ seen.ending = shown.ending
      /\ seen.decisions = decisions
  BY <1>5
<1>7. relation \in Int /\ reveal \in BOOLEAN /\ decisions \in Seq(Decision)
  BY <1>1, <1>2 DEF Shown
<1>8. decisions # <<>> /\ decisions[Len(decisions)] = e.code
  <2>1. shown.decisions \in Seq(Decision)
    BY DEF Shown
  <2> QED BY <1>1, <1>2, <2>1
<1>9. seen \in Shown
  BY <1>5, <1>7 DEF Shown
<1>10. shown.reveal => reveal
  BY <1>2
<1> QED BY <1>2, <1>3, <1>6, <1>8, <1>9, <1>10, StepSees

LEMMA FinalizeSeen ==
  ASSUME NEW shown \in Shown, NEW e \in Finalized
  PROVE  LET t == Step(shown, e) IN
         /\ t \in Shown
         /\ t.relation = e.relation /\ t.dignity = e.dignity /\ t.ending = e.ending
         /\ shown.polluted => t.polluted
         /\ t.reveal = shown.reveal /\ t.decisions = shown.decisions
         /\ e.unlocked => t.unlocked
<1>1. /\ e.kind = "finalize" /\ e.relation \in Int /\ e.dignity \in Int
      /\ e.ending \in Ending /\ e.unlocked \in BOOLEAN /\ e.framed \in BOOLEAN
  BY DEF Finalized
<1>2. PICK relation, dignity, ending, unlocked, polluted, done :
        /\ relation = e.relation /\ dignity = e.dignity /\ ending = e.ending
        /\ unlocked = e.unlocked /\ polluted = (shown.polluted \/ e.framed)
        /\ done = TRUE
  OBVIOUS
<1>3. PICK seen : seen = Seen(shown, e)
  OBVIOUS
<1>4. seen = [shown EXCEPT !.ending = ending, !.finalized = done, !.dignity = dignity,
                           !.relation = relation, !.unlocked = unlocked,
                           !.polluted = polluted]
  BY <1>1, <1>2, <1>3, ShownRecord DEF Seen
<1>5. seen = [dignity |-> dignity, relation |-> relation, polluted |-> polluted,
              reveal |-> shown.reveal, unlocked |-> unlocked, ending |-> ending,
              finalized |-> done, decisions |-> shown.decisions]
  <2>1. shown = [dignity |-> shown.dignity, relation |-> shown.relation,
                 polluted |-> shown.polluted, reveal |-> shown.reveal,
                 unlocked |-> shown.unlocked, ending |-> shown.ending,
                 finalized |-> shown.finalized, decisions |-> shown.decisions]
    BY ShownRecord
  <2> QED BY <1>4, <2>1
<1>6. /\ seen.relation = relation /\ seen.polluted = polluted
      /\ seen.reveal = shown.reveal /\ seen.dignity = dignity /\ seen.ending = ending
      /\ seen.decisions = shown.decisions /\ seen.unlocked = unlocked
  BY <1>5
<1>7. /\ relation \in Int /\ dignity \in Int /\ ending \in Ending \cup {None}
      /\ unlocked \in BOOLEAN /\ polluted \in BOOLEAN /\ done \in BOOLEAN
  BY <1>1, <1>2
<1>8. seen \in Shown
  BY <1>5, <1>7 DEF Shown
<1>9. shown.polluted => polluted
  BY <1>2
<1> QED BY <1>2, <1>3, <1>6, <1>8, <1>9, StepSees

(* A turn is told by its event, and by its decision event where the choice *)
(* is one.                                                                 *)
Retold(shown, turn, decided, code) ==
  IF code = None THEN Step(shown, turn) ELSE Step(Step(shown, turn), decided)

LEMMA TurnTold ==
  ASSUME NEW s, Walked(s), ~s.completed, NEW shown, Told(shown, s),
         NEW i \in DOMAIN story(s.node),
         NEW c, c = story(s.node)[i],
         NEW turn \in Turn, NEW decided,
         turn.node = s.node, turn.relation = c.relation,
         turn.polluted = EventPolluted(computePollutionDelta(Blocked(s), c,
                                                DignityGained(s, i, c))),
         c.code # None => /\ decided \in Decided /\ decided.code = c.code
                          /\ decided.relation = Committed(s, i).relation
  PROVE  Told(Retold(shown, turn, decided, c.code), Committed(s, i))
<1>1. PICK t : t = Committed(s, i)
  OBVIOUS
<1>2. PICK gained : gained = DignityGained(s, i, c)
  OBVIOUS
<1>3. PICK delta : delta = computePollutionDelta(Blocked(s), c, gained)
  OBVIOUS
<1>4. s \in Session /\ LeftAfter(s) \in Int /\ s.node \in Node
  BY WalkedCost DEF Walked, Session
<1>5. /\ t.mode = s.mode /\ t.completed = s.completed
      /\ t.pollution = Clamp(s.pollution + delta, 0, 3)
      /\ t.decision = IF c.code \in EndDecision THEN c.code ELSE s.decision
      /\ t.reveal => s.reveal \/ s.node = 23
  BY <1>1, <1>2, <1>3, <1>4, TurnFields
<1>6. PICK first : first = Step(shown, turn)
  OBVIOUS
<1>7. /\ first \in Shown /\ first.relation = shown.relation + turn.relation
      /\ first.polluted = (shown.polluted \/ turn.polluted)
      /\ first.reveal = (shown.reveal \/ turn.node = 23)
      /\ first.dignity = shown.dignity /\ first.ending = shown.ending
      /\ first.decisions = shown.decisions
  BY <1>6, TurnSeen DEF Told
<1>8. t.pollution > 0 => first.polluted
  <2>1. delta \in Int /\ s.pollution \in 0..3
    BY <1>3, <1>4 DEF computePollutionDelta, Session
  <2>2. t.pollution > 0 => s.pollution > 0 \/ delta > 0
    BY <1>5, <2>1 DEF Clamp
  <2>3. turn.polluted = (delta > 0)
    BY <1>2, <1>3 DEF EventPolluted
  <2>4. s.pollution > 0 => shown.polluted
    BY DEF Told
  <2> QED BY <1>7, <2>2, <2>3, <2>4
<1>9. t.reveal => first.reveal
  BY <1>5, <1>7 DEF Told
<1>10. first.ending = None /\ first.dignity = StartDignity(t.mode)
  BY <1>5, <1>7 DEF Told
<1>11. ~t.completed
  BY <1>5
<1>12. Fits(s.node, c)
  BY <1>4, StoryFits
<1>13. CASE c.code = None
  <2>1. t.decision = s.decision
    BY <1>5, <1>13, StoryNoneAssumption DEF Decision, EndDecision
  <2>2. ASSUME t.decision # None
        PROVE  /\ first.relation = t.relation /\ first.decisions # <<>>
               /\ first.decisions[Len(first.decisions)] = t.decision
    <3>1. s.node = 33 /\ s.decision # None
      BY <2>1, <2>2 DEF Walked
    <3>2. t.relation = s.relation
      BY <1>1, <3>1, LateTurnRestores
    <3>3. turn.relation = 0
      BY <3>1, SealingRestores
    <3>4. shown.relation = s.relation /\ s.relation \in Int
      BY <1>4, <3>1 DEF Told, Session
    <3> QED BY <1>7, <2>1, <3>1, <3>2, <3>3, <3>4 DEF Told
  <2>3. Told(first, t)
    BY <1>7, <1>8, <1>9, <1>10, <1>11, <2>2 DEF Told
  <2> QED BY <1>1, <1>6, <1>13, <2>3 DEF Retold
<1>14. CASE c.code # None
  <2>1. PICK second : second = Step(first, decided)
    OBVIOUS
  <2>2. /\ second \in Shown /\ second.relation = decided.relation
        /\ second.polluted = first.polluted /\ (first.reveal => second.reveal)
        /\ second.dignity = first.dignity /\ second.ending = first.ending
        /\ second.decisions # <<>>
        /\ second.decisions[Len(second.decisions)] = decided.code
    BY <1>7, <1>14, <2>1, DecisionSeen
  <2>3. t.decision # None => t.decision = c.code
    <3>1. CASE s.node = 32
      BY <1>5, <1>12, <3>1 DEF Fits
    <3>2. CASE s.node # 32
      <4>1. s.node # 33
        BY <1>12, <1>14 DEF Fits
      <4>2. s.decision = None /\ c.code \notin EndDecision
        BY <1>12, <1>14, <3>2, <4>1 DEF Walked, Fits, EndDecision
      <4> QED BY <1>5, <4>2
    <3> QED BY <3>1, <3>2
  <2>4. second.relation = t.relation
    BY <1>1, <1>14, <2>2
  <2>5. t.decision # None =>
          /\ second.relation = t.relation /\ second.decisions # <<>>
          /\ second.decisions[Len(second.decisions)] = t.decision
    BY <1>14, <2>2, <2>3, <2>4
  <2>6. t.pollution > 0 => second.polluted
    BY <1>8, <2>2
  <2>7. t.reveal => second.reveal
    BY <1>9, <2>2
  <2>8. second.ending = None /\ second.dignity = StartDignity(t.mode)
    BY <1>10, <2>2
  <2>9. Told(second, t)
    BY <1>11, <2>2, <2>5, <2>6, <2>7, <2>8 DEF Told
  <2> QED BY <1>1, <1>6, <1>14, <2>1, <2>9 DEF Retold
<1> QED BY <1>13, <1>14

LEMMA EndTold ==
  ASSUME NEW s, Walked(s), s.decision # None, ~s.completed, NEW shown, Told(shown, s),
         NEW final \in Finalized, final.ending = EndingOf(s), final.dignity = s.dignity,
         final.relation = s.relation, final.unlocked = TruthUnlocked(s)
  PROVE  Told(Step(shown, final), Ended(s))
<1>1. PICK t, last : t = Ended(s) /\ last = Step(shown, final)
  OBVIOUS
<1>2. /\ Walked(t) /\ t.dignity = s.dignity /\ t.relation = s.relation
      /\ t.pollution = s.pollution /\ t.decision = s.decision
      /\ t.reveal = s.reveal /\ t.completed
      /\ t.ending = EndingOf(s) /\ t.unlocked = TruthUnlocked(s)
  BY <1>1, EndWalks
<1>3. /\ last \in Shown /\ last.relation = final.relation /\ last.dignity = final.dignity
      /\ last.ending = final.ending /\ (shown.polluted => last.polluted)
      /\ last.reveal = shown.reveal /\ last.decisions = shown.decisions
      /\ final.unlocked => last.unlocked
  BY <1>1, FinalizeSeen DEF Told
<1>4. EndingOf(t) = EndingOf(s)
  BY <1>2 DEF EndingOf, Stable, Polluted
<1>5. /\ shown \in Shown /\ (s.pollution > 0 => shown.polluted)
      /\ s.reveal => shown.reveal
      /\ shown.decisions # <<>> /\ shown.decisions[Len(shown.decisions)] = s.decision
  BY DEF Told
<1>6. t.decision # None =>
        /\ last.relation = t.relation /\ last.decisions # <<>>
        /\ last.decisions[Len(last.decisions)] = t.decision
  BY <1>2, <1>3, <1>5
<1>7. t.pollution > 0 => last.polluted
  BY <1>2, <1>3, <1>5
<1>8. t.reveal => last.reveal
  BY <1>2, <1>3, <1>5
<1>9. /\ t.decision # None /\ t.ending = EndingOf(t)
      /\ last.ending = t.ending /\ last.dignity = t.dignity
      /\ t.unlocked => last.unlocked
  BY <1>2, <1>3, <1>4
<1>10. Told(last, t)
  BY <1>2, <1>3, <1>6, <1>7, <1>8, <1>9 DEF Told
<1> QED BY <1>1, <1>10

(* The replay of a session's events, whatever has been recorded, exists    *)
(* and tells of it.                                                        *)
ReplayTells(history, s) ==
  LET start == StartDignity(s.mode) IN
  /\ \E f : IsShowing(f, start, history)
  /\ \A f : IsShowing(f, start, history) => Told(f[Len(history)], s)

(* One more event keeps that the replay exists and ends in a step from     *)
(* what was shown before it.                                               *)
LEMMA OneMore ==
  ASSUME NEW h \in Seq(Event), NEW e \in Event, NEW s, NEW t, t.mode = s.mode,
         ReplayTells(h, s), \A shown : Told(shown, s) => Told(Step(shown, e), t)
  PROVE  ReplayTells(Append(h, e), t)
<1>1. PICK start : start = StartDignity(s.mode) /\ start = StartDignity(t.mode)
  OBVIOUS
<1>2. PICK f : IsShowing(f, start, h)
  BY <1>1 DEF ReplayTells
<1>3. \E g : IsShowing(g, start, Append(h, e))
  BY <1>2, ShowingExtends
<1>4. ASSUME NEW g, IsShowing(g, start, Append(h, e))
      PROVE  Told(g[Len(Append(h, e))], t)
  <2>1. PICK b : /\ IsShowing(b, start, h)
                 /\ g[Len(Append(h, e))] = Step(b[Len(h)], e)
    BY <1>4, ShowingBefore
  <2>2. Told(b[Len(h)], s)
    BY <1>1, <2>1 DEF ReplayTells
  <2> QED BY <2>1, <2>2
<1>5. PICK longer : longer = Append(h, e)
  OBVIOUS
<1>6. ReplayTells(longer, t)
  BY <1>1, <1>3, <1>4, <1>5 DEF ReplayTells
<1> QED BY <1>5, <1>6

LEMMA TwoMore ==
  ASSUME NEW h \in Seq(Event), NEW d \in Event, NEW e \in Event, NEW s, NEW t, t.mode = s.mode,
         ReplayTells(h, s), \A shown : Told(shown, s) => Told(Step(Step(shown, d), e), t)
  PROVE  ReplayTells(Append(Append(h, d), e), t)
<1>1. PICK start : start = StartDignity(s.mode) /\ start = StartDignity(t.mode)
  OBVIOUS
<1>2. PICK k : k = Append(h, d)
  OBVIOUS
<1>9. k \in Seq(Event)
  BY <1>2
<1>3. \E f : IsShowing(f, start, h)
  BY <1>1 DEF ReplayTells
<1>4. \E f : IsShowing(f, start, k)
  BY <1>2, <1>3, ShowingExtends
<1>5. \E g : IsShowing(g, start, Append(k, e))
  BY <1>4, <1>9, ShowingExtends
<1>6. ASSUME NEW g, IsShowing(g, start, Append(k, e))
      PROVE  Told(g[Len(Append(k, e))], t)
  <2>1. PICK b : /\ IsShowing(b, start, k)
                 /\ g[Len(Append(k, e))] = Step(b[Len(k)], e)
    BY <1>6, <1>9, ShowingBefore
  <2>2. PICK a : /\ IsShowing(a, start, h)
                 /\ b[Len(k)] = Step(a[Len(h)], d)
    <3>1. IsShowing(b, start, Append(h, d))
      BY <1>2, <2>1
    <3> QED BY <1>2, <3>1, ShowingBefore
  <2>3. Told(a[Len(h)], s)
    BY <1>1, <2>2 DEF ReplayTells
  <2> QED BY <2>1, <2>2, <2>3
<1>7. PICK longer : longer = Append(k, e)
  OBVIOUS
<1>8. ReplayTells(longer, t)
  BY <1>1, <1>5, <1>6, <1>7 DEF ReplayTells
<1> QED BY <1>2, <1>7, <1>8

(* The replay of the events recorded so far tells of the session.          *)
ReplayInv == StoryInv /\ ReplayTells(events, session)

LEMMA ReplayStarts ==
  ASSUME StoryInit
  PROVE  ReplayInv
<1>1. PICK mode \in Mode : session = Started(mode)
  BY DEF StoryInit
<1>2. PICK start : start = StartDignity(mode)
  OBVIOUS
<1>3. PICK shown : shown = ReplayStart(start)
  OBVIOUS
<1>4. start \in Int
  BY <1>2 DEF StartDignity, Mode
<1>5. /\ shown \in Shown /\ shown.ending = None /\ shown.dignity = start
  BY <1>3, <1>4 DEF ReplayStart, Shown
<1>6. /\ session.mode = mode /\ session.pollution = 0 /\ ~session.reveal
      /\ session.decision = None /\ ~session.completed
  BY <1>1 DEF Started
<1>7. Told(shown, session)
  BY <1>2, <1>5, <1>6 DEF Told
<1>8. events = <<>> /\ Len(events) = 0
  BY DEF StoryInit
<1>9. PICK f : f = [n \in 0..0 |-> shown]
  OBVIOUS
<1>10. IsShowing(f, start, events)
  BY <1>3, <1>8, <1>9 DEF IsShowing
<1>11. ASSUME NEW g, IsShowing(g, start, events) PROVE g[Len(events)] = shown
  BY <1>3, <1>8, <1>11 DEF IsShowing
<1>12. ReplayTells(events, session)
  BY <1>2, <1>6, <1>7, <1>10, <1>11 DEF ReplayTells
<1> QED BY <1>12, StoryInvStarts DEF ReplayInv

LEMMA OneAppended ==
  ASSUME NEW S, NEW h \in Seq(S), NEW d \in S
  PROVE  h \o <<d>> = Append(h, d)
OBVIOUS

LEMMA TwoAppended ==
  ASSUME NEW S, NEW h \in Seq(S), NEW d \in S, NEW e \in S
  PROVE  h \o <<d, e>> = Append(Append(h, d), e)
OBVIOUS

LEMMA TurnRetells ==
  ASSUME ReplayInv, NEW i \in 1..3, CommitTurn(i)
  PROVE  ReplayTells(events, session)'
<1>1. /\ Walked(session) /\ events \in Seq(Event) /\ ReplayTells(events, session)
      /\ i \in DOMAIN story(session.node)
  BY DEF ReplayInv, StoryInv, CommitTurn
<1>2. session \in Session
  BY <1>1 DEF Walked
<1>3. ~session.completed /\ LeftAfter(session) \in Int
  BY <1>1, WalkedCost DEF CommitTurn
<1>4. PICK s, t, h, c : /\ s = session /\ t = session' /\ h = events
                        /\ c = story(session.node)[i]
  OBVIOUS
<1>5. t = Committed(s, i) /\ events' = h \o EventsOf(s, i)
  BY <1>4 DEF CommitTurn
<1>6. t.mode = s.mode
  <2>1. Committed(session, i).mode = session.mode
    BY <1>1, <1>2, <1>3, TurnFields
  <2> QED BY <1>4, <1>5, <2>1
<1>7. PICK turn, decided :
        /\ turn \in Turn
        /\ turn.node = s.node /\ turn.relation = c.relation
        /\ turn.polluted = EventPolluted(computePollutionDelta(Blocked(s), c,
                                                  DignityGained(s, i, c)))
        /\ c.code = None => EventsOf(s, i) = <<turn>>
        /\ c.code # None =>
             /\ decided \in Decided /\ decided.code = c.code
             /\ decided.relation = Committed(s, i).relation
             /\ EventsOf(s, i) = <<turn, decided>>
  <2>1. LET e == story(session.node)[i] IN
        \E turn, decided :
           /\ turn \in Turn
           /\ turn.node = session.node /\ turn.relation = e.relation
           /\ turn.polluted = EventPolluted(computePollutionDelta(Blocked(session), e,
                                                     DignityGained(session, i, e)))
           /\ e.code = None => EventsOf(session, i) = <<turn>>
           /\ e.code # None =>
                /\ decided \in Decided /\ decided.code = e.code
                /\ decided.relation = Committed(session, i).relation
                /\ EventsOf(session, i) = <<turn, decided>>
    BY <1>1, EventsFit
  <2> QED BY <1>4, <2>1
<1>8. ASSUME NEW shown, Told(shown, s)
      PROVE  Told(Retold(shown, turn, decided, c.code), t)
  BY <1>1, <1>3, <1>4, <1>5, <1>7, <1>8, TurnTold
<1>9. h \in Seq(Event) /\ ReplayTells(h, s) /\ turn \in Event
  BY <1>1, <1>4, <1>7 DEF Event
<1>10. CASE c.code = None
  <2>1. events' = Append(h, turn)
    <3>1. EventsOf(s, i) = <<turn>>
      BY <1>7, <1>10
    <3> QED BY <1>5, <1>9, <3>1, OneAppended
  <2>2. \A shown : Told(shown, s) => Told(Step(shown, turn), t)
    BY <1>8, <1>10 DEF Retold
  <2>3. ReplayTells(Append(h, turn), t)
    BY <1>6, <1>9, <2>2, OneMore
  <2> QED BY <1>4, <2>1, <2>3
<1>11. CASE c.code # None
  <2>1. decided \in Event
    BY <1>7, <1>11 DEF Event
  <2>2. events' = Append(Append(h, turn), decided)
    <3>1. EventsOf(s, i) = <<turn, decided>>
      BY <1>7, <1>11
    <3> QED BY <1>5, <1>9, <2>1, <3>1, TwoAppended
  <2>3. \A shown : Told(shown, s) => Told(Step(Step(shown, turn), decided), t)
    BY <1>8, <1>11 DEF Retold
  <2>4. ReplayTells(Append(Append(h, turn), decided), t)
    BY <1>6, <1>9, <2>1, <2>3, TwoMore
  <2> QED BY <1>4, <2>2, <2>4
<1> QED BY <1>10, <1>11

LEMMA FinalizeRetells ==
  ASSUME ReplayInv, FinalizeSession
  PROVE  ReplayTells(events, session)'
<1>1. /\ Walked(session) /\ events \in Seq(Event) /\ ReplayTells(events, session)
      /\ session.decision # None /\ ~session.completed
  BY DEF ReplayInv, StoryInv, FinalizeSession, FinalizeAgain
<1>2. PICK s, t, h : s = session /\ t = session' /\ h = events
  OBVIOUS
<1>3. t = Ended(s)
  BY <1>2 DEF FinalizeSession, FinalizeAgain
<1>4. PICK final \in Finalized :
        /\ final.ending = EndingOf(s) /\ final.dignity = s.dignity
        /\ final.relation = s.relation /\ final.unlocked = TruthUnlocked(s)
        /\ events' = Append(h, final)
  BY <1>1, <1>2, FinalEvent
<1>5. ASSUME NEW shown, Told(shown, s)
      PROVE  Told(Step(shown, final), t)
  BY <1>1, <1>2, <1>3, <1>4, <1>5, EndTold
<1>6. t.mode = s.mode
  BY <1>1, <1>2, <1>3, EndWalks
<1>7. h \in Seq(Event) /\ ReplayTells(h, s) /\ final \in Event
  BY <1>1, <1>2 DEF Event
<1>8. ReplayTells(Append(h, final), t)
  BY <1>5, <1>6, <1>7, OneMore
<1> QED BY <1>2, <1>4, <1>8

(* What replay makes of what the events show.                              *)
LEMMA ReplayedFrom ==
  ASSUME ReplayInv
  PROVE  \E shown : /\ Told(shown, session)
                    /\ Replayed = IF shown.ending = None /\ shown.decisions # <<>>
                                  THEN [shown EXCEPT !.ending = Guessed(shown)] ELSE shown
<1>1. PICK start : start = StartDignity(session.mode)
  OBVIOUS
<1>2. PICK shown : shown = Showing(start, events)[Len(events)]
  OBVIOUS
<1>3. Told(shown, session)
  <2>1. IsShowing(Showing(start, events), start, events)
    BY <1>1, ShowingIsOne DEF ReplayInv, ReplayTells
  <2> QED BY <1>1, <1>2, <2>1 DEF ReplayInv, ReplayTells
<1>4. Replayed = IF shown.ending = None /\ shown.decisions # <<>>
                 THEN [shown EXCEPT !.ending = Guessed(shown)] ELSE shown
  BY <1>1, <1>2 DEF Replayed, replaySession
<1> QED BY <1>3, <1>4

(* Before the session is final the guess is not above the ending due: it   *)
(* knows the decision and the relation, and a start that passes the        *)
(* dignity gate is that of a verified player, who passes it at the end.    *)
LEMMA GuessIsModest ==
  ASSUME NEW s, Walked(s), NEW shown, Told(shown, s), s.decision # None, ~s.completed
  PROVE  Guessed(shown) \in Ending /\ Worth(Guessed(shown)) <= Worth(EndingOf(s))
<1>1. PICK last : last = shown.decisions[Len(shown.decisions)]
  OBVIOUS
<1>2. /\ last = s.decision /\ shown.relation = s.relation
      /\ s.pollution > 0 => shown.polluted
      /\ shown.dignity = StartDignity(s.mode)
  BY <1>1 DEF Told
<1>3. /\ s.mode \in Mode /\ s.pollution \in 0..3 /\ s.relation \in -3..3
      /\ s.dignity \in 0..100 /\ last \in EndDecision
  BY <1>2 DEF Walked, Session
<1>4. shown.dignity >= 70 => s.dignity >= 70
  <2>1. shown.dignity >= 70 => s.mode = "verified"
    BY <1>2, <1>3 DEF StartDignity, Mode
  <2> QED BY <2>1, GateAtTheEnd
<1>5. Guessed(shown) = IF /\ last = "bury_truth" /\ shown.dignity >= 70
                          /\ shown.relation >= 2 /\ ~shown.polluted
                       THEN "silk_burial"
                       ELSE IF shown.polluted \/ shown.relation <= 0
                            THEN "framed" ELSE "broken_oath"
  BY <1>1, <1>3 DEF Guessed
<1>6. Worth("framed") = 0 /\ Worth("broken_oath") = 1 /\ Worth("silk_burial") = 2
  BY DEF Worth
<1>7. ~shown.polluted => ~Polluted(s)
  BY <1>2, <1>3 DEF Polluted
<1>8. EndingOf(s) \in {"framed", "broken_oath", "silk_burial"}
  BY DEF EndingOf
<1>9. CASE Guessed(shown) = "silk_burial"
  <2>1. Stable(s)
    BY <1>2, <1>4, <1>5, <1>7, <1>9 DEF Stable
  <2>2. EndingOf(s) = "silk_burial"
    BY <2>1 DEF EndingOf
  <2> QED BY <1>6, <1>9, <2>2 DEF Ending
<1>10. CASE Guessed(shown) = "broken_oath"
  <2>1. ~Polluted(s) /\ ~(s.relation <= 0)
    BY <1>2, <1>5, <1>7, <1>10
  <2>2. EndingOf(s) # "framed"
    BY <2>1 DEF EndingOf
  <2> QED BY <1>6, <1>8, <1>10, <2>2 DEF Ending
<1>11. CASE Guessed(shown) = "framed"
  BY <1>6, <1>8, <1>11 DEF Ending
<1> QED BY <1>5, <1>9, <1>10, <1>11

LEMMA ReplayIsModest ==
  ASSUME ReplayInv
  PROVE  ReplayNeverFlatters
<1>1. PICK shown :
        /\ Told(shown, session)
        /\ Replayed = IF shown.ending = None /\ shown.decisions # <<>>
                      THEN [shown EXCEPT !.ending = Guessed(shown)] ELSE shown
  BY ReplayedFrom
<1>2. Walked(session) /\ session \in Session
  BY DEF ReplayInv, StoryInv, Walked
<1>3. PICK r : r = Replayed
  OBVIOUS
<1>4. PICK ending : ending = IF shown.ending = None /\ shown.decisions # <<>>
                             THEN Guessed(shown) ELSE shown.ending
  OBVIOUS
<1>5. r = [dignity |-> shown.dignity, relation |-> shown.relation,
           polluted |-> shown.polluted, reveal |-> shown.reveal,
           unlocked |-> shown.unlocked, ending |-> ending,
           finalized |-> shown.finalized, decisions |-> shown.decisions]
  <2>1. shown = [dignity |-> shown.dignity, relation |-> shown.relation,
                 polluted |-> shown.polluted, reveal |-> shown.reveal,
                 unlocked |-> shown.unlocked, ending |-> shown.ending,
                 finalized |-> shown.finalized, decisions |-> shown.decisions]
    BY <1>1, ShownRecord DEF Told
  <2>2. r = IF shown.ending = None /\ shown.decisions # <<>>
            THEN [shown EXCEPT !.ending = ending] ELSE shown
    BY <1>1, <1>3, <1>4
  <2>3. CASE shown.ending = None /\ shown.decisions # <<>>
    BY <2>1, <2>2, <2>3
  <2>4. CASE ~(shown.ending = None /\ shown.decisions # <<>>)
    <3>1. r = shown /\ ending = shown.ending
      BY <1>4, <2>2, <2>4
    <3> QED BY <2>1, <3>1
  <2> QED BY <2>3, <2>4
<1>6. /\ r.dignity = shown.dignity /\ r.relation = shown.relation
      /\ r.polluted = shown.polluted /\ r.reveal = shown.reveal
      /\ r.unlocked = shown.unlocked /\ r.ending = ending
  BY <1>5
<1>7. Polluted(session) => r.polluted
  <2>1. session.pollution \in 0..3
    BY <1>2 DEF Session
  <2>2. Polluted(session) => session.pollution > 0
    BY <2>1 DEF Polluted
  <2> QED BY <1>1, <1>6, <2>2 DEF Told
<1>8. session.reveal => r.reveal
  BY <1>1, <1>6 DEF Told
<1>9. session.decision # None => r.relation = session.relation
  BY <1>1, <1>6 DEF Told
<1>10. session.completed =>
         /\ r.ending = session.ending /\ r.dignity = session.dignity
         /\ session.unlocked => r.unlocked
  <2>1. SUFFICES ASSUME session.completed
                 PROVE  /\ r.ending = session.ending /\ r.dignity = session.dignity
                        /\ session.unlocked => r.unlocked
    OBVIOUS
  <2>2. /\ shown.ending = session.ending /\ shown.dignity = session.dignity
        /\ session.unlocked => shown.unlocked
        /\ session.ending = EndingOf(session)
    BY <1>1, <2>1 DEF Told
  <2>3. session.ending # None
    BY <2>2, StoryNoneAssumption DEF EndingOf, Ending
  <2>4. ending = session.ending
    BY <1>4, <2>2, <2>3
  <2> QED BY <1>6, <2>2, <2>4
<1>11. session.decision # None => Worth(r.ending) <= Worth(EndingOf(session))
  <2>1. SUFFICES ASSUME session.decision # None
                 PROVE  Worth(ending) <= Worth(EndingOf(session))
    BY <1>6
  <2>2. CASE session.completed
    <3>1. ending = EndingOf(session)
      BY <1>1, <1>6, <1>10, <2>2 DEF Told
    <3>2. Worth(EndingOf(session)) \in Int
      BY DEF EndingOf, Worth
    <3> QED BY <3>1, <3>2
  <2>3. CASE ~session.completed
    <3>1. ending = Guessed(shown)
      BY <1>1, <1>4, <2>1, <2>3 DEF Told
    <3> QED BY <1>1, <1>2, <2>1, <2>3, <3>1, GuessIsModest
  <2> QED BY <2>2, <2>3
<1> QED BY <1>3, <1>7, <1>8, <1>9, <1>10, <1>11 DEF ReplayNeverFlatters

(* A replay of what a session recorded never paints it better than it is,  *)
(* however many turns were played (replaySession, replayStep).             *)
THEOREM ReplayNeverEverFlatters == StorySpec => []ReplayNeverFlatters
<1>1. StoryInit => ReplayInv
  BY ReplayStarts
<1>2. ReplayInv /\ [StoryNext]_<<session, events>> => ReplayInv'
  <2>1. SUFFICES ASSUME ReplayInv, [StoryNext]_<<session, events>> PROVE ReplayInv'
    OBVIOUS
  <2>2. CASE StoryNext
    <3>1. StoryInv'
      BY <2>1, <2>2, CommitTurnKeeps, FinalizeKeeps DEF StoryNext, ReplayInv
    <3>2. ReplayTells(events, session)'
      BY <2>1, <2>2, TurnRetells, FinalizeRetells DEF StoryNext
    <3> QED BY <3>1, <3>2 DEF ReplayInv
  <2>3. CASE UNCHANGED <<session, events>>
    <3>1. StoryInv'
      BY <2>1, <2>3 DEF ReplayInv, StoryInv
    <3>2. ReplayTells(events, session)'
      BY <2>1, <2>3 DEF ReplayInv, ReplayTells
    <3> QED BY <3>1, <3>2 DEF ReplayInv
  <2> QED BY <2>1, <2>2, <2>3
<1>3. ReplayInv => ReplayNeverFlatters
  BY ReplayIsModest
<1> QED BY <1>1, <1>2, <1>3, PTL DEF StorySpec, storyVars
=============================================================================
