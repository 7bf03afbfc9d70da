---------------------------- MODULE SentinelProofs ----------------------------
(***************************************************************************)
(* Proofs about Sentinel, for any signatures, capacity and timing with     *)
(* DedupeTtl >= Window. That a transaction counts once rests on the order  *)
(* of the pipeline: what waits longer was observed earlier, so the eviction*)
(* from the front of the window leaves nothing expired behind, and what is *)
(* left is younger than the dedupe's memory of it.                         *)
(***************************************************************************)
EXTENDS Sentinel, FiniteSets, FiniteSetTheorems, SequenceTheorems, TLAPS

(* Observed before or with: s is at least as old as t.                     *)
NotYounger(s, t) == s.age >= t.age

Sorted(samples) ==
  \A i, j \in 1..Len(samples) : i < j => NotYounger(samples[i], samples[j])

(* The window, the queue and the event in hand are in the order of         *)
(* observation.                                                            *)
Ordered ==
  /\ Sorted(window) /\ Sorted(channel)
  /\ \A i \in 1..Len(window), j \in 1..Len(channel) : NotYounger(window[i], channel[j])
  /\ held # None =>
       /\ \A i \in 1..Len(window) : NotYounger(window[i], held)
       /\ \A j \in 1..Len(channel) : NotYounger(channel[j], held)

(* The dedupe knows what is in time, for at most as long.                  *)
KnownIn(memory, samples) ==
  \A i \in 1..Len(samples) : Fresh(samples[i]) =>
    memory[samples[i].sig] # None /\ memory[samples[i].sig] <= samples[i].age

Once(samples) ==
  \A i, j \in 1..Len(samples) : i # j => samples[i].sig # samples[j].sig

Pipeline == Ordered /\ KnownIn(seen, window) /\ Once(window)

(* A confirmed landing is no more recent than the last success, and a      *)
(* transaction is only sent when the cooldown is over.                     *)
Spaced ==
  /\ landing.confirmed => cooldown <= landing.age
  /\ alert # None /\ alert.stage = "sending" => cooldown = MinInterval

IInv == TypeOK /\ Pipeline /\ Spaced

USE ConfigAssumption, NoneAssumption

-----------------------------------------------------------------------------
(* Eviction.                                                               *)

LEMMA Interval ==
  ASSUME NEW n \in Nat
  PROVE  IsFiniteSet(1..n) /\ Cardinality(1..n) = n
<1>1. 1 \in Int /\ n \in Int
  OBVIOUS
<1>2. /\ IsFiniteSet(1..n)
      /\ Cardinality(1..n) = IF 1 > n THEN 0 ELSE n - 1 + 1
  BY <1>1, FS_Interval, Zenon
<1> QED BY <1>2

(* What stays of an ordered window is a suffix of it, all of it in time.   *)
LEMMA EvictedIsFresh ==
  ASSUME NEW s \in Seq(Sample), Sorted(s)
  PROVE  \E k \in 1..(Len(s) + 1) :
           /\ Evicted(s) = SubSeq(s, k, Len(s))
           /\ \A i \in k..Len(s) : Fresh(s[i])
<1> DEFINE Expired == {i \in 1..Len(s) : ~Fresh(s[i])}
           n == Cardinality(Expired)
<1>1. /\ Len(s) \in Nat
      /\ \A i \in 1..Len(s) : s[i].age \in Nat
  <2>1. \A i \in 1..Len(s) : s[i] \in Sample
    BY ElementOfSeq
  <2> QED BY <2>1, LenProperties DEF Sample
<1>2. /\ IsFiniteSet(1..Len(s)) /\ Cardinality(1..Len(s)) = Len(s)
  BY <1>1, Interval
<1>3. IsFiniteSet(Expired) /\ n \in Nat /\ n <= Len(s)
  <2>1. Expired \subseteq 1..Len(s)
    OBVIOUS
  <2>2. IsFiniteSet(Expired) /\ Cardinality(Expired) <= Cardinality(1..Len(s))
    BY <1>2, <2>1, FS_Subset
  <2> QED BY <2>2, <1>2, FS_CardinalityType
<1>4. \A i \in Expired, j \in 1..Len(s) : j < i => j \in Expired
  BY <1>1 DEF Sorted, NotYounger, Fresh
<1>5. \A i \in Expired : i <= n
  <2> SUFFICES ASSUME NEW e \in Expired PROVE e <= n
    OBVIOUS
  <2>1. 1..e \subseteq Expired
    BY <1>1, <1>4
  <2>2. Cardinality(1..e) <= n
    BY <2>1, <1>3, FS_Subset
  <2>3. Cardinality(1..e) = e
    BY <1>1, FS_Interval
  <2> QED BY <2>2, <2>3
<1>6. \A j \in 1..n : j \in Expired
  <2> SUFFICES ASSUME NEW j \in 1..n, j \notin Expired PROVE FALSE
    OBVIOUS
  <2>1. Expired \subseteq 1..(j - 1)
    <3> SUFFICES ASSUME NEW e \in Expired PROVE e \in 1..(j - 1)
      OBVIOUS
    <3>1. e \in 1..Len(s) /\ j \in 1..Len(s)
      BY <1>1, <1>3
    <3>2. ~(j < e) /\ j # e
      BY <1>4, <3>1
    <3> QED BY <3>1, <3>2, <1>1
  <2>2. IsFiniteSet(1..(j - 1)) /\ Cardinality(1..(j - 1)) = j - 1
    <3>1. j - 1 \in Nat
      BY <1>3
    <3> QED BY <3>1, Interval
  <2>3. n <= j - 1
    BY <2>1, <2>2, FS_Subset
  <2> QED BY <2>3, <1>3
<1>7. PICK m \in 1..(Len(s) + 1) : m = n + 1
  <2>1. n + 1 \in 1..(Len(s) + 1)
    BY <1>3, <1>1
  <2> QED BY <2>1, Zenon
<1>8. m <= Len(s) => Fresh(s[m])
  <2> SUFFICES ASSUME m <= Len(s) PROVE Fresh(s[m])
    OBVIOUS
  <2>1. m \in 1..Len(s) /\ m \notin Expired
    BY <1>1, <1>3, <1>5, <1>7
  <2> QED BY <2>1
<1>9. \A i \in 1..(m - 1) : ~Fresh(s[i])
  BY <1>3, <1>6, <1>7
<1>10. /\ FirstFresh(s) \in 1..(Len(s) + 1)
       /\ FirstFresh(s) <= Len(s) => Fresh(s[FirstFresh(s)])
  BY <1>8, <1>9, Zenon DEF FirstFresh
<1>11. PICK k \in 1..(Len(s) + 1) : k = FirstFresh(s)
  BY <1>10
<1>12. \A i \in k..Len(s) : Fresh(s[i])
  <2> SUFFICES ASSUME NEW i \in k..Len(s) PROVE Fresh(s[i])
    OBVIOUS
  <2>1. k <= Len(s) /\ k \in 1..Len(s) /\ i \in 1..Len(s)
    BY <1>1
  <2>2. Fresh(s[k])
    BY <2>1, <1>10, <1>11
  <2>3. i = k \/ k < i
    BY <1>1
  <2>4. s[i].age <= s[k].age
    BY <2>1, <2>3, <1>1 DEF Sorted, NotYounger
  <2> QED BY <2>1, <2>2, <2>4, <1>1 DEF Fresh
<1> QED BY <1>11, <1>12 DEF Evicted

(* A suffix keeps the samples and their order.                             *)
LEMMA Suffix ==
  ASSUME NEW s \in Seq(Sample), NEW k \in 1..(Len(s) + 1)
  PROVE  /\ SubSeq(s, k, Len(s)) \in Seq(Sample)
         /\ Len(SubSeq(s, k, Len(s))) = Len(s) - k + 1
         /\ \A i \in 1..(Len(s) - k + 1) :
              k + i - 1 \in k..Len(s) /\ SubSeq(s, k, Len(s))[i] = s[k + i - 1]
<1>1. Len(s) \in Nat /\ \A i \in k..Len(s) : s[i] \in Sample
  BY ElementOfSeq, LenProperties
<1> QED BY <1>1, SubSeqProperties

-----------------------------------------------------------------------------
(* What a step does to the pipeline.                                       *)

LEMMA SampleTypes ==
  ASSUME NEW s \in Seq(Sample)
  PROVE  /\ Len(s) \in Nat
         /\ \A i \in 1..Len(s) : /\ s[i] \in Sample
                                 /\ s[i].sig \in Sig
                                 /\ s[i].age \in 0..(Window + 1)
<1>1. \A i \in 1..Len(s) : s[i] \in Sample
  BY ElementOfSeq
<1> QED BY <1>1, LenProperties DEF Sample

(* Pushing an event on the window that is at most as old as all of it, and *)
(* that the dedupe does not remember: the window stays ordered, what it    *)
(* keeps is in time and known, and no transaction is in it twice.          *)
LEMMA PushKeeps ==
  ASSUME NEW w \in Seq(Sample), NEW memory \in [Sig -> 0..(DedupeTtl + 1) \cup {None}],
         NEW event \in Sample,
         Sorted(w), KnownIn(memory, w), Once(w),
         \A i \in 1..Len(w) : NotYounger(w[i], event),
         ~(memory[event.sig] # None /\ memory[event.sig] <= DedupeTtl)
  PROVE  /\ Evicted(Append(w, event)) \in Seq(Sample)
         /\ Sorted(Evicted(Append(w, event)))
         /\ Once(Evicted(Append(w, event)))
         /\ \A i \in 1..Len(Evicted(Append(w, event))) :
              LET sample == Evicted(Append(w, event))[i] IN
              /\ NotYounger(sample, event)
              /\ \/ sample.sig = event.sig
                 \/ /\ memory[sample.sig] # None /\ memory[sample.sig] <= sample.age
                    /\ memory[sample.sig] <= DedupeTtl
<1> DEFINE all == Append(w, event)
<1>1. /\ all \in Seq(Sample) /\ Len(all) = Len(w) + 1
      /\ \A i \in 1..Len(w) : all[i] = w[i]
      /\ all[Len(w) + 1] = event
  BY AppendProperties, SampleTypes
<1>2. /\ Len(w) \in Nat /\ event.age \in 0..(Window + 1) /\ event.sig \in Sig
      /\ \A i \in 1..Len(w) : w[i].sig \in Sig /\ w[i].age \in 0..(Window + 1)
  BY SampleTypes DEF Sample
<1> HIDE DEF all
<1>3. \A i \in 1..(Len(w) + 1) :
        /\ NotYounger(all[i], event)
        /\ all[i].age \in 0..(Window + 1) /\ all[i].sig \in Sig
  <2> SUFFICES ASSUME NEW i \in 1..(Len(w) + 1)
               PROVE  /\ NotYounger(all[i], event)
                      /\ all[i].age \in 0..(Window + 1) /\ all[i].sig \in Sig
    OBVIOUS
  <2>1. CASE i \in 1..Len(w)
    BY <2>1, <1>1, <1>2
  <2>2. CASE i = Len(w) + 1
    BY <2>2, <1>1, <1>2 DEF NotYounger
  <2> QED BY <2>1, <2>2, <1>2
<1>4. Sorted(all)
  <2> SUFFICES ASSUME NEW i \in 1..(Len(w) + 1), NEW j \in 1..(Len(w) + 1), i < j
               PROVE  NotYounger(all[i], all[j])
    BY <1>1 DEF Sorted
  <2>1. CASE j = Len(w) + 1
    BY <2>1, <1>1, <1>3
  <2>2. CASE j # Len(w) + 1
    <3>1. i \in 1..Len(w) /\ j \in 1..Len(w)
      BY <2>2, <1>2
    <3> QED BY <3>1, <1>1 DEF Sorted
  <2> QED BY <2>1, <2>2
<1>5. PICK k \in 1..(Len(all) + 1) :
        /\ Evicted(all) = SubSeq(all, k, Len(all))
        /\ \A i \in k..Len(all) : Fresh(all[i])
  BY <1>1, <1>4, EvictedIsFresh
<1> DEFINE kept == Evicted(all)
<1>6. /\ kept \in Seq(Sample) /\ Len(kept) = Len(all) - k + 1
      /\ \A i \in 1..Len(kept) : k + i - 1 \in k..Len(all) /\ kept[i] = all[k + i - 1]
  BY <1>1, <1>5, Suffix
<1> HIDE DEF kept
<1>7. \A i \in 1..Len(kept) : k + i - 1 \in 1..(Len(w) + 1)
  BY <1>1, <1>2, <1>6
<1>8. Sorted(kept)
  <2> SUFFICES ASSUME NEW i \in 1..Len(kept), NEW j \in 1..Len(kept), i < j
               PROVE  NotYounger(kept[i], kept[j])
    BY DEF Sorted
  <2>1. PICK a, b : a = k + i - 1 /\ b = k + j - 1
    OBVIOUS
  <2>2. a < b
    BY <1>1, <1>2, <1>6, <2>1
  <2>6. k + i - 1 \in 1..(Len(w) + 1) /\ k + j - 1 \in 1..(Len(w) + 1)
    BY <1>7
  <2>3. a \in 1..Len(all) /\ b \in 1..Len(all)
    BY <1>1, <2>1, <2>6
  <2>4. NotYounger(all[a], all[b])
    BY <1>4, <2>2, <2>3 DEF Sorted
  <2>5. kept[i] = all[a] /\ kept[j] = all[b]
    BY <1>6, <2>1
  <2> QED BY <2>4, <2>5
(* An old sample of this transaction would be in time and remembered.      *)
<1>9. \A m \in 1..Len(w) : Fresh(w[m]) =>
        /\ memory[w[m].sig] # None /\ memory[w[m].sig] <= w[m].age
        /\ memory[w[m].sig] <= DedupeTtl
        /\ w[m].sig # event.sig
  <2> SUFFICES ASSUME NEW m \in 1..Len(w), Fresh(w[m])
               PROVE  /\ memory[w[m].sig] # None /\ memory[w[m].sig] <= w[m].age
                      /\ memory[w[m].sig] <= DedupeTtl
                      /\ w[m].sig # event.sig
    OBVIOUS
  <2>1. memory[w[m].sig] # None /\ memory[w[m].sig] <= w[m].age
    BY DEF KnownIn
  <2>2. memory[w[m].sig] \in Nat
    BY <2>1, <1>2
  <2>4. PICK known, age : known = memory[w[m].sig] /\ age = w[m].age
    OBVIOUS
  <2>5. known \in Nat /\ known <= age /\ age \in Nat /\ age <= Window
    BY <2>1, <2>2, <2>4, <1>2 DEF Fresh
  <2>3. memory[w[m].sig] <= DedupeTtl
    BY <2>4, <2>5, <1>2
  <2> QED BY <2>1, <2>3
<1>10. \A i \in 1..Len(kept) :
         \/ k + i - 1 = Len(w) + 1 /\ kept[i] = event
         \/ /\ k + i - 1 \in 1..Len(w) /\ kept[i] = w[k + i - 1]
            /\ Fresh(w[k + i - 1])
  <2> SUFFICES ASSUME NEW i \in 1..Len(kept)
               PROVE  \/ k + i - 1 = Len(w) + 1 /\ kept[i] = event
                      \/ /\ k + i - 1 \in 1..Len(w) /\ kept[i] = w[k + i - 1]
                         /\ Fresh(w[k + i - 1])
    OBVIOUS
  <2>1. CASE k + i - 1 = Len(w) + 1
    BY <2>1, <1>1, <1>6
  <2>2. CASE k + i - 1 # Len(w) + 1
    <3>2. PICK a, n : a = k + i - 1 /\ n = Len(w)
      OBVIOUS
    <3>3. k + i - 1 \in 1..(Len(w) + 1)
      BY <1>7
    <3>4. a \in 1..(n + 1) /\ a # n + 1 /\ n \in Nat
      BY <1>2, <2>2, <3>2, <3>3
    <3>5. a \in 1..n
      BY <3>4
    <3>1. k + i - 1 \in 1..Len(w)
      BY <3>2, <3>5
    <3> QED BY <3>1, <1>1, <1>5, <1>6
  <2> QED BY <2>1, <2>2
<1>11. Once(kept)
  <2> SUFFICES ASSUME NEW i \in 1..Len(kept), NEW j \in 1..Len(kept), i # j
               PROVE  kept[i].sig # kept[j].sig
    BY DEF Once
  <2>1. k + i - 1 # k + j - 1
    BY <1>1, <1>2, <1>6
  <2>2. CASE k + i - 1 = Len(w) + 1
    <3>1. kept[i] = event
      BY <2>2, <1>2, <1>10
    <3>2. /\ k + j - 1 \in 1..Len(w) /\ kept[j] = w[k + j - 1]
          /\ Fresh(w[k + j - 1])
      BY <2>1, <2>2, <1>10
    <3> QED BY <3>1, <3>2, <1>9
  <2>3. CASE k + j - 1 = Len(w) + 1
    <3>1. kept[j] = event
      BY <2>3, <1>2, <1>10
    <3>2. /\ k + i - 1 \in 1..Len(w) /\ kept[i] = w[k + i - 1]
          /\ Fresh(w[k + i - 1])
      BY <2>1, <2>3, <1>10
    <3> QED BY <3>1, <3>2, <1>9
  <2>4. CASE k + i - 1 # Len(w) + 1 /\ k + j - 1 # Len(w) + 1
    <3>1. /\ k + i - 1 \in 1..Len(w) /\ kept[i] = w[k + i - 1]
          /\ k + j - 1 \in 1..Len(w) /\ kept[j] = w[k + j - 1]
      BY <2>4, <1>10
    <3> QED BY <2>1, <3>1 DEF Once
  <2> QED BY <2>2, <2>3, <2>4
<1>12. \A i \in 1..Len(kept) :
         /\ NotYounger(kept[i], event)
         /\ \/ kept[i].sig = event.sig
            \/ /\ memory[kept[i].sig] # None /\ memory[kept[i].sig] <= kept[i].age
               /\ memory[kept[i].sig] <= DedupeTtl
  <2> SUFFICES ASSUME NEW i \in 1..Len(kept)
               PROVE  /\ NotYounger(kept[i], event)
                      /\ \/ kept[i].sig = event.sig
                         \/ /\ memory[kept[i].sig] # None
                            /\ memory[kept[i].sig] <= kept[i].age
                            /\ memory[kept[i].sig] <= DedupeTtl
    OBVIOUS
  <2>1. NotYounger(kept[i], event)
    BY <1>3, <1>6, <1>7
  <2> QED BY <2>1, <1>9, <1>10
<1> QED BY <1>6, <1>8, <1>11, <1>12 DEF kept, all

LEMMA Aging ==
  ASSUME NEW limit \in Nat, NEW a \in 0..limit
  PROVE  /\ Older(a, limit) \in 0..limit
         /\ a <= Older(a, limit) /\ Older(a, limit) <= a + 1
         /\ a < limit => Older(a, limit) = a + 1
         /\ \A b \in 0..limit : b <= a => Older(b, limit) <= Older(a, limit)
<1>1. \A b \in 0..limit : Older(b, limit) = IF b < limit THEN b + 1 ELSE b
  BY DEF Older
<1> QED BY <1>1

LEMMA SampleAges ==
  ASSUME NEW t \in Sample
  PROVE  /\ OlderSample(t) \in Sample /\ OlderSample(t).sig = t.sig
         /\ OlderSample(t).age = Older(t.age, Window + 1)
<1>1. t.age \in 0..(Window + 1) /\ t = [sig |-> t.sig, age |-> t.age] /\ t.sig \in Sig
  BY DEF Sample
<1>2. Older(t.age, Window + 1) \in 0..(Window + 1)
  <2>1. Window + 1 \in Nat
    OBVIOUS
  <2> QED BY <1>1, <2>1, Aging
<1> QED BY <1>1, <1>2 DEF OlderSample, Sample

LEMMA SamplesAge ==
  ASSUME NEW s \in Seq(Sample)
  PROVE  /\ OlderSamples(s) \in Seq(Sample) /\ Len(OlderSamples(s)) = Len(s)
         /\ \A i \in 1..Len(s) :
              /\ OlderSamples(s)[i].sig = s[i].sig
              /\ OlderSamples(s)[i].age = Older(s[i].age, Window + 1)
<1>1. \A t \in Sample : /\ OlderSample(t) \in Sample /\ OlderSample(t).sig = t.sig
                        /\ OlderSample(t).age = Older(t.age, Window + 1)
  BY SampleAges
<1>2. /\ Len(s) \in Nat /\ DOMAIN s = 1..Len(s)
      /\ \A i \in 1..Len(s) : s[i] \in Sample
  BY SampleTypes, LenProperties
<1>3. OlderSamples(s) = [i \in 1..Len(s) |-> OlderSample(s[i])]
  BY <1>2 DEF OlderSamples
<1>4. \A i \in 1..Len(s) : OlderSample(s[i]) \in Sample
  BY <1>1, <1>2
<1>5. OlderSamples(s) \in Seq(Sample) /\ Len(OlderSamples(s)) = Len(s)
  BY <1>2, <1>3, <1>4
<1> QED BY <1>1, <1>2, <1>3, <1>5

(* Everything ages together.                                               *)
LEMMA OrderAges ==
  ASSUME NEW t \in Sample, NEW u \in Sample, NotYounger(t, u),
         NEW t1, NEW u1,
         t1.age = Older(t.age, Window + 1), u1.age = Older(u.age, Window + 1)
  PROVE  NotYounger(t1, u1)
BY Aging DEF NotYounger, Sample

-----------------------------------------------------------------------------
(* The steps.                                                              *)

LEMMA Starts == Init => IInv
<1> SUFFICES ASSUME Init PROVE IInv
  OBVIOUS
<1>1. Len(channel) = 0 /\ Len(window) = 0
  BY DEF Init
<1>2. TypeOK
  <2>1. wire \in [Sig -> 0..2] /\ seen \in [Sig -> 0..(DedupeTtl + 1) \cup {None}]
    BY DEF Init
  <2>2. channel \in Seq(Sample) /\ window \in Seq(Sample)
    BY DEF Init
  <2>3. landing \in [age : 0..MinInterval, confirmed : BOOLEAN] /\ cooldown \in 0..MinInterval
    BY DEF Init
  <2>4. Len(channel) <= Capacity
    BY <1>1
  <2>5. /\ patched \in BOOLEAN /\ link \in BOOLEAN /\ loose \in BOOLEAN
        /\ held \in Sample \cup {None} /\ alert \in Alert \cup {None}
    BY DEF Init
  <2> QED BY <2>1, <2>2, <2>3, <2>4, <2>5 DEF TypeOK
<1>3. Pipeline
  <2>1. held = None
    BY DEF Init
  <2> QED BY <1>1, <2>1 DEF Pipeline, Ordered, Sorted, KnownIn, Once
<1>4. Spaced
  BY DEF Init, Spaced
<1> QED BY <1>2, <1>3, <1>4 DEF IInv

(* What is left as it is keeps its properties.                             *)
LEMMA PipelineRests ==
  ASSUME Pipeline, UNCHANGED <<held, channel, seen, window>>
  PROVE  Pipeline'
BY DEF Pipeline, Ordered, Sorted, KnownIn, Once, NotYounger, Fresh

LEMMA SpacedRests ==
  ASSUME Spaced, UNCHANGED <<alert, cooldown, landing>>
  PROVE  Spaced'
BY DEF Spaced

LEMMA PreviewKeeps ==
  ASSUME IInv, NEW s \in Sig, Preview(s)
  PROVE  IInv'
<1>1. TypeOK'
  BY DEF IInv, TypeOK, Preview, detector
<1>2. Pipeline'
  BY PipelineRests DEF IInv, Preview, detector
<1>3. Spaced'
  BY SpacedRests DEF IInv, Preview
<1> QED BY <1>1, <1>2, <1>3 DEF IInv

LEMMA DeliverKeeps ==
  ASSUME IInv, NEW s \in Sig, Deliver(s)
  PROVE  IInv'
<1>1. held' \in Sample /\ held'.age = 0
  BY DEF Deliver, Sample
<1>2. TypeOK'
  <2>1. wire' \in [Sig -> 0..2]
    BY DEF IInv, TypeOK, Deliver
  <2> QED BY <1>1, <2>1 DEF IInv, TypeOK, Deliver, detector
<1>3. Pipeline'
  <2>1. /\ \A i \in 1..Len(window) : window[i].age \in 0..(Window + 1)
        /\ \A i \in 1..Len(channel) : channel[i].age \in 0..(Window + 1)
    BY SampleTypes DEF IInv, TypeOK
  <2>2. /\ \A i \in 1..Len(window) : NotYounger(window[i], held')
        /\ \A i \in 1..Len(channel) : NotYounger(channel[i], held')
    BY <1>1, <2>1 DEF NotYounger
  <2> QED BY <2>2 DEF IInv, Pipeline, Ordered, Sorted, KnownIn, Once, NotYounger, Fresh,
                      Deliver, detector
<1>4. Spaced'
  BY SpacedRests DEF IInv, Deliver
<1> QED BY <1>2, <1>3, <1>4 DEF IInv

LEMMA EnqueueKeeps ==
  ASSUME IInv, Enqueue
  PROVE  IInv'
<1>1. held \in Sample /\ channel \in Seq(Sample) /\ Len(channel) \in Nat
  BY SampleTypes DEF IInv, TypeOK, Enqueue
<1>2. /\ channel' \in Seq(Sample) /\ Len(channel') = Len(channel) + 1
      /\ \A i \in 1..Len(channel) : channel'[i] = channel[i]
      /\ channel'[Len(channel) + 1] = held
  BY <1>1, AppendProperties DEF Enqueue
<1>3. TypeOK'
  BY <1>1, <1>2 DEF IInv, TypeOK, Enqueue, Room, detector
<1>4. Sorted(channel')
  <2> SUFFICES ASSUME NEW i \in 1..(Len(channel) + 1), NEW j \in 1..(Len(channel) + 1), i < j
               PROVE  NotYounger(channel'[i], channel'[j])
    BY <1>2 DEF Sorted
  <2>1. i \in 1..Len(channel) /\ (j \in 1..Len(channel) \/ j = Len(channel) + 1)
    BY <1>1
  <2> QED BY <2>1, <1>2 DEF IInv, Pipeline, Ordered, Sorted, Enqueue
<1>5. \A i \in 1..Len(window), j \in 1..Len(channel') : NotYounger(window[i], channel'[j])
  <2> SUFFICES ASSUME NEW i \in 1..Len(window), NEW j \in 1..(Len(channel) + 1)
               PROVE  NotYounger(window[i], channel'[j])
    BY <1>2
  <2>1. j \in 1..Len(channel) \/ j = Len(channel) + 1
    BY <1>1
  <2> QED BY <2>1, <1>2 DEF IInv, Pipeline, Ordered, Enqueue
<1>6. Pipeline'
  <2>1. UNCHANGED <<window, seen>> /\ held' = None
    BY DEF Enqueue, detector
  <2> QED BY <2>1, <1>4, <1>5 DEF IInv, Pipeline, Ordered, Sorted, KnownIn, Once, NotYounger, Fresh
<1>7. Spaced'
  BY SpacedRests DEF IInv, Enqueue
<1> QED BY <1>3, <1>6, <1>7 DEF IInv

LEMMA LinkKeeps ==
  ASSUME IInv, Disconnect \/ Reconnect
  PROVE  IInv'
<1>1. TypeOK'
  <2>1. wire' \in [Sig -> 0..2] /\ link' \in BOOLEAN
    <3>1. wire' = wire \/ wire' = [s \in Sig |-> 0]
      BY DEF Disconnect, Reconnect
    <3>2. link' \in BOOLEAN
      BY DEF Disconnect, Reconnect
    <3> QED BY <3>1, <3>2 DEF IInv, TypeOK
  <2>2. UNCHANGED <<patched, held, channel, seen, window, alert, cooldown, loose, landing>>
    BY DEF Disconnect, Reconnect, detector
  <2> QED BY <2>1, <2>2 DEF IInv, TypeOK
<1>2. Pipeline'
  BY PipelineRests DEF IInv, Disconnect, Reconnect, detector
<1>3. Spaced'
  BY SpacedRests DEF IInv, Disconnect, Reconnect
<1> QED BY <1>1, <1>2, <1>3 DEF IInv

-----------------------------------------------------------------------------
(* The loop takes an event off the queue.                                  *)

LEMMA ReceiveKeeps ==
  ASSUME IInv, Receive
  PROVE  IInv'
<1> DEFINE event == Head(channel)
<1>1. /\ channel \in Seq(Sample) /\ channel # <<>> /\ window \in Seq(Sample)
      /\ seen \in [Sig -> 0..(DedupeTtl + 1) \cup {None}]
      /\ alert = None
  BY DEF IInv, TypeOK, Receive
<1>2. /\ channel' \in Seq(Sample) /\ Len(channel') = Len(channel) - 1
      /\ \A i \in 1..(Len(channel) - 1) : channel'[i] = channel[i + 1]
      /\ event = channel[1] /\ event \in Sample
      /\ Len(channel) \in Nat /\ Len(channel) >= 1
  <2>1. Len(channel) \in Nat /\ Len(channel) # 0
    BY <1>1, EmptySeq, LenProperties
  <2> QED BY <1>1, <2>1, HeadTailProperties, ElementOfSeq DEF Receive
<1> HIDE DEF event
<1>3. Remembered \in [Sig -> 0..(DedupeTtl + 1) \cup {None}]
  BY <1>1 DEF Remembered
<1>4. /\ Sorted(channel')
      /\ \A j \in 1..Len(channel') : NotYounger(event, channel'[j])
      /\ \A i \in 1..Len(window) : NotYounger(window[i], event)
      /\ \A i \in 1..Len(window), j \in 1..Len(channel') : NotYounger(window[i], channel'[j])
      /\ held # None => \A j \in 1..Len(channel') : NotYounger(channel'[j], held)
      /\ held # None => NotYounger(event, held)
  <2>1. \A i \in 1..Len(channel') : /\ i + 1 \in 1..Len(channel)
                                     /\ channel'[i] = channel[i + 1]
    BY <1>2
  <2>2. 1 \in 1..Len(channel)
    BY <1>2
  <2>3. Sorted(channel')
    <3> SUFFICES ASSUME NEW i \in 1..Len(channel'), NEW j \in 1..Len(channel'), i < j
                 PROVE  NotYounger(channel'[i], channel'[j])
      BY DEF Sorted
    <3>1. i + 1 < j + 1
      BY <1>2
    <3> QED BY <2>1, <3>1 DEF IInv, Pipeline, Ordered, Sorted
  <2>4. \A j \in 1..Len(channel') : NotYounger(event, channel'[j])
    <3> SUFFICES ASSUME NEW j \in 1..Len(channel') PROVE NotYounger(event, channel'[j])
      OBVIOUS
    <3>1. 1 < j + 1
      BY <1>2
    <3> QED BY <1>2, <2>1, <2>2, <3>1 DEF IInv, Pipeline, Ordered, Sorted
  <2>5. \A i \in 1..Len(window) : NotYounger(window[i], event)
    BY <1>2, <2>2 DEF IInv, Pipeline, Ordered
  <2> QED BY <1>2, <2>1, <2>2, <2>3, <2>4, <2>5 DEF IInv, Pipeline, Ordered
<1>5. CASE Remembered[event.sig] # None
  <2>1. UNCHANGED <<patched, wire, link, held, window, alert, cooldown, loose, landing>>
    BY <1>5 DEF Receive, subscriber, event
  <2>2. seen' = Remembered
    BY <1>5 DEF Receive, event
  <2>3. TypeOK'
    <3>1. Len(channel') <= Capacity
      BY <1>2 DEF IInv, TypeOK
    <3> QED BY <1>2, <1>3, <2>1, <2>2, <3>1 DEF IInv, TypeOK
  <2>4. KnownIn(seen', window)
    <3> SUFFICES ASSUME NEW i \in 1..Len(window), Fresh(window[i])
                 PROVE  /\ Remembered[window[i].sig] # None
                        /\ Remembered[window[i].sig] <= window[i].age
      BY <2>2 DEF KnownIn
    <3>1. window[i].sig \in Sig /\ window[i].age \in 0..(Window + 1)
      BY <1>1, SampleTypes
    <3>2. seen[window[i].sig] # None /\ seen[window[i].sig] <= window[i].age
      BY DEF IInv, Pipeline, KnownIn
    <3>3. seen[window[i].sig] <= DedupeTtl
      BY <1>1, <3>1, <3>2 DEF Fresh
    <3> QED BY <3>1, <3>2, <3>3 DEF Remembered, Duplicate
  <2>5. Pipeline'
    BY <1>4, <2>1, <2>4 DEF IInv, Pipeline, Ordered, Sorted, KnownIn, Once, NotYounger, Fresh
  <2>6. Spaced'
    BY <2>1, SpacedRests DEF IInv
  <2> QED BY <2>3, <2>5, <2>6 DEF IInv
<1>6. CASE Remembered[event.sig] = None
  <2>1. /\ UNCHANGED <<patched, wire, link, held, cooldown, loose, landing>>
        /\ seen' = [Remembered EXCEPT ![event.sig] = 0]
        /\ window' = Evicted(Append(window, event))
        /\ \E tier \in Tier : Raise(tier)
    <3>1. Judged(Pushed(event)) \subseteq Tier
      BY DEF Judged, Tier
    <3> QED BY <1>6, <3>1 DEF Receive, subscriber, Pushed, event
  <2>2. alert' \in Alert \cup {None} /\ (alert' # None => alert'.stage = "deciding")
    BY <1>1, <2>1 DEF Raise, Tier, Alert
  <2>3. ~(seen[event.sig] # None /\ seen[event.sig] <= DedupeTtl)
    BY <1>2, <1>6 DEF Remembered, Duplicate, Sample
  <2>4. /\ window' \in Seq(Sample) /\ Sorted(window') /\ Once(window')
        /\ \A i \in 1..Len(window') :
             /\ NotYounger(window'[i], event)
             /\ \/ window'[i].sig = event.sig
                \/ /\ seen[window'[i].sig] # None /\ seen[window'[i].sig] <= window'[i].age
                   /\ seen[window'[i].sig] <= DedupeTtl
    <3>1. Sorted(window) /\ KnownIn(seen, window) /\ Once(window)
      BY DEF IInv, Pipeline, Ordered
    <3>2. /\ event \in Sample
          /\ \A i \in 1..Len(window) : NotYounger(window[i], event)
      BY <1>2, <1>4
    <3>6. /\ window \in Seq(Sample)
          /\ seen \in [Sig -> 0..(DedupeTtl + 1) \cup {None}]
      BY DEF IInv, TypeOK
    <3> HIDE DEF event
    <3>3. PICK w : w = Evicted(Append(window, event))
      OBVIOUS
    <3>4. /\ w \in Seq(Sample) /\ Sorted(w) /\ Once(w)
          /\ \A i \in 1..Len(w) :
               /\ NotYounger(w[i], event)
               /\ \/ w[i].sig = event.sig
                  \/ /\ seen[w[i].sig] # None /\ seen[w[i].sig] <= w[i].age
                     /\ seen[w[i].sig] <= DedupeTtl
      BY <2>3, <3>1, <3>2, <3>3, <3>6, PushKeeps
    <3>5. window' = w
      BY <2>1, <3>3
    <3> QED BY <3>4, <3>5
  <2>5. event.sig \in Sig /\ event.age \in 0..(Window + 1)
        /\ \A i \in 1..Len(window') : /\ window'[i].sig \in Sig
                                       /\ window'[i].age \in 0..(Window + 1)
    BY <1>2, <2>4, SampleTypes DEF Sample
  <2>6. TypeOK'
    <3>1. Len(channel') <= Capacity
      BY <1>2 DEF IInv, TypeOK
    <3>2. seen' \in [Sig -> 0..(DedupeTtl + 1) \cup {None}]
      <4>1. 0 \in 0..(DedupeTtl + 1)
        OBVIOUS
      <4> QED BY <1>3, <2>1, <4>1
    <3> QED BY <1>2, <2>1, <2>2, <2>4, <3>1, <3>2 DEF IInv, TypeOK
  <2>7. KnownIn(seen', window')
    <3> SUFFICES ASSUME NEW i \in 1..Len(window')
                 PROVE  /\ seen'[window'[i].sig] # None
                        /\ seen'[window'[i].sig] <= window'[i].age
      BY DEF KnownIn
    <3>1. CASE window'[i].sig = event.sig
      BY <1>3, <2>1, <2>5, <3>1
    <3>2. CASE window'[i].sig # event.sig
      <4>1. seen'[window'[i].sig] = Remembered[window'[i].sig]
        BY <1>3, <2>1, <2>5, <3>2
      <4> QED BY <2>4, <2>5, <3>2, <4>1 DEF Remembered, Duplicate
    <3> QED BY <3>1, <3>2
  <2>8. /\ \A i \in 1..Len(window'), j \in 1..Len(channel') : NotYounger(window'[i], channel'[j])
        /\ held # None => \A i \in 1..Len(window') : NotYounger(window'[i], held)
    <3>1. /\ \A j \in 1..Len(channel') : channel'[j].age \in 0..(Window + 1)
          /\ held # None => held.age \in 0..(Window + 1)
      BY <1>2, SampleTypes DEF IInv, TypeOK, Sample
    <3>2. \A i \in 1..Len(window') : window'[i].age >= event.age
      BY <2>4 DEF NotYounger
    <3>3. /\ \A j \in 1..Len(channel') : event.age >= channel'[j].age
          /\ held # None => event.age >= held.age
      BY <1>4 DEF NotYounger
    <3>4. \A i \in 1..Len(window'), j \in 1..Len(channel') :
            window'[i].age >= channel'[j].age
      <4> SUFFICES ASSUME NEW i \in 1..Len(window'), NEW j \in 1..Len(channel')
                   PROVE  window'[i].age >= channel'[j].age
        OBVIOUS
      <4>1. PICK a, b, e : a = window'[i].age /\ b = channel'[j].age /\ e = event.age
        OBVIOUS
      <4>2. a >= e /\ e >= b
        BY <3>2, <3>3, <4>1
      <4>3. a \in Int /\ b \in Int /\ e \in Int
        BY <2>5, <3>1, <4>1
      <4> QED BY <4>1, <4>2, <4>3
    <3>5. held # None => \A i \in 1..Len(window') : window'[i].age >= held.age
      BY <2>5, <3>1, <3>2, <3>3
    <3> QED BY <3>4, <3>5 DEF NotYounger
  <2>9. Pipeline'
    <3>1. held' = held
      BY <2>1
    <3> QED BY <1>4, <2>4, <2>7, <2>8, <3>1
            DEF Pipeline, Ordered, Sorted, KnownIn, Once, NotYounger, Fresh
  <2>10. Spaced'
    BY <2>1, <2>2 DEF IInv, Spaced
  <2> QED BY <2>6, <2>9, <2>10 DEF IInv
<1> QED BY <1>5, <1>6

-----------------------------------------------------------------------------
(* The loop is busy with an alert, and the surroundings.                   *)

LEMMA AlertTypes ==
  ASSUME TypeOK
  PROVE  /\ alert # None =>
              /\ \A stage \in {"deciding", "sending", "landed"} :
                   /\ [alert EXCEPT !.stage = stage] \in Alert
                   /\ [alert EXCEPT !.stage = stage].stage = stage
              /\ alert \in Alert
         /\ \A c \in BOOLEAN, a \in 0..MinInterval :
              [age |-> a, confirmed |-> c] \in [age : 0..MinInterval, confirmed : BOOLEAN]
         /\ \A c \in BOOLEAN :
              /\ [landing EXCEPT !.confirmed = c] \in [age : 0..MinInterval, confirmed : BOOLEAN]
              /\ [landing EXCEPT !.confirmed = c].confirmed = c
              /\ [landing EXCEPT !.confirmed = c].age = landing.age
         /\ landing.age \in 0..MinInterval /\ landing.confirmed \in BOOLEAN
         /\ 0 \in 0..MinInterval
<1>1. alert # None =>
        /\ \A stage \in {"deciding", "sending", "landed"} :
             /\ [alert EXCEPT !.stage = stage] \in Alert
             /\ [alert EXCEPT !.stage = stage].stage = stage
        /\ alert \in Alert
  BY DEF TypeOK, Alert
<1>2. landing \in [age : 0..MinInterval, confirmed : BOOLEAN] /\ MinInterval \in Nat
  BY DEF TypeOK
<1>3. \A c \in BOOLEAN, a \in 0..MinInterval :
        [age |-> a, confirmed |-> c] \in [age : 0..MinInterval, confirmed : BOOLEAN]
  OBVIOUS
<1>4. \A c \in BOOLEAN :
        /\ [landing EXCEPT !.confirmed = c] \in [age : 0..MinInterval, confirmed : BOOLEAN]
        /\ [landing EXCEPT !.confirmed = c].confirmed = c
        /\ [landing EXCEPT !.confirmed = c].age = landing.age
  BY <1>2
<1>5. landing.age \in 0..MinInterval /\ landing.confirmed \in BOOLEAN
  BY <1>2
<1>6. 0 \in 0..MinInterval
  BY <1>2
<1> QED BY <1>1, <1>3, <1>4, <1>5, <1>6

LEMMA LoopKeeps ==
  ASSUME IInv, (\E act \in BOOLEAN : Decide(act)) \/ Land \/ Confirm \/ Fail \/ LandLate \/ Reset
  PROVE  IInv'
<1>1. UNCHANGED <<wire, link, held, channel, seen, window>>
  BY DEF Decide, Land, Confirm, Fail, LandLate, Reset, subscriber, detector
<1>2. Pipeline'
  BY <1>1, PipelineRests DEF IInv
<1>3. /\ patched' \in BOOLEAN /\ loose' \in BOOLEAN
      /\ alert' \in Alert \cup {None} /\ cooldown' \in 0..MinInterval
      /\ landing' \in [age : 0..MinInterval, confirmed : BOOLEAN]
      /\ Spaced'
  <2>0. /\ patched \in BOOLEAN /\ loose \in BOOLEAN
        /\ alert \in Alert \cup {None} /\ cooldown \in 0..MinInterval
        /\ landing \in [age : 0..MinInterval, confirmed : BOOLEAN]
        /\ Spaced
    BY DEF IInv, TypeOK
  <2>1. ASSUME NEW act \in BOOLEAN, Decide(act)
        PROVE  /\ patched' \in BOOLEAN /\ loose' \in BOOLEAN
               /\ alert' \in Alert \cup {None} /\ cooldown' \in 0..MinInterval
               /\ landing' \in [age : 0..MinInterval, confirmed : BOOLEAN]
               /\ Spaced'
    <3>1. UNCHANGED <<patched, loose, landing>>
      BY <2>1 DEF Decide
    <3>2. CASE alert' = None /\ UNCHANGED cooldown
      BY <2>0, <3>1, <3>2 DEF Spaced
    <3>3. CASE alert' = [alert EXCEPT !.stage = "sending"] /\ UNCHANGED cooldown /\ ~Cooling
      <4>1. alert' \in Alert
        BY <2>1, <3>3, AlertTypes DEF IInv, Decide
      <4>2. cooldown = MinInterval
        BY <2>0, <3>3 DEF Cooling
      <4> QED BY <2>0, <3>1, <3>3, <4>1, <4>2 DEF Spaced
    <3>4. CASE alert' = None /\ cooldown' = 0
      <4>1. landing.age \in 0..MinInterval /\ 0 \in 0..MinInterval
        BY AlertTypes DEF IInv
      <4> QED BY <2>0, <3>1, <3>4, <4>1 DEF Spaced
    <3> QED BY <2>1, <3>2, <3>3, <3>4 DEF Decide
  <2>2. ASSUME Land
        PROVE  /\ patched' \in BOOLEAN /\ loose' \in BOOLEAN
               /\ alert' \in Alert \cup {None} /\ cooldown' \in 0..MinInterval
               /\ landing' \in [age : 0..MinInterval, confirmed : BOOLEAN]
               /\ Spaced'
    <3>1. alert' \in Alert /\ alert'.stage = "landed"
      BY <2>2, AlertTypes DEF IInv, Land
    <3>2. landing' \in [age : 0..MinInterval, confirmed : BOOLEAN] /\ ~landing'.confirmed
      BY <2>2, AlertTypes DEF IInv, Land
    <3> QED BY <2>0, <2>2, <3>1, <3>2 DEF Land, Spaced
  <2>3. ASSUME Confirm
        PROVE  /\ patched' \in BOOLEAN /\ loose' \in BOOLEAN
               /\ alert' \in Alert \cup {None} /\ cooldown' \in 0..MinInterval
               /\ landing' \in [age : 0..MinInterval, confirmed : BOOLEAN]
               /\ Spaced'
    <3>1. /\ landing' \in [age : 0..MinInterval, confirmed : BOOLEAN]
          /\ landing'.age = landing.age /\ landing.age \in 0..MinInterval
          /\ 0 \in 0..MinInterval
      BY <2>3, AlertTypes DEF IInv, Confirm
    <3> QED BY <2>0, <2>3, <3>1 DEF Confirm, Spaced
  <2>4. ASSUME Fail
        PROVE  /\ patched' \in BOOLEAN /\ loose' \in BOOLEAN
               /\ alert' \in Alert \cup {None} /\ cooldown' \in 0..MinInterval
               /\ landing' \in [age : 0..MinInterval, confirmed : BOOLEAN]
               /\ Spaced'
    <3>1. alert' = None /\ loose' \in BOOLEAN /\ UNCHANGED <<patched, cooldown, landing>>
      BY <2>0, <2>4 DEF Fail, GivenUp
    <3> QED BY <2>0, <3>1 DEF Spaced
  <2>5. ASSUME LandLate
        PROVE  /\ patched' \in BOOLEAN /\ loose' \in BOOLEAN
               /\ alert' \in Alert \cup {None} /\ cooldown' \in 0..MinInterval
               /\ landing' \in [age : 0..MinInterval, confirmed : BOOLEAN]
               /\ Spaced'
    <3>1. /\ patched' \in BOOLEAN /\ loose' \in BOOLEAN
          /\ UNCHANGED <<alert, cooldown, landing>>
      BY <2>5 DEF LandLate
    <3> QED BY <2>0, <3>1 DEF Spaced
  <2>6. ASSUME Reset
        PROVE  /\ patched' \in BOOLEAN /\ loose' \in BOOLEAN
               /\ alert' \in Alert \cup {None} /\ cooldown' \in 0..MinInterval
               /\ landing' \in [age : 0..MinInterval, confirmed : BOOLEAN]
               /\ Spaced'
    <3>1. patched' \in BOOLEAN /\ UNCHANGED <<loose, alert, cooldown, landing>>
      BY <2>6 DEF Reset
    <3> QED BY <2>0, <3>1 DEF Spaced
  <2> QED BY <2>1, <2>2, <2>3, <2>4, <2>5, <2>6
<1>4. TypeOK'
  BY <1>1, <1>3 DEF IInv, TypeOK
<1> QED BY <1>2, <1>3, <1>4 DEF IInv

LEMMA RestartKeeps ==
  ASSUME IInv, Restart
  PROVE  IInv'
<1>1. Len(channel') = 0 /\ Len(window') = 0 /\ held' = None /\ alert' = None
  BY DEF Restart
<1>2. TypeOK'
  <2>1. wire' \in [Sig -> 0..2] /\ seen' \in [Sig -> 0..(DedupeTtl + 1) \cup {None}]
    BY DEF Restart
  <2>2. channel' \in Seq(Sample) /\ window' \in Seq(Sample) /\ Len(channel') <= Capacity
    BY <1>1 DEF Restart
  <2>3. landing' \in [age : 0..MinInterval, confirmed : BOOLEAN]
    BY AlertTypes DEF IInv, Restart
  <2>4. patched' \in BOOLEAN /\ link' \in BOOLEAN /\ loose' \in BOOLEAN
    BY DEF IInv, TypeOK, Restart
  <2>5. cooldown' \in 0..MinInterval
    BY DEF Restart
  <2> QED BY <1>1, <2>1, <2>2, <2>3, <2>4, <2>5 DEF TypeOK
<1>3. Pipeline'
  BY <1>1 DEF Pipeline, Ordered, Sorted, KnownIn, Once
<1>4. Spaced'
  <2>1. ~landing'.confirmed
    BY AlertTypes DEF IInv, Restart
  <2> QED BY <1>1, <2>1 DEF Spaced
<1> QED BY <1>2, <1>3, <1>4 DEF IInv

LEMMA TickKeeps ==
  ASSUME IInv, Tick
  PROVE  IInv'
<1>1. /\ channel \in Seq(Sample) /\ window \in Seq(Sample)
      /\ seen \in [Sig -> 0..(DedupeTtl + 1) \cup {None}]
      /\ held \in Sample \cup {None} /\ cooldown \in 0..MinInterval
      /\ landing \in [age : 0..MinInterval, confirmed : BOOLEAN]
  BY DEF IInv, TypeOK
<1>2. /\ channel' \in Seq(Sample) /\ Len(channel') = Len(channel)
      /\ \A i \in 1..Len(channel) : /\ channel'[i].sig = channel[i].sig
                                     /\ channel'[i].age = Older(channel[i].age, Window + 1)
                                     /\ channel[i] \in Sample
  BY <1>1, SamplesAge, SampleTypes DEF Tick
<1>3. /\ window' \in Seq(Sample) /\ Len(window') = Len(window)
      /\ \A i \in 1..Len(window) : /\ window'[i].sig = window[i].sig
                                    /\ window'[i].age = Older(window[i].age, Window + 1)
                                    /\ window[i] \in Sample
  BY <1>1, SamplesAge, SampleTypes DEF Tick
<1>4. held' # None => /\ held' \in Sample /\ held # None /\ held \in Sample
                      /\ held'.age = Older(held.age, Window + 1)
  <2> SUFFICES ASSUME held' # None
               PROVE  /\ held' \in Sample /\ held # None /\ held \in Sample
                      /\ held'.age = Older(held.age, Window + 1)
    OBVIOUS
  <2>1. held # None /\ held \in Sample /\ held' = OlderSample(held)
    BY <1>1 DEF Tick
  <2> QED BY <2>1, SampleAges
<1>5. Ordered'
  <2>1. Sorted(window')
    BY <1>3, OrderAges DEF IInv, Pipeline, Ordered, Sorted
  <2>2. Sorted(channel')
    BY <1>2, OrderAges DEF IInv, Pipeline, Ordered, Sorted
  <2>3. \A i \in 1..Len(window'), j \in 1..Len(channel') : NotYounger(window'[i], channel'[j])
    BY <1>2, <1>3, OrderAges DEF IInv, Pipeline, Ordered
  <2>4. held' # None =>
          /\ \A i \in 1..Len(window') : NotYounger(window'[i], held')
          /\ \A j \in 1..Len(channel') : NotYounger(channel'[j], held')
    <3> SUFFICES ASSUME held' # None
                 PROVE  /\ \A i \in 1..Len(window') : NotYounger(window'[i], held')
                        /\ \A j \in 1..Len(channel') : NotYounger(channel'[j], held')
      OBVIOUS
    <3>1. ASSUME NEW i \in 1..Len(window') PROVE NotYounger(window'[i], held')
      <4>1. NotYounger(window[i], held) /\ window[i] \in Sample
        BY <1>3, <1>4 DEF IInv, Pipeline, Ordered
      <4> QED BY <1>3, <1>4, <4>1, OrderAges
    <3>2. ASSUME NEW j \in 1..Len(channel') PROVE NotYounger(channel'[j], held')
      <4>1. NotYounger(channel[j], held) /\ channel[j] \in Sample
        BY <1>2, <1>4 DEF IInv, Pipeline, Ordered
      <4> QED BY <1>2, <1>4, <4>1, OrderAges
    <3> QED BY <3>1, <3>2
  <2> QED BY <2>1, <2>2, <2>3, <2>4 DEF Ordered, Sorted, NotYounger
<1>6. KnownIn(seen', window')
  <2> SUFFICES ASSUME NEW i \in 1..Len(window), Fresh(window'[i])
               PROVE  /\ seen'[window[i].sig] # None
                      /\ seen'[window[i].sig] <= window'[i].age
    BY <1>3 DEF KnownIn
  <2>1. window[i].sig \in Sig /\ window[i].age \in 0..(Window + 1)
    BY <1>3 DEF Sample
  <2>10. PICK was, is : was = window[i].age /\ is = window'[i].age
    OBVIOUS
  <2>11. was \in 0..(Window + 1) /\ is = Older(was, Window + 1) /\ is <= Window
    BY <1>3, <2>1, <2>10 DEF Fresh
  <2>12. was < Window /\ is = was + 1
    BY <2>11 DEF Older
  <2>2. window[i].age < Window /\ window'[i].age = window[i].age + 1
    BY <2>10, <2>12
  <2>3. seen[window[i].sig] # None /\ seen[window[i].sig] <= window[i].age
    BY <2>1, <2>2 DEF IInv, Pipeline, KnownIn, Fresh
  <2>6. PICK known, age : known = seen[window[i].sig] /\ age = window[i].age
    OBVIOUS
  <2>7. known \in Nat
    BY <1>1, <2>1, <2>3, <2>6
  <2>8. known <= age /\ age \in Nat /\ age < Window
    BY <2>1, <2>2, <2>3, <2>6
  <2>4. seen[window[i].sig] \in Nat /\ seen[window[i].sig] < DedupeTtl + 1
    BY <2>6, <2>7, <2>8
  <2>5. seen'[window[i].sig] = seen[window[i].sig] + 1
    BY <2>1, <2>3, <2>4 DEF Tick, Older
  <2>9. known + 1 # None /\ known + 1 <= age + 1
    BY <2>7, <2>8
  <2> QED BY <2>2, <2>5, <2>6, <2>9
<1>7. Once(window')
  BY <1>3 DEF IInv, Pipeline, Once
<1>8. TypeOK'
  <2>1. seen' \in [Sig -> 0..(DedupeTtl + 1) \cup {None}]
    <3>1. \A a \in 0..(DedupeTtl + 1) \cup {None} :
            Older(a, DedupeTtl + 1) \in 0..(DedupeTtl + 1) \cup {None}
      BY DEF Older
    <3> QED BY <1>1, <3>1 DEF Tick
  <2>2. cooldown' \in 0..MinInterval
    BY <1>1, Aging DEF Tick
  <2>3. landing' \in [age : 0..MinInterval, confirmed : BOOLEAN]
    <3>1. Older(landing.age, MinInterval) \in 0..MinInterval
      BY <1>1, Aging
    <3> QED BY <1>1, <3>1 DEF Tick
  <2>4. held' \in Sample \cup {None}
    BY <1>4
  <2> QED BY <1>2, <1>3, <2>1, <2>2, <2>3, <2>4 DEF IInv, TypeOK, Tick
<1>9. Spaced'
  <2>1. /\ landing'.confirmed = landing.confirmed
        /\ landing'.age = Older(landing.age, MinInterval)
        /\ cooldown' = Older(cooldown, MinInterval)
        /\ alert' = alert
    BY <1>1 DEF Tick
  <2>2. cooldown <= landing.age => cooldown' <= landing'.age
    BY <1>1, <2>1, Aging
  <2>3. cooldown = MinInterval => cooldown' = MinInterval
    BY <1>1, <2>1 DEF Older
  <2> QED BY <2>1, <2>2, <2>3 DEF IInv, Spaced
<1> QED BY <1>5, <1>6, <1>7, <1>8, <1>9 DEF IInv, Pipeline

LEMMA StepKeeps ==
  ASSUME IInv, [Next]_vars
  PROVE  IInv'
<1>1. CASE UNCHANGED vars
  <2>1. TypeOK' /\ Pipeline' /\ Spaced'
    BY <1>1, PipelineRests, SpacedRests DEF IInv, TypeOK, vars
  <2> QED BY <2>1 DEF IInv
<1>2. CASE Next
  <2>1. CASE \E s \in Sig : Preview(s)
    BY <2>1, PreviewKeeps
  <2>2. CASE Delivery
    BY <2>2, DeliverKeeps DEF Delivery
  <2>3. CASE LoopStep
    <3>1. ASSUME NEW act \in Decisions, Decide(act) PROVE IInv'
      BY <3>1, LoopKeeps DEF Decisions
    <3> QED BY <2>3, <3>1, ReceiveKeeps, LoopKeeps DEF LoopStep
  <2> QED BY <1>2, <2>1, <2>2, <2>3, EnqueueKeeps, LinkKeeps, LoopKeeps, RestartKeeps, TickKeeps
          DEF Next
<1> QED BY <1>1, <1>2

-----------------------------------------------------------------------------
(* The theorems.                                                           *)

(* The pipeline of detection_loop keeps its order and the dedupe its       *)
(* memory of everything in the window.                                     *)
THEOREM InvariantHolds == Spec => []IInv
<1>1. Init => IInv
  BY Starts
<1>2. IInv /\ [Next]_vars => IInv'
  BY StepKeeps
<1> QED BY <1>1, <1>2, PTL DEF Spec

(* The state keeps its types and the queue its capacity.                   *)
THEOREM TypesKept == Spec => []TypeOK
<1>1. IInv => TypeOK
  BY DEF IInv
<1> QED BY <1>1, InvariantHolds, PTL

(* No transaction is counted twice in the window that is judged            *)
(* (SignatureDedupe, SlidingWindow).                                       *)
THEOREM EventsCountOnce == Spec => []CountedOnce
<1>1. ASSUME IInv PROVE CountedOnce
  <2>1. DOMAIN window = 1..Len(window)
    BY <1>1, LenProperties DEF IInv, TypeOK
  <2> QED BY <1>1, <2>1 DEF IInv, Pipeline, Once, CountedOnce
<1> QED BY <1>1, InvariantHolds, PTL

(* A patch that follows a confirmed one lands a cooldown later             *)
(* (trigger_if_needed, execute_action).                                    *)
THEOREM PatchesKeepApart == Spec => PatchesAreSpaced
<1>1. ASSUME IInv, Land, landing.confirmed PROVE landing.age >= MinInterval
  BY <1>1 DEF IInv, Spaced, TypeOK, Land
<1>2. IInv /\ [Next]_vars => [Land /\ landing.confirmed => landing.age >= MinInterval]_vars
  BY <1>1
<1> QED BY <1>2, InvariantHolds, PTL DEF PatchesAreSpaced, Spec
=============================================================================
