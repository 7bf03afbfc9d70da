--------------------------- MODULE GraphStoreProofs ---------------------------
(***************************************************************************)
(* TLAPS proofs about GraphStore, for every set of wallets, edges and      *)
(* callers and every bound: durability of acknowledged events, and what a  *)
(* stored receipt certifies, under failed writes and crashes.              *)
(***************************************************************************)
EXTENDS GraphStore, TLAPS

(* The graph in memory contains the one in the file, once it is loaded.    *)
Covers(g, d) == d.version <= g.version /\ d.events \subseteq g.events

(* A filed receipt of the current version certifies the current graph.     *)
Truthful(g) ==
  \A a \in g.anchors : a.receipt.version = g.version => a.receipt = SnapshotOf(g)

(* The inductive invariant. The file must be covered by memory, or a write *)
(* could drop acknowledged events; versions told must not exceed the       *)
(* file's, or a restart could hand one out again; and a snapshot still in  *)
(* flight must be truthful, or filing it would break ReceiptTellsTruth.    *)
MemoryCoversFile == loaded /\ disk # None => Covers(mem, disk)

ToldWithinFile ==
  \A i \in DOMAIN acked : disk # None /\ acked[i].version <= disk.version

InFlightTruthful ==
  \A c \in Caller :
    pending[c] # None /\ pending[c].version = mem.version => pending[c] = SnapshotOf(mem)

Durable ==
  /\ TypeOK
  /\ MemoryCoversFile
  /\ ToldWithinFile
  /\ AcknowledgedSurvives
  /\ VersionsToldIncrease
  /\ Truthful(mem) /\ (disk # None => Truthful(disk))
  /\ InFlightTruthful

-----------------------------------------------------------------------------
LEMMA DefaultOK == GraphOK(defaultState) /\ Truthful(defaultState)
BY DEF GraphOK, Truthful, defaultState, Graph, Relations

(* Loading keeps events and version, and only drops superseded receipts.   *)
LEMMA HydratedOK ==
  ASSUME NEW d, GraphOK(d), Truthful(d)
  PROVE  /\ GraphOK(Hydrated(d)) /\ Truthful(Hydrated(d))
         /\ Hydrated(d).version = d.version /\ Hydrated(d).events = d.events
<1> DEFINE h == Hydrated(d)
<1>1. /\ h.version = d.version /\ h.events = d.events /\ h.relations = d.relations
      /\ h.anchors = Rekeyed(d.anchors)
      /\ h = [version |-> d.version, events |-> d.events, relations |-> d.relations,
              anchors |-> Rekeyed(d.anchors)]
  BY DEF Hydrated, GraphOK, Graph
<1>2. \A a \in Rekeyed(d.anchors) :
        /\ a \in Anchor /\ a.key = a.receipt.version
        /\ \E x \in d.anchors : a.receipt = x.receipt
  BY DEF Rekeyed, GraphOK, Graph, Anchor, Snapshot
<1>3. Rekeyed(d.anchors) \in SUBSET Anchor
  BY <1>2
<1>4. h \in Graph
  BY <1>1, <1>3 DEF GraphOK, Graph
<1>5. GraphOK(h)
  BY <1>1, <1>2, <1>4 DEF GraphOK
<1>6. Truthful(h)
  BY <1>1, <1>2 DEF Truthful, SnapshotOf
<1>7. QED
  BY <1>1, <1>5, <1>6

(* What every operation works on is well formed, truthful and covers the   *)
(* file.                                                                   *)
LEMMA StateOK ==
  ASSUME Durable
  PROVE  /\ GraphOK(State) /\ Truthful(State)
         /\ disk # None => Covers(State, disk)
<1>1. CASE loaded \/ disk = None
  BY <1>1 DEF Durable, State, TypeOK, MemoryCoversFile
<1>2. CASE ~loaded /\ disk # None
  <2>1. GraphOK(disk) /\ Truthful(disk) /\ disk.version \in Nat
    BY <1>2 DEF Durable, TypeOK, GraphOK, Graph
  <2>2. State = Hydrated(disk)
    BY <1>2 DEF State
  <2>3. QED
    BY <2>1, <2>2, HydratedOK DEF Covers
<1>3. QED
  BY <1>1, <1>2

-----------------------------------------------------------------------------
(* What a write does, whether or not it reaches the file.                  *)
Written ==
  /\ GraphOK(mem') /\ Truthful(mem') /\ loaded' = TRUE
  /\ disk' = None \/ GraphOK(disk')
  /\ disk' # None => Truthful(disk') /\ Covers(mem', disk')
  /\ disk # None => disk' # None /\ Covers(disk', disk)

LEMMA PersistOK ==
  ASSUME Durable, NEW next, NEW ok \in BOOLEAN, Persist(next, ok),
         GraphOK(next), Truthful(next), disk # None => Covers(next, disk)
  PROVE  Written
<1>1. next # None /\ Covers(next, next)
  BY NoneAssumption DEF GraphOK, Graph, Covers
<1>2. disk # None => Covers(disk, disk)
  BY DEF Durable, TypeOK, GraphOK, Graph, Covers
<1>3. CASE ok
  BY <1>1, <1>3 DEF Persist, Written
<1>4. CASE ~ok
  BY <1>1, <1>2, <1>4 DEF Persist, Written, Durable, TypeOK
<1>5. QED
  BY <1>3, <1>4

(* The acknowledgements stay durable when nobody is told anything new.     *)
Told ==
  /\ acked \in Seq(Ack)
  /\ ToldWithinFile /\ AcknowledgedSurvives /\ VersionsToldIncrease

LEMMA ToldKept ==
  ASSUME Durable, acked' = acked, disk # None => disk' # None /\ Covers(disk', disk),
         disk = None \/ disk'.version \in Nat
  PROVE  Told'
<1>1. acked' \in Seq(Ack) /\ VersionsToldIncrease'
  BY DEF Durable, TypeOK, VersionsToldIncrease
<1>2. \A i \in DOMAIN acked : acked[i].version \in Nat
  <2>1. acked \in Seq(Ack)
    BY DEF Durable, TypeOK
  <2>2. \A i \in DOMAIN acked : acked[i] \in Ack
    BY <2>1
  <2>3. QED
    BY <2>2 DEF Ack
<1>3. disk # None => disk.version \in Nat
  BY DEF Durable, TypeOK, GraphOK, Graph
<1>4. ToldWithinFile'
  BY <1>2, <1>3 DEF Durable, ToldWithinFile, Covers
<1>5. AcknowledgedSurvives'
  BY DEF Durable, AcknowledgedSurvives, Covers
<1>6. QED
  BY <1>1, <1>4, <1>5 DEF Told

(* A successful write is told a version above every earlier one.           *)
LEMMA ToldMore ==
  ASSUME Durable, Written,
         NEW version \in Nat, NEW event \in Event \cup {None},
         version > State.version,
         disk' # None, disk'.version = version, event # None => event \in disk'.events,
         acked' = Append(acked, [version |-> version, event |-> event])
  PROVE  Told'
<1> DEFINE ack == [version |-> version, event |-> event]
<1>1. acked \in Seq(Ack) /\ ack \in Ack
  BY DEF Durable, TypeOK, Ack
<1>a. DOMAIN acked = 1 .. Len(acked) /\ Len(acked) \in Nat
  BY <1>1
<1>b. \A i \in DOMAIN acked : acked[i] \in Ack
  BY <1>1
<1>2. /\ acked' \in Seq(Ack) /\ DOMAIN acked' = 1 .. Len(acked) + 1
      /\ DOMAIN acked = 1 .. Len(acked) /\ Len(acked) \in Nat
      /\ acked'[Len(acked) + 1] = ack
      /\ \A i \in DOMAIN acked : acked'[i] = acked[i] /\ acked[i] \in Ack
  <2> HIDE DEF ack
  <2>1. acked' = Append(acked, ack)
    BY DEF ack
  <2>2. QED
    BY <1>1, <1>a, <1>b, <2>1
<1>3. \A i \in DOMAIN acked :
        /\ disk # None /\ acked[i].version <= disk.version /\ disk.version <= State.version
        /\ disk.version \in Nat /\ State.version \in Nat /\ disk'.version \in Nat
  BY StateOK DEF Durable, ToldWithinFile, Covers, TypeOK, GraphOK, Graph
<1>c. \A i \in DOMAIN acked : acked[i].version \in Nat
  BY <1>b DEF Ack
<1>4. \A i \in DOMAIN acked : acked[i].version < version
  BY <1>3, <1>c
<1>5. ToldWithinFile'
  <2>1. \A i \in DOMAIN acked : acked'[i].version < version
    BY <1>2, <1>4
  <2>2. acked'[Len(acked) + 1].version = version
    BY <1>2
  <2>3. \A i \in DOMAIN acked' : i \in DOMAIN acked \/ i = Len(acked) + 1
    BY <1>2
  <2>4. \A i \in DOMAIN acked' : acked'[i].version \in Nat
    BY <2>2, <2>3, <1>2, <1>c
  <2>5. QED
    BY <2>1, <2>2, <2>3, <2>4 DEF ToldWithinFile
<1>6. AcknowledgedSurvives'
  BY <1>2, <1>3 DEF Durable, Written, Covers, AcknowledgedSurvives
<1>7. VersionsToldIncrease'
  <2> SUFFICES ASSUME NEW i \in DOMAIN acked', NEW j \in DOMAIN acked', i < j
               PROVE  acked'[i].version < acked'[j].version
    BY DEF VersionsToldIncrease
  <2>1. i \in DOMAIN acked
    BY <1>2
  <2>2. CASE j \in DOMAIN acked
    BY <1>2, <2>1, <2>2 DEF Durable, VersionsToldIncrease
  <2>3. CASE j = Len(acked) + 1
    BY <1>2, <1>4, <2>1, <2>3
  <2>4. QED
    BY <1>2, <2>2, <2>3
<1>8. QED
  BY <1>2, <1>5, <1>6, <1>7 DEF Told

-----------------------------------------------------------------------------
(* A change of the graph: a new version, with the old receipts.            *)
LEMMA ChangeOK ==
  ASSUME Durable, NEW next \in Graph,
         next.version = State.version + 1, next.anchors = State.anchors,
         State.events \subseteq next.events
  PROVE  /\ GraphOK(next) /\ Truthful(next)
         /\ disk # None => Covers(next, disk)
<1>1. /\ GraphOK(State) /\ State.version \in Nat
      /\ \A a \in State.anchors : a.key \in Nat /\ a.receipt.version \in Nat
  BY StateOK DEF GraphOK, Graph, Anchor, Snapshot
<1>2. GraphOK(next) /\ Truthful(next)
  BY <1>1 DEF GraphOK, Truthful
<1>3. disk # None => Covers(next, disk)
  BY <1>1, StateOK DEF Covers, Durable, TypeOK, GraphOK, Graph
<1>4. QED
  BY <1>2, <1>3

(* Snapshots in flight are older than the graph after a change.            *)
LEMMA InFlightOlder ==
  ASSUME Durable, pending' = pending, loaded' = TRUE,
         mem'.version = State.version + 1
  PROVE  /\ pending' \in [Caller -> Snapshot \cup {None}]
         /\ \A c \in Caller : pending'[c] # None => loaded' /\ pending'[c].version <= mem'.version
         /\ InFlightTruthful'
<1>1. State.version \in Nat
  BY StateOK DEF GraphOK, Graph
<1>2. ASSUME NEW c \in Caller, pending[c] # None
      PROVE  pending[c].version \in Nat /\ pending[c].version <= State.version
  BY <1>2 DEF Durable, TypeOK, State, Snapshot
<1>3. QED
  BY <1>1, <1>2 DEF Durable, TypeOK, InFlightTruthful

(* The parts of the invariant put together again after a write.            *)
LEMMA Reassemble ==
  ASSUME Written, Told', fresh' \in Nat,
         pending' \in [Caller -> Snapshot \cup {None}],
         \A c \in Caller : pending'[c] # None => loaded' /\ pending'[c].version <= mem'.version,
         InFlightTruthful'
  PROVE  Durable'
BY DEF Written, Told, Durable, TypeOK, MemoryCoversFile

LEMMA IngestKeeps ==
  ASSUME Durable, NEW w \in Wallet, NEW t \in EventType, NEW ok \in BOOLEAN,
         IngestGraphEvent(w, t, ok)
  PROVE  Durable' /\ Written
<1> DEFINE event == [id |-> fresh, wallet |-> w, type |-> t]
           version == State.version + 1
           next == [State EXCEPT !.events = @ \cup {event}, !.version = version]
<1>1. State \in Graph /\ version \in Nat /\ version > State.version
  BY StateOK DEF GraphOK, Graph
<1>2. fresh \in Nat /\ event \in Event
  BY DEF Durable, TypeOK, Event
<1>3. /\ next.version = version /\ next.events = State.events \cup {event}
      /\ next.relations = State.relations /\ next.anchors = State.anchors
      /\ next \in Graph
  BY <1>1, <1>2 DEF Graph
<1>4. Persist(next, ok) /\ fresh' \in Nat /\ pending' = pending
  BY <1>2 DEF IngestGraphEvent
<1>5. /\ GraphOK(next) /\ Truthful(next)
      /\ disk # None => Covers(next, disk)
  BY <1>3, ChangeOK
<1>6. Written
  BY <1>4, <1>5, PersistOK
<1>7. mem' = next /\ loaded' = TRUE
  BY <1>4 DEF Persist
<1>8. Told'
  <2>1. CASE ok
    <3>1. disk' = next /\ acked' = Append(acked, [version |-> version, event |-> event])
      BY <2>1, <1>4 DEF Persist, IngestGraphEvent, Acknowledge
    <3>2. disk' # None /\ disk'.version = version /\ event \in disk'.events
      BY <3>1, <1>3, NoneAssumption
    <3>3. QED
      BY <1>1, <1>2, <1>6, <3>1, <3>2, ToldMore
  <2>2. CASE ~ok
    <3>1. disk' = disk /\ acked' = acked
      BY <2>2, <1>4 DEF Persist, IngestGraphEvent, Acknowledge
    <3>2. disk # None => disk'.version \in Nat /\ Covers(disk', disk)
      BY <3>1, <1>6 DEF Written, Durable, TypeOK, GraphOK, Graph
    <3>3. QED
      BY <3>1, <3>2, ToldKept
  <2>3. QED
    BY <2>1, <2>2
<1>9. QED
  BY <1>3, <1>4, <1>6, <1>7, <1>8, InFlightOlder, Reassemble

LEMMA UpsertKeeps ==
  ASSUME Durable, NEW edge \in Edge, NEW weight \in Weight, NEW ok \in BOOLEAN,
         UpsertRelationEdge(edge, weight, ok)
  PROVE  Durable' /\ Written
<1> DEFINE version == State.version + 1
           next == [State EXCEPT !.relations = [@ EXCEPT ![edge] = weight],
                                 !.version = version]
<1>1. State \in Graph /\ version \in Nat /\ version > State.version
  BY StateOK DEF GraphOK, Graph
<1>2. [State.relations EXCEPT ![edge] = weight] \in Relations
  BY <1>1 DEF Graph, Relations
<1>3. /\ next.version = version /\ next.events = State.events
      /\ next.anchors = State.anchors /\ next \in Graph
  BY <1>1, <1>2 DEF Graph
<1>4. Persist(next, ok) /\ fresh' \in Nat /\ pending' = pending
  BY DEF UpsertRelationEdge, Durable, TypeOK
<1>5. /\ GraphOK(next) /\ Truthful(next)
      /\ disk # None => Covers(next, disk)
  BY <1>3, ChangeOK
<1>6. Written
  BY <1>4, <1>5, PersistOK
<1>7. mem' = next /\ loaded' = TRUE
  BY <1>4 DEF Persist
<1>8. Told'
  <2>1. CASE ok
    <3>1. disk' = next /\ acked' = Append(acked, [version |-> version, event |-> None])
      BY <2>1, <1>4 DEF Persist, UpsertRelationEdge, Acknowledge
    <3>2. disk' # None /\ disk'.version = version
      BY <3>1, <1>3, NoneAssumption
    <3>3. QED
      BY <1>1, <1>6, <3>1, <3>2, ToldMore
  <2>2. CASE ~ok
    <3>1. disk' = disk /\ acked' = acked
      BY <2>2, <1>4 DEF Persist, UpsertRelationEdge, Acknowledge
    <3>2. disk # None => disk'.version \in Nat /\ Covers(disk', disk)
      BY <3>1, <1>6 DEF Written, Durable, TypeOK, GraphOK, Graph
    <3>3. QED
      BY <3>1, <3>2, ToldKept
  <2>3. QED
    BY <2>1, <2>2
<1>9. QED
  BY <1>3, <1>4, <1>6, <1>7, <1>8, InFlightOlder, Reassemble

(* Filing a receipt changes neither events nor versions.                   *)
LEMMA AnchorStoreKeeps ==
  ASSUME Durable, NEW c \in Caller, NEW ok \in BOOLEAN, AnchorStore(c, ok)
  PROVE  Durable' /\ Written
<1> DEFINE filed == [key |-> mem.version, receipt |-> pending[c]]
           anchors == {a \in mem.anchors : a.key # filed.key} \cup {filed}
           next == [mem EXCEPT !.anchors = anchors]
<1>1. mem \in Graph /\ GraphOK(mem) /\ Truthful(mem) /\ mem.version \in Nat
  BY DEF Durable, TypeOK, GraphOK, Graph
<1>2. /\ pending[c] \in Snapshot /\ loaded /\ pending[c].version <= mem.version
      /\ pending[c].version = mem.version => pending[c] = SnapshotOf(mem)
  BY DEF AnchorStore, Durable, TypeOK, InFlightTruthful
<1>3. filed \in Anchor
  BY <1>1, <1>2 DEF Anchor
<1>4. anchors \in SUBSET Anchor
  BY <1>1, <1>3 DEF Graph
<1>5. /\ next.version = mem.version /\ next.events = mem.events
      /\ next.relations = mem.relations /\ next.anchors = anchors
      /\ next \in Graph
  <2> HIDE DEF anchors
  <2>1. QED
    BY <1>1, <1>4 DEF Graph
<1>6. GraphOK(next)
  BY <1>1, <1>2, <1>5 DEF GraphOK
<1>7. Truthful(next)
  BY <1>1, <1>2, <1>5 DEF Truthful, SnapshotOf
<1>8. disk # None => Covers(next, disk)
  BY <1>2, <1>5 DEF Durable, MemoryCoversFile, Covers
<1>9. Persist(next, ok) /\ acked' = acked /\ fresh' \in Nat
      /\ pending' = [pending EXCEPT ![c] = None]
  BY DEF AnchorStore, Durable, TypeOK
<1>10. Written
  BY <1>6, <1>7, <1>8, <1>9, PersistOK
<1>11. Told'
  <2>1. disk # None => disk'.version \in Nat /\ disk' # None /\ Covers(disk', disk)
    BY <1>10 DEF Written, GraphOK, Graph
  <2>2. QED
    BY <2>1, <1>9, ToldKept
<1>12. mem' = next /\ loaded' = TRUE
  BY <1>9 DEF Persist
<1>13. /\ pending' \in [Caller -> Snapshot \cup {None}]
       /\ \A d \in Caller : pending'[d] # None =>
            pending'[d] = pending[d] /\ pending[d] # None
  BY <1>9 DEF Durable, TypeOK
<1>14. SnapshotOf(next) = SnapshotOf(mem)
  BY <1>5 DEF SnapshotOf
<1>15. \A d \in Caller : pending'[d] # None => loaded' /\ pending'[d].version <= mem'.version
  BY <1>5, <1>12, <1>13 DEF Durable, TypeOK
<1>16. InFlightTruthful'
  BY <1>5, <1>12, <1>13, <1>14 DEF Durable, InFlightTruthful, SnapshotOf
<1>17. QED
  BY <1>9, <1>10, <1>11, <1>13, <1>15, <1>16, Reassemble

(* The steps that write nothing to the file.                               *)
LEMMA QuietKeeps ==
  ASSUME Durable,
         \/ ExportWalletGraph \/ Restart
         \/ \E c \in Caller : AnchorSend(c) \/ AnchorRejected(c)
  PROVE  Durable'
<1>1. /\ disk' = disk /\ acked' = acked /\ fresh' = fresh
      /\ disk # None => disk'.version \in Nat /\ disk' # None /\ Covers(disk', disk)
  BY DEF ExportWalletGraph, Restart, AnchorSend, AnchorRejected, Durable, TypeOK,
         GraphOK, Graph, Covers
<1>2. Told'
  BY <1>1, ToldKept
<1>3. GraphOK(State) /\ Truthful(State) /\ (disk # None => Covers(State, disk))
      /\ SnapshotOf(State) \in Snapshot /\ State.version \in Nat
      /\ SnapshotOf(State).version = State.version
  BY StateOK DEF GraphOK, Graph, SnapshotOf, Snapshot
<1>4. \A c \in Caller : pending[c] # None => loaded /\ State = mem
  BY DEF Durable, TypeOK, State
<1>5. CASE ExportWalletGraph
  <2>1. mem' = State /\ loaded' = TRUE /\ pending' = pending
    BY <1>5 DEF ExportWalletGraph
  <2>2. InFlightTruthful'
    BY <2>1, <1>4 DEF Durable, InFlightTruthful, SnapshotOf
  <2>3. QED
    BY <1>1, <1>2, <1>3, <1>4, <2>1, <2>2 DEF Durable, TypeOK, MemoryCoversFile, Told
<1>6. CASE Restart
  <2>1. mem' = defaultState /\ loaded' = FALSE /\ pending' = [c \in Caller |-> None]
    BY <1>6 DEF Restart
  <2>2. InFlightTruthful'
    BY <2>1 DEF InFlightTruthful
  <2>3. QED
    BY <1>1, <1>2, <2>1, <2>2, DefaultOK DEF Durable, TypeOK, MemoryCoversFile, Told
<1>7. ASSUME NEW c \in Caller, AnchorSend(c) PROVE Durable'
  <2>1. /\ mem' = State /\ loaded' = TRUE
        /\ pending' = [pending EXCEPT ![c] = SnapshotOf(State)]
    BY <1>7 DEF AnchorSend
  <2>2. /\ pending' \in [Caller -> Snapshot \cup {None}]
        /\ pending'[c] = SnapshotOf(State)
        /\ \A d \in Caller : d # c => pending'[d] = pending[d]
    BY <1>3, <2>1 DEF Durable, TypeOK
  <2>3. SnapshotOf(mem)' = SnapshotOf(State)
    BY <2>1 DEF SnapshotOf
  <2>4. InFlightTruthful'
    BY <2>1, <2>2, <2>3, <1>4 DEF Durable, InFlightTruthful
  <2>5. \A d \in Caller : pending'[d] # None => loaded' /\ pending'[d].version <= mem'.version
    BY <2>1, <2>2, <1>3, <1>4 DEF Durable, TypeOK
  <2>6. QED
    BY <1>1, <1>2, <1>3, <2>1, <2>2, <2>4, <2>5 DEF Durable, TypeOK, MemoryCoversFile, Told
<1>8. ASSUME NEW c \in Caller, AnchorRejected(c) PROVE Durable'
  <2>1. mem' = mem /\ loaded' = loaded /\ pending' = [pending EXCEPT ![c] = None]
    BY <1>8 DEF AnchorRejected
  <2>2. /\ pending' \in [Caller -> Snapshot \cup {None}]
        /\ \A d \in Caller : pending'[d] # None => pending'[d] = pending[d]
    BY <2>1 DEF Durable, TypeOK
  <2>3. InFlightTruthful'
    BY <2>1, <2>2 DEF Durable, InFlightTruthful, SnapshotOf
  <2>4. QED
    BY <1>1, <1>2, <2>1, <2>2, <2>3 DEF Durable, TypeOK, MemoryCoversFile, Told
<1>9. QED
  BY <1>5, <1>6, <1>7, <1>8

LEMMA DurableInit == Init => Durable
<1> SUFFICES ASSUME Init PROVE Durable
  OBVIOUS
<1>1. acked \in Seq(Ack) /\ DOMAIN acked = {}
  BY DEF Init
<1>2. QED
  BY <1>1, DefaultOK DEF Init, Durable, TypeOK, MemoryCoversFile, ToldWithinFile,
     AcknowledgedSurvives, VersionsToldIncrease, InFlightTruthful

LEMMA DurableStep == Durable /\ [Next]_vars => Durable'
<1> SUFFICES ASSUME Durable, [Next]_vars PROVE Durable'
  OBVIOUS
<1>1. CASE UNCHANGED vars
  BY <1>1 DEF vars, Durable, TypeOK, MemoryCoversFile, ToldWithinFile,
     AcknowledgedSurvives, VersionsToldIncrease, InFlightTruthful, SnapshotOf
<1>2. CASE Next
  BY <1>2, IngestKeeps, UpsertKeeps, AnchorStoreKeeps, QuietKeeps DEF Next
<1>3. QED
  BY <1>1, <1>2

-----------------------------------------------------------------------------
(* The inductive invariant holds in every reachable state.                 *)
THEOREM DurableHolds == Spec => []Durable
BY DurableInit, DurableStep, PTL DEF Spec

(* Every reachable state is well typed, and no receipt is of a version the *)
(* graph has not reached.                                                  *)
THEOREM TypesHold == Spec => []TypeOK
<1>1. Durable => TypeOK
  BY DEF Durable
<1>2. QED
  BY <1>1, DurableHolds, PTL

(* An acknowledged event is in the file in every later state, whatever     *)
(* writes fail and however often the process dies.                         *)
THEOREM NoAcknowledgedEventLost == Spec => []AcknowledgedSurvives
<1>1. Durable => AcknowledgedSurvives
  BY DEF Durable
<1>2. QED
  BY <1>1, DurableHolds, PTL

(* No two callers are told the same snapshot version.                      *)
THEOREM NoVersionToldTwice == Spec => []VersionsToldIncrease
<1>1. Durable => VersionsToldIncrease
  BY DEF Durable
<1>2. QED
  BY <1>1, DurableHolds, PTL

(* A receipt of the current version certifies the current graph.           *)
THEOREM ReceiptsAreTruthful == Spec => []ReceiptTellsTruth
<1>1. Durable => ReceiptTellsTruth
  BY StateOK DEF Truthful, ReceiptTellsTruth
<1>2. QED
  BY <1>1, DurableHolds, PTL

(* A write never drops what an earlier one stored.                         *)
THEOREM FileNeverShrinks == Spec => FileOnlyGrows
<1>1. ASSUME Durable, [Next]_vars
      PROVE  disk # None => disk' # None /\ disk.version <= disk'.version
                            /\ disk.events \subseteq disk'.events
  <2>1. CASE disk' = disk
    <3>1. disk # None => disk.version \in Nat
      BY <1>1 DEF Durable, TypeOK, GraphOK, Graph
    <3>2. QED
      BY <2>1, <3>1
  <2>2. CASE Written
    BY <2>2 DEF Written, Covers
  <2>3. disk' = disk \/ Written
    BY <1>1, IngestKeeps, UpsertKeeps, AnchorStoreKeeps
    DEF Next, vars, ExportWalletGraph, AnchorSend, AnchorRejected, Restart
  <2>4. QED
    BY <2>1, <2>2, <2>3
<1>2. Durable /\ [Next]_vars =>
        [disk # None => /\ disk' # None
                        /\ disk.version <= disk'.version
                        /\ disk.events \subseteq disk'.events]_vars
  BY <1>1
<1>3. QED
  BY <1>2, DurableHolds, PTL DEF Spec, FileOnlyGrows
=============================================================================
