------------------------------ MODULE GraphStore ------------------------------
(***************************************************************************)
(* The fan-pass graph store (services/fan-pass-hub/src/graph_store.ts): an *)
(* in-memory graph of events and relations with a snapshot version, a file *)
(* that is rewritten after every change, and anchoring of the current      *)
(* snapshot on a chain, which awaits the chain between two synchronous     *)
(* parts. Each synchronous part is one step of the single JavaScript       *)
(* thread. Writing the file may fail; the process may die between steps.   *)
(***************************************************************************)
EXTENDS Naturals, Sequences

CONSTANTS
  Wallet,
  EventType,
  Edge,        \* ids of relation edges: (from, type, to)
  Weight,      \* weights an edge may get, already rounded and clamped
  Caller,      \* concurrent calls of anchorCurrentSnapshot
  MaxEvent,    \* bound: events ingested in a behaviour
  MaxVersion,  \* bound: the last snapshot version
  None

ASSUME BoundAssumption == MaxEvent \in Nat /\ MaxVersion \in Nat

VARIABLES
  mem,      \* HubGraphState of the process
  loaded,   \* loadedFromDisk
  disk,     \* the persisted file, or None
  pending,  \* what each anchor call awaiting the chain has sent, or None
  fresh,    \* the next event id (randomUUID)
  acked     \* what callers were told is stored: versions, and events, since
            \* the last read of the file that failed

vars == <<mem, loaded, disk, pending, fresh, acked>>

Event == [id : Nat, wallet : Wallet, type : EventType]
Relations == [Edge -> Weight \cup {None}]

(* What a snapshot hash commits to (currentSnapshotHashHex).               *)
Snapshot == [version : Nat, events : SUBSET Event, relations : Relations]

(* An entry of anchorBySnapshotVersion: the receipt certifies a snapshot.  *)
Anchor == [key : Nat, receipt : Snapshot]

Graph == [version : Nat, events : SUBSET Event, relations : Relations,
          anchors : SUBSET Anchor]

(* What a caller is told of a change that reached the file.                *)
Ack == [version : Nat, event : Event \cup {None}]

ASSUME NoneAssumption == None \notin Graph \cup Snapshot

defaultState ==
  [version |-> 1, events |-> {}, relations |-> [x \in Edge |-> None], anchors |-> {}]

SnapshotOf(g) == [version |-> g.version, events |-> g.events, relations |-> g.relations]

Init ==
  /\ mem = defaultState
  /\ loaded = FALSE
  /\ disk = None
  /\ pending = [c \in Caller |-> None]
  /\ fresh = 0
  /\ acked = <<>>

-----------------------------------------------------------------------------
(* Loading. The file lists receipts without their keys, in insertion       *)
(* order, which is the order of the keys; loading files each under its own *)
(* version, a later one replacing an earlier one.                          *)
Rekeyed(anchors) ==
  {[key |-> a.receipt.version, receipt |-> a.receipt] :
     a \in {x \in anchors :
              \A y \in anchors : y.receipt.version = x.receipt.version => y.key <= x.key}}

HydratedAtOne(d) == [d EXCEPT !.anchors = Rekeyed(@), !.version = 1]
Hydrated(d) == [d EXCEPT !.anchors = Rekeyed(@)]

(* getState: what every operation works on.                                *)
StateUnhydrated == mem
State == IF loaded \/ disk = None THEN mem ELSE Hydrated(disk)

(* writePersistedState: the file is replaced as a whole, or the operation  *)
(* throws after memory has changed.                                        *)
Persist(next, ok) ==
  /\ mem' = next
  /\ loaded' = TRUE
  /\ disk' = IF ok THEN next ELSE disk

Acknowledge(ack, ok) == acked' = IF ok THEN Append(acked, ack) ELSE acked

-----------------------------------------------------------------------------
IngestGraphEvent(wallet, type, ok) ==
  LET event == [id |-> fresh, wallet |-> wallet, type |-> type]
      version == State.version + 1
  IN
  /\ fresh < MaxEvent /\ version <= MaxVersion
  /\ Persist([State EXCEPT !.events = @ \cup {event}, !.version = version], ok)
  /\ Acknowledge([version |-> version, event |-> event], ok)
  /\ fresh' = fresh + 1
  /\ UNCHANGED pending

UpsertWithoutVersion(edge, weight, ok) ==
  /\ State.version < MaxVersion
  /\ Persist([State EXCEPT !.relations = [@ EXCEPT ![edge] = weight]], ok)
  /\ Acknowledge([version |-> State.version, event |-> None], ok)
  /\ UNCHANGED <<pending, fresh>>
UpsertRelationEdge(edge, weight, ok) ==
  LET version == State.version + 1 IN
  /\ version <= MaxVersion
  /\ Persist([State EXCEPT !.relations = [@ EXCEPT ![edge] = weight],
                           !.version = version], ok)
  /\ Acknowledge([version |-> version, event |-> None], ok)
  /\ UNCHANGED <<pending, fresh>>

(* exportWalletGraph and the other reads only load the state.              *)
ExportWalletGraph ==
  /\ ~loaded
  /\ mem' = State
  /\ loaded' = TRUE
  /\ UNCHANGED <<disk, pending, fresh, acked>>

(* anchorCurrentSnapshot up to the await.                                  *)
AnchorSend(c) ==
  /\ pending[c] = None
  /\ pending' = [pending EXCEPT ![c] = SnapshotOf(State)]
  /\ mem' = State
  /\ loaded' = TRUE
  /\ UNCHANGED <<disk, fresh, acked>>

(* After the await: the receipt of what was sent is filed under the        *)
(* version that is current by now.                                         *)
AnchorStore(c, ok) ==
  LET filed == [key |-> mem.version, receipt |-> pending[c]] IN
  /\ pending[c] # None
  /\ Persist([mem EXCEPT !.anchors = {a \in @ : a.key # filed.key} \cup {filed}], ok)
  /\ pending' = [pending EXCEPT ![c] = None]
  /\ UNCHANGED <<fresh, acked>>

(* The chain refused or could not confirm: the call rejects.               *)
AnchorRejected(c) ==
  /\ pending[c] # None
  /\ pending' = [pending EXCEPT ![c] = None]
  /\ UNCHANGED <<mem, loaded, disk, fresh, acked>>

(* The process dies; the next one starts from defaultState.                *)
Restart ==
  /\ mem' = defaultState
  /\ loaded' = FALSE
  /\ pending' = [c \in Caller |-> None]
  /\ UNCHANGED <<disk, fresh, acked>>

(* The file cannot be read or parsed: the process goes on as if there were *)
(* none, and the next write replaces the file by what it has. What callers *)
(* were told before is given up with it: acked begins again.               *)
LoadFails ==
  /\ ~loaded /\ disk # None
  /\ loaded' = TRUE
  /\ acked' = <<>>
  /\ UNCHANGED <<mem, disk, pending, fresh>>

Next ==
  \/ \E w \in Wallet, t \in EventType, ok \in BOOLEAN : IngestGraphEvent(w, t, ok)
  \/ \E edge \in Edge, weight \in Weight, ok \in BOOLEAN :
       UpsertRelationEdge(edge, weight, ok)
  \/ ExportWalletGraph
  \/ \E c \in Caller : AnchorSend(c)
  \/ \E c \in Caller, ok \in BOOLEAN : AnchorStore(c, ok)
  \/ \E c \in Caller : AnchorRejected(c)
  \/ Restart

(* The file is readable whenever there is one ...                          *)
Spec == Init /\ [][Next]_vars

(* ... or any read of it may fail.                                         *)
UnreliableNext == Next \/ LoadFails
UnreliableSpec == Init /\ [][UnreliableNext]_vars

-----------------------------------------------------------------------------
(* Types, with the bounds that tie the parts together: no receipt, sent or *)
(* filed, is of a version the graph has not reached.                       *)
GraphOK(g) ==
  /\ g \in Graph
  /\ \A a \in g.anchors : a.key <= g.version /\ a.receipt.version <= g.version

TypeOK ==
  /\ GraphOK(mem)
  /\ loaded \in BOOLEAN
  /\ disk = None \/ GraphOK(disk)
  /\ pending \in [Caller -> Snapshot \cup {None}]
  /\ \A c \in Caller : pending[c] # None => loaded /\ pending[c].version <= mem.version
  /\ fresh \in Nat
  /\ acked \in Seq(Ack)

(* An event whose ingestion was acknowledged is in the file, so that it is *)
(* in the graph after any number of crashes and failed writes, until the   *)
(* file cannot be read when a process starts (ingestGraphEvent,            *)
(* writePersistedState, hydrateStateIfNeeded).                             *)
AcknowledgedSurvives ==
  \A i \in DOMAIN acked :
    /\ disk # None
    /\ acked[i].event # None => acked[i].event \in disk.events

(* Callers are told increasing snapshot versions: none is told twice,      *)
(* although a crash after a failed write takes the counter back, until the *)
(* file cannot be read and the counter begins again.                       *)
VersionsToldIncrease ==
  \A i, j \in DOMAIN acked : i < j => acked[i].version < acked[j].version

(* A receipt that names the current version certifies the current events   *)
(* and relations, whatever was lost or retried since it was sent, and also *)
(* when versions start again after a failed read.                          *)
ReceiptTellsTruth ==
  \A a \in State.anchors :
    a.receipt.version = State.version => a.receipt = SnapshotOf(State)

(* The file never goes back: a write never drops an event that an earlier  *)
(* write stored, nor lowers the version, also by a process that has just   *)
(* started.                                                                *)
FileOnlyGrows ==
  [][disk # None =>
       /\ disk' # None
       /\ disk.version <= disk'.version
       /\ disk.events \subseteq disk'.events]_vars

(* The exported anchor is of the exported snapshot (the test "anchors      *)
(* snapshot hash and keeps export lookup consistent"): latest_anchor names *)
(* the same version as the reputation next to it.                          *)
LatestAnchorIsCurrent ==
  \A a \in State.anchors : a.key = State.version => a.receipt.version = State.version
=============================================================================
