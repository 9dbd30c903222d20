------------------------------ MODULE LinkAudit ------------------------------
(***************************************************************************)
(* The link ledger of link_audit.rs, as functions on its value: which      *)
(* links of a snapshot still need a decision, and which denied links are   *)
(* still there.                                                            *)
(*                                                                         *)
(* A link joins the stream node of an application to a device node.  Its   *)
(* shape says which, under which name, and in which direction; ports and   *)
(* media classes are abstracted to the direction.  inst numbers the links  *)
(* PipeWire ever creates.  No guard reads it: it is how the properties     *)
(* tell two links apart that have the same id, or the same id and serial.  *)
(***************************************************************************)
EXTENDS PolicyEngine

CONSTANTS
    LinkIds,        \* PipeWire object ids a link can have
    Streams,        \* stream nodes
    Nodes,          \* device nodes
    CatOf,          \* [Nodes -> Cats \cup {"none"}], by classify_node
    Shapes,         \* the links applications make
    NoLink          \* not a link

NoSerial == 0       \* Option::None for object.serial

Shape == [name: Names, stream: Streams, node: Nodes, dir: {"capture", "playback"}]

Link == [serial: Nat, shape: Shape, inst: Nat]

ASSUME LinkAssumption ==
    /\ CatOf \in [Nodes -> Cats \cup {"none"}]
    /\ Shapes \subseteq Shape
    /\ \A a, b \in Shapes : a.stream = b.stream => a.name = b.name
    /\ NoLink \notin Link

(* Nodes that device discovery reports.                                    *)
Hardware == {n \in Nodes : CatOf[n] # "none"}

(* A snapshot's links: one slot per id.                                    *)
LinkMap == [LinkIds -> Link \cup {NoLink}]

EntryStates == {"none", "waiting", "notProtected", "decided"}

Entry == [serial: Nat, state: EntryStates]

NoEntry == [serial |-> NoSerial, state |-> "none"]

(* LinkKey, with the link it was taken from.                               *)
Key == [id: LinkIds, serial: Nat, inst: Nat]

KeyOf(id, l) == [id |-> id, serial |-> l.serial, inst |-> l.inst]

(* LinkLedger::forget.                                                     *)
EmptyLedger == [id \in LinkIds |-> NoEntry]

(* classify_link: the link reaches a protected device and both its nodes   *)
(* are in the snapshot.  A sink is protected only against being recorded.  *)
Classified(l, known, devs) ==
    /\ l.shape.stream \in known
    /\ l.shape.node \in devs
    /\ CatOf[l.shape.node] = "monitor" => l.shape.dir = "capture"

(* Mutation of Reused: a missing serial counts as a different one.         *)
ReusedIfMissing(e, l) == e.state # "none" /\ e.serial # l.serial

(* A known id with a different serial is a different link.  A missing      *)
(* serial says nothing either way.                                         *)
Reused(e, l) ==
    /\ e.state # "none"
    /\ e.serial # NoSerial
    /\ l.serial # NoSerial
    /\ e.serial # l.serial

PriorState(e, l) == IF Reused(e, l) THEN "none" ELSE e.state

(* Mutation of ReconcileEntry: a decided entry follows the link's serial.  *)
ReconcileEntryNewSerial(e, l, known, devs) ==
    IF PriorState(e, l) = "decided"
    THEN [e EXCEPT !.serial = l.serial]
    ELSE [serial |-> l.serial,
          state  |-> IF Classified(l, known, devs) THEN "decided"
                     ELSE IF \/ PriorState(e, l) = "notProtected"
                             \/ l.shape.stream \in known
                          THEN "notProtected" ELSE "waiting"]

(* The entry of one live link after reconcile.  A decided link is skipped  *)
(* whole, its recorded serial included.                                    *)
ReconcileEntry(e, l, known, devs) ==
    IF PriorState(e, l) = "decided" THEN e
    ELSE [serial |-> l.serial,
          state  |-> IF Classified(l, known, devs) THEN "decided"
                     ELSE IF \/ PriorState(e, l) = "notProtected"
                             \/ l.shape.stream \in known
                          THEN "notProtected" ELSE "waiting"]

(* LinkLedger::reconcile: entries of links that left are dropped.          *)
Reconcile(ledger, links, known, devs) ==
    [id \in LinkIds |->
        IF links[id] = NoLink THEN NoEntry
        ELSE ReconcileEntry(ledger[id], links[id], known, devs)]

(* Mutation of Pending: only a link seen for the first time is decided.    *)
PendingFirstSighting(ledger, links, known, devs) ==
    {id \in LinkIds :
        /\ links[id] # NoLink
        /\ PriorState(ledger[id], links[id]) = "none"
        /\ Classified(links[id], known, devs)}

(* Reconciled::pending: the links that get a decision now.                 *)
Pending(ledger, links, known, devs) ==
    {id \in LinkIds :
        /\ links[id] # NoLink
        /\ PriorState(ledger[id], links[id]) # "decided"
        /\ Classified(links[id], known, devs)}

(* group_links: one group per stream and device, carrying every link.      *)
Group == [name: Names, stream: Streams, node: Nodes, keys: SUBSET Key]

SameAccess(a, b) == a.stream = b.stream /\ a.node = b.node

GroupOf(i, ids, links) ==
    LET together == {j \in ids : SameAccess(links[i].shape, links[j].shape)}
    IN  [name   |-> links[i].shape.name,
         stream |-> links[i].shape.stream,
         node   |-> links[i].shape.node,
         keys   |-> {KeyOf(j, links[j]) : j \in together}]

(* Mutation of GroupLinks: only one access of an update is decided.        *)
GroupLinksFirst(ids, links) ==
    IF ids = {} THEN {} ELSE {GroupOf(CHOOSE i \in ids : TRUE, ids, links)}

GroupLinks(ids, links) == {GroupOf(i, ids, links) : i \in ids}

(* LinkLedger::still_alive: same id, same serial.                          *)
StillAlive(ledger, keys) ==
    {k \in keys : /\ ledger[k.id].state # "none"
                  /\ ledger[k.id].serial = k.serial}
=============================================================================
