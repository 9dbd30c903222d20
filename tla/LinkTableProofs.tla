--------------------------- MODULE LinkTableProofs ---------------------------
(***************************************************************************)
(* Theorems about the two tables MonitoringLoop keeps of links, the ledger *)
(* of those it has decided and the connections of those it let through:    *)
(* once the loop has caught up, they tell what PipeWire has.  The second   *)
(* half assumes nothing of serials: a refused link is not lost, and one    *)
(* that was decided is not decided again, but for the mistakes the ledger  *)
(* can make without them.                                                  *)
(***************************************************************************)
EXTENDS MonitoringLoopProofs

USE PolicyAssumption, LinkAssumption, TimeAssumption, ConnAssumption, BoundsAssumption

-----------------------------------------------------------------------------
(* Lemmas.                                                                 *)

(* A step that reads and reports nothing: what it changes in PipeWire, the *)
(* monitor still has to report.                                            *)
GraphKept ==
    /\ UNCHANGED <<gLinks, gKnown, queue>>
    /\ monitorUp' => /\ monitorUp
                     /\ \A id \in LinkIds : id \notin dirty' =>
                           id \notin dirty /\ pw'[id] = pw[id]

(* So is every step but those of the monitor and the receipt of an update. *)
LEMMA StepsMark ==
    ASSUME TypeOK, [Next]_vars
    PROVE  Seed \/ Block \/ RecvUpdate \/ GraphKept
<1> USE DEF pwVars, monVars, configVars, trackerVars, loopVars, ghostVars
<1>1. ASSUME NEW ids, NEW failed, Destroy(ids, failed),
             UNCHANGED <<gLinks, gKnown, queue, monitorUp>>
      PROVE  GraphKept
  BY <1>1 DEF Destroy, GraphKept, LiveIds
<1>2. ASSUME NEW id \in LinkIds, NEW shape \in Shapes, LinkUp(id, shape) PROVE GraphKept
  BY <1>2 DEF LinkUp, GraphKept, TypeOK, LinkMap
<1>3. ASSUME NEW id \in LinkIds, LinkDown(id) PROVE GraphKept
  BY <1>3 DEF LinkDown, GraphKept, TypeOK, LinkMap
<1>4. CASE /\ Environment
           /\ ~\E id \in LinkIds : LinkDown(id) \/ \E shape \in Shapes : LinkUp(id, shape)
  BY <1>4 DEF Environment, LinkChanges, NodeReady, PlugIn, PipeWireRestart,
     MonitorDies, Tick, GraphKept
<1>5. CASE User \/ Rescan \/ UNCHANGED vars
  BY <1>5 DEF User, AnswerPrompt, DismissPrompt, SetRule, RemoveRule,
     SetBlockAll, Rescan, vars, GraphKept
<1>6. CASE \E c \in checks : CheckStep(c)
  BY <1>1, <1>6 DEF CheckStep, CheckAlive, CheckRetry, CheckReport, GraphKept
<1>7. CASE Loop /\ ~RecvUpdate
  BY <1>1, <1>7 DEF Loop, DecideGroup, AllowGroup, RefuseGroup, ReadCooldown,
     ClaimPrompt, ShowPrompt, Cleanup, GraphKept
<1>8. QED
  BY <1>2, <1>3, <1>4, <1>5, <1>6, <1>7 DEF Next, Environment, Monitor

(* An update that is received leaves the queue.                            *)
LEMMA KeptNotReceived == TypeOK /\ GraphKept => ~RecvUpdate
<1>1. TypeOK /\ queue # <<>> => Tail(queue) # queue
  BY DEF TypeOK
<1>2. QED
  BY <1>1 DEF RecvUpdate, GraphKept

(* Updates on their way carry links.                                       *)
LEMMA QueueTyped ==
    ASSUME TypeOK, NEW n \in 1..Len(queue)
    PROVE  queue[n] \in Update /\ queue[n].links \in LinkMap
<1>1. queue[n] \in Update
  BY DEF TypeOK
<1>2. QED
  BY <1>1 DEF Update

(* The queue after an update was received, and after one was appended.     *)
LEMMA QueueShift ==
    ASSUME TypeOK, queue # <<>>, queue' = Tail(queue)
    PROVE  /\ Len(queue) \in Nat \ {0} /\ Head(queue) = queue[1]
           /\ Head(queue) \in Update
           /\ Len(queue') = Len(queue) - 1
           /\ queue' = <<>> <=> Len(queue) = 1
           /\ \A n \in 1..Len(queue') : n + 1 \in 1..Len(queue) /\ queue'[n] = queue[n + 1]
<1>1. /\ Len(queue) \in Nat \ {0} /\ Head(queue) = queue[1]
      /\ Head(queue) \in Update
      /\ queue' \in Seq(Update) /\ Len(queue') = Len(queue) - 1
      /\ \A n \in 1..Len(queue') : n + 1 \in 1..Len(queue) /\ queue'[n] = queue[n + 1]
  BY DEF TypeOK
<1>2. queue' = <<>> <=> Len(queue') = 0
  BY <1>1
<1>3. QED
  BY <1>1, <1>2

(* What is appended to the update channel is its last update.              *)
LEMMA QueueGrows ==
    ASSUME TypeOK, NEW u \in Update, queue' = Append(queue, u)
    PROVE  /\ Len(queue) \in Nat /\ Len(queue') = Len(queue) + 1
           /\ queue' # <<>> /\ queue'[Len(queue')] = u
           /\ \A n \in 1..Len(queue) : n \in 1..Len(queue') /\ queue'[n] = queue[n]
<1>1. /\ Len(queue) \in Nat /\ Len(queue') = Len(queue) + 1
      /\ queue'[Len(queue')] = u
      /\ \A n \in 1..Len(queue) : n \in 1..Len(queue') /\ queue'[n] = queue[n]
  BY DEF TypeOK
<1>2. queue' # <<>>
  BY <1>1
<1>3. QED
  BY <1>1, <1>2

-----------------------------------------------------------------------------
(* A connection ends with its link.                                        *)

(* What is tracked between two updates was in the last one; the last       *)
(* update has the ids the monitor has; and those are PipeWire's but for    *)
(* the changes that are not reported yet.                                  *)
ConnInvariant ==
    /\ pc = "idle" => \A id \in LinkIds : active[id] # NoConn => id \in updLinks
    /\ queue = <<>> => updLinks = LiveIds(gLinks)
    /\ queue # <<>> => LiveIds(queue[Len(queue)].links) = LiveIds(gLinks)
    /\ monitorUp => \A id \in LinkIds \ dirty : gLinks[id] = NoLink <=> pw[id] = NoLink

(* The table of connections between two updates.                           *)
LEMMA ConnTable ==
    ASSUME TypeOK, ConnInvariant, [Next]_vars, pc' = "idle"
    PROVE  \A id \in LinkIds : active'[id] # NoConn => id \in updLinks'
<1> USE DEF pwVars, monVars, configVars, trackerVars, loopVars, ghostVars
<1>1. CASE UNCHANGED <<pc, active, updLinks>>
  BY <1>1 DEF ConnInvariant
<1>2. CASE Cleanup
  BY <1>2 DEF Cleanup, Prune
<1>3. CASE Environment \/ Monitor \/ User \/ Rescan \/ UNCHANGED vars
  BY <1>1, <1>3 DEF Environment, LinkUp, LinkDown, LinkChanges, NodeReady,
     PlugIn, PipeWireRestart, MonitorDies, Tick, Monitor, Seed, Block, User,
     AnswerPrompt, DismissPrompt, SetRule, RemoveRule, SetBlockAll, Rescan, vars
<1>4. CASE \E c \in checks : CheckStep(c)
  BY <1>1, <1>4 DEF CheckStep, CheckAlive, CheckRetry, CheckReport
<1>5. CASE RecvUpdate \/ AllowGroup \/ ReadCooldown \/ ClaimPrompt \/ ShowPrompt
  BY <1>5 DEF RecvUpdate, AllowGroup, ReadCooldown, ClaimPrompt, ShowPrompt
<1>6. ASSUME NEW g \in todo, DecideGroup(g) PROVE FALSE
  <2>1. Decision(g) # "idle"
    BY DecisionType DEF TypeOK
  <2>2. QED
    BY <1>6, <2>1 DEF DecideGroup
<1>7. ASSUME NEW failed \in SUBSET LinkIds, RefuseGroup(failed) PROVE FALSE
  BY <1>7 DEF RefuseGroup, Refused
<1>8. QED
  BY <1>2, <1>3, <1>4, <1>5, <1>6, <1>7 DEF Next, Loop

(* The tables, the updates and the monitor's links always fit so.          *)
LEMMA ConnIsInvariant == Spec => []ConnInvariant
<1> USE DEF pwVars, monVars, configVars, trackerVars, loopVars, ghostVars
<1>1. Init => ConnInvariant
  BY DEF Init, ConnInvariant, LiveIds, NoLinks
<1>2. TypeOK /\ ConnInvariant /\ [Next]_vars => ConnInvariant'
  <2> SUFFICES ASSUME TypeOK, ConnInvariant, [Next]_vars PROVE ConnInvariant'
    OBVIOUS
  <2>1. (pc = "idle" => \A id \in LinkIds : active[id] # NoConn => id \in updLinks)'
    BY ConnTable
  <2>2. CASE GraphKept
    <3>1. updLinks' = updLinks \/ RecvUpdate
      BY DEF Next, Environment, LinkUp, LinkDown, LinkChanges, NodeReady,
         PlugIn, PipeWireRestart, MonitorDies, Tick, Monitor, Seed, Block, User,
         AnswerPrompt, DismissPrompt, SetRule, RemoveRule, SetBlockAll, Rescan,
         vars, CheckStep, CheckAlive, CheckRetry, CheckReport, Loop, AllowGroup,
         DecideGroup, RefuseGroup, ReadCooldown, ClaimPrompt, ShowPrompt, Cleanup
    <3>2. ~RecvUpdate
      BY <2>2, KeptNotReceived
    <3>3. QED
      BY <2>1, <2>2, <3>1, <3>2 DEF ConnInvariant, GraphKept
  <2>3. CASE RecvUpdate
    <3>1. UNCHANGED <<gLinks, monitorUp, dirty, pw>> /\ updLinks' = LiveIds(Head(queue).links)
      BY <2>3 DEF RecvUpdate
    <3>2. /\ Len(queue) \in Nat \ {0} /\ Head(queue) = queue[1]
          /\ Len(queue') = Len(queue) - 1
          /\ queue' = <<>> <=> Len(queue) = 1
          /\ \A n \in 1..Len(queue') : n + 1 \in 1..Len(queue) /\ queue'[n] = queue[n + 1]
      BY <2>3, QueueShift DEF RecvUpdate
    <3>3. LiveIds(queue[Len(queue)].links) = LiveIds(gLinks)
      BY <2>3 DEF ConnInvariant, RecvUpdate
    <3>4. queue' = <<>> => updLinks' = LiveIds(gLinks')
      BY <3>1, <3>2, <3>3
    <3>5. queue' # <<>> => LiveIds(queue'[Len(queue')].links) = LiveIds(gLinks')
      BY <3>1, <3>2, <3>3
    <3>6. QED
      BY <2>1, <3>1, <3>4, <3>5 DEF ConnInvariant, LiveIds
  <2>4. CASE Seed \/ Block
    <3>1. PICK u \in Update : queue' = Append(queue, u) /\ u.links = gLinks'
      <4>1. gLinks' \in LinkMap
        BY <2>4, BlockType DEF Seed, Block
      <4>2. \A b \in BOOLEAN : [seed |-> b, links |-> gLinks', known |-> ready] \in Update
        BY <4>1 DEF Update, TypeOK
      <4>3. QED
        BY <2>4, <4>2 DEF Seed, Block
    <3>2. queue' # <<>> /\ LiveIds(queue'[Len(queue')].links) = LiveIds(gLinks')
      BY <3>1, QueueGrows
    <3>3. \A id \in LinkIds : gLinks'[id] = NoLink <=> pw[id] = NoLink
      <4>1. \A l \in Link : \A b : Seen(l, b) \in Link
        BY DEF Seen, Link, NoSerial
      <4>2. \A o \in Link \cup {NoLink} : \A l \in Link : ApplyObject(o, l) \in Link
        BY DEF ApplyObject, Link
      <4>3. \A id \in LinkIds : pw[id] \in Link \cup {NoLink} /\ gLinks[id] \in Link \cup {NoLink}
        BY DEF TypeOK, LinkMap
      <4>4. CASE Seed
        BY <4>1, <4>3, <4>4 DEF Seed, SeedLinks
      <4>5. CASE Block
        BY <4>1, <4>2, <4>3, <4>5 DEF Block, BlockLinks, ConnInvariant
      <4>6. QED
        BY <2>4, <4>4, <4>5
    <3>4. pw' = pw
      BY <2>4 DEF Seed, Block
    <3>5. QED
      BY <2>1, <3>2, <3>3, <3>4 DEF ConnInvariant
  <2>5. QED
    BY <2>2, <2>3, <2>4, StepsMark
<1>3. QED
  BY <1>1, <1>2, TypeCorrect, PTL DEF Spec

-----------------------------------------------------------------------------
(* Every link is accounted for.                                            *)

(* No seed block is among the updates after the m-th, up to the n-th: they *)
(* show one life of PipeWire.                                              *)
Clean(m, n) == \A j \in (m + 1)..n : ~queue[j].seed

(* Within one life of PipeWire, an id and a serial mean one link.          *)
Agree(a, b) ==
    \A id \in LinkIds :
        a[id] # NoLink /\ b[id] # NoLink /\ a[id].serial = b[id].serial
            => a[id].inst = b[id].inst

Older(links) == \A id \in LiveIds(links) : links[id].serial < nextSerial

Serialled(links) == \A id \in LiveIds(links) : links[id].serial # NoSerial

(* What the monitor has reported is what PipeWire had, and it tells the    *)
(* links of one life apart.                                                *)
SnapshotInvariant ==
    /\ monitorUp => \A id \in LinkIds \ dirty : gLinks[id] = pw[id]
    /\ queue # <<>> => /\ queue[Len(queue)].links = gLinks
                       /\ queue[Len(queue)].known = gKnown
    /\ Serialled(pw) /\ Older(pw)
    /\ \A m \in 1..Len(queue) :
          /\ Serialled(queue[m].links)
          /\ \A n \in (m + 1)..Len(queue) :
                Clean(m, n) => Agree(queue[m].links, queue[n].links)
          /\ monitorUp /\ Clean(m, Len(queue)) =>
                Older(queue[m].links) /\ Agree(queue[m].links, pw)

(* What the environment, the tasks and the user do to PipeWire's links.    *)
LEMMA LinkSteps ==
    ASSUME TypeOK, [Next]_vars
    PROVE  \/ PwKept /\ nextSerial' = nextSerial
           \/ \E id \in LinkIds, shape \in Shapes : LinkUp(id, shape)
           \/ PipeWireRestart
<1> USE DEF pwVars, monVars, configVars, trackerVars, loopVars, ghostVars
<1>1. ASSUME NEW ids, NEW failed, Destroy(ids, failed), UNCHANGED <<nextInst, nextSerial>>
      PROVE  PwKept /\ nextSerial' = nextSerial
  BY <1>1 DEF Destroy, PwKept
<1>2. CASE /\ Environment /\ ~PipeWireRestart
           /\ ~\E id \in LinkIds, shape \in Shapes : LinkUp(id, shape)
  BY <1>2 DEF Environment, LinkDown, LinkChanges, NodeReady, PlugIn,
     MonitorDies, Tick, PwKept, TypeOK, LinkMap
<1>3. CASE Monitor \/ User \/ Rescan \/ UNCHANGED vars
  BY <1>3 DEF Monitor, Seed, Block, User, AnswerPrompt, DismissPrompt, SetRule,
     RemoveRule, SetBlockAll, Rescan, vars, PwKept
<1>4. CASE \E c \in checks : CheckStep(c)
  BY <1>1, <1>4 DEF CheckStep, CheckAlive, CheckRetry, CheckReport, PwKept
<1>5. CASE Loop
  BY <1>1, <1>5 DEF Loop, RecvUpdate, DecideGroup, AllowGroup, RefuseGroup,
     ReadCooldown, ClaimPrompt, ShowPrompt, Cleanup, PwKept
<1>6. QED
  BY <1>2, <1>3, <1>4, <1>5 DEF Next

(* A new link has a serial of its own: it cannot be taken for one that was *)
(* seen in this life of PipeWire.                                          *)
LEMMA NewLinkAgrees ==
    ASSUME TypeOK, NEW new \in LinkIds, NEW shape \in Shapes, LinkUp(new, shape),
           Serialled(pw), Older(pw)
    PROVE  /\ Serialled(pw') /\ Older(pw)'
           /\ nextSerial \in Nat /\ nextSerial' = nextSerial + 1
           /\ \A id \in LinkIds : id # new => pw'[id] = pw[id]
           /\ pw'[new].serial = nextSerial /\ pw'[new] # NoLink
<1>1. nextSerial \in Nat \ {0} /\ nextSerial' = nextSerial + 1 /\ nextInst \in Nat
  BY DEF LinkUp, TypeOK
<1>2. [serial |-> nextSerial, shape |-> shape, inst |-> nextInst] # NoLink
  BY <1>1 DEF Link
<1>3. /\ \A id \in LinkIds : id # new => pw'[id] = pw[id]
      /\ pw'[new].serial = nextSerial /\ pw'[new] # NoLink
  BY <1>2 DEF LinkUp, TypeOK, LinkMap
<1>4. \A id \in LiveIds(pw) : pw[id].serial \in Nat
  BY DEF LiveIds, TypeOK, LinkMap, Link
<1>5. QED
  BY <1>1, <1>3, <1>4 DEF Serialled, Older, LiveIds, NoSerial

(* A step that reports nothing keeps it.                                   *)
LEMMA SnapshotKept ==
    ASSUME TypeOK, [Next]_vars, GraphKept, SnapshotInvariant
    PROVE  SnapshotInvariant'
<1> USE DEF SnapshotInvariant
<1>1. /\ UNCHANGED <<gLinks, gKnown, queue>>
      /\ monitorUp' => monitorUp
      /\ monitorUp' => \A id \in LinkIds \ dirty' : gLinks[id] = pw'[id]
  BY DEF GraphKept
<1>2. \A m, n : Clean(m, n)' = Clean(m, n)
  BY <1>1 DEF Clean
<1>3. SUFFICES /\ Serialled(pw)' /\ Older(pw)'
               /\ monitorUp' => \A m \in 1..Len(queue) : Clean(m, Len(queue)) =>
                     Older(queue[m].links)' /\ Agree(queue[m].links, pw)'
  BY <1>1, <1>2 DEF Agree, Serialled, LiveIds
<1>4. CASE PwKept /\ nextSerial' = nextSerial
  BY <1>1, <1>4 DEF PwKept, Agree, Serialled, Older, LiveIds
<1>5. CASE PipeWireRestart
  BY <1>5 DEF PipeWireRestart, NoLinks, Serialled, Older, LiveIds
<1>6. ASSUME NEW new \in LinkIds, NEW shape \in Shapes, LinkUp(new, shape)
      PROVE  /\ Serialled(pw)' /\ Older(pw)'
             /\ monitorUp' => \A m \in 1..Len(queue) : Clean(m, Len(queue)) =>
                   Older(queue[m].links)' /\ Agree(queue[m].links, pw)'
  <2>1. /\ Serialled(pw') /\ Older(pw)'
        /\ nextSerial \in Nat /\ nextSerial' = nextSerial + 1
        /\ \A id \in LinkIds : id # new => pw'[id] = pw[id]
        /\ pw'[new].serial = nextSerial /\ pw'[new] # NoLink
    BY <1>6, NewLinkAgrees
  <2>2. ASSUME NEW m \in 1..Len(queue), monitorUp, Clean(m, Len(queue))
        PROVE  Older(queue[m].links)' /\ Agree(queue[m].links, pw)'
    <3>1. queue[m].links \in LinkMap
      BY QueueTyped
    <3>2. \A id \in LiveIds(queue[m].links) : queue[m].links[id].serial \in Nat
      BY <3>1 DEF LiveIds, LinkMap, Link
    <3>3. Older(queue[m].links) /\ Agree(queue[m].links, pw)
      BY <2>2
    <3>4. QED
      BY <1>1, <2>1, <3>2, <3>3 DEF Older, Agree, LiveIds
  <2>3. QED
    BY <1>1, <2>1, <2>2 DEF Serialled
<1>7. QED
  BY <1>4, <1>5, <1>6, LinkSteps

(* A block makes the monitor's links those of PipeWire.                    *)
LEMMA BlockReports ==
    ASSUME SerialMayBeMissing = FALSE, TypeOK, SnapshotInvariant, Monitor
    PROVE  \E u \in Update :
              /\ queue' = Append(queue, u) /\ u.links = pw /\ u.known = gKnown'
              /\ u.seed \/ monitorUp
              /\ gLinks' = pw /\ monitorUp' /\ UNCHANGED pwVars
<1> USE DEF SnapshotInvariant
<1>1. pw \in LinkMap /\ gLinks \in LinkMap /\ pw \in [LinkIds -> Link \cup {NoLink}]
  BY DEF TypeOK, LinkMap
<1>2. CASE Seed
  <2>1. gLinks' = SeedLinks({})
    BY <1>2 DEF Seed
  <2>2. SeedLinks({}) = pw
    BY <1>1 DEF SeedLinks, Seen
  <2>3. [seed |-> TRUE, links |-> pw, known |-> ready] \in Update
    BY <1>1 DEF Update, TypeOK
  <2>4. QED
    BY <1>2, <2>1, <2>2, <2>3 DEF Seed
<1>3. CASE Block
  <2>1. gLinks' = BlockLinks({})
    BY <1>3 DEF Block
  <2>2. BlockLinks({}) = pw
    <3>1. \A id \in LinkIds \ dirty : gLinks[id] = pw[id]
      BY <1>3 DEF Block
    <3>2. \A id \in LinkIds : pw[id] # NoLink => pw[id].serial # NoSerial
      BY DEF Serialled, LiveIds
    <3>3. \A id \in LinkIds :
            (IF id \notin dirty THEN gLinks[id]
             ELSE IF pw[id] = NoLink THEN NoLink
             ELSE ApplyObject(gLinks[id], Seen(pw[id], id \in {}))) = pw[id]
      BY <3>1, <3>2 DEF ApplyObject, Seen
    <3>4. QED
      BY <1>1, <3>3 DEF BlockLinks
  <2>3. [seed |-> FALSE, links |-> pw, known |-> ready] \in Update
    BY <1>1 DEF Update, TypeOK
  <2>4. QED
    BY <1>3, <2>1, <2>2, <2>3 DEF Block
<1>4. QED
  BY <1>2, <1>3 DEF Monitor

(* So it stays true with the next block.                                   *)
LEMMA SnapshotReported ==
    ASSUME SerialMayBeMissing = FALSE, TypeOK, SnapshotInvariant, Monitor
    PROVE  SnapshotInvariant'
<1> USE DEF SnapshotInvariant
<1>1. PICK u \in Update :
         /\ queue' = Append(queue, u) /\ u.links = pw /\ u.known = gKnown'
         /\ u.seed \/ monitorUp
         /\ gLinks' = pw /\ monitorUp' /\ UNCHANGED pwVars
  BY BlockReports
<1>2. UNCHANGED <<pw, nextSerial>>
  BY <1>1 DEF pwVars
<1>3. /\ Len(queue) \in Nat /\ Len(queue') = Len(queue) + 1
      /\ queue' # <<>> /\ queue'[Len(queue')] = u
      /\ \A n \in 1..Len(queue) : n \in 1..Len(queue') /\ queue'[n] = queue[n]
  BY <1>1, QueueGrows
<1>4. \A m \in 1..Len(queue') : m \in 1..Len(queue) \/ m = Len(queue')
  BY <1>3
<1>5. ASSUME NEW m \in 1..Len(queue), NEW n \in (m + 1)..Len(queue), Clean(m, n)'
      PROVE  Clean(m, n)
  BY <1>3, <1>5 DEF Clean
<1>6. ASSUME NEW m \in 1..Len(queue), NEW n, n = Len(queue'), Clean(m, n)'
      PROVE  monitorUp /\ Clean(m, Len(queue))
  <2>1. ~queue'[Len(queue')].seed /\ \A j \in (m + 1)..Len(queue) : ~queue'[j].seed
    BY <1>3, <1>6 DEF Clean
  <2>2. QED
    BY <1>1, <1>3, <2>1 DEF Clean
<1>7. Agree(pw, pw)
  BY DEF Agree
<1>8. ASSUME NEW m \in 1..Len(queue')
      PROVE  /\ Serialled(queue[m].links)'
             /\ \A n \in (m + 1)..Len(queue') :
                   Clean(m, n)' => Agree(queue[m].links, queue[n].links)'
             /\ Clean(m, Len(queue))' =>
                   Older(queue[m].links)' /\ Agree(queue[m].links, pw)'
  <2>1. CASE m = Len(queue')
    <3>1. queue'[m].links = pw
      BY <1>1, <1>3, <2>1
    <3>2. (m + 1)..Len(queue') = {}
      BY <1>3, <2>1
    <3>3. QED
      BY <1>2, <1>7, <3>1, <3>2 DEF Serialled, Older, Agree, LiveIds
  <2>2. CASE m \in 1..Len(queue)
    <3>1. queue'[m] = queue[m] /\ Serialled(queue[m].links)
      BY <1>3, <2>2
    <3>2. Clean(m, Len(queue))' => Older(queue[m].links) /\ Agree(queue[m].links, pw)
      <4>1. SUFFICES ASSUME NEW n, n = Len(queue'), Clean(m, n)'
                     PROVE  Older(queue[m].links) /\ Agree(queue[m].links, pw)
        BY DEF Clean
      <4>2. QED
        BY <1>6, <2>2, <4>1
    <3>3. ASSUME NEW n \in (m + 1)..Len(queue'), Clean(m, n)'
          PROVE  Agree(queue[m].links, queue[n].links)'
      <4>1. CASE n = Len(queue')
        <5>1. queue'[n].links = pw
          BY <1>1, <1>3, <4>1
        <5>2. Agree(queue[m].links, pw)
          BY <1>6, <2>2, <3>3, <4>1
        <5>3. QED
          BY <3>1, <5>1, <5>2 DEF Agree
      <4>2. CASE n # Len(queue')
        <5>1. n \in (m + 1)..Len(queue) /\ n \in 1..Len(queue)
          BY <1>3, <2>2, <4>2
        <5>2. Agree(queue[m].links, queue[n].links) /\ queue'[n] = queue[n]
          BY <1>3, <1>5, <2>2, <3>3, <5>1
        <5>3. QED
          BY <3>1, <5>2 DEF Agree
      <4>3. QED
        BY <4>1, <4>2
    <3>4. QED
      BY <1>2, <3>1, <3>2, <3>3 DEF Serialled, Older, Agree, LiveIds
  <2>3. QED
    BY <1>4, <2>1, <2>2
<1>9. /\ Serialled(pw)' /\ Older(pw)'
      /\ \A id \in LinkIds \ dirty' : gLinks'[id] = pw'[id]
      /\ queue'[Len(queue')].links = gLinks' /\ queue'[Len(queue')].known = gKnown'
  BY <1>1, <1>2, <1>3 DEF Serialled, Older, LiveIds
<1>10. QED
  BY <1>8, <1>9

(* The receipt of an update moves the others one place forward.            *)
LEMMA CleanShift ==
    ASSUME TypeOK, queue # <<>>, queue' = Tail(queue),
           NEW m \in 0..Len(queue'), NEW n \in 0..Len(queue'), Clean(m, n)'
    PROVE  Clean(m + 1, n + 1)
<1>1. /\ Len(queue') \in Nat
      /\ \A i \in 1..Len(queue') : i + 1 \in 1..Len(queue) /\ queue'[i] = queue[i + 1]
  BY QueueShift
<1> SUFFICES ASSUME NEW j \in (m + 2)..(n + 1) PROVE ~queue[j].seed
  BY <1>1 DEF Clean
<1>2. /\ j - 1 \in (m + 1)..n /\ j - 1 \in 1..Len(queue') /\ (j - 1) + 1 = j
  BY <1>1
<1>3. queue'[j - 1] = queue[j]
  BY <1>1, <1>2
<1>4. ~queue'[j - 1].seed
  BY <1>2 DEF Clean
<1>5. QED
  BY <1>3, <1>4

(* And with the receipt of one.                                            *)
LEMMA SnapshotReceived ==
    ASSUME TypeOK, SnapshotInvariant, RecvUpdate
    PROVE  SnapshotInvariant'
<1> USE DEF SnapshotInvariant
<1>1. UNCHANGED <<pw, nextSerial, gLinks, gKnown, monitorUp, dirty>>
  BY DEF RecvUpdate, pwVars
<1>2. /\ Len(queue) \in Nat \ {0}
      /\ Len(queue') = Len(queue) - 1
      /\ queue' = <<>> <=> Len(queue) = 1
      /\ \A n \in 1..Len(queue') : n + 1 \in 1..Len(queue) /\ queue'[n] = queue[n + 1]
  BY QueueShift DEF RecvUpdate
<1>3. \A m, n \in 0..Len(queue') : Clean(m, n)' => Clean(m + 1, n + 1)
  BY CleanShift DEF RecvUpdate
<1>4. ASSUME NEW m \in 1..Len(queue')
      PROVE  /\ Serialled(queue[m].links)'
             /\ \A n \in (m + 1)..Len(queue') :
                   Clean(m, n)' => Agree(queue[m].links, queue[n].links)'
             /\ monitorUp /\ Clean(m, Len(queue))' =>
                   Older(queue[m].links)' /\ Agree(queue[m].links, pw)'
  <2>1. m + 1 \in 1..Len(queue) /\ queue'[m] = queue[m + 1]
    BY <1>2
  <2>2. ASSUME NEW n \in (m + 1)..Len(queue'), Clean(m, n)'
        PROVE  Agree(queue[m].links, queue[n].links)'
    <3>1. n + 1 \in (m + 2)..Len(queue) /\ queue'[n] = queue[n + 1] /\ (m + 1) + 1 = m + 2
      BY <1>2
    <3>2. Clean(m + 1, n + 1)
      BY <1>2, <1>3, <2>2
    <3>3. Agree(queue[m + 1].links, queue[n + 1].links)
      BY <2>1, <3>1, <3>2
    <3>4. QED
      BY <2>1, <3>1, <3>3 DEF Agree
  <2>3. ASSUME monitorUp, Clean(m, Len(queue))'
        PROVE  Older(queue[m].links)' /\ Agree(queue[m].links, pw)'
    <3>1. Clean(m + 1, Len(queue)) /\ Len(queue') + 1 = Len(queue)
      BY <1>2, <1>3, <2>3
    <3>2. Older(queue[m + 1].links) /\ Agree(queue[m + 1].links, pw)
      BY <2>1, <2>3, <3>1
    <3>3. QED
      BY <1>1, <2>1, <3>2 DEF Older, Agree, LiveIds
  <2>4. QED
    BY <2>1, <2>2, <2>3 DEF Serialled, LiveIds
<1>5. queue' # <<>> => Len(queue') \in 1..Len(queue') /\ queue'[Len(queue')] = queue[Len(queue)]
  BY <1>2
<1>6. queue # <<>>
  BY DEF RecvUpdate
<1>7. QED
  BY <1>1, <1>4, <1>5, <1>6 DEF Serialled, Older, LiveIds

(* A link that has a decision, or is in a group that waits for one.        *)
Accounted(i) == verdict[i] # "none" \/ \E g \in todo : \E k \in g.keys : k.inst = i

(* What the ledger calls decided is, of the links shown.                   *)
Followed(links) ==
    \A id \in LinkIds :
        /\ ledger[id].state = "decided"
        /\ links[id] # NoLink /\ links[id].serial = ledger[id].serial
        => Accounted(links[id].inst)

(* The ledger speaks of PipeWire's present life until a seed block is next,*)
(* and after the last update of it, of every link.                         *)
LedgerInvariant ==
    /\ pc = "idle" => todo = {}
    /\ \A id \in LinkIds : ledger[id].state = "decided" => ledger[id].serial # NoSerial
    /\ \A n \in 1..Len(queue) : Clean(0, n) => Followed(queue[n].links)
    /\ monitorUp /\ Clean(0, Len(queue)) =>
          /\ Followed(pw)
          /\ \A id \in LinkIds : ledger[id].state = "decided" => ledger[id].serial < nextSerial
    /\ queue = <<>> =>
          \A id \in LiveIds(gLinks) :
             /\ ledger[id].serial = gLinks[id].serial
             /\ Classified(gLinks[id], gKnown, seenDevs) => ledger[id].state = "decided"

(* Only the receipt of an update changes the ledger.                       *)
LEMMA LedgerStays ==
    ASSUME [Next]_vars, ~RecvUpdate
    PROVE  UNCHANGED <<ledger, seenDevs>>
BY DEF Next, Environment, LinkUp, LinkDown, LinkChanges, NodeReady, PlugIn,
   PipeWireRestart, MonitorDies, Tick, Monitor, Seed, Block, User, AnswerPrompt,
   DismissPrompt, SetRule, RemoveRule, SetBlockAll, Rescan, CheckStep,
   CheckAlive, CheckRetry, CheckReport, Loop, AllowGroup, DecideGroup,
   RefuseGroup, ReadCooldown, ClaimPrompt, ShowPrompt, Cleanup, vars, pwVars,
   monVars, configVars, trackerVars, loopVars, ghostVars

(* Only a decision takes a group from those that wait, and every other     *)
(* step leaves verdicts and groups alone.                                  *)
LEMMA GroupsStay ==
    ASSUME [Next]_vars, ~RecvUpdate, ~\E g \in todo : DecideGroup(g)
    PROVE  UNCHANGED <<todo, verdict>>
BY DEF Next, Environment, LinkUp, LinkDown, LinkChanges, NodeReady, PlugIn,
   PipeWireRestart, MonitorDies, Tick, Monitor, Seed, Block, User, AnswerPrompt,
   DismissPrompt, SetRule, RemoveRule, SetBlockAll, Rescan, CheckStep,
   CheckAlive, CheckRetry, CheckReport, Loop, AllowGroup, RefuseGroup,
   ReadCooldown, ClaimPrompt, ShowPrompt, Cleanup, vars, pwVars, monVars,
   configVars, trackerVars, loopVars, ghostVars

(* A link that is accounted for stays so.                                  *)
LEMMA AccountedKept ==
    ASSUME TypeOK, [Next]_vars, ~RecvUpdate, NEW i \in Insts, Accounted(i)
    PROVE  Accounted(i)'
<1>1. ASSUME NEW g \in todo, DecideGroup(g) PROVE Accounted(i)'
  <2>1. Decision(g) # "none" /\ todo' = todo \ {g}
    BY <1>1, DecisionType DEF DecideGroup, TypeOK
  <2>2. verdict'[i] = IF \E k \in g.keys : k.inst = i THEN Decision(g) ELSE verdict[i]
    BY <1>1 DEF DecideGroup, Judged
  <2>3. QED
    BY <2>1, <2>2 DEF Accounted
<1>2. CASE ~\E g \in todo : DecideGroup(g)
  BY <1>2, GroupsStay DEF Accounted
<1>3. QED
  BY <1>1, <1>2

(* Between two updates no group waits.                                     *)
LEMMA IdleIsDone ==
    ASSUME TypeOK, [Next]_vars, pc = "idle" => todo = {}
    PROVE  (pc = "idle" => todo = {})'
<1> USE DEF pwVars, monVars, configVars, trackerVars, loopVars, ghostVars
<1>1. CASE UNCHANGED <<pc, todo>>
  BY <1>1
<1>2. CASE Environment \/ Monitor \/ User \/ Rescan \/ UNCHANGED vars
  BY <1>1, <1>2 DEF Environment, LinkUp, LinkDown, LinkChanges, NodeReady,
     PlugIn, PipeWireRestart, MonitorDies, Tick, Monitor, Seed, Block, User,
     AnswerPrompt, DismissPrompt, SetRule, RemoveRule, SetBlockAll, Rescan, vars
<1>3. CASE \E c \in checks : CheckStep(c)
  BY <1>1, <1>3 DEF CheckStep, CheckAlive, CheckRetry, CheckReport
<1>4. CASE RecvUpdate \/ AllowGroup \/ ReadCooldown \/ ClaimPrompt \/ ShowPrompt \/ Cleanup
  BY <1>4 DEF RecvUpdate, AllowGroup, ReadCooldown, ClaimPrompt, ShowPrompt, Cleanup
<1>5. ASSUME NEW g \in todo, DecideGroup(g) PROVE pc' # "idle"
  <2>1. Decision(g) # "idle"
    BY DecisionType DEF TypeOK
  <2>2. QED
    BY <1>5, <2>1 DEF DecideGroup
<1>6. ASSUME NEW failed \in SUBSET LinkIds, RefuseGroup(failed) PROVE pc' # "idle"
  BY <1>6 DEF RefuseGroup, Refused
<1>7. QED
  BY <1>2, <1>3, <1>4, <1>5, <1>6 DEF Next, Loop

(* The links of updates and of PipeWire are links that were made.          *)
LEMMA MadeInsts ==
    ASSUME TypeOK, PursuitInvariant
    PROVE  /\ \A id \in LiveIds(pw) : pw[id].inst \in Insts
           /\ \A n \in 1..Len(queue) : \A id \in LiveIds(queue[n].links) :
                 queue[n].links[id].inst \in Insts
<1>1. 1..(nextInst - 1) \subseteq Insts
  BY DEF TypeOK, Insts
<1>2. /\ GenuineLinks(pw)
      /\ \A n \in 1..Len(queue) : GenuineLinks(queue[n].links)
  BY DEF PursuitInvariant, LinkIdentity
<1>3. QED
  BY <1>1, <1>2 DEF GenuineLinks, Genuine

(* A step that reports nothing and receives nothing keeps the invariant.   *)
LEMMA LedgerKept ==
    ASSUME TypeOK, PursuitInvariant, SnapshotInvariant, LedgerInvariant,
           [Next]_vars, GraphKept
    PROVE  LedgerInvariant'
<1> USE DEF LedgerInvariant
<1>1. ~RecvUpdate /\ UNCHANGED <<ledger, seenDevs>>
  BY KeptNotReceived, LedgerStays
<1>2. UNCHANGED <<gLinks, gKnown, queue>> /\ (monitorUp' => monitorUp)
  BY DEF GraphKept
<1>3. \A m, n : Clean(m, n)' = Clean(m, n)
  BY <1>2 DEF Clean
<1>4. ASSUME NEW n \in 1..Len(queue), Clean(0, n)
      PROVE  Followed(queue[n].links)'
  <2>1. Followed(queue[n].links)
    BY <1>4
  <2>2. \A id \in LiveIds(queue[n].links) : queue[n].links[id].inst \in Insts
    BY MadeInsts
  <2>3. \A i \in Insts : Accounted(i) => Accounted(i)'
    BY <1>1, AccountedKept
  <2>4. QED
    BY <1>1, <1>2, <2>1, <2>2, <2>3 DEF Followed, LiveIds
<1>5. ASSUME monitorUp', Clean(0, Len(queue))
      PROVE  /\ Followed(pw)'
             /\ \A id \in LinkIds : ledger[id].state = "decided" => ledger[id].serial < nextSerial'
  <2>1. Followed(pw) /\ \A id \in LinkIds : ledger[id].state = "decided" => ledger[id].serial < nextSerial
    BY <1>2, <1>5
  <2>2. \A id \in LiveIds(pw) : pw[id].inst \in Insts
    BY MadeInsts
  <2>3. \A i \in Insts : Accounted(i) => Accounted(i)'
    BY <1>1, AccountedKept
  <2>4. CASE PwKept /\ nextSerial' = nextSerial
    BY <1>1, <2>1, <2>2, <2>3, <2>4 DEF Followed, LiveIds, PwKept
  <2>5. CASE PipeWireRestart
    BY <1>5, <2>5 DEF PipeWireRestart
  <2>6. ASSUME NEW new \in LinkIds, NEW shape \in Shapes, LinkUp(new, shape)
        PROVE  /\ Followed(pw)'
               /\ \A id \in LinkIds : ledger[id].state = "decided" => ledger[id].serial < nextSerial'
    <3>1. /\ nextSerial \in Nat /\ nextSerial' = nextSerial + 1
          /\ \A id \in LinkIds : id # new => pw'[id] = pw[id]
          /\ pw'[new].serial = nextSerial
      BY <2>6, NewLinkAgrees DEF SnapshotInvariant
    <3>2. \A id \in LinkIds : ledger[id].serial \in Nat
      BY DEF TypeOK, Entry
    <3>3. QED
      BY <1>1, <2>1, <2>2, <2>3, <3>1, <3>2 DEF Followed, LiveIds
  <2>7. QED
    BY <2>4, <2>5, <2>6, LinkSteps
<1>6. (pc = "idle" => todo = {})'
  BY IdleIsDone
<1>7. (queue = <<>> =>
          \A id \in LiveIds(gLinks) :
             /\ ledger[id].serial = gLinks[id].serial
             /\ Classified(gLinks[id], gKnown, seenDevs) => ledger[id].state = "decided")'
  BY <1>1, <1>2 DEF LiveIds, Classified
<1>8. QED
  BY <1>1, <1>2, <1>3, <1>4, <1>5, <1>6, <1>7

(* So does the next block: it shows PipeWire's links, of which the ledger  *)
(* speaks already, or it is a seed.                                        *)
LEMMA LedgerReported ==
    ASSUME SerialMayBeMissing = FALSE, TypeOK, PursuitInvariant, SnapshotInvariant,
           LedgerInvariant, [Next]_vars, Monitor
    PROVE  LedgerInvariant'
<1> USE DEF LedgerInvariant
<1>1. PICK u \in Update :
         /\ queue' = Append(queue, u) /\ u.links = pw
         /\ u.seed \/ monitorUp
         /\ UNCHANGED pwVars
  BY BlockReports
<1>2. UNCHANGED <<pw, nextSerial>>
  BY <1>1 DEF pwVars
<1>3. UNCHANGED <<ledger, todo, verdict>>
  BY DEF Monitor, Seed, Block, loopVars, ghostVars
<1>4. /\ Len(queue) \in Nat /\ Len(queue') = Len(queue) + 1
      /\ queue' # <<>> /\ queue'[Len(queue')] = u
      /\ \A n \in 1..Len(queue) : n \in 1..Len(queue') /\ queue'[n] = queue[n]
  BY <1>1, QueueGrows
<1>5. \A links : Followed(links)' = Followed(links)
  BY <1>3 DEF Followed, Accounted
<1>6. ASSUME NEW n, n = Len(queue'), Clean(0, n)'
      PROVE  monitorUp /\ Clean(0, Len(queue))
  <2>1. ~queue'[Len(queue')].seed /\ \A j \in 1..Len(queue) : ~queue'[j].seed
    BY <1>4, <1>6 DEF Clean
  <2>2. QED
    BY <1>1, <1>4, <2>1 DEF Clean
<1>7. ASSUME NEW n, n = Len(queue'), Clean(0, n)'
      PROVE  /\ Followed(pw)
             /\ \A id \in LinkIds : ledger[id].state = "decided" => ledger[id].serial < nextSerial
  BY <1>6, <1>7
<1>8. ASSUME NEW n \in 1..Len(queue'), Clean(0, n)'
      PROVE  Followed(queue'[n].links)
  <2>1. CASE n = Len(queue')
    BY <1>1, <1>4, <1>7, <1>8, <2>1
  <2>2. CASE n \in 1..Len(queue)
    <3>1. Clean(0, n)
      BY <1>4, <1>8, <2>2 DEF Clean
    <3>2. QED
      BY <1>4, <2>2, <3>1
  <2>3. QED
    BY <1>4, <2>1, <2>2
<1>9. (\A n \in 1..Len(queue) : Clean(0, n) => Followed(queue[n].links))'
  <2> SUFFICES ASSUME NEW n \in 1..Len(queue'), Clean(0, n)'
               PROVE  Followed(queue[n].links)'
    OBVIOUS
  <2>1. Followed(queue'[n].links)
    BY <1>8
  <2>2. QED
    BY <1>3, <2>1 DEF Followed, Accounted
<1>10. (monitorUp /\ Clean(0, Len(queue)) =>
          /\ Followed(pw)
          /\ \A id \in LinkIds : ledger[id].state = "decided" => ledger[id].serial < nextSerial)'
  <2> SUFFICES ASSUME NEW n, n = Len(queue'), Clean(0, n)'
               PROVE  /\ Followed(pw)'
                      /\ \A id \in LinkIds : ledger'[id].state = "decided" => ledger'[id].serial < nextSerial'
    BY DEF Clean
  <2>1. QED
    BY <1>2, <1>3, <1>7 DEF Followed, Accounted
<1>11. (pc = "idle" => todo = {})'
  BY IdleIsDone
<1>12. QED
  BY <1>3, <1>4, <1>9, <1>10, <1>11

(* What reconcile makes of a live link's entry: it keeps the decision of   *)
(* the same link, or takes the link's serial, decided exactly when the     *)
(* link can be classified, and then the link is pending.                   *)
LEMMA ReconciledTo ==
    ASSUME NEW led, NEW links, NEW known, NEW devs, NEW id \in LinkIds
    PROVE  LET to == Reconcile(led, links, known, devs)[id]
           IN  /\ links[id] = NoLink => to = NoEntry
               /\ links[id] # NoLink =>
                     \/ to = led[id] /\ led[id].state = "decided" /\ ~Reused(led[id], links[id])
                     \/ /\ to.serial = links[id].serial
                        /\ to.state = "decided" <=> Classified(links[id], known, devs)
                        /\ to.state = "decided" => id \in Pending(led, links, known, devs)
<1> DEFINE e == led[id]
           l == links[id]
           to == Reconcile(led, links, known, devs)[id]
<1>1. to = IF l = NoLink THEN NoEntry ELSE ReconcileEntry(e, l, known, devs)
  BY DEF Reconcile
<1>2. ASSUME l # NoLink, PriorState(e, l) = "decided"
      PROVE  to = e /\ e.state = "decided" /\ ~Reused(e, l)
  BY <1>1, <1>2 DEF ReconcileEntry, PriorState
<1>3. ASSUME l # NoLink, PriorState(e, l) # "decided"
      PROVE  /\ to.serial = l.serial
             /\ to.state = "decided" <=> Classified(l, known, devs)
             /\ to.state = "decided" => id \in Pending(led, links, known, devs)
  <2>1. to = [serial |-> l.serial,
              state  |-> IF Classified(l, known, devs) THEN "decided"
                         ELSE IF \/ PriorState(e, l) = "notProtected"
                                 \/ l.shape.stream \in known
                              THEN "notProtected" ELSE "waiting"]
    BY <1>1, <1>3 DEF ReconcileEntry
  <2>2. to.serial = l.serial /\ (to.state = "decided" <=> Classified(l, known, devs))
    <3> HIDE DEF to
    <3>1. QED
      BY <2>1
  <2>3. Classified(l, known, devs) => id \in Pending(led, links, known, devs)
    BY <1>3 DEF Pending
  <2>4. QED
    BY <2>2, <2>3
<1>4. QED
  BY <1>1, <1>2, <1>3

(* A pending link is in a group of its own access.                         *)
LEMMA PendingGrouped ==
    ASSUME NEW ids, NEW links, NEW id \in ids
    PROVE  \E g \in GroupLinks(ids, links) : \E k \in g.keys : k.inst = links[id].inst
<1>1. KeyOf(id, links[id]) \in GroupOf(id, ids, links).keys
  BY DEF GroupOf, SameAccess
<1>2. KeyOf(id, links[id]).inst = links[id].inst
  BY DEF KeyOf
<1>3. GroupOf(id, ids, links) \in GroupLinks(ids, links)
  BY DEF GroupLinks
<1>4. QED
  BY <1>1, <1>2, <1>3

(* The receipt of an update keeps the invariant: what was decided and is   *)
(* the same link stays so, and the rest waits for its decision.            *)
LEMMA LedgerReceived ==
    ASSUME TypeOK, SnapshotInvariant, LedgerInvariant, [Next]_vars, RecvUpdate
    PROVE  LedgerInvariant'
<1> USE DEF LedgerInvariant
<1> DEFINE u == Head(queue)
           led == IF u.seed THEN EmptyLedger ELSE ledger
           ids == Pending(led, u.links, u.known, devices)
<1>1. /\ ledger' = Reconcile(led, u.links, u.known, devices)
      /\ todo' = GroupLinks(ids, u.links)
      /\ seenDevs' = devices /\ pc' = "groups"
      /\ UNCHANGED <<pw, nextSerial, gLinks, gKnown, monitorUp, verdict>>
      /\ queue # <<>> /\ queue' = Tail(queue) /\ todo = {}
  BY DEF RecvUpdate, pwVars
<1>2. /\ Len(queue) \in Nat \ {0} /\ u = queue[1]
      /\ Len(queue') = Len(queue) - 1 /\ Len(queue') \in Nat
      /\ queue' = <<>> <=> Len(queue) = 1
      /\ \A n \in 1..Len(queue') : n + 1 \in 2..Len(queue) /\ queue'[n] = queue[n + 1]
  BY <1>1, QueueShift
<1>3. ASSUME NEW id \in LinkIds, led[id].state = "decided"
      PROVE  ~u.seed /\ led[id] = ledger[id]
  BY <1>3 DEF EmptyLedger, NoEntry
<1>4. /\ Serialled(u.links)
      /\ queue[Len(queue)].links = gLinks /\ queue[Len(queue)].known = gKnown
  BY <1>1, <1>2 DEF SnapshotInvariant
<1> HIDE DEF u, led, ids
<1>5. ASSUME NEW id \in LinkIds, ledger'[id].state = "decided"
      PROVE  /\ u.links[id] # NoLink
             /\ \/ /\ ~u.seed /\ ledger'[id] = ledger[id]
                   /\ ledger[id].state = "decided" /\ ~Reused(ledger[id], u.links[id])
                \/ ledger'[id].serial = u.links[id].serial /\ id \in ids
  BY <1>1, <1>3, <1>5, ReconciledTo DEF ids, NoEntry
<1>6. \A id \in ids : \A i : i = u.links[id].inst => Accounted(i)'
  BY <1>1, PendingGrouped DEF Accounted
<1>7. ASSUME NEW links, Agree(u.links, links), ~u.seed => Followed(links)
      PROVE  Followed(links)'
  <2> SUFFICES ASSUME NEW id \in LinkIds, ledger'[id].state = "decided",
                      links[id] # NoLink, links[id].serial = ledger'[id].serial
               PROVE  Accounted(links[id].inst)'
    BY DEF Followed
  <2>1. CASE ~u.seed /\ ledger'[id] = ledger[id] /\ ledger[id].state = "decided"
    <3>1. Accounted(links[id].inst)
      BY <1>7, <2>1 DEF Followed
    <3>2. QED
      BY <1>1, <3>1 DEF Accounted
  <2>2. CASE ledger'[id].serial = u.links[id].serial /\ id \in ids /\ u.links[id] # NoLink
    <3>1. links[id].inst = u.links[id].inst
      BY <1>7, <2>2 DEF Agree
    <3>2. QED
      BY <1>6, <2>2, <3>1 DEF Accounted
  <2>3. QED
    BY <1>5, <2>1, <2>2
<1>8. \A n \in 0..Len(queue') : Clean(0, n)' =>
         Clean(1, n + 1) /\ (~u.seed => Clean(0, n + 1))
  <2> SUFFICES ASSUME NEW n \in 0..Len(queue'), Clean(0, n)'
               PROVE  Clean(1, n + 1) /\ (~u.seed => Clean(0, n + 1))
    OBVIOUS
  <2>1. 0 \in 0..Len(queue')
    BY <1>2
  <2>2. Clean(0 + 1, n + 1)
    BY <1>1, <2>1, CleanShift
  <2>3. QED
    BY <1>2, <2>2 DEF Clean
<1>9. (\A n \in 1..Len(queue) : Clean(0, n) => Followed(queue[n].links))'
  <2> SUFFICES ASSUME NEW n \in 1..Len(queue'), Clean(0, n)'
               PROVE  Followed(queue[n].links)'
    OBVIOUS
  <2>1. /\ n + 1 \in 2..Len(queue) /\ n + 1 \in 1..Len(queue) /\ 1 \in 1..Len(queue)
        /\ queue'[n] = queue[n + 1] /\ 1 + 1 = 2
    BY <1>2
  <2>2. Clean(1, n + 1) /\ (~u.seed => Clean(0, n + 1))
    BY <1>2, <1>8
  <2>3. Agree(u.links, queue[n + 1].links)
    BY <1>2, <2>1, <2>2 DEF SnapshotInvariant
  <2>4. ~u.seed => Followed(queue[n + 1].links)
    BY <2>1, <2>2
  <2>5. \A links : links = queue[n + 1].links => Followed(links)'
    BY <1>7, <2>3, <2>4
  <2>6. QED
    BY <2>1, <2>5 DEF Followed, Accounted
<1>10. (monitorUp /\ Clean(0, Len(queue)) =>
          /\ Followed(pw)
          /\ \A id \in LinkIds : ledger[id].state = "decided" => ledger[id].serial < nextSerial)'
  <2> SUFFICES ASSUME monitorUp, NEW n, n = Len(queue'), Clean(0, n)'
               PROVE  /\ Followed(pw)'
                      /\ \A id \in LinkIds : ledger'[id].state = "decided" => ledger'[id].serial < nextSerial
    BY <1>1 DEF Clean
  <2>1. Clean(1, Len(queue)) /\ (~u.seed => Clean(0, Len(queue)))
    <3>1. n \in 0..Len(queue') /\ n + 1 = Len(queue)
      BY <1>2
    <3>2. QED
      BY <1>8, <3>1
  <2>2. Agree(u.links, pw) /\ Older(u.links)
    BY <1>2, <2>1 DEF SnapshotInvariant
  <2>3. ~u.seed => /\ Followed(pw)
                   /\ \A id \in LinkIds : ledger[id].state = "decided" => ledger[id].serial < nextSerial
    BY <2>1
  <2>4. \A links : links = pw => Followed(links)'
    BY <1>7, <2>2, <2>3
  <2>5. QED
    BY <1>1, <1>5, <2>2, <2>3, <2>4 DEF Older, LiveIds, Followed, Accounted
<1>11. (\A id \in LinkIds : ledger[id].state = "decided" => ledger[id].serial # NoSerial)'
  BY <1>4, <1>5 DEF Serialled, LiveIds
<1>12. (queue = <<>> =>
          \A id \in LiveIds(gLinks) :
             /\ ledger[id].serial = gLinks[id].serial
             /\ Classified(gLinks[id], gKnown, seenDevs) => ledger[id].state = "decided")'
  <2> SUFFICES ASSUME queue' = <<>>, NEW id \in LinkIds, gLinks[id] # NoLink
               PROVE  /\ ledger'[id].serial = gLinks[id].serial
                      /\ Classified(gLinks[id], gKnown, devices) => ledger'[id].state = "decided"
    BY <1>1 DEF LiveIds, Classified
  <2>1. u.links = gLinks /\ u.known = gKnown
    BY <1>2, <1>4
  <2>2. gLinks[id].serial # NoSerial
    BY <1>4, <2>1 DEF Serialled, LiveIds
  <2>3. \/ /\ ledger'[id] = led[id] /\ led[id].state = "decided"
           /\ ~Reused(led[id], gLinks[id])
        \/ /\ ledger'[id].serial = gLinks[id].serial
           /\ ledger'[id].state = "decided" <=> Classified(gLinks[id], gKnown, devices)
    BY <1>1, <2>1, ReconciledTo
  <2>4. led[id].state = "decided" => led[id].serial # NoSerial
    BY <1>3
  <2>5. QED
    BY <2>2, <2>3, <2>4 DEF Reused
<1>13. QED
  BY <1>1, <1>9, <1>10, <1>11, <1>12

(* When every link PipeWire reports carries its serial: once the loop has  *)
(* caught up, every live link on a protected device has its own recorded   *)
(* decision, for any number of links, ids, updates, restarts and re-seeds. *)
THEOREM EveryLinkIsAccountedFor ==
    ASSUME SerialMayBeMissing = FALSE
    PROVE  Spec => []EveryLinkAccountedFor
<1>1. Init => SnapshotInvariant /\ LedgerInvariant
  <2> SUFFICES ASSUME Init PROVE SnapshotInvariant /\ LedgerInvariant
    OBVIOUS
  <2>1. LiveIds(pw) = {} /\ LiveIds(gLinks) = {} /\ queue = <<>> /\ Len(queue) = 0
    BY DEF Init, LiveIds, NoLinks
  <2>2. ~monitorUp /\ todo = {} /\ \A id \in LinkIds : ledger[id].state = "none"
    BY DEF Init, EmptyLedger, NoEntry
  <2>3. QED
    BY <2>1, <2>2 DEF SnapshotInvariant, LedgerInvariant, Serialled, Older
<1>2. /\ TypeOK /\ PursuitInvariant /\ SnapshotInvariant /\ LedgerInvariant /\ [Next]_vars
      => SnapshotInvariant' /\ LedgerInvariant'
  BY StepsMark, SnapshotKept, SnapshotReported, SnapshotReceived,
     LedgerKept, LedgerReported, LedgerReceived DEF Monitor
<1>3. TypeOK /\ PursuitInvariant /\ SnapshotInvariant /\ LedgerInvariant => EveryLinkAccountedFor
  <2> SUFFICES ASSUME TypeOK, SnapshotInvariant, LedgerInvariant, Drained,
                      NEW id \in LiveIds(pw), Classified(pw[id], ready, seenDevs)
               PROVE  ledger[id].state = "decided" /\ verdict[pw[id].inst] # "none"
    BY DEF EveryLinkAccountedFor
  <2>1. gLinks[id] = pw[id] /\ id \in LiveIds(gLinks)
    BY DEF Drained, SnapshotInvariant, LiveIds
  <2>2. ledger[id].serial = pw[id].serial /\ ledger[id].state = "decided"
    BY <2>1 DEF Drained, LedgerInvariant
  <2>3. Followed(pw) /\ todo = {}
    BY DEF Drained, LedgerInvariant, Clean
  <2>4. QED
    BY <2>2, <2>3 DEF Followed, Accounted, LiveIds
<1>4. QED
  BY <1>1, <1>2, <1>3, TypeCorrect, PursuitIsInvariant, PTL DEF Spec

-----------------------------------------------------------------------------
(* What was let through is tracked.                                        *)

(* The keys of the groups of this update that are not through.             *)
GroupKeysLeft == (UNION {g.keys : g \in todo}) \cup (IF cur = NoGroup THEN {} ELSE cur.keys)

(* The groups of an update have one key for an id, of an id it lists; a    *)
(* link with a decision is in this update, if it lives, and in every later *)
(* one; and if it was let through it is tracked, or about to be.           *)
TrackInvariant ==
    /\ \A k \in GroupKeysLeft : k.id \in updLinks
    /\ \A k, l \in GroupKeysLeft : k.id = l.id => k = l
    /\ \A id \in LiveIds(pw) :
          verdict[pw[id].inst] # "none" =>
             /\ \A n \in 1..Len(queue) : Shows(queue[n].links, id)
             /\ Shows(gLinks, id)
             /\ id \in updLinks
             /\ \A k \in GroupKeysLeft : k.id = id => k.inst = pw[id].inst
    /\ \A id \in LiveIds(pw) :
          verdict[pw[id].inst] = "allow" =>
             \/ pc = "allow" /\ \E k \in cur.keys : k.inst = pw[id].inst
             \/ active[id] # NoConn /\ active[id].inst = pw[id].inst

(* A step in which links only go, and which lets nothing through.          *)
LEMMA TrackFrame ==
    ASSUME TrackInvariant, PwKept, GroupKeysLeft' \subseteq GroupKeysLeft,
           UNCHANGED <<gLinks, queue, updLinks, verdict>>,
           pc = "allow" => UNCHANGED <<pc, cur>>,
           \A id \in updLinks : active'[id] = active[id]
    PROVE  TrackInvariant'
<1> USE DEF TrackInvariant
<1>1. \A id \in LiveIds(pw') : id \in LiveIds(pw) /\ pw'[id] = pw[id]
  BY DEF PwKept, LiveIds
<1>2. (\A id \in LiveIds(pw) :
          verdict[pw[id].inst] # "none" =>
             /\ \A n \in 1..Len(queue) : Shows(queue[n].links, id)
             /\ Shows(gLinks, id)
             /\ id \in updLinks
             /\ \A k \in GroupKeysLeft : k.id = id => k.inst = pw[id].inst)'
  BY <1>1 DEF Shows
<1>3. (\A id \in LiveIds(pw) :
          verdict[pw[id].inst] = "allow" =>
             \/ pc = "allow" /\ \E k \in cur.keys : k.inst = pw[id].inst
             \/ active[id] # NoConn /\ active[id].inst = pw[id].inst)'
  BY <1>1
<1>4. QED
  BY <1>2, <1>3

(* A new link has no decision.                                             *)
LEMMA TrackLinkUp ==
    ASSUME TypeOK, PursuitInvariant, TrackInvariant,
           NEW new \in LinkIds, NEW shape \in Shapes, LinkUp(new, shape)
    PROVE  TrackInvariant'
<1>1. nextInst \in Insts /\ verdict[nextInst] = "none"
  BY DEF TypeOK, LinkUp, Insts, PursuitInvariant
<1>2. /\ \A id \in LinkIds : id # new => pw'[id] = pw[id]
      /\ pw'[new].inst = nextInst
      /\ UNCHANGED <<gLinks, queue, updLinks, verdict, todo, cur, pc, active>>
  BY DEF LinkUp, TypeOK, LinkMap, loopVars, trackerVars, ghostVars
<1>3. GroupKeysLeft' = GroupKeysLeft
  BY <1>2 DEF GroupKeysLeft
<1>4. \A id \in LiveIds(pw') : verdict[pw'[id].inst] # "none" =>
         id \in LiveIds(pw) /\ pw'[id] = pw[id]
  BY <1>1, <1>2 DEF LiveIds
<1>5. (\A id \in LiveIds(pw) :
          verdict[pw[id].inst] # "none" =>
             /\ \A n \in 1..Len(queue) : Shows(queue[n].links, id)
             /\ Shows(gLinks, id)
             /\ id \in updLinks
             /\ \A k \in GroupKeysLeft : k.id = id => k.inst = pw[id].inst)'
  BY <1>2, <1>3, <1>4 DEF Shows, TrackInvariant
<1>6. (\A id \in LiveIds(pw) :
          verdict[pw[id].inst] = "allow" =>
             \/ pc = "allow" /\ \E k \in cur.keys : k.inst = pw[id].inst
             \/ active[id] # NoConn /\ active[id].inst = pw[id].inst)'
  BY <1>2, <1>4 DEF TrackInvariant
<1>7. QED
  BY <1>2, <1>3, <1>5, <1>6 DEF TrackInvariant

(* A block shows what the last one showed, or what PipeWire has.           *)
LEMMA TrackReported ==
    ASSUME TypeOK, PursuitInvariant, TrackInvariant, Monitor,
           SerialMayBeMissing = FALSE
    PROVE  TrackInvariant'
<1> USE DEF TrackInvariant
<1>1. \A id \in LinkIds : gLinks'[id] = gLinks[id] \/ gLinks'[id] = pw[id]
  <2>1. \A id \in LiveIds(pw) : pw[id].serial # NoSerial
    BY DEF PursuitInvariant, LinkIdentity
  <2>2. CASE Seed
    BY <2>2 DEF Seed, SeedLinks, Seen
  <2>3. CASE Block
    BY <2>1, <2>3 DEF Block, BlockLinks, Seen, ApplyObject, LiveIds
  <2>4. QED
    BY <2>2, <2>3 DEF Monitor
<1>2. UNCHANGED <<pw, updLinks, verdict, todo, cur, pc, active>>
  BY DEF Monitor, Seed, Block, pwVars, loopVars, trackerVars, ghostVars
<1>3. PICK u \in Update : queue' = Append(queue, u) /\ u.links = gLinks'
  <2>1. gLinks' \in LinkMap
    BY BlockType DEF Monitor, Seed, Block
  <2>2. \A b \in BOOLEAN : [seed |-> b, links |-> gLinks', known |-> ready] \in Update
    BY <2>1 DEF Update, TypeOK
  <2>3. QED
    BY <2>2 DEF Monitor, Seed, Block
<1>4. /\ Len(queue) \in Nat /\ Len(queue') = Len(queue) + 1
      /\ queue'[Len(queue')] = u
      /\ \A n \in 1..Len(queue) : n \in 1..Len(queue') /\ queue'[n] = queue[n]
  BY <1>3, QueueGrows
<1>5. \A n \in 1..Len(queue') : n \in 1..Len(queue) \/ n = Len(queue')
  BY <1>4
<1>6. GroupKeysLeft' = GroupKeysLeft
  BY <1>2 DEF GroupKeysLeft
<1>7. ASSUME NEW id \in LiveIds(pw), verdict[pw[id].inst] # "none"
      PROVE  /\ \A n \in 1..Len(queue') : Shows(queue'[n].links, id)
             /\ Shows(gLinks', id)
  <2>1. Shows(gLinks, id) /\ \A n \in 1..Len(queue) : Shows(queue[n].links, id)
    BY <1>7
  <2>2. Shows(gLinks', id)
    BY <1>1, <2>1 DEF Shows, LiveIds
  <2>3. QED
    BY <1>3, <1>4, <1>5, <2>1, <2>2
<1>8. QED
  BY <1>2, <1>6, <1>7 DEF Shows, LiveIds

(* The groups of the next update are made of its links.                    *)
LEMMA TrackReceived ==
    ASSUME TypeOK, TrackInvariant, RecvUpdate
    PROVE  TrackInvariant'
<1> USE DEF TrackInvariant
<1> DEFINE u == Head(queue)
           led == IF u.seed THEN EmptyLedger ELSE ledger
           ids == Pending(led, u.links, u.known, devices)
<1>1. /\ pc = "idle" /\ queue # <<>> /\ queue' = Tail(queue) /\ cur' = cur
      /\ todo' = GroupLinks(ids, u.links) /\ updLinks' = LiveIds(u.links)
      /\ UNCHANGED <<pw, gLinks, verdict, active>>
  BY DEF RecvUpdate, pwVars, trackerVars
<1>2. /\ u = queue[1] /\ 1 \in 1..Len(queue)
      /\ \A n \in 1..Len(queue') : n + 1 \in 1..Len(queue) /\ queue'[n] = queue[n + 1]
  BY <1>1, QueueShift
<1>3. cur = NoGroup
  BY <1>1 DEF TypeOK
<1> HIDE DEF u, led
<1>4. \A j \in ids : j \in LinkIds /\ u.links[j] # NoLink
  BY PendingLive
<1> HIDE DEF ids
<1>5. ASSUME NEW k \in GroupKeysLeft'
      PROVE  k.id \in LiveIds(u.links) /\ k = KeyOf(k.id, u.links[k.id])
             /\ k.inst = u.links[k.id].inst
  <2>1. \E g \in todo' : k \in g.keys
    BY <1>1, <1>3, <1>5 DEF GroupKeysLeft
  <2>2. PICK j \in ids : k = KeyOf(j, u.links[j])
    BY <1>1, <2>1, GroupKeys
  <2>3. QED
    BY <1>4, <2>2 DEF KeyOf, LiveIds
<1>6. ASSUME NEW id \in LiveIds(pw), verdict[pw[id].inst] # "none"
      PROVE  /\ id \in LiveIds(u.links)
             /\ \A n \in 1..Len(queue') : Shows(queue'[n].links, id)
             /\ Shows(gLinks, id)
             /\ \A k \in GroupKeysLeft' : k.id = id => k.inst = pw[id].inst
  <2>1. Shows(u.links, id)
    BY <1>2, <1>6
  <2>2. QED
    BY <1>2, <1>5, <1>6, <2>1 DEF Shows, LiveIds
<1>7. QED
  BY <1>1, <1>5, <1>6 DEF Shows, LiveIds

(* A decision: the links it is about are shown by every later update.      *)
LEMMA TrackDecided ==
    ASSUME TypeOK, PursuitInvariant, TrackInvariant,
           NEW g \in todo, DecideGroup(g)
    PROVE  TrackInvariant'
<1> USE DEF TrackInvariant
<1>1. /\ pc = "groups" /\ todo' = todo \ {g} /\ Judged(g, Decision(g))
      /\ IF Decision(g) = "unguarded" THEN UNCHANGED <<pc, cur>>
                                      ELSE pc' = Decision(g) /\ cur' = g
      /\ UNCHANGED <<pw, gLinks, queue, updLinks, active>>
  BY DEF DecideGroup, pwVars, monVars, trackerVars
<1>2. GroupKeysLeft' \subseteq GroupKeysLeft /\ g.keys \subseteq GroupKeysLeft
  BY <1>1 DEF GroupKeysLeft
<1>3. ASSUME NEW id \in LiveIds(pw), NEW k \in g.keys, k.inst = pw[id].inst
      PROVE  /\ k.id = id
             /\ \A n \in 1..Len(queue) : Shows(queue[n].links, id)
             /\ Shows(gLinks, id)
  <2>1. k \in KeysInPlay
    BY DEF KeysInPlay
  <2>2. k.id = id /\ pw[id] # NoLink
    BY <1>3, <2>1 DEF PursuitInvariant, LinkIdentity, Genuine, LiveIds
  <2>3. QED
    BY <1>3, <2>1, <2>2 DEF PursuitInvariant, KeysFollowed
<1>4. \A id \in LiveIds(pw) :
         verdict'[pw[id].inst] = IF \E k \in g.keys : k.inst = pw[id].inst
                                 THEN Decision(g) ELSE verdict[pw[id].inst]
  BY <1>1, MadeInsts DEF Judged
<1>5. ASSUME NEW id \in LiveIds(pw), verdict'[pw[id].inst] # "none"
      PROVE  /\ \A n \in 1..Len(queue) : Shows(queue[n].links, id)
             /\ Shows(gLinks, id)
             /\ id \in updLinks
             /\ \A k \in GroupKeysLeft' : k.id = id => k.inst = pw[id].inst
  <2>1. CASE \E k \in g.keys : k.inst = pw[id].inst
    BY <1>2, <1>3, <2>1
  <2>2. CASE ~\E k \in g.keys : k.inst = pw[id].inst
    BY <1>2, <1>4, <1>5, <2>2
  <2>3. QED
    BY <2>1, <2>2
<1>6. ASSUME NEW id \in LiveIds(pw), verdict'[pw[id].inst] = "allow"
      PROVE  \/ pc' = "allow" /\ \E k \in cur'.keys : k.inst = pw[id].inst
             \/ active[id] # NoConn /\ active[id].inst = pw[id].inst
  BY <1>1, <1>4, <1>6
<1>7. QED
  BY <1>1, <1>2, <1>5, <1>6 DEF Shows, LiveIds

(* What is let through is tracked, and takes nobody else's place.          *)
LEMMA TrackAllowed ==
    ASSUME TypeOK, PursuitInvariant, TrackInvariant, AllowGroup
    PROVE  TrackInvariant'
<1> USE DEF TrackInvariant
<1> DEFINE Tracked(k) == [app |-> PairOf(cur)[1], cat |-> PairOf(cur)[2],
                          perm |-> rules[PairOf(cur)], inst |-> k.inst]
<1>1. /\ pc = "allow" /\ pc' = "groups" /\ cur' = NoGroup /\ cur # NoGroup
      /\ UNCHANGED <<pw, gLinks, queue, updLinks, verdict, todo>>
      /\ active' = [id \in LinkIds |->
                       IF \E k \in cur.keys : k.id = id
                       THEN Tracked(CHOOSE k \in cur.keys : k.id = id)
                       ELSE active[id]]
  BY DEF AllowGroup, TypeOK, pwVars, monVars, ghostVars
<1>2. GroupKeysLeft' \subseteq GroupKeysLeft /\ cur.keys \subseteq GroupKeysLeft
  BY <1>1 DEF GroupKeysLeft
<1>3. \A k \in cur.keys : Tracked(k) \in Conn /\ Tracked(k).inst = k.inst
  <2>1. rules[PairOf(cur)] \in Permissions
    BY <1>1, CurPair DEF TypeOK
  <2>2. QED
    BY <1>1, <2>1, CurPair DEF Conn, Key
<1> HIDE DEF Tracked
<1>4. ASSUME NEW id \in LiveIds(pw), verdict[pw[id].inst] = "allow"
      PROVE  active'[id] # NoConn /\ active'[id].inst = pw[id].inst
  <2>0. id \in LinkIds
    BY DEF LiveIds
  <2>1. CASE \E k \in cur.keys : k.id = id
    <3>1. PICK k \in cur.keys : k.id = id /\ active'[id] = Tracked(k)
      BY <1>1, <2>0, <2>1
    <3>2. k.inst = pw[id].inst
      BY <1>2, <1>4, <3>1
    <3>3. QED
      BY <1>3, <3>1, <3>2
  <2>2. CASE ~\E k \in cur.keys : k.id = id
    <3>1. ~\E k \in cur.keys : k.inst = pw[id].inst
      <4>1. ASSUME NEW k \in cur.keys, k.inst = pw[id].inst PROVE k.id = id
        <5>1. k \in KeysInPlay
          BY <1>1 DEF KeysInPlay
        <5>2. QED
          BY <4>1, <5>1 DEF PursuitInvariant, LinkIdentity, Genuine
      <4>2. QED
        BY <2>2, <4>1
    <3>2. QED
      BY <1>1, <1>4, <2>0, <2>2, <3>1
  <2>3. QED
    BY <2>1, <2>2
<1>5. QED
  BY <1>1, <1>2, <1>4 DEF Shows, LiveIds

(* Every other step.                                                       *)
LEMMA TrackOthers ==
    ASSUME TypeOK, TrackInvariant, [Next]_vars,
           ~Monitor, ~RecvUpdate, ~AllowGroup, ~\E g \in todo : DecideGroup(g),
           ~\E id \in LinkIds, shape \in Shapes : LinkUp(id, shape)
    PROVE  TrackInvariant'
<1> USE DEF pwVars, monVars, configVars, trackerVars, loopVars, ghostVars
<1>1. ASSUME NEW ids, NEW failed, Destroy(ids, failed), nextInst' = nextInst PROVE PwKept
  BY <1>1 DEF Destroy, PwKept
<1>2. CASE Environment
  <2>1. PwKept /\ UNCHANGED <<gLinks, queue, updLinks, verdict, todo, cur, pc, active>>
    BY <1>2 DEF Environment, LinkDown, LinkChanges, NodeReady, PlugIn,
       PipeWireRestart, MonitorDies, Tick, PwKept, NoLinks, TypeOK, LinkMap
  <2>2. QED
    BY <2>1, TrackFrame DEF GroupKeysLeft
<1>3. CASE User \/ Rescan \/ UNCHANGED vars
  <2>1. PwKept /\ UNCHANGED <<gLinks, queue, updLinks, verdict, todo, cur, pc, active>>
    BY <1>3 DEF User, AnswerPrompt, DismissPrompt, SetRule, RemoveRule,
       SetBlockAll, Rescan, vars, PwKept
  <2>2. QED
    BY <2>1, TrackFrame DEF GroupKeysLeft
<1>4. CASE \E c \in checks : CheckStep(c)
  <2>1. /\ PwKept
        /\ UNCHANGED <<gLinks, queue, updLinks, verdict, todo, cur, pc, active>>
    BY <1>1, <1>4 DEF CheckStep, CheckAlive, CheckRetry, CheckReport, PwKept
  <2>2. QED
    BY <2>1, TrackFrame DEF GroupKeysLeft
<1>5. CASE \/ ReadCooldown \/ ClaimPrompt \/ ShowPrompt
           \/ \E failed \in SUBSET LinkIds : RefuseGroup(failed)
  <2>1. /\ PwKept /\ pc # "allow"
        /\ UNCHANGED <<gLinks, queue, updLinks, verdict, todo, active>>
        /\ cur' = NoGroup \/ cur' = cur
    BY <1>1, <1>5 DEF ReadCooldown, ClaimPrompt, ShowPrompt, RefuseGroup, PwKept, Refused
  <2>2. GroupKeysLeft' \subseteq GroupKeysLeft
    BY <2>1 DEF GroupKeysLeft
  <2>3. QED
    BY <2>1, <2>2, TrackFrame
<1>6. CASE Cleanup
  <2>1. /\ PwKept /\ pc # "allow"
        /\ UNCHANGED <<gLinks, queue, updLinks, verdict, todo, cur>>
    BY <1>6 DEF Cleanup, PwKept
  <2>2. \A id \in updLinks : active'[id] = active[id]
    BY <1>6 DEF Cleanup, Prune, TypeOK
  <2>3. QED
    BY <2>1, <2>2, TrackFrame DEF GroupKeysLeft
<1>7. QED
  BY <1>2, <1>3, <1>4, <1>5, <1>6 DEF Next, Loop

(* When every link PipeWire reports carries its serial, a live link that   *)
(* was let through is tracked as the link it is, from the end of its own   *)
(* group on: no reused id, respawned monitor or other application's group  *)
(* takes it out of the table, so its session is not ended under it.        *)
THEOREM AllowedLinksAreTracked ==
    ASSUME SerialMayBeMissing = FALSE
    PROVE  Spec => []AllowedIsTracked
<1>1. Init => TrackInvariant
  <2> SUFFICES ASSUME Init PROVE TrackInvariant
    OBVIOUS
  <2>1. LiveIds(pw) = {} /\ GroupKeysLeft = {}
    BY DEF Init, LiveIds, NoLinks, GroupKeysLeft
  <2>2. QED
    BY <2>1 DEF TrackInvariant
<1>2. TypeOK /\ PursuitInvariant /\ TrackInvariant /\ [Next]_vars => TrackInvariant'
  BY TrackLinkUp, TrackReported, TrackReceived, TrackDecided, TrackAllowed, TrackOthers
<1>3. TrackInvariant => AllowedIsTracked
  BY DEF TrackInvariant, AllowedIsTracked, Drained
<1>4. QED
  BY <1>1, <1>2, <1>3, TypeCorrect, PursuitIsInvariant, PTL DEF Spec

(* Once the loop has caught up, a connection is of an id PipeWire has, and *)
(* of the link that has it, unless that link was not let through: one that *)
(* took the id over between two reports leaves the dead link's connection. *)
THEOREM ConnectionsEnd ==
    ASSUME SerialMayBeMissing = FALSE
    PROVE  Spec => []ConnectionsEndWithLinks
<1>1. ConnInvariant /\ AllowedIsTracked => ConnectionsEndWithLinks
  BY DEF ConnInvariant, AllowedIsTracked, ConnectionsEndWithLinks, Drained, LiveIds
<1>2. QED
  BY <1>1, ConnIsInvariant, AllowedLinksAreTracked, PTL

-----------------------------------------------------------------------------
(* Blocks without serials.  What follows assumes nothing of them: a link   *)
(* may be reported under the serial of another, or under none.             *)

(* A slot of a snapshot holds this link.                                   *)
IsOf(l, i) == l # NoLink /\ l.inst = i

(* Every link has the id and the shape it was made with wherever it is     *)
(* shown, and the serial, if blocks carry serials.                         *)
Homed(links, home, next) ==
    \A id \in LinkIds : links[id] # NoLink =>
        /\ links[id].inst \in 1..(next - 1)
        /\ links[id].shape \in Shapes
        /\ home[links[id].inst].id = id
        /\ home[links[id].inst].shape = links[id].shape
        /\ SerialMayBeMissing = FALSE => home[links[id].inst].serial = links[id].serial

AtHome(home) ==
    /\ Homed(pw, home, nextInst) /\ Homed(gLinks, home, nextInst)
    /\ \A n \in 1..Len(queue) : Homed(queue[n].links, home, nextInst)
    /\ \A k \in KeysInPlay : k.inst \in 1..(nextInst - 1) /\ home[k.inst].id = k.id

(* Of a link that lives: its node is plugged in, and since it was reported *)
(* first no snapshot has lost it, nor a stream whose node was complete.    *)
LiveSight(id) ==
    /\ pw[id].serial # NoSerial
    /\ CatOf[pw[id].shape.node] # "none" => pw[id].shape.node \in plugged
    /\ Shows(gLinks, id) => gKnown \subseteq ready
    /\ \A m \in 1..Len(queue) : Shows(queue[m].links, id) =>
          /\ queue[m].known \subseteq gKnown
          /\ \A n \in 1..Len(queue) : m <= n => queue[m].known \subseteq queue[n].known

(* What is shown of links, whatever serials are.                           *)
SightInvariant ==
    /\ \E home : AtHome(home)
    /\ SnapshotsKeepLinks
    /\ \A id \in LiveIds(pw) : LiveSight(id)
    /\ \A i \in Insts : i >= nextInst => verdict[i] = "none"

(* The steps that report and receive nothing take up no link.              *)
LEMMA QuietSteps ==
    ASSUME TypeOK, [Next]_vars, ~Monitor, ~RecvUpdate
    PROVE  /\ UNCHANGED <<gLinks, gKnown, queue, ledger>>
           /\ KeysInPlay' \subseteq KeysInPlay
           /\ GroupKeysLeft' \subseteq GroupKeysLeft
           /\ LiveIds(pw') = {} \/ (ready \subseteq ready' /\ plugged \subseteq plugged')
           /\ devices' = devices \/ (devices' = plugged /\ plugged' = plugged)
           /\ \A i \in Insts : Accounted(i)' => Accounted(i)
<1> USE DEF pwVars, monVars, configVars, trackerVars, loopVars, ghostVars
<1>1. UNCHANGED <<gLinks, gKnown, queue, ledger>>
  BY DEF Next, Environment, LinkUp, LinkDown, LinkChanges, NodeReady, PlugIn,
     PipeWireRestart, MonitorDies, Tick, User, AnswerPrompt, DismissPrompt,
     SetRule, RemoveRule, SetBlockAll, Rescan, CheckStep, CheckAlive,
     CheckRetry, CheckReport, Loop, AllowGroup, DecideGroup, RefuseGroup,
     ReadCooldown, ClaimPrompt, ShowPrompt, Cleanup, vars
<1>2. /\ LiveIds(pw') = {} \/ (ready \subseteq ready' /\ plugged \subseteq plugged')
      /\ devices' = devices \/ (devices' = plugged /\ plugged' = plugged)
  <2>1. CASE PipeWireRestart
    BY <2>1 DEF PipeWireRestart, NoLinks, LiveIds
  <2>2. CASE ~PipeWireRestart
    BY <2>2 DEF Next, Environment, LinkUp, LinkDown, LinkChanges, NodeReady, PlugIn,
       MonitorDies, Tick, User, AnswerPrompt, DismissPrompt, SetRule, RemoveRule,
       SetBlockAll, Rescan, CheckStep, CheckAlive, CheckRetry, CheckReport, Loop,
       AllowGroup, DecideGroup, RefuseGroup, ReadCooldown, ClaimPrompt, ShowPrompt,
       Cleanup, vars
  <2>3. QED
    BY <2>1, <2>2
<1>3. \A i \in Insts : Accounted(i)' => Accounted(i)
  <2>1. ASSUME NEW g \in todo, DecideGroup(g), NEW i \in Insts, Accounted(i)'
        PROVE  Accounted(i)
    <3>1. todo' \subseteq todo
      BY <2>1 DEF DecideGroup
    <3>2. verdict'[i] = IF \E k \in g.keys : k.inst = i THEN Decision(g) ELSE verdict[i]
      BY <2>1 DEF DecideGroup, Judged
    <3>3. QED
      BY <2>1, <3>1, <3>2 DEF Accounted
  <2>2. CASE ~\E g \in todo : DecideGroup(g)
    BY <2>2, GroupsStay DEF Accounted
  <2>3. QED
    BY <2>1, <2>2
<1>4. CASE Environment \/ User \/ Rescan \/ UNCHANGED vars
  <2>1. UNCHANGED <<todo, cur, checks>>
    BY <1>4 DEF Environment, LinkUp, LinkDown, LinkChanges, NodeReady, PlugIn,
       PipeWireRestart, MonitorDies, Tick, User, AnswerPrompt, DismissPrompt,
       SetRule, RemoveRule, SetBlockAll, Rescan, vars
  <2>2. KeysInPlay' = KeysInPlay /\ GroupKeysLeft' = GroupKeysLeft
    BY <2>1 DEF KeysInPlay, GroupKeysLeft
  <2>3. QED
    BY <1>1, <1>2, <1>3, <2>2
<1>5. ASSUME NEW c \in checks, CheckStep(c)
      PROVE  KeysInPlay' \subseteq KeysInPlay /\ GroupKeysLeft' = GroupKeysLeft
  <2>1. UNCHANGED <<todo, cur>>
    BY <1>5 DEF CheckStep, CheckAlive, CheckRetry, CheckReport
  <2>2. \A d \in checks' : \E e \in checks : d.keys \subseteq e.keys
    <3>1. CASE CheckAlive(c)
      <4>1. \A d \in checks' : d \in checks \/ d.keys = StillAlive(ledger, c.keys)
        BY <3>1 DEF CheckAlive
      <4>2. StillAlive(ledger, c.keys) \subseteq c.keys
        BY DEF StillAlive
      <4>3. QED
        BY <4>1, <4>2
    <3>2. CASE \E failed \in SUBSET LinkIds : CheckRetry(c, failed)
      <4>1. \A d \in checks' : d \in checks \/ d.keys = c.keys
        BY <3>2 DEF CheckRetry
      <4>2. QED
        BY <4>1
    <3>3. CASE CheckReport(c)
      BY <3>3 DEF CheckReport
    <3>4. QED
      BY <1>5, <3>1, <3>2, <3>3 DEF CheckStep
  <2>3. QED
    BY <2>1, <2>2 DEF KeysInPlay, GroupKeysLeft
<1>6. CASE AllowGroup \/ ReadCooldown \/ ClaimPrompt \/ ShowPrompt \/ Cleanup
  <2>1. UNCHANGED <<todo, checks>> /\ cur' \in {cur, NoGroup}
    BY <1>6 DEF AllowGroup, ReadCooldown, ClaimPrompt, ShowPrompt, Cleanup
  <2>2. KeysInPlay' \subseteq KeysInPlay /\ GroupKeysLeft' \subseteq GroupKeysLeft
    BY <2>1 DEF KeysInPlay, GroupKeysLeft
  <2>3. QED
    BY <1>1, <1>2, <1>3, <2>2
<1>7. ASSUME NEW g \in todo, DecideGroup(g)
      PROVE  KeysInPlay' \subseteq KeysInPlay /\ GroupKeysLeft' \subseteq GroupKeysLeft
  <2>1. todo' \subseteq todo /\ checks' = checks /\ cur' \in {cur, g}
    BY <1>7 DEF DecideGroup
  <2>2. QED
    BY <2>1 DEF KeysInPlay, GroupKeysLeft
<1>8. ASSUME NEW failed \in SUBSET LinkIds, RefuseGroup(failed)
      PROVE  KeysInPlay' \subseteq KeysInPlay /\ GroupKeysLeft' \subseteq GroupKeysLeft
  <2>1. todo' = todo /\ cur' \in {cur, NoGroup} /\ cur # NoGroup
    BY <1>8 DEF RefuseGroup, TypeOK, Refused
  <2>2. \A d \in checks' : d \in checks \/ d.keys = cur.keys
    BY <1>8 DEF RefuseGroup
  <2>3. QED
    BY <2>1, <2>2 DEF KeysInPlay, GroupKeysLeft
<1>9. QED
  BY <1>1, <1>2, <1>3, <1>4, <1>5, <1>6, <1>7, <1>8 DEF Next, Loop

(* The initial states.                                                     *)
LEMMA SightInit == Init => SightInvariant
<1> SUFFICES ASSUME Init PROVE SightInvariant
  OBVIOUS
<1>1. /\ \A id \in LinkIds : pw[id] = NoLink /\ gLinks[id] = NoLink
      /\ Len(queue) = 0 /\ KeysInPlay = {}
      /\ \A i \in Insts : verdict[i] = "none"
  BY DEF Init, NoLinks, KeysInPlay
<1>2. AtHome(<<>>)
  BY <1>1 DEF AtHome, Homed
<1>3. QED
  BY <1>1, <1>2 DEF SightInvariant, SnapshotsKeepLinks, LiveIds

(* Links that only go, and blocks that are on their way already.           *)
LEMMA SightFrame ==
    ASSUME TypeOK, SightInvariant, PwKept, UNCHANGED <<gLinks, gKnown, queue>>,
           KeysInPlay' \subseteq KeysInPlay,
           LiveIds(pw') = {} \/ (ready \subseteq ready' /\ plugged \subseteq plugged'),
           \A i \in Insts : i >= nextInst => verdict'[i] = "none"
    PROVE  SightInvariant'
<1> USE DEF SightInvariant
<1>1. \A id \in LiveIds(pw') : id \in LiveIds(pw) /\ pw'[id] = pw[id]
  BY DEF PwKept, LiveIds
<1>2. (\E home : AtHome(home))'
  <2>1. PICK home : AtHome(home)
    OBVIOUS
  <2>2. AtHome(home)'
    BY <2>1 DEF AtHome, Homed, PwKept
  <2>3. QED
    BY <2>2
<1>3. SnapshotsKeepLinks'
  BY <1>1 DEF SnapshotsKeepLinks, Shows
<1>4. (\A id \in LiveIds(pw) : LiveSight(id))'
  <2> SUFFICES ASSUME NEW id \in LiveIds(pw') PROVE LiveSight(id)'
    OBVIOUS
  <2>1. LiveSight(id) /\ pw'[id] = pw[id]
    BY <1>1
  <2>2. ready \subseteq ready' /\ plugged \subseteq plugged'
    OBVIOUS
  <2>3. QED
    BY <2>1, <2>2 DEF LiveSight, Shows
<1>5. QED
  BY <1>2, <1>3, <1>4 DEF PwKept

(* A new link: its number is nobody's, so it has its home to itself.       *)
LEMMA SightLinkUp ==
    ASSUME TypeOK, SightInvariant,
           NEW new \in LinkIds, NEW shape \in Shapes, LinkUp(new, shape)
    PROVE  SightInvariant'
<1> USE DEF SightInvariant
<1>1. /\ nextInst \in Nat \ {0} /\ nextInst' = nextInst + 1 /\ nextSerial # NoSerial
      /\ nextInst \in Insts /\ verdict[nextInst] = "none" /\ nextSerial \in Nat
  BY DEF TypeOK, LinkUp, Insts, NoSerial
<1>2. UNCHANGED <<gLinks, gKnown, queue, todo, checks, cur, verdict, ready, plugged>>
  BY DEF LinkUp, loopVars, ghostVars
<1>3. KeysInPlay' = KeysInPlay
  BY <1>2 DEF KeysInPlay
<1> DEFINE l == [serial |-> nextSerial, shape |-> shape, inst |-> nextInst]
<1>4. l # NoLink
  BY <1>1 DEF Link
<1>5. /\ \A id \in LinkIds : id # new => pw'[id] = pw[id]
      /\ pw'[new] = l /\ pw[new] = NoLink
      /\ CatOf[shape.node] # "none" => shape.node \in plugged
  BY DEF LinkUp, TypeOK, LinkMap
<1>6. l.serial = nextSerial /\ l.shape = shape /\ l.inst = nextInst
  OBVIOUS
<1> HIDE DEF l
<1>7. PICK old : AtHome(old)
  OBVIOUS
<1>8. PICK home : /\ \A i \in 1..(nextInst - 1) : home[i] = old[i]
                  /\ home[nextInst].id = new /\ home[nextInst].shape = shape
                  /\ home[nextInst].serial = nextSerial
  <2>1. PICK h : h = [i \in 1..nextInst |->
                        IF i = nextInst
                        THEN [id |-> new, shape |-> shape, serial |-> nextSerial]
                        ELSE old[i]]
    OBVIOUS
  <2>2. /\ \A i \in 1..(nextInst - 1) : h[i] = old[i]
        /\ h[nextInst].id = new /\ h[nextInst].shape = shape
        /\ h[nextInst].serial = nextSerial
    BY <1>1, <2>1
  <2>3. QED
    BY <2>2
<1>9. ASSUME NEW links, Homed(links, old, nextInst) PROVE Homed(links, home, nextInst')
  BY <1>1, <1>8, <1>9 DEF Homed
<1>10. Homed(pw', home, nextInst')
  <2> SUFFICES ASSUME NEW id \in LinkIds, pw'[id] # NoLink
               PROVE  /\ pw'[id].inst \in 1..(nextInst' - 1)
                      /\ pw'[id].shape \in Shapes
                      /\ home[pw'[id].inst].id = id
                      /\ home[pw'[id].inst].shape = pw'[id].shape
                      /\ SerialMayBeMissing = FALSE => home[pw'[id].inst].serial = pw'[id].serial
    BY DEF Homed
  <2>1. CASE id = new
    BY <1>1, <1>5, <1>6, <1>8, <2>1
  <2>2. CASE id # new
    <3>1. Homed(pw, home, nextInst')
      BY <1>7, <1>9 DEF AtHome
    <3>2. QED
      BY <1>5, <2>2, <3>1 DEF Homed
  <2>3. QED
    BY <2>1, <2>2
<1>11. AtHome(home)'
  <2>1. Homed(gLinks, home, nextInst') /\ \A n \in 1..Len(queue) : Homed(queue[n].links, home, nextInst')
    BY <1>7, <1>9 DEF AtHome
  <2>2. \A k \in KeysInPlay : k.inst \in 1..(nextInst' - 1) /\ home[k.inst].id = k.id
    BY <1>1, <1>7, <1>8 DEF AtHome
  <2>3. QED
    <3>1. /\ Homed(pw, home, nextInst)' /\ Homed(gLinks, home, nextInst)'
          /\ \A n \in 1..Len(queue') : Homed(queue'[n].links, home, nextInst')
      BY <1>2, <1>10, <2>1
    <3>2. \A k \in KeysInPlay' : k.inst \in 1..(nextInst' - 1) /\ home[k.inst].id = k.id
      BY <1>3, <2>2
    <3>3. QED
      BY <3>1, <3>2 DEF AtHome
<1>12. \A id \in LiveIds(pw') : id = new \/ (id \in LiveIds(pw) /\ pw'[id] = pw[id])
  BY <1>5 DEF LiveIds
<1>13. ~Shows(gLinks, new)' /\ \A n \in 1..Len(queue) : ~Shows(queue[n].links, new)'
  BY <1>1, <1>2, <1>5, <1>6, <1>7 DEF AtHome, Homed, Shows
<1>14. SnapshotsKeepLinks'
  BY <1>2, <1>12, <1>13 DEF SnapshotsKeepLinks, Shows
<1>15. (\A id \in LiveIds(pw) : LiveSight(id))'
  <2> SUFFICES ASSUME NEW id \in LiveIds(pw') PROVE LiveSight(id)'
    OBVIOUS
  <2>1. CASE id = new
    BY <1>1, <1>2, <1>5, <1>6, <1>13, <2>1 DEF LiveSight
  <2>2. CASE id \in LiveIds(pw) /\ pw'[id] = pw[id]
    <3>1. LiveSight(id)
      BY <2>2
    <3>2. QED
      BY <1>2, <2>2, <3>1 DEF LiveSight, Shows
  <2>3. QED
    BY <1>12, <2>1, <2>2
<1>16. (\E h : AtHome(h))'
  BY <1>11
<1>17. QED
  BY <1>1, <1>2, <1>14, <1>15, <1>16

(* What a block says of a link is true but for its serial.                 *)
Reports(seen, l) ==
    /\ seen # NoLink /\ l # NoLink
    /\ seen.inst = l.inst /\ seen.shape = l.shape
    /\ SerialMayBeMissing = FALSE => seen.serial = l.serial

(* An object of a block, with its serial or without it, over the one that  *)
(* the monitor had for the id.                                             *)
LEMMA ObjectReports ==
    ASSUME NEW l \in Link, NEW old \in Link \cup {NoLink}, NEW bare \in BOOLEAN,
           l.serial # NoSerial, SerialMayBeMissing = FALSE => bare = FALSE
    PROVE  Reports(Seen(l, bare), l) /\ Reports(ApplyObject(old, Seen(l, bare)), l)
<1> DEFINE missing == [l EXCEPT !.serial = NoSerial]
           kept == [missing EXCEPT !.serial = old.serial]
<1>1. l # NoLink
  OBVIOUS
<1>2. missing \in Link /\ missing.inst = l.inst /\ missing.shape = l.shape /\ missing.serial = NoSerial
  BY DEF Link, NoSerial
<1>3. ASSUME old # NoLink PROVE kept \in Link /\ kept.inst = l.inst /\ kept.shape = l.shape
  BY <1>2, <1>3 DEF Link
<1>4. missing # NoLink
  BY <1>2
<1>5. CASE bare = FALSE
  <2>1. Seen(l, bare) = l
    BY <1>5 DEF Seen
  <2>2. ApplyObject(old, l) = l
    BY DEF ApplyObject
  <2>3. QED
    BY <1>1, <2>1, <2>2 DEF Reports
<1>6. CASE bare = TRUE
  <2>1. SerialMayBeMissing # FALSE
    BY <1>6
  <2>2. Seen(l, bare) = missing
    BY <1>6 DEF Seen
  <2>3. old = NoLink => ApplyObject(old, missing) = missing
    BY DEF ApplyObject
  <2>4. old # NoLink => ApplyObject(old, missing) = kept
    BY <1>2, <1>4 DEF ApplyObject
  <2>5. old # NoLink => kept # NoLink
    BY <1>3
  <2> HIDE DEF missing, kept
  <2>6. QED
    BY <1>1, <1>2, <1>3, <1>4, <2>1, <2>2, <2>3, <2>4, <2>5 DEF Reports
<1>7. QED
  BY <1>5, <1>6

(* The next update shows each slot as the last one did, or as it is now.   *)
LEMMA NextSnapshot ==
    ASSUME TypeOK, Monitor, \A id \in LiveIds(pw) : pw[id].serial # NoSerial
    PROVE  /\ \E u \in Update :
                 /\ queue' = Append(queue, u)
                 /\ u.links = gLinks' /\ u.known = gKnown' /\ u.seed = ~monitorUp
           /\ gKnown' = ready /\ monitorUp' = TRUE
           /\ \A id \in LinkIds :
                 \/ gLinks'[id] = gLinks[id]
                 \/ gLinks'[id] = NoLink /\ pw[id] = NoLink
                 \/ Reports(gLinks'[id], pw[id])
           /\ UNCHANGED <<pw, ready, plugged, nextInst, nextSerial, outages, devices,
                          ledger, todo, cur, checks, pc, verdict, reported>>
<1> USE DEF pwVars, monVars, configVars, trackerVars, loopVars, ghostVars
<1>1. /\ \A id \in LinkIds : pw[id] \in Link \cup {NoLink} /\ gLinks[id] \in Link \cup {NoLink}
      /\ \A id \in LinkIds : pw[id] # NoLink => pw[id].serial # NoSerial
      /\ SerialMayBeMissing \in BOOLEAN /\ monitorUp \in BOOLEAN
  BY DEF TypeOK, LinkMap, LiveIds
<1>2. gLinks' \in LinkMap /\ ready \subseteq Streams
  <2>1. TypeOK'
    BY MonitorType
  <2>2. QED
    BY <2>1 DEF TypeOK
<1>3. UNCHANGED <<pw, ready, plugged, nextInst, nextSerial, outages, devices,
                  ledger, todo, cur, checks, pc, verdict, reported>>
  BY DEF Monitor, Seed, Block
<1>4. CASE Seed
  <2>1. PICK bare \in SUBSET (IF SerialMayBeMissing THEN LinkIds ELSE {}) : gLinks' = SeedLinks(bare)
    BY <1>4 DEF Seed
  <2>2. \A id \in LinkIds : IF pw[id] = NoLink THEN gLinks'[id] = NoLink
                            ELSE gLinks'[id] = Seen(pw[id], id \in bare)
    BY <2>1 DEF SeedLinks
  <2>3. \A id \in LinkIds : pw[id] # NoLink => Reports(Seen(pw[id], id \in bare), pw[id])
    <3>1. SerialMayBeMissing = FALSE => bare = {}
      BY <2>1
    <3>2. ASSUME NEW id \in LinkIds, pw[id] # NoLink
          PROVE  Reports(Seen(pw[id], id \in bare), pw[id])
      <4>1. pw[id] \in Link /\ pw[id].serial # NoSerial /\ (id \in bare) \in BOOLEAN
        BY <1>1, <3>2
      <4>2. SerialMayBeMissing = FALSE => (id \in bare) = FALSE
        BY <3>1
      <4>3. NoLink \in Link \cup {NoLink}
        OBVIOUS
      <4>4. QED
        BY <4>1, <4>2, <4>3, ObjectReports
    <3>3. QED
      BY <3>2
  <2>4. [seed |-> TRUE, links |-> gLinks', known |-> ready] \in Update
    BY <1>2 DEF Update
  <2>5. monitorUp = FALSE /\ gKnown' = ready /\ monitorUp' = TRUE
        /\ queue' = Append(queue, [seed |-> TRUE, links |-> gLinks', known |-> ready])
    BY <1>1, <1>4 DEF Seed
  <2>6. QED
    BY <1>3, <2>2, <2>3, <2>4, <2>5
<1>5. CASE Block
  <2>1. PICK bare \in SUBSET (IF SerialMayBeMissing THEN dirty ELSE {}) : gLinks' = BlockLinks(bare)
    BY <1>5 DEF Block
  <2>2. \A id \in LinkIds :
           \/ gLinks'[id] = gLinks[id]
           \/ gLinks'[id] = NoLink /\ pw[id] = NoLink
           \/ pw[id] # NoLink /\ gLinks'[id] = ApplyObject(gLinks[id], Seen(pw[id], id \in bare))
    BY <2>1 DEF BlockLinks
  <2>3. \A id \in LinkIds : pw[id] # NoLink =>
           Reports(ApplyObject(gLinks[id], Seen(pw[id], id \in bare)), pw[id])
    <3>1. SerialMayBeMissing = FALSE => bare = {}
      BY <2>1
    <3>2. ASSUME NEW id \in LinkIds, pw[id] # NoLink
          PROVE  Reports(ApplyObject(gLinks[id], Seen(pw[id], id \in bare)), pw[id])
      <4>1. /\ pw[id] \in Link /\ pw[id].serial # NoSerial /\ (id \in bare) \in BOOLEAN
            /\ gLinks[id] \in Link \cup {NoLink}
        BY <1>1, <3>2
      <4>2. SerialMayBeMissing = FALSE => (id \in bare) = FALSE
        BY <3>1
      <4>3. QED
        BY <4>1, <4>2, ObjectReports
    <3>3. QED
      BY <3>2
  <2>4. [seed |-> FALSE, links |-> gLinks', known |-> ready] \in Update
    BY <1>2 DEF Update
  <2>5. monitorUp = TRUE /\ gKnown' = ready /\ monitorUp' = TRUE
        /\ queue' = Append(queue, [seed |-> FALSE, links |-> gLinks', known |-> ready])
    BY <1>1, <1>5 DEF Block
  <2>6. QED
    BY <1>3, <2>2, <2>3, <2>4, <2>5
<1>6. QED
  BY <1>4, <1>5 DEF Monitor

(* So a block shows the links of PipeWire that were shown before, and what *)
(* it shows was made before.                                               *)
LEMMA SightReported ==
    ASSUME TypeOK, SightInvariant, Monitor
    PROVE  SightInvariant'
<1> USE DEF SightInvariant
<1>1. \A id \in LiveIds(pw) : pw[id].serial # NoSerial
  BY DEF LiveSight
<1>2. PICK u \in Update :
         /\ queue' = Append(queue, u)
         /\ u.links = gLinks' /\ u.known = gKnown' /\ u.seed = ~monitorUp
  BY <1>1, NextSnapshot
<1>3. /\ gKnown' = ready
      /\ UNCHANGED <<pw, ready, plugged, nextInst, todo, cur, checks, verdict>>
      /\ \A id \in LinkIds :
            \/ gLinks'[id] = gLinks[id]
            \/ gLinks'[id] = NoLink /\ pw[id] = NoLink
            \/ Reports(gLinks'[id], pw[id])
  BY <1>1, NextSnapshot
<1>4. /\ Len(queue) \in Nat /\ Len(queue') = Len(queue) + 1
      /\ queue' # <<>> /\ queue'[Len(queue')] = u
      /\ \A n \in 1..Len(queue) : n \in 1..Len(queue') /\ queue'[n] = queue[n]
  BY <1>2, QueueGrows
<1>5. \A n \in 1..Len(queue') : n \in 1..Len(queue) \/ n = Len(queue')
  BY <1>4
<1>6. (\E home : AtHome(home))'
  <2>1. PICK home : AtHome(home)
    OBVIOUS
  <2>2. Homed(gLinks', home, nextInst)
    BY <1>3, <2>1 DEF AtHome, Homed, Reports
  <2>3. \A n \in 1..Len(queue') : Homed(queue'[n].links, home, nextInst)
    BY <1>2, <1>4, <1>5, <2>1, <2>2 DEF AtHome
  <2>4. KeysInPlay' = KeysInPlay
    BY <1>3 DEF KeysInPlay
  <2>5. AtHome(home)'
    BY <1>3, <2>1, <2>2, <2>3, <2>4 DEF AtHome
  <2>6. QED
    BY <2>5
<1>7. \A id \in LiveIds(pw) : Shows(gLinks, id) => Shows(gLinks, id)'
  BY <1>3 DEF Shows, Reports, LiveIds
<1>8. SnapshotsKeepLinks'
  <2> SUFFICES ASSUME NEW id \in LiveIds(pw), NEW m \in 1..Len(queue'), Shows(queue[m].links, id)'
               PROVE  /\ \A n \in 1..Len(queue') : m <= n => Shows(queue[n].links, id)'
                      /\ Shows(gLinks, id)'
    BY <1>3 DEF SnapshotsKeepLinks
  <2>1. CASE m \in 1..Len(queue)
    <3>1. Shows(queue[m].links, id)
      BY <1>3, <1>4, <2>1 DEF Shows
    <3>2. /\ \A n \in 1..Len(queue) : m <= n => Shows(queue[n].links, id)
          /\ Shows(gLinks, id)'
      BY <1>7, <2>1, <3>1 DEF SnapshotsKeepLinks
    <3>3. QED
      BY <1>2, <1>3, <1>4, <1>5, <3>2 DEF Shows
  <2>2. CASE m = Len(queue')
    BY <1>2, <1>4, <1>5, <2>2 DEF Shows
  <2>3. QED
    BY <1>5, <2>1, <2>2
<1>9. (\A id \in LiveIds(pw) : LiveSight(id))'
  <2> SUFFICES ASSUME NEW id \in LiveIds(pw) PROVE LiveSight(id)'
    BY <1>3
  <2>1. ASSUME NEW m \in 1..Len(queue), Shows(queue[m].links, id)
        PROVE  /\ queue[m].known \subseteq ready
               /\ \A n \in 1..Len(queue) : m <= n => queue[m].known \subseteq queue[n].known
    BY <2>1 DEF LiveSight, SnapshotsKeepLinks
  <2>2. ASSUME NEW m \in 1..Len(queue'), Shows(queue[m].links, id)'
        PROVE  /\ queue'[m].known \subseteq ready
               /\ \A n \in 1..Len(queue') : m <= n => queue'[m].known \subseteq queue'[n].known
    <3>1. CASE m \in 1..Len(queue)
      <4>1. Shows(queue[m].links, id)
        BY <1>3, <1>4, <2>2, <3>1 DEF Shows
      <4>2. QED
        BY <1>2, <1>3, <1>4, <1>5, <2>1, <3>1, <4>1
    <3>2. CASE m = Len(queue')
      BY <1>2, <1>3, <1>4, <1>5, <3>2
    <3>3. QED
      BY <1>5, <3>1, <3>2
  <2>3. LiveSight(id)
    OBVIOUS
  <2>4. QED
    BY <1>3, <2>2, <2>3 DEF LiveSight
<1>10. QED
  BY <1>3, <1>6, <1>8, <1>9

(* The groups of an update are of links it shows.                          *)
LEMMA SightReceived ==
    ASSUME TypeOK, SightInvariant, RecvUpdate
    PROVE  SightInvariant'
<1> USE DEF SightInvariant
<1> DEFINE u == Head(queue)
           led == IF u.seed THEN EmptyLedger ELSE ledger
           ids == Pending(led, u.links, u.known, devices)
<1>1. /\ todo' = GroupLinks(ids, u.links)
      /\ queue # <<>> /\ queue' = Tail(queue)
      /\ UNCHANGED <<pw, ready, plugged, nextInst, gLinks, gKnown, cur, checks, verdict>>
  BY DEF RecvUpdate, pwVars
<1>2. /\ Len(queue) \in Nat \ {0} /\ u = queue[1]
      /\ Len(queue') = Len(queue) - 1
      /\ \A n \in 1..Len(queue') : n + 1 \in 1..Len(queue) /\ queue'[n] = queue[n + 1]
  BY <1>1, QueueShift
<1>3. \A j \in ids : j \in LinkIds /\ u.links[j] # NoLink
  BY PendingLive
<1> HIDE DEF u, ids
<1>4. (\E home : AtHome(home))'
  <2>1. PICK home : AtHome(home)
    OBVIOUS
  <2>2. Homed(u.links, home, nextInst)
    BY <1>2, <2>1 DEF AtHome
  <2>3. ASSUME NEW k \in KeysInPlay'
        PROVE  k \in KeysInPlay \/ \E j \in ids : k = KeyOf(j, u.links[j])
    <3>1. (\E g \in todo' : k \in g.keys) \/ k \in KeysInPlay
      BY <1>1, <2>3 DEF KeysInPlay
    <3>2. QED
      BY <1>1, <3>1, GroupKeys
  <2>4. \A k \in KeysInPlay' : k.inst \in 1..(nextInst - 1) /\ home[k.inst].id = k.id
    BY <1>3, <2>1, <2>2, <2>3 DEF AtHome, Homed, KeyOf
  <2>5. AtHome(home)'
    BY <1>1, <1>2, <2>1, <2>4 DEF AtHome
  <2>6. QED
    BY <2>5
<1>5. SnapshotsKeepLinks'
  BY <1>1, <1>2 DEF SnapshotsKeepLinks, Shows, LiveIds
<1>6. (\A id \in LiveIds(pw) : LiveSight(id))'
  BY <1>1, <1>2 DEF LiveSight, Shows, LiveIds
<1>7. QED
  BY <1>1, <1>4, <1>5, <1>6

(* In every step a link not yet made has no decision.                      *)
LEMMA UnmadeUndecided ==
    ASSUME TypeOK, SightInvariant, [Next]_vars
    PROVE  /\ nextInst' \in Nat /\ nextInst <= nextInst'
           /\ \A i \in Insts : i >= nextInst => verdict'[i] = "none"
<1>1. PICK home : AtHome(home)
  BY DEF SightInvariant
<1>2. nextInst' \in Nat /\ nextInst <= nextInst'
  <2>1. nextInst \in Nat
    BY DEF TypeOK
  <2>2. nextInst' = nextInst \/ nextInst' = nextInst + 1
    BY LinkSteps DEF PwKept, LinkUp, PipeWireRestart
  <2>3. QED
    BY <2>1, <2>2
<1>3. ASSUME NEW g \in todo, DecideGroup(g), NEW i \in Insts, i >= nextInst
      PROVE  verdict'[i] = "none"
  <2>1. \A k \in g.keys : k.inst \in 1..(nextInst - 1)
    BY <1>1 DEF AtHome, KeysInPlay
  <2>2. verdict'[i] = IF \E k \in g.keys : k.inst = i THEN Decision(g) ELSE verdict[i]
    BY <1>3 DEF DecideGroup, Judged
  <2>3. QED
    BY <1>3, <2>1, <2>2 DEF SightInvariant, TypeOK
<1>4. CASE RecvUpdate
  BY <1>2, <1>4 DEF RecvUpdate, SightInvariant
<1>5. CASE ~RecvUpdate /\ ~\E g \in todo : DecideGroup(g)
  BY <1>2, <1>5, GroupsStay DEF SightInvariant
<1>6. QED
  BY <1>2, <1>3, <1>4, <1>5

(* What is shown of links stays true, with serials and without.            *)
LEMMA SightIsInvariant == Spec => []SightInvariant
<1>1. TypeOK /\ SightInvariant /\ [Next]_vars => SightInvariant'
  <2> SUFFICES ASSUME TypeOK, SightInvariant, [Next]_vars PROVE SightInvariant'
    OBVIOUS
  <2>1. CASE Monitor
    BY <2>1, SightReported
  <2>2. CASE RecvUpdate
    BY <2>2, SightReceived
  <2>3. ASSUME NEW id \in LinkIds, NEW shape \in Shapes, LinkUp(id, shape) PROVE SightInvariant'
    BY <2>3, SightLinkUp
  <2>4. CASE /\ ~Monitor /\ ~RecvUpdate
             /\ ~\E id \in LinkIds, shape \in Shapes : LinkUp(id, shape)
    <3>1. PwKept
      BY <2>4, LinkSteps DEF PipeWireRestart, PwKept, NoLinks
    <3>2. \A i \in Insts : i >= nextInst => verdict'[i] = "none"
      BY UnmadeUndecided
    <3>3. QED
      BY <2>4, <3>1, <3>2, QuietSteps, SightFrame
  <2>5. QED
    BY <2>1, <2>2, <2>3, <2>4
<1>2. QED
  BY <1>1, SightInit, TypeCorrect, PTL DEF Spec

(* A link that is or was up for decision could be decided now and with     *)
(* every update on its way, and each of them shows it.                     *)
JudgeableInvariant ==
    \A id \in LiveIds(pw) : Accounted(pw[id].inst) =>
        /\ Shows(gLinks, id) /\ Classified(pw[id], gKnown, devices)
        /\ \A n \in 1..Len(queue) :
              Shows(queue[n].links, id) /\ Classified(pw[id], queue[n].known, devices)

(* The links of a group that waits, or is being decided, are decided as    *)
(* far as the ledger goes.  A refused link is reported, or up for decision *)
(* again, or pursued by a key under which still_alive finds it.            *)
NotLostInvariant ==
    /\ \A k \in GroupKeysLeft : ledger[k.id].state = "decided" /\ ledger[k.id].serial = k.serial
    /\ \A id \in LiveIds(pw) : verdict[pw[id].inst] \in Refused =>
          \/ pw[id].inst \in reported
          \/ \E g \in todo : \E k \in g.keys : k.inst = pw[id].inst
          \/ \E k \in PursuedKeys :
                /\ k.inst = pw[id].inst /\ k.id = id
                /\ ledger[id].state = "decided" /\ ledger[id].serial = k.serial

(* What is shown of a link has the shape PipeWire gave it.                 *)
LEMMA ShownShape ==
    ASSUME SightInvariant, NEW id \in LiveIds(pw)
    PROVE  /\ pw[id].inst \in 1..(nextInst - 1)
           /\ Shows(gLinks, id) => gLinks[id].shape = pw[id].shape
           /\ \A n \in 1..Len(queue) :
                 Shows(queue[n].links, id) => queue[n].links[id].shape = pw[id].shape
<1>1. PICK home : AtHome(home)
  BY DEF SightInvariant
<1>2. QED
  BY <1>1 DEF AtHome, Homed, Shows, LiveIds

(* Devices that a living link needs are not forgotten by a rescan.         *)
LEMMA ClassifiedStays ==
    ASSUME TypeOK, SightInvariant, NEW id \in LiveIds(pw), NEW known,
           Classified(pw[id], known, devices),
           devices' = devices \/ devices' = plugged
    PROVE  Classified(pw[id], known, devices')
<1>1. pw[id].shape.node \in devices /\ devices \subseteq Hardware
  BY DEF Classified, TypeOK
<1>2. pw[id].shape.node \in plugged
  BY <1>1 DEF SightInvariant, LiveSight, Hardware
<1>3. QED
  BY <1>2 DEF Classified

(* The steps that report and receive nothing.                              *)
LEMMA JudgeableKept ==
    ASSUME TypeOK, SightInvariant, JudgeableInvariant, [Next]_vars, ~Monitor, ~RecvUpdate
    PROVE  JudgeableInvariant'
<1>1. /\ UNCHANGED <<gLinks, gKnown, queue>>
      /\ devices' = devices \/ devices' = plugged
      /\ \A i \in Insts : Accounted(i)' => Accounted(i)
  BY QuietSteps
<1>2. ASSUME NEW id \in LiveIds(pw'), Accounted(pw[id].inst)',
             id \in LiveIds(pw), pw'[id] = pw[id]
      PROVE  /\ Shows(gLinks, id)' /\ Classified(pw[id], gKnown, devices)'
             /\ \A n \in 1..Len(queue') :
                   Shows(queue[n].links, id)' /\ Classified(pw[id], queue[n].known, devices)'
  <2>1. pw[id].inst \in Insts
    BY <1>2, ShownShape DEF TypeOK, Insts
  <2>2. Accounted(pw[id].inst)
    BY <1>1, <1>2, <2>1 DEF Accounted
  <2>3. /\ Shows(gLinks, id) /\ Classified(pw[id], gKnown, devices)
        /\ \A n \in 1..Len(queue) :
              Shows(queue[n].links, id) /\ Classified(pw[id], queue[n].known, devices)
    BY <1>2, <2>2 DEF JudgeableInvariant
  <2>4. /\ Classified(pw[id], gKnown, devices')
        /\ \A n \in 1..Len(queue) : Classified(pw[id], queue[n].known, devices')
    BY <1>1, <1>2, <2>3, ClassifiedStays
  <2>5. QED
    BY <1>1, <1>2, <2>3, <2>4 DEF Shows, Classified
<1>3. ASSUME NEW new \in LinkIds, NEW shape \in Shapes, LinkUp(new, shape),
             NEW id \in LiveIds(pw'), Accounted(pw[id].inst)'
      PROVE  id \in LiveIds(pw) /\ pw'[id] = pw[id]
  <2>1. /\ \A j \in LinkIds : j # new => pw'[j] = pw[j]
        /\ pw'[new].inst = nextInst /\ nextInst \in Insts
    BY <1>3 DEF LinkUp, TypeOK, LinkMap, Insts
  <2>2. ~Accounted(nextInst)
    <3>1. PICK home : AtHome(home)
      BY DEF SightInvariant
    <3>2. \A k \in KeysInPlay : k.inst # nextInst
      BY <3>1 DEF AtHome, TypeOK
    <3>3. verdict[nextInst] = "none"
      BY <2>1 DEF SightInvariant, TypeOK
    <3>4. QED
      BY <3>2, <3>3 DEF Accounted, KeysInPlay
  <2>3. id # new
    BY <1>1, <1>3, <2>1, <2>2 DEF Accounted
  <2>4. QED
    BY <1>3, <2>1, <2>3 DEF LiveIds
<1>4. CASE ~\E new \in LinkIds, shape \in Shapes : LinkUp(new, shape)
  <2>1. PwKept
    BY <1>4, LinkSteps DEF PipeWireRestart, PwKept, NoLinks
  <2>2. \A id \in LiveIds(pw') : id \in LiveIds(pw) /\ pw'[id] = pw[id]
    BY <2>1 DEF PwKept, LiveIds
  <2>3. QED
    BY <1>2, <2>2 DEF JudgeableInvariant
<1>5. QED
  BY <1>2, <1>3, <1>4 DEF JudgeableInvariant

(* A block shows on what was shown.                                        *)
LEMMA JudgeableReported ==
    ASSUME TypeOK, SightInvariant, JudgeableInvariant, Monitor
    PROVE  JudgeableInvariant'
<1>1. \A id \in LiveIds(pw) : pw[id].serial # NoSerial /\ LiveSight(id)
  BY DEF SightInvariant, LiveSight
<1>2. PICK u \in Update :
         queue' = Append(queue, u) /\ u.links = gLinks' /\ u.known = gKnown'
  BY <1>1, NextSnapshot
<1>3. /\ gKnown' = ready /\ UNCHANGED <<pw, devices, todo, verdict>>
      /\ \A id \in LinkIds :
            \/ gLinks'[id] = gLinks[id]
            \/ gLinks'[id] = NoLink /\ pw[id] = NoLink
            \/ Reports(gLinks'[id], pw[id])
  BY <1>1, NextSnapshot
<1>4. /\ queue'[Len(queue')] = u
      /\ \A n \in 1..Len(queue) : queue'[n] = queue[n]
      /\ \A n \in 1..Len(queue') : n \in 1..Len(queue) \/ n = Len(queue')
  BY <1>2, QueueGrows
<1> SUFFICES ASSUME NEW id \in LiveIds(pw), Accounted(pw[id].inst)
             PROVE  /\ Shows(gLinks, id)' /\ Classified(pw[id], gKnown, devices)'
                    /\ \A n \in 1..Len(queue') :
                          Shows(queue[n].links, id)' /\ Classified(pw[id], queue[n].known, devices)'
  BY <1>3 DEF JudgeableInvariant, Accounted
<1>5. /\ Shows(gLinks, id) /\ Classified(pw[id], gKnown, devices)
      /\ \A n \in 1..Len(queue) :
            Shows(queue[n].links, id) /\ Classified(pw[id], queue[n].known, devices)
  BY DEF JudgeableInvariant
<1>6. Shows(gLinks, id)' /\ Classified(pw[id], ready, devices)
  BY <1>1, <1>3, <1>5 DEF Shows, Reports, LiveIds, LiveSight, Classified
<1>7. QED
  BY <1>2, <1>3, <1>4, <1>5, <1>6 DEF Shows, Classified

(* The links of an update that are put up for decision are seen on, with   *)
(* the streams that were complete.                                         *)
LEMMA JudgeableReceived ==
    ASSUME TypeOK, SightInvariant, JudgeableInvariant, RecvUpdate
    PROVE  JudgeableInvariant'
<1> DEFINE u == Head(queue)
           led == IF u.seed THEN EmptyLedger ELSE ledger
           ids == Pending(led, u.links, u.known, devices)
<1>1. /\ todo' = GroupLinks(ids, u.links)
      /\ queue # <<>> /\ queue' = Tail(queue)
      /\ UNCHANGED <<pw, gLinks, gKnown, devices, verdict>>
  BY DEF RecvUpdate, pwVars, configVars
<1>2. /\ Len(queue) \in Nat \ {0} /\ u = queue[1]
      /\ \A n \in 1..Len(queue') : n + 1 \in 1..Len(queue) /\ queue'[n] = queue[n + 1]
  BY <1>1, QueueShift
<1>3. \A j \in ids : j \in LinkIds /\ u.links[j] # NoLink /\ Classified(u.links[j], u.known, devices)
  BY DEF Pending
<1> HIDE DEF u, ids
<1> SUFFICES ASSUME NEW id \in LiveIds(pw), Accounted(pw[id].inst)'
             PROVE  /\ Shows(gLinks, id) /\ Classified(pw[id], gKnown, devices)
                    /\ \A n \in 1..Len(queue) :
                          Shows(queue[n].links, id) /\ Classified(pw[id], queue[n].known, devices)
  BY <1>1, <1>2 DEF JudgeableInvariant, Shows, Classified
<1>4. CASE Accounted(pw[id].inst)
  BY <1>4 DEF JudgeableInvariant
<1>5. CASE \E g \in todo' : \E k \in g.keys : k.inst = pw[id].inst
  <2>1. PICK j \in ids : u.links[j].inst = pw[id].inst
    BY <1>1, <1>5, GroupKeys DEF KeyOf
  <2>2. j = id
    <3>1. PICK home : AtHome(home)
      BY DEF SightInvariant
    <3>2. Homed(pw, home, nextInst) /\ Homed(u.links, home, nextInst)
      BY <1>2, <3>1 DEF AtHome
    <3>3. QED
      BY <1>3, <2>1, <3>2 DEF Homed, LiveIds
  <2>3. Shows(queue[1].links, id) /\ 1 \in 1..Len(queue) /\ id \in ids
    BY <1>2, <1>3, <2>1, <2>2 DEF Shows
  <2>4. Classified(pw[id], queue[1].known, devices)
    BY <1>2, <1>3, <2>3, ShownShape DEF Classified
  <2>5. /\ Shows(gLinks, id) /\ queue[1].known \subseteq gKnown
        /\ \A n \in 1..Len(queue) : Shows(queue[n].links, id) /\ queue[1].known \subseteq queue[n].known
    BY <1>2, <2>3 DEF SightInvariant, SnapshotsKeepLinks, LiveSight
  <2>6. QED
    BY <2>4, <2>5 DEF Classified
<1>6. QED
  BY <1>1, <1>4, <1>5 DEF Accounted

(* Whatever was up for decision can be decided again.                      *)
LEMMA JudgeableIsInvariant == Spec => []JudgeableInvariant
<1>1. Init => JudgeableInvariant
  BY DEF Init, JudgeableInvariant, LiveIds, NoLinks
<1>2. TypeOK /\ SightInvariant /\ JudgeableInvariant /\ [Next]_vars => JudgeableInvariant'
  BY JudgeableKept, JudgeableReported, JudgeableReceived
<1>3. QED
  BY <1>1, <1>2, TypeCorrect, SightIsInvariant, PTL DEF Spec

(* Between two updates no group waits.                                     *)
LEMMA IdleIsInvariant == Spec => [](pc = "idle" => todo = {})
<1>1. Init => (pc = "idle" => todo = {})
  BY DEF Init
<1>2. TypeOK /\ (pc = "idle" => todo = {}) /\ [Next]_vars => (pc = "idle" => todo = {})'
  BY IdleIsDone
<1>3. QED
  BY <1>1, <1>2, TypeCorrect, PTL DEF Spec

(* A step that keeps the ledger, the groups that wait and the decisions,   *)
(* and gives up a key only over a link it reports.                         *)
LEMMA NotLostFrame ==
    ASSUME NotLostInvariant, UNCHANGED <<ledger, verdict, todo>>,
           GroupKeysLeft' \subseteq GroupKeysLeft, reported \subseteq reported',
           \A id \in LiveIds(pw') : verdict[pw'[id].inst] \in Refused =>
              id \in LiveIds(pw) /\ pw'[id] = pw[id],
           \A k \in PursuedKeys :
              ledger[k.id].state = "decided" /\ ledger[k.id].serial = k.serial
                 => k \in PursuedKeys' \/ k.inst \in reported'
    PROVE  NotLostInvariant'
<1>1. ASSUME NEW id \in LiveIds(pw'), verdict'[pw'[id].inst] \in Refused
      PROVE  (\/ pw[id].inst \in reported
              \/ \E g \in todo : \E k \in g.keys : k.inst = pw[id].inst
              \/ \E k \in PursuedKeys :
                    /\ k.inst = pw[id].inst /\ k.id = id
                    /\ ledger[id].state = "decided" /\ ledger[id].serial = k.serial)'
  <2>1. id \in LiveIds(pw) /\ pw'[id] = pw[id] /\ verdict[pw[id].inst] \in Refused
    BY <1>1
  <2>2. \/ pw[id].inst \in reported
        \/ \E g \in todo : \E k \in g.keys : k.inst = pw[id].inst
        \/ \E k \in PursuedKeys :
              /\ k.inst = pw[id].inst /\ k.id = id
              /\ ledger[id].state = "decided" /\ ledger[id].serial = k.serial
    BY <2>1 DEF NotLostInvariant
  <2>3. QED
    BY <2>1, <2>2
<1>2. \A k \in GroupKeysLeft' : ledger'[k.id].state = "decided" /\ ledger'[k.id].serial = k.serial
  BY DEF NotLostInvariant
<1>3. QED
  BY <1>1, <1>2 DEF NotLostInvariant

(* A decision: the key the group has of a link is of its id.               *)
LEMMA NotLostDecided ==
    ASSUME TypeOK, SightInvariant, NotLostInvariant, NEW g \in todo, DecideGroup(g)
    PROVE  NotLostInvariant'
<1>1. /\ pc = "groups" /\ todo' = todo \ {g} /\ Judged(g, Decision(g))
      /\ IF Decision(g) = "unguarded" THEN UNCHANGED <<pc, cur>>
                                      ELSE pc' = Decision(g) /\ cur' = g
      /\ UNCHANGED <<pw, ledger, checks, reported>>
  BY DEF DecideGroup, pwVars
<1>2. GroupKeysLeft' \subseteq GroupKeysLeft /\ g.keys \subseteq GroupKeysLeft
  BY <1>1 DEF GroupKeysLeft
<1>3. PursuedKeys \subseteq PursuedKeys'
  BY <1>1 DEF PursuedKeys, Refused
<1>4. PICK home : AtHome(home)
  BY DEF SightInvariant
<1>5. ASSUME NEW id \in LiveIds(pw), verdict'[pw[id].inst] \in Refused
      PROVE  (\/ pw[id].inst \in reported
              \/ \E h \in todo : \E k \in h.keys : k.inst = pw[id].inst
              \/ \E k \in PursuedKeys :
                    /\ k.inst = pw[id].inst /\ k.id = id
                    /\ ledger[id].state = "decided" /\ ledger[id].serial = k.serial)'
  <2>1. pw[id].inst \in Insts
    BY <1>4 DEF AtHome, Homed, LiveIds, TypeOK, Insts
  <2>2. verdict'[pw[id].inst] = IF \E k \in g.keys : k.inst = pw[id].inst
                                THEN Decision(g) ELSE verdict[pw[id].inst]
    BY <1>1, <2>1 DEF Judged
  <2>3. ASSUME NEW k \in g.keys, k.inst = pw[id].inst
        PROVE  \E l \in PursuedKeys' :
                  /\ l.inst = pw[id].inst /\ l.id = id
                  /\ ledger[id].state = "decided" /\ ledger[id].serial = l.serial
    <3>1. Decision(g) \in Refused /\ Decision(g) # "unguarded"
      BY <1>5, <2>2, <2>3 DEF Refused
    <3>2. k \in PursuedKeys'
      BY <1>1, <3>1 DEF PursuedKeys
    <3>3. k.id = id
      <4>1. k \in KeysInPlay
        BY DEF KeysInPlay
      <4>2. QED
        BY <1>4, <2>3, <4>1 DEF AtHome, Homed, LiveIds
    <3>4. ledger[id].state = "decided" /\ ledger[id].serial = k.serial
      BY <1>2, <3>3 DEF NotLostInvariant
    <3>5. QED
      BY <2>3, <3>2, <3>3, <3>4
  <2>4. CASE ~\E k \in g.keys : k.inst = pw[id].inst
    <3>1. verdict[pw[id].inst] \in Refused
      BY <1>5, <2>2, <2>4
    <3>2. \/ pw[id].inst \in reported
          \/ \E h \in todo : \E k \in h.keys : k.inst = pw[id].inst
          \/ \E k \in PursuedKeys :
                /\ k.inst = pw[id].inst /\ k.id = id
                /\ ledger[id].state = "decided" /\ ledger[id].serial = k.serial
      BY <3>1 DEF NotLostInvariant
    <3>3. QED
      BY <1>1, <1>3, <2>4, <3>2
  <2>5. QED
    BY <1>1, <2>3, <2>4
<1>6. \A k \in GroupKeysLeft' : ledger'[k.id].state = "decided" /\ ledger'[k.id].serial = k.serial
  BY <1>1, <1>2 DEF NotLostInvariant
<1>7. QED
  BY <1>1, <1>5, <1>6 DEF NotLostInvariant

(* What is put up for decision is decided in the ledger, under the serial  *)
(* the update shows.                                                       *)
LEMMA PendingDecided ==
    ASSUME NEW led, NEW links, NEW known, NEW devs,
           NEW id \in LinkIds, id \in Pending(led, links, known, devs)
    PROVE  /\ Reconcile(led, links, known, devs)[id].state = "decided"
           /\ Reconcile(led, links, known, devs)[id].serial = links[id].serial
<1>1. links[id] # NoLink /\ PriorState(led[id], links[id]) # "decided" /\ Classified(links[id], known, devs)
  BY DEF Pending
<1>2. led[id].state = "decided" => Reused(led[id], links[id])
  BY <1>1 DEF PriorState
<1>3. QED
  BY <1>1, <1>2, ReconciledTo

(* An update: a refused link it shows keeps its entry, or is put up for    *)
(* decision again.                                                         *)
LEMMA NotLostReceived ==
    ASSUME TypeOK, SightInvariant, JudgeableInvariant, NotLostInvariant,
           pc = "idle" => todo = {}, RecvUpdate
    PROVE  NotLostInvariant'
<1> DEFINE u == Head(queue)
           led == IF u.seed THEN EmptyLedger ELSE ledger
           ids == Pending(led, u.links, u.known, devices)
<1>1. /\ ledger' = Reconcile(led, u.links, u.known, devices)
      /\ todo' = GroupLinks(ids, u.links)
      /\ queue # <<>> /\ queue' = Tail(queue) /\ todo = {} /\ cur = NoGroup
      /\ pc = "idle" /\ pc' = "groups"
      /\ UNCHANGED <<pw, cur, checks, verdict, reported>>
  BY DEF RecvUpdate, pwVars, TypeOK
<1>2. /\ Len(queue) \in Nat \ {0} /\ u = queue[1]
  BY <1>1, QueueShift
<1>3. ids \subseteq LinkIds
  BY PendingLive
<1>4. PursuedKeys' = PursuedKeys
  BY <1>1 DEF PursuedKeys, Refused
<1>5. ASSUME NEW k \in GroupKeysLeft'
      PROVE  ledger'[k.id].state = "decided" /\ ledger'[k.id].serial = k.serial
  <2>1. \E g \in todo' : k \in g.keys
    BY <1>1 DEF GroupKeysLeft
  <2>2. PICK j \in ids : k = KeyOf(j, u.links[j])
    BY <1>1, <2>1, GroupKeys
  <2>3. j \in LinkIds /\ k.id = j /\ k.serial = u.links[j].serial
    BY <1>3, <2>2 DEF KeyOf
  <2> HIDE DEF u, led
  <2>4. QED
    BY <1>1, <2>3, PendingDecided
<1>6. ASSUME NEW id \in LiveIds(pw), verdict[pw[id].inst] \in Refused
      PROVE  \/ pw[id].inst \in reported
             \/ \E g \in todo' : \E k \in g.keys : k.inst = pw[id].inst
             \/ \E k \in PursuedKeys :
                   /\ k.inst = pw[id].inst /\ k.id = id
                   /\ ledger'[id].state = "decided" /\ ledger'[id].serial = k.serial
  <2>1. Accounted(pw[id].inst) /\ id \in LinkIds
    BY <1>6 DEF Accounted, Refused, LiveIds
  <2>2. Shows(u.links, id) /\ Classified(pw[id], u.known, devices)
    BY <1>2, <2>1 DEF JudgeableInvariant
  <2>3. u.links[id].shape = pw[id].shape
    BY <1>2, <2>2, ShownShape
  <2>4. u.links[id] # NoLink /\ u.links[id].inst = pw[id].inst /\ Classified(u.links[id], u.known, devices)
    BY <2>2, <2>3 DEF Shows, Classified
  <2>5. \/ ledger'[id] = led[id] /\ led[id].state = "decided"
        \/ id \in ids
    <3> HIDE DEF u, led
    <3>1. QED
      BY <1>1, <2>1, <2>4, ReconciledTo
  <2>6. CASE id \in ids
    BY <1>1, <2>4, <2>6, PendingGrouped
  <2>7. CASE ledger'[id] = led[id] /\ led[id].state = "decided"
    <3>1. led[id] = ledger[id]
      BY <2>1, <2>7 DEF EmptyLedger, NoEntry
    <3>2. \/ pw[id].inst \in reported
          \/ \E k \in PursuedKeys :
                /\ k.inst = pw[id].inst /\ k.id = id
                /\ ledger[id].state = "decided" /\ ledger[id].serial = k.serial
      BY <1>1, <1>6 DEF NotLostInvariant
    <3>3. QED
      BY <2>7, <3>1, <3>2
  <2>8. QED
    BY <2>5, <2>6, <2>7
<1>7. QED
  BY <1>1, <1>4, <1>5, <1>6 DEF NotLostInvariant

(* The other steps: a denial check lets go of a link only over its report, *)
(* for still_alive finds it.                                               *)
LEMMA NotLostKept ==
    ASSUME TypeOK, SightInvariant, NotLostInvariant, [Next]_vars,
           ~RecvUpdate, ~\E g \in todo : DecideGroup(g)
    PROVE  NotLostInvariant'
<1> USE DEF pwVars, monVars, configVars, trackerVars, loopVars, ghostVars
<1>1. UNCHANGED <<ledger, verdict, todo>>
  BY LedgerStays, GroupsStay
<1>2. GroupKeysLeft' \subseteq GroupKeysLeft
  <2>1. CASE Monitor
    BY <2>1 DEF Monitor, Seed, Block, GroupKeysLeft
  <2>2. CASE ~Monitor
    BY <2>2, QuietSteps
  <2>3. QED
    BY <2>1, <2>2
<1>3. \A id \in LiveIds(pw') : verdict[pw'[id].inst] \in Refused =>
         id \in LiveIds(pw) /\ pw'[id] = pw[id]
  <2>1. ASSUME NEW new \in LinkIds, NEW shape \in Shapes, LinkUp(new, shape),
               NEW id \in LiveIds(pw'), verdict[pw'[id].inst] \in Refused
        PROVE  id \in LiveIds(pw) /\ pw'[id] = pw[id]
    <3>1. /\ \A j \in LinkIds : j # new => pw'[j] = pw[j]
          /\ pw'[new].inst = nextInst /\ nextInst \in Insts /\ nextInst \in Nat
      BY <2>1 DEF LinkUp, TypeOK, LinkMap, Insts
    <3>2. verdict[nextInst] = "none"
      BY <3>1 DEF SightInvariant
    <3>3. QED
      BY <2>1, <3>1, <3>2 DEF LiveIds, Refused
  <2>2. CASE ~\E new \in LinkIds, shape \in Shapes : LinkUp(new, shape)
    <3>1. PwKept
      BY <2>2, LinkSteps DEF PipeWireRestart, PwKept, NoLinks
    <3>2. QED
      BY <3>1 DEF PwKept, LiveIds
  <2>3. QED
    BY <2>1, <2>2
<1>4. CASE Environment \/ Monitor \/ User \/ Rescan \/ UNCHANGED vars
  <2>1. UNCHANGED <<checks, pc, cur, reported>>
    BY <1>4 DEF Environment, LinkUp, LinkDown, LinkChanges, NodeReady,
       PlugIn, PipeWireRestart, MonitorDies, Tick, Monitor, Seed, Block, User,
       AnswerPrompt, DismissPrompt, SetRule, RemoveRule, SetBlockAll, Rescan, vars
  <2>2. QED
    BY <1>1, <1>2, <1>3, <2>1, NotLostFrame DEF PursuedKeys
<1>5. CASE AllowGroup \/ ReadCooldown \/ ClaimPrompt \/ ShowPrompt \/ Cleanup
  <2>1. UNCHANGED <<checks, reported>> /\ pc \notin Refused
    BY <1>5 DEF AllowGroup, ReadCooldown, ClaimPrompt, ShowPrompt, Cleanup, Refused
  <2>2. PursuedKeys \subseteq PursuedKeys'
    BY <2>1 DEF PursuedKeys
  <2>3. QED
    BY <1>1, <1>2, <1>3, <2>1, <2>2, NotLostFrame
<1>6. ASSUME NEW failed \in SUBSET LinkIds, RefuseGroup(failed)
      PROVE  NotLostInvariant'
  <2>1. UNCHANGED reported /\ checks' = checks \cup {[keys |-> cur.keys, phase |-> "grace"]}
    BY <1>6 DEF RefuseGroup
  <2>2. PursuedKeys \subseteq PursuedKeys'
    <3>1. UNION {c.keys : c \in checks'} = (UNION {c.keys : c \in checks}) \cup cur.keys
      BY <2>1, KeysUnion
    <3>2. QED
      BY <2>1, <3>1 DEF PursuedKeys
  <2>3. QED
    BY <1>1, <1>2, <1>3, <2>1, <2>2, NotLostFrame
<1>7. ASSUME NEW c \in checks, CheckStep(c)
      PROVE  NotLostInvariant'
  <2>1. UNCHANGED <<pc, cur>>
    BY <1>7 DEF CheckStep, CheckAlive, CheckRetry, CheckReport
  <2>2. \A d \in checks : d # c => d \in checks'
    BY <1>7 DEF CheckStep, CheckAlive, CheckRetry, CheckReport
  <2>3. reported \subseteq reported'
    BY <1>7 DEF CheckStep, CheckAlive, CheckRetry, CheckReport
  <2>4. ASSUME NEW k \in c.keys, ledger[k.id].state = "decided", ledger[k.id].serial = k.serial
        PROVE  (\E d \in checks' : k \in d.keys) \/ k.inst \in reported'
    <3>1. k \in StillAlive(ledger, c.keys)
      BY <2>4 DEF StillAlive
    <3>2. CASE CheckAlive(c)
      <4>1. [keys |-> StillAlive(ledger, c.keys), phase |-> "retry"] \in checks'
        BY <3>1, <3>2 DEF CheckAlive
      <4>2. [keys |-> StillAlive(ledger, c.keys), phase |-> "retry"].keys = StillAlive(ledger, c.keys)
        OBVIOUS
      <4>3. QED
        BY <3>1, <4>1, <4>2, Zenon
    <3>3. CASE \E failed \in SUBSET LinkIds : CheckRetry(c, failed)
      <4>1. [keys |-> c.keys, phase |-> "lastGrace"] \in checks'
        BY <3>3 DEF CheckRetry
      <4>2. [keys |-> c.keys, phase |-> "lastGrace"].keys = c.keys
        OBVIOUS
      <4>3. QED
        BY <2>4, <4>1, <4>2, Zenon
    <3>4. CASE CheckReport(c)
      BY <3>1, <3>4 DEF CheckReport
    <3>5. QED
      BY <1>7, <3>2, <3>3, <3>4 DEF CheckStep
  <2>5. \A k \in PursuedKeys :
           ledger[k.id].state = "decided" /\ ledger[k.id].serial = k.serial
              => k \in PursuedKeys' \/ k.inst \in reported'
    BY <2>1, <2>2, <2>4 DEF PursuedKeys
  <2>6. QED
    BY <1>1, <1>2, <1>3, <2>3, <2>5, NotLostFrame
<1>8. QED
  BY <1>4, <1>5, <1>6, <1>7 DEF Next, Loop

(* A refused link that flows on is pursued, reported or decided again,     *)
(* also where a block leaves serials out and a link is taken for another:  *)
(* whatever the ledger mistakes it for, the daemon does not lose it.       *)
THEOREM RefusedLinksAreNotLost == Spec => []RefusedIsNotLost
<1>1. Init => NotLostInvariant
  BY DEF Init, NotLostInvariant, LiveIds, NoLinks, GroupKeysLeft
<1>2. /\ TypeOK /\ SightInvariant /\ JudgeableInvariant /\ (pc = "idle" => todo = {})
      /\ NotLostInvariant /\ [Next]_vars
      => NotLostInvariant'
  BY NotLostReceived, NotLostDecided, NotLostKept
<1>3. NotLostInvariant => RefusedIsNotLost
  BY DEF NotLostInvariant, RefusedIsNotLost, PursuedKeys
<1>4. QED
  BY <1>1, <1>2, <1>3, TypeCorrect, SightIsInvariant, JudgeableIsInvariant,
     IdleIsInvariant, PTL DEF Spec

-----------------------------------------------------------------------------
(* A link is put up for decision once.                                     *)

(* Before the first outage the updates on their way are one history of     *)
(* PipeWire: devices and complete streams only come, the seed block is the *)
(* first, and a link that was shown and is shown later was shown between.  *)
FirstLife ==
    /\ devices \subseteq plugged /\ gKnown \subseteq ready
    /\ queue # <<>> => queue[Len(queue)].links = gLinks /\ queue[Len(queue)].known = gKnown
    /\ ~monitorUp => queue = <<>> /\ \A i \in Insts : ~Accounted(i)
    /\ \A n \in 1..Len(queue) : queue[n].seed => n = 1 /\ \A i \in Insts : ~Accounted(i)
    /\ \A n \in 1..Len(queue) : \A m \in 1..n :
          /\ queue[m].known \subseteq queue[n].known
          /\ \A id \in LinkIds : \A l \in 1..m :
                queue[l].links[id] # NoLink /\ IsOf(queue[n].links[id], queue[l].links[id].inst)
                   => IsOf(queue[m].links[id], queue[l].links[id].inst)

(* What the ledger, and the updates before this one, know of a link.       *)
DecidedShown(links, known, n, id) ==
    /\ ledger[id].state = "decided"
    /\ SerialMayBeMissing = FALSE => ledger[id].serial = links[id].serial
    /\ Classified(links[id], known, devices)
    /\ \A m \in 1..n : IsOf(queue[m].links[id], links[id].inst)

(* A link that was up for decision is decided in the ledger as long as it  *)
(* is shown.                                                               *)
OnceInvariant ==
    outages = 0 =>
        /\ FirstLife
        /\ \A id \in LinkIds :
              /\ \A n \in 1..Len(queue) :
                    queue[n].links[id] # NoLink /\ Accounted(queue[n].links[id].inst)
                       => DecidedShown(queue[n].links, queue[n].known, n, id)
              /\ gLinks[id] # NoLink /\ Accounted(gLinks[id].inst)
                       => DecidedShown(gLinks, gKnown, Len(queue), id)

(* The links of updates are links that were made, each under its own id.   *)
LEMMA ShownHomed ==
    ASSUME TypeOK, SightInvariant,
           NEW a, a = gLinks \/ \E n \in 1..Len(queue) : a = queue[n].links,
           NEW b, b = gLinks \/ b = pw \/ \E n \in 1..Len(queue) : b = queue[n].links,
           NEW i \in LinkIds, NEW j \in LinkIds,
           a[i] # NoLink, b[j] # NoLink, a[i].inst = b[j].inst
    PROVE  /\ i = j /\ a[i].shape = b[j].shape /\ a[i].shape \in Shapes
           /\ SerialMayBeMissing = FALSE => a[i].serial = b[j].serial
<1>1. PICK home : AtHome(home)
  BY DEF SightInvariant
<1>2. Homed(a, home, nextInst) /\ Homed(b, home, nextInst)
  BY <1>1 DEF AtHome
<1>3. QED
  BY <1>2 DEF Homed

(* Their numbers.                                                          *)
LEMMA ShownInsts ==
    ASSUME TypeOK, SightInvariant
    PROVE  /\ \A id \in LinkIds : gLinks[id] # NoLink => gLinks[id].inst \in Insts
           /\ \A n \in 1..Len(queue) : \A id \in LinkIds :
                 queue[n].links[id] # NoLink => queue[n].links[id].inst \in Insts
<1>1. PICK home : AtHome(home)
  BY DEF SightInvariant
<1>2. 1..(nextInst - 1) \subseteq Insts
  BY DEF TypeOK, Insts
<1>3. QED
  BY <1>1, <1>2 DEF AtHome, Homed

(* The first outage ends the first life.                                   *)
LEMMA FirstSteps ==
    ASSUME TypeOK, [Next]_vars, outages' = 0
    PROVE  /\ outages = 0
           /\ ready \subseteq ready' /\ plugged \subseteq plugged'
           /\ monitorUp' = monitorUp \/ Monitor
           /\ devices' = devices \/ devices' = plugged
<1> USE DEF pwVars, monVars, configVars, trackerVars, loopVars, ghostVars
<1>1. outages \in Nat
  BY DEF TypeOK
<1>2. ~PipeWireRestart /\ ~MonitorDies
  BY <1>1 DEF PipeWireRestart, MonitorDies
<1>3. QED
  BY <1>2 DEF Next, Environment, LinkUp, LinkDown, LinkChanges, NodeReady, PlugIn,
     Tick, Monitor, Seed, Block, User, AnswerPrompt, DismissPrompt, SetRule,
     RemoveRule, SetBlockAll, Rescan, CheckStep, CheckAlive, CheckRetry,
     CheckReport, Loop, RecvUpdate, AllowGroup, DecideGroup, RefuseGroup,
     ReadCooldown, ClaimPrompt, ShowPrompt, Cleanup, vars

(* The steps that report and receive nothing.                              *)
LEMMA OnceKept ==
    ASSUME TypeOK, SightInvariant, OnceInvariant, [Next]_vars, ~Monitor, ~RecvUpdate
    PROVE  OnceInvariant'
<1> SUFFICES ASSUME outages' = 0 PROVE OnceInvariant'
  BY DEF OnceInvariant
<1>1. /\ outages = 0 /\ monitorUp' = monitorUp
      /\ ready \subseteq ready' /\ plugged \subseteq plugged'
      /\ devices' = devices \/ devices' = plugged
  BY FirstSteps
<1>2. /\ UNCHANGED <<gLinks, gKnown, queue, ledger>>
      /\ \A i \in Insts : Accounted(i)' => Accounted(i)
  BY QuietSteps
<1>3. FirstLife
  BY <1>1 DEF OnceInvariant
<1>4. FirstLife'
  <2>1. devices' \subseteq plugged' /\ gKnown' \subseteq ready'
    BY <1>1, <1>2, <1>3 DEF FirstLife
  <2>2. \A i \in Insts : ~Accounted(i) => ~Accounted(i)'
    BY <1>2
  <2>3. QED
    BY <1>1, <1>2, <1>3, <2>1, <2>2 DEF FirstLife
<1>5. ASSUME NEW links, NEW known, NEW n, NEW id, DecidedShown(links, known, n, id)
      PROVE  DecidedShown(links, known, n, id)'
  <2>1. devices \subseteq devices'
    BY <1>1, <1>3 DEF FirstLife
  <2>2. QED
    BY <1>2, <1>5, <2>1 DEF DecidedShown, Classified
<1>6. ASSUME NEW id \in LinkIds
      PROVE  /\ \A n \in 1..Len(queue) :
                    queue[n].links[id] # NoLink /\ Accounted(queue[n].links[id].inst)'
                       => DecidedShown(queue[n].links, queue[n].known, n, id)
             /\ gLinks[id] # NoLink /\ Accounted(gLinks[id].inst)'
                       => DecidedShown(gLinks, gKnown, Len(queue), id)
  BY <1>1, <1>2, ShownInsts DEF OnceInvariant, Accounted
<1>7. ASSUME NEW id \in LinkIds
      PROVE  /\ \A n \in 1..Len(queue) :
                    queue[n].links[id] # NoLink /\ Accounted(queue[n].links[id].inst)'
                       => DecidedShown(queue[n].links, queue[n].known, n, id)'
             /\ gLinks[id] # NoLink /\ Accounted(gLinks[id].inst)'
                       => DecidedShown(gLinks, gKnown, Len(queue), id)'
  BY <1>2, <1>5, <1>6 DEF DecidedShown
<1>8. QED
  BY <1>2, <1>4, <1>7 DEF OnceInvariant, Accounted

(* A block shows a link on, or shows it as it is.                          *)
LEMMA OnceReported ==
    ASSUME TypeOK, SightInvariant, JudgeableInvariant, OnceInvariant,
           [Next]_vars, Monitor
    PROVE  OnceInvariant'
<1> SUFFICES ASSUME outages' = 0 PROVE OnceInvariant'
  BY DEF OnceInvariant
<1>1. \A id \in LiveIds(pw) : pw[id].serial # NoSerial
  BY DEF SightInvariant, LiveSight
<1>2. PICK u \in Update :
         /\ queue' = Append(queue, u)
         /\ u.links = gLinks' /\ u.known = gKnown' /\ u.seed = ~monitorUp
  BY <1>1, NextSnapshot
<1>3. /\ gKnown' = ready /\ monitorUp' = TRUE
      /\ UNCHANGED <<pw, ready, plugged, nextInst, outages, devices, ledger, todo, verdict>>
      /\ \A id \in LinkIds :
            \/ gLinks'[id] = gLinks[id]
            \/ gLinks'[id] = NoLink /\ pw[id] = NoLink
            \/ Reports(gLinks'[id], pw[id])
  BY <1>1, NextSnapshot
<1>4. /\ Len(queue) \in Nat /\ Len(queue') = Len(queue) + 1
      /\ queue' # <<>> /\ queue'[Len(queue')] = u
      /\ \A n \in 1..Len(queue) : n \in 1..Len(queue') /\ queue'[n] = queue[n]
      /\ \A n \in 1..Len(queue') : n \in 1..Len(queue) \/ n = Len(queue')
  BY <1>2, QueueGrows
<1>5. outages = 0 /\ FirstLife
  BY <1>3 DEF OnceInvariant
<1>6. \A i : Accounted(i)' <=> Accounted(i)
  BY <1>3 DEF Accounted
<1>7. ASSUME NEW m \in 1..Len(queue)
      PROVE  /\ queue[m].known \subseteq ready
             /\ \A id \in LinkIds : \A l \in 1..m :
                   queue[l].links[id] # NoLink /\ IsOf(gLinks'[id], queue[l].links[id].inst)
                      => IsOf(queue[m].links[id], queue[l].links[id].inst)
  <2>1. /\ Len(queue) \in 1..Len(queue) /\ m \in 1..Len(queue) /\ queue # <<>>
        /\ queue[Len(queue)].links = gLinks /\ queue[Len(queue)].known = gKnown
    BY <1>4, <1>5 DEF FirstLife
  <2>2. queue[m].known \subseteq gKnown /\ gKnown \subseteq ready
    BY <1>5, <2>1 DEF FirstLife
  <2>3. ASSUME NEW id \in LinkIds, NEW l \in 1..m, queue[l].links[id] # NoLink,
               IsOf(gLinks'[id], queue[l].links[id].inst)
        PROVE  IsOf(queue[m].links[id], queue[l].links[id].inst)
    <3>1. l \in 1..Len(queue) /\ l <= m
      BY <1>4
    <3>2. CASE gLinks'[id] = gLinks[id]
      BY <1>5, <2>1, <2>3, <3>2 DEF FirstLife
    <3>3. CASE Reports(gLinks'[id], pw[id])
      <4>1. id \in LiveIds(pw) /\ Shows(queue[l].links, id)
        BY <2>3, <3>3 DEF Reports, IsOf, Shows, LiveIds
      <4>2. Shows(queue[m].links, id)
        BY <3>1, <4>1 DEF SightInvariant, SnapshotsKeepLinks
      <4>3. QED
        BY <2>3, <3>3, <4>2 DEF Reports, IsOf, Shows
    <3>4. QED
      BY <1>3, <2>3, <3>2, <3>3 DEF IsOf
  <2>4. QED
    BY <2>2, <2>3
<1>8. FirstLife'
  <2>1. /\ (devices \subseteq plugged /\ gKnown \subseteq ready)'
        /\ queue'[Len(queue')].links = gLinks' /\ queue'[Len(queue')].known = gKnown'
    BY <1>2, <1>3, <1>4, <1>5 DEF FirstLife
  <2>2. ASSUME NEW n \in 1..Len(queue'), queue'[n].seed
        PROVE  n = 1 /\ \A i \in Insts : ~Accounted(i)'
    <3>1. CASE n = Len(queue')
      <4>1. ~monitorUp
        BY <1>2, <1>4, <2>2, <3>1
      <4>2. queue = <<>> /\ \A i \in Insts : ~Accounted(i)
        BY <1>5, <4>1 DEF FirstLife
      <4>3. n = 1
        BY <1>4, <3>1, <4>2
      <4>4. QED
        BY <1>6, <4>2, <4>3
    <3>2. CASE n \in 1..Len(queue)
      <4>1. queue[n].seed
        BY <1>4, <2>2, <3>2
      <4>2. QED
        BY <1>5, <1>6, <3>2, <4>1 DEF FirstLife
    <3>3. QED
      BY <1>4, <3>1, <3>2
  <2>3. ASSUME NEW n \in 1..Len(queue'), NEW m \in 1..n
        PROVE  /\ queue'[m].known \subseteq queue'[n].known
               /\ \A id \in LinkIds : \A l \in 1..m :
                     queue'[l].links[id] # NoLink /\ IsOf(queue'[n].links[id], queue'[l].links[id].inst)
                        => IsOf(queue'[m].links[id], queue'[l].links[id].inst)
    <3>1. CASE n \in 1..Len(queue)
      <4>1. m \in 1..Len(queue) /\ queue'[n] = queue[n] /\ queue'[m] = queue[m]
        BY <1>4, <3>1
      <4>2. \A l \in 1..m : queue'[l] = queue[l]
        BY <1>4, <4>1
      <4>3. QED
        BY <1>5, <3>1, <4>1, <4>2 DEF FirstLife
    <3>2. CASE n = Len(queue') /\ m = n
      BY <3>2
    <3>3. CASE n = Len(queue') /\ m # n
      <4>1. m \in 1..Len(queue) /\ queue'[m] = queue[m] /\ queue'[n] = u
        BY <1>4, <3>3
      <4>2. \A l \in 1..m : queue'[l] = queue[l]
        BY <1>4, <4>1
      <4>3. QED
        BY <1>2, <1>3, <1>7, <4>1, <4>2
    <3>4. QED
      BY <1>4, <3>1, <3>2, <3>3
  <2>4. QED
    BY <1>3, <1>4, <2>1, <2>2, <2>3 DEF FirstLife
<1>9. ASSUME NEW id \in LinkIds, gLinks'[id] # NoLink, Accounted(gLinks'[id].inst)
      PROVE  /\ ledger[id].state = "decided"
             /\ SerialMayBeMissing = FALSE => ledger[id].serial = gLinks'[id].serial
             /\ Classified(gLinks'[id], ready, devices)
             /\ \A m \in 1..Len(queue) : IsOf(queue[m].links[id], gLinks'[id].inst)
  <2>1. CASE gLinks'[id] = gLinks[id]
    <3>1. DecidedShown(gLinks, gKnown, Len(queue), id)
      BY <1>5, <1>9, <2>1 DEF OnceInvariant
    <3>2. QED
      BY <1>5, <2>1, <3>1 DEF DecidedShown, FirstLife, Classified
  <2>2. CASE Reports(gLinks'[id], pw[id])
    <3>1. /\ id \in LiveIds(pw) /\ pw[id] # NoLink
          /\ gLinks'[id].inst = pw[id].inst /\ gLinks'[id].shape = pw[id].shape
          /\ SerialMayBeMissing = FALSE => gLinks'[id].serial = pw[id].serial
      BY <2>2 DEF Reports, LiveIds
    <3>2. Accounted(pw[id].inst)
      BY <1>9, <3>1
    <3>3. /\ Shows(gLinks, id) /\ Classified(pw[id], gKnown, devices)
          /\ \A n \in 1..Len(queue) : Shows(queue[n].links, id)
      BY <3>1, <3>2 DEF JudgeableInvariant
    <3>4. DecidedShown(gLinks, gKnown, Len(queue), id)
      BY <1>5, <3>2, <3>3 DEF OnceInvariant, Shows
    <3>5. SerialMayBeMissing = FALSE => gLinks[id].serial = pw[id].serial
      <4>1. gLinks[id] # NoLink /\ pw[id] # NoLink /\ gLinks[id].inst = pw[id].inst /\ id \in LinkIds
        BY <3>1, <3>3 DEF Shows
      <4>2. PICK home : AtHome(home)
        BY DEF SightInvariant
      <4>3. QED
        BY <4>1, <4>2 DEF AtHome, Homed
    <3>6. Classified(gLinks'[id], ready, devices)
      BY <1>5, <3>1, <3>3 DEF Classified, FirstLife
    <3>7. QED
      BY <3>1, <3>3, <3>4, <3>5, <3>6 DEF DecidedShown, Shows, IsOf
  <2>3. QED
    BY <1>3, <1>9, <2>1, <2>2
<1>10. ASSUME NEW id \in LinkIds, gLinks'[id] # NoLink, Accounted(gLinks[id].inst)'
       PROVE  DecidedShown(gLinks, gKnown, Len(queue), id)'
  <2>1. Accounted(gLinks'[id].inst)
    BY <1>3, <1>10 DEF Accounted
  <2>2. \A m \in 1..Len(queue') : IsOf(queue'[m].links[id], gLinks'[id].inst)
    <3>1. \A m \in 1..Len(queue) : IsOf(queue[m].links[id], gLinks'[id].inst)
      BY <1>9, <1>10, <2>1
    <3>2. queue'[Len(queue')].links = gLinks' /\ IsOf(gLinks'[id], gLinks'[id].inst)
      BY <1>2, <1>4, <1>10 DEF IsOf
    <3>3. ASSUME NEW m \in 1..Len(queue') PROVE IsOf(queue'[m].links[id], gLinks'[id].inst)
      BY <1>4, <3>1, <3>2
    <3>4. QED
      BY <3>3
  <2>3. QED
    BY <1>3, <1>9, <1>10, <2>1, <2>2 DEF DecidedShown, Classified
<1>11. ASSUME NEW n \in 1..Len(queue'), NEW id \in LinkIds, queue'[n].links[id] # NoLink,
              Accounted(queue[n].links[id].inst)'
       PROVE  DecidedShown(queue[n].links, queue[n].known, n, id)'
  <2>1. CASE n \in 1..Len(queue)
    <3>1. queue'[n] = queue[n] /\ \A m \in 1..n : queue'[m] = queue[m]
      BY <1>4, <2>1
    <3>2. queue[n].links[id] # NoLink /\ Accounted(queue[n].links[id].inst)
      BY <1>3, <1>11, <3>1 DEF Accounted
    <3>3. DecidedShown(queue[n].links, queue[n].known, n, id)
      BY <1>5, <2>1, <3>2 DEF OnceInvariant
    <3>4. QED
      BY <1>3, <3>1, <3>3 DEF DecidedShown, Classified
  <2>2. CASE n = Len(queue')
    <3>1. queue'[n].links = gLinks' /\ queue'[n].known = gKnown'
      BY <1>2, <1>4, <2>2
    <3>2. gLinks'[id] # NoLink /\ Accounted(gLinks[id].inst)'
      BY <1>11, <3>1 DEF Accounted
    <3>3. DecidedShown(gLinks, gKnown, Len(queue), id)'
      BY <1>10, <3>2
    <3>4. QED
      BY <2>2, <3>1, <3>3 DEF DecidedShown
  <2>3. QED
    BY <1>4, <2>1, <2>2
<1>12. QED
  BY <1>8, <1>10, <1>11 DEF OnceInvariant, Accounted

(* The receipt of an update: of a link it shows, what was up for decision  *)
(* stays decided, and what is put up for it is decided now.                *)
LEMMA ReceivedDecided ==
    ASSUME TypeOK, SightInvariant, OnceInvariant, RecvUpdate, outages = 0,
           pc = "idle" => todo = {},
           NEW n \in 1..Len(queue), NEW id \in LinkIds,
           queue[n].links[id] # NoLink,
           \/ Accounted(queue[n].links[id].inst)
           \/ \E g \in todo' : \E k \in g.keys : k.inst = queue[n].links[id].inst
    PROVE  /\ ledger'[id].state = "decided"
           /\ SerialMayBeMissing = FALSE => ledger'[id].serial = queue[n].links[id].serial
           /\ Classified(queue[n].links[id], queue[n].known, devices)
           /\ \A m \in 1..n : IsOf(queue[m].links[id], queue[n].links[id].inst)
<1> DEFINE u == Head(queue)
           led == IF u.seed THEN EmptyLedger ELSE ledger
           ids == Pending(led, u.links, u.known, devices)
           l == queue[n].links[id]
<1>1. /\ ledger' = Reconcile(led, u.links, u.known, devices)
      /\ todo' = GroupLinks(ids, u.links)
      /\ queue # <<>> /\ queue' = Tail(queue)
  BY DEF RecvUpdate
<1>2. /\ Len(queue) \in Nat \ {0} /\ u = queue[1] /\ 1 \in 1..Len(queue) /\ 1 \in 1..n
  BY <1>1, QueueShift
<1>3. FirstLife /\ l.inst \in Insts
  BY ShownInsts DEF OnceInvariant
<1>4. CASE Accounted(l.inst)
  <2>1. DecidedShown(queue[n].links, queue[n].known, n, id)
    BY <1>4 DEF OnceInvariant
  <2>2. IsOf(queue[1].links[id], l.inst)
    BY <1>2, <2>1 DEF DecidedShown
  <2>3. DecidedShown(queue[1].links, queue[1].known, 1, id)
    BY <1>2, <1>4, <2>2 DEF OnceInvariant, IsOf
  <2>4. ~u.seed
    BY <1>2, <1>3, <1>4 DEF FirstLife
  <2>5. led = ledger
    BY <2>4
  <2>6. u.links[id] # NoLink /\ Classified(u.links[id], u.known, devices)
    BY <1>2, <2>2, <2>3 DEF IsOf, DecidedShown
  <2>7. \/ ledger'[id] = ledger[id]
        \/ ledger'[id].state = "decided" /\ ledger'[id].serial = u.links[id].serial
    <3> HIDE DEF u
    <3>1. QED
      BY <1>1, <2>5, <2>6, ReconciledTo
  <2>8. SerialMayBeMissing = FALSE => u.links[id].serial = l.serial
    <3>1. PICK home : AtHome(home)
      BY DEF SightInvariant
    <3>2. QED
      BY <1>2, <2>2, <3>1 DEF AtHome, Homed, IsOf
  <2>9. QED
    BY <2>1, <2>7, <2>8 DEF DecidedShown
<1>5. CASE \E g \in todo' : \E k \in g.keys : k.inst = l.inst
  <2>1. PICK j \in ids : u.links[j].inst = l.inst
    BY <1>1, <1>5, GroupKeys DEF KeyOf
  <2>2. j \in LinkIds /\ u.links[j] # NoLink /\ Classified(u.links[j], u.known, devices)
    BY DEF Pending
  <2>3. /\ j = id /\ u.links[id].shape = l.shape
        /\ SerialMayBeMissing = FALSE => u.links[id].serial = l.serial
    <3>1. PICK home : AtHome(home)
      BY DEF SightInvariant
    <3>2. Homed(u.links, home, nextInst) /\ Homed(queue[n].links, home, nextInst)
      BY <1>2, <3>1 DEF AtHome
    <3> HIDE DEF u
    <3>3. QED
      BY <2>1, <2>2, <3>2 DEF Homed
  <2>4. ledger'[id].state = "decided" /\ ledger'[id].serial = u.links[id].serial
    <3> HIDE DEF u, led
    <3>1. QED
      BY <1>1, <2>1, <2>3, PendingDecided
  <2>5. queue[1].links[id] # NoLink /\ queue[1].links[id].inst = l.inst
    BY <1>2, <2>1, <2>2, <2>3
  <2>6. queue[1].known \subseteq queue[n].known
    BY <1>2, <1>3 DEF FirstLife
  <2>7. Classified(l, queue[n].known, devices)
    BY <1>2, <2>2, <2>3, <2>6 DEF Classified
  <2>8. ASSUME NEW m \in 1..n PROVE IsOf(queue[m].links[id], l.inst)
    <3>1. 1 \in 1..m
      BY <1>2
    <3>2. IsOf(queue[n].links[id], queue[1].links[id].inst)
      BY <2>5 DEF IsOf
    <3>3. QED
      BY <1>3, <2>5, <3>1, <3>2 DEF FirstLife
  <2>9. QED
    BY <2>3, <2>4, <2>7, <2>8
<1>6. QED
  BY <1>4, <1>5

(* So the updates that are left show it.                                   *)
LEMMA OnceReceived ==
    ASSUME TypeOK, SightInvariant, OnceInvariant, RecvUpdate,
           pc = "idle" => todo = {}
    PROVE  OnceInvariant'
<1>1. /\ queue # <<>> /\ queue' = Tail(queue) /\ todo = {}
      /\ UNCHANGED <<outages, plugged, ready, gLinks, gKnown, devices, monitorUp, verdict>>
  BY DEF RecvUpdate, pwVars, configVars
<1> SUFFICES ASSUME outages = 0 PROVE OnceInvariant'
  BY <1>1 DEF OnceInvariant
<1>2. /\ Len(queue) \in Nat \ {0} /\ Len(queue') = Len(queue) - 1 /\ Len(queue') \in Nat
      /\ \A n \in 1..Len(queue') : n + 1 \in 1..Len(queue) /\ queue'[n] = queue[n + 1]
      /\ queue' = <<>> <=> Len(queue) = 1
  BY <1>1, QueueShift
<1>3. FirstLife /\ queue[Len(queue)].links = gLinks /\ queue[Len(queue)].known = gKnown
  BY <1>1 DEF OnceInvariant, FirstLife
<1>4. FirstLife'
  <2>1. (devices \subseteq plugged /\ gKnown \subseteq ready)' /\ monitorUp'
    BY <1>1, <1>3 DEF FirstLife, TypeOK
  <2>2. queue' # <<>> => queue'[Len(queue')].links = gLinks /\ queue'[Len(queue')].known = gKnown
    BY <1>2, <1>3
  <2>3. \A n \in 1..Len(queue') : ~queue'[n].seed
    BY <1>2, <1>3 DEF FirstLife
  <2>4. ASSUME NEW n \in 1..Len(queue'), NEW m \in 1..n
        PROVE  /\ queue'[m].known \subseteq queue'[n].known
               /\ \A id \in LinkIds : \A l \in 1..m :
                     queue'[l].links[id] # NoLink /\ IsOf(queue'[n].links[id], queue'[l].links[id].inst)
                        => IsOf(queue'[m].links[id], queue'[l].links[id].inst)
    <3>1. n + 1 \in 1..Len(queue) /\ m + 1 \in 1..(n + 1) /\ m \in 1..Len(queue')
      BY <1>2
    <3>2. \A l \in 1..m : l + 1 \in 1..(m + 1) /\ queue'[l] = queue[l + 1]
      BY <1>2, <3>1
    <3>3. queue'[n] = queue[n + 1] /\ queue'[m] = queue[m + 1]
      BY <1>2, <3>1
    <3>4. /\ queue[m + 1].known \subseteq queue[n + 1].known
          /\ \A id \in LinkIds : \A l \in 1..(m + 1) :
                queue[l].links[id] # NoLink /\ IsOf(queue[n + 1].links[id], queue[l].links[id].inst)
                   => IsOf(queue[m + 1].links[id], queue[l].links[id].inst)
      BY <1>3, <3>1 DEF FirstLife
    <3>5. QED
      BY <3>2, <3>3, <3>4
  <2>5. QED
    BY <1>1, <2>1, <2>2, <2>3, <2>4 DEF FirstLife
<1>5. ASSUME NEW n \in 1..Len(queue), NEW id \in LinkIds, queue[n].links[id] # NoLink,
             \/ verdict[queue[n].links[id].inst] # "none"
             \/ \E g \in todo' : \E k \in g.keys : k.inst = queue[n].links[id].inst
      PROVE  /\ ledger'[id].state = "decided"
             /\ SerialMayBeMissing = FALSE => ledger'[id].serial = queue[n].links[id].serial
             /\ Classified(queue[n].links[id], queue[n].known, devices)
             /\ \A m \in 1..n : IsOf(queue[m].links[id], queue[n].links[id].inst)
  <2>1. \/ Accounted(queue[n].links[id].inst)
        \/ \E g \in todo' : \E k \in g.keys : k.inst = queue[n].links[id].inst
    BY <1>5 DEF Accounted
  <2>2. QED
    BY <1>5, <2>1, ReceivedDecided
<1>6. ASSUME NEW n \in 1..Len(queue'), NEW id \in LinkIds, queue'[n].links[id] # NoLink,
             Accounted(queue[n].links[id].inst)'
      PROVE  DecidedShown(queue[n].links, queue[n].known, n, id)'
  <2>1. n + 1 \in 1..Len(queue) /\ queue'[n] = queue[n + 1]
    BY <1>2
  <2>2. \A m \in 1..n : m + 1 \in 1..(n + 1) /\ queue'[m] = queue[m + 1]
    BY <1>2
  <2>3. \/ verdict[queue[n + 1].links[id].inst] # "none"
        \/ \E g \in todo' : \E k \in g.keys : k.inst = queue[n + 1].links[id].inst
    BY <1>1, <1>6, <2>1 DEF Accounted
  <2>4. /\ ledger'[id].state = "decided"
        /\ SerialMayBeMissing = FALSE => ledger'[id].serial = queue[n + 1].links[id].serial
        /\ Classified(queue[n + 1].links[id], queue[n + 1].known, devices)
        /\ \A m \in 1..(n + 1) : IsOf(queue[m].links[id], queue[n + 1].links[id].inst)
    BY <1>5, <1>6, <2>1, <2>3
  <2>5. QED
    BY <1>1, <2>1, <2>2, <2>4 DEF DecidedShown, Classified
<1>7. ASSUME NEW id \in LinkIds, gLinks[id] # NoLink, Accounted(gLinks[id].inst)'
      PROVE  DecidedShown(gLinks, gKnown, Len(queue), id)'
  <2>1. Len(queue) \in 1..Len(queue)
    BY <1>2
  <2>2. \/ verdict[gLinks[id].inst] # "none"
        \/ \E g \in todo' : \E k \in g.keys : k.inst = gLinks[id].inst
    BY <1>1, <1>7 DEF Accounted
  <2>3. /\ ledger'[id].state = "decided"
        /\ SerialMayBeMissing = FALSE => ledger'[id].serial = gLinks[id].serial
        /\ Classified(gLinks[id], gKnown, devices)
        /\ \A m \in 1..Len(queue) : IsOf(queue[m].links[id], gLinks[id].inst)
    BY <1>3, <1>5, <1>7, <2>1, <2>2
  <2>4. \A m \in 1..Len(queue') : IsOf(queue'[m].links[id], gLinks[id].inst)
    BY <1>2, <2>3
  <2>5. QED
    BY <1>1, <2>3, <2>4 DEF DecidedShown, Classified
<1>8. QED
  BY <1>1, <1>4, <1>6, <1>7 DEF OnceInvariant

(* The first life goes on as it began.                                     *)
LEMMA OnceIsInvariant == Spec => []OnceInvariant
<1>1. Init => OnceInvariant
  <2> SUFFICES ASSUME Init PROVE OnceInvariant
    OBVIOUS
  <2>1. /\ queue = <<>> /\ Len(queue) = 0 /\ devices = plugged /\ gKnown = {}
        /\ \A id \in LinkIds : gLinks[id] = NoLink
        /\ \A i \in Insts : ~Accounted(i)
    BY DEF Init, NoLinks, Accounted
  <2>2. QED
    BY <2>1 DEF OnceInvariant, FirstLife
<1>2. /\ TypeOK /\ SightInvariant /\ JudgeableInvariant /\ (pc = "idle" => todo = {})
      /\ OnceInvariant /\ [Next]_vars
      => OnceInvariant'
  BY OnceKept, OnceReported, OnceReceived
<1>3. QED
  BY <1>1, <1>2, TypeCorrect, SightIsInvariant, JudgeableIsInvariant,
     IdleIsInvariant, PTL DEF Spec

(* Why a link is put up for decision that has or awaits a decision: the    *)
(* ledger has its id under another serial.                                 *)
LEMMA DecidedAgain ==
    ASSUME TypeOK, SightInvariant, OnceInvariant, RecvUpdate, outages = 0,
           NEW g \in todo', NEW k \in g.keys, verdict[k.inst] # "none"
    PROVE  /\ Mistaken(k) /\ SerialMayBeMissing # FALSE
<1> DEFINE u == Head(queue)
           led == IF u.seed THEN EmptyLedger ELSE ledger
           ids == Pending(led, u.links, u.known, devices)
<1>1. todo' = GroupLinks(ids, u.links) /\ queue # <<>> /\ queue' = Tail(queue)
  BY DEF RecvUpdate
<1>2. u = queue[1] /\ 1 \in 1..Len(queue)
  BY <1>1, QueueShift
<1>3. PICK j \in ids : k = KeyOf(j, u.links[j])
  BY <1>1, GroupKeys
<1>4. /\ j \in LinkIds /\ u.links[j] # NoLink
      /\ PriorState(led[j], u.links[j]) # "decided"
  BY DEF Pending
<1>5. k.id = j /\ k.serial = u.links[j].serial /\ k.inst = u.links[j].inst
  BY <1>3 DEF KeyOf
<1>6. Accounted(u.links[j].inst) /\ u.links[j].inst \in Insts
  BY <1>2, <1>4, <1>5, ShownInsts DEF Accounted
<1>7. ~u.seed
  BY <1>2, <1>6 DEF OnceInvariant, FirstLife
<1>8. DecidedShown(queue[1].links, queue[1].known, 1, j)
  BY <1>2, <1>4, <1>6 DEF OnceInvariant
<1>9. ledger[j].state = "decided" /\ Reused(ledger[j], u.links[j])
  BY <1>4, <1>7, <1>8 DEF DecidedShown, PriorState
<1>10. SerialMayBeMissing = FALSE => ledger[j].serial = u.links[j].serial
  BY <1>2, <1>8 DEF DecidedShown
<1>11. QED
  BY <1>5, <1>9, <1>10 DEF Mistaken, Reused

(* Whatever is reported again, with its serial or without, while rules     *)
(* change, devices are found and updates queue up, a link is put up for    *)
(* decision once until the monitor's first outage; unless the ledger has   *)
(* it under the serial of another.                                         *)
THEOREM LinksAreDecidedOnce == Spec => DecidedOnce
<1> DEFINE Again == \A g \in todo' \ todo : \A k \in g.keys :
                       verdict[k.inst] # "none" => outages > 0 \/ Mistaken(k)
<1>1. TypeOK /\ SightInvariant /\ OnceInvariant /\ [Next]_vars => [Again]_vars
  <2> SUFFICES ASSUME TypeOK, SightInvariant, OnceInvariant, [Next]_vars,
                      NEW g \in todo' \ todo, NEW k \in g.keys, verdict[k.inst] # "none",
                      ~(outages > 0)
               PROVE  Mistaken(k)
    OBVIOUS
  <2>1. outages = 0
    BY DEF TypeOK
  <2>2. RecvUpdate
    <3>1. ASSUME NEW h \in todo, DecideGroup(h) PROVE FALSE
      BY <3>1 DEF DecideGroup
    <3>2. QED
      BY <3>1, GroupsStay
  <2>3. QED
    BY <2>1, <2>2, DecidedAgain
<1>2. QED
  BY <1>1, TypeCorrect, SightIsInvariant, OnceIsInvariant, PTL DEF Spec, DecidedOnce

-----------------------------------------------------------------------------
(* A decision stands.                                                      *)

(* What waits for a decision has none, and waits in one group.             *)
StandsInvariant ==
    /\ outages = 0 => \A g \in todo : \A k \in g.keys : verdict[k.inst] = "none"
    /\ \A g, h \in todo : \A k \in g.keys : \A l \in h.keys : k.inst = l.inst => g = h

(* group_links puts a link in one group: a stream has one name.            *)
LEMMA OneGroup ==
    ASSUME TypeOK, SightInvariant, queue # <<>>, queue' = Tail(queue),
           NEW ids, ids \subseteq LinkIds,
           \A i \in ids : Head(queue).links[i] # NoLink,
           NEW g \in GroupLinks(ids, Head(queue).links),
           NEW h \in GroupLinks(ids, Head(queue).links),
           NEW k \in g.keys, NEW l \in h.keys, k.inst = l.inst
    PROVE  g = h
<1> DEFINE links == Head(queue).links
<1>1. Head(queue) = queue[1] /\ 1 \in 1..Len(queue)
  BY QueueShift
<1>2. PICK home : AtHome(home)
  BY DEF SightInvariant
<1>3. Homed(links, home, nextInst)
  BY <1>1, <1>2 DEF AtHome
<1>4. PICK a \in ids : g = GroupOf(a, ids, links)
  BY DEF GroupLinks
<1>5. PICK b \in ids : h = GroupOf(b, ids, links)
  BY DEF GroupLinks
<1> HIDE DEF links
<1>6. PICK i \in ids : k = KeyOf(i, links[i]) /\ SameAccess(links[a].shape, links[i].shape)
  BY <1>4 DEF GroupOf
<1>7. PICK j \in ids : l = KeyOf(j, links[j]) /\ SameAccess(links[b].shape, links[j].shape)
  BY <1>5 DEF GroupOf
<1>8. i = j
  <2>1. links[i].inst = links[j].inst
    BY <1>6, <1>7 DEF KeyOf
  <2>2. links[i] # NoLink /\ links[j] # NoLink /\ i \in LinkIds /\ j \in LinkIds
    BY DEF links
  <2>3. QED
    BY <1>3, <2>1, <2>2 DEF Homed
<1>9. links[a].shape \in Shapes /\ links[b].shape \in Shapes
  <2>1. links[a] # NoLink /\ links[b] # NoLink /\ a \in LinkIds /\ b \in LinkIds
    BY DEF links
  <2>2. QED
    BY <1>3, <2>1 DEF Homed
<1>10. /\ links[a].shape.stream = links[b].shape.stream
       /\ links[a].shape.node = links[b].shape.node
       /\ links[a].shape.name = links[b].shape.name
  BY <1>6, <1>7, <1>8, <1>9 DEF SameAccess
<1>11. \A x : SameAccess(links[a].shape, x) <=> SameAccess(links[b].shape, x)
  BY <1>10 DEF SameAccess
<1>12. GroupOf(a, ids, links) = GroupOf(b, ids, links)
  <2>1. {x \in ids : SameAccess(links[a].shape, links[x].shape)}
          = {x \in ids : SameAccess(links[b].shape, links[x].shape)}
    BY <1>11
  <2>2. QED
    BY <1>10, <2>1 DEF GroupOf
<1>13. QED
  BY <1>4, <1>5, <1>12

(* An update puts up for decision what has none.                           *)
LEMMA StandsReceived ==
    ASSUME SerialMayBeMissing = FALSE, TypeOK, SightInvariant, OnceInvariant, RecvUpdate
    PROVE  StandsInvariant'
<1> DEFINE u == Head(queue)
           led == IF u.seed THEN EmptyLedger ELSE ledger
           ids == Pending(led, u.links, u.known, devices)
<1>1. /\ todo' = GroupLinks(ids, u.links) /\ queue # <<>> /\ queue' = Tail(queue)
      /\ UNCHANGED <<outages, verdict>>
  BY DEF RecvUpdate, pwVars
<1>2. ids \subseteq LinkIds /\ \A i \in ids : u.links[i] # NoLink
  BY PendingLive
<1>3. ASSUME NEW g \in todo', NEW h \in todo', NEW k \in g.keys, NEW l \in h.keys, k.inst = l.inst
      PROVE  g = h
  <2> HIDE DEF ids
  <2>1. QED
    BY <1>1, <1>2, <1>3, OneGroup
<1>4. ASSUME outages = 0, NEW g \in todo', NEW k \in g.keys PROVE verdict[k.inst] = "none"
  BY <1>4, DecidedAgain
<1>5. QED
  BY <1>1, <1>3, <1>4 DEF StandsInvariant

(* Decisions stand where blocks carry serials: no rule that changes and no *)
(* emergency block reaches a link that was decided, until the monitor's    *)
(* first outage.                                                           *)
THEOREM DecisionsStand ==
    ASSUME SerialMayBeMissing = FALSE
    PROVE  Spec => DecisionStands
<1> DEFINE Stands == \A i \in Insts :
                        verdict[i] # "none" /\ verdict'[i] # verdict[i] => outages > 0
<1>1. Init => StandsInvariant
  BY DEF Init, StandsInvariant
<1>2. ASSUME NEW g \in todo, DecideGroup(g)
      PROVE  /\ todo' = todo \ {g} /\ outages' = outages
             /\ \A i \in Insts : verdict'[i] = IF \E k \in g.keys : k.inst = i
                                               THEN Decision(g) ELSE verdict[i]
  BY <1>2 DEF DecideGroup, Judged, pwVars
<1>3. TypeOK /\ SightInvariant /\ OnceInvariant /\ StandsInvariant /\ [Next]_vars
      => StandsInvariant'
  <2> SUFFICES ASSUME TypeOK, SightInvariant, OnceInvariant, StandsInvariant, [Next]_vars
               PROVE  StandsInvariant'
    OBVIOUS
  <2>1. CASE RecvUpdate
    BY <2>1, StandsReceived
  <2>2. ASSUME NEW g \in todo, DecideGroup(g) PROVE StandsInvariant'
    <3>1. /\ todo' = todo \ {g} /\ outages' = outages
          /\ \A i \in Insts : verdict'[i] = IF \E k \in g.keys : k.inst = i
                                            THEN Decision(g) ELSE verdict[i]
      BY <1>2, <2>2
    <3>2. ASSUME NEW h \in todo', NEW l \in h.keys PROVE verdict'[l.inst] = verdict[l.inst]
      <4>1. l.inst \in Insts
        <5>1. PICK home : AtHome(home)
          BY DEF SightInvariant
        <5>2. l \in KeysInPlay
          BY <3>1 DEF KeysInPlay
        <5>3. QED
          BY <5>1, <5>2 DEF AtHome, TypeOK, Insts
      <4>2. ~\E k \in g.keys : k.inst = l.inst
        BY <3>1 DEF StandsInvariant
      <4>3. QED
        BY <3>1, <4>1, <4>2
    <3>3. QED
      BY <3>1, <3>2 DEF StandsInvariant
  <2>3. CASE ~RecvUpdate /\ ~\E g \in todo : DecideGroup(g)
    <3>1. UNCHANGED <<todo, verdict>>
      BY <2>3, GroupsStay
    <3>2. outages' = 0 => outages = 0
      BY FirstSteps
    <3>3. QED
      BY <3>1, <3>2 DEF StandsInvariant
  <2>4. QED
    BY <2>1, <2>2, <2>3
<1>4. TypeOK /\ StandsInvariant /\ [Next]_vars => [Stands]_vars
  <2> SUFFICES ASSUME TypeOK, StandsInvariant, [Next]_vars,
                      NEW i \in Insts, verdict[i] # "none", verdict'[i] # verdict[i]
               PROVE  outages > 0
    OBVIOUS
  <2>1. ~RecvUpdate
    BY DEF RecvUpdate
  <2>2. PICK g \in todo : DecideGroup(g)
    BY <2>1, GroupsStay
  <2>3. \E k \in g.keys : k.inst = i
    BY <1>2, <2>2
  <2>4. outages # 0
    BY <2>3 DEF StandsInvariant
  <2>5. QED
    BY <2>4 DEF TypeOK
<1>5. QED
  BY <1>1, <1>3, <1>4, TypeCorrect, SightIsInvariant, OnceIsInvariant, PTL
     DEF Spec, DecisionStands
=============================================================================
