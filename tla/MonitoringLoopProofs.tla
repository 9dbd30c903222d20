------------------------ MODULE MonitoringLoopProofs ------------------------
(***************************************************************************)
(* Theorems about MonitoringLoop, for every set of links, applications,    *)
(* streams and devices and every bound.                                    *)
(***************************************************************************)
EXTENDS MonitoringLoop, TLAPS

USE PolicyAssumption, LinkAssumption, TimeAssumption, ConnAssumption, BoundsAssumption

-----------------------------------------------------------------------------
(* Lemmas about the operators the model is built from.                     *)

(* Reconciling a typed snapshot gives a typed ledger.                      *)
LEMMA ReconcileType ==
    ASSUME NEW led \in [LinkIds -> Entry], NEW links \in LinkMap,
           NEW known, NEW devs
    PROVE  Reconcile(led, links, known, devs) \in [LinkIds -> Entry]
BY DEF Reconcile, ReconcileEntry, PriorState, Entry, EntryStates, NoEntry,
       NoSerial, LinkMap, Link

(* The groups of a snapshot's pending links are groups.                    *)
LEMMA GroupLinksType ==
    ASSUME NEW links \in LinkMap, NEW ids \in SUBSET LinkIds,
           \A id \in ids : links[id] # NoLink
    PROVE  GroupLinks(ids, links) \subseteq Group
<1>1. \A id \in ids : links[id] \in Link
  BY DEF LinkMap
<1>2. ASSUME NEW i \in ids
      PROVE  GroupOf(i, ids, links) \in Group
  <2>1. \A j \in ids : KeyOf(j, links[j]) \in Key
    BY <1>1 DEF KeyOf, Key, Link
  <2>2. QED
    BY <1>1, <2>1, <1>2 DEF GroupOf, Group, Link, Shape
<1>3. QED
  BY <1>2 DEF GroupLinks

(* Pending links are links of the snapshot.                                *)
LEMMA PendingLive ==
    ASSUME NEW led, NEW links, NEW known, NEW devs
    PROVE  /\ Pending(led, links, known, devs) \subseteq LinkIds
           /\ \A id \in Pending(led, links, known, devs) : links[id] # NoLink
BY DEF Pending

(* The links of a block, with the serials it leaves out, are links.        *)
LEMMA BlockType ==
    ASSUME TypeOK, NEW bare
    PROVE  SeedLinks(bare) \in LinkMap /\ BlockLinks(bare) \in LinkMap
<1>1. \A l \in Link : \A b : Seen(l, b) \in Link
  BY DEF Seen, Link, NoSerial
<1>2. \A o \in Link \cup {NoLink} : \A l \in Link : ApplyObject(o, l) \in Link
  BY DEF ApplyObject, Link
<1>3. QED
  BY <1>1, <1>2 DEF TypeOK, LinkMap, SeedLinks, BlockLinks

(* A decision is one of the places the loop goes to, for a guarded         *)
(* category, or "unguarded".                                               *)
LEMMA DecisionType ==
    ASSUME TypeOK, NEW g \in Group
    PROVE  /\ Decision(g) \in {"unguarded", "allow", "deny", "ask"}
           /\ Decision(g) # "unguarded" => CatOfGroup(g) \in Guarded
<1>1. PairOf(g) = <<Norm[g.name], CatOfGroup(g)>> /\ Norm[g.name] \in Apps
  BY DEF PairOf, Group
<1>2. CatOfGroup(g) \in Guarded => rules[PairOf(g)] \in Permissions
  BY <1>1 DEF TypeOK, Pairs
<1>3. QED
  BY <1>1, <1>2 DEF Decision, Evaluate, Permissions

(* The group being decided asks for a pair of the rule table.              *)
LEMMA CurPair ==
    ASSUME TypeOK, cur # NoGroup
    PROVE  /\ cur \in Group
           /\ PairOf(cur) = <<Norm[cur.name], CatOfGroup(cur)>>
           /\ PairOf(cur) \in Pairs
           /\ CatOfGroup(cur) \in Cats
           /\ Norm[cur.name] \in Apps
           /\ cur.name \in Names
           /\ cur.keys \subseteq Key
BY DEF TypeOK, PairOf, Pairs, Group

-----------------------------------------------------------------------------
(* Type correctness.                                                       *)

(* The initial states are well typed.                                      *)
LEMMA InitType == Init => TypeOK
<1> SUFFICES ASSUME Init PROVE TypeOK
  OBVIOUS
<1>1. NoLinks \in LinkMap /\ EmptyLedger \in [LinkIds -> Entry]
  BY DEF NoLinks, LinkMap, EmptyLedger, Entry, EntryStates, NoEntry, NoSerial
<1>2. NoSession \in Session
  BY DEF NoSession, Session
<1>3. queue \in Seq(Update) /\ Len(queue) = 0
  BY DEF Init
<1>4. monitorUp \in BOOLEAN /\ blockAll \in BOOLEAN
  BY Zenon DEF Init
<1>5. QED
  BY <1>1, <1>2, <1>3, <1>4
  DEF Init, TypeOK, Hardware, NeverDismissed, Verdicts, Times, Pairs, Permissions

(* What the environment does keeps the types.                              *)
LEMMA EnvironmentType == TypeOK /\ Environment => TypeOK'
<1> SUFFICES ASSUME TypeOK, Environment PROVE TypeOK'
  OBVIOUS
<1> USE DEF TypeOK, pwVars, monVars, configVars, trackerVars, loopVars,
            ghostVars, CatOfGroup
<1>1. ASSUME NEW id \in LinkIds, NEW shape \in Shapes, LinkUp(id, shape)
      PROVE  TypeOK'
  <2>1. [serial |-> nextSerial, shape |-> shape, inst |-> nextInst] \in Link
    BY DEF Link
  <2>2. pw' \in LinkMap
    BY <1>1, <2>1 DEF LinkUp, LinkMap
  <2>3. QED
    BY <1>1, <2>2 DEF LinkUp
<1>2. ASSUME NEW id \in LinkIds, LinkDown(id) PROVE TypeOK'
  <2>1. pw' \in LinkMap
    BY <1>2 DEF LinkDown, LinkMap
  <2>2. QED
    BY <1>2, <2>1 DEF LinkDown
<1>3. ASSUME NEW id \in LinkIds, LinkChanges(id) PROVE TypeOK'
  BY <1>3 DEF LinkChanges
<1>4. ASSUME NEW s \in Streams, NodeReady(s) PROVE TypeOK'
  BY <1>4 DEF NodeReady
<1>5. ASSUME NEW n \in Hardware, PlugIn(n) PROVE TypeOK'
  BY <1>5 DEF PlugIn
<1>6. ASSUME PipeWireRestart PROVE TypeOK'
  <2>1. pw' \in LinkMap
    BY <1>6 DEF PipeWireRestart, LinkMap, NoLinks
  <2>2. monitorUp' \in BOOLEAN
    BY <1>6, Zenon DEF PipeWireRestart
  <2>3. QED
    BY <1>6, <2>1, <2>2 DEF PipeWireRestart
<1>7. ASSUME MonitorDies PROVE TypeOK'
  <2>1. monitorUp' \in BOOLEAN
    BY <1>7, Zenon DEF MonitorDies
  <2>2. QED
    BY <1>7, <2>1 DEF MonitorDies
<1>8. ASSUME Tick PROVE TypeOK'
  BY <1>8 DEF Tick, Times
<1>9. QED
  BY <1>1, <1>2, <1>3, <1>4, <1>5, <1>6, <1>7, <1>8 DEF Environment

(* The monitor queues typed updates.                                       *)
LEMMA MonitorType == TypeOK /\ Monitor => TypeOK'
<1> SUFFICES ASSUME TypeOK, Monitor PROVE TypeOK'
  OBVIOUS
<1> USE DEF TypeOK, pwVars, monVars, configVars, trackerVars, loopVars,
            ghostVars, CatOfGroup
<1>1. ASSUME Seed PROVE TypeOK'
  <2>1. gLinks' \in LinkMap
    BY <1>1, BlockType DEF Seed
  <2>2. [seed |-> TRUE, links |-> gLinks', known |-> ready] \in Update
    BY <2>1 DEF Update
  <2>3. queue' \in Seq(Update) /\ Len(queue') <= MaxQueue
    BY <1>1, <2>2 DEF Seed
  <2>4. monitorUp' \in BOOLEAN
    BY <1>1, Zenon DEF Seed
  <2>5. QED
    BY <1>1, <2>1, <2>3, <2>4 DEF Seed
<1>2. ASSUME Block PROVE TypeOK'
  <2>1. gLinks' \in LinkMap
    BY <1>2, BlockType DEF Block
  <2>2. [seed |-> FALSE, links |-> gLinks', known |-> ready] \in Update
    BY <2>1 DEF Update
  <2>3. queue' \in Seq(Update) /\ Len(queue') <= MaxQueue
    BY <1>2, <2>2 DEF Block
  <2>4. QED
    BY <1>2, <2>1, <2>3 DEF Block
<1>3. QED
  BY <1>1, <1>2 DEF Monitor

(* The steps of the loop keep the types.                                   *)
LEMMA LoopType == TypeOK /\ Loop => TypeOK'
<1> SUFFICES ASSUME TypeOK, Loop PROVE TypeOK'
  OBVIOUS
<1> USE DEF pwVars, monVars, configVars, trackerVars, loopVars, ghostVars
<1>1. ASSUME RecvUpdate PROVE TypeOK'
  <2> DEFINE u == Head(queue)
             led == IF u.seed THEN EmptyLedger ELSE ledger
             ids == Pending(led, u.links, u.known, devices)
  <2>1. u \in Update /\ Tail(queue) \in Seq(Update) /\ Len(Tail(queue)) <= MaxQueue
    BY <1>1 DEF RecvUpdate, TypeOK
  <2>2. u.links \in LinkMap
    BY <2>1 DEF Update
  <2>3. led \in [LinkIds -> Entry]
    BY DEF TypeOK, EmptyLedger, NoEntry, Entry, EntryStates, NoSerial
  <2>4. ledger' \in [LinkIds -> Entry]
    <3> HIDE DEF u, led
    <3>1. Reconcile(led, u.links, u.known, devices) \in [LinkIds -> Entry]
      BY <2>2, <2>3, ReconcileType
    <3>2. QED
      BY <1>1, <3>1 DEF RecvUpdate, u, led
  <2>5. todo' \subseteq Group
    <3> HIDE DEF u, led
    <3>1. GroupLinks(ids, u.links) \subseteq Group
      BY <2>2, PendingLive, GroupLinksType
    <3>2. QED
      BY <1>1, <3>1 DEF RecvUpdate, u, led
  <2>6. updLinks' \subseteq LinkIds
    BY <1>1 DEF RecvUpdate, LiveIds
  <2>7. QED
    BY <1>1, <2>1, <2>4, <2>5, <2>6 DEF RecvUpdate, TypeOK, CatOfGroup
<1>2. ASSUME NEW g \in todo, DecideGroup(g) PROVE TypeOK'
  <2>1. g \in Group /\ g # NoGroup
    BY DEF TypeOK
  <2>2. /\ Decision(g) \in {"unguarded", "allow", "deny", "ask"}
        /\ Decision(g) # "unguarded" => CatOfGroup(g) \in Guarded
    BY <2>1, DecisionType
  <2>3. verdict' \in [Insts -> Verdicts]
    BY <1>2, <2>2 DEF DecideGroup, Judged, TypeOK, Verdicts
  <2>4. /\ pc' \in {"groups", "allow", "deny", "ask"}
        /\ cur' \in Group \cup {NoGroup}
        /\ pc' = "groups" <=> cur' = NoGroup
        /\ cur' # NoGroup => CatOf[cur'.node] \in Guarded
    BY <1>2, <2>1, <2>2 DEF DecideGroup, TypeOK, CatOfGroup
  <2>5. QED
    BY <1>2, <2>3, <2>4 DEF DecideGroup, TypeOK, CatOfGroup
<1>3. ASSUME AllowGroup PROVE TypeOK'
  <2>1. cur # NoGroup
    BY <1>3 DEF AllowGroup, TypeOK
  <2>2. rules[PairOf(cur)] \in Permissions /\ sessions[PairOf(cur)] \in Session
    BY <2>1, CurPair DEF TypeOK
  <2>3. ASSUME NEW k \in cur.keys
        PROVE  [app |-> PairOf(cur)[1], cat |-> PairOf(cur)[2],
                perm |-> rules[PairOf(cur)], inst |-> k.inst] \in Conn
    BY <2>1, <2>2, CurPair DEF Conn, Key
  <2>4. active' \in [LinkIds -> Conn \cup {NoConn}]
    BY <1>3, <2>3 DEF AllowGroup, TypeOK
  <2>5. TouchSession(sessions[PairOf(cur)], now) \in Session
    BY <2>2 DEF TouchSession, Session, TypeOK, Times
  <2>6. sessions' \in [Pairs -> Session]
    BY <1>3, <2>1, <2>5, CurPair DEF AllowGroup, TypeOK
  <2>7. QED
    BY <1>3, <2>4, <2>6 DEF AllowGroup, TypeOK, CatOfGroup
<1>4. ASSUME NEW failed \in SUBSET LinkIds, RefuseGroup(failed) PROVE TypeOK'
  <2>1. cur # NoGroup
    BY <1>4 DEF RefuseGroup, TypeOK, Refused
  <2>2. pw' \in LinkMap /\ dirty' \subseteq LinkIds
    BY <1>4 DEF RefuseGroup, Destroy, LiveIds, LinkMap, TypeOK
  <2>3. checks' \subseteq Check
    BY <1>4, <2>1, CurPair DEF RefuseGroup, Check, TypeOK
  <2>4. QED
    BY <1>4, <2>1, <2>2, <2>3 DEF RefuseGroup, TypeOK, CatOfGroup
<1>5. ASSUME ReadCooldown PROVE TypeOK'
  BY <1>5 DEF ReadCooldown, TypeOK, CatOfGroup
<1>6. ASSUME ClaimPrompt PROVE TypeOK'
  <2>1. cur # NoGroup
    BY <1>6 DEF ClaimPrompt, TypeOK
  <2>2. claims' \subseteq Pairs
    BY <1>6, <2>1, CurPair DEF ClaimPrompt, TypeOK
  <2>3. QED
    BY <1>6, <2>2 DEF ClaimPrompt, TypeOK, CatOfGroup
<1>7. ASSUME ShowPrompt PROVE TypeOK'
  <2>1. cur # NoGroup
    BY <1>7 DEF ShowPrompt, TypeOK
  <2>2. prompts' \subseteq Prompt
    BY <1>7, <2>1, CurPair DEF ShowPrompt, Prompt, TypeOK
  <2>3. QED
    BY <1>7, <2>2 DEF ShowPrompt, TypeOK, CatOfGroup
<1>8. ASSUME Cleanup PROVE TypeOK'
  <2>1. active' \in [LinkIds -> Conn \cup {NoConn}]
    BY <1>8 DEF Cleanup, Prune, TypeOK
  <2>2. sessions' \in [Pairs -> Session]
    BY <1>8 DEF Cleanup, ExpireSessions, Pairs, NoSession, Session, TypeOK
  <2>3. QED
    BY <1>8, <2>1, <2>2 DEF Cleanup, TypeOK, CatOfGroup
<1>9. QED
  BY <1>1, <1>2, <1>3, <1>4, <1>5, <1>6, <1>7, <1>8 DEF Loop

(* So do the steps of a denial check.                                      *)
LEMMA CheckType ==
    ASSUME TypeOK, NEW c \in checks, CheckStep(c)
    PROVE  TypeOK'
<1> USE DEF pwVars, monVars, configVars, trackerVars, loopVars, ghostVars
<1>1. c \in Check
  BY DEF TypeOK
<1>2. StillAlive(ledger, c.keys) \subseteq c.keys
  BY DEF StillAlive
<1>3. ASSUME CheckAlive(c) PROVE TypeOK'
  <2>1. checks' \subseteq Check
    BY <1>1, <1>2, <1>3 DEF CheckAlive, Check, TypeOK
  <2>2. QED
    BY <1>3, <2>1 DEF CheckAlive, TypeOK, CatOfGroup
<1>4. ASSUME NEW failed \in SUBSET LinkIds, CheckRetry(c, failed) PROVE TypeOK'
  <2>1. checks' \subseteq Check
    BY <1>1, <1>4 DEF CheckRetry, Check, TypeOK
  <2>2. pw' \in LinkMap /\ dirty' \subseteq LinkIds
    BY <1>4 DEF CheckRetry, Destroy, LiveIds, LinkMap, TypeOK
  <2>3. QED
    BY <1>4, <2>1, <2>2 DEF CheckRetry, TypeOK, CatOfGroup
<1>5. ASSUME CheckReport(c) PROVE TypeOK'
  <2>1. reported' \subseteq Nat
    <3>1. \A k \in c.keys : k.inst \in Nat
      BY <1>1 DEF Check, Key
    <3>2. QED
      BY <1>2, <1>5, <3>1 DEF CheckReport, TypeOK
  <2>2. QED
    BY <1>5, <2>1 DEF CheckReport, TypeOK, CatOfGroup
<1>6. QED
  BY <1>3, <1>4, <1>5 DEF CheckStep

(* So do the user's answers and commands, and a rescan.                    *)
LEMMA UserType == TypeOK /\ (User \/ Rescan) => TypeOK'
<1> SUFFICES ASSUME TypeOK, User \/ Rescan PROVE TypeOK'
  OBVIOUS
<1> USE DEF pwVars, monVars, configVars, trackerVars, loopVars, ghostVars
<1>1. ASSUME NEW name \in Names, NEW cat \in Cats, NEW perm \in Permissions
      PROVE  SetRuleIn(rules, name, cat, perm) \in [Pairs -> Permissions]
  BY DEF SetRuleIn, TypeOK, Pairs
<1>2. ASSUME NEW p \in prompts, NEW perm \in PromptChoices(p.cat), AnswerPrompt(p, perm)
      PROVE  TypeOK'
  <2>1. p.name \in Names /\ p.cat \in Cats /\ perm \in Permissions
    BY DEF TypeOK, Prompt, PromptChoices, Permissions
  <2>2. BeginSession(now) \in Session
    BY DEF BeginSession, Session, TypeOK, Times
  <2>3. sessions' \in [Pairs -> Session]
    BY <1>2, <2>1, <2>2 DEF AnswerPrompt, TypeOK, Pairs
  <2>4. rules' \in [Pairs -> Permissions]
    BY <1>1, <1>2, <2>1 DEF AnswerPrompt
  <2>5. QED
    BY <1>2, <2>3, <2>4 DEF AnswerPrompt, TypeOK, CatOfGroup
<1>3. ASSUME NEW p \in prompts, DismissPrompt(p) PROVE TypeOK'
  <2>1. p.name \in Names /\ p.cat \in Cats
    BY DEF TypeOK, Prompt
  <2>2. dismissed' \in [Names \X Cats -> Nat]
    BY <1>3, <2>1 DEF DismissPrompt, TypeOK, Times
  <2>3. QED
    BY <1>3, <2>2 DEF DismissPrompt, TypeOK, CatOfGroup
<1>4. ASSUME NEW r \in UserRules, SetRule(r[1], r[2], r[3]) PROVE TypeOK'
  <2>1. r[1] \in Names /\ r[2] \in Cats /\ r[3] \in Permissions
    OBVIOUS
  <2>2. rules' \in [Pairs -> Permissions]
    BY <1>1, <1>4, <2>1 DEF SetRule
  <2>3. QED
    BY <1>4, <2>2 DEF SetRule, TypeOK, CatOfGroup
<1>5. ASSUME NEW a \in Apps, RemoveRule(a) PROVE TypeOK'
  <2>1. rules' \in [Pairs -> Permissions]
    BY <1>5 DEF RemoveRule, RemoveRuleIn, TypeOK, Pairs
  <2>2. QED
    BY <1>5, <2>1 DEF RemoveRule, TypeOK, CatOfGroup
<1>6. ASSUME NEW on \in BOOLEAN, SetBlockAll(on) PROVE TypeOK'
  <2>1. blockAll' \in BOOLEAN
    BY <1>6, Zenon DEF SetBlockAll
  <2>2. QED
    BY <1>6, <2>1 DEF SetBlockAll, TypeOK, CatOfGroup
<1>7. ASSUME Rescan PROVE TypeOK'
  BY <1>7 DEF Rescan, TypeOK, CatOfGroup
<1>8. QED
  BY <1>2, <1>3, <1>4, <1>5, <1>6, <1>7 DEF User

(* Every variable of the daemon, the monitor and PipeWire keeps its type,  *)
(* and the loop holds a group, of a guarded category, exactly while it is  *)
(* between a decision and the end of its consequences.                     *)
THEOREM TypeCorrect == Spec => []TypeOK
<1>1. Init => TypeOK
  BY InitType
<1>2. TypeOK /\ [Next]_vars => TypeOK'
  <2> SUFFICES ASSUME TypeOK, [Next]_vars PROVE TypeOK'
    OBVIOUS
  <2>1. CASE Next
    BY <2>1, EnvironmentType, MonitorType, LoopType, CheckType, UserType DEF Next
  <2>2. CASE UNCHANGED vars
    BY <2>2 DEF vars, pwVars, monVars, configVars, trackerVars, loopVars,
                ghostVars, TypeOK, CatOfGroup
  <2>3. QED
    BY <2>1, <2>2
<1>3. QED
  BY <1>1, <1>2, PTL DEF Spec

-----------------------------------------------------------------------------
(* A refused link is never lost sight of.                                  *)

(* Links only go, as in every step but LinkUp.                             *)
PwKept ==
    /\ nextInst' = nextInst
    /\ \A id \in LinkIds : pw'[id] = NoLink \/ pw'[id] = pw[id]

(* Links that go leave what is remembered of the others true.              *)
LEMMA GenuineKept ==
    ASSUME PwKept, NEW id, NEW serial, NEW inst, Genuine(id, serial, inst)
    PROVE  Genuine(id, serial, inst)'
BY DEF PwKept, Genuine, LiveIds

(* The keys in play are keys.                                              *)
LEMMA KeysInPlayType == TypeOK => KeysInPlay \subseteq Key
<1> SUFFICES ASSUME TypeOK, NEW k \in KeysInPlay PROVE k \in Key
  OBVIOUS
<1>1. CASE \E g \in todo : k \in g.keys
  BY <1>1 DEF TypeOK, Group
<1>2. CASE \E c \in checks : k \in c.keys
  BY <1>2 DEF TypeOK, Check
<1>3. CASE cur # NoGroup /\ k \in cur.keys
  BY <1>3 DEF TypeOK, Group
<1>4. QED
  BY <1>1, <1>2, <1>3 DEF KeysInPlay

(* A step that brings no link, no update, no reconcile and no new key      *)
(* keeps the parts of the invariant that are about identity.               *)
LEMMA IdentityFrame ==
    ASSUME TypeOK, PursuitInvariant, PwKept,
           UNCHANGED <<gLinks, queue, ledger>>,
           KeysInPlay' \subseteq KeysInPlay
    PROVE  LinkIdentity' /\ SnapshotsKeepLinks' /\ KeysFollowed'
<1> USE DEF PursuitInvariant
<1>1. LinkIdentity'
  <2>1. \A id \in LiveIds(pw') : id \in LiveIds(pw) /\ pw'[id] = pw[id]
    BY DEF PwKept, LiveIds
  <2>2. GenuineLinks(pw)'
    BY <2>1, GenuineKept DEF LinkIdentity, GenuineLinks
  <2>3. GenuineLinks(gLinks)'
    BY GenuineKept DEF LinkIdentity, GenuineLinks
  <2>4. \A n \in 1..Len(queue') : GenuineLinks(queue[n].links)'
    BY GenuineKept DEF LinkIdentity, GenuineLinks
  <2>5. \A k \in KeysInPlay' : Genuine(k.id, k.serial, k.inst)'
    BY GenuineKept DEF LinkIdentity
  <2>6. QED
    BY <2>1, <2>2, <2>3, <2>4, <2>5 DEF LinkIdentity
<1>2. SnapshotsKeepLinks'
  BY DEF SnapshotsKeepLinks, Shows, PwKept, LiveIds
<1>3. KeysFollowed'
  <2>1. \A k \in KeysInPlay : k.id \in LinkIds
    BY KeysInPlayType DEF Key
  <2>2. QED
    BY <2>1 DEF KeysFollowed, Shows, PwKept
<1>4. QED
  BY <1>1, <1>2, <1>3

(* A step that takes no decision, ends no check and leaves a refusal that  *)
(* is about to be carried out alone keeps every refused link pursued.      *)
LEMMA PursuitFrame ==
    ASSUME RefusedIsPursued, PwKept, verdict' = verdict,
           pc \in Refused => pc' = pc /\ cur' = cur,
           checks \subseteq checks', reported \subseteq reported'
    PROVE  RefusedIsPursued'
BY DEF RefusedIsPursued, PwKept, LiveIds

(* The initial states satisfy the pursuit invariant.                       *)
LEMMA PursuitInit == Init => PursuitInvariant
<1> SUFFICES ASSUME Init PROVE PursuitInvariant
  OBVIOUS
<1>1. LiveIds(pw) = {} /\ LiveIds(gLinks) = {} /\ Len(queue) = 0
  BY DEF Init, LiveIds, NoLinks
<1>2. KeysInPlay = {}
  BY DEF Init, KeysInPlay
<1>3. \A i \in Insts : verdict[i] = "none"
  BY DEF Init
<1>4. QED
  BY <1>1, <1>2, <1>3 DEF PursuitInvariant, LinkIdentity, GenuineLinks,
     SnapshotsKeepLinks, KeysFollowed, RefusedIsPursued

(* A new link is nobody's yet: nothing that is remembered has its number.  *)
LEMMA PursuitLinkUp ==
    ASSUME TypeOK, PursuitInvariant,
           NEW new \in LinkIds, NEW shape \in Shapes, LinkUp(new, shape)
    PROVE  PursuitInvariant'
<1> USE DEF PursuitInvariant
<1>1. /\ nextInst \in Nat /\ nextInst' = nextInst + 1 /\ nextInst \in Insts
      /\ nextSerial # NoSerial
  BY DEF TypeOK, LinkUp, Insts, NoSerial
<1>2. /\ new \notin LiveIds(pw)
      /\ \A id \in LinkIds : id # new => pw'[id] = pw[id]
      /\ pw'[new].inst = nextInst /\ pw'[new].serial = nextSerial
      /\ LiveIds(pw') \subseteq LiveIds(pw) \cup {new}
  BY DEF LinkUp, TypeOK, LinkMap, LiveIds
<1>3. ASSUME NEW id, NEW serial, NEW inst, Genuine(id, serial, inst)
      PROVE  Genuine(id, serial, inst)' /\ inst # nextInst
  BY <1>1, <1>2, <1>3 DEF Genuine, LiveIds
<1>4. ASSUME NEW s, s = nextSerial, NEW i, i = nextInst
      PROVE  Genuine(new, s, i)'
  <2>1. \A id \in LiveIds(pw) : pw[id].inst # nextInst
    BY <1>1 DEF LinkIdentity, GenuineLinks, Genuine
  <2>2. QED
    BY <1>1, <1>2, <1>4, <2>1 DEF Genuine, LiveIds, Insts
<1>5. UNCHANGED <<gLinks, queue, ledger, todo, checks, cur, pc, verdict, reported>>
  BY DEF LinkUp, loopVars, ghostVars
<1>6. KeysInPlay' = KeysInPlay
  BY <1>5 DEF KeysInPlay
<1>7. LinkIdentity'
  <2>1. GenuineLinks(pw)' /\ \A id \in LiveIds(pw') : pw'[id].serial # NoSerial
    BY <1>1, <1>2, <1>3, <1>4 DEF LinkIdentity, GenuineLinks, LiveIds
  <2>2. GenuineLinks(gLinks)' /\ \A n \in 1..Len(queue') : GenuineLinks(queue[n].links)'
    BY <1>3, <1>5 DEF LinkIdentity, GenuineLinks
  <2>3. QED
    BY <1>3, <1>5, <1>6, <2>1, <2>2 DEF LinkIdentity
<1>8. SnapshotsKeepLinks'
  <2>1. \A n \in 1..Len(queue) : ~Shows(queue[n].links, new)'
    BY <1>2, <1>3, <1>5 DEF LinkIdentity, GenuineLinks, Shows, LiveIds
  <2>2. QED
    BY <1>2, <1>5, <2>1 DEF SnapshotsKeepLinks, Shows, LiveIds
<1>9. KeysFollowed'
  <2>1. \A k \in KeysInPlay : k.id \in LinkIds /\ k.inst # nextInst
    BY <1>3, KeysInPlayType DEF LinkIdentity, Key
  <2>2. QED
    BY <1>2, <1>5, <1>6, <2>1 DEF KeysFollowed, Shows
<1>10. RefusedIsPursued'
  <2>1. verdict[nextInst] = "none"
    BY <1>1
  <2>2. QED
    BY <1>2, <1>5, <2>1 DEF RefusedIsPursued, LiveIds, Refused
<1>11. QED
  BY <1>1, <1>5, <1>7, <1>8, <1>9, <1>10 DEF Insts

(* A new snapshot takes every link from the last one or from PipeWire, so  *)
(* it still shows what the last one showed.                                *)
LEMMA PursuitSnapshot ==
    ASSUME TypeOK, TypeOK', PursuitInvariant,
           UNCHANGED <<pw, nextInst, ledger, todo, checks, cur, pc, verdict, reported>>,
           \A id \in LinkIds : gLinks'[id] = gLinks[id] \/ gLinks'[id] = pw[id],
           NEW u \in Update, u.links = gLinks', queue' = Append(queue, u)
    PROVE  PursuitInvariant'
<1> USE DEF PursuitInvariant
<1>1. PwKept
  BY DEF PwKept
<1>2. KeysInPlay' = KeysInPlay
  BY DEF KeysInPlay
<1>3. /\ Len(queue') = Len(queue) + 1 /\ Len(queue) \in Nat
      /\ queue'[Len(queue')].links = gLinks'
      /\ \A n \in 1..Len(queue) : queue'[n] = queue[n]
  BY DEF TypeOK
<1>4. \A n \in 1..Len(queue') : n \in 1..Len(queue) \/ n = Len(queue')
  BY <1>3
<1>5. \A id \in LinkIds : pw[id] # NoLink /\ Shows(gLinks, id) => Shows(gLinks, id)'
  BY DEF Shows
<1>6. LinkIdentity'
  <2>1. GenuineLinks(gLinks)'
    BY <1>1, GenuineKept DEF LinkIdentity, GenuineLinks, LiveIds
  <2>2. GenuineLinks(pw)' /\ \A id \in LiveIds(pw') : pw'[id].serial # NoSerial
    BY <1>1, GenuineKept DEF LinkIdentity, GenuineLinks
  <2>3. ASSUME NEW n \in 1..Len(queue') PROVE GenuineLinks(queue[n].links)'
    <3>1. CASE n \in 1..Len(queue)
      BY <1>1, <1>3, <3>1, GenuineKept DEF LinkIdentity, GenuineLinks
    <3>2. CASE n = Len(queue')
      BY <1>3, <2>1, <3>2 DEF GenuineLinks
    <3>3. QED
      BY <1>4, <3>1, <3>2
  <2>4. \A k \in KeysInPlay' : Genuine(k.id, k.serial, k.inst)'
    BY <1>1, <1>2, GenuineKept DEF LinkIdentity
  <2>5. QED
    BY <2>1, <2>2, <2>3, <2>4 DEF LinkIdentity
<1>7. SnapshotsKeepLinks'
  <2> SUFFICES ASSUME NEW id \in LinkIds, pw[id] # NoLink,
                      NEW m \in 1..Len(queue'), Shows(queue[m].links, id)'
               PROVE  /\ \A n \in 1..Len(queue') : m <= n => Shows(queue[n].links, id)'
                      /\ Shows(gLinks, id)'
    BY DEF SnapshotsKeepLinks, LiveIds
  <2>1. CASE m \in 1..Len(queue)
    <3>1. Shows(queue[m].links, id)
      BY <1>3, <2>1 DEF Shows
    <3>2. /\ \A n \in 1..Len(queue) : m <= n => Shows(queue[n].links, id)
          /\ Shows(gLinks, id)'
      BY <1>5, <2>1, <3>1 DEF SnapshotsKeepLinks, LiveIds
    <3>3. QED
      BY <1>3, <1>4, <3>2 DEF Shows
  <2>2. CASE m = Len(queue')
    BY <1>3, <2>2 DEF Shows
  <2>3. QED
    BY <1>4, <2>1, <2>2
<1>8. KeysFollowed'
  <2>1. \A k \in KeysInPlay : k.id \in LinkIds
    BY KeysInPlayType DEF Key
  <2>2. SUFFICES ASSUME NEW k \in KeysInPlay, pw[k.id] # NoLink, pw[k.id].inst = k.inst
                 PROVE  /\ ledger'[k.id].state # "none" /\ ledger'[k.id].serial = k.serial
                        /\ \A n \in 1..Len(queue') : Shows(queue[n].links, k.id)'
                        /\ Shows(gLinks, k.id)'
    BY <1>2 DEF KeysFollowed
  <2>3. /\ ledger[k.id].state # "none" /\ ledger[k.id].serial = k.serial
        /\ \A n \in 1..Len(queue) : Shows(queue[n].links, k.id)
        /\ Shows(gLinks, k.id)'
    BY <1>5, <2>1, <2>2 DEF KeysFollowed
  <2>4. QED
    BY <1>3, <1>4, <2>3 DEF Shows
<1>9. RefusedIsPursued'
  BY <1>1, PursuitFrame
<1>10. QED
  BY <1>6, <1>7, <1>8, <1>9

(* Seeds and blocks of the monitor keep the pursuit invariant.             *)
LEMMA PursuitMonitor ==
    ASSUME SerialMayBeMissing = FALSE, TypeOK, PursuitInvariant, Monitor
    PROVE  PursuitInvariant'
<1>1. TypeOK'
  BY MonitorType
<1> USE DEF pwVars, monVars, configVars, trackerVars, loopVars, ghostVars
<1>2. ASSUME Seed PROVE PursuitInvariant'
  <2>1. \A id \in LinkIds : gLinks'[id] = gLinks[id] \/ gLinks'[id] = pw[id]
    BY <1>2 DEF Seed, SeedLinks, Seen
  <2>2. [seed |-> TRUE, links |-> gLinks', known |-> ready] \in Update
    BY <1>1 DEF Update, TypeOK
  <2>3. QED
    BY <1>1, <1>2, <2>1, <2>2, PursuitSnapshot DEF Seed
<1>3. ASSUME Block PROVE PursuitInvariant'
  <2>1. \A id \in LiveIds(pw) : pw[id].serial # NoSerial
    BY DEF PursuitInvariant, LinkIdentity
  <2>2. \A id \in LinkIds : gLinks'[id] = gLinks[id] \/ gLinks'[id] = pw[id]
    BY <1>3, <2>1 DEF Block, BlockLinks, Seen, ApplyObject, LiveIds
  <2>3. [seed |-> FALSE, links |-> gLinks', known |-> ready] \in Update
    BY <1>1 DEF Update, TypeOK
  <2>4. QED
    BY <1>1, <1>3, <2>2, <2>3, PursuitSnapshot DEF Block
<1>4. QED
  BY <1>2, <1>3 DEF Monitor

(* What reconcile leaves of a live link's entry: the entry it had, when    *)
(* that was a decision, or one with the snapshot's serial.                 *)
LEMMA ReconciledEntry ==
    ASSUME NEW led, NEW links, NEW known, NEW devs,
           NEW id \in LinkIds, links[id] # NoLink
    PROVE  \/ /\ Reconcile(led, links, known, devs)[id] = led[id]
              /\ led[id].state = "decided"
              /\ id \notin Pending(led, links, known, devs)
           \/ /\ Reconcile(led, links, known, devs)[id].serial = links[id].serial
              /\ Reconcile(led, links, known, devs)[id].state # "none"
<1> DEFINE e == led[id]
           l == links[id]
<1>1. Reconcile(led, links, known, devs)[id] = ReconcileEntry(e, l, known, devs)
  BY DEF Reconcile
<1>2. CASE PriorState(e, l) = "decided"
  <2>1. e.state = "decided"
    BY <1>2 DEF PriorState
  <2>2. ReconcileEntry(e, l, known, devs) = e
    BY <1>2 DEF ReconcileEntry
  <2>3. id \notin Pending(led, links, known, devs)
    BY <1>2 DEF Pending
  <2>4. QED
    BY <1>1, <2>1, <2>2, <2>3
<1>3. CASE PriorState(e, l) # "decided"
  <2>1. /\ ReconcileEntry(e, l, known, devs).serial = l.serial
        /\ ReconcileEntry(e, l, known, devs).state # "none"
    BY <1>3 DEF ReconcileEntry
  <2>2. QED
    BY <1>1, <2>1
<1>4. QED
  BY <1>2, <1>3

(* The keys of the groups are the links of the snapshot that are pending.  *)
LEMMA GroupKeys ==
    ASSUME NEW ids, NEW links
    PROVE  \A g \in GroupLinks(ids, links) : \A k \in g.keys :
              \E j \in ids : k = KeyOf(j, links[j])
BY DEF GroupLinks, GroupOf

(* A reconcile of the next update: the links of the keys in play are in    *)
(* it, under the same serial.                                              *)
LEMMA PursuitRecv ==
    ASSUME TypeOK, PursuitInvariant, RecvUpdate
    PROVE  PursuitInvariant'
<1> USE DEF PursuitInvariant, pwVars, monVars, configVars, trackerVars,
            loopVars, ghostVars
<1> DEFINE u == Head(queue)
           led == IF u.seed THEN EmptyLedger ELSE ledger
           ids == Pending(led, u.links, u.known, devices)
<1>1. PwKept
  BY DEF RecvUpdate, PwKept
<1>2. UNCHANGED <<pw, nextInst, gLinks, checks, cur, verdict, reported>>
  BY DEF RecvUpdate
<1>3. /\ Len(queue) \in Nat \ {0} /\ queue' = Tail(queue) /\ u = queue[1]
      /\ u \in Update
      /\ Len(queue') = Len(queue) - 1
      /\ \A n \in 1..Len(queue') : n + 1 \in 1..Len(queue) /\ queue'[n] = queue[n + 1]
  BY DEF RecvUpdate, TypeOK
<1>4. GenuineLinks(u.links)
  BY <1>3 DEF LinkIdentity
<1>5. /\ ledger' = Reconcile(led, u.links, u.known, devices)
      /\ todo' = GroupLinks(ids, u.links)
  BY DEF RecvUpdate
<1> HIDE DEF u, led, ids
<1>6. ASSUME NEW k \in KeysInPlay'
      PROVE  k \in KeysInPlay \/ \E j \in ids : k = KeyOf(j, u.links[j])
  <2>1. (\E g \in todo' : k \in g.keys) \/ k \in KeysInPlay
    BY <1>2, <1>6 DEF KeysInPlay
  <2>2. QED
    BY <1>5, <2>1, GroupKeys
<1>7. \A j \in ids : j \in LinkIds /\ u.links[j] # NoLink
  BY PendingLive DEF ids
<1>8. LinkIdentity'
  <2>1. GenuineLinks(pw)' /\ \A id \in LiveIds(pw') : pw'[id].serial # NoSerial
    BY <1>1, <1>2, GenuineKept DEF LinkIdentity, GenuineLinks
  <2>2. GenuineLinks(gLinks)'
    BY <1>1, <1>2, GenuineKept DEF LinkIdentity, GenuineLinks
  <2>3. \A n \in 1..Len(queue') : GenuineLinks(queue[n].links)'
    BY <1>1, <1>3, GenuineKept DEF LinkIdentity, GenuineLinks
  <2>4. ASSUME NEW k \in KeysInPlay' PROVE Genuine(k.id, k.serial, k.inst)
    BY <1>4, <1>6, <1>7, <2>4 DEF LinkIdentity, GenuineLinks, KeyOf, LiveIds
  <2>5. \A k \in KeysInPlay' : Genuine(k.id, k.serial, k.inst)'
    BY <1>1, <2>4, GenuineKept
  <2>6. QED
    BY <2>1, <2>2, <2>3, <2>5 DEF LinkIdentity
<1>9. SnapshotsKeepLinks'
  BY <1>2, <1>3 DEF SnapshotsKeepLinks, Shows, LiveIds
<1>10. KeysFollowed'
  <2> SUFFICES ASSUME NEW k \in KeysInPlay', pw[k.id] # NoLink, pw[k.id].inst = k.inst
               PROVE  /\ ledger'[k.id].state # "none" /\ ledger'[k.id].serial = k.serial
                      /\ \A n \in 1..Len(queue') : Shows(queue[n].links, k.id)'
                      /\ Shows(gLinks, k.id)'
    BY <1>2 DEF KeysFollowed
  <2>1. CASE k \in KeysInPlay
    <3>1. k.id \in LinkIds
      BY <2>1, KeysInPlayType DEF Key
    <3>2. /\ ledger[k.id].state # "none" /\ ledger[k.id].serial = k.serial
          /\ \A n \in 1..Len(queue) : Shows(queue[n].links, k.id)
          /\ Shows(gLinks, k.id)
      BY <2>1 DEF KeysFollowed
    <3>3. u.links[k.id] # NoLink /\ u.links[k.id].inst = k.inst
      BY <1>3, <3>2 DEF Shows
    <3>4. u.links[k.id].serial = k.serial
      <4>1. Genuine(k.id, u.links[k.id].serial, k.inst) /\ Genuine(k.id, k.serial, k.inst)
        BY <1>4, <2>1, <3>1, <3>3 DEF LinkIdentity, GenuineLinks, LiveIds
      <4>2. QED
        BY <3>1, <4>1 DEF Genuine, LiveIds
    <3>5. led[k.id].state = "decided" => led[k.id] = ledger[k.id]
      BY <3>1 DEF led, EmptyLedger, NoEntry
    <3>6. ledger'[k.id].state # "none" /\ ledger'[k.id].serial = k.serial
      BY <1>5, <3>1, <3>2, <3>3, <3>4, <3>5, ReconciledEntry
    <3>7. QED
      BY <1>2, <1>3, <3>2, <3>6 DEF Shows
  <2>2. CASE \E j \in ids : k = KeyOf(j, u.links[j])
    <3>1. PICK j \in ids : k = KeyOf(j, u.links[j])
      BY <2>2
    <3>2. /\ k.id = j /\ j \in LinkIds /\ u.links[j] # NoLink
          /\ k.serial = u.links[j].serial /\ k.inst = u.links[j].inst
      BY <1>7, <3>1 DEF KeyOf
    <3>3. ledger'[j].serial = u.links[j].serial /\ ledger'[j].state # "none"
      BY <1>5, <3>2, ReconciledEntry DEF ids
    <3>4. /\ \A n \in 1..Len(queue) : Shows(queue[n].links, j)
          /\ Shows(gLinks, j)
      <4>1. Shows(queue[1].links, j) /\ j \in LiveIds(pw)
        BY <1>3, <3>2 DEF Shows, LiveIds
      <4>2. QED
        BY <1>3, <4>1 DEF SnapshotsKeepLinks
    <3>5. QED
      BY <1>2, <1>3, <3>2, <3>3, <3>4 DEF Shows
  <2>3. QED
    BY <1>6, <2>1, <2>2
<1>11. RefusedIsPursued'
  BY <1>1, <1>2, PursuitFrame DEF RecvUpdate, Refused
<1>12. QED
  BY <1>2, <1>8, <1>9, <1>10, <1>11

(* The other steps of the loop.                                            *)
LEMMA PursuitLoop ==
    ASSUME TypeOK, PursuitInvariant, Loop
    PROVE  PursuitInvariant'
<1> USE DEF PursuitInvariant, pwVars, monVars, configVars, trackerVars,
            loopVars, ghostVars
<1>1. CASE RecvUpdate
  BY <1>1, PursuitRecv
<1>2. ASSUME NEW g \in todo, DecideGroup(g) PROVE PursuitInvariant'
  <2>1. PwKept /\ UNCHANGED <<gLinks, queue, ledger, checks, reported, nextInst>>
    BY <1>2 DEF DecideGroup, PwKept
  <2>2. KeysInPlay' \subseteq KeysInPlay
    BY <1>2 DEF DecideGroup, KeysInPlay
  <2>3. \A k \in g.keys : k.inst \in 1..(nextInst - 1)
    BY DEF LinkIdentity, KeysInPlay, Genuine
  <2>4. \A i \in Insts : i >= nextInst => verdict'[i] = "none"
    BY <1>2, <2>3 DEF DecideGroup, Judged, TypeOK, Insts
  <2>5. RefusedIsPursued'
    <3> SUFFICES ASSUME NEW id \in LiveIds(pw), verdict'[pw[id].inst] \in Refused
                 PROVE  \/ pc' \in Refused /\ \E k \in cur'.keys : k.inst = pw[id].inst
                        \/ \E c \in checks : \E k \in c.keys : k.inst = pw[id].inst
                        \/ pw[id].inst \in reported
      BY <1>2, <2>1 DEF RefusedIsPursued, DecideGroup
    <3>1. pw[id].inst \in Insts
      BY DEF LinkIdentity, GenuineLinks, Genuine, TypeOK, Insts
    <3>2. CASE \E k \in g.keys : k.inst = pw[id].inst
      <4>1. verdict'[pw[id].inst] = Decision(g)
        BY <1>2, <3>1, <3>2 DEF DecideGroup, Judged
      <4>2. QED
        BY <1>2, <3>2, <4>1 DEF DecideGroup, Refused
    <3>3. CASE ~\E k \in g.keys : k.inst = pw[id].inst
      <4>1. verdict[pw[id].inst] \in Refused
        BY <1>2, <3>1, <3>3 DEF DecideGroup, Judged
      <4>2. QED
        BY <1>2, <4>1 DEF DecideGroup, RefusedIsPursued, Refused
    <3>4. QED
      BY <3>2, <3>3
  <2>6. QED
    BY <2>1, <2>2, <2>4, <2>5, IdentityFrame
<1>3. ASSUME NEW failed \in SUBSET LinkIds, RefuseGroup(failed) PROVE PursuitInvariant'
  <2>1. cur # NoGroup
    BY <1>3 DEF RefuseGroup, TypeOK, Refused
  <2>2. PwKept /\ UNCHANGED <<gLinks, queue, ledger, verdict, reported, nextInst>>
    BY <1>3 DEF RefuseGroup, Destroy, PwKept
  <2>3. KeysInPlay' \subseteq KeysInPlay
    BY <1>3, <2>1 DEF RefuseGroup, KeysInPlay
  <2>4. RefusedIsPursued'
    <3>1. [keys |-> cur.keys, phase |-> "grace"] \in checks' /\ checks \subseteq checks'
      BY <1>3 DEF RefuseGroup
    <3>2. \E c \in checks' : c.keys = cur.keys
      BY <3>1
    <3>3. \A id \in LiveIds(pw') : id \in LiveIds(pw) /\ pw'[id] = pw[id]
      BY <2>2 DEF PwKept, LiveIds
    <3>4. QED
      BY <2>2, <3>1, <3>2, <3>3 DEF RefusedIsPursued
  <2>5. QED
    BY <2>2, <2>3, <2>4, IdentityFrame
<1>4. ASSUME AllowGroup \/ ReadCooldown \/ ClaimPrompt \/ ShowPrompt \/ Cleanup
      PROVE  PursuitInvariant'
  <2>1. /\ PwKept
        /\ UNCHANGED <<gLinks, queue, ledger, checks, verdict, reported, nextInst>>
        /\ pc \notin Refused
    BY <1>4 DEF AllowGroup, ReadCooldown, ClaimPrompt, ShowPrompt, Cleanup,
                PwKept, Refused
  <2>2. KeysInPlay' \subseteq KeysInPlay
    BY <1>4 DEF AllowGroup, ReadCooldown, ClaimPrompt, ShowPrompt, Cleanup,
                KeysInPlay
  <2>3. QED
    BY <2>1, <2>2, IdentityFrame, PursuitFrame
<1>5. QED
  BY <1>1, <1>2, <1>3, <1>4 DEF Loop

(* A denial check: a refused link that lives is among the survivors.       *)
LEMMA PursuitCheck ==
    ASSUME TypeOK, PursuitInvariant, NEW c \in checks, CheckStep(c)
    PROVE  PursuitInvariant'
<1> USE DEF PursuitInvariant, pwVars, monVars, configVars, trackerVars,
            loopVars, ghostVars
<1>1. ASSUME NEW id \in LiveIds(pw), NEW k \in c.keys, k.inst = pw[id].inst
      PROVE  k \in StillAlive(ledger, c.keys)
  <2>1. k \in KeysInPlay
    BY DEF KeysInPlay
  <2>2. k.id = id /\ pw[id] # NoLink
    BY <1>1, <2>1 DEF LinkIdentity, Genuine, LiveIds
  <2>3. QED
    BY <1>1, <2>1, <2>2 DEF KeysFollowed, StillAlive
<1>2. ASSUME CheckAlive(c) PROVE PursuitInvariant'
  <2>1. PwKept /\ UNCHANGED <<gLinks, queue, ledger, verdict, reported, nextInst, pc, cur>>
    BY <1>2 DEF CheckAlive, PwKept
  <2>2. KeysInPlay' \subseteq KeysInPlay
    BY <1>2 DEF CheckAlive, KeysInPlay, StillAlive
  <2>3. ASSUME NEW id \in LiveIds(pw), NEW d \in checks, NEW k \in d.keys,
               k.inst = pw[id].inst
        PROVE  \E e \in checks' : \E q \in e.keys : q.inst = pw[id].inst
    <3>1. CASE d = c
      <4>1. k \in StillAlive(ledger, c.keys)
        BY <1>1, <2>3, <3>1
      <4>2. [keys |-> StillAlive(ledger, c.keys), phase |-> "retry"] \in checks'
        BY <1>2, <4>1 DEF CheckAlive
      <4>3. QED
        BY <2>3, <4>1, <4>2
    <3>2. CASE d # c
      BY <1>2, <2>3, <3>2 DEF CheckAlive
    <3>3. QED
      BY <3>1, <3>2
  <2>4. RefusedIsPursued'
    BY <1>2, <2>1, <2>3 DEF RefusedIsPursued, CheckAlive
  <2>5. QED
    BY <2>1, <2>2, <2>4, IdentityFrame
<1>3. ASSUME NEW failed \in SUBSET LinkIds, CheckRetry(c, failed) PROVE PursuitInvariant'
  <2>1. PwKept /\ UNCHANGED <<gLinks, queue, ledger, verdict, reported, nextInst, pc, cur>>
    BY <1>3 DEF CheckRetry, Destroy, PwKept
  <2>2. KeysInPlay' \subseteq KeysInPlay
    BY <1>3 DEF CheckRetry, KeysInPlay
  <2>3. \A d \in checks : \E e \in checks' : e.keys = d.keys
    <3>1. /\ [keys |-> c.keys, phase |-> "lastGrace"] \in checks'
          /\ checks \ {c} \subseteq checks'
      BY <1>3 DEF CheckRetry
    <3>2. \E e \in checks' : e.keys = c.keys
      BY <3>1
    <3>3. QED
      BY <3>1, <3>2
  <2>4. RefusedIsPursued'
    BY <2>1, <2>3 DEF RefusedIsPursued, PwKept, LiveIds
  <2>5. QED
    BY <2>1, <2>2, <2>4, IdentityFrame
<1>4. ASSUME CheckReport(c) PROVE PursuitInvariant'
  <2>1. PwKept /\ UNCHANGED <<gLinks, queue, ledger, verdict, nextInst, pc, cur>>
    BY <1>4 DEF CheckReport, PwKept
  <2>2. KeysInPlay' \subseteq KeysInPlay
    BY <1>4 DEF CheckReport, KeysInPlay
  <2>3. RefusedIsPursued'
    BY <1>1, <1>4, <2>1 DEF RefusedIsPursued, CheckReport
  <2>4. QED
    BY <2>1, <2>2, <2>3, IdentityFrame
<1>5. QED
  BY <1>2, <1>3, <1>4 DEF CheckStep

(* What the environment, the user and the rescan do.                       *)
LEMMA PursuitOthers ==
    ASSUME TypeOK, PursuitInvariant, Environment \/ User \/ Rescan
    PROVE  PursuitInvariant'
<1>1. CASE \E id \in LinkIds, shape \in Shapes : LinkUp(id, shape)
  BY <1>1, PursuitLinkUp
<1>2. CASE ~\E id \in LinkIds, shape \in Shapes : LinkUp(id, shape)
  <2>1. /\ PwKept
        /\ UNCHANGED <<gLinks, queue, ledger, todo, checks, cur, pc, verdict,
                       reported, nextInst>>
    BY <1>2 DEF Environment, LinkDown, LinkChanges, NodeReady, PlugIn,
       PipeWireRestart, MonitorDies, Tick, User, AnswerPrompt, DismissPrompt,
       SetRule, RemoveRule, SetBlockAll, Rescan, PwKept, NoLinks, TypeOK, LinkMap,
       pwVars, monVars, configVars, trackerVars, loopVars, ghostVars
  <2>2. KeysInPlay' \subseteq KeysInPlay
    BY <2>1 DEF KeysInPlay
  <2>3. QED
    BY <2>1, <2>2, IdentityFrame, PursuitFrame DEF PursuitInvariant
<1>3. QED
  BY <1>1, <1>2

(* When every link PipeWire reports carries its serial, what the daemon    *)
(* remembers of a link (its ledger entry, the keys its checks hold, the    *)
(* snapshots on their way) stays true of that link alone, and nothing it   *)
(* acts on can drop out of the ledger while it lives: across id reuse,     *)
(* failing commands, restarts and re-seeds.                                *)
THEOREM PursuitIsInvariant ==
    ASSUME SerialMayBeMissing = FALSE
    PROVE  Spec => []PursuitInvariant
<1>1. Init => PursuitInvariant
  BY PursuitInit
<1>2. TypeOK /\ PursuitInvariant /\ [Next]_vars => PursuitInvariant'
  <2> SUFFICES ASSUME TypeOK, PursuitInvariant, [Next]_vars PROVE PursuitInvariant'
    OBVIOUS
  <2>1. CASE Next
    BY <2>1, PursuitMonitor, PursuitLoop, PursuitCheck, PursuitOthers DEF Next
  <2>2. CASE UNCHANGED vars
    <3>1. /\ PwKept
          /\ UNCHANGED <<gLinks, queue, ledger, todo, checks, cur, pc, verdict,
                         reported, nextInst>>
      BY <2>2 DEF vars, PwKept, pwVars, monVars, loopVars, ghostVars
    <3>2. KeysInPlay' \subseteq KeysInPlay
      BY <3>1 DEF KeysInPlay
    <3>3. QED
      BY <3>1, <3>2, IdentityFrame, PursuitFrame DEF PursuitInvariant
  <2>3. QED
    BY <2>1, <2>2
<1>3. QED
  BY <1>1, <1>2, TypeCorrect, PTL DEF Spec

(* So a refused link that still flows has its destruction ahead of it, a   *)
(* denial check on its heels, or has been reported as a link that could    *)
(* not be stopped, for any number of links and updates under way.          *)
THEOREM RefusedLinksArePursued ==
    ASSUME SerialMayBeMissing = FALSE
    PROVE  Spec => []RefusedIsPursued
<1>1. PursuitInvariant => RefusedIsPursued
  BY DEF PursuitInvariant
<1>2. QED
  BY <1>1, PursuitIsInvariant, PTL

-----------------------------------------------------------------------------
(* The loop implements the abstract guard.                                 *)

(* The links that flow, and those that are pursued, as LinkGuard sees them.*)
Flowing == {pw[id].inst : id \in LiveIds(pw)}
Pursued == {k.inst : k \in PursuedKeys}

(* They are links that were made.                                          *)
LEMMA MadeLinks ==
    ASSUME TypeOK, PursuitInvariant
    PROVE  /\ Flowing \subseteq Insts
           /\ Pursued \subseteq Insts
           /\ nextInst \in Nat /\ 1..(nextInst - 1) \subseteq Insts
<1>1. nextInst \in Nat /\ 1..(nextInst - 1) \subseteq Insts
  BY DEF TypeOK, Insts
<1>2. Flowing \subseteq 1..(nextInst - 1)
  BY DEF Flowing, PursuitInvariant, LinkIdentity, GenuineLinks, Genuine
<1>3. PursuedKeys \subseteq KeysInPlay
  BY DEF PursuedKeys, KeysInPlay, TypeOK, Refused
<1>4. Pursued \subseteq 1..(nextInst - 1)
  BY <1>3 DEF Pursued, PursuitInvariant, LinkIdentity, Genuine
<1>5. QED
  BY <1>1, <1>2, <1>4

(* A step in which links only go is the end of those links.                *)
LEMMA GuardFrame ==
    ASSUME TypeOK, PursuitInvariant, PwKept,
           PursuedKeys' = PursuedKeys, UNCHANGED <<verdict, reported>>
    PROVE  Guard!GuardNext
<1> DEFINE gone == Flowing \ Flowing'
<1>1. Flowing' \subseteq Flowing
  BY DEF Flowing, PwKept, LiveIds
<1>2. Flowing' = Flowing \ gone /\ gone \in SUBSET Insts
  BY <1>1, MadeLinks
<1> HIDE DEF gone
<1>3. Guard!End(gone)
  BY <1>2 DEF Guard!End, Flowing, PwKept
<1>4. QED
  BY <1>2, <1>3 DEF Guard!GuardNext, Guard!End

(* A new link is one nobody made before.                                   *)
LEMMA GuardLinkUp ==
    ASSUME TypeOK, PursuitInvariant,
           NEW new \in LinkIds, NEW shape \in Shapes, LinkUp(new, shape)
    PROVE  Guard!GuardNext
<1>1. /\ nextInst \in Insts /\ nextInst \in Nat /\ nextInst' = nextInst + 1
      /\ UNCHANGED <<checks, pc, cur, verdict, reported>>
  BY DEF TypeOK, LinkUp, Insts, loopVars, ghostVars
<1>2. 1..(nextInst' - 1) = 1..(nextInst - 1) \cup {nextInst} /\ nextInst \notin 1..(nextInst - 1)
  BY <1>1 DEF Insts
<1>3. Flowing' = Flowing \cup {nextInst}
  <2>1. /\ LiveIds(pw') = LiveIds(pw) \cup {new}
        /\ \A id \in LiveIds(pw) : pw'[id] = pw[id]
        /\ pw'[new].inst = nextInst
    <3>1. [serial |-> nextSerial, shape |-> shape, inst |-> nextInst] # NoLink
      BY <1>1 DEF TypeOK, Link
    <3>2. QED
      BY <3>1 DEF LinkUp, TypeOK, LinkMap, LiveIds
  <2>2. QED
    BY <2>1 DEF Flowing
<1>4. Pursued' = Pursued
  BY <1>1 DEF Pursued, PursuedKeys
<1>5. Guard!Make(nextInst)
  BY <1>1, <1>2, <1>3, <1>4 DEF Guard!Make, Flowing, Pursued
<1>6. QED
  BY <1>1, <1>5 DEF Guard!GuardNext, Guard!Make

(* A decision judges the links of its group.                               *)
LEMMA GuardDecide ==
    ASSUME TypeOK, PursuitInvariant, NEW g \in todo, DecideGroup(g)
    PROVE  Guard!GuardNext
<1> DEFINE access == {k.inst : k \in g.keys}
<1>1. /\ pc = "groups" /\ UNCHANGED <<pw, nextInst, checks, reported>>
      /\ Judged(g, Decision(g))
      /\ IF Decision(g) = "unguarded" THEN UNCHANGED <<pc, cur>>
                                      ELSE pc' = Decision(g) /\ cur' = g
  BY DEF DecideGroup, pwVars
<1>2. Decision(g) \in Verdicts \ {"none"}
  BY DecisionType DEF TypeOK, Verdicts
<1>3. access \subseteq 1..(nextInst - 1)
  BY DEF PursuitInvariant, LinkIdentity, KeysInPlay, Genuine
<1>4. verdict' = [i \in Insts |-> IF i \in access THEN Decision(g) ELSE verdict[i]]
  BY <1>1 DEF Judged
<1>5. Pursued' = IF Decision(g) \in Refused THEN Pursued \cup access ELSE Pursued
  <2>1. PursuedKeys' = IF Decision(g) \in Refused THEN PursuedKeys \cup g.keys
                                                  ELSE PursuedKeys
    BY <1>1 DEF PursuedKeys, Refused
  <2>2. QED
    BY <2>1 DEF Pursued
<1>6. access \in SUBSET Insts
  BY <1>3, MadeLinks
<1> HIDE DEF access
<1>7. Guard!Judge(access, Decision(g))
  BY <1>1, <1>3, <1>4, <1>5 DEF Guard!Judge, Pursued
<1>8. QED
  BY <1>2, <1>6, <1>7 DEF Guard!GuardNext, Guard!Judge

(* A check that ends, or drops some of its links, has seen them gone, or   *)
(* reports them.                                                           *)
LEMMA GuardGiveUp ==
    ASSUME TypeOK, PursuitInvariant, NEW c \in checks, CheckAlive(c) \/ CheckReport(c)
    PROVE  Guard!GuardNext
<1> DEFINE stuck == IF CheckReport(c) THEN {k.inst : k \in StillAlive(ledger, c.keys)} ELSE {}
<1>1. /\ UNCHANGED <<pw, nextInst, pc, cur, verdict>>
      /\ reported' = reported \cup stuck
  BY DEF CheckAlive, CheckReport, pwVars, loopVars, ghostVars
<1>2. stuck \subseteq Pursued
  BY DEF StillAlive, Pursued, PursuedKeys
<1>3. PursuedKeys' \subseteq PursuedKeys
  BY <1>1 DEF CheckAlive, CheckReport, PursuedKeys, StillAlive
<1>4. Pursued' \subseteq Pursued
  BY <1>3 DEF Pursued
<1>5. ASSUME NEW k \in PursuedKeys, k.inst \in Flowing
      PROVE  k.inst \in Pursued' \cup stuck
  <2>1. CASE k \in PursuedKeys'
    BY <2>1 DEF Pursued
  <2>2. CASE k \notin PursuedKeys'
    <3>1. k \in c.keys
      BY <1>1, <2>2 DEF PursuedKeys, CheckAlive, CheckReport
    <3>2. k \in StillAlive(ledger, c.keys)
      <4>1. k \in KeysInPlay
        BY <3>1 DEF KeysInPlay
      <4>2. pw[k.id] # NoLink /\ pw[k.id].inst = k.inst
        BY <1>5, <4>1 DEF Flowing, PursuitInvariant, LinkIdentity, Genuine, LiveIds
      <4>3. QED
        BY <3>1, <4>1, <4>2 DEF PursuitInvariant, KeysFollowed, StillAlive
    <3>3. CASE CheckReport(c)
      BY <3>2, <3>3
    <3>4. CASE CheckAlive(c)
      <4>1. [keys |-> StillAlive(ledger, c.keys), phase |-> "retry"] \in checks'
        BY <3>2, <3>4 DEF CheckAlive
      <4>2. k \in PursuedKeys'
        BY <3>2, <4>1 DEF PursuedKeys
      <4>3. QED
        BY <2>2, <4>2
    <3>5. QED
      BY <3>3, <3>4
  <2>3. QED
    BY <2>1, <2>2
<1>6. (Pursued \ Pursued') \cap Flowing \subseteq stuck
  BY <1>5 DEF Pursued
<1>7. Flowing' = Flowing
  BY <1>1 DEF Flowing
<1> HIDE DEF stuck
<1>8. Guard!GiveUp(Pursued', stuck)
  BY <1>1, <1>6, <1>7 DEF Guard!GiveUp, Pursued, Flowing
<1>9. QED
  BY <1>2, <1>4, <1>8 DEF Guard!GuardNext, Guard!GiveUp, Pursued

(* One more check adds its keys.                                           *)
LEMMA KeysUnion ==
    ASSUME NEW cs, NEW keys, NEW phase
    PROVE  UNION {c.keys : c \in cs \cup {[keys |-> keys, phase |-> phase]}}
             = (UNION {c.keys : c \in cs}) \cup keys
<1> DEFINE d == [keys |-> keys, phase |-> phase]
<1>1. d.keys = keys
  OBVIOUS
<1> HIDE DEF d
<1>2. {c.keys : c \in cs \cup {d}} = {c.keys : c \in cs} \cup {keys}
  BY <1>1
<1>3. QED
  BY <1>2 DEF d

(* Taking a check out and its keys back in changes nothing.                *)
LEMMA KeysAgain ==
    ASSUME NEW cs, NEW c \in cs
    PROVE  (UNION {d.keys : d \in cs \ {c}}) \cup c.keys = UNION {d.keys : d \in cs}
<1>1. {d.keys : d \in cs} = {d.keys : d \in cs \ {c}} \cup {c.keys}
  OBVIOUS
<1>2. QED
  BY <1>1

(* The other steps act on the same refused links as before: the keys of a  *)
(* refused group move on to its check, those of a retried check stay.      *)
LEMMA GuardOthers ==
    ASSUME TypeOK, PursuitInvariant,
           \/ \E failed \in SUBSET LinkIds : RefuseGroup(failed)
           \/ \E c \in checks, failed \in SUBSET LinkIds : CheckRetry(c, failed)
    PROVE  Guard!GuardNext
<1>1. ASSUME NEW failed \in SUBSET LinkIds, RefuseGroup(failed) PROVE Guard!GuardNext
  <2>1. PwKept /\ UNCHANGED <<verdict, reported>>
    BY <1>1 DEF RefuseGroup, Destroy, PwKept, ghostVars
  <2>2. PursuedKeys' = PursuedKeys
    <3>1. UNION {c.keys : c \in checks'} = (UNION {c.keys : c \in checks}) \cup cur.keys
      <4>1. checks' = checks \cup {[keys |-> cur.keys, phase |-> "grace"]}
        BY <1>1 DEF RefuseGroup
      <4>2. QED
        BY <4>1, KeysUnion
    <3>2. pc \in Refused /\ pc' \notin Refused
      BY <1>1 DEF RefuseGroup, Refused
    <3>3. QED
      BY <3>1, <3>2 DEF PursuedKeys
  <2>3. QED
    BY <2>1, <2>2, GuardFrame
<1>2. ASSUME NEW c \in checks, NEW failed \in SUBSET LinkIds, CheckRetry(c, failed)
      PROVE  Guard!GuardNext
  <2>1. PwKept /\ UNCHANGED <<pc, cur, verdict, reported>>
    BY <1>2 DEF CheckRetry, Destroy, PwKept, loopVars, ghostVars
  <2>2. UNION {d.keys : d \in checks'} = UNION {d.keys : d \in checks}
    <3>1. checks' = (checks \ {c}) \cup {[keys |-> c.keys, phase |-> "lastGrace"]}
      BY <1>2 DEF CheckRetry
    <3>2. UNION {d.keys : d \in checks'} = (UNION {d.keys : d \in checks \ {c}}) \cup c.keys
      BY <3>1, KeysUnion
    <3>3. QED
      BY <3>2, KeysAgain
  <2>3. QED
    BY <2>1, <2>2, GuardFrame DEF PursuedKeys
<1>3. QED
  BY <1>1, <1>2

(* Every step that makes no link, takes no decision and is not a denial    *)
(* check's leaves what LinkGuard sees alone, but for links that go.        *)
LEMMA GuardQuiet ==
    ASSUME TypeOK, PursuitInvariant,
           \/ Monitor \/ User \/ Rescan \/ RecvUpdate \/ AllowGroup
           \/ ReadCooldown \/ ClaimPrompt \/ ShowPrompt \/ Cleanup
           \/ UNCHANGED vars
           \/ Environment /\ ~\E id \in LinkIds, shape \in Shapes : LinkUp(id, shape)
    PROVE  Guard!GuardNext
<1> USE DEF pwVars, monVars, configVars, trackerVars, loopVars, ghostVars
<1>1. PwKept /\ UNCHANGED <<checks, verdict, reported>>
  BY DEF Monitor, Seed, Block, User, AnswerPrompt, DismissPrompt, SetRule,
     RemoveRule, SetBlockAll, Rescan, RecvUpdate, AllowGroup, ReadCooldown,
     ClaimPrompt, ShowPrompt, Cleanup, vars, Environment, LinkDown, LinkChanges,
     NodeReady, PlugIn, PipeWireRestart, MonitorDies, Tick, PwKept, NoLinks,
     TypeOK, LinkMap
<1>2. UNCHANGED <<pc, cur>> \/ (pc \notin Refused /\ pc' \notin Refused)
  BY DEF Monitor, Seed, Block, User, AnswerPrompt, DismissPrompt, SetRule,
     RemoveRule, SetBlockAll, Rescan, RecvUpdate, AllowGroup, ReadCooldown,
     ClaimPrompt, ShowPrompt, Cleanup, vars, Environment, LinkDown, LinkChanges,
     NodeReady, PlugIn, PipeWireRestart, MonitorDies, Tick, Refused
<1>3. QED
  BY <1>1, <1>2, GuardFrame DEF PursuedKeys

(* Layer 1 implements LinkGuard for any number of links, blocks and        *)
(* updates under way: no step of PipeWire, the monitor, the loop, its      *)
(* checks and prompts or the user drops a refused link that still flows,   *)
(* unless it is reported.                                                  *)
THEOREM LoopImplementsGuard ==
    ASSUME SerialMayBeMissing = FALSE
    PROVE  Spec => ImplementsGuard
<1>1. Init => Guard!GuardInit
  <2> SUFFICES ASSUME Init PROVE Guard!GuardInit
    OBVIOUS
  <2>1. nextInst = 1 /\ LiveIds(pw) = {} /\ PursuedKeys = {} /\ reported = {}
    BY DEF Init, LiveIds, NoLinks, PursuedKeys, Refused
  <2>2. verdict = [i \in Insts |-> "none"]
    BY DEF Init
  <2>3. QED
    BY <2>1, <2>2 DEF Guard!GuardInit
<1>2. TypeOK /\ PursuitInvariant /\ [Next]_vars => [Guard!GuardNext]_(Guard!guardVars)
  <2> SUFFICES ASSUME TypeOK, PursuitInvariant, [Next]_vars PROVE Guard!GuardNext
    OBVIOUS
  <2>1. CASE \E id \in LinkIds, shape \in Shapes : LinkUp(id, shape)
    BY <2>1, GuardLinkUp
  <2>2. CASE \E g \in todo : DecideGroup(g)
    BY <2>2, GuardDecide
  <2>3. CASE \E c \in checks : CheckStep(c)
    BY <2>3, GuardGiveUp, GuardOthers DEF CheckStep
  <2>4. CASE \E failed \in SUBSET LinkIds : RefuseGroup(failed)
    BY <2>4, GuardOthers
  <2>5. QED
    BY <2>1, <2>2, <2>3, <2>4, GuardQuiet DEF Next, Loop
<1>3. QED
  BY <1>1, <1>2, TypeCorrect, PursuitIsInvariant, PTL
     DEF Spec, ImplementsGuard, Guard!GuardSpec

-----------------------------------------------------------------------------
(* One question per application and device.                                *)

(* The pair a prompt asks about.                                           *)
Asked(p) == <<Norm[p.name], p.cat>>

(* A prompt that leaves the screen takes its claim with it, and only that. *)
LEMMA PromptLeaves ==
    ASSUME TypeOK, OneQuestionPerPair, NEW p \in prompts,
           prompts' = prompts \ {p}, claims' = claims \ {Asked(p)},
           UNCHANGED <<pc, cur>>
    PROVE  OneQuestionPerPair'
<1>1. \A q \in prompts : Asked(q) = Asked(p) => q = p
  BY DEF OneQuestionPerPair, Asked
<1>2. claims = {Asked(q) : q \in prompts} \cup (IF pc = "prompt" THEN {PairOf(cur)} ELSE {})
  BY DEF OneQuestionPerPair, Asked
<1>3. pc = "prompt" => Asked(p) # PairOf(cur)
  BY DEF OneQuestionPerPair, Asked
<1>4. claims' = {Asked(q) : q \in prompts'} \cup (IF pc = "prompt" THEN {PairOf(cur)} ELSE {})
  BY <1>1, <1>2, <1>3
<1>5. QED
  BY <1>4 DEF OneQuestionPerPair, Asked, PairOf, CatOfGroup

(* At most one prompt is on the screen for an application and device, and  *)
(* the claim on asking is held from try_begin_prompt to end_prompt, never  *)
(* longer: however prompts, answers, dismissals and new links interleave.  *)
THEOREM OneQuestion == Spec => []OneQuestionPerPair
<1> USE DEF pwVars, monVars, configVars, trackerVars, loopVars, ghostVars
<1>1. Init => OneQuestionPerPair
  BY DEF Init, OneQuestionPerPair
<1>2. TypeOK /\ OneQuestionPerPair /\ [Next]_vars => OneQuestionPerPair'
  <2> SUFFICES ASSUME TypeOK, OneQuestionPerPair, [Next]_vars PROVE OneQuestionPerPair'
    OBVIOUS
  <2>1. CASE ClaimPrompt
    <3>1. CASE PairOf(cur) \in claims
      BY <2>1, <3>1 DEF ClaimPrompt, OneQuestionPerPair
    <3>2. CASE PairOf(cur) \notin claims
      <4>1. /\ pc' = "prompt" /\ UNCHANGED <<cur, prompts>>
            /\ claims' = claims \cup {PairOf(cur)} /\ pc # "prompt"
        BY <2>1, <3>2 DEF ClaimPrompt
      <4>2. PairOf(cur)' = PairOf(cur)
        BY <4>1 DEF PairOf, CatOfGroup
      <4>3. QED
        BY <3>2, <4>1, <4>2 DEF OneQuestionPerPair
    <3>3. QED
      BY <3>1, <3>2
  <2>2. CASE ShowPrompt
    <3> DEFINE new == [name |-> cur.name, cat |-> CatOfGroup(cur)]
    <3>1. /\ prompts' = prompts \cup {new} /\ claims' = claims
          /\ pc = "prompt" /\ pc' = "groups"
      BY <2>2 DEF ShowPrompt
    <3>2. Asked(new) = PairOf(cur)
      BY DEF Asked, PairOf, CatOfGroup
    <3> HIDE DEF new
    <3>3. claims' = {Asked(p) : p \in prompts'}
      BY <3>1, <3>2 DEF OneQuestionPerPair, Asked
    <3>4. \A p \in prompts : Asked(p) # Asked(new)
      BY <3>1, <3>2 DEF OneQuestionPerPair, Asked
    <3>5. \A p, q \in prompts' : Asked(p) = Asked(q) => p = q
      BY <3>1, <3>4 DEF OneQuestionPerPair, Asked
    <3>6. QED
      BY <3>1, <3>3, <3>5 DEF OneQuestionPerPair, Asked
  <2>3. ASSUME NEW p \in prompts, NEW perm, AnswerPrompt(p, perm)
        PROVE  OneQuestionPerPair'
    BY <2>3, PromptLeaves DEF AnswerPrompt, Asked
  <2>4. ASSUME NEW p \in prompts, DismissPrompt(p) PROVE OneQuestionPerPair'
    BY <2>4, PromptLeaves DEF DismissPrompt, Asked
  <2>5. ASSUME UNCHANGED <<prompts, claims>>, pc # "prompt", pc' # "prompt"
        PROVE  OneQuestionPerPair'
    BY <2>5 DEF OneQuestionPerPair
  <2>6. ASSUME UNCHANGED <<prompts, claims, pc, cur>> PROVE OneQuestionPerPair'
    BY <2>6 DEF OneQuestionPerPair, PairOf, CatOfGroup
  <2>7. CASE RecvUpdate \/ AllowGroup \/ ReadCooldown \/ Cleanup
             \/ \E failed \in SUBSET LinkIds : RefuseGroup(failed)
    BY <2>5, <2>7 DEF RecvUpdate, AllowGroup, ReadCooldown, Cleanup, RefuseGroup, Refused
  <2>8. ASSUME NEW g \in todo, DecideGroup(g) PROVE OneQuestionPerPair'
    <3>1. Decision(g) # "prompt"
      BY DecisionType DEF TypeOK
    <3>2. QED
      BY <2>5, <2>8, <3>1 DEF DecideGroup
  <2>9. CASE Environment \/ Monitor \/ Rescan
    BY <2>6, <2>9 DEF Environment, Monitor, LinkUp, LinkDown, LinkChanges,
       NodeReady, PlugIn, PipeWireRestart, MonitorDies, Tick, Seed, Block, Rescan
  <2>10. CASE \E c \in checks : CheckStep(c)
    BY <2>6, <2>10 DEF CheckStep, CheckAlive, CheckRetry, CheckReport
  <2>11. CASE User
    BY <2>3, <2>4, <2>6, <2>11 DEF User, SetRule, RemoveRule, SetBlockAll
  <2>12. CASE UNCHANGED vars
    BY <2>6, <2>12 DEF vars
  <2>13. QED
    BY <2>1, <2>2, <2>3, <2>4, <2>7, <2>8, <2>9, <2>10, <2>11, <2>12 DEF Next, Loop
<1>3. QED
  BY <1>1, <1>2, TypeCorrect, PTL DEF Spec
=============================================================================
