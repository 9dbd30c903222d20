--------------------------- MODULE MonitoringLoop ---------------------------
(***************************************************************************)
(* Layer 1 of hwprivacy, the user daemon against PipeWire.                 *)
(*                                                                         *)
(* PipeWire (external) makes and drops links and restarts.  run_monitor    *)
(* follows it through pw-dump --monitor and queues one GraphUpdate per     *)
(* block.  monitoring_loop takes the updates one by one: it reconciles the *)
(* ledger, decides every group of undecided links, destroys the refused    *)
(* ones, and ends with the cleanup that prunes connections and ends        *)
(* while_in_use sessions.  Denial checks and prompts are tasks of their    *)
(* own, and the user's commands arrive over D-Bus, between any two steps   *)
(* of the loop: an action of this module is what one task does under one   *)
(* acquisition of the state lock, or one batch of external commands        *)
(* (destroy_links).                                                        *)
(***************************************************************************)
EXTENDS StreamTracker, Sequences

CONSTANTS
    UserRules,       \* <<name, category, permission>> the user sets over D-Bus
    UserOps,         \* other D-Bus commands the user gives: "remove", "block"
    SerialMayBeMissing, \* BOOLEAN: a block may carry a link without a serial
    LoopIsFast,      \* BOOLEAN: no time passes before the loop has caught up
    NoGroup,         \* no group is being decided
    \* Bounds of the environment:
    MaxInst,         \* links PipeWire ever creates
    MaxQueue,        \* updates waiting for the loop
    MaxOutages,      \* times the monitor's child process ends
    MaxRescans,      \* device rescans (the code stops after two minutes)
    MaxTime          \* the clock

VARIABLES
    \* PipeWire
    pw,              \* its links
    ready,           \* streams whose node info is complete
    plugged,         \* hardware nodes present
    nextSerial,      \* object.serial of the next link; restarts with PipeWire
    nextInst,        \* number of the next link
    outages,         \* how often the monitor's child process has ended
    \* run_monitor
    monitorUp,       \* the child has delivered its seed block and runs
    dirty,           \* ids whose change has not been emitted as a block yet
    gLinks,          \* GraphState::links
    gKnown,          \* GraphState::nodes, the streams among them
    queue,           \* the unbounded channel of GraphUpdates
    \* DaemonState
    devices,         \* protected devices
    rescans,         \* rescans done
    rules,           \* effective permission per application and category
    blockAll,        \* emergency block-all
    ledger,          \* LinkLedger::entries
    active,          \* StreamTracker::active
    sessions,        \* StreamTracker::while_in_use
    dismissed,       \* StreamTracker::dismiss_cooldowns
    claims,          \* StreamTracker::pending_prompts
    \* tasks
    pc,              \* where monitoring_loop is
    todo,            \* groups of this update not decided yet
    cur,             \* the group being decided
    updLinks,        \* GraphUpdate::link_ids of this update
    checks,          \* running denial checks
    prompts,         \* prompts on the screen
    now,             \* the clock
    \* what the properties look back at
    seenDevs,        \* devices as the last reconcile saw them
    verdict,         \* last decision taken for each link
    reported         \* links reported as impossible to stop

pwVars == <<pw, ready, plugged, nextSerial, nextInst, outages>>
monVars == <<monitorUp, dirty, gLinks, gKnown, queue>>
trackerVars == <<active, sessions, dismissed, claims>>
configVars == <<devices, rescans, rules, blockAll>>
loopVars == <<pc, todo, cur, updLinks>>
ghostVars == <<seenDevs, verdict, reported>>
vars == <<pwVars, monVars, configVars, ledger, trackerVars, loopVars,
          checks, prompts, now, ghostVars>>

Insts == 1..MaxInst
Times == 1..MaxTime
Pairs == Apps \X Cats

Verdicts == {"none", "unguarded", "allow", "deny", "ask"}
Refused == {"deny", "ask"}

Update == [seed: BOOLEAN, links: LinkMap, known: SUBSET Streams]

Check == [keys: SUBSET Key, phase: {"grace", "retry", "lastGrace"}]

Prompt == [name: Names, cat: Cats]

ASSUME BoundsAssumption ==
    /\ UserRules \subseteq Names \X Cats \X Permissions
    /\ UserOps \subseteq {"remove", "block"}
    /\ SerialMayBeMissing \in BOOLEAN /\ LoopIsFast \in BOOLEAN
    /\ NoGroup \notin Group
    /\ MaxInst \in Nat /\ MaxQueue \in Nat /\ MaxOutages \in Nat
    /\ MaxRescans \in Nat /\ MaxTime \in Nat \ {0}

(* The pair a group asks for.                                              *)
CatOfGroup(g) == CatOf[g.node]
PairOf(g) == <<Norm[g.name], CatOfGroup(g)>>

LiveIds(links) == {id \in LinkIds : links[id] # NoLink}

NoLinks == [id \in LinkIds |-> NoLink]

Init ==
    /\ pw = NoLinks
    /\ ready = {}
    /\ plugged \in SUBSET Hardware
    /\ nextSerial = 1 /\ nextInst = 1 /\ outages = 0
    /\ monitorUp = FALSE /\ dirty = {} /\ gLinks = NoLinks /\ gKnown = {}
    /\ queue = <<>>
    /\ devices = plugged /\ rescans = 0
    /\ rules = [p \in Pairs |-> DefaultAction]
    /\ blockAll = FALSE
    /\ ledger = EmptyLedger
    /\ active = [id \in LinkIds |-> NoConn]
    /\ sessions = [p \in Pairs |-> NoSession]
    /\ dismissed = [p \in Names \X Cats |-> NeverDismissed]
    /\ claims = {}
    /\ pc = "idle" /\ todo = {} /\ cur = NoGroup /\ updLinks = {}
    /\ checks = {} /\ prompts = {}
    /\ now = 1
    /\ seenDevs = devices
    /\ verdict = [i \in Insts |-> "none"]
    /\ reported = {}

-----------------------------------------------------------------------------
(* PipeWire and its clients.                                               *)

(* An application's stream is linked to a device node.                     *)
LinkUp(id, shape) ==
    /\ nextInst <= MaxInst
    /\ pw[id] = NoLink
    /\ CatOf[shape.node] # "none" => shape.node \in plugged
    /\ pw' = [pw EXCEPT ![id] = [serial |-> nextSerial, shape |-> shape,
                                 inst |-> nextInst]]
    /\ nextSerial' = nextSerial + 1
    /\ nextInst' = nextInst + 1
    /\ dirty' = dirty \cup {id}
    /\ UNCHANGED <<ready, plugged, outages, monitorUp, gLinks, gKnown, queue,
                   configVars, ledger, trackerVars, loopVars, checks, prompts,
                   now, ghostVars>>

(* The application drops a link.                                           *)
LinkDown(id) ==
    /\ pw[id] # NoLink
    /\ pw' = [pw EXCEPT ![id] = NoLink]
    /\ dirty' = dirty \cup {id}
    /\ UNCHANGED <<ready, plugged, nextSerial, nextInst, outages, monitorUp,
                   gLinks, gKnown, queue, configVars, ledger, trackerVars,
                   loopVars, checks, prompts, now, ghostVars>>

(* A link changes state (negotiating, then active): it will be reported    *)
(* again although it is the same access.                                   *)
LinkChanges(id) ==
    /\ pw[id] # NoLink
    /\ id \notin dirty
    /\ dirty' = dirty \cup {id}
    /\ UNCHANGED <<pwVars, monitorUp, gLinks, gKnown, queue, configVars, ledger,
                   trackerVars, loopVars, checks, prompts, now, ghostVars>>

(* The properties of a stream node are complete, so parse_node accepts it. *)
NodeReady(s) ==
    /\ s \notin ready
    /\ ready' = ready \cup {s}
    /\ UNCHANGED <<pw, plugged, nextSerial, nextInst, outages, monVars,
                   configVars, ledger, trackerVars, loopVars, checks, prompts,
                   now, ghostVars>>

PlugIn(n) ==
    /\ n \notin plugged
    /\ plugged' = plugged \cup {n}
    /\ UNCHANGED <<pw, ready, nextSerial, nextInst, outages, monVars,
                   configVars, ledger, trackerVars, loopVars, checks, prompts,
                   now, ghostVars>>

(* pw-link --disconnect, or pw-cli destroy, on each id: whatever link has  *)
(* the id now is gone, unless the command fails for it.                    *)
Destroy(ids, failed) ==
    LET gone == (ids \ failed) \cap LiveIds(pw)
    IN  /\ pw' = [id \in LinkIds |-> IF id \in gone THEN NoLink ELSE pw[id]]
        /\ dirty' = dirty \cup gone

(* PipeWire restarts: every object is gone, ids and serials start over,    *)
(* and pw-dump exits with status 0.                                        *)
PipeWireRestart ==
    /\ monitorUp
    /\ outages < MaxOutages
    /\ pw' = NoLinks
    /\ ready' = {} /\ plugged' = {}
    /\ nextSerial' = 1
    /\ outages' = outages + 1
    /\ monitorUp' = FALSE
    /\ dirty' = {}
    /\ UNCHANGED <<nextInst, gLinks, gKnown, queue, configVars, ledger,
                   trackerVars, loopVars, checks, prompts, now, ghostVars>>

(* The child ends or cannot be read although PipeWire runs on.             *)
MonitorDies ==
    /\ monitorUp
    /\ outages < MaxOutages
    /\ outages' = outages + 1
    /\ monitorUp' = FALSE
    /\ UNCHANGED <<pw, ready, plugged, nextSerial, nextInst, dirty, gLinks,
                   gKnown, queue, configVars, ledger, trackerVars, loopVars,
                   checks, prompts, now, ghostVars>>

-----------------------------------------------------------------------------
(* run_monitor.                                                            *)

(* What a block says of a link: its object, with or without its serial.    *)
Seen(l, bare) == IF bare THEN [l EXCEPT !.serial = NoSerial] ELSE l

(* GraphState::apply_block for one id: a removal clears the slot, and a    *)
(* link object without a serial keeps the one already known for the id.    *)
ApplyObject(old, l) ==
    IF l # NoLink /\ old # NoLink /\ l.serial = NoSerial
    THEN [l EXCEPT !.serial = old.serial]
    ELSE l

(* GraphState::links after a seed block, and after a later one: bare are   *)
(* the links it carries without a serial.                                  *)
SeedLinks(bare) ==
    [id \in LinkIds |->
        IF pw[id] = NoLink THEN NoLink ELSE Seen(pw[id], id \in bare)]

(* Mutation of BlockLinks: a block is taken for the whole graph.           *)
BlockLinksChangedOnly(bare) ==
    [id \in LinkIds |->
        IF id \notin dirty \/ pw[id] = NoLink THEN NoLink
        ELSE ApplyObject(gLinks[id], Seen(pw[id], id \in bare))]

(* The objects that did not change stay as they were.                      *)
BlockLinks(bare) ==
    [id \in LinkIds |->
        IF id \notin dirty THEN gLinks[id]
        ELSE IF pw[id] = NoLink THEN NoLink
        ELSE ApplyObject(gLinks[id], Seen(pw[id], id \in bare))]

(* The child was spawned and delivers block 0, the complete graph, which   *)
(* is applied to a fresh GraphState.                                       *)
Seed ==
    /\ ~monitorUp
    /\ Len(queue) < MaxQueue
    /\ \E bare \in SUBSET (IF SerialMayBeMissing THEN LinkIds ELSE {}) :
          gLinks' = SeedLinks(bare)
    /\ gKnown' = ready
    /\ queue' = Append(queue, [seed |-> TRUE, links |-> gLinks', known |-> ready])
    /\ monitorUp' = TRUE
    /\ dirty' = {}
    /\ UNCHANGED <<pwVars, configVars, ledger, trackerVars, loopVars,
                   checks, prompts, now, ghostVars>>

(* A later block carries the objects that changed.  An id that was freed   *)
(* and taken again since the last block shows up as a changed link, its    *)
(* removal never reported.                                                 *)
Block ==
    /\ monitorUp
    /\ dirty # {} \/ ready # gKnown
    /\ Len(queue) < MaxQueue
    /\ \E bare \in SUBSET (IF SerialMayBeMissing THEN dirty ELSE {}) :
          gLinks' = BlockLinks(bare)
    /\ gKnown' = ready
    /\ queue' = Append(queue, [seed |-> FALSE, links |-> gLinks', known |-> ready])
    /\ dirty' = {}
    /\ UNCHANGED <<pwVars, monitorUp, configVars, ledger, trackerVars,
                   loopVars, checks, prompts, now, ghostVars>>

-----------------------------------------------------------------------------
(* monitoring_loop.                                                        *)

(* Mutation of RecvUpdate: the ledger survives a re-seed.                  *)
RecvUpdateKeepsLedger ==
    /\ pc = "idle"
    /\ queue # <<>>
    /\ LET u   == Head(queue)
           ids == Pending(ledger, u.links, u.known, devices)
       IN  /\ ledger' = Reconcile(ledger, u.links, u.known, devices)
           /\ todo' = GroupLinks(ids, u.links)
           /\ updLinks' = LiveIds(u.links)
    /\ queue' = Tail(queue)
    /\ pc' = "groups"
    /\ seenDevs' = devices
    /\ UNCHANGED <<pwVars, monitorUp, dirty, gLinks, gKnown, configVars,
                   trackerVars, cur, checks, prompts, now, verdict, reported>>

(* One update is received and reconciled under the write lock.             *)
RecvUpdate ==
    /\ pc = "idle"
    /\ queue # <<>>
    /\ LET u   == Head(queue)
           led == IF u.seed THEN EmptyLedger ELSE ledger
           ids == Pending(led, u.links, u.known, devices)
       IN  /\ ledger' = Reconcile(led, u.links, u.known, devices)
           /\ todo' = GroupLinks(ids, u.links)
           /\ updLinks' = LiveIds(u.links)
    /\ queue' = Tail(queue)
    /\ pc' = "groups"
    /\ seenDevs' = devices
    /\ UNCHANGED <<pwVars, monitorUp, dirty, gLinks, gKnown, configVars,
                   trackerVars, cur, checks, prompts, now, verdict, reported>>

Judged(g, v) ==
    verdict' = [i \in Insts |->
                  IF \E k \in g.keys : k.inst = i THEN v ELSE verdict[i]]

(* What the loop makes of a group under the read lock.                     *)
Decision(g) ==
    LET p == PairOf(g)
    IN  IF p[2] \notin Guarded THEN "unguarded"
        ELSE IF blockAll THEN "deny"
        ELSE Evaluate(rules[p], SessionLive(sessions[p], active, p[1], p[2], now))

(* The read lock is dropped after the decision: everything it leads to     *)
(* happens later.                                                          *)
DecideGroup(g) ==
    /\ pc = "groups"
    /\ g \in todo
    /\ todo' = todo \ {g}
    /\ Judged(g, Decision(g))
    /\ IF Decision(g) = "unguarded"
       THEN UNCHANGED <<pc, cur>>
       ELSE pc' = Decision(g) /\ cur' = g
    /\ UNCHANGED <<pwVars, monVars, configVars, ledger, trackerVars, updLinks,
                   checks, prompts, now, seenDevs, reported>>

(* Mutation of AllowGroup: only one link of the group is tracked.          *)
AllowGroupTracksOne ==
    /\ pc = "allow"
    /\ LET p == PairOf(cur)
           k == CHOOSE x \in cur.keys : TRUE
       IN  active' = [active EXCEPT ![k.id] =
                        [app |-> p[1], cat |-> p[2], perm |-> rules[p], inst |-> k.inst]]
    /\ pc' = "groups" /\ cur' = NoGroup
    /\ UNCHANGED <<pwVars, monVars, configVars, ledger, sessions, dismissed,
                   claims, todo, updLinks, checks, prompts, now, ghostVars>>

(* PolicyDecision::Allow, under the write lock.  The permission is read    *)
(* again.                                                                  *)
AllowGroup ==
    /\ pc = "allow"
    /\ LET p    == PairOf(cur)
           perm == rules[p]
           Tracked(k) == [app |-> p[1], cat |-> p[2], perm |-> perm, inst |-> k.inst]
       IN  /\ active' = [id \in LinkIds |->
                            IF \E k \in cur.keys : k.id = id
                            THEN Tracked(CHOOSE k \in cur.keys : k.id = id)
                            ELSE active[id]]
           /\ sessions' = IF perm = "while_in_use"
                          THEN [sessions EXCEPT ![p] = TouchSession(@, now)]
                          ELSE sessions
    /\ pc' = "groups" /\ cur' = NoGroup
    /\ UNCHANGED <<pwVars, monVars, configVars, ledger, dismissed, claims,
                   todo, updLinks, checks, prompts, now, ghostVars>>

(* Mutation of RefuseGroup: only one link of the group is torn down.       *)
RefuseGroupStopsOne(failed) ==
    LET k == CHOOSE x \in cur.keys : TRUE
    IN  /\ pc \in Refused
        /\ failed \subseteq {k.id}
        /\ Destroy({k.id}, failed)
        /\ checks' = checks \cup {[keys |-> {k}, phase |-> "grace"]}
        /\ IF pc = "deny" THEN pc' = "groups" /\ cur' = NoGroup
                          ELSE pc' = "cooldown" /\ UNCHANGED cur
        /\ UNCHANGED <<ready, plugged, nextSerial, nextInst, outages, monitorUp,
                       gLinks, gKnown, queue, configVars, ledger, trackerVars,
                       todo, updLinks, prompts, now, ghostVars>>

(* Mutation of RefuseGroup: the loop goes on with the refused group.       *)
RefuseGroupKeepsGroup(failed) ==
    /\ pc \in Refused
    /\ failed \subseteq {k.id : k \in cur.keys}
    /\ Destroy({k.id : k \in cur.keys}, failed)
    /\ checks' = checks \cup {[keys |-> cur.keys, phase |-> "grace"]}
    /\ pc' = IF pc = "deny" THEN "groups" ELSE "cooldown"
    /\ UNCHANGED <<ready, plugged, nextSerial, nextInst, outages, monitorUp,
                   gLinks, gKnown, queue, configVars, ledger, trackerVars,
                   todo, cur, updLinks, prompts, now, ghostVars>>

(* destroy_links, then spawn_denial_check.  A refusal by rule or block-all *)
(* ends there; a question goes on.                                         *)
RefuseGroup(failed) ==
    /\ pc \in Refused
    /\ failed \subseteq {k.id : k \in cur.keys}
    /\ Destroy({k.id : k \in cur.keys}, failed)
    /\ checks' = checks \cup {[keys |-> cur.keys, phase |-> "grace"]}
    /\ IF pc = "deny" THEN pc' = "groups" /\ cur' = NoGroup
                      ELSE pc' = "cooldown" /\ UNCHANGED cur
    /\ UNCHANGED <<ready, plugged, nextSerial, nextInst, outages, monitorUp,
                   gLinks, gKnown, queue, configVars, ledger, trackerVars,
                   todo, updLinks, prompts, now, ghostVars>>

(* The cooldown is read under one lock ...                                 *)
ReadCooldown ==
    /\ pc = "cooldown"
    /\ IF InCooldown(dismissed[<<cur.name, CatOfGroup(cur)>>], now)
       THEN pc' = "groups" /\ cur' = NoGroup
       ELSE pc' = "claim" /\ UNCHANGED cur
    /\ UNCHANGED <<pwVars, monVars, configVars, ledger, trackerVars, todo,
                   updLinks, checks, prompts, now, ghostVars>>

(* ... and the right to ask is claimed under another (try_begin_prompt).   *)
ClaimPrompt ==
    /\ pc = "claim"
    /\ IF PairOf(cur) \in claims
       THEN pc' = "groups" /\ cur' = NoGroup /\ UNCHANGED claims
       ELSE pc' = "prompt" /\ claims' = claims \cup {PairOf(cur)} /\ UNCHANGED cur
    /\ UNCHANGED <<pwVars, monVars, configVars, ledger, active, sessions,
                   dismissed, todo, updLinks, checks, prompts, now, ghostVars>>

(* The BLOCKED notice has been shown; the prompt task is spawned.          *)
ShowPrompt ==
    /\ pc = "prompt"
    /\ prompts' = prompts \cup {[name |-> cur.name, cat |-> CatOfGroup(cur)]}
    /\ pc' = "groups" /\ cur' = NoGroup
    /\ UNCHANGED <<pwVars, monVars, configVars, ledger, trackerVars, todo,
                   updLinks, checks, now, ghostVars>>

(* Mutation of Cleanup: an update without links is taken for an error and  *)
(* prunes nothing.                                                         *)
CleanupUnlessEmpty ==
    /\ pc = "groups"
    /\ todo = {}
    /\ active' = IF updLinks = {} THEN active
                 ELSE [id \in LinkIds |->
                          IF id \in updLinks THEN active[id] ELSE NoConn]
    /\ sessions' = ExpireSessions(sessions, active', now)
    /\ pc' = "idle"
    /\ UNCHANGED <<pwVars, monVars, configVars, ledger, dismissed, claims,
                   todo, cur, updLinks, checks, prompts, now, ghostVars>>

(* Mutation of Prune: the connections of live links are dropped as well.   *)
PruneAll(conns, ids) == [id \in LinkIds |-> NoConn]

(* Connections of the ids the update no longer lists, as prune leaves them.*)
Prune(conns, ids) == [id \in LinkIds |-> IF id \in ids THEN conns[id] ELSE NoConn]

(* End of the update: connections are pruned, then sessions expire.        *)
Cleanup ==
    /\ pc = "groups"
    /\ todo = {}
    /\ active' = Prune(active, updLinks)
    /\ sessions' = ExpireSessions(sessions, active', now)
    /\ pc' = "idle"
    /\ UNCHANGED <<pwVars, monVars, configVars, ledger, dismissed, claims,
                   todo, cur, updLinks, checks, prompts, now, ghostVars>>

-----------------------------------------------------------------------------
(* verify_denial, one task per refused group.                              *)

(* After the grace period: which of the links are still in the ledger?     *)
CheckAlive(c) ==
    /\ c \in checks
    /\ c.phase = "grace"
    /\ LET survivors == StillAlive(ledger, c.keys)
       IN  checks' = (checks \ {c}) \cup
                     (IF survivors = {} THEN {}
                      ELSE {[keys |-> survivors, phase |-> "retry"]})
    /\ UNCHANGED <<pwVars, monVars, configVars, ledger, trackerVars, loopVars,
                   prompts, now, ghostVars>>

(* They are destroyed once more, by id.                                    *)
CheckRetry(c, failed) ==
    /\ c \in checks
    /\ c.phase = "retry"
    /\ failed \subseteq {k.id : k \in c.keys}
    /\ Destroy({k.id : k \in c.keys}, failed)
    /\ checks' = (checks \ {c}) \cup {[keys |-> c.keys, phase |-> "lastGrace"]}
    /\ UNCHANGED <<ready, plugged, nextSerial, nextInst, outages, monitorUp,
                   gLinks, gKnown, queue, configVars, ledger, trackerVars,
                   loopVars, prompts, now, ghostVars>>

(* Mutation of CheckReport: survivors of the retry are not reported.       *)
CheckReportSilent(c) ==
    /\ c \in checks
    /\ c.phase = "lastGrace"
    /\ checks' = checks \ {c}
    /\ UNCHANGED <<pwVars, monVars, configVars, ledger, trackerVars, loopVars,
                   prompts, now, ghostVars>>

(* After a second grace period the survivors are an error, a counter and a *)
(* notification.                                                           *)
CheckReport(c) ==
    /\ c \in checks
    /\ c.phase = "lastGrace"
    /\ checks' = checks \ {c}
    /\ reported' = reported \cup {k.inst : k \in StillAlive(ledger, c.keys)}
    /\ UNCHANGED <<pwVars, monVars, configVars, ledger, trackerVars, loopVars,
                   prompts, now, seenDevs, verdict>>

-----------------------------------------------------------------------------
(* The user, the clock and the device rescan.                              *)

(* Mutation of AnswerPrompt: the claim on asking is kept.                  *)
AnswerPromptKeepsClaim(p, perm) ==
    /\ p \in prompts
    /\ perm \in PromptChoices(p.cat)
    /\ sessions' = IF perm = "while_in_use"
                   THEN [sessions EXCEPT ![<<Norm[p.name], p.cat>>] = BeginSession(now)]
                   ELSE sessions
    /\ rules' = SetRuleIn(rules, p.name, p.cat, perm)
    /\ prompts' = prompts \ {p}
    /\ UNCHANGED <<pwVars, monVars, devices, rescans, blockAll, ledger, active,
                   dismissed, claims, loopVars, checks, now, ghostVars>>

(* A button of the prompt was pressed: SavePermanentRule.                  *)
AnswerPrompt(p, perm) ==
    /\ p \in prompts
    /\ perm \in PromptChoices(p.cat)
    /\ sessions' = IF perm = "while_in_use"
                   THEN [sessions EXCEPT ![<<Norm[p.name], p.cat>>] = BeginSession(now)]
                   ELSE sessions
    /\ rules' = SetRuleIn(rules, p.name, p.cat, perm)
    /\ claims' = claims \ {<<Norm[p.name], p.cat>>}
    /\ prompts' = prompts \ {p}
    /\ UNCHANGED <<pwVars, monVars, devices, rescans, blockAll, ledger, active,
                   dismissed, loopVars, checks, now, ghostVars>>

(* Mutation of DismissPrompt: the claim on asking is kept.                 *)
DismissPromptKeepsClaim(p) ==
    /\ p \in prompts
    /\ dismissed' = [dismissed EXCEPT ![<<p.name, p.cat>>] = now]
    /\ prompts' = prompts \ {p}
    /\ UNCHANGED <<pwVars, monVars, configVars, ledger, active, sessions,
                   claims, loopVars, checks, now, ghostVars>>

(* The prompt was closed or could not be shown: SaveNothingAndCooldown.    *)
DismissPrompt(p) ==
    /\ p \in prompts
    /\ dismissed' = [dismissed EXCEPT ![<<p.name, p.cat>>] = now]
    /\ claims' = claims \ {<<Norm[p.name], p.cat>>}
    /\ prompts' = prompts \ {p}
    /\ UNCHANGED <<pwVars, monVars, configVars, ledger, active, sessions,
                   loopVars, checks, now, ghostVars>>

(* D-Bus SetRule.                                                          *)
SetRule(name, cat, perm) ==
    /\ RuleAccepted(name, cat, perm)
    /\ rules' = SetRuleIn(rules, name, cat, perm)
    /\ UNCHANGED <<pwVars, monVars, devices, rescans, blockAll, ledger,
                   trackerVars, loopVars, checks, prompts, now, ghostVars>>

(* D-Bus RemoveRule.                                                       *)
RemoveRule(app) ==
    /\ "remove" \in UserOps
    /\ rules' = RemoveRuleIn(rules, app)
    /\ UNCHANGED <<pwVars, monVars, devices, rescans, blockAll, ledger,
                   trackerVars, loopVars, checks, prompts, now, ghostVars>>

(* D-Bus BlockAll and UnblockAll.                                          *)
SetBlockAll(on) ==
    /\ "block" \in UserOps
    /\ blockAll # on
    /\ blockAll' = on
    /\ UNCHANGED <<pwVars, monVars, devices, rescans, rules, ledger,
                   trackerVars, loopVars, checks, prompts, now, ghostVars>>

(* One round of the rescan task: the device list becomes what discovery    *)
(* found.  No other task writes it, and no update follows from it.         *)
Rescan ==
    /\ rescans < MaxRescans
    /\ rescans' = rescans + 1
    /\ devices' = plugged
    /\ UNCHANGED <<pwVars, monVars, rules, blockAll, ledger, trackerVars,
                   loopVars, checks, prompts, now, ghostVars>>

(* Every run allows the clock to advance anywhere, except those that show  *)
(* an overrun which a slow loop does not explain.                          *)
Tick ==
    /\ now < MaxTime
    /\ LoopIsFast => pc = "idle" /\ queue = <<>> /\ dirty = {}
    /\ now' = now + 1
    /\ UNCHANGED <<pwVars, monVars, configVars, ledger, trackerVars, loopVars,
                   checks, prompts, ghostVars>>

-----------------------------------------------------------------------------
Loop ==
    \/ RecvUpdate
    \/ \E g \in todo : DecideGroup(g)
    \/ AllowGroup
    \/ \E failed \in SUBSET LinkIds : RefuseGroup(failed)
    \/ ReadCooldown
    \/ ClaimPrompt
    \/ ShowPrompt
    \/ Cleanup

CheckStep(c) ==
    \/ CheckAlive(c)
    \/ \E failed \in SUBSET LinkIds : CheckRetry(c, failed)
    \/ CheckReport(c)

Environment ==
    \/ \E id \in LinkIds, shape \in Shapes : LinkUp(id, shape)
    \/ \E id \in LinkIds : LinkDown(id) \/ LinkChanges(id)
    \/ \E s \in Streams : NodeReady(s)
    \/ \E n \in Hardware : PlugIn(n)
    \/ PipeWireRestart
    \/ MonitorDies
    \/ Tick

User ==
    \/ \E p \in prompts : \/ \E perm \in PromptChoices(p.cat) : AnswerPrompt(p, perm)
                          \/ DismissPrompt(p)
    \/ \E r \in UserRules : SetRule(r[1], r[2], r[3])
    \/ \E a \in Apps : RemoveRule(a)
    \/ \E on \in BOOLEAN : SetBlockAll(on)

Monitor == Seed \/ Block

Next ==
    \/ Environment
    \/ Monitor
    \/ Loop
    \/ \E c \in checks : CheckStep(c)
    \/ User
    \/ Rescan

Spec == Init /\ [][Next]_vars

(* The runtime schedules every ready task, pw-dump reports every change,   *)
(* and a dead child is respawned after the backoff.  Nothing is assumed of *)
(* applications, the user, the clock or the rescan.                        *)
FairSpec ==
    /\ Spec
    /\ WF_vars(Monitor)
    /\ WF_vars(Loop)
    /\ WF_vars(\E c \in checks : CheckStep(c))

-----------------------------------------------------------------------------
(* Every variable has its type.                                            *)
TypeOK ==
    /\ pw \in LinkMap /\ gLinks \in LinkMap
    /\ ready \subseteq Streams /\ gKnown \subseteq Streams
    /\ plugged \subseteq Hardware
    /\ nextSerial \in Nat \ {0} /\ nextInst \in 1..(MaxInst + 1)
    /\ outages \in 0..MaxOutages
    /\ monitorUp \in BOOLEAN
    /\ dirty \subseteq LinkIds
    /\ queue \in Seq(Update) /\ Len(queue) <= MaxQueue
    /\ devices \subseteq Hardware /\ seenDevs \subseteq Hardware
    /\ rescans \in 0..MaxRescans
    /\ rules \in [Pairs -> Permissions]
    /\ blockAll \in BOOLEAN
    /\ ledger \in [LinkIds -> Entry]
    /\ active \in [LinkIds -> Conn \cup {NoConn}]
    /\ sessions \in [Pairs -> Session]
    /\ dismissed \in [Names \X Cats -> Nat]
    /\ claims \subseteq Pairs
    /\ pc \in {"idle", "groups", "allow", "deny", "ask", "cooldown", "claim", "prompt"}
    /\ todo \subseteq Group
    /\ cur \in Group \cup {NoGroup}
    /\ pc \in {"idle", "groups"} <=> cur = NoGroup
    /\ cur # NoGroup => CatOfGroup(cur) \in Guarded
    /\ updLinks \subseteq LinkIds
    /\ checks \subseteq Check
    /\ prompts \subseteq Prompt
    /\ now \in Times
    /\ verdict \in [Insts -> Verdicts]
    /\ reported \subseteq Nat

(* The loop has seen everything that happened in the graph.                *)
Drained ==
    /\ monitorUp
    /\ dirty = {} /\ gKnown = ready
    /\ queue = <<>>
    /\ pc = "idle"

(* Every live link on a protected device has a recorded decision of its    *)
(* own (d-every-link-is-accounted-for), once the loop has caught up: also  *)
(* a link whose id another link had before it in the same block, whose     *)
(* node was named only later, or whose id and serial were another's before *)
(* PipeWire restarted.                                                     *)
EveryLinkAccountedFor ==
    Drained =>
        \A id \in LiveIds(pw) :
            Classified(pw[id], ready, seenDevs) =>
                /\ ledger[id].state = "decided"
                /\ verdict[pw[id].inst] # "none"

(* A refused link that is still flowing is never lost sight of: its        *)
(* destruction is still to come, a denial check is watching it, or it was  *)
(* reported as a link that could not be stopped (verify_denial).           *)
RefusedIsPursued ==
    \A id \in LiveIds(pw) :
        verdict[pw[id].inst] \in Refused =>
            \/ pc \in Refused /\ \E k \in cur.keys : k.inst = pw[id].inst
            \/ \E c \in checks : \E k \in c.keys : k.inst = pw[id].inst
            \/ pw[id].inst \in reported

(* The same where blocks may leave a serial out.  A link decided under the *)
(* serial of the one that had its id before is a different one to the      *)
(* ledger when its own becomes known: its check is led astray, but it is   *)
(* up for decision again.                                                  *)
RefusedIsNotLost ==
    \A id \in LiveIds(pw) :
        verdict[pw[id].inst] \in Refused =>
            \/ pc \in Refused /\ \E k \in cur.keys : k.inst = pw[id].inst
            \/ \E c \in checks : \E k \in c.keys : k.inst = pw[id].inst
            \/ pw[id].inst \in reported
            \/ \E g \in todo : \E k \in g.keys : k.inst = pw[id].inst

(* Why RefusedIsPursued holds.  The keys the daemon still acts on ...      *)
KeysInPlay ==
    (UNION {g.keys : g \in todo}) \cup (UNION {c.keys : c \in checks})
        \cup (IF cur = NoGroup THEN {} ELSE cur.keys)

(* ... and what it remembers of a link are of a link PipeWire made: as     *)
(* long as that link lives, it has this id and this serial.                *)
Genuine(id, serial, inst) ==
    /\ inst \in 1..(nextInst - 1)
    /\ \A j \in LiveIds(pw) :
          pw[j].inst = inst => j = id /\ pw[j].serial = serial

GenuineLinks(links) ==
    \A id \in LiveIds(links) : Genuine(id, links[id].serial, links[id].inst)

LinkIdentity ==
    /\ \A id \in LiveIds(pw) : pw[id].serial # NoSerial
    /\ GenuineLinks(pw) /\ GenuineLinks(gLinks)
    /\ \A n \in 1..Len(queue) : GenuineLinks(queue[n].links)
    /\ \A k \in KeysInPlay : Genuine(k.id, k.serial, k.inst)

(* A snapshot shows the link that has the id now.                          *)
Shows(links, id) == links[id] # NoLink /\ links[id].inst = pw[id].inst

(* A link that was reported once and still lives is in every later         *)
(* snapshot, also across a re-seed.                                        *)
SnapshotsKeepLinks ==
    \A id \in LiveIds(pw) : \A m \in 1..Len(queue) :
        Shows(queue[m].links, id) =>
            /\ \A n \in 1..Len(queue) : m <= n => Shows(queue[n].links, id)
            /\ Shows(gLinks, id)

(* The link of a key in play, while it lives, is found by still_alive now  *)
(* and after every update that is on its way.                              *)
KeysFollowed ==
    \A k \in KeysInPlay :
        pw[k.id] # NoLink /\ pw[k.id].inst = k.inst =>
            /\ ledger[k.id].state # "none" /\ ledger[k.id].serial = k.serial
            /\ \A n \in 1..Len(queue) : Shows(queue[n].links, k.id)
            /\ Shows(gLinks, k.id)

(* The inductive invariant: identities are genuine, what is reported stays *)
(* reported, keys stay findable, and a link PipeWire has not made yet has  *)
(* no decision.                                                            *)
PursuitInvariant ==
    /\ LinkIdentity
    /\ SnapshotsKeepLinks
    /\ KeysFollowed
    /\ \A i \in Insts : i >= nextInst => verdict[i] = "none"
    /\ RefusedIsPursued

(* Once the loop has caught up, every link it let through is tracked as    *)
(* the link it is.  A link missing from the table would end the            *)
(* while_in_use session it holds open (expire_sessions).                   *)
AllowedIsTracked ==
    Drained =>
        \A id \in LiveIds(pw) :
            verdict[pw[id].inst] = "allow" =>
                active[id] # NoConn /\ active[id].inst = pw[id].inst

(* A connection ends with its link, but for one case: once the loop has    *)
(* caught up, what is tracked is the link that has the id, or that link    *)
(* was not let through and has taken the id over between two reports, out  *)
(* of sight of a prune that goes by ids (the dead link's connection, and   *)
(* the while_in_use session it holds, then last as long as the new link).  *)
(* Whatever else ends a link ends its connection: its application, a       *)
(* destroy meant for another, a restart of PipeWire or of the monitor.     *)
ConnectionsEndWithLinks ==
    Drained =>
        \A id \in LinkIds : active[id] # NoConn =>
            /\ pw[id] # NoLink
            /\ \/ active[id].inst = pw[id].inst
               \/ verdict[pw[id].inst] # "allow"

(* There is one question per application and device (b6), and a claim on   *)
(* asking is held exactly while its prompt is on the screen or about to    *)
(* be: a leaked claim would silence the pair for good.                     *)
OneQuestionPerPair ==
    /\ \A p, q \in prompts :
          (Norm[p.name] = Norm[q.name] /\ p.cat = q.cat) => p = q
    /\ claims = {<<Norm[p.name], p.cat>> : p \in prompts}
                \cup (IF pc = "prompt" THEN {PairOf(cur)} ELSE {})
    /\ pc = "prompt" => \A p \in prompts : <<Norm[p.name], p.cat>> # PairOf(cur)

(* The ledger has the id of a key under the serial of another link: one    *)
(* that gave the id up between two blocks, the second without a serial.    *)
Mistaken(k) ==
    /\ ledger[k.id].state = "decided"
    /\ k.serial # NoSerial
    /\ ledger[k.id].serial \notin {NoSerial, k.serial}

(* A link is put up for decision once, however often it is reported again, *)
(* with its serial or without, while rules change and devices are found.   *)
(* The exceptions are a respawned monitor, which starts over, and a link   *)
(* that was decided under the serial of another: its own makes it new.     *)
DecidedOnce ==
    [][\A g \in todo' \ todo : \A k \in g.keys :
          verdict[k.inst] # "none" => outages > 0 \/ Mistaken(k)]_vars

(* So a decision stands where every block carries serials: a rule that     *)
(* changes, or the emergency block, does not reach a link that was decided *)
(* before, as long as the monitor has not been respawned.                  *)
DecisionStands ==
    [][\A i \in Insts :
          verdict[i] # "none" /\ verdict'[i] # verdict[i] => outages > 0]_vars

(* A live link without a decision although its node has its name and the   *)
(* loop knew its device when it took up its last update.                   *)
Overdue(i) ==
    /\ verdict[i] = "none"
    /\ \E id \in LiveIds(pw) :
          pw[id].inst = i /\ Classified(pw[id], ready, seenDevs)

(* No link stays so for good, whatever the monitor goes through.  What a   *)
(* rescan finds counts only from the next update on: none follows from the *)
(* rescan itself, so a link that was up before its device was found may    *)
(* wait for good (main.rs, the rescan task).                               *)
LinkEventuallyDecided == \A i \in Insts : []<>~Overdue(i)

(* A refused link that flows and was not reported as impossible to stop.   *)
Unsettled(i) ==
    /\ verdict[i] \in Refused /\ i \notin reported
    /\ \E id \in LiveIds(pw) : pw[id].inst = i

(* No link stays so for good: it is gone in the end, or reported, or a     *)
(* respawned monitor led to another decision.                              *)
RefusedEventuallySettled == \A i \in Insts : []<>~Unsettled(i)

(* A refusal that is a question ends with a prompt for the pair on the     *)
(* screen, or within the quiet time after a dismissal.                     *)
QuestionEventuallyAsked ==
    \A p \in Pairs :
        (pc = "ask" /\ PairOf(cur) = p)
            ~> (\/ \E q \in prompts : <<Norm[q.name], q.cat>> = p
                \/ pc = "groups" /\ \E n \in Names :
                      Norm[n] = p[1] /\ InCooldown(dismissed[<<n, p[2]>>], now))

-----------------------------------------------------------------------------
(* The links the daemon is acting on because they were refused.            *)
PursuedKeys ==
    (UNION {c.keys : c \in checks}) \cup (IF pc \in Refused THEN cur.keys ELSE {})

Guard == INSTANCE LinkGuard WITH
            Links <- Insts,
            Judgements <- Verdicts \ {"none"},
            Refusals <- Refused,
            made <- 1..(nextInst - 1),
            flowing <- {pw[id].inst : id \in LiveIds(pw)},
            judged <- verdict,
            pursued <- {k.inst : k \in PursuedKeys}

(* Layer 1 is a guard of links: whatever blocks, serials, ids and tasks    *)
(* do, each step makes, ends, judges or gives up links as LinkGuard says.  *)
(* In particular a pursuit is dropped only over a link that is gone or was *)
(* reported.                                                               *)
ImplementsGuard == Guard!GuardSpec
=============================================================================
