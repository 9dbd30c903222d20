------------------------------ MODULE EventPath ------------------------------
(***************************************************************************)
(* What becomes of a device open: from the gate (KernelGate) through the   *)
(* ring buffer, the helper's main loop, the queue of its socket server and *)
(* the connection, to the user daemon, which counts it, writes it into the *)
(* history and tells or asks the user.                                     *)
(*                                                                         *)
(* The helper's main loop is one thread: it handles ring events and closes *)
(* the bursts that have gone quiet, while the hooks of other tasks go on   *)
(* counting into the same map.  The daemon handles one event at a time but *)
(* lets go of its state between the steps, and a question that is open is  *)
(* a task of its own.                                                      *)
(***************************************************************************)
EXTENDS KernelGate, Functions

CONSTANTS
    MaxFaults,   \* bound: broken connections and daemon restarts
    MaxAnswers   \* bound: answers of the user

ASSUME PathAssumption ==
    /\ MaxFaults \in Nat /\ MaxAnswers \in Nat
    /\ IsFiniteSet(Tasks) /\ IsFiniteSet(Exes)

VARIABLES
    flushing,   \* stale bursts the helper has read and not yet written back
    helperUp,   \* the helper's main loop runs
    gone,       \* the helper's process has ended, its hooks are detached
    pipe,       \* the server's event channel; it outlives every connection
    out,        \* what the writer of the current connection was handed
    link,       \* the connection: "up", "closing" or "down"
    handling,   \* the event the daemon is in the middle of
    blocked,    \* tracker.blocked_count
    history,    \* history.json: opens per executable and device class
    rule,       \* camera opinion of the rule that owns the executable
    saved,      \* the same in config.toml
    asking,     \* executables with a camera question on screen
    pushed,     \* the helper has the rules as they are
    answers,    \* bound: answers so far
    faults,     \* bound: broken connections and restarts so far
    base        \* history: denials in the table when the daemon started

helperVars == <<flushing, helperUp, gone, pipe>>
linkVars == <<out, link, faults>>
countVars == <<blocked, history, base>>
ruleVars == <<rule, saved, pushed, answers>>
daemonVars == <<handling, countVars, ruleVars, asking>>
pathVars == <<helperVars, linkVars, daemonVars>>
vars == <<gateVars, pathVars>>

-----------------------------------------------------------------------------
NoEvent == [at |-> "idle", exe |-> None]

\* An event on its way to the daemon.  The role is what the daemon reads: of
\* a burst summary it is CAMERA or AUDIO, of an event CAMERA or MIC.
Messages == [kind : {"open", "release", "summary"}, exe : Exes,
             role : {"CAMERA", "MIC", "AUDIO"}, denied : BOOLEAN, extra : Nat]

\* A coalesce entry read out of the map.
Snapshots == [key : BurstKeys, last : Int, suppressed : Nat, denied : BOOLEAN]

TypeOKPath ==
    /\ TypeOK
    /\ flushing \in SUBSET Snapshots
    /\ helperUp \in BOOLEAN /\ gone \in BOOLEAN
    /\ pipe \in Seq(Messages) /\ out \in Seq(Messages)
    /\ link \in {"up", "closing", "down"}
    /\ handling \in [at : {"idle", "decide", "ask"}, exe : Exes \cup {None}]
    /\ blocked \in Nat /\ base \in Nat
    /\ history \in [BurstKeys -> [denied : Nat, allowed : Nat]]
    /\ rule \in [Exes -> {"none", "allow", "deny"}]
    /\ saved \in [Exes -> {"none", "allow", "deny"}]
    /\ asking \subseteq Exes
    /\ pushed \in BOOLEAN
    /\ answers \in Nat /\ faults \in Nat

-----------------------------------------------------------------------------
\* ---- The helper's main loop ----------------------------------------------

\* Mutant: the kind of the node is passed on as its role.
RoleOfNode(node) == node

\* DeviceIndex: a camera or capture node is a capture; nothing else is passed
\* on to the daemon.
RoleOf(node) == IF node = "camera" THEN "CAMERA" ELSE "MIC"
IsCapture(node) == node \in {"camera", "capture"}

\* DevEvent::parse, and what is passed on of it: not the executable's inode,
\* which is resolved to its path, and the node as its role.
MessageOf(ev) == [kind |-> ev.kind, exe |-> ev.exe, role |-> RoleOf(ev.node),
                  denied |-> ev.denied, extra |-> ev.extra]

RingCallback ==
    /\ helperUp /\ flushing = {} /\ ring # <<>>
    /\ pipe' = IF IsCapture(Head(ring).node) THEN Append(pipe, MessageOf(Head(ring)))
                                             ELSE pipe
    /\ ring' = Tail(ring)
    /\ UNCHANGED <<perms, enforce, held, leaked, hook, openFiles, counts, bursts, now, opens,
                   grants, truth, blurred, overlapped, flushing, helperUp, gone,
                   linkVars, daemonVars>>

\* Mutant: off by one.
IsStaleTwo(b, window) == b.suppressed > 1 /\ now - b.last > window

IsStale(b, window) == b.suppressed > 0 /\ now - b.last > window

ReadBursts(window) ==
    flushing' = {[key |-> k, last |-> bursts[k].last, suppressed |-> bursts[k].suppressed,
                  denied |-> bursts[k].denied] : k \in {j \in BurstKeys : IsStale(bursts[j], window)}}

FlushRead ==
    /\ helperUp /\ flushing = {}
    /\ \E k \in BurstKeys : IsStale(bursts[k], Window)
    /\ ReadBursts(Window)
    /\ UNCHANGED <<gateVars, helperUp, gone, pipe, linkVars, daemonVars>>

\* The loop ends: one last flush, of every burst whatever its age.
HelperStops ==
    /\ helperUp /\ flushing = {}
    /\ helperUp' = FALSE
    /\ ReadBursts(0)
    /\ UNCHANGED <<gateVars, gone, pipe, linkVars, daemonVars>>

Cleared(e) == [last |-> e.last, suppressed |-> 0, denied |-> e.denied]

Summary(e) == [kind |-> "summary", exe |-> e.key[1],
               role |-> IF e.key[2] = "video" THEN "CAMERA" ELSE "AUDIO",
               denied |-> e.denied, extra |-> e.suppressed]

\* Send the summary and write the entry back: what the hooks did to it since
\* it was read is overwritten, and their pointers into it are stale.
FlushWrite(e) ==
    /\ e \in flushing
    /\ flushing' = flushing \ {e}
    /\ pipe' = Append(pipe, Summary(e))
    /\ bursts' = [bursts EXCEPT ![e.key] = Cleared(e)]
    /\ hook' = Staled(BurstPointers(e.key))
    /\ Blur(bursts[e.key].suppressed # e.suppressed \/ bursts[e.key].denied # e.denied, e.key)
    /\ UNCHANGED <<perms, enforce, held, leaked, openFiles, counts, ring, now, opens, grants,
                   truth, overlapped, helperUp, gone, linkVars, daemonVars>>

\* SetPolicy: the camera entries follow the rules, on a wakeup or on the
\* recheck that makes up for a lost one (KernelPush has them apart).
PushPolicy ==
    /\ helperUp /\ flushing = {} /\ link = "up" /\ ~pushed
    /\ perms' = [e \in Exes |-> (perms[e] \ {"video"}) \cup
                                (IF rule[e] = "allow" THEN {"video"} ELSE {})]
    /\ pushed' = TRUE
    /\ UNCHANGED <<enforce, held, leaked, hook, openFiles, counts, bursts, ring, now, opens, grants,
                   truth, blurred, overlapped, helperVars, linkVars, handling, countVars,
                   rule, saved, answers, asking>>

-----------------------------------------------------------------------------
\* ---- The connection ------------------------------------------------------

KeyOf(m) == <<m.exe, IF m.role = "CAMERA" THEN "video" ELSE "sound">>
KeysIn(q) == {KeyOf(q[i]) : i \in DOMAIN q}

\* The events thread moves what is queued to the writer.  Once the client is
\* gone the writer discards it.
Forward ==
    /\ link \in {"up", "closing"} /\ pipe # <<>>
    /\ pipe' = Tail(pipe)
    /\ IF link = "up"
       THEN out' = Append(out, Head(pipe)) /\ UNCHANGED blurred
       ELSE blurred' = blurred \cup {KeyOf(Head(pipe))} /\ UNCHANGED out
    /\ UNCHANGED <<perms, enforce, held, leaked, hook, openFiles, counts, bursts, ring, now, opens,
                   grants, truth, overlapped, flushing, helperUp, gone, link, faults, daemonVars>>

\* What was on its way is lost with the connection.
LoseConnection ==
    /\ link' = "closing" /\ out' = <<>>
    /\ blurred' = blurred \cup KeysIn(out)

Break ==
    /\ link = "up" /\ faults < MaxFaults
    /\ LoseConnection
    /\ faults' = faults + 1
    /\ UNCHANGED <<perms, enforce, held, leaked, hook, openFiles, counts, bursts, ring, now, opens,
                   grants, truth, overlapped, helperVars, daemonVars>>

\* The reader has seen the end and the two other threads have been joined, or
\* the client has read what a helper that is gone had sent.
CloseConnection ==
    /\ link = "closing" \/ (gone /\ link = "up" /\ out = <<>>)
    /\ link' = "down"
    /\ UNCHANGED <<gateVars, helperVars, out, faults, daemonVars>>

Connect ==
    /\ link = "down" /\ ~gone
    /\ link' = "up"
    /\ pushed' = FALSE
    /\ UNCHANGED <<gateVars, helperVars, out, faults, handling, countVars, rule, saved,
                   answers, asking>>

\* The bursts of what a helper that ends takes with it: swallowed and not
\* flushed, in the ring buffer, or in the channel.
RingKey(ev) == <<ev.exe, IF ev.node = "camera" THEN "video" ELSE "sound">>
RingKeys == {RingKey(ring[i]) : i \in DOMAIN ring}
LostWithHelper == {k \in BurstKeys : bursts[k].suppressed > 0} \cup RingKeys \cup KeysIn(pipe)

\* After the last flush the process ends: the programs are detached, and maps,
\* ring buffer and channel are gone.  Of what the writer was handed, the client
\* can still read as much as is in the socket.  A hook that is running then
\* might have ended just before: nobody hears of it either way.
HelperExits ==
    /\ ~helperUp /\ flushing = {} /\ ~gone
    /\ \A t \in Tasks : hook[t].at = "rest"
    /\ gone' = TRUE
    /\ \E n \in 0..Len(out) :
          /\ out' = SubSeq(out, 1, n)
          /\ blurred' = blurred \cup LostWithHelper \cup KeysIn(SubSeq(out, n + 1, Len(out)))
    /\ ring' = <<>> /\ pipe' = <<>>
    /\ bursts' = [k \in BurstKeys |-> NoBurst]
    /\ openFiles' = [f \in Files |-> None] /\ leaked' = {}
    /\ counts' = [e \in Exes |-> NoCount]
    /\ UNCHANGED <<perms, enforce, held, hook, now, opens, grants, truth, overlapped,
                   flushing, helperUp, link, faults, daemonVars>>

\* It is started again: both classes are enforced, with the policy that was
\* applied last, which it kept in its cache (KernelPush has what can go wrong
\* with that).  Files that are open by then are not in its table.
HelperStarts ==
    /\ gone /\ link = "down" /\ faults < MaxFaults
    /\ gone' = FALSE /\ helperUp' = TRUE
    /\ faults' = faults + 1
    /\ UNCHANGED <<gateVars, flushing, pipe, out, link, daemonVars>>

-----------------------------------------------------------------------------
\* ---- The daemon ----------------------------------------------------------

\* Mutant: a summary is taken for an open of its own.
WorthOfAnyEvent(m) == 1 + m.extra

\* What one event is worth.  A summary stands for the opens it accounts for
\* and for nothing else; any other event is one open and what is attached.
Worth(m) == IF m.kind = "summary" THEN m.extra ELSE 1 + m.extra
DeniedOpens(m) == IF m.denied THEN Worth(m) ELSE 0
AllowedOpens(m) == IF m.denied THEN 0 ELSE Worth(m)

\* The entry of the table is counted up and the table saved, in one step of
\* the daemon: what a restart reads back is what was recorded.
Record(k, denied, allowed) ==
    history' = [history EXCEPT ![k] = [denied |-> @.denied + denied,
                                       allowed |-> @.allowed + allowed]]
RecordDenied(k, n) == Record(k, n, 0)
RecordAllowed(k, n) == Record(k, 0, n)

\* log_event counts a denied row itself.
Logged(denied) == IF denied THEN 1 ELSE 0

\* The next event is read from the socket.
Take(m) ==
    /\ link = "up" /\ handling.at = "idle" /\ out # <<>>
    /\ m = Head(out)
    /\ out' = Tail(out)

\* Nothing to do: a role the daemon does not know, or a camera released while
\* no session of it is open, which is always so.
Ignore(m) ==
    /\ Take(m)
    /\ m.role = "AUDIO" \/ m.kind = "release"
    /\ UNCHANGED <<gateVars, helperVars, link, faults, daemonVars>>

CountSummary(m) ==
    /\ Take(m)
    /\ m.role # "AUDIO" /\ m.kind = "summary"
    /\ blocked' = blocked + DeniedOpens(m)
    /\ IF m.denied THEN RecordDenied(KeyOf(m), DeniedOpens(m))
                   ELSE RecordAllowed(KeyOf(m), AllowedOpens(m))
    /\ UNCHANGED <<gateVars, helperVars, link, faults, handling, base, ruleVars,
                   asking>>

\* Mutant: forgets that log_event has counted one.
CountDeniedTwice(m) ==
    /\ Take(m)
    /\ m.role # "AUDIO" /\ m.kind = "open" /\ m.denied
    /\ blocked' = blocked + Logged(TRUE) + DeniedOpens(m)
    /\ RecordDenied(KeyOf(m), DeniedOpens(m))
    /\ handling' = IF m.role = "CAMERA" THEN [at |-> "decide", exe |-> m.exe] ELSE handling
    /\ UNCHANGED <<gateVars, helperVars, link, faults, base, ruleVars, asking>>

\* A denied open is logged, counted and recorded; of a camera the user is
\* told or asked next.
CountDenied(m) ==
    /\ Take(m)
    /\ m.role # "AUDIO" /\ m.kind = "open" /\ m.denied
    /\ blocked' = blocked + Logged(TRUE) + (DeniedOpens(m) - Logged(TRUE))
    /\ RecordDenied(KeyOf(m), DeniedOpens(m))
    /\ handling' = IF m.role = "CAMERA" THEN [at |-> "decide", exe |-> m.exe] ELSE handling
    /\ UNCHANGED <<gateVars, helperVars, link, faults, base, ruleVars,
                   asking>>

\* An allowed open is counted for the camera only: the microphone's is the
\* PipeWire layer's to report.
CountAllowed(m) ==
    /\ Take(m)
    /\ m.role # "AUDIO" /\ m.kind = "open" /\ ~m.denied
    /\ IF m.role = "CAMERA"
       THEN RecordAllowed(KeyOf(m), AllowedOpens(m))
       ELSE UNCHANGED history
    /\ UNCHANGED <<gateVars, helperVars, link, faults, handling, blocked, base, ruleVars,
                   asking>>

\* Only ask when the user has not already answered with a deny.
Decide ==
    /\ handling.at = "decide"
    /\ handling' = IF rule[handling.exe] = "deny" THEN NoEvent ELSE [handling EXCEPT !.at = "ask"]
    /\ UNCHANGED <<gateVars, helperVars, linkVars, countVars, ruleVars, asking>>

\* One question per executable: a pending one is not repeated.
Ask ==
    /\ handling.at = "ask"
    /\ asking' = asking \cup {handling.exe}
    /\ handling' = NoEvent
    /\ UNCHANGED <<gateVars, helperVars, linkVars, countVars, ruleVars>>

\* Mutant: the answer is saved and not pushed.
AnswerUnpushed(e, perm, binaryThere) ==
    /\ e \in asking /\ answers < MaxAnswers
    /\ asking' = asking \ {e}
    /\ answers' = answers + 1
    /\ rule' = [rule EXCEPT ![e] = IF binaryThere THEN perm ELSE IF @ = "none" THEN "deny" ELSE @]
    /\ saved' = IF binaryThere THEN rule' ELSE saved
    /\ UNCHANGED <<gateVars, helperVars, linkVars, handling, countVars, pushed>>

\* The answer of a question.  A rule is made first, with a deny; the binary is
\* attached next, which fails when it is gone; the permission comes last.
Answer(e, perm, binaryThere) ==
    /\ e \in asking /\ answers < MaxAnswers
    /\ asking' = asking \ {e}
    /\ answers' = answers + 1
    /\ IF binaryThere
       THEN /\ rule' = [rule EXCEPT ![e] = perm]
            /\ saved' = rule'
            /\ pushed' = FALSE
       ELSE /\ rule' = [rule EXCEPT ![e] = IF @ = "none" THEN "deny" ELSE @]
            /\ UNCHANGED <<saved, pushed>>
    /\ UNCHANGED <<gateVars, helperVars, linkVars, handling, countVars>>

\* Dismissed, or never shown: the dismissal is remembered, nothing is saved.
Dismiss(e) ==
    /\ e \in asking /\ answers < MaxAnswers
    /\ asking' = asking \ {e}
    /\ answers' = answers + 1
    /\ UNCHANGED <<gateVars, helperVars, linkVars, handling, countVars, rule, saved, pushed>>

TotalDenied == SumFunction([k \in BurstKeys |-> history[k].denied])

\* The daemon dies and is started again: the history and the rules are read
\* from disk, everything else starts over, the connection is gone.
Restart ==
    /\ faults < MaxFaults
    /\ faults' = faults + 1
    /\ handling' = NoEvent /\ asking' = {} /\ blocked' = 0
    /\ base' = TotalDenied
    /\ rule' = saved /\ pushed' = FALSE
    /\ IF link = "up" THEN LoseConnection ELSE UNCHANGED <<link, out, blurred>>
    /\ UNCHANGED <<perms, enforce, held, leaked, hook, openFiles, counts, bursts, ring, now, opens,
                   grants, truth, overlapped, helperVars, history, saved, answers>>

-----------------------------------------------------------------------------
\* The helper has written its config before it attaches the hooks: both
\* classes are enforced (a gate that enforces nothing denies nothing).
Init ==
    /\ GateInit /\ enforce = Classes
    /\ flushing = {} /\ helperUp = TRUE /\ gone = FALSE /\ pipe = <<>>
    /\ out = <<>> /\ link = "down" /\ faults = 0
    /\ handling = NoEvent
    /\ blocked = 0 /\ base = 0
    /\ history = [k \in BurstKeys |-> [denied |-> 0, allowed |-> 0]]
    /\ rule = [e \in Exes |-> "none"] /\ saved = rule
    /\ pushed = FALSE /\ answers = 0 /\ asking = {}

\* A step of the hooks' part leaves the rest of the path alone.  Without the
\* helper no hook is attached, and what is opened then is not judged.
GateStep ==
    /\ UNCHANGED pathVars
    /\ IF gone THEN Tick ELSE GateNext

HelperStep ==
    \/ RingCallback \/ FlushRead \/ PushPolicy
    \/ \E e \in flushing : FlushWrite(e)

ConnectionStep == Forward \/ CloseConnection \/ Connect

DaemonStep ==
    \/ \E m \in {out[i] : i \in DOMAIN out} :
          Ignore(m) \/ CountSummary(m) \/ CountDenied(m) \/ CountAllowed(m)
    \/ Decide \/ Ask

UserStep ==
    \/ \E e \in Exes, perm \in {"allow", "deny"}, there \in BOOLEAN : Answer(e, perm, there)
    \/ \E e \in Exes : Dismiss(e)

Next ==
    \/ GateStep \/ HelperStep \/ HelperStops \/ HelperExits \/ HelperStarts
    \/ ConnectionStep \/ Break \/ DaemonStep \/ UserStep \/ Restart

\* A hook runs to its end, the helper's loop and the connection's threads go
\* on, the daemon reads its socket; time passes.  Nothing makes an
\* application open a device or a user answer.
Fairness ==
    /\ \A t \in Tasks : WF_vars(HookStep(t) /\ UNCHANGED pathVars)
    /\ WF_vars(Tick /\ UNCHANGED pathVars)
    /\ WF_vars(HelperStep) /\ WF_vars(PushPolicy)
    /\ WF_vars(ConnectionStep) /\ WF_vars(DaemonStep)

Spec == Init /\ [][Next]_vars /\ Fairness
-----------------------------------------------------------------------------
\* ---- Where an open that was not yet counted is ---------------------------

RingWorth(ev, k, denied) ==
    IF ev.kind = "open" /\ RingKey(ev) = k /\ ev.denied = denied THEN 1 + ev.extra ELSE 0

InRing(k, denied) == SumFunction([i \in DOMAIN ring |-> RingWorth(ring[i], k, denied)])

QueueWorth(m, k, denied) ==
    IF m.kind # "release" /\ KeyOf(m) = k /\ m.denied = denied THEN Worth(m) ELSE 0

InQueue(q, k, denied) == SumFunction([i \in DOMAIN q |-> QueueWorth(q[i], k, denied)])

\* Taken out of the map by a hook that has not reported yet.
HookWorth(t, k, denied) ==
    IF hook[t].at = "report" /\ Key(t) = k /\ hook[t].ok = ~denied THEN hook[t].seen ELSE 0

InHooks(k, denied) == SumFunction([t \in Tasks |-> HookWorth(t, k, denied)])

InMap(k, denied) == IF bursts[k].denied = denied THEN bursts[k].suppressed ELSE 0

OnTheWay(k, denied) ==
    InMap(k, denied) + InHooks(k, denied) + InRing(k, denied)
        + InQueue(pipe, k, denied) + InQueue(out, k, denied)

-----------------------------------------------------------------------------
\* ---- Properties ----------------------------------------------------------

\* Every camera open the hooks judged, denied or allowed, is in the history or
\* on its way to it, and exactly once, whatever part of it was swallowed by
\* the coalescing and however it came back out (attached to a later event, or
\* in the summary of a closed burst, before or after the connection was made).
\* Excepted are the bursts a race, a full ring, a lost connection or the end
\* of the helper's process has touched: what was in them there is not counted.
EveryOpenIsCounted ==
    \A k \in BurstKeys \ blurred :
        k[2] = "video" => /\ truth[k].denied = history[k].denied + OnTheWay(k, TRUE)
                          /\ truth[k].allowed = history[k].allowed + OnTheWay(k, FALSE)

\* The counter of the status line and the table on disk are fed by the same
\* events through different code (log_event counts one itself): they agree at
\* all times, across restarts of the daemon.
CountersAgree == blocked = TotalDenied - base

\* A camera grant the user gave reaches the kernel's policy map: a yes is not
\* for good forgotten by a helper that is up, whatever breaks in between.
Forgotten(e) == helperUp /\ rule[e] = "allow" /\ "video" \notin perms[e]
GrantReachesTheGate == \A e \in Exes : []<>~Forgotten(e)

\* No swallowed open stays in the map: a burst that is never followed by
\* another is closed and reported by the helper's flush, if the clock of the
\* run can leave its window.
Overlooked(k) == helperUp /\ bursts[k].suppressed > 0 /\ bursts[k].last + Window < MaxTime
SwallowedIsReported == \A k \in BurstKeys : []<>~Overlooked(k)
=============================================================================
