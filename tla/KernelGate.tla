----------------------------- MODULE KernelGate -----------------------------
(***************************************************************************)
(* The eBPF program of src/hwprivacy-lsm/src/bpf/devices.bpf.c: the two    *)
(* hooks file_open and file_release, run by several tasks at once.  A hook *)
(* is not atomic: every map operation is a step of its own, and what a     *)
(* look-up returned is a pointer that another task may have made stale.    *)
(*                                                                         *)
(* Three parts: the verdict on an open, the count of camera handles per    *)
(* executable that decides when a release is reported, and the coalescing  *)
(* of the notifications of one burst.                                      *)
(***************************************************************************)
EXTENDS Integers, Sequences, FiniteSets

CONSTANTS
    Tasks,      \* threads that can be inside a hook
    Exes,       \* executables: the policy key <<exe_dev, exe_ino>>
    Files,      \* addresses of struct file
    KindOf,     \* the node a file is: "camera", "capture" or "playback"
    None,       \* no executable, no entry
    Window,     \* coalesce_ns, in ticks
    Wrap,       \* the handle count is kept modulo this (2^32 in the code)
    TableCap,   \* capacity of open_files
    RingCap,    \* events the ring buffer holds
    MaxOpens,   \* bound: opens of the run
    MaxTime,    \* bound: ticks of the clock
    MaxGrants   \* bound: changes of the policy map

ASSUME GateAssumption ==
    /\ KindOf \in [Files -> {"camera", "capture", "playback"}]
    /\ None \notin Exes /\ None \notin Files
    /\ Window \in Nat /\ TableCap \in Nat /\ RingCap \in Nat
    /\ MaxOpens \in Nat /\ MaxTime \in Nat /\ MaxGrants \in Nat
    /\ Wrap \in Nat /\ Wrap > TableCap + 1
    /\ IsFiniteSet(Files)

VARIABLES
    perms,      \* policy map: what each executable may open
    enforce,    \* config map: the classes that are enforced
    held,       \* the executable an open file belongs to, or None
    leaked,     \* history: files whose entry outlived the open it was made for
    hook,       \* what each task is doing
    openFiles,  \* open_files map
    counts,     \* open_counts map
    bursts,     \* coalesce map
    ring,       \* the ring buffer
    now,        \* bpf_ktime_get_ns
    opens,      \* bound: opens so far
    grants,     \* bound: policy changes so far
    truth,      \* history: the opens that were judged
    blurred,    \* history: bursts whose accounting a race or a loss touched
    overlapped  \* history: executables two of whose hooks counted at once, or
                \* whose count a stale pointer has hit

gateVars == <<perms, enforce, held, leaked, hook, openFiles, counts, bursts, ring,
              now, opens, grants, truth, blurred, overlapped>>

-----------------------------------------------------------------------------
Classes == {"video", "sound"}

\* The device major the hooks look at: V4L2_MAJOR or ALSA_MAJOR.
ClassOf(f) == IF KindOf[f] = "camera" THEN "video" ELSE "sound"

\* One burst per executable and device class.
BurstKeys == Exes \X Classes

\* A map entry that is not there.
NoCount == -1
NoBurst == [last |-> -1, suppressed |-> 0, denied |-> FALSE]

\* A task outside the hooks.
Resting == [at |-> "rest", exe |-> None, file |-> None, ok |-> FALSE,
            time |-> 0, fresh |-> FALSE, seen |-> 0]

Counting == {"track", "lookup", "add", "one", "found", "dec", "recheck", "forget"}
Coalescing == {"window", "swallow", "reset", "first"}
Steps == {"rest", "report", "released"} \cup Counting \cup Coalescing

Key(t) == <<hook[t].exe, ClassOf(hook[t].file)>>

Events == [kind : {"open", "release"}, exe : Exes, node : {"camera", "capture", "playback"},
           denied : BOOLEAN, extra : Nat]

TypeOK ==
    /\ perms \in [Exes -> SUBSET Classes]
    /\ enforce \in SUBSET Classes
    /\ held \in [Files -> Exes \cup {None}]
    /\ leaked \subseteq Files
    /\ hook \in [Tasks -> [at : Steps, exe : Exes \cup {None}, file : Files \cup {None},
                          ok : BOOLEAN, time : Nat, fresh : BOOLEAN, seen : Nat]]
    /\ openFiles \in [Files -> Exes \cup {None}]
    /\ counts \in [Exes -> Nat \cup {NoCount}]
    /\ bursts \in [BurstKeys -> [last : Int, suppressed : Nat, denied : BOOLEAN]]
    /\ ring \in Seq(Events)
    /\ now \in Nat
    /\ truth \in [BurstKeys -> [denied : Nat, allowed : Nat]]
    /\ blurred \subseteq BurstKeys
    /\ overlapped \subseteq Exes

-----------------------------------------------------------------------------
\* ---- The pieces of a hook ------------------------------------------------

\* The verdict: a class that is enforced needs the permission; of the sound
\* nodes only the capture nodes are gated.
Permitted(e, f) ==
    \/ ClassOf(f) \notin enforce
    \/ KindOf[f] = "playback"
    \/ ClassOf(f) \in perms[e]

\* The tasks that hold a pointer into the entry of an executable, or of a
\* burst.  When the entry is deleted or replaced the pointer is stale.
CountPointers(e) == {u \in Tasks : hook[u].at \in {"add", "dec"} /\ hook[u].exe = e}
BurstPointers(k) == {u \in Tasks : hook[u].at \in {"swallow", "reset"} /\ Key(u) = k}
Staled(users) ==
    [u \in Tasks |-> IF u \in users THEN [hook[u] EXCEPT !.fresh = FALSE] ELSE hook[u]]

MoveTo(t, step) == hook' = [hook EXCEPT ![t].at = step]
Leave(t) == hook' = [hook EXCEPT ![t] = Resting]

\* Entering the coalescing part reads the clock first.
ToWindow(h) == [h EXCEPT !.at = "window", !.time = now]

\* An atomic add through a pointer.  A stale one hits a freed element: the add
\* is lost, or lands in whatever entry reuses the element.
AddThrough(t, delta) ==
    LET AddTo(e) == counts' = [counts EXCEPT ![e] = (@ + delta) % Wrap]
    IN IF hook[t].fresh
       THEN AddTo(hook[t].exe) /\ UNCHANGED overlapped
       ELSE \/ UNCHANGED <<counts, overlapped>>
            \/ \E e \in Exes : /\ counts[e] # NoCount /\ AddTo(e)
                             /\ overlapped' = overlapped \cup {e}

\* Two hooks of one executable are in the counting part at the same time.
Overlapped(t, e) ==
    IF \E u \in Tasks \ {t} : hook[u].exe = e /\ hook[u].at \in Counting
    THEN overlapped \cup {e} ELSE overlapped

\* The hook runs before the driver's own open.  If that refuses, the file is
\* never open and no release hook runs for it: what the table has of it stays.
DriverOpens(h) == held' = [held EXCEPT ![h.file] = h.exe] /\ UNCHANGED leaked
DriverRefuses(h) ==
    /\ leaked' = IF openFiles[h.file] # None THEN leaked \cup {h.file} ELSE leaked
    /\ UNCHANGED held

\* The open is over: it was judged, and a permitted one went to the driver.
Finish(t) ==
    LET h == hook[t]
    IN /\ IF h.ok
          THEN /\ truth' = [truth EXCEPT ![Key(t)].allowed = @ + 1]
               /\ DriverOpens(h) \/ DriverRefuses(h)
          ELSE /\ truth' = [truth EXCEPT ![Key(t)].denied = @ + 1]
               /\ UNCHANGED <<held, leaked>>
       /\ Leave(t)

\* A full ring buffer drops the event, never the verdict.
Emit(ev) == ring' = IF Len(ring) < RingCap THEN Append(ring, ev) ELSE ring
Blur(test, k) == blurred' = IF test THEN blurred \cup {k} ELSE blurred

Busy(f) == held[f] # None \/ \E t \in Tasks : hook[t].file = f

-----------------------------------------------------------------------------
\* ---- file_open -----------------------------------------------------------

OpenVerdict(t, e, f) ==
    /\ hook[t].at = "rest" /\ ~Busy(f) /\ opens < MaxOpens
    /\ LET h == [Resting EXCEPT !.exe = e, !.file = f, !.ok = Permitted(e, f)]
           tracks == h.ok /\ KindOf[f] = "camera"
       IN /\ hook' = [hook EXCEPT ![t] = IF tracks THEN [h EXCEPT !.at = "track"]
                                                   ELSE ToWindow(h)]
          /\ overlapped' = IF tracks THEN Overlapped(t, e) ELSE overlapped
    /\ opens' = opens + 1
    /\ UNCHANGED <<perms, enforce, held, leaked, openFiles, counts, bursts, ring, now,
                   grants, truth, blurred>>

\* Only a handle the table has room for is tracked.
Track(t) ==
    LET h == hook[t]
        room == Cardinality({f \in Files : openFiles[f] # None}) < TableCap
    IN /\ h.at = "track"
       /\ IF room /\ openFiles[h.file] = None
          THEN /\ openFiles' = [openFiles EXCEPT ![h.file] = h.exe]
               /\ MoveTo(t, "lookup")
          ELSE /\ hook' = [hook EXCEPT ![t] = ToWindow(h)]
               /\ UNCHANGED openFiles
       /\ UNCHANGED <<perms, enforce, held, leaked, counts, bursts, ring, now,
                      opens, grants, truth, blurred, overlapped>>

CountLookup(t) ==
    /\ hook[t].at = "lookup"
    /\ hook' = [hook EXCEPT ![t].at = IF counts[hook[t].exe] = NoCount THEN "one" ELSE "add",
                            ![t].fresh = TRUE]
    /\ UNCHANGED <<perms, enforce, held, leaked, openFiles, counts, bursts, ring, now,
                   opens, grants, truth, blurred, overlapped>>

CountAdd(t) ==
    /\ hook[t].at = "add"
    /\ AddThrough(t, 1)
    /\ hook' = [hook EXCEPT ![t] = ToWindow(hook[t])]
    /\ UNCHANGED <<perms, enforce, held, leaked, openFiles, bursts, ring, now,
                   opens, grants, truth, blurred>>

\* The first handle: BPF_ANY replaces an entry another task has just made.
CountOne(t) ==
    LET e == hook[t].exe
    IN /\ hook[t].at = "one"
       /\ counts' = [counts EXCEPT ![e] = 1]
       /\ hook' = [Staled(CountPointers(e)) EXCEPT ![t] = ToWindow(hook[t])]
       /\ UNCHANGED <<perms, enforce, held, leaked, openFiles, bursts, ring, now,
                      opens, grants, truth, blurred, overlapped>>

\* now - last is unsigned: a last stored after this task read the clock makes
\* the difference huge, which is outside the window.
InWindow(time, last) == time >= last /\ time - last < Window

\* Mutant: the wrong field of the entry is taken for what was suppressed.
CoalesceLookupLast(t) ==
    LET h == hook[t]
        b == bursts[Key(t)]
    IN /\ h.at = "window"
       /\ hook' = [hook EXCEPT ![t].at = IF b = NoBurst THEN "first"
                                         ELSE IF InWindow(h.time, b.last) THEN "swallow"
                                         ELSE "reset",
                               ![t].fresh = TRUE,
                               ![t].seen = b.last]
       /\ UNCHANGED <<perms, enforce, held, leaked, openFiles, counts, bursts, ring, now,
                      opens, grants, truth, blurred, overlapped>>

CoalesceLookup(t) ==
    LET h == hook[t]
        b == bursts[Key(t)]
    IN /\ h.at = "window"
       /\ hook' = [hook EXCEPT ![t].at = IF b = NoBurst THEN "first"
                                         ELSE IF InWindow(h.time, b.last) THEN "swallow"
                                         ELSE "reset",
                               ![t].fresh = TRUE,
                               ![t].seen = b.suppressed]
       /\ UNCHANGED <<perms, enforce, held, leaked, openFiles, counts, bursts, ring, now,
                      opens, grants, truth, blurred, overlapped>>

\* Inside the window the open is counted into the burst and nothing is said.
Swallow(t) ==
    LET h == hook[t]
        k == Key(t)
    IN /\ h.at = "swallow"
       /\ bursts' = IF h.fresh THEN [bursts EXCEPT ![k].suppressed = @ + 1] ELSE bursts
       /\ Blur(~h.fresh \/ bursts[k].denied # ~h.ok, k)
       /\ Finish(t)
       /\ UNCHANGED <<perms, enforce, openFiles, counts, ring, now,
                      opens, grants, overlapped>>

\* After the window: take what was suppressed, start the next burst.
TakeBurst(t) ==
    LET h == hook[t]
        k == Key(t)
    IN /\ h.at = "reset"
       /\ bursts' = IF h.fresh
                    THEN [bursts EXCEPT ![k] = [last |-> h.time, suppressed |-> 0, denied |-> ~h.ok]]
                    ELSE bursts
       /\ Blur(~h.fresh \/ bursts[k].suppressed # h.seen
                       \/ (h.seen > 0 /\ bursts[k].denied # ~h.ok), k)
       /\ MoveTo(t, "report")
       /\ UNCHANGED <<perms, enforce, held, leaked, openFiles, counts, ring, now,
                      opens, grants, truth, overlapped>>

FirstBurst(t) ==
    LET h == hook[t]
        k == Key(t)
    IN /\ h.at = "first"
       /\ bursts' = [bursts EXCEPT ![k] = [last |-> h.time, suppressed |-> 0, denied |-> ~h.ok]]
       /\ Blur(bursts[k].suppressed > 0, k)
       /\ hook' = [Staled(BurstPointers(k)) EXCEPT ![t].at = "report"]
       /\ UNCHANGED <<perms, enforce, held, leaked, openFiles, counts, ring, now,
                      opens, grants, truth, overlapped>>

Report(t) ==
    LET h == hook[t]
    IN /\ h.at = "report"
       /\ Emit([kind |-> "open", exe |-> h.exe, node |-> KindOf[h.file],
                denied |-> ~h.ok, extra |-> h.seen])
       /\ Blur(Len(ring) = RingCap, Key(t))
       /\ Finish(t)
       /\ UNCHANGED <<perms, enforce, openFiles, counts, bursts, now,
                      opens, grants, overlapped>>

-----------------------------------------------------------------------------
\* ---- file_release --------------------------------------------------------

\* Mutant: a released handle stays in the table.
CloseKeepsHandle(t, f) ==
    /\ hook[t].at = "rest" /\ held[f] # None
    /\ held' = [held EXCEPT ![f] = None]
    /\ IF KindOf[f] = "camera" /\ openFiles[f] # None
       THEN /\ hook' = [hook EXCEPT ![t] = [Resting EXCEPT !.at = "found", !.file = f,
                                                          !.exe = openFiles[f]]]
            /\ overlapped' = Overlapped(t, openFiles[f])
       ELSE UNCHANGED <<hook, overlapped>>
    /\ UNCHANGED <<perms, enforce, leaked, openFiles, counts, bursts, ring, now,
                   opens, grants, truth, blurred>>

\* The last reference to an open file goes.  A handle that was not tracked
\* (not a camera, or the table was full) leaves no trace.
Close(t, f) ==
    /\ hook[t].at = "rest" /\ held[f] # None
    /\ held' = [held EXCEPT ![f] = None]
    /\ IF KindOf[f] = "camera" /\ openFiles[f] # None
       THEN /\ openFiles' = [openFiles EXCEPT ![f] = None]
            /\ leaked' = leaked \ {f}
            /\ hook' = [hook EXCEPT ![t] = [Resting EXCEPT !.at = "found", !.file = f,
                                                          !.exe = openFiles[f]]]
            /\ overlapped' = Overlapped(t, openFiles[f])
       ELSE UNCHANGED <<leaked, openFiles, hook, overlapped>>
    /\ UNCHANGED <<perms, enforce, counts, bursts, ring, now,
                   opens, grants, truth, blurred>>

ReleaseLookup(t) ==
    /\ hook[t].at = "found"
    /\ IF counts[hook[t].exe] = NoCount
       THEN Leave(t)
       ELSE hook' = [hook EXCEPT ![t].at = "dec", ![t].fresh = TRUE]
    /\ UNCHANGED <<perms, enforce, held, leaked, openFiles, counts, bursts, ring, now,
                   opens, grants, truth, blurred, overlapped>>

ReleaseDecrement(t) ==
    /\ hook[t].at = "dec"
    /\ AddThrough(t, Wrap - 1)
    /\ MoveTo(t, "recheck")
    /\ UNCHANGED <<perms, enforce, held, leaked, openFiles, bursts, ring, now,
                   opens, grants, truth, blurred>>

ReleaseRecheck(t) ==
    /\ hook[t].at = "recheck"
    /\ IF counts[hook[t].exe] = 0 THEN MoveTo(t, "forget") ELSE Leave(t)
    /\ UNCHANGED <<perms, enforce, held, leaked, openFiles, counts, bursts, ring, now,
                   opens, grants, truth, blurred, overlapped>>

\* Mutant: the zero is left in the map.
ReleaseForgetNothing(t) ==
    /\ hook[t].at = "forget"
    /\ MoveTo(t, "released")
    /\ UNCHANGED <<perms, enforce, held, leaked, openFiles, counts, bursts, ring, now,
                   opens, grants, truth, blurred, overlapped>>

ReleaseForget(t) ==
    LET e == hook[t].exe
    IN /\ hook[t].at = "forget"
       /\ counts' = [counts EXCEPT ![e] = NoCount]
       /\ hook' = [Staled(CountPointers(e)) EXCEPT ![t].at = "released"]
       /\ UNCHANGED <<perms, enforce, held, leaked, openFiles, bursts, ring, now,
                      opens, grants, truth, blurred, overlapped>>

ReleaseReport(t) ==
    /\ hook[t].at = "released"
    /\ Emit([kind |-> "release", exe |-> hook[t].exe, node |-> "camera",
             denied |-> FALSE, extra |-> 0])
    /\ Leave(t)
    /\ UNCHANGED <<perms, enforce, held, leaked, openFiles, counts, bursts, now,
                   opens, grants, truth, blurred, overlapped>>

-----------------------------------------------------------------------------
\* ---- The environment of the hooks ----------------------------------------

\* The helper rewrites an entry of the policy map, or the config map.
Regrant(e, classes) ==
    /\ grants < MaxGrants /\ perms[e] # classes
    /\ perms' = [perms EXCEPT ![e] = classes]
    /\ grants' = grants + 1
    /\ UNCHANGED <<enforce, held, leaked, hook, openFiles, counts, bursts, ring, now,
                   opens, truth, blurred, overlapped>>

Reenforce(classes) ==
    /\ grants < MaxGrants /\ enforce # classes
    /\ enforce' = classes
    /\ grants' = grants + 1
    /\ UNCHANGED <<perms, held, leaked, hook, openFiles, counts, bursts, ring, now,
                   opens, truth, blurred, overlapped>>

Tick ==
    /\ now < MaxTime
    /\ now' = now + 1
    /\ UNCHANGED <<perms, enforce, held, leaked, hook, openFiles, counts, bursts, ring,
                   opens, grants, truth, blurred, overlapped>>

-----------------------------------------------------------------------------
\* The policy may say anything about the classes there are nodes of.
GateInit ==
    /\ perms \in [Exes -> SUBSET {ClassOf(f) : f \in Files}]
    /\ enforce \in SUBSET Classes
    /\ held = [f \in Files |-> None] /\ leaked = {}
    /\ hook = [t \in Tasks |-> Resting]
    /\ openFiles = [f \in Files |-> None]
    /\ counts = [e \in Exes |-> NoCount]
    /\ bursts = [k \in BurstKeys |-> NoBurst]
    /\ ring = <<>> /\ now = 0 /\ opens = 0 /\ grants = 0
    /\ truth = [k \in BurstKeys |-> [denied |-> 0, allowed |-> 0]]
    /\ blurred = {} /\ overlapped = {}

\* One step of the hook a task is in.
HookStep(t) ==
    \/ Track(t) \/ CountLookup(t) \/ CountAdd(t) \/ CountOne(t)
    \/ CoalesceLookup(t) \/ Swallow(t) \/ TakeBurst(t) \/ FirstBurst(t) \/ Report(t)
    \/ ReleaseLookup(t) \/ ReleaseDecrement(t) \/ ReleaseRecheck(t)
    \/ ReleaseForget(t) \/ ReleaseReport(t)

GateNext ==
    \/ \E t \in Tasks, e \in Exes, f \in Files : OpenVerdict(t, e, f)
    \/ \E t \in Tasks, f \in Files : Close(t, f)
    \/ \E t \in Tasks : HookStep(t)
    \/ \E e \in Exes, classes \in SUBSET Classes : Regrant(e, classes)
    \/ \E classes \in SUBSET Classes : Reenforce(classes)
    \/ Tick

GateSpec == GateInit /\ [][GateNext]_gateVars

-----------------------------------------------------------------------------
\* ---- Properties ----------------------------------------------------------

\* While no two hooks of an executable count at the same time, the handle
\* count is the number of its handles in the table: the close of the last of
\* these reports the release, not the first close.  A handle the table had no
\* room for is not among them, one that leaked is (see KernelGateClaims).
TrackedBy(e) == {f \in Files : openFiles[f] = e}
CountsAreExact ==
    \A e \in Exes \ overlapped :
        (\A t \in Tasks : hook[t].exe = e => hook[t].at \notin Counting) =>
            counts[e] = IF TrackedBy(e) = {} THEN NoCount ELSE Cardinality(TrackedBy(e))

\* A handle in the table is an open file of that executable, is being opened
\* with leave, or was refused by the driver after the hook had let it through:
\* nothing else outlives its open.  What was denied never holds a session open,
\* and a close, whoever's file has the address by then, ends the entry.
TrackedUnlessRefused ==
    \A f \in Files : openFiles[f] # None =>
        \/ held[f] = openFiles[f]
        \/ \E t \in Tasks : hook[t].file = f /\ hook[t].exe = openFiles[f] /\ hook[t].ok
        \/ f \in leaked
=============================================================================
