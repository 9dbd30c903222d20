----------------------------- MODULE KernelPush -----------------------------
(***************************************************************************)
(* Layer 2 of hwprivacy: how the user's rules reach the kernel.            *)
(*                                                                         *)
(* The daemon (lsm_client.rs) connects to the root helper, pushes the      *)
(* allowlist it intends, and pushes again when its fingerprint of rules    *)
(* and files changes.  The helper's reader thread (socket.rs) hands the    *)
(* requests one by one to the main loop (hwprivacy-lsm main.rs), which     *)
(* rewrites the BPF maps entry by entry, while programs open devices, and  *)
(* keeps the allowlist in a cache for its next start.  Files are replaced  *)
(* and removed under both, and each process may end at any moment.         *)
(*                                                                         *)
(* An action is one map operation, one message, or what one task does      *)
(* between two awaits.                                                     *)
(***************************************************************************)
EXTENDS Naturals, Sequences, FiniteSets

CONSTANTS
    Paths,          \* executables named by rules
    Servers,        \* those of the audio server (AUDIO_SERVER_NAMES)
    Versions,       \* files a path can stand for: the inode it has
    CamGuarded,     \* devices.camera
    MicGuarded,     \* devices.microphone
    Readable,       \* paths without a '#': a line of the cache ends at one
    Wants,          \* allowlists the user's rules can add up to
    SoundNodes,     \* minors of ALSA nodes
    Mics,           \* those that capture
    Plugged,        \* those that are there at first
    NoCache,        \* the cache file does not exist
    NoRequest,      \* no request is being handled
    \* Bounds of the environment:
    MaxChanges,     \* changes of rules, files and devices
    MaxEnds,        \* times the helper or the daemon ends
    MaxTimeouts,    \* requests the main loop does not answer within 5 s
    MaxFails        \* failing map operations and cache writes

Perms == {"camera", "audio"}

NoFile == 0

(* What the rules grant: permission bits per executable (PolicyEntry).     *)
Allowlist == [Paths -> SUBSET Perms]

(* The kernel's key: an inode, here the path and which of its files.       *)
Ino == Paths \X Versions

ASSUME PushAssumption ==
    /\ IsFiniteSet(Paths)
    /\ Servers \subseteq Paths /\ Readable \subseteq Paths
    /\ Versions \subseteq Nat \ {NoFile} /\ IsFiniteSet(Versions)
    /\ CamGuarded \in BOOLEAN /\ MicGuarded \in BOOLEAN
    /\ Wants \subseteq Allowlist
    /\ NoCache \notin Allowlist
    /\ Mics \subseteq SoundNodes /\ Plugged \subseteq SoundNodes
    /\ MaxChanges \in Nat /\ MaxEnds \in Nat
    /\ MaxTimeouts \in Nat /\ MaxFails \in Nat

VARIABLES
    \* Rules and files
    want,           \* the allowlist the configuration adds up to
    disk,           \* the file each path stands for
    nodes,          \* ALSA nodes present in /dev/snd
    \* lsm_client
    cpc,            \* where the client task is
    notified,       \* policy_dirty was raised while it waited
    fingerprint,    \* PolicyFingerprint of the last push
    enforce,        \* the session's locals enforce and enforce_audio
    enforceAudio,
    status,         \* KernelLayerState
    \* The socket
    conn,           \* number of the client's connection
    connUp,         \* both ends of it are open
    lines,          \* requests written and not yet read
    replies,        \* replies written and not yet read
    \* The helper
    hUp,            \* it runs and its programs are attached
    waiting,        \* the reader waits for the answer to its last request
    inbox,          \* requests handed to the main loop
    hpc,            \* where the main loop is
    cur,            \* the request it handles
    wanted,         \* replace_policy: what the map is to hold
    toAdd,          \* replace_policy: keys still to be written
    stale,          \* replace_policy: keys still to be deleted
    capturing,      \* push_capture_minors: the minors to enforce
    unplugged,      \* push_capture_minors: minors still to be deleted
    flags,          \* its locals enforcing and enforcing_audio
    cache,          \* the cache file
    \* BPF maps
    kmap,           \* policy
    kflags,         \* config_map
    kminors,        \* capture_minors
    left,           \* history: entries whose deletion failed
    \* Counters of the bounds, and the last allowlist reported as applied
    changes, ends, timeouts, fails, cacheFails, applied

ruleVars == <<want, disk, nodes>>
clientVars == <<cpc, notified, fingerprint, enforce, enforceAudio, status>>
sockVars == <<conn, connUp, lines, replies>>
work == <<wanted, toAdd, stale, capturing, unplugged>>
helperVars == <<hUp, waiting, inbox, hpc, cur, work, flags>>
kernelVars == <<kmap, kflags, kminors, left>>
boundVars == <<changes, ends, timeouts, fails, cacheFails>>

vars == <<ruleVars, clientVars, sockVars, helperVars, cache, kernelVars,
          boundVars, applied>>

-----------------------------------------------------------------------------
(* The configuration's view of the kernel layer.                           *)

Nothing == [p \in Paths |-> {}]

Flags == [cam: BOOLEAN, aud: BOOLEAN]

Off == [cam |-> FALSE, aud |-> FALSE]

(* audio_backstop_blocker: without the audio server in the list, enforcing *)
(* would deny every application its microphone.                            *)
Blocked(allow) == ~\E p \in Servers : "audio" \in allow[p]

(* intended_policy.                                                        *)
IntendedFlags(allow) ==
    [cam |-> CamGuarded, aud |-> MicGuarded /\ ~Blocked(allow)]

Request == [kind: {"hello"}] \cup [kind: {"set"}, allow: Allowlist, flags: Flags]

Intended(allow) ==
    [kind |-> "set", allow |-> allow, flags |-> IntendedFlags(allow)]

(* A request and the connection it came over.                              *)
Line == [conn: Nat, req: Request]

ASSUME RequestAssumption == NoRequest \notin Line

(* Mutation of Fingerprint: the files behind the paths are not compared.   *)
FingerprintNoFiles(allow) ==
    [allow |-> allow, flags |-> IntendedFlags(allow),
     files |-> [p \in Paths |-> NoFile]]

(* PolicyFingerprint::take: entries, flags and the identity of each file.  *)
Fingerprint(allow) ==
    [allow |-> allow, flags |-> IntendedFlags(allow),
     files |-> [p \in Paths |-> IF allow[p] = {} THEN NoFile ELSE disk[p]]]

Fingerprints == [allow: Allowlist, flags: Flags,
                 files: [Paths -> Versions \cup {NoFile}]]

(* PolicyKey::from_path on every entry: what the policy map would hold.    *)
Resolve(allow) ==
    [i \in Ino |-> IF disk[i[1]] = i[2] THEN allow[i[1]] ELSE {}]

Held(map) == {i \in Ino : map[i] # {}}

(* Entries whose file was missing are reported, not dropped.               *)
Unresolved(allow, map) ==
    {p \in Paths : allow[p] # {} /\ \A i \in Held(map) : i[1] # p}

Reply == [kind: {"hello"}, flags: Flags]
    \cup [kind: {"applied"}, count: Nat, unresolved: SUBSET Paths]
    \cup [kind: {"error"}]

Status == [connected: BOOLEAN, cam: BOOLEAN, aud: BOOLEAN, allowed: Nat,
           unresolved: SUBSET Paths]

NoStatus == [connected |-> FALSE, cam |-> FALSE, aud |-> FALSE, allowed |-> 0,
             unresolved |-> {}]

(* A configuration is loaded; the helper was never started before.  Each   *)
(* path has its first file, or none yet.                                   *)
Init ==
    /\ want \in Wants
    /\ disk \in [Paths -> Versions \cup {NoFile}]
    /\ \A p \in Paths, v \in Versions : disk[p] <= v
    /\ nodes = Plugged
    /\ cpc = "off" /\ notified = FALSE
    /\ fingerprint = Fingerprint(Nothing)
    /\ enforce = FALSE /\ enforceAudio = FALSE
    /\ status = NoStatus
    /\ conn = 0 /\ connUp = FALSE /\ lines = <<>> /\ replies = <<>>
    /\ hUp = FALSE /\ waiting = FALSE /\ inbox = <<>>
    /\ hpc = "idle" /\ cur = NoRequest
    /\ wanted = [i \in Ino |-> {}] /\ toAdd = {} /\ stale = {}
    /\ capturing = {} /\ unplugged = {} /\ flags = Off
    /\ cache = NoCache
    /\ kmap = [i \in Ino |-> {}] /\ kflags = Off /\ kminors = {} /\ left = {}
    /\ changes = 0 /\ ends = 0 /\ timeouts = 0
    /\ fails = 0 /\ cacheFails = 0
    /\ applied = NoCache

-----------------------------------------------------------------------------
(* The user, the package manager and the hardware.                         *)

Change == changes < MaxChanges /\ changes' = changes + 1

(* A rule is written over D-Bus, or by a prompt's answer.  notify_waiters  *)
(* reaches the client only while it waits.                                 *)
WriteRule(w) ==
    /\ Change
    /\ w # want
    /\ want' = w
    /\ notified' = (notified \/ cpc = "select")
    /\ UNCHANGED <<disk, nodes, cpc, fingerprint, enforce, enforceAudio, status,
                   sockVars, helperVars, cache, kernelVars, ends, timeouts,
                   fails, cacheFails, applied>>

(* import_preset adds rules and wakes nobody.                              *)
ImportPreset(w) ==
    /\ Change
    /\ w # want /\ \A p \in Paths : want[p] \subseteq w[p]
    /\ want' = w
    /\ UNCHANGED <<disk, nodes, clientVars, sockVars, helperVars, cache,
                   kernelVars, ends, timeouts, fails, cacheFails,
                   applied>>

(* A binary is installed, upgraded (a new inode) or removed.               *)
ReplaceFile(p, v) ==
    /\ Change
    /\ v = NoFile \/ v > disk[p]
    /\ v # disk[p]
    /\ disk' = [disk EXCEPT ![p] = v]
    /\ UNCHANGED <<want, nodes, clientVars, sockVars, helperVars, cache,
                   kernelVars, ends, timeouts, fails, cacheFails,
                   applied>>

(* A sound device is plugged in or unplugged.                              *)
PlugSound(m) ==
    /\ Change
    /\ nodes' = IF m \in nodes THEN nodes \ {m} ELSE nodes \cup {m}
    /\ UNCHANGED <<want, disk, clientVars, sockVars, helperVars, cache,
                   kernelVars, ends, timeouts, fails, cacheFails,
                   applied>>

-----------------------------------------------------------------------------
(* lsm_client: one session after the other.                                *)

(* run: a connection is made and the greeting sent.                        *)
Connect ==
    /\ cpc = "off"
    /\ hUp
    /\ cpc' = "connected"
    /\ conn' = conn + 1
    /\ connUp' = TRUE
    /\ lines' = Append(lines, [conn |-> conn + 1, req |-> [kind |-> "hello"]])
    /\ replies' = <<>>
    /\ UNCHANGED <<ruleVars, notified, fingerprint, enforce, enforceAudio,
                   status, helperVars, cache, kernelVars, boundVars, applied>>

Push(w) == lines' = Append(lines, [conn |-> conn, req |-> Intended(w)])

(* The allowlist is pushed as soon as the session starts.                  *)
InitialPush ==
    /\ cpc = "connected" /\ connUp
    /\ Push(want)
    /\ fingerprint' = Fingerprint(want)
    /\ enforce' = IntendedFlags(want).cam
    /\ enforceAudio' = IntendedFlags(want).aud
    /\ cpc' = "busy"
    /\ UNCHANGED <<ruleVars, notified, status, conn, connUp, replies,
                   helperVars, cache, kernelVars, boundVars, applied>>

(* The loop comes back to select!, with a new Notified: what was raised    *)
(* since the last one is lost.                                             *)
Await ==
    /\ cpc = "busy"
    /\ cpc' = "select"
    /\ notified' = FALSE
    /\ UNCHANGED <<ruleVars, fingerprint, enforce, enforceAudio, status,
                   sockVars, helperVars, cache, kernelVars, boundVars, applied>>

(* Compare and push.  enforce follows the push, enforce_audio does not.    *)
PushIfChanged ==
    /\ \/ /\ Fingerprint(want) # fingerprint
          /\ Push(want)
          /\ fingerprint' = Fingerprint(want)
          /\ enforce' = IntendedFlags(want).cam
       \/ /\ Fingerprint(want) = fingerprint
          /\ UNCHANGED <<lines, fingerprint, enforce>>
    /\ cpc' = "busy"
    /\ UNCHANGED <<ruleVars, notified, enforceAudio, status, conn, connUp,
                   replies, helperVars, cache, kernelVars, boundVars, applied>>

OnDirty == cpc = "select" /\ connUp /\ notified /\ PushIfChanged

OnRecheckTick == cpc = "select" /\ connUp /\ PushIfChanged

(* Mutation of RecvReply: an applied policy leaves the status alone.       *)
RecvReplyKeepsStatus ==
    /\ cpc = "select"
    /\ replies # <<>>
    /\ LET r == Head(replies)
       IN  \/ /\ r.kind = "hello"
              /\ status' = [status EXCEPT !.connected = TRUE, !.cam = r.flags.cam,
                                          !.aud = r.flags.aud]
           \/ r.kind # "hello" /\ UNCHANGED status
    /\ replies' = Tail(replies)
    /\ cpc' = "busy"
    /\ UNCHANGED <<ruleVars, notified, fingerprint, enforce, enforceAudio,
                   conn, connUp, lines, helperVars, cache, kernelVars,
                   boundVars, applied>>

(* A reply is taken from the socket.  An error changes neither the         *)
(* fingerprint nor the flags (last_error is not modelled).                 *)
RecvReply ==
    /\ cpc = "select"
    /\ replies # <<>>
    /\ LET r == Head(replies)
       IN  \/ /\ r.kind = "hello"
              /\ status' = [status EXCEPT !.connected = TRUE, !.cam = r.flags.cam,
                                          !.aud = r.flags.aud]
           \/ /\ r.kind = "applied"
              /\ status' = [status EXCEPT !.cam = enforce, !.aud = enforceAudio,
                                          !.allowed = r.count,
                                          !.unresolved = r.unresolved]
           \/ r.kind = "error" /\ UNCHANGED status
    /\ replies' = Tail(replies)
    /\ cpc' = "busy"
    /\ UNCHANGED <<ruleVars, notified, fingerprint, enforce, enforceAudio,
                   conn, connUp, lines, helperVars, cache, kernelVars,
                   boundVars, applied>>

(* End of file, or a write to a closed socket.                             *)
SessionEnds ==
    /\ cpc # "off" /\ ~connUp
    /\ cpc' = "off"
    /\ status' = [status EXCEPT !.connected = FALSE, !.cam = FALSE, !.aud = FALSE]
    /\ UNCHANGED <<ruleVars, notified, fingerprint, enforce, enforceAudio,
                   sockVars, helperVars, cache, kernelVars, boundVars, applied>>

End == ends < MaxEnds /\ ends' = ends + 1

(* The daemon ends and is started again.  What it wrote to the socket      *)
(* before is still read.                                                   *)
DaemonEnds ==
    /\ End
    /\ cpc' = "off" /\ notified' = FALSE
    /\ status' = NoStatus
    /\ connUp' = FALSE /\ replies' = <<>>
    /\ UNCHANGED <<ruleVars, fingerprint, enforce, enforceAudio, conn, lines,
                   helperVars, cache, kernelVars, changes, timeouts, fails,
                   cacheFails, applied>>

-----------------------------------------------------------------------------
(* The helper: the reader of a connection.                                 *)

Tell(c, r) ==
    replies' = IF c = conn /\ connUp THEN Append(replies, r) ELSE replies

(* A line is handed to the main loop.  The next one is read when it is     *)
(* answered.  Connections are served in the order they were made.          *)
ReaderTake ==
    /\ hUp /\ ~waiting /\ lines # <<>>
    /\ inbox' = Append(inbox, Head(lines))
    /\ lines' = Tail(lines)
    /\ waiting' = TRUE
    /\ UNCHANGED <<ruleVars, clientVars, conn, connUp, replies, hUp, hpc, cur,
                   work, flags, cache, kernelVars, boundVars, applied>>

(* No answer within 5 s: the client is told so, and the request is still   *)
(* carried out later.                                                      *)
ReaderTimeout ==
    /\ hUp /\ waiting
    /\ timeouts < MaxTimeouts /\ timeouts' = timeouts + 1
    /\ waiting' = FALSE
    /\ Tell(IF inbox # <<>> THEN inbox[Len(inbox)].conn ELSE cur.conn,
            [kind |-> "error"])
    /\ UNCHANGED <<ruleVars, clientVars, conn, connUp, lines, hUp, inbox, hpc,
                   cur, work, flags, cache, kernelVars, changes, ends, fails,
                   cacheFails, applied>>

(* The answer to request q reaches the reader only if it still waits, and  *)
(* waits for this one, the last it handed over.                            *)
Answer(q, rest, r) ==
    IF rest = <<>> /\ waiting
    THEN Tell(q.conn, r) /\ waiting' = FALSE
    ELSE UNCHANGED <<replies, waiting>>

(* The helper: the main loop.                                              *)

GreetBack ==
    /\ hUp /\ hpc = "idle" /\ inbox # <<>> /\ Head(inbox).req.kind = "hello"
    /\ inbox' = Tail(inbox)
    /\ Answer(Head(inbox), Tail(inbox), [kind |-> "hello", flags |-> flags])
    /\ UNCHANGED <<ruleVars, clientVars, conn, connUp, lines, hUp, hpc, cur,
                   work, flags, cache, kernelVars, boundVars, applied>>

(* SetPolicy: the paths are resolved to what is on disk now.  Only this    *)
(* loop writes the map, so the keys that will be stale are those now.      *)
StartReplace ==
    /\ hUp /\ hpc = "idle" /\ inbox # <<>> /\ Head(inbox).req.kind = "set"
    /\ inbox' = Tail(inbox)
    /\ cur' = Head(inbox)
    /\ wanted' = Resolve(cur'.req.allow)
    /\ toAdd' = Held(wanted')
    /\ stale' = Held(kmap) \ Held(wanted')
    /\ hpc' = "replace"
    /\ UNCHANGED <<ruleVars, clientVars, sockVars, hUp, waiting, capturing,
                   unplugged, flags, cache, kernelVars, boundVars, applied>>

(* replace_policy, step 1: one entry is written.                           *)
AddEntry(i) ==
    /\ hUp /\ hpc = "replace" /\ i \in toAdd
    /\ kmap' = [kmap EXCEPT ![i] = wanted[i]]
    /\ toAdd' = toAdd \ {i}
    /\ left' = left \ {i}
    /\ UNCHANGED <<ruleVars, clientVars, sockVars, hUp, waiting, inbox, hpc,
                   cur, wanted, stale, capturing, unplugged, flags, cache,
                   kflags, kminors, boundVars, applied>>

(* One more operation may fail; an entry that is left behind is counted    *)
(* while it is there.                                                      *)
MayFail == fails + cacheFails + Cardinality(left) < MaxFails

(* map.delete, whose error is thrown away: the entry may stay.             *)
Delete(i) ==
    \/ kmap' = [kmap EXCEPT ![i] = {}] /\ left' = left \ {i}
    \/ MayFail /\ UNCHANGED kmap /\ left' = left \cup {i}

(* Mutation of DropEntry: stale entries go before the new ones are in.     *)
DropEntryFirst(i) ==
    /\ hUp /\ hpc = "replace" /\ toAdd = Held(wanted) /\ i \in Held(kmap)
    /\ Delete(i)
    /\ stale' = stale \ {i}
    /\ UNCHANGED <<ruleVars, clientVars, sockVars, hUp, waiting, inbox, hpc,
                   cur, wanted, toAdd, capturing, unplugged, flags, cache,
                   kflags, kminors, boundVars, applied>>

(* replace_policy, step 2: one stale entry is removed.                     *)
DropEntry(i) ==
    /\ hUp /\ hpc = "replace" /\ toAdd = {} /\ i \in stale
    /\ Delete(i)
    /\ stale' = stale \ {i}
    /\ UNCHANGED <<ruleVars, clientVars, sockVars, hUp, waiting, inbox, hpc,
                   cur, wanted, toAdd, capturing, unplugged, flags, cache,
                   kflags, kminors, boundVars, applied>>

(* DeviceIndex: of the nodes in /dev/snd, those that capture.              *)
CaptureMinors == nodes \cap Mics

(* push_capture_minors: /dev/snd is scanned again ...                      *)
ScanMinors ==
    /\ hUp /\ hpc = "replace" /\ toAdd = {} /\ stale = {}
    /\ capturing' = CaptureMinors
    /\ unplugged' = kminors \ CaptureMinors
    /\ hpc' = "minors"
    /\ UNCHANGED <<ruleVars, clientVars, sockVars, hUp, waiting, inbox, cur,
                   wanted, toAdd, stale, flags, cache, kernelVars, boundVars,
                   applied>>

(* ... the minors that are gone are deleted, with no look at the result,   *)
DropMinor(m) ==
    /\ hUp /\ hpc = "minors" /\ m \in unplugged
    /\ kminors' = kminors \ {m} \/ (MayFail /\ UNCHANGED kminors)
    /\ unplugged' = unplugged \ {m}
    /\ UNCHANGED <<ruleVars, clientVars, sockVars, hUp, waiting, inbox, hpc,
                   cur, wanted, toAdd, stale, capturing, flags, cache, kmap,
                   kflags, left, boundVars, applied>>

(* ... and then the others are added.                                      *)
AddMinor(m) ==
    /\ hUp /\ hpc = "minors" /\ unplugged = {} /\ m \in capturing \ kminors
    /\ kminors' = kminors \cup {m}
    /\ UNCHANGED <<ruleVars, clientVars, sockVars, helperVars, cache, kmap,
                   kflags, left, boundVars, applied>>

MinorsDone == hpc = "minors" /\ unplugged = {} /\ capturing \subseteq kminors

(* Mutation of WriteConfig: the kernel's flags are not written.            *)
WriteConfigLocalOnly ==
    /\ hUp /\ MinorsDone
    /\ flags' = cur.req.flags
    /\ hpc' = "cache"
    /\ UNCHANGED <<ruleVars, clientVars, sockVars, hUp, waiting, inbox, cur,
                   work, cache, kernelVars, boundVars, applied>>

(* write_config: both enforcement flags.                                   *)
WriteConfig ==
    /\ hUp /\ MinorsDone
    /\ kflags' = cur.req.flags
    /\ flags' = cur.req.flags
    /\ hpc' = "cache"
    /\ UNCHANGED <<ruleVars, clientVars, sockVars, hUp, waiting, inbox, cur,
                   work, cache, kmap, kminors, left, boundVars, applied>>

(* Mutation of Done: the request is kept.                                  *)
DoneKeepsRequest ==
    /\ hpc' = "idle" /\ UNCHANGED cur
    /\ toAdd' = {} /\ stale' = {} /\ capturing' = {} /\ unplugged' = {}

(* The reply is made, and the request is gone.                             *)
Done ==
    /\ hpc' = "idle" /\ cur' = NoRequest
    /\ toAdd' = {} /\ stale' = {} /\ capturing' = {} /\ unplugged' = {}

(* Mutation of WriteCache: only entries that resolve now are kept.         *)
WriteCacheResolvedOnly(ok) ==
    /\ hUp /\ hpc = "cache"
    /\ \/ ok /\ UNCHANGED cacheFails
          /\ cache' = [p \in Paths |->
                          IF disk[p] = NoFile THEN {} ELSE cur.req.allow[p]]
       \/ /\ ~ok
          /\ MayFail /\ cacheFails' = cacheFails + 1
          /\ UNCHANGED cache
    /\ Answer(cur, inbox, [kind |-> "applied", count |-> Cardinality(Held(wanted)),
                           unresolved |-> Unresolved(cur.req.allow, wanted)])
    /\ applied' = cur.req.allow
    /\ Done
    /\ UNCHANGED <<ruleVars, clientVars, conn, connUp, lines, hUp, inbox,
                   wanted, flags, kernelVars, changes, ends, timeouts, fails>>

(* write_cache, by rename, with every path that was sent; a failure is     *)
(* only logged.  Then the push is reported as applied.                     *)
WriteCache(ok) ==
    /\ hUp /\ hpc = "cache"
    /\ \/ ok /\ UNCHANGED cacheFails
          /\ cache' = cur.req.allow
       \/ /\ ~ok
          /\ MayFail /\ cacheFails' = cacheFails + 1
          /\ UNCHANGED cache
    /\ Answer(cur, inbox, [kind |-> "applied", count |-> Cardinality(Held(wanted)),
                           unresolved |-> Unresolved(cur.req.allow, wanted)])
    /\ applied' = cur.req.allow
    /\ Done
    /\ UNCHANGED <<ruleVars, clientVars, conn, connUp, lines, hUp, inbox,
                   wanted, flags, kernelVars, changes, ends, timeouts, fails>>

(* Writing an entry, a minor or the flags fails: the rest of the           *)
(* request is not carried out.                                             *)
RequestFails ==
    /\ hUp
    /\ \/ hpc = "replace" /\ toAdd # {}
       \/ hpc = "minors" /\ unplugged = {}
    /\ MayFail /\ fails' = fails + 1
    /\ Answer(cur, inbox, [kind |-> "error"])
    /\ Done
    /\ UNCHANGED <<ruleVars, clientVars, conn, connUp, lines, hUp, inbox,
                   wanted, flags, cache, kernelVars, changes, ends, timeouts,
                   cacheFails, applied>>

(* The process ends: nothing is pinned, so the kernel gates nothing.       *)
HelperEnds ==
    /\ End
    /\ hUp /\ hUp' = FALSE
    /\ waiting' = FALSE /\ inbox' = <<>> /\ Done
    /\ wanted' = [i \in Ino |-> {}] /\ flags' = Off
    /\ kmap' = [i \in Ino |-> {}] /\ kflags' = Off /\ kminors' = {} /\ left' = {}
    /\ connUp' = FALSE /\ lines' = <<>>
    /\ UNCHANGED <<ruleVars, clientVars, conn, replies, cache, changes,
                   timeouts, fails, cacheFails, applied>>

(* Policy::from_file: the entries of the cache, none when there is none.   *)
(* Of a path with a '#' it reads the part before it, which is taken to be  *)
(* no executable's.                                                        *)
Kept(policy) ==
    IF policy = NoCache THEN Nothing
    ELSE [p \in Paths |-> IF p \in Readable THEN policy[p] ELSE {}]

(* The service unit starts it, with --enforce and --enforce-audio: maps    *)
(* are filled from the cache before the programs are attached.             *)
HelperStart ==
    /\ ~hUp
    /\ hUp' = TRUE
    /\ kmap' = Resolve(Kept(cache))
    /\ kflags' = [cam |-> TRUE, aud |-> TRUE]
    /\ flags' = kflags'
    /\ kminors' = CaptureMinors /\ left' = {}
    /\ UNCHANGED <<ruleVars, clientVars, sockVars, waiting, inbox, hpc, cur,
                   work, cache, boundVars, applied>>

-----------------------------------------------------------------------------
Environment ==
    \/ \E w \in Wants : WriteRule(w) \/ ImportPreset(w)
    \/ \E p \in Paths, v \in Versions \cup {NoFile} : ReplaceFile(p, v)
    \/ \E m \in SoundNodes : PlugSound(m)
    \/ DaemonEnds
    \/ HelperEnds

Client ==
    \/ Connect
    \/ InitialPush
    \/ Await
    \/ OnDirty
    \/ OnRecheckTick
    \/ RecvReply
    \/ SessionEnds

Reader == ReaderTake \/ ReaderTimeout

MainLoop ==
    \/ GreetBack
    \/ StartReplace
    \/ \E i \in Ino : AddEntry(i) \/ DropEntry(i)
    \/ ScanMinors
    \/ \E m \in SoundNodes : DropMinor(m) \/ AddMinor(m)
    \/ WriteConfig
    \/ \E ok \in BOOLEAN : WriteCache(ok)
    \/ RequestFails

Next == Environment \/ Client \/ Reader \/ MainLoop \/ HelperStart

Spec == Init /\ [][Next]_vars

(* tokio and the threads run, the recheck timer is on (exe_recheck_secs is *)
(* not 0), and the service unit restarts the helper.                       *)
FairSpec ==
    /\ Spec
    /\ WF_vars(Client)
    /\ WF_vars(ReaderTake)
    /\ WF_vars(MainLoop)
    /\ WF_vars(HelperStart)

-----------------------------------------------------------------------------
(* Every variable has its type.                                            *)
TypeOK ==
    /\ want \in Allowlist
    /\ disk \in [Paths -> Versions \cup {NoFile}]
    /\ nodes \subseteq SoundNodes /\ kminors \subseteq Mics
    /\ cpc \in {"off", "connected", "busy", "select"}
    /\ notified \in BOOLEAN
    /\ fingerprint \in Fingerprints
    /\ enforce \in BOOLEAN /\ enforceAudio \in BOOLEAN
    /\ status \in Status
    /\ conn \in Nat /\ connUp \in BOOLEAN
    /\ lines \in Seq(Line) /\ replies \in Seq(Reply)
    /\ hUp \in BOOLEAN /\ waiting \in BOOLEAN
    /\ inbox \in Seq(Line)
    /\ hpc \in {"idle", "replace", "minors", "cache"}
    /\ cur \in Line \cup {NoRequest}
    /\ hpc = "idle" <=> cur = NoRequest
    /\ cur # NoRequest => cur.req.kind = "set"
    /\ wanted \in [Ino -> SUBSET Perms] /\ toAdd \subseteq Ino /\ stale \subseteq Ino
    /\ capturing \subseteq Mics /\ unplugged \subseteq Mics
    /\ flags \in Flags
    /\ cache \in Allowlist \cup {NoCache}
    /\ kmap \in [Ino -> SUBSET Perms] /\ left \subseteq Ino
    /\ kflags \in Flags
    /\ changes \in 0..MaxChanges /\ ends \in 0..MaxEnds
    /\ timeouts \in 0..MaxTimeouts /\ fails \in 0..MaxFails
    /\ cacheFails \in 0..MaxFails
    /\ applied \in Allowlist \cup {NoCache}

(* While the helper runs, a permission leaves the kernel only because the  *)
(* policy being applied does not grant it: replace_policy has "no instant  *)
(* where a still-authorised application would be denied", whatever         *)
(* happened to the map before.                                             *)
OnlyRevokedIsTaken ==
    [][hUp /\ hUp' =>
          \A i \in Ino : \A r \in kmap[i] \ kmap'[i] :
              hpc = "replace" /\ r \notin wanted[i]]_vars

(* The policy last reported as applied.                                    *)
LastApplied == IF applied = NoCache THEN Nothing ELSE applied

(* A helper that starts enforces the last policy it reported as applied,   *)
(* on the files as they are now: nothing that was revoked comes back, and  *)
(* an entry whose file was missing then is not forgotten.  Excepted are a  *)
(* failed cache write, and paths with a '#', which lose their permissions. *)
RestartRestoresPolicy ==
    [][~hUp /\ hUp' /\ cacheFails = 0 =>
          \A i \in Ino :
              /\ kmap'[i] \subseteq Resolve(LastApplied)[i]
              /\ i[1] \in Readable => kmap'[i] = Resolve(LastApplied)[i]]_vars

(* Nothing is under way between the daemon and the kernel.                 *)
Settled ==
    /\ cpc = "select" /\ connUp
    /\ lines = <<>> /\ inbox = <<>> /\ hpc = "idle" /\ replies = <<>>

(* The policy map, but for the entries that could not be deleted.          *)
Meant == [i \in Ino |-> IF i \in left THEN {} ELSE kmap[i]]

(* What status shows follows the kernel: the camera's flag, the entries    *)
(* without a file, and the number of entries.  That number is shown as     *)
(* the executables that may use the camera (allowed_exes); it is theirs    *)
(* only while no entry is for the microphone alone.  The microphone's flag *)
(* is right unless it changed since the session began: the session's copy  *)
(* is never written again.  Entries that could not be deleted are not      *)
(* counted, and timed-out and failed requests, whose answers are lost, are *)
(* excepted.                                                               *)
StatusFollowsKernel ==
    Settled /\ status.connected /\ timeouts = 0 /\ fails = 0 =>
        /\ status.cam = kflags.cam
        /\ status.unresolved = Unresolved(fingerprint.allow, Meant)
        /\ status.allowed = Cardinality(Held(Meant))
        /\ enforceAudio = IntendedFlags(fingerprint.allow).aud => status.aud = kflags.aud

(* Why StatusFollowsKernel holds.  Unless one timed out, the main loop     *)
(* has the one request the reader waits for, or none.                      *)
OneAtATime ==
    timeouts = 0 =>
        \/ ~waiting /\ inbox = <<>> /\ hpc = "idle"
        \/ waiting /\ Len(inbox) = 1 /\ hpc = "idle"
        \/ waiting /\ inbox = <<>> /\ hpc # "idle"

(* How far the kernel has followed the request in hand.                    *)
MapsFollow ==
    /\ hpc # "idle" => hUp
    /\ hpc = "replace" =>
          /\ \A i \in Held(wanted) \ toAdd : kmap[i] = wanted[i] /\ i \notin left
          /\ Held(kmap) \ Held(wanted) \subseteq stale \cup left
          /\ stale \cap Held(wanted) = {}
    /\ hpc \in {"minors", "cache"} => Meant = wanted
    /\ hpc = "cache" => kflags = cur.req.flags /\ capturing \subseteq kminors

LastPush == [conn |-> conn, req |-> Intended(fingerprint.allow)]

(* The answer that reports the kernel as it is.                            *)
Report == [kind |-> "applied", count |-> Cardinality(Held(Meant)),
           unresolved |-> Unresolved(fingerprint.allow, Meant)]

(* The session's last push is still to be read, with the main loop, or     *)
(* carried out; then its report is the last the client will read, or what  *)
(* the status shows.                                                       *)
PushIsFollowed ==
    connUp /\ cpc \in {"busy", "select"} /\ timeouts = 0 /\ fails = 0 =>
        /\ enforce = IntendedFlags(fingerprint.allow).cam
        /\ \/ lines # <<>> /\ lines[Len(lines)] = LastPush
           \/ lines = <<>> /\ inbox # <<>> /\ inbox[Len(inbox)] = LastPush
           \/ lines = <<>> /\ inbox = <<>> /\ cur = LastPush
           \/ /\ lines = <<>> /\ inbox = <<>> /\ hpc = "idle"
              /\ kflags = IntendedFlags(fingerprint.allow)
              /\ \/ replies # <<>> /\ replies[Len(replies)] = Report
                 \/ /\ replies = <<>>
                    /\ status.cam = kflags.cam /\ status.aud = enforceAudio
                    /\ status.allowed = Report.count
                    /\ status.unresolved = Report.unresolved

(* The inductive invariant behind the status.                              *)
PushInvariant ==
    /\ connUp => hUp
    /\ OneAtATime
    /\ MapsFollow
    /\ PushIsFollowed

(* The kernel holds what the rules say of the files as they are, and       *)
(* entries it could not delete.                                            *)
Converged ==
    /\ hUp
    /\ Meant = Resolve(want)
    /\ kflags = IntendedFlags(want)

(* Rules, files and processes change only so often; after that the kernel  *)
(* comes to hold what the rules say and keeps it, whatever notifications   *)
(* were lost, requests timed out and processes restarted.  Only a request  *)
(* that the helper could not carry out is not tried again, and an entry    *)
(* that could not be deleted stays until another push.                     *)
KernelConverges == <>[](Converged \/ fails > 0)
=============================================================================
