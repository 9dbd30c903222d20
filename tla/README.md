# hwprivacy in TLA+

hwprivacy guards a desktop's microphone, camera and speaker monitor. This
directory holds TLA+ models of its two layers, the TLC runs that check them on
small instances, and proofs of the properties that matter most.

* **Layer 1** is the user daemon. It follows PipeWire's graph, decides every
  link from an application to a guarded device, and destroys the refused ones.
* **Layer 2** is a root helper with eBPF programs on `file_open`. It gates
  camera and ALSA capture nodes by an allowlist of executables that the daemon
  pushes to it.

## 1. Inventory

| Part (source) | State | Operations |
|---|---|---|
| Monitoring loop (`hwprivacy-daemon/src/main.rs`) | position in the current update, its undecided groups | receive and reconcile an update, decide a group, allow, refuse, ask, clean up; spawn denial checks and prompts; device rescan |
| PipeWire monitor (`pipewire_monitor.rs`) | `GraphState`, child process, update channel | seed, apply a block, respawn with backoff |
| Link ledger (`link_audit.rs`) | one entry per link id: serial and state | `reconcile`, `forget`, `still_alive`, `verify_denial` |
| Stream tracker (`stream_tracker.rs`) | active connections, while_in_use sessions, dismissals, prompt claims | add, prune, begin/open/refresh/expire a session, dismiss, claim and release |
| Policy engine (`policy_engine.rs`) | none | `evaluate`, `classify_link` |
| Device discovery (`device_discovery.rs`) | list of protected devices | discover, classify a node |
| Link manager (`link_manager.rs`) | none | `pw-link -d` / `pw-cli destroy` by id |
| Prompts (`notification.rs`) | prompts on screen | ask, answer, dismiss |
| Rule table (`hwprivacy-common/src/config.rs`) | rules, defaults, executables | set, remove, look up, save, load, allowlists for the kernel |
| D-Bus service (`dbus_service.rs`) | none of its own | SetRule, RemoveRule, BlockAll, camera and executable calls, presets, merge |
| Kernel layer client (`lsm_client.rs`) | session, fingerprint, status | connect, push, re-push, take replies and events |
| Kernel helper (`hwprivacy-lsm/src/main.rs`, `policy.rs`) | BPF maps, flags, cache file | start from the cache, Hello, SetPolicy, burst accounting |
| Helper socket (`socket.rs`) | connection, request being answered | accept, hand a request over, time out, broadcast events |
| eBPF gate (`devices.bpf.c`) | policy and config maps it reads; open handles, handle counts, bursts, ring buffer it writes | decide an open, track and count it, coalesce and report it, release |
| Event intake (`lsm_client.rs`) | the event in hand, blocked counter, camera questions | count, record, tell, ask, write the answer |
| Device index (`device_index.rs`) | minors of capture nodes | scan `/dev/snd`, role of a node |
| Presets and merge (`preset.rs`, `rule_merge.rs`) | none | plan and apply a preset; find splits, preview and merge |
| Identities, history (`identity.rs`, `history.rs`) | observed pairs, announced splits; opens per executable | observe, announce, save; record, save |
| Frontends (`hwprivacy-ctl`, `-tui`, `-gui`) | the list last fetched | calls of the D-Bus service |

**How they interact.** The monitor sends snapshots through an unbounded channel
to the loop. Loop, denial checks, prompt tasks, D-Bus methods, rescan and
kernel client share one `DaemonState` behind an async `RwLock`, which is
released across every command, notification and prompt. Rules reach the client
through `Notify::notify_waiters` and a recheck timer; the client speaks
newline-delimited JSON to a reader thread of the helper, which hands one
request at a time to the main loop; that loop writes BPF maps which programs
on every CPU read. What those programs see goes the other way: ring buffer,
main loop, an event channel that outlives every connection, the connection, the
client, which counts it, writes the history and asks the user; the answer
changes the rule table, and with it the policy.

**What is hard.** Ids that PipeWire reuses within a block or after a restart;
links that arrive before the properties of their nodes; decisions that are
carried out by id after the lock is gone; commands that fail for one channel of
a stereo stream; prompts answered after the world moved on; notifications that
nobody was waiting for; a policy map rewritten in steps under running programs;
requests that time out and are carried out all the same; files replaced between
the daemon's stat and the helper's; a hook that is not atomic, whose pointer
into a map another CPU has made stale; opens swallowed by coalescing that must
be counted all the same, though the map is flushed under the hooks and the
connection may break; a configuration saved in place; one application under
several names; either process ending at any moment.
`PROJECT.json` lists each hazard at its line.

**What makes each part correct.** Loop, monitor and ledger: no link on a
protected device stays undecided, and none is decided twice. Loop and denial
check: a refused link that still flows is pursued until it is gone or reported.
Tracker: what was let through is tracked, one question per application and
device, no leaked claim. Client and helper: the kernel comes to hold what the
rules say, a rewrite takes nothing from an application that keeps its
permission, a restart restores the last policy, the status is true. Gate: the
last close of a camera is found, a refused open holds nothing. Event path: every
open is counted once, in the counter and in the history, and a user's yes gets to
the kernel. Rule table: one rule per name, what was reported as done is durable,
a torn file grants nothing, and merge, import and answer change what they were
asked to and nothing else.

## 2. Modules

| Module | Models | Extends |
|---|---|---|
| `PolicyEngine` | permissions, rule look-up, `evaluate`, prompt buttons | |
| `LinkAudit` | links, ledger, classification, grouping, as functions | `PolicyEngine` |
| `StreamTracker` | sessions and cooldowns, as functions of the time | `LinkAudit` |
| `MonitoringLoop` | **layer 1**: PipeWire, monitor, loop, denial checks, prompts, user, rescan | `StreamTracker` |
| `LinkGuard` | what layer 1 promises of links: the abstract specification | |
| `KernelPush` | **layer 2, downwards**: rules and files, client, socket, helper main loop, cache, BPF maps | |
| `KernelGate` | **layer 2, the hooks**: `file_open` and `file_release` of several tasks, one map operation a step | |
| `EventPath` | **layer 2, upwards**: gate, burst flush, ring, helper, socket, client, history, question, push | `KernelGate` |
| `RuleStore` | **the rule table**: calls, presets, merge, answers, identities, the two files | |
| `MonitoringLoopProofs`, `LinkTableProofs`, `LinkGuardProofs`, `KernelPushProofs`, `KernelGateProofs`, `EventPathProofs`, `RuleStoreProofs` | theorems | the module they are about |
| `Sums` | lemmas about the sums that count what is on its way | |
| `MonitoringLoopClaims`, `KernelGateClaims`, `RuleStoreClaims` | statements the code does not keep | |
| `MCMonitoringLoop`, `MCKernelPush`, `MCKernelGate`, `MCEventPath`, `MCRuleStore` | TLC instances | |

`EventPath` composes: a step of the gate is a step of `KernelGate` with the rest
of the path unchanged, and the policy map the gate reads is what the last push
wrote. `MonitoringLoop` implements `LinkGuard` (`ImplementsGuard`).

### Layer 1

An action is what one task does under one acquisition of the state lock, or one
batch of external commands. `pc` follows `monitoring_loop` through an update:

    idle -RecvUpdate-> groups -DecideGroup-> allow | deny | ask
    allow -AllowGroup-> groups        deny -RefuseGroup-> groups
    ask -RefuseGroup-> cooldown -ReadCooldown-> claim -ClaimPrompt-> prompt -ShowPrompt-> groups
    groups -Cleanup-> idle

Between any two of these, PipeWire's clients may make, change and drop links,
the user may answer a prompt or set a rule, a denial check may run
(`CheckAlive`, `CheckRetry`, `CheckReport`) and the monitor may queue another
snapshot (`Seed`, `Block`) or die.

Each link PipeWire makes has a number, `inst`. No guard reads it; it is how the
properties tell two links apart that share an id, or an id and a serial.
`verdict`, `reported` and `seenDevs` are history kept for the properties.

Abstractions: ports and media classes become a direction; `destroy_links` runs
its commands as one step in which any subset fails; groups of an update are
decided in any order; `Norm` stands for `normalize_app_name` and for the key
`sanitize_rule_name` gives a rule; every block parses; a rescan is one step from
its read of the graph to its write of the device list, which is harmless, since
what appears in between is found by the next one; a rescan that fails changes
nothing and is left out; counters, event log and wording are left out.

`LinkGuard` knows neither blocks nor ids nor tasks: links are made, judged, end,
and a pursuit of a refused link is given up only over one that is gone or was
reported. The mapping takes `inst` for the link, the live links of `pw` for what
flows, and the keys the loop and the checks act on for what is pursued.

### Layer 2, downwards

The client is `off`, `connected`, `busy` (between two waits) or in `select!`.
`notify_waiters` reaches it only in `select`. The reader holds one request in
the main loop at a time, unless it timed out. `SetPolicy` is not atomic: each
map entry written or removed, each minor removed and added, the flags and the
cache are steps of their own (`AddEntry`, `DropEntry`, `ScanMinors`, `DropMinor`,
`AddMinor`, `WriteConfig`, `WriteCache`), any of which may fail or be the last of
the process. A deletion whose failure the code throws away leaves its entry in
the map and in `left`, a history, and the push goes on. A path stands for a
numbered file; `Resolve` gives the map for the files as they are; the minors are
those of the capture nodes among the sound nodes that are there when the push
scans them; between the two minor loops capture nodes are not gated. What the
cache gives back is `Kept`: a path that is not in `Readable`, one with a `#`,
loses its permissions. `applied` remembers what was last reported as applied.

Abstractions: a path's files have growing numbers, so an inode that is freed and
used again for another file of the same path between two stats is not covered;
distinct paths are distinct files; both sides speak the same protocol version; a
cache that cannot be read (the helper then refuses to start) and the requests
`GetPolicy` and `Ping`, which the daemon never sends, are left out.

### Layer 2, the hooks

`hook[t]` is where task `t` is inside a hook. An open goes

    OpenVerdict -> Track -> CountLookup -> CountAdd | CountOne        (allowed cameras)
                -> CoalesceLookup -> Swallow | TakeBurst | FirstBurst -> Report

and a close `Close` to `ReleaseLookup`, `ReleaseDecrement`, `ReleaseRecheck`,
`ReleaseForget`, `ReleaseReport`. What a look-up returns is a pointer; when
another task deletes or replaces the entry, `fresh` becomes false, and what goes
through the pointer afterwards is lost or lands in another entry. `truth` counts
the opens that were judged. The hook runs before the driver's own open
(`DriverOpens`), which may fail (`DriverRefuses`): then no release hook follows,
and `leaked`, a history, has the file whose entry stays. The map operations are
atomic, as the kernel's hash
maps and `__sync_fetch_and_add` are; the two fields of a burst entry that
`reset` writes are one step.

Two histories name where the code is inexact by design, and the properties
except just those: `overlapped`, executables two of whose hooks counted at the
same time (the first two opens of one executable may both find no count and both
write one); and `blurred`, bursts whose entry was changed between look-up and
write, which mixed verdicts, or of which an event was lost in a full ring, with
a connection or with the helper's process.

Abstractions: the capacity of the coalesce map is not reached; the resolution of
kernel pointers to device and inode is left out. `GateInit` starts from any
policy and enforcement.

### Layer 2, upwards

The helper's loop takes ring events (`RingCallback`), flushes stale bursts in
two steps, the entries read (`FlushRead`) and written back one by one
(`FlushWrite`) while hooks count, and pushes policies (`PushPolicy`, which
stands for all of `KernelPush`, for a push on a wakeup and one on the recheck
alike: that a wakeup can be lost is `KernelPush`'s). When the loop ends
(`HelperStops`) it flushes once more, and then the process ends (`HelperExits`):
maps, ring and channel are gone, and of what the writer was handed the client
reads what is in the socket. `LostWithHelper` are the bursts of what was on its
way. The next start (`HelperStarts`) finds programs with cameras open that its
maps do not know. `pipe` is the event channel, `out` what the
writer has. The daemon takes one event at a time and lets go of its lock between
counting, deciding and asking. `Answer` makes the rule, attaches the binary,
writes the permission and saves; with the binary gone only the first is left, in
memory. A restart of the daemon loses what was in hand, and reads rules and
history from disk.

Abstractions: an executable is known by its path (the helper's `<exited>` and
`<dev= ino=>` names are not modelled); one day; a history save that fails is left
out; the camera session that a release would end does not exist, because
`set_rule` refuses while_in_use for the camera.

### The rule table

A call holds the state lock from its first look at the table to the end of its
save, so it is one step; what can come in between lies inside the save.
`Config::save` truncates the file and writes it in place, so a save that fails
leaves `Torn`: nothing that parses, the settings, or some rules and a part of
one more, whose last lines are missing. An empty file parses, as the defaults.
`Load` takes the user's file, the system's, or the defaults. `drafts` remembers
every configuration that was given to save since one was written, `answer` what
the last call told its caller.

Names are of three kinds: as a person or a stream spells them, the key a look-up
uses (`Norm`), and the key a rule is stored under (`Sane`). They differ, and
which function an operation uses is modelled as it is in the code.

Abstractions: rules have no order, so `FirstOwners` leaves open which of several
rules of one binary `find_rule_by_exe` meets first; stored names are normalised
and unique (a file edited by hand may hold others, and `Config::load` does not
check), and names that carry two process labels are left out, for which `Sane`
would not be idempotent; the torn file has the opinions of a rule in the order
of its fields; that a split was announced is saved and its notice shown in one
step. The binaries that are there (`present`) include ones that a preset names by
a relative path, which are looked up in the daemon's working directory.

## 3. Runs

| Run | Question | Result |
|---|---|---|
| `links` | One id, reused up to three times, within a block and across outages, while the rule is flipped and commands fail | `TypeOK`, `EveryLinkAccountedFor`, `PursuitInvariant`, `AllowedIsTracked`, `ConnectionsEndWithLinks` hold, and `ImplementsGuard`. `ConnectionsEndWithLinks` excepts an id that a link which is not let through took over |
| `groups` | Two channels of a stream, or microphone and monitor at once, with block-all, and devices plugged in and found by a rescan only | accounting, pursuit and tracking hold for every link of a group; a decision stands (`DecisionStands`) |
| `serials` | Blocks that leave serials out, two links of one id, devices found late by the rescan | a link is decided once, or was mistaken for another (`DecidedOnce`); a refused one is not lost (`RefusedIsNotLost`) |
| `prompts` | Two streams of one application under two names run into a question | `OneQuestionPerPair` holds |
| `live` | One stream under fairness, with an outage and a rescan that no update need follow | every link on a device known at the last update is decided (`LinkEventuallyDecided`), every refusal settled, every question asked |
| `kernel` | Rules, files, devices, timeouts, failures, deletions that fail and ends of both processes during pushes | `TypeOK`, `PushInvariant`, `StatusFollowsKernel`, `OnlyRevokedIsTaken`, `RestartRestoresPolicy`, `KernelConverges` hold |
| `gate` | Two tasks in the hooks, of one or of two executables, three handles of cameras, room for two, opens that the driver refuses, a grant changing, a full ring | `TypeOK`, `CountsAreExact`, `TrackedUnlessRefused` hold |
| `events` | Three opens through coalescing, flush, ring, socket and daemon, and an answer, with a broken connection, a restart or an end and next start of the helper | `TypeOKPath`, `EveryOpenIsCounted`, `CountersAgree` hold, and under fairness `GrantReachesTheGate`, `SwallowedIsReported` |
| `rules` | Every call on three initial files, a save cut off at any line, a binary that comes or goes, restarts | `TypeOK`, `OneRulePerName`, `DoneIsDurable`, `SplitAnnouncedOnce`, `RestartGrantsNothing`, `MergeNeverGuesses`, `ImportOnlyAdds`, `AnswerIsObeyed` hold |

Three runs refute statements of the repository. Each is a finding in
`PROJECT.json` with the lines on both sides:

| Run | Statement | What the code does |
|---|---|---|
| `claim_failed_open` | only opens that succeeded are tracked (`devices.bpf.c:283`) | the hook tracks before the driver's open; one that fails leaves its handle in the table and the count, and the release is never reported |
| `claim_unused_grant` | an unused while_in_use grant expires after `awaiting_open_secs` | expiry runs at the end of an update; on a quiet graph the first link after any time is let through |
| `claim_refused_grant` | `AllowCamera` rolls back on a bad path | it removes the rule of that name, also one that was there before, with its microphone opinion |

Read in the code while modelling, and asked by no run:

* Layer 1. Connections are pruned by id (`main.rs:826`): when an id is reused
  within a block by a link that is not let through, the dead link's connection
  stays, and with it the while_in_use session it holds open. A link on a device
  that a rescan finds after the last update is not decided before the graph
  changes again (`main.rs:405-424`). A link without a serial keeps the one known
  for its id (`pipewire_monitor.rs:182`, `link_audit.rs:148`). So a link that
  takes over an id between two blocks and is first reported without a serial
  inherits its predecessor's: it goes undecided, or it is decided under the
  wrong serial and again when its own comes. The destroy commands work by id,
  after the serial was compared, so a link that took the id over in between is
  destroyed. The answer to a second prompt puts a session that a live link holds
  open back to awaiting (`main.rs:768`). A dismissal between the cooldown read
  and the claim is not seen (`main.rs:696`). The Allow branch reads the
  permission a second time, after the lock was released (`main.rs:570`). The
  settle window counts from the decision and not from the release
  (`stream_tracker.rs:382`). Dismissals are kept per raw name while rules are
  kept per normalised one. The update channel is unbounded.
* Layer 2. `allowed_exes` is documented as the executables the kernel allows the
  camera (`lsm_client.rs:43`, and the log line at `:518`), and is the number of
  entries of the map, those for the microphone alone included;
  `StatusFollowsKernel` says what the number is. The deletion of a revoked entry
  that fails is thrown away (`hwprivacy-lsm/src/main.rs:836`) and the push
  reported as applied. A path with a `#` is cut in the cache (`policy.rs:140`)
  and denied after a restart until the daemon pushes. With the table of open
  files full, the close of a tracked handle reports the release while an
  untracked one of the same program is open, which `devices.bpf.c:297` rules
  out; `CountsAreExact` is of the tracked ones. A re-push leaves `enforce_audio`
  as the session's first push had it, so the status may show the capture
  backstop as it was. A push that withdraws server and enforcement removes the
  entry before the flag. The recheck rescans capture minors only when rules or
  files changed. Two first opens of one executable may leave a count of one for
  two handles, and the first close then reports the release. A summary of a
  sound burst carries the role `AUDIO`, which the client does not know, so it is
  not counted; `EveryOpenIsCounted` therefore speaks of cameras.
* Rule table. A preset's relative path is looked up in the daemon's working
  directory (`preset.rs:244`) and written into a rule that `set_rule_exe` would
  refuse (`config.rs:596`). An import looks at names only, so a second name for
  a binary whose rule denies the camera puts it on the kernel's list. `set_rule`
  answers true when the save failed. `set_rule_exe`
  answers "saved nothing" and keeps the change in memory. `allow_camera` accepts
  the empty path. A rule that exists under another name for the same binary is
  not looked for, so two rules may share one; splits are how the user hears of
  it. A preset may carry while_in_use for a camera, which `set_rule` refuses. A
  merge whose save failed puts the table back, while the file may already be cut.
  An answer for a binary that is gone leaves a rule that denies, unsaved.

### Bounds, and why they are enough

* `MaxInst` 3 with one id: a link, the one that takes its id, and the one that
  takes it again; two outages or two reuses add nothing that one does not, since
  the ledger keeps one entry per id and a re-seed empties it. `groups` has
  two ids and two links, which are what makes a group, and one rescan, so a
  device can be found between its two links, after both, or never.
* `MaxQueue` 2: the update being judged, one that contradicts it and one that
  restores it. The bound only delays the monitor.
* `MaxTime` in layer 1: past the longest of the three windows that matter to the
  run. Time matters to `prompts` and `claim_unused_grant` only.
* `SerialMayBeMissing` is on where serials are the question and off elsewhere.
* `MaxChanges`, `MaxEnds`, `MaxTimeouts`, `MaxFails` 1 in `kernel`: each single
  fault at each of some twenty points of a push, in all combinations with each
  other. The initial rules and files vary as well, so one change is a push that
  differs from the one before it.
* `CamGuarded = FALSE` in `kernel`, because the unit starts the helper with the
  camera enforced: a push really changes the flag. `SoundNodes` has two
  nodes that capture, of which one is there at first, and one that does not, so a
  minor can be added and dropped. Of the two paths one has a `#`. One deletion
  may fail, among the failures.
* `live`: one rescan, which need not be followed by an update.
* `gate`: two tasks, because a race is between two hooks, and two executables, so
  one's hook can hit the other's count; three opens, so an executable has two
  handles open and a third is made when the first two are open or one of them is
  closed; `TableCap` 2, so a count goes above one, and the third handle finds the
  table full; `RingCap` 2, so the third event is lost; `Wrap` 8, above every
  count there can be, as 2^32 is. One grant changed and one tick in between, so
  a burst is joined and taken over. Sound nodes, which are not tracked, are in
  the theorems only, which are for every number of each and every kind of node.
* `claim_failed_open`: one camera and two opens, of which the first is refused.
* `events`: one task and one executable, since the races it asks about are
  between the hook and the flush; three opens are one that starts a burst, one
  that is swallowed and one that takes it out; `Window` 1 and two ticks, so the
  burst can go stale. One fault: a connection broken, a restart of the daemon, or
  a helper started again after its end, at every point.
* `rules`: three names of which two are one application's spelling, one binary
  that is absolute and one that is not; two calls, because no property relates
  more than a state and the call before it, and one fault. The initial files have
  two rules of one program, two rules of one binary, none, or the baseline.

`gate` takes tasks, cameras and executables as interchangeable (`Alike`); it
checks invariants only. No other run uses symmetry: liveness is checked, or the
sets are one or two values.
Deadlock is not checked: every environment action is bounded, so a finished
behaviour is one in which nothing more happens to the system.

### Fairness

Layer 1 (`live`): weak fairness of the monitor, the loop and the denial checks.
tokio polls every ready task, `pw-dump` reports every change, and `run_monitor`
respawns its child after the backoff, whatever way it ended. Nothing is assumed
of applications, the user, the clock or the rescan: it may happen or not, and no
update follows from it. `LinkEventuallyDecided` therefore speaks of the devices
the loop knew at its last update; a link on a device found since then may wait
for good, and does in this run.

Layer 2 (`kernel`): weak fairness of the client, the reader, the main loop and
the start of the helper (`Restart=on-failure` in its unit, which a crash is).
The recheck timer runs, as it does unless `exe_recheck_secs` is 0: with 0 a lost
notification is lost for good.

`events`: weak fairness of each hook (a BPF program runs to its end), of the
helper's loop, the threads of a connection and the client, and of the clock, up
to its bound. `PushPolicy` has fairness of its own, since the loop serves its
requests on every round. Nothing makes an application open a device or a user
answer, and the helper may end: both properties speak of a helper that is up.

## 4. Proofs

Seven modules hold the theorems and `Sums` lemmas of theirs. Each theorem is for
every set of the constants and every bound; the assumptions are the named
`ASSUME`s of the modules, which TLC evaluates in every run. (Those of `EventPath`
ask for finitely many tasks and executables, without which nothing could be
counted.) Every invariant and every action property of the passing runs is a
theorem; only liveness is left to the runs.

**`MonitoringLoopProofs`**

* `TypeCorrect`: `Spec => []TypeOK`. It includes that the loop holds a group of
  a guarded category exactly while it acts on one.
* `PursuitIsInvariant`, `RefusedLinksArePursued`: `Spec => []PursuitInvariant`,
  and `[]RefusedIsPursued` from it, for graphs whose links carry serials.
  `RefusedIsPursued` is not inductive: whether a denial check finds its link
  depends on the ledger, which depends on the next snapshot. `PursuitInvariant`
  says that every remembered key, snapshot and queue entry names a link PipeWire
  really made (`LinkIdentity`); that a live link once reported is in every later
  snapshot (`SnapshotsKeepLinks`); that the link of a key in play is found by
  `still_alive` now and after each update on its way (`KeysFollowed`); and that
  a link not made yet is undecided. The proof has a step per action. Serials are
  assumed because without them `RefusedIsPursued` is false: a link that was
  decided under its predecessor's serial is a new one to the ledger when its own
  is reported. `RefusedLinksAreNotLost` (below) is what holds then.
* `LoopImplementsGuard`: `Spec => ImplementsGuard`, under the same assumption: the
  initial states map to `GuardInit`, and each action to a step of the guard or
  a stutter. The hard steps are those of a denial check that ends: that a link it
  does not find is really gone is `PursuitInvariant`.
* `OneQuestion`: `Spec => []OneQuestionPerPair`.

**`LinkGuardProofs`**: `RefusedLinksAreNotForgotten`, that the abstract guard
pursues or has reported every refused link that flows. With `LoopImplementsGuard`
it is the shortest statement of what layer 1 does for its user.

**`LinkTableProofs`**

* `ConnectionsEnd`: `Spec => []ConnectionsEndWithLinks`, for graphs whose links
  carry serials. `ConnInvariant`, which needs no serials, follows an id from the
  connection through the snapshots on their way to the cleanup that prunes it;
  that the connection is that of the very link which has the id, when that was
  let through, is `AllowedLinksAreTracked`.
* `EveryLinkIsAccountedFor`: `Spec => []EveryLinkAccountedFor`, for graphs whose
  links carry serials. `SnapshotInvariant` relates PipeWire, the monitor's graph
  and the queue: what is not marked dirty is reported as it is. `LedgerInvariant`
  says what the ledger would be after each update on its way, and that an entry
  that will be kept belongs to the link it will be kept for.
* `AllowedLinksAreTracked`: `Spec => []AllowedIsTracked`, under the same
  assumption, from `PursuitInvariant` and an invariant that follows the keys of
  allowed groups through the update.
* `RefusedLinksAreNotLost`: `Spec => []RefusedIsNotLost`, with no assumption on
  serials. A refused link that flows is pursued, reported, or up for decision
  again. `SightInvariant` says that an id in an update or a key is the link's
  own, and where each link of PipeWire is shown, `JudgeableInvariant` that a
  link that was ever up for decision stays classified in every update on its
  way, and `NotLostInvariant` that the key it is pursued by is one `still_alive`
  finds.
* `LinksAreDecidedOnce`: `Spec => DecidedOnce`, with no assumption on serials
  either: as long as the monitor has not been respawned, the only link that is
  decided twice is one the ledger has under another's serial. `OnceInvariant`
  says that a link which was up for decision is decided in the ledger as long as
  an update on its way shows it, and has been in every update before that one;
  `FirstLife`, that before the first outage these updates are one history.
* `DecisionsStand`: `Spec => DecisionStands`, for graphs whose links carry
  serials. It needs that a link waits in one group only (`OneGroup`), which holds
  because a stream has one name.

**`KernelPushProofs`**

* `TypeCorrect`: `Spec => []TypeOK`.
* `NothingStandingIsTaken`: `Spec => OnlyRevokedIsTaken`. Only `AddEntry` and
  `DropEntry` write the map of a running helper; the first overwrites an entry
  by what it is to be, the second removes one of which nothing is wanted: that
  the list of these was read before the loop began and stays right is
  `StaleIsStale`, an invariant of its own.
* `RestartsRestore`: `Spec => RestartRestoresPolicy`, from the invariant that the
  cache is the last applied policy as long as no write of it failed. What the
  reader of the cache cuts off (`Readable`) is excepted, and loses permissions
  only.
* `PushesAreFollowed`, `StatusFollows`: `Spec => []PushInvariant` and
  `[]StatusFollowsKernel`. The property speaks of the moments when nothing is
  under way, so the invariant has to follow a push through everything before:
  the main loop holds the one request the reader waits for (`OneAtATime`), the
  maps follow the request in hand step by step (`MapsFollow`), and the session's
  last push is the last unread line, the last request handed over, the one in
  hand, or carried out, with a report that is the last reply or what the status
  shows (`PushIsFollowed`). A timeout breaks the first of these and a failed
  request the last, which is why the property excepts them. Entries that could
  not be deleted are followed in `left`. The number the status shows is that of
  all entries, which is what the theorem says of it; it is not the number of
  executables that may use the camera.

**`KernelGateProofs`**

* `TypeIsInvariant`: `GateSpec => []TypeOK`; a task in a hook has an executable
  and a file (`HookBusy`).
* `OnlyRefusedOpensStay`: `GateSpec => []TrackedUnlessRefused`. A handle in the
  table is an open file, one being opened with leave, or one whose driver
  refused it after the hook: the last is the leak `claim_failed_open` shows, and
  the theorem says there is no other. The strengthening: a file has one holder,
  an open handle or one task; a task in the counting part of an open has leave;
  only cameras are tracked.
* `LastCloseIsFound`: `GateSpec => []CountsAreExact`. For an executable whose
  hooks do not overlap there is at most one counting hook, and the count differs
  from the number of tracked handles by what that hook still has to write, step
  by step (`CountAtStep`); its pointer is fresh. The number is within the table,
  and the table is smaller than the counter's range, so nothing wraps.

**`EventPathProofs`**: `EventPath` is `KernelGate` with more around it, so what
was proved of the gate has to be proved to survive what is around it.

* `PathTypesHold`: `Spec => []TypeOKPath`.
* `PathTracksOpenFiles`, `PathFindsLastClose`: `Spec => []TrackedUnlessRefused`
  and `[]CountsAreExact`. The gate's invariants hold on the whole path, although
  the helper flushes bursts and rewrites the policy under the hooks, ends, and
  starts with empty maps while programs hold cameras open.
* `CountersNeverPart`: `Spec => []CountersAgree`, the daemon's counter of denials
  is what its history gained since it started.
* `OpensAreCountedOnce`: `Spec => []EveryOpenIsCounted`. `OpenInvariant` states
  for each burst and verdict that the opens which happened are those in the
  history and those on their way, where what is on its way is the sum over the
  hooks, the burst entry, the ring, the channel, the connection and the event in
  hand (`CamerasBalance`). Two facts beside it are needed: the ring never holds
  more than its capacity (`RingFits`), so an event that does not fit is known to
  be lost, and a hook that starts a burst has found none
  (`FirstFindsNothing`). The proof has a lemma per action that moves an open
  from one place to the next. Bursts in `blurred` are excepted, as in the
  property, and `blurred` never shrinks. `ExitBalance` is the end of the helper:
  of what its process takes along every burst is in `LostWithHelper`, and what
  the client can still read stays on its way.

What is on its way is a fold over tasks and queues, and a fold is defined by
recursion over a set. `Sums` does without induction over data: of the parts of a
finite set for which a claim about the sum fails one is least (`LeastPart`), and
taking one element from it leads to a contradiction. From this follow the lemmas
that the proofs use: a sum changes by what one summand changes, and the worth of
a queue by what is appended or taken.

**`RuleStoreProofs`**

* `NamesHaveOneRule`, `DoneStays`, `RestartsGrantNothing`, `MergesGuessNothing`,
  `ImportsOnlyAdd`, from `StoreInvariant`: the table, every draft and a file that
  parses have one rule per name; the file holds no more than a draft, rule by
  rule and opinion by opinion (`Within`), which is what makes a torn file
  harmless; and an answered call has its table in the file or a failed save
  behind it.
* `AnswersAreObeyed`: `Spec => AnswerIsObeyed`. A yes puts the binary that was
  asked about on the camera list; after a no its rule denies, and no rule the
  answer wrote allows it. This is so whether the rule is found by the binary, by
  the name, or is new. To the table,
  attaching the binary and then saying yes or no is to replace one rule by one
  that does both (`AttachThenSay`).
* `TypeIsInvariant` and `SplitsAreToldOnce`: `Spec => []TypeOK` and
  `[]SplitAnnouncedOnce`, from `IdInvariant`: a split that was announced is
  remembered as announced, until a failed write is followed by a restart.

The assumption on names is that storing a stored name changes nothing and that
every name a look-up finds can be stored.

**Only model-checked.** Liveness, which is beyond the prover:
`LinkEventuallyDecided`, `RefusedEventuallySettled` and `QuestionEventuallyAsked`
in `live`, `KernelConverges` in `kernel`, `GrantReachesTheGate` and
`SwallowedIsReported` in `events`.

## 5. Not modelled, and what could come next

* **Frontends** (`hwprivacy-ctl`, `-tui`, `-gui`). They keep nothing but the list
  they fetched last and a cursor. Every call they make is an action with any
  argument, so what they can do to the daemon is covered; which call a key press
  leads to is not.
* **Text and numbers**: cutting `pw-dump`'s output into blocks and parsing them,
  parsing TOML and JSON, device number encodings, wording, logs. A block that
  does not parse is dropped by the code; nothing can be said of the graph then
  without an assumption on what `pw-dump` repeats.
* **Installation**: install, uninstall and status commands, attaching and
  pinning the programs, finding preset files.
* **A second client at once**: the accept loop serves one connection after the
  other, so a second waits in the backlog.
* **Bookkeeping**: the event log, audit counters, day boundaries of the history,
  signals of the D-Bus service, the quiet time of the notice of allowed accesses
  (`notify_allow.rs`), which nothing decides from.

Next, in this order: an abstract specification of the policy in the kernel, with
a proof that `KernelPush` implements it; `BlockSplitter`, the splitter against a
reference over all small inputs and all ways of chunking them; the notices of
allowed accesses.
