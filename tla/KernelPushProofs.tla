-------------------------- MODULE KernelPushProofs --------------------------
(***************************************************************************)
(* Theorems about KernelPush, for every set of paths, files and devices,   *)
(* every allowlist the rules can add up to, and every bound.               *)
(***************************************************************************)
EXTENDS KernelPush, FiniteSetTheorems, SequenceTheorems, TLAPS

USE PushAssumption, RequestAssumption

-----------------------------------------------------------------------------
(* Lemmas about the operators the model is built from.                     *)

(* The policy map has finitely many entries, so they can be counted.       *)
LEMMA HeldCount ==
    ASSUME NEW map
    PROVE  Cardinality(Held(map)) \in Nat
<1>1. IsFiniteSet(Ino)
  BY FS_Product DEF Ino
<1>2. IsFiniteSet(Held(map))
  BY <1>1, FS_Subset DEF Held
<1>3. QED
  BY <1>2, FS_CardinalityType

(* While an operation may fail, neither counter of failures is at the bound. *)
LEMMA FailuresBounded ==
    ASSUME TypeOK, MayFail
    PROVE  fails + 1 \in 0..MaxFails /\ cacheFails + 1 \in 0..MaxFails
<1>1. IsFiniteSet(Ino)
  BY FS_Product DEF Ino
<1>2. IsFiniteSet(left)
  BY <1>1, FS_Subset DEF TypeOK
<1>3. Cardinality(left) \in Nat
  BY <1>2, FS_CardinalityType
<1>4. QED
  BY <1>3 DEF TypeOK, MayFail

(* What the daemon intends to push is a request.                           *)
LEMMA IntendedType ==
    ASSUME NEW allow \in Allowlist
    PROVE  /\ IntendedFlags(allow) \in Flags
           /\ Intended(allow) \in Request
           /\ Intended(allow).kind = "set"
           /\ Intended(allow).allow = allow
           /\ Intended(allow).flags = IntendedFlags(allow)
<1>1. Blocked(allow) \in BOOLEAN
  BY DEF Blocked
<1>2. IntendedFlags(allow) \in Flags
  BY <1>1 DEF IntendedFlags, Flags
<1>3. QED
  BY <1>2 DEF Intended, Request

(* A fingerprint is one, and tells the allowlist it was taken of.          *)
LEMMA FingerprintType ==
    ASSUME NEW allow \in Allowlist, disk \in [Paths -> Versions \cup {NoFile}]
    PROVE  /\ Fingerprint(allow) \in Fingerprints
           /\ Fingerprint(allow).allow = allow
BY IntendedType DEF Fingerprint, Fingerprints

(* An allowlist resolves to a policy map.                                  *)
LEMMA ResolveType ==
    ASSUME NEW allow \in Allowlist
    PROVE  Resolve(allow) \in [Ino -> SUBSET Perms]
BY DEF Resolve, Allowlist, Ino

(* A request that sets a policy carries one.                               *)
LEMMA SetRequest ==
    ASSUME NEW q \in Line, q.req.kind = "set"
    PROVE  q.req.allow \in Allowlist /\ q.req.flags \in Flags
BY DEF Line, Request

(* The head and the tail of a queue, and a longer queue, are typed.        *)
LEMMA QueueType ==
    ASSUME NEW S, NEW s \in Seq(S), s # <<>>
    PROVE  Head(s) \in S /\ Tail(s) \in Seq(S)
OBVIOUS

(* Appending keeps the type of a queue.                                    *)
LEMMA LongerQueueType ==
    ASSUME NEW S, NEW s \in Seq(S), NEW x \in S
    PROVE  Append(s, x) \in Seq(S)
OBVIOUS

(* The empty queue has every type of queue.                                *)
LEMMA NoQueueType ==
    ASSUME NEW S
    PROVE  <<>> \in Seq(S)
OBVIOUS

(* Answering gives typed replies.                                          *)
LEMMA AnswerType ==
    ASSUME TypeOK, NEW q, NEW rest, NEW r \in Reply, Answer(q, rest, r)
    PROVE  replies' \in Seq(Reply) /\ waiting' \in BOOLEAN
<1>a. replies \in Seq(Reply) /\ Append(replies, r) \in Seq(Reply)
  BY LongerQueueType DEF TypeOK
<1>1. replies' \in Seq(Reply)
  BY <1>a, Zenon DEF Answer, Tell
<1>2. waiting' \in BOOLEAN
  BY Zenon DEF TypeOK, Answer
<1>3. QED
  BY <1>1, <1>2

-----------------------------------------------------------------------------
(* Type correctness.                                                       *)

(* The initial states are well typed.                                      *)
LEMMA InitType == Init => TypeOK
<1> SUFFICES ASSUME Init PROVE TypeOK
  OBVIOUS
<1>1. Nothing \in Allowlist
  BY DEF Nothing, Allowlist
<1>2. fingerprint \in Fingerprints
  BY <1>1, FingerprintType DEF Init
<1>3. status \in Status /\ flags \in Flags /\ kflags \in Flags
  BY DEF Init, NoStatus, Status, Off, Flags
<1>4. lines \in Seq(Line) /\ inbox \in Seq(Line) /\ replies \in Seq(Reply)
  BY NoQueueType DEF Init
<1>5. /\ notified \in BOOLEAN /\ enforce \in BOOLEAN /\ enforceAudio \in BOOLEAN
      /\ connUp \in BOOLEAN /\ hUp \in BOOLEAN /\ waiting \in BOOLEAN
  BY Zenon DEF Init
<1>6. /\ wanted \in [Ino -> SUBSET Perms] /\ kmap \in [Ino -> SUBSET Perms]
      /\ want \in Allowlist /\ disk \in [Paths -> Versions \cup {NoFile}]
  BY DEF Init
<1>7. QED
  BY <1>2, <1>3, <1>4, <1>5, <1>6, PushAssumption DEF Init, TypeOK

(* What the daemon's surroundings change.                                  *)
LEMMA EnvironmentType == TypeOK /\ Environment => TypeOK'
<1> SUFFICES ASSUME TypeOK, Environment PROVE TypeOK'
  OBVIOUS
<1>1. ASSUME NEW w \in Wants, WriteRule(w) PROVE TypeOK'
  <2>1. notified' \in BOOLEAN
    BY <1>1, Zenon DEF WriteRule, TypeOK
  <2>2. QED
    BY <1>1, <2>1 DEF WriteRule, Change, TypeOK, sockVars, helperVars, work, kernelVars
<1>2. ASSUME NEW w \in Wants, ImportPreset(w) PROVE TypeOK'
  BY <1>2 DEF ImportPreset, Change, TypeOK, clientVars, sockVars, helperVars, work, kernelVars
<1>3. ASSUME NEW p \in Paths, NEW v \in Versions \cup {NoFile}, ReplaceFile(p, v)
      PROVE  TypeOK'
  BY <1>3 DEF ReplaceFile, Change, TypeOK, clientVars, sockVars, helperVars, work, kernelVars
<1>4. ASSUME NEW m \in SoundNodes, PlugSound(m) PROVE TypeOK'
  BY <1>4 DEF PlugSound, Change, TypeOK, clientVars, sockVars, helperVars, work, kernelVars
<1>5. CASE DaemonEnds
  <2>1. notified' \in BOOLEAN /\ connUp' \in BOOLEAN
    BY <1>5, Zenon DEF DaemonEnds
  <2>2. replies' \in Seq(Reply) /\ status' \in Status
    BY <1>5, NoQueueType DEF DaemonEnds, NoStatus, Status
  <2>3. QED
    BY <1>5, <2>1, <2>2 DEF DaemonEnds, End, TypeOK, ruleVars, helperVars, work, kernelVars
<1>6. CASE HelperEnds
  <2>1. hUp' \in BOOLEAN /\ waiting' \in BOOLEAN /\ connUp' \in BOOLEAN
    BY <1>6, Zenon DEF HelperEnds
  <2>2. inbox' \in Seq(Line) /\ lines' \in Seq(Line)
    BY <1>6, NoQueueType DEF HelperEnds
  <2>3. flags' \in Flags /\ kflags' \in Flags
    BY <1>6 DEF HelperEnds, Off, Flags
  <2>4. wanted' \in [Ino -> SUBSET Perms] /\ kmap' \in [Ino -> SUBSET Perms]
    BY <1>6 DEF HelperEnds
  <2>5. QED
    BY <1>6, <2>1, <2>2, <2>3, <2>4 DEF HelperEnds, End, Done, TypeOK, ruleVars,
       clientVars
<1>7. QED
  BY <1>1, <1>2, <1>3, <1>4, <1>5, <1>6 DEF Environment

(* A session's steps.                                                      *)
LEMMA ClientType == TypeOK /\ Client => TypeOK'
<1> SUFFICES ASSUME TypeOK, Client PROVE TypeOK'
  OBVIOUS
<1>w. want \in Allowlist /\ disk \in [Paths -> Versions \cup {NoFile}]
  BY DEF TypeOK
<1>p. [conn |-> conn, req |-> Intended(want)] \in Line
  BY <1>w, IntendedType DEF TypeOK, Line
<1>f. Fingerprint(want) \in Fingerprints /\ IntendedFlags(want) \in Flags
  BY <1>w, FingerprintType, IntendedType
<1>1. CASE Connect
  <2>1. [conn |-> conn + 1, req |-> [kind |-> "hello"]] \in Line
    BY DEF TypeOK, Line, Request
  <2>2. QED
    BY <1>1, <2>1 DEF Connect, TypeOK, ruleVars, helperVars, work, kernelVars, boundVars
<1>2. CASE InitialPush
  BY <1>2, <1>p, <1>f DEF InitialPush, Push, TypeOK, Flags, ruleVars, helperVars, work,
     kernelVars, boundVars
<1>3. CASE Await
  BY <1>3 DEF Await, TypeOK, ruleVars, sockVars, helperVars, work, kernelVars, boundVars
<1>4. ASSUME PushIfChanged PROVE TypeOK'
  <2>a. /\ lines \in Seq(Line)
        /\ Append(lines, [conn |-> conn, req |-> Intended(want)]) \in Seq(Line)
    BY <1>p, LongerQueueType DEF TypeOK
  <2>1. lines' \in Seq(Line)
    BY <1>4, <2>a, Zenon DEF PushIfChanged, Push
  <2>2. fingerprint' \in Fingerprints
    BY <1>4, <1>f DEF PushIfChanged, TypeOK
  <2>3. IntendedFlags(want).cam \in BOOLEAN
    BY <1>f DEF Flags
  <2>4. enforce' \in BOOLEAN
    BY <1>4, <2>3, Zenon DEF PushIfChanged, TypeOK
  <2>5. QED
    BY <1>4, <2>1, <2>2, <2>4 DEF PushIfChanged, TypeOK, ruleVars, helperVars, work,
       kernelVars, boundVars
<1>5. CASE RecvReply
  <2>1. Head(replies) \in Reply /\ Tail(replies) \in Seq(Reply)
    BY <1>5, QueueType DEF RecvReply, TypeOK
  <2>2. status' \in Status
    BY <1>5, <2>1 DEF RecvReply, TypeOK, Reply, Status, Flags
  <2>3. QED
    BY <1>5, <2>1, <2>2 DEF RecvReply, TypeOK, ruleVars, helperVars, work, kernelVars, boundVars
<1>6. CASE SessionEnds
  BY <1>6 DEF SessionEnds, TypeOK, Status, ruleVars, sockVars, helperVars, work, kernelVars,
     boundVars
<1>7. QED
  BY <1>1, <1>2, <1>3, <1>4, <1>5, <1>6 DEF Client, OnDirty, OnRecheckTick

(* The reader's steps.                                                     *)
LEMMA ReaderType == TypeOK /\ Reader => TypeOK'
<1> SUFFICES ASSUME TypeOK, Reader PROVE TypeOK'
  OBVIOUS
<1>1. CASE ReaderTake
  <2>1. Head(lines) \in Line /\ Tail(lines) \in Seq(Line)
    BY <1>1, QueueType DEF ReaderTake, TypeOK
  <2>2. QED
    BY <1>1, <2>1 DEF ReaderTake, TypeOK, ruleVars, clientVars, work, kernelVars, boundVars
<1>2. CASE ReaderTimeout
  <2>1. [kind |-> "error"] \in Reply
    BY DEF Reply
  <2>2. replies' \in Seq(Reply)
    BY <1>2, <2>1 DEF ReaderTimeout, Tell, TypeOK
  <2>3. waiting' \in BOOLEAN
    BY <1>2, Zenon DEF ReaderTimeout
  <2>4. QED
    BY <1>2, <2>2, <2>3 DEF ReaderTimeout, TypeOK, ruleVars, clientVars, work, kernelVars
<1>3. QED
  BY <1>1, <1>2 DEF Reader

(* The answer to a policy that was applied.                                *)
LEMMA AppliedType ==
    ASSUME NEW allow, NEW map
    PROVE  [kind |-> "applied", count |-> Cardinality(Held(map)),
            unresolved |-> Unresolved(allow, map)] \in Reply
BY HeldCount DEF Reply, Unresolved

(* The main loop's steps.                                                  *)
LEMMA MainLoopType == TypeOK /\ MainLoop => TypeOK'
<1> SUFFICES ASSUME TypeOK, MainLoop PROVE TypeOK'
  OBVIOUS
<1>h. inbox # <<>> => Head(inbox) \in Line /\ Tail(inbox) \in Seq(Line)
  BY QueueType DEF TypeOK
<1>1. CASE GreetBack
  <2>1. [kind |-> "hello", flags |-> flags] \in Reply
    BY DEF Reply, TypeOK
  <2>2. replies' \in Seq(Reply) /\ waiting' \in BOOLEAN
    BY <1>1, <2>1, AnswerType DEF GreetBack
  <2>3. QED
    BY <1>1, <1>h, <2>2 DEF GreetBack, TypeOK, ruleVars, clientVars, work, kernelVars,
       boundVars
<1>2. CASE StartReplace
  <2>1. cur' \in Line /\ cur'.req.kind = "set" /\ inbox' \in Seq(Line)
    BY <1>2, <1>h DEF StartReplace
  <2>2. wanted' \in [Ino -> SUBSET Perms]
    BY <1>2, <2>1, SetRequest, ResolveType DEF StartReplace
  <2>3. toAdd' \subseteq Ino /\ stale' \subseteq Ino
    BY <1>2 DEF StartReplace, Held
  <2>4. QED
    BY <1>2, <2>1, <2>2, <2>3 DEF StartReplace, TypeOK, ruleVars, clientVars, sockVars,
       kernelVars, boundVars
<1>3. ASSUME NEW i \in Ino, AddEntry(i) PROVE TypeOK'
  BY <1>3 DEF AddEntry, TypeOK, ruleVars, clientVars, sockVars, boundVars
<1>4. ASSUME NEW i \in Ino, DropEntry(i) PROVE TypeOK'
  BY <1>4 DEF DropEntry, Delete, TypeOK, ruleVars, clientVars, sockVars, boundVars
<1>5. CASE ScanMinors \/ \E m \in SoundNodes : DropMinor(m) \/ AddMinor(m)
  <2>1. CASE ScanMinors
    BY <2>1 DEF ScanMinors, CaptureMinors, TypeOK, ruleVars, clientVars, sockVars,
       kernelVars, boundVars
  <2>2. ASSUME NEW m \in SoundNodes, DropMinor(m) PROVE TypeOK'
    BY <2>2 DEF DropMinor, TypeOK, ruleVars, clientVars, sockVars, boundVars
  <2>3. ASSUME NEW m \in SoundNodes, AddMinor(m) PROVE TypeOK'
    BY <2>3 DEF AddMinor, TypeOK, ruleVars, clientVars, sockVars, helperVars, work,
       boundVars
  <2>4. QED
    BY <1>5, <2>1, <2>2, <2>3
<1>6. CASE WriteConfig
  <2>1. cur \in Line /\ cur.req.kind = "set"
    BY <1>6 DEF WriteConfig, MinorsDone, TypeOK
  <2>2. cur.req.flags \in Flags
    BY <2>1, SetRequest
  <2>3. QED
    BY <1>6, <2>2 DEF WriteConfig, MinorsDone, TypeOK, ruleVars, clientVars, sockVars,
       work, boundVars
<1>7. ASSUME NEW ok \in BOOLEAN, WriteCache(ok) PROVE TypeOK'
  <2>1. cur \in Line /\ cur.req.kind = "set"
    BY <1>7 DEF WriteCache, TypeOK
  <2>2. cur.req.allow \in Allowlist
    BY <2>1, SetRequest
  <2>3. replies' \in Seq(Reply) /\ waiting' \in BOOLEAN
    BY <1>7, AppliedType, AnswerType DEF WriteCache
  <2>4. cacheFails' \in 0..MaxFails
    BY <1>7, FailuresBounded DEF WriteCache, TypeOK
  <2>5. QED
    BY <1>7, <2>2, <2>3, <2>4 DEF WriteCache, Done, TypeOK, ruleVars, clientVars, kernelVars
<1>8. CASE RequestFails
  <2>1. [kind |-> "error"] \in Reply
    BY DEF Reply
  <2>2. replies' \in Seq(Reply) /\ waiting' \in BOOLEAN
    BY <1>8, <2>1, AnswerType DEF RequestFails
  <2>3. fails' \in 0..MaxFails
    BY <1>8, FailuresBounded DEF RequestFails, TypeOK
  <2>4. QED
    BY <1>8, <2>2, <2>3 DEF RequestFails, Done, TypeOK, ruleVars, clientVars, kernelVars
<1>9. QED
  BY <1>1, <1>2, <1>3, <1>4, <1>5, <1>6, <1>7, <1>8 DEF MainLoop

(* A start of the helper from its cache keeps the types.                   *)
LEMMA HelperStartType == TypeOK /\ HelperStart => TypeOK'
<1> SUFFICES ASSUME TypeOK, HelperStart PROVE TypeOK'
  OBVIOUS
<1>1. Kept(cache) \in Allowlist
  BY DEF TypeOK, Kept, Nothing, Allowlist
<1>2. kmap' \in [Ino -> SUBSET Perms]
  BY <1>1, ResolveType DEF HelperStart
<1>3. QED
  BY <1>2 DEF HelperStart, TypeOK, Flags, CaptureMinors, ruleVars, clientVars, sockVars,
     work, boundVars

(* Every step of layer 2 keeps the types.                                  *)
LEMMA TypeStep == TypeOK /\ [Next]_vars => TypeOK'
<1> SUFFICES ASSUME TypeOK, [Next]_vars PROVE TypeOK'
  OBVIOUS
<1>1. CASE UNCHANGED vars
  BY <1>1 DEF TypeOK, vars, ruleVars, clientVars, sockVars, helperVars, work, kernelVars,
     boundVars
<1>2. CASE Next
  BY <1>2, EnvironmentType, ClientType, ReaderType, MainLoopType, HelperStartType
     DEF Next
<1>3. QED
  BY <1>1, <1>2

(* Every variable keeps its type, and the main loop has a request in hand, *)
(* one that sets a policy, exactly while it applies one.                   *)
THEOREM TypeCorrect == Spec => []TypeOK
BY InitType, TypeStep, PTL DEF Spec

-----------------------------------------------------------------------------
(* replace_policy under running programs.                                  *)

(* Only a map operation of the main loop changes the policy map of a       *)
(* running helper.                                                         *)
LEMMA MapWriters ==
    ASSUME [Next]_vars, hUp, hUp', kmap' # kmap
    PROVE  \E i \in Ino : AddEntry(i) \/ DropEntry(i)
BY DEF Next, Environment, WriteRule, ImportPreset, ReplaceFile, PlugSound, DaemonEnds,
       HelperEnds, Client, Connect, InitialPush, Await, OnDirty, OnRecheckTick,
       PushIfChanged, RecvReply, SessionEnds, Reader, ReaderTake, ReaderTimeout,
       MainLoop, GreetBack, StartReplace, ScanMinors, DropMinor, AddMinor, WriteConfig, WriteCache,
       RequestFails, HelperStart, vars, kernelVars

(* Nothing that is wanted is on the list of what is to be deleted.         *)
StaleIsStale == hpc = "replace" => stale \cap Held(wanted) = {}

LEMMA StaleIsInvariant == Spec => []StaleIsStale
<1>1. Init => StaleIsStale
  BY DEF Init, StaleIsStale
<1>2. StaleIsStale /\ [Next]_vars => StaleIsStale'
  <2> SUFFICES ASSUME StaleIsStale, [Next]_vars PROVE StaleIsStale'
    OBVIOUS
  <2>1. CASE UNCHANGED <<hpc, stale, wanted>>
    BY <2>1 DEF StaleIsStale, Held
  <2>2. ASSUME NEW i \in Ino, DropEntry(i) PROVE StaleIsStale'
    BY <2>2 DEF DropEntry, StaleIsStale, Held
  <2>3. CASE StartReplace
    BY <2>3 DEF StartReplace, StaleIsStale, Held
  <2>4. CASE hpc' # "replace"
    BY <2>4 DEF StaleIsStale
  <2>5. QED
    BY <2>1, <2>2, <2>3, <2>4
    DEF Next, Environment, WriteRule, ImportPreset, ReplaceFile, PlugSound, DaemonEnds,
        HelperEnds, Client, Connect, InitialPush, Await, OnDirty, OnRecheckTick,
        PushIfChanged, RecvReply, SessionEnds, Reader, ReaderTake, ReaderTimeout,
        MainLoop, GreetBack, AddEntry, ScanMinors, DropMinor, AddMinor, WriteConfig,
        WriteCache, RequestFails, HelperStart, Done, vars, helperVars, work
<1>3. QED
  BY <1>1, <1>2, PTL DEF Spec

(* While the helper runs, a permission leaves the kernel only because the  *)
(* policy being applied does not grant it: entries are overwritten by what *)
(* they are to be, and removed only when nothing is wanted of them.        *)
THEOREM NothingStandingIsTaken == Spec => OnlyRevokedIsTaken
<1> DEFINE Taken == hUp /\ hUp' =>
               \A i \in Ino : \A r \in kmap[i] \ kmap'[i] :
                   hpc = "replace" /\ r \notin wanted[i]
<1>1. TypeOK /\ StaleIsStale /\ [Next]_vars => Taken
  <2> SUFFICES ASSUME TypeOK, StaleIsStale, [Next]_vars, hUp, hUp',
                      NEW i \in Ino, NEW r \in kmap[i] \ kmap'[i]
               PROVE  hpc = "replace" /\ r \notin wanted[i]
    OBVIOUS
  <2>1. PICK j \in Ino : AddEntry(j) \/ DropEntry(j)
    BY MapWriters
  <2>2. CASE AddEntry(j)
    BY <2>2 DEF AddEntry, TypeOK
  <2>3. CASE DropEntry(j)
    BY <2>3 DEF DropEntry, Delete, StaleIsStale, Held, TypeOK
  <2>4. QED
    BY <2>1, <2>2, <2>3
<1>2. TypeOK /\ StaleIsStale /\ [Next]_vars => [Taken]_vars
  BY <1>1
<1>3. QED
  BY <1>2, TypeCorrect, StaleIsInvariant, PTL DEF Spec, OnlyRevokedIsTaken

-----------------------------------------------------------------------------
(* The cache.                                                              *)

(* As long as no write of it failed, the cache is the policy last reported *)
(* as applied.                                                             *)
CacheIsApplied == cacheFails = 0 => cache = applied

(* Every step keeps the cache the last applied policy, or its write failed. *)
LEMMA CacheStep == TypeOK /\ CacheIsApplied /\ [Next]_vars => CacheIsApplied'
<1> SUFFICES ASSUME TypeOK, CacheIsApplied, [Next]_vars PROVE CacheIsApplied'
  OBVIOUS
<1>1. ASSUME NEW ok \in BOOLEAN, WriteCache(ok) PROVE CacheIsApplied'
  <2>1. CASE cache' = cur.req.allow
    BY <1>1, <2>1 DEF WriteCache, CacheIsApplied
  <2>2. CASE cacheFails' = cacheFails + 1
    BY <2>2 DEF CacheIsApplied, TypeOK
  <2>3. QED
    BY <1>1, <2>1, <2>2 DEF WriteCache
<1>2. CASE UNCHANGED <<cache, applied, cacheFails>>
  BY <1>2 DEF CacheIsApplied
<1>3. QED
  BY <1>1, <1>2
  DEF Next, Environment, WriteRule, ImportPreset, ReplaceFile, PlugSound, DaemonEnds,
      HelperEnds, Client, Connect, InitialPush, Await, OnDirty, OnRecheckTick,
      PushIfChanged, RecvReply, SessionEnds, Reader, ReaderTake, ReaderTimeout,
      MainLoop, GreetBack, StartReplace, AddEntry, DropEntry, ScanMinors, DropMinor, AddMinor,
      WriteConfig, RequestFails, HelperStart, vars, boundVars

(* A helper that starts enforces the policy last reported as applied, on   *)
(* the files as they are, unless the cache could not be written; a path    *)
(* with a '#' comes back without its permissions.                          *)
THEOREM RestartsRestore == Spec => RestartRestoresPolicy
<1> DEFINE Restored == ~hUp /\ hUp' /\ cacheFails = 0 =>
               \A i \in Ino :
                  /\ kmap'[i] \subseteq Resolve(LastApplied)[i]
                  /\ i[1] \in Readable => kmap'[i] = Resolve(LastApplied)[i]
<1>1. Init => CacheIsApplied
  BY DEF Init, CacheIsApplied
<1>2. CacheIsApplied /\ [Next]_vars => Restored
  <2> SUFFICES ASSUME CacheIsApplied, [Next]_vars, ~hUp, hUp', cacheFails = 0
               PROVE  \A i \in Ino :
                         /\ kmap'[i] \subseteq Resolve(LastApplied)[i]
                         /\ i[1] \in Readable => kmap'[i] = Resolve(LastApplied)[i]
    OBVIOUS
  <2>1. HelperStart
    BY DEF Next, Environment, WriteRule, ImportPreset, ReplaceFile, PlugSound,
           DaemonEnds, HelperEnds, Client, Connect, InitialPush, Await, OnDirty,
           OnRecheckTick, PushIfChanged, RecvReply, SessionEnds, Reader, ReaderTake,
           ReaderTimeout, MainLoop, GreetBack, StartReplace, AddEntry, DropEntry,
           ScanMinors, DropMinor, AddMinor, WriteConfig, WriteCache, RequestFails, vars, helperVars, work
  <2>2. kmap' = Resolve(Kept(applied))
    BY <2>1 DEF HelperStart, CacheIsApplied
  <2>3. \A i \in Ino : i[1] \in Paths
    BY DEF Ino
  <2>4. QED
    BY <2>2, <2>3 DEF Resolve, Kept, LastApplied, Nothing
<1>3. CacheIsApplied /\ [Next]_vars => [Restored]_vars
  BY <1>2
<1>4. QED
  BY <1>1, <1>3, CacheStep, TypeCorrect, PTL DEF Spec, RestartRestoresPolicy

-----------------------------------------------------------------------------
(* The status.                                                             *)

(* What the last element of a queue is, after it grows and shrinks.        *)
LEMMA LastAppended ==
    ASSUME NEW S, NEW s \in Seq(S), NEW x \in S
    PROVE  /\ Append(s, x) # <<>>
           /\ Append(s, x)[Len(Append(s, x))] = x
<1>1. Len(s) \in Nat /\ Len(Append(s, x)) = Len(s) + 1
  OBVIOUS
<1>2. Append(s, x)[Len(s) + 1] = x
  OBVIOUS
<1>3. Len(<<>>) = 0
  OBVIOUS
<1>4. QED
  BY <1>1, <1>2, <1>3

(* What is left of a queue ends as the queue did, or its one element was taken. *)
LEMMA LastOfTail ==
    ASSUME NEW S, NEW s \in Seq(S), s # <<>>
    PROVE  \/ Tail(s) # <<>> /\ Tail(s)[Len(Tail(s))] = s[Len(s)]
           \/ Tail(s) = <<>> /\ Head(s) = s[Len(s)]
<1>1. /\ Len(s) \in Nat \ {0} /\ Tail(s) \in Seq(S) /\ Len(Tail(s)) = Len(s) - 1
      /\ \A i \in 1..Len(Tail(s)) : Tail(s)[i] = s[i + 1]
  BY EmptySeq, HeadTailProperties
<1>2. CASE Tail(s) = <<>>
  <2>1. Len(<<>>) = 0
    OBVIOUS
  <2>2. Len(s) - 1 = 0
    BY <1>1, <1>2, <2>1, Zenon
  <2>3. \A n \in Nat \ {0} : n - 1 = 0 => n = 1
    OBVIOUS
  <2>4. Len(s) = 1
    BY <1>1, <2>2, <2>3, Zenon
  <2>5. QED
    BY <1>2, <2>4
<1>3. CASE Tail(s) # <<>>
  <2>1. Len(Tail(s)) \in 1..Len(Tail(s))
    BY <1>1, <1>3, EmptySeq
  <2>2. QED
    BY <1>1, <1>3, <2>1
<1>4. QED
  BY <1>2, <1>3

(* The last push of a session is a request to set a policy.                *)
LEMMA LastPushType ==
    ASSUME TypeOK
    PROVE  /\ LastPush \in Line /\ LastPush # NoRequest
           /\ LastPush.conn = conn
           /\ LastPush.req.kind = "set"
           /\ LastPush.req.allow = fingerprint.allow
           /\ LastPush.req.flags = IntendedFlags(fingerprint.allow)
<1>1. fingerprint.allow \in Allowlist
  BY DEF TypeOK, Fingerprints
<1>2. QED
  BY <1>1, IntendedType DEF LastPush, Line, TypeOK

(* What the main loop reports is a reply.                                  *)
LEMMA ReportType == Report \in Reply
BY AppliedType DEF Report

(* What the invariant is about.                                            *)
pushVars == <<cpc, fingerprint, enforce, status, conn, connUp, lines, replies, hUp,
              waiting, inbox, hpc, cur, wanted, toAdd, stale, capturing, kmap, kflags, kminors, left,
              enforceAudio, timeouts, fails>>

(* The capture minors are replaced.                                        *)
MinorStep == ScanMinors \/ \E m \in SoundNodes : DropMinor(m) \/ AddMinor(m)

(* The reader and the main loop hold one request between them.             *)
LEMMA OneAtATimeStep ==
    ASSUME TypeOK, OneAtATime, [Next]_vars
    PROVE  OneAtATime'
<1>t. inbox \in Seq(Line) /\ timeouts \in Nat
  BY DEF TypeOK
<1>1. CASE ReaderTake
  BY <1>1, <1>t DEF ReaderTake, OneAtATime, boundVars
<1>2. CASE ReaderTimeout
  BY <1>2, <1>t DEF ReaderTimeout, OneAtATime
<1>3. CASE GreetBack
  BY <1>3, <1>t DEF GreetBack, Answer, OneAtATime, boundVars
<1>4. CASE StartReplace
  BY <1>4, <1>t DEF StartReplace, OneAtATime, boundVars
<1>5. CASE MinorStep \/ WriteConfig
  BY <1>5 DEF MinorStep, ScanMinors, DropMinor, AddMinor, WriteConfig, MinorsDone,
     OneAtATime, helperVars, boundVars
<1>6. ASSUME NEW ok \in BOOLEAN, WriteCache(ok) PROVE OneAtATime'
  BY <1>6 DEF WriteCache, Answer, Done, OneAtATime
<1>7. CASE RequestFails
  BY <1>7 DEF RequestFails, Answer, Done, OneAtATime
<1>8. CASE HelperEnds
  BY <1>8 DEF HelperEnds, Done, OneAtATime
<1>9. CASE UNCHANGED <<waiting, inbox, hpc, timeouts>>
  BY <1>9 DEF OneAtATime
<1>10. QED
  BY <1>1, <1>2, <1>3, <1>4, <1>5, <1>6, <1>7, <1>8, <1>9
  DEF Next, Environment, WriteRule, ImportPreset, ReplaceFile, PlugSound, DaemonEnds,
      Client, Connect, InitialPush, Await, OnDirty, OnRecheckTick, PushIfChanged,
      RecvReply, SessionEnds, Reader, MainLoop, AddEntry, DropEntry, HelperStart,
      MinorStep, vars, helperVars, work, boundVars

(* The maps follow the request in hand, entry by entry.                    *)
LEMMA MapsFollowStep ==
    ASSUME TypeOK, MapsFollow, [Next]_vars
    PROVE  MapsFollow'
<1>1. CASE StartReplace
  BY <1>1 DEF StartReplace, MapsFollow, Held, kernelVars
<1>2. ASSUME NEW i \in Ino, AddEntry(i) PROVE MapsFollow'
  BY <1>2 DEF AddEntry, MapsFollow, Held, TypeOK
<1>3. ASSUME NEW i \in Ino, DropEntry(i) PROVE MapsFollow'
  <2>1. /\ UNCHANGED <<hUp, hpc, wanted, toAdd>> /\ hpc = "replace" /\ i \in stale
        /\ i \notin Held(wanted) /\ stale' = stale \ {i}
    BY <1>3 DEF DropEntry, MapsFollow
  <2>2. \A j \in Ino : j # i => kmap'[j] = kmap[j] /\ (j \in left' <=> j \in left)
    BY <1>3 DEF DropEntry, Delete, TypeOK
  <2>3. kmap'[i] = {} \/ i \in left'
    BY <1>3 DEF DropEntry, Delete, TypeOK
  <2>4. QED
    BY <2>1, <2>2, <2>3 DEF MapsFollow, Held
<1>4. CASE MinorStep
  <2>1. CASE ScanMinors
    <3>1. ASSUME NEW i \in Ino
          PROVE  wanted[i] = IF i \in left THEN {} ELSE kmap[i]
      BY <2>1 DEF ScanMinors, MapsFollow, Held
    <3>2. Meant = wanted
      BY <3>1 DEF Meant, TypeOK
    <3>3. QED
      BY <2>1, <3>2 DEF ScanMinors, MapsFollow, Meant, kernelVars
  <2>2. CASE \E m \in SoundNodes : DropMinor(m) \/ AddMinor(m)
    BY <2>2 DEF DropMinor, AddMinor, MapsFollow, Meant, helperVars, work
  <2>3. QED
    BY <1>4, <2>1, <2>2 DEF MinorStep
<1>5. CASE WriteConfig
  BY <1>5 DEF WriteConfig, MinorsDone, MapsFollow, Meant, work
<1>6. ASSUME NEW ok \in BOOLEAN, WriteCache(ok) PROVE MapsFollow'
  BY <1>6 DEF WriteCache, Done, MapsFollow
<1>7. CASE RequestFails \/ HelperEnds
  BY <1>7 DEF RequestFails, HelperEnds, Done, MapsFollow
<1>8. CASE HelperStart
  BY <1>8 DEF HelperStart, MapsFollow
<1>9. CASE UNCHANGED <<hUp, hpc, wanted, toAdd, stale, capturing, cur, kernelVars>>
  BY <1>9 DEF MapsFollow, Held, Meant, kernelVars
<1>10. QED
  BY <1>1, <1>2, <1>3, <1>4, <1>5, <1>6, <1>7, <1>8, <1>9
  DEF Next, Environment, WriteRule, ImportPreset, ReplaceFile, PlugSound, DaemonEnds,
      Client, Connect, InitialPush, Await, OnDirty, OnRecheckTick, PushIfChanged,
      RecvReply, SessionEnds, Reader, ReaderTake, ReaderTimeout, MainLoop, GreetBack,
      MinorStep, vars, helperVars, work, kernelVars

(* An empty queue's answer: with no other request in the main loop, the    *)
(* reader passes it on to the client of the session.                       *)
LEMMA AnswerReaches ==
    ASSUME TypeOK, NEW r \in Reply, connUp, waiting, cur.conn = conn, inbox = <<>>,
           Answer(cur, inbox, r)
    PROVE  replies' = Append(replies, r)
BY DEF Answer, Tell

(* The last push of the session is followed to the status.                 *)
LEMMA PushIsFollowedStep ==
    ASSUME TypeOK, TypeOK', PushInvariant, [Next]_vars
    PROVE  PushIsFollowed'
<1> DEFINE Watched == connUp /\ cpc \in {"busy", "select"} /\ timeouts = 0 /\ fails = 0
           Unread  == lines # <<>> /\ lines[Len(lines)] = LastPush
           Handed  == lines = <<>> /\ inbox # <<>> /\ inbox[Len(inbox)] = LastPush
           InHand  == lines = <<>> /\ inbox = <<>> /\ cur = LastPush
           Told    == \/ replies # <<>> /\ replies[Len(replies)] = Report
                      \/ /\ replies = <<>>
                         /\ status.cam = kflags.cam /\ status.aud = enforceAudio
                         /\ status.allowed = Report.count
                         /\ status.unresolved = Report.unresolved
           Through == /\ lines = <<>> /\ inbox = <<>> /\ hpc = "idle"
                      /\ kflags = IntendedFlags(fingerprint.allow)
                      /\ Told
           Camera  == enforce = IntendedFlags(fingerprint.allow).cam
<1>d. PushIsFollowed <=> (Watched => Camera /\ (Unread \/ Handed \/ InHand \/ Through))
  BY DEF PushIsFollowed
<1>e. PushIsFollowed' <=>
        (Watched' => Camera' /\ (Unread' \/ Handed' \/ InHand' \/ Through'))
  BY DEF PushIsFollowed
<1> HIDE DEF Watched, Unread, Handed, InHand, Told, Through, Camera
<1>g. PushIsFollowed
  BY DEF PushInvariant
<1>t. /\ lines \in Seq(Line) /\ inbox \in Seq(Line) /\ replies \in Seq(Reply)
      /\ timeouts \in Nat /\ fails \in Nat
      /\ want \in Allowlist /\ disk \in [Paths -> Versions \cup {NoFile}]
  BY DEF TypeOK
(* A push is written: it is the last line.                                 *)
<1>push. ASSUME lines' = Append(lines, [conn |-> conn, req |-> Intended(want)]),
                fingerprint' = Fingerprint(want),
                enforce' = IntendedFlags(want).cam, conn' = conn
         PROVE  Camera' /\ Unread'
  <2>1. fingerprint'.allow = want
    BY <1>push, <1>t, FingerprintType
  <2>2. LastPush' = [conn |-> conn, req |-> Intended(want)]
    BY <1>push, <2>1 DEF LastPush, Intended, IntendedFlags, Blocked
  <2>3. LastPush' \in Line
    BY <2>2, <1>t, IntendedType DEF Line, TypeOK
  <2>4. lines' # <<>> /\ lines'[Len(lines')] = LastPush'
    BY <1>push, <1>t, <2>2, <2>3, LastAppended
  <2>5. Camera'
    BY <1>push, <2>1 DEF Camera, IntendedFlags, Blocked
  <2>6. QED
    BY <2>4, <2>5 DEF Unread
(* Between two pushes the session's last push stays what it is.            *)
<1>same. ASSUME UNCHANGED <<conn, fingerprint>>
         PROVE  /\ LastPush' = LastPush
                /\ IntendedFlags(fingerprint.allow)' = IntendedFlags(fingerprint.allow)
  BY <1>same DEF LastPush, Intended, IntendedFlags, Blocked
<1>told. ASSUME UNCHANGED <<fingerprint, enforceAudio, kmap, left, kflags, status,
                             replies>>, Told
         PROVE  Told'
  BY <1>told DEF Told, Report, Meant, Held, Unresolved
<1>camera. ASSUME UNCHANGED <<fingerprint, enforce>>, Camera
           PROVE  Camera'
  BY <1>camera DEF Camera, IntendedFlags, Blocked
(* The steps that touch none of it, or end the session.                    *)
<1>quiet. ASSUME UNCHANGED <<connUp, timeouts, fails, conn, fingerprint, enforce, lines,
                             inbox, cur, hpc, enforceAudio, kmap, left, kflags, status,
                             replies>>,
                 Watched' => Watched
          PROVE  PushIsFollowed'
  <2>1. ASSUME Watched' PROVE Camera' /\ (Unread' \/ Handed' \/ InHand' \/ Through')
    <3>1. Camera /\ (Unread \/ Handed \/ InHand \/ Through)
      BY <1>d, <1>g, <1>quiet, <2>1
    <3>2. Camera'
      BY <3>1, <1>quiet, <1>camera
    <3>3. LastPush' = LastPush
          /\ IntendedFlags(fingerprint.allow)' = IntendedFlags(fingerprint.allow)
      BY <1>quiet, <1>same
    <3>4. Told => Told'
      BY <1>quiet, <1>told
    <3>5. QED
      BY <3>1, <3>2, <3>3, <3>4, <1>quiet DEF Unread, Handed, InHand, Through
  <2>2. QED
    BY <1>e, <2>1
<1>over. ASSUME ~Watched' PROVE PushIsFollowed'
  BY <1>e, <1>over
<1>1. CASE Connect \/ SessionEnds \/ DaemonEnds \/ HelperEnds
  BY <1>1, <1>over DEF Connect, SessionEnds, DaemonEnds, HelperEnds, Watched
<1>2. CASE ReaderTimeout \/ RequestFails
  BY <1>2, <1>t, <1>over DEF ReaderTimeout, RequestFails, Watched
<1>3. CASE HelperStart
  BY <1>3, <1>over DEF HelperStart, PushInvariant, sockVars, Watched
<1>4. CASE InitialPush
  <2>1. Camera' /\ Unread'
    BY <1>4, <1>push DEF InitialPush, Push
  <2>2. QED
    BY <1>e, <2>1
<1>5. CASE Await
  <2>1. Watched' => Watched
    BY <1>5 DEF Await, Watched, sockVars, boundVars
  <2>2. QED
    BY <1>5, <2>1, <1>quiet DEF Await, sockVars, helperVars, work, kernelVars, boundVars
<1>6. CASE OnDirty \/ OnRecheckTick
  <2>1. CASE Fingerprint(want) # fingerprint
    <3>1. Camera' /\ Unread'
      BY <1>6, <2>1, <1>push DEF OnDirty, OnRecheckTick, PushIfChanged, Push
    <3>2. QED
      BY <1>e, <3>1
  <2>2. CASE Fingerprint(want) = fingerprint
    <3>1. UNCHANGED <<connUp, timeouts, fails, conn, fingerprint, enforce, lines,
                      inbox, cur, hpc, enforceAudio, kmap, left, kflags, status,
                             replies>>
      BY <1>6, <2>2 DEF OnDirty, OnRecheckTick, PushIfChanged, helperVars, work, kernelVars,
         boundVars
    <3>2. Watched' => Watched
      BY <1>6, <3>1 DEF OnDirty, OnRecheckTick, Watched
    <3>3. QED
      BY <3>1, <3>2, <1>quiet
  <2>3. QED
    BY <2>1, <2>2
(* A reply is read.  If it was the last, the status shows what it said.    *)
<1>7. CASE RecvReply
  <2>1. /\ UNCHANGED <<conn, connUp, fingerprint, enforce, enforceAudio, lines, inbox, cur,
                       hpc, kmap, left, kflags, timeouts, fails>>
        /\ cpc = "select" /\ replies # <<>> /\ replies' = Tail(replies)
    BY <1>7 DEF RecvReply, helperVars, work, kernelVars, boundVars
  <2>2. Watched' => Watched
    BY <2>1 DEF Watched
  <2>3. LastPush' = LastPush /\ Report' = Report
        /\ IntendedFlags(fingerprint.allow)' = IntendedFlags(fingerprint.allow)
    BY <2>1, <1>same DEF Report, Meant, Held, Unresolved
  <2>4. ASSUME Watched, Through, Camera PROVE Told'
    <3>1. replies[Len(replies)] = Report
      BY <2>1, <2>4 DEF Through, Told
    <3>2. CASE Tail(replies) # <<>> /\ Tail(replies)[Len(Tail(replies))] = replies[Len(replies)]
      BY <2>1, <2>3, <3>1, <3>2 DEF Told
    <3>3. CASE Tail(replies) = <<>> /\ Head(replies) = replies[Len(replies)]
      <4>1. Head(replies) = Report /\ Head(replies).kind = "applied"
        BY <3>1, <3>3 DEF Report
      <4>2. status' = [status EXCEPT !.cam = enforce, !.aud = enforceAudio,
                                     !.allowed = Report.count,
                                     !.unresolved = Report.unresolved]
        BY <1>7, <4>1, Zenon DEF RecvReply
      <4>3. /\ status'.cam = enforce /\ status'.allowed = Report.count
            /\ status'.aud = enforceAudio
            /\ status'.unresolved = Report.unresolved
        BY <4>2 DEF TypeOK, Status
      <4>4. enforce = kflags.cam
        BY <2>4 DEF Through, Camera
      <4>5. QED
        BY <2>1, <2>3, <3>3, <4>3, <4>4 DEF Told
    <3>4. QED
      BY <3>2, <3>3, <1>t, <2>1, LastOfTail
  <2>5. ASSUME Watched' PROVE Camera' /\ (Unread' \/ Handed' \/ InHand' \/ Through')
    <3>1. Watched /\ Camera /\ (Unread \/ Handed \/ InHand \/ Through)
      BY <1>d, <1>g, <2>2, <2>5
    <3>2. Camera'
      BY <3>1, <2>1, <1>camera
    <3>3. Through => Told'
      BY <2>4, <3>1
    <3>4. QED
      BY <2>1, <2>3, <3>1, <3>2, <3>3 DEF Unread, Handed, InHand, Through
  <2>6. QED
    BY <1>e, <2>5
(* A line moves from the socket to the main loop's queue.                  *)
<1>8. CASE ReaderTake
  <2>1. /\ UNCHANGED <<conn, connUp, cpc, fingerprint, enforce, timeouts, fails>>
        /\ lines # <<>> /\ lines' = Tail(lines)
        /\ inbox' = Append(inbox, Head(lines))
    BY <1>8 DEF ReaderTake, clientVars, boundVars
  <2>2. LastPush' = LastPush
    BY <2>1, <1>same
  <2>3. Unread => Unread' \/ Handed'
    <3> SUFFICES ASSUME Unread PROVE Unread' \/ Handed'
      OBVIOUS
    <3>1. Head(lines) \in Line
      BY <1>t, <2>1, QueueType
    <3>2. inbox' # <<>> /\ inbox'[Len(inbox')] = Head(lines)
      BY <1>t, <2>1, <3>1, LastAppended
    <3>3. QED
      BY <1>t, <2>1, <2>2, <3>2, LastOfTail DEF Unread, Handed
  <2>4. ASSUME Watched' PROVE Camera' /\ (Unread' \/ Handed')
    <3>1. Watched
      BY <2>1, <2>4 DEF Watched
    <3>2. Camera /\ Unread
      BY <1>d, <1>g, <2>1, <3>1 DEF Handed, InHand, Through
    <3>3. QED
      BY <2>1, <2>3, <3>2, <1>camera
  <2>5. QED
    BY <1>e, <2>4
(* The main loop takes a request: a greeting is not the last push ...      *)
<1>9. CASE GreetBack
  <2>1. /\ UNCHANGED <<conn, connUp, cpc, fingerprint, enforce, timeouts, fails, lines>>
        /\ inbox # <<>> /\ inbox' = Tail(inbox) /\ Head(inbox).req.kind = "hello"
    BY <1>9 DEF GreetBack, clientVars, boundVars
  <2>2. LastPush' = LastPush
    BY <2>1, <1>same
  <2>3. Handed => Handed'
    <3>1. LastPush.req.kind = "set"
      BY LastPushType
    <3>2. QED
      BY <1>t, <2>1, <2>2, <3>1, LastOfTail DEF Handed
  <2>4. ASSUME Watched' PROVE Camera' /\ (Unread' \/ Handed')
    <3>1. Watched
      BY <2>1, <2>4 DEF Watched
    <3>2. Camera /\ (Unread \/ Handed)
      BY <1>d, <1>g, <2>1, <3>1 DEF InHand, Through
    <3>3. Unread => Unread'
      BY <2>1, <2>2 DEF Unread
    <3>4. QED
      BY <2>1, <2>3, <3>2, <3>3, <1>camera
  <2>5. QED
    BY <1>e, <2>4
(* ... and the policy it starts to apply may be.                           *)
<1>10. CASE StartReplace
  <2>1. /\ UNCHANGED <<conn, connUp, cpc, fingerprint, enforce, timeouts, fails, lines>>
        /\ inbox # <<>> /\ inbox' = Tail(inbox) /\ cur' = Head(inbox)
    BY <1>10 DEF StartReplace, clientVars, sockVars, boundVars
  <2>2. LastPush' = LastPush
    BY <2>1, <1>same
  <2>3. Handed => Handed' \/ InHand'
    BY <1>t, <2>1, <2>2, LastOfTail DEF Handed, InHand
  <2>4. ASSUME Watched' PROVE Camera' /\ (Unread' \/ Handed' \/ InHand')
    <3>1. Watched
      BY <2>1, <2>4 DEF Watched
    <3>2. Camera /\ (Unread \/ Handed)
      BY <1>d, <1>g, <2>1, <3>1 DEF InHand, Through
    <3>3. Unread => Unread'
      BY <2>1, <2>2 DEF Unread
    <3>4. QED
      BY <2>1, <2>3, <3>2, <3>3, <1>camera
  <2>5. QED
    BY <1>e, <2>4
(* While a policy is being applied, only the maps change.                  *)
<1>11. ASSUME UNCHANGED <<conn, connUp, cpc, fingerprint, enforce, timeouts, fails, lines,
                          inbox, cur>>, hpc # "idle"
       PROVE  PushIsFollowed'
  <2>1. LastPush' = LastPush
    BY <1>11, <1>same
  <2>2. ASSUME Watched' PROVE Camera' /\ (Unread' \/ Handed' \/ InHand')
    <3>1. Watched
      BY <1>11, <2>2 DEF Watched
    <3>2. Camera /\ (Unread \/ Handed \/ InHand)
      BY <1>d, <1>g, <1>11, <3>1 DEF Through
    <3>3. QED
      BY <1>11, <2>1, <3>2, <1>camera DEF Unread, Handed, InHand
  <2>3. QED
    BY <1>e, <2>2
<1>12. ASSUME NEW i \in Ino, AddEntry(i) \/ DropEntry(i) PROVE PushIsFollowed'
  BY <1>12, <1>11 DEF AddEntry, DropEntry, clientVars, sockVars, boundVars
<1>13. CASE MinorStep \/ WriteConfig
  BY <1>13, <1>11 DEF MinorStep, ScanMinors, DropMinor, AddMinor, WriteConfig, MinorsDone,
     clientVars, sockVars, helperVars, work, boundVars
(* The policy is applied: the report describes the maps as they are.       *)
<1>14. ASSUME NEW ok \in BOOLEAN, WriteCache(ok) PROVE PushIsFollowed'
  <2>1. /\ UNCHANGED <<conn, connUp, cpc, fingerprint, enforce, timeouts, fails, lines,
                       enforceAudio, inbox, kmap, left, kflags, status>>
        /\ hpc = "cache" /\ hpc' = "idle"
    BY <1>14 DEF WriteCache, Done, clientVars, kernelVars
  <2>2. LastPush' = LastPush /\ Report' = Report
        /\ IntendedFlags(fingerprint.allow)' = IntendedFlags(fingerprint.allow)
    BY <2>1, <1>same DEF Report, Meant, Held, Unresolved
  <2>3. ASSUME Watched, InHand PROVE Through'
    <3>1. Meant = wanted /\ kflags = cur.req.flags
      BY <2>1 DEF PushInvariant, MapsFollow
    <3>2. waiting /\ connUp /\ inbox = <<>>
      BY <2>1, <2>3 DEF PushInvariant, OneAtATime, Watched, InHand
    <3>3. /\ cur.conn = conn /\ cur.req.allow = fingerprint.allow
          /\ cur.req.flags = IntendedFlags(fingerprint.allow)
      BY <2>3, LastPushType DEF InHand
    <3>4. Answer(cur, inbox, Report)
      BY <1>14, <3>1, <3>3 DEF WriteCache, Report
    <3>5. replies' = Append(replies, Report)
      BY <3>2, <3>3, <3>4, ReportType, AnswerReaches
    <3>6. replies' # <<>> /\ replies'[Len(replies')] = Report
      BY <3>5, <1>t, ReportType, LastAppended
    <3>7. Told'
      BY <2>2, <3>6 DEF Told
    <3>8. QED
      BY <2>1, <2>2, <2>3, <3>1, <3>3, <3>7 DEF InHand, Through
  <2>4. ASSUME Watched' PROVE Camera' /\ (Unread' \/ Handed' \/ Through')
    <3>1. Watched
      BY <2>1, <2>4 DEF Watched
    <3>2. Camera /\ (Unread \/ Handed \/ InHand)
      BY <1>d, <1>g, <2>1, <3>1 DEF Through
    <3>3. (Unread => Unread') /\ (Handed => Handed')
      BY <2>1, <2>2 DEF Unread, Handed
    <3>4. QED
      BY <2>1, <2>3, <3>1, <3>2, <3>3, <1>camera
  <2>5. QED
    BY <1>e, <2>4
<1>15. CASE UNCHANGED pushVars
  BY <1>15, <1>quiet DEF pushVars, Watched
<1>16. QED
  BY <1>1, <1>2, <1>3, <1>4, <1>5, <1>6, <1>7, <1>8, <1>9, <1>10, <1>12, <1>13, <1>14,
     <1>15
  DEF Next, Environment, WriteRule, ImportPreset, ReplaceFile, PlugSound, Client, Reader,
      MainLoop, MinorStep, vars, ruleVars, clientVars, sockVars, helperVars, work,
      kernelVars, boundVars, pushVars

(* A connection is open only to a running helper.                          *)
LEMMA ConnectionStep ==
    ASSUME connUp => hUp, [Next]_vars
    PROVE  (connUp => hUp)'
BY DEF Next, Environment, WriteRule, ImportPreset, ReplaceFile, PlugSound, DaemonEnds,
       HelperEnds, Client, Connect, InitialPush, Await, OnDirty, OnRecheckTick,
       PushIfChanged, RecvReply, SessionEnds, Reader, ReaderTake, ReaderTimeout,
       MainLoop, GreetBack, StartReplace, AddEntry, DropEntry, ScanMinors, DropMinor, AddMinor,
       WriteConfig, WriteCache, RequestFails, HelperStart, vars, sockVars, helperVars, work

(* The main loop has at most the one request the reader waits for, the     *)
(* maps follow it step by step, and the session's last push is followed    *)
(* all the way from the socket to the status.                              *)
THEOREM PushesAreFollowed == Spec => []PushInvariant
<1>1. Init => PushInvariant
  BY DEF Init, PushInvariant, OneAtATime, MapsFollow, PushIsFollowed
<1>2. TypeOK /\ TypeOK' /\ PushInvariant /\ [Next]_vars => PushInvariant'
  BY ConnectionStep, OneAtATimeStep, MapsFollowStep, PushIsFollowedStep DEF PushInvariant
<1>3. QED
  BY <1>1, <1>2, TypeCorrect, PTL DEF Spec

(* Whenever nothing is under way, the status follows the kernel, however   *)
(* the pushes, the restarts and the replaced files were interleaved: the   *)
(* camera's flag, the entries without a file, the number of entries (for   *)
(* either device) and, while it is what it was when the session began, the *)
(* microphone's flag.  Only after a request that timed out or failed it    *)
(* may be wrong.                                                           *)
THEOREM StatusFollows == Spec => []StatusFollowsKernel
<1>1. TypeOK /\ PushInvariant => StatusFollowsKernel
  <2> SUFFICES ASSUME TypeOK, PushInvariant, Settled, status.connected,
                      timeouts = 0, fails = 0
               PROVE  /\ status.cam = kflags.cam
                      /\ status.unresolved = Report.unresolved
                      /\ status.allowed = Report.count
                      /\ enforceAudio = IntendedFlags(fingerprint.allow).aud
                            => status.aud = kflags.aud
    BY DEF StatusFollowsKernel, Report
  <2>1. cur # LastPush
    BY LastPushType DEF Settled, TypeOK
  <2>2. QED
    BY <2>1 DEF PushInvariant, PushIsFollowed, Settled
<1>2. QED
  BY <1>1, PushesAreFollowed, TypeCorrect, PTL
=============================================================================
