-------------------------- MODULE KernelGateProofs --------------------------
(***************************************************************************)
(* Theorems about KernelGate, for any number of tasks, executables and     *)
(* open files.                                                             *)
(***************************************************************************)
EXTENDS KernelGate, FiniteSetTheorems, TLAPS

USE GateAssumption

-----------------------------------------------------------------------------
(* Type correctness.                                                       *)

Hook == [at : Steps, exe : Exes \cup {None}, file : Files \cup {None},
         ok : BOOLEAN, time : Nat, fresh : BOOLEAN, seen : Nat]

(* A task in a hook is there for an executable and a file.                 *)
HookBusy == \A t \in Tasks : hook[t].at # "rest" => hook[t].exe \in Exes /\ hook[t].file \in Files

TypeInvariant == TypeOK /\ HookBusy

(* A task outside the hooks is a hook value.                               *)
LEMMA RestingType == Resting \in Hook
BY DEF Resting, Hook, Steps

(* The burst of a task in a hook.                                          *)
LEMMA KeyType ==
    ASSUME TypeInvariant, NEW t \in Tasks, hook[t].at # "rest"
    PROVE  Key(t) \in BurstKeys
BY DEF TypeInvariant, HookBusy, Key, BurstKeys, ClassOf, Classes

(* What a stale pointer is does not change the type of a hook.             *)
LEMMA StaledType ==
    ASSUME TypeInvariant, NEW users
    PROVE  /\ Staled(users) \in [Tasks -> Hook]
           /\ \A u \in Tasks : /\ Staled(users)[u].at = hook[u].at
                               /\ Staled(users)[u].exe = hook[u].exe
                               /\ Staled(users)[u].file = hook[u].file
                               /\ Staled(users)[u].ok = hook[u].ok
                               /\ Staled(users)[u].seen = hook[u].seen
                               /\ u \notin users => Staled(users)[u] = hook[u]
<1>1. \A u \in Tasks : hook[u] \in Hook
  BY DEF TypeInvariant, TypeOK, Hook
<1>2. \A h \in Hook : /\ [h EXCEPT !.fresh = FALSE] \in Hook
                      /\ [h EXCEPT !.fresh = FALSE].at = h.at
                      /\ [h EXCEPT !.fresh = FALSE].exe = h.exe
                      /\ [h EXCEPT !.fresh = FALSE].file = h.file
                      /\ [h EXCEPT !.fresh = FALSE].ok = h.ok
                      /\ [h EXCEPT !.fresh = FALSE].seen = h.seen
  BY DEF Hook
<1>3. QED
  BY <1>1, <1>2 DEF Staled

(* An add keeps the counts counts.                                         *)
LEMMA AddType ==
    ASSUME TypeInvariant, NEW t \in Tasks, hook[t].at # "rest",
           NEW delta \in Nat, AddThrough(t, delta)
    PROVE  counts' \in [Exes -> Nat \cup {NoCount}] /\ overlapped' \subseteq Exes
<1>1. \A e \in Exes : (counts[e] + delta) % Wrap \in Nat
  <2>1. \A e \in Exes : counts[e] + delta \in Int
    <3>1. \A e \in Exes : counts[e] \in Nat \cup {-1}
      BY DEF TypeInvariant, TypeOK, NoCount
    <3>2. \A i \in Nat \cup {-1} : i + delta \in Int
      OBVIOUS
    <3>3. QED
      BY <3>1, <3>2
  <2>2. Wrap \in Nat \ {0}
    OBVIOUS
  <2>3. \A i \in Int : i % Wrap \in Nat
    BY <2>2
  <2>4. QED
    BY <2>1, <2>3
<1>2. hook[t].exe \in Exes /\ counts \in [Exes -> Nat \cup {NoCount}] /\ overlapped \subseteq Exes
  BY DEF TypeInvariant, HookBusy, TypeOK
<1>3. CASE UNCHANGED <<counts, overlapped>>
  BY <1>2, <1>3
<1>4. ASSUME NEW e \in Exes, counts' = [counts EXCEPT ![e] = (counts[e] + delta) % Wrap]
      PROVE  counts' \in [Exes -> Nat \cup {NoCount}]
  BY <1>1, <1>2, <1>4
<1>5. QED
  BY <1>2, <1>3, <1>4 DEF AddThrough

(* The end of an open.                                                     *)
LEMMA FinishType ==
    ASSUME TypeInvariant, NEW t \in Tasks, hook[t].at # "rest", Finish(t)
    PROVE  /\ truth' \in [BurstKeys -> [denied : Nat, allowed : Nat]]
           /\ held' \in [Files -> Exes \cup {None}] /\ leaked' \subseteq Files
           /\ hook' \in [Tasks -> Hook] /\ HookBusy'
<1>1. Key(t) \in BurstKeys /\ hook[t].exe \in Exes /\ hook[t].file \in Files
  BY KeyType DEF TypeInvariant, HookBusy
<1>2. truth' \in [BurstKeys -> [denied : Nat, allowed : Nat]]
  <2>1. truth \in [BurstKeys -> [denied : Nat, allowed : Nat]]
    BY DEF TypeInvariant, TypeOK
  <2>2. /\ [truth[Key(t)] EXCEPT !.denied = @ + 1] \in [denied : Nat, allowed : Nat]
        /\ [truth[Key(t)] EXCEPT !.allowed = @ + 1] \in [denied : Nat, allowed : Nat]
    BY <1>1, <2>1
  <2>3. \/ truth' = [truth EXCEPT ![Key(t)] = [truth[Key(t)] EXCEPT !.denied = @ + 1]]
        \/ truth' = [truth EXCEPT ![Key(t)] = [truth[Key(t)] EXCEPT !.allowed = @ + 1]]
    BY DEF Finish
  <2>4. QED
    BY <2>1, <2>2, <2>3
<1>3. held' \in [Files -> Exes \cup {None}] /\ leaked' \subseteq Files
  <2>1. held \in [Files -> Exes \cup {None}] /\ leaked \subseteq Files
    BY DEF TypeInvariant, TypeOK
  <2>2. \/ UNCHANGED <<held, leaked>>
        \/ held' = [held EXCEPT ![hook[t].file] = hook[t].exe] /\ UNCHANGED leaked
        \/ UNCHANGED held /\ leaked' \in {leaked, leaked \cup {hook[t].file}}
    BY DEF Finish, DriverOpens, DriverRefuses
  <2>3. QED
    BY <1>1, <2>1, <2>2
<1>4. hook' = [hook EXCEPT ![t] = Resting]
  BY DEF Finish, Leave
<1>5. hook' \in [Tasks -> Hook] /\ HookBusy'
  BY <1>4, RestingType DEF TypeInvariant, TypeOK, Hook, HookBusy, Resting
<1>6. QED
  BY <1>2, <1>3, <1>5

(* A task that moves on inside its hook.                                   *)
LEMMA MoveType ==
    ASSUME TypeInvariant, NEW t \in Tasks, hook[t].at # "rest", NEW step \in Steps,
           NEW fresh \in BOOLEAN, NEW seen \in Nat,
           hook' = [hook EXCEPT ![t] = [hook[t] EXCEPT !.at = step, !.fresh = fresh, !.seen = seen]]
    PROVE  hook' \in [Tasks -> Hook] /\ HookBusy'
<1>1. hook \in [Tasks -> Hook] /\ HookBusy
  BY DEF TypeInvariant, TypeOK, Hook
<1>2. [hook[t] EXCEPT !.at = step, !.fresh = fresh, !.seen = seen] \in Hook
  BY <1>1 DEF Hook
<1>3. QED
  BY <1>1, <1>2 DEF HookBusy, Hook

(* A task that enters the coalescing part.                                 *)
LEMMA WindowType ==
    ASSUME TypeInvariant, NEW t \in Tasks, hook[t].at # "rest",
           hook' = [hook EXCEPT ![t] = ToWindow(hook[t])]
    PROVE  hook' \in [Tasks -> Hook] /\ HookBusy'
<1>1. hook \in [Tasks -> Hook] /\ HookBusy /\ now \in Nat
  BY DEF TypeInvariant, TypeOK, Hook
<1>2. ToWindow(hook[t]) \in Hook
  BY <1>1 DEF Hook, ToWindow, Steps, Coalescing
<1>3. QED
  BY <1>1, <1>2 DEF HookBusy, Hook, ToWindow

(* A task that leaves its hook.                                            *)
LEMMA LeaveType ==
    ASSUME TypeInvariant, NEW t \in Tasks, Leave(t)
    PROVE  hook' \in [Tasks -> Hook] /\ HookBusy'
BY RestingType DEF TypeInvariant, TypeOK, Hook, HookBusy, Resting, Leave

(* What is put into the ring buffer is an event.                           *)
LEMMA EmitType ==
    ASSUME TypeInvariant, NEW ev \in Events, Emit(ev)
    PROVE  ring' \in Seq(Events)
BY DEF TypeInvariant, TypeOK, Emit

(* A burst that starts.                                                    *)
LEMMA BurstType ==
    ASSUME TypeInvariant, NEW t \in Tasks, hook[t].at # "rest",
           bursts' = [bursts EXCEPT ![Key(t)] = [last |-> hook[t].time, suppressed |-> 0,
                                                 denied |-> ~hook[t].ok]]
    PROVE  bursts' \in [BurstKeys -> [last : Int, suppressed : Nat, denied : BOOLEAN]]
<1>1. Key(t) \in BurstKeys
  BY KeyType
<1>2. hook[t].time \in Nat /\ bursts \in [BurstKeys -> [last : Int, suppressed : Nat, denied : BOOLEAN]]
  BY DEF TypeInvariant, TypeOK
<1>3. (~hook[t].ok) \in BOOLEAN
  OBVIOUS
<1>4. QED
  BY <1>1, <1>2, <1>3

(* Every step of a hook keeps the types.                                   *)
LEMMA HookStepType ==
    ASSUME TypeInvariant, NEW t \in Tasks, HookStep(t)
    PROVE  TypeInvariant'
<1> USE DEF TypeInvariant
<1>1. hook[t].at # "rest"
  BY DEF HookStep, Track, CountLookup, CountAdd, CountOne, CoalesceLookup, Swallow, TakeBurst,
         FirstBurst, Report, ReleaseLookup, ReleaseDecrement, ReleaseRecheck, ReleaseForget,
         ReleaseReport
<1>2. /\ hook \in [Tasks -> Hook]
      /\ hook[t] \in Hook
      /\ hook[t].exe \in Exes /\ hook[t].file \in Files
      /\ hook[t].fresh \in BOOLEAN /\ hook[t].seen \in Nat /\ hook[t].ok \in BOOLEAN
      /\ hook[t] = [hook[t] EXCEPT !.fresh = hook[t].fresh, !.seen = hook[t].seen]
  BY <1>1 DEF TypeOK, Hook, HookBusy
<1>3. Key(t) \in BurstKeys
  BY <1>1, KeyType
<1>4. ASSUME NEW step \in Steps, MoveTo(t, step)
      PROVE  hook' \in [Tasks -> Hook] /\ HookBusy'
  <2>1. [hook[t] EXCEPT !.at = step]
          = [hook[t] EXCEPT !.at = step, !.fresh = hook[t].fresh, !.seen = hook[t].seen]
    BY <1>2 DEF Hook
  <2>2. hook' = [hook EXCEPT ![t] = [hook[t] EXCEPT !.at = step, !.fresh = hook[t].fresh,
                                                    !.seen = hook[t].seen]]
    BY <1>4, <2>1 DEF MoveTo
  <2>3. QED
    BY <1>1, <1>2, <2>2, MoveType
<1>5. ASSUME NEW step \in Steps, hook' = [hook EXCEPT ![t].at = step, ![t].fresh = TRUE]
      PROVE  hook' \in [Tasks -> Hook] /\ HookBusy'
  <2>1. [hook[t] EXCEPT !.at = step, !.fresh = TRUE]
          = [hook[t] EXCEPT !.at = step, !.fresh = TRUE, !.seen = hook[t].seen]
    BY <1>2 DEF Hook
  <2>2. hook' = [hook EXCEPT ![t] = [hook[t] EXCEPT !.at = step, !.fresh = TRUE,
                                                    !.seen = hook[t].seen]]
    BY <1>2, <1>5, <2>1 DEF Hook
  <2>3. QED
    BY <1>1, <1>2, <2>2, MoveType
<1>6. ASSUME NEW users, NEW h \in Hook, h.at # "rest" => h.exe \in Exes /\ h.file \in Files,
             hook' = [Staled(users) EXCEPT ![t] = h]
      PROVE  hook' \in [Tasks -> Hook] /\ HookBusy'
  BY <1>6, StaledType DEF HookBusy
<1>7. ASSUME NEW users, NEW step \in Steps, hook' = [Staled(users) EXCEPT ![t].at = step]
      PROVE  hook' \in [Tasks -> Hook] /\ HookBusy'
  <2>1. Staled(users)[t] \in Hook /\ Staled(users)[t].exe \in Exes /\ Staled(users)[t].file \in Files
    BY <1>2, StaledType
  <2>2. [Staled(users)[t] EXCEPT !.at = step] \in Hook
    BY <2>1 DEF Hook
  <2>3. [Staled(users)[t] EXCEPT !.at = step].exe \in Exes /\ [Staled(users)[t] EXCEPT !.at = step].file \in Files
    BY <2>1 DEF Hook
  <2>4. QED
    BY <1>6, <1>7, <2>2, <2>3
<1>8. CASE Track(t)
  <2>1. hook' \in [Tasks -> Hook] /\ HookBusy'
    BY <1>1, <1>4, <1>8, WindowType DEF Track, Steps, Counting
  <2>2. openFiles' \in [Files -> Exes \cup {None}]
    BY <1>2, <1>8 DEF Track, TypeOK
  <2>3. QED
    BY <1>8, <2>1, <2>2 DEF Track, TypeOK, Hook
<1>9. CASE CountLookup(t)
  <2>1. hook' \in [Tasks -> Hook] /\ HookBusy'
    <3>1. hook' = [hook EXCEPT ![t].at = "one", ![t].fresh = TRUE]
          \/ hook' = [hook EXCEPT ![t].at = "add", ![t].fresh = TRUE]
      BY <1>9 DEF CountLookup
    <3>2. "one" \in Steps /\ "add" \in Steps
      BY DEF Steps, Counting
    <3>3. QED
      BY <1>5, <3>1, <3>2
  <2>2. QED
    BY <1>9, <2>1 DEF CountLookup, TypeOK, Hook
<1>10. CASE CountAdd(t)
  <2>1. hook' \in [Tasks -> Hook] /\ HookBusy'
    BY <1>1, <1>10, WindowType DEF CountAdd
  <2>2. counts' \in [Exes -> Nat \cup {NoCount}] /\ overlapped' \subseteq Exes
    BY <1>1, <1>10, AddType DEF CountAdd
  <2>3. QED
    BY <1>10, <2>1, <2>2 DEF CountAdd, TypeOK, Hook
<1>11. CASE CountOne(t)
  <2>1. ToWindow(hook[t]) \in Hook /\ ToWindow(hook[t]).exe \in Exes /\ ToWindow(hook[t]).file \in Files
    BY <1>2 DEF Hook, ToWindow, Steps, Coalescing, TypeOK
  <2>2. hook' \in [Tasks -> Hook] /\ HookBusy'
    BY <1>6, <1>11, <2>1 DEF CountOne
  <2>3. counts' \in [Exes -> Nat \cup {NoCount}]
    BY <1>2, <1>11 DEF CountOne, TypeOK
  <2>4. QED
    BY <1>11, <2>2, <2>3 DEF CountOne, TypeOK, Hook
<1>12. CASE CoalesceLookup(t)
  <2>1. hook' \in [Tasks -> Hook] /\ HookBusy'
    <3>1. PICK step \in {"first", "swallow", "reset"} :
              hook' = [hook EXCEPT ![t].at = step, ![t].fresh = TRUE, ![t].seen = bursts[Key(t)].suppressed]
      BY <1>12 DEF CoalesceLookup
    <3>2. bursts[Key(t)].suppressed \in Nat /\ step \in Steps
      BY <1>3 DEF TypeOK, Steps, Coalescing
    <3>3. hook' = [hook EXCEPT ![t] = [hook[t] EXCEPT !.at = step, !.fresh = TRUE,
                                                      !.seen = bursts[Key(t)].suppressed]]
      BY <1>2, <3>1, <3>2 DEF Hook
    <3>4. QED
      BY <1>1, <3>2, <3>3, MoveType
  <2>2. QED
    BY <1>12, <2>1 DEF CoalesceLookup, TypeOK, Hook
<1>13. CASE Swallow(t)
  <2>1. /\ truth' \in [BurstKeys -> [denied : Nat, allowed : Nat]]
        /\ held' \in [Files -> Exes \cup {None}] /\ leaked' \subseteq Files
        /\ hook' \in [Tasks -> Hook] /\ HookBusy'
    BY <1>1, <1>13, FinishType DEF Swallow
  <2>2. bursts' \in [BurstKeys -> [last : Int, suppressed : Nat, denied : BOOLEAN]]
    <3>1. bursts \in [BurstKeys -> [last : Int, suppressed : Nat, denied : BOOLEAN]]
      BY DEF TypeOK
    <3>2. [bursts[Key(t)] EXCEPT !.suppressed = @ + 1] \in [last : Int, suppressed : Nat, denied : BOOLEAN]
      BY <1>3, <3>1
    <3>3. \/ bursts' = [bursts EXCEPT ![Key(t)] = [bursts[Key(t)] EXCEPT !.suppressed = @ + 1]]
          \/ bursts' = bursts
      BY <1>13 DEF Swallow
    <3>4. QED
      BY <1>3, <3>1, <3>2, <3>3
  <2>3. blurred' \subseteq BurstKeys
    BY <1>3, <1>13 DEF Swallow, Blur, TypeOK
  <2>4. QED
    BY <1>13, <2>1, <2>2, <2>3 DEF Swallow, TypeOK, Hook
<1>14. CASE TakeBurst(t)
  <2>1. hook' \in [Tasks -> Hook] /\ HookBusy'
    BY <1>4, <1>14 DEF TakeBurst, Steps
  <2>2. bursts' \in [BurstKeys -> [last : Int, suppressed : Nat, denied : BOOLEAN]]
    <3>1. CASE hook[t].fresh
      <4>1. bursts' = [bursts EXCEPT ![Key(t)] = [last |-> hook[t].time, suppressed |-> 0,
                                                  denied |-> ~hook[t].ok]]
        BY <1>14, <3>1 DEF TakeBurst
      <4>2. QED
        BY <1>1, <4>1, BurstType
    <3>2. CASE ~hook[t].fresh
      BY <1>14, <3>2 DEF TakeBurst, TypeOK
    <3>3. QED
      BY <3>1, <3>2
  <2>3. blurred' \subseteq BurstKeys
    BY <1>3, <1>14 DEF TakeBurst, Blur, TypeOK
  <2>4. QED
    BY <1>14, <2>1, <2>2, <2>3 DEF TakeBurst, TypeOK, Hook
<1>15. CASE FirstBurst(t)
  <2>1. hook' \in [Tasks -> Hook] /\ HookBusy'
    BY <1>7, <1>15 DEF FirstBurst, Steps
  <2>2. bursts' \in [BurstKeys -> [last : Int, suppressed : Nat, denied : BOOLEAN]]
    <3>1. bursts' = [bursts EXCEPT ![Key(t)] = [last |-> hook[t].time, suppressed |-> 0,
                                                denied |-> ~hook[t].ok]]
      BY <1>15 DEF FirstBurst
    <3>2. QED
      BY <1>1, <3>1, BurstType
  <2>3. blurred' \subseteq BurstKeys
    BY <1>3, <1>15 DEF FirstBurst, Blur, TypeOK
  <2>4. QED
    BY <1>15, <2>1, <2>2, <2>3 DEF FirstBurst, TypeOK, Hook
<1>16. CASE Report(t)
  <2>1. /\ truth' \in [BurstKeys -> [denied : Nat, allowed : Nat]]
        /\ held' \in [Files -> Exes \cup {None}] /\ leaked' \subseteq Files
        /\ hook' \in [Tasks -> Hook] /\ HookBusy'
    BY <1>1, <1>16, FinishType DEF Report
  <2>2. ring' \in Seq(Events)
    <3> DEFINE ev == [kind |-> "open", exe |-> hook[t].exe, node |-> KindOf[hook[t].file],
                      denied |-> ~hook[t].ok, extra |-> hook[t].seen]
    <3>1. (~hook[t].ok) \in BOOLEAN
      OBVIOUS
    <3>2. KindOf[hook[t].file] \in {"camera", "capture", "playback"}
      BY <1>2
    <3>3. ev \in Events
      BY <1>2, <3>1, <3>2 DEF Events
    <3>4. Emit(ev)
      BY <1>16 DEF Report
    <3> HIDE DEF ev
    <3>5. QED
      BY <3>3, <3>4, EmitType
  <2>3. blurred' \subseteq BurstKeys
    BY <1>3, <1>16 DEF Report, Blur, TypeOK
  <2>4. QED
    BY <1>16, <2>1, <2>2, <2>3 DEF Report, TypeOK, Hook
<1>17. CASE ReleaseLookup(t)
  <2>1. hook' \in [Tasks -> Hook] /\ HookBusy'
    BY <1>5, <1>17, LeaveType DEF ReleaseLookup, Steps, Counting
  <2>2. QED
    BY <1>17, <2>1 DEF ReleaseLookup, TypeOK, Hook
<1>18. CASE ReleaseDecrement(t)
  <2>1. hook' \in [Tasks -> Hook] /\ HookBusy'
    BY <1>4, <1>18 DEF ReleaseDecrement, Steps, Counting
  <2>2. counts' \in [Exes -> Nat \cup {NoCount}] /\ overlapped' \subseteq Exes
    <3>1. AddThrough(t, Wrap - 1) /\ Wrap - 1 \in Nat
      BY <1>18 DEF ReleaseDecrement
    <3>2. QED
      BY <1>1, <3>1, AddType
  <2>3. QED
    BY <1>18, <2>1, <2>2 DEF ReleaseDecrement, TypeOK, Hook
<1>19. CASE ReleaseRecheck(t)
  <2>1. hook' \in [Tasks -> Hook] /\ HookBusy'
    BY <1>4, <1>19, LeaveType DEF ReleaseRecheck, Steps, Counting
  <2>2. QED
    BY <1>19, <2>1 DEF ReleaseRecheck, TypeOK, Hook
<1>20. CASE ReleaseForget(t)
  <2>1. hook' \in [Tasks -> Hook] /\ HookBusy'
    BY <1>7, <1>20 DEF ReleaseForget, Steps
  <2>2. counts' \in [Exes -> Nat \cup {NoCount}]
    BY <1>2, <1>20 DEF ReleaseForget, TypeOK
  <2>3. QED
    BY <1>20, <2>1, <2>2 DEF ReleaseForget, TypeOK, Hook
<1>21. CASE ReleaseReport(t)
  <2>1. hook' \in [Tasks -> Hook] /\ HookBusy'
    BY <1>21, LeaveType DEF ReleaseReport
  <2>2. ring' \in Seq(Events)
    <3> DEFINE ev == [kind |-> "release", exe |-> hook[t].exe, node |-> "camera",
                      denied |-> FALSE, extra |-> 0]
    <3>1. ev \in Events
      BY <1>2 DEF Events
    <3>2. Emit(ev)
      BY <1>21 DEF ReleaseReport
    <3> HIDE DEF ev
    <3>3. QED
      BY <3>1, <3>2, EmitType
  <2>3. QED
    BY <1>21, <2>1, <2>2 DEF ReleaseReport, TypeOK, Hook
<1>22. QED
  BY <1>8, <1>9, <1>10, <1>11, <1>12, <1>13, <1>14, <1>15, <1>16, <1>17, <1>18, <1>19, <1>20,
     <1>21 DEF HookStep

(* Every step of the whole keeps the types.                                *)
LEMMA NextType ==
    ASSUME TypeInvariant, [GateNext]_gateVars
    PROVE  TypeInvariant'
<1> USE DEF TypeInvariant
<1>1. hook \in [Tasks -> Hook] /\ Resting \in Hook
  BY RestingType DEF TypeOK, Hook
<1>2. ASSUME NEW t \in Tasks, NEW e \in Exes, NEW f \in Files, OpenVerdict(t, e, f)
      PROVE  TypeInvariant'
  <2> DEFINE h == [Resting EXCEPT !.exe = e, !.file = f, !.ok = Permitted(e, f)]
  <2>1. Permitted(e, f) \in BOOLEAN
    BY DEF Permitted
  <2>2. h \in Hook /\ h.exe = e /\ h.file = f
    BY <1>1, <2>1 DEF Hook, Resting
  <2>3. /\ [h EXCEPT !.at = "track"] \in Hook
        /\ [h EXCEPT !.at = "track"].exe = e /\ [h EXCEPT !.at = "track"].file = f
    BY <2>2 DEF Hook, Steps, Counting
  <2>4. ToWindow(h) \in Hook /\ ToWindow(h).exe = e /\ ToWindow(h).file = f
    BY <2>2 DEF Hook, Steps, Coalescing, ToWindow, TypeOK
  <2>5. hook' = [hook EXCEPT ![t] = [h EXCEPT !.at = "track"]] \/ hook' = [hook EXCEPT ![t] = ToWindow(h)]
    BY <1>2 DEF OpenVerdict
  <2> HIDE DEF h
  <2>6. hook' \in [Tasks -> Hook] /\ HookBusy'
    BY <1>1, <2>3, <2>4, <2>5 DEF HookBusy
  <2>7. overlapped' \subseteq Exes
    BY <1>2 DEF OpenVerdict, Overlapped, TypeOK
  <2>8. QED
    BY <1>2, <2>6, <2>7 DEF OpenVerdict, TypeOK, Hook
<1>3. ASSUME NEW t \in Tasks, NEW f \in Files, Close(t, f)
      PROVE  TypeInvariant'
  <2>1. /\ held' \in [Files -> Exes \cup {None}] /\ openFiles' \in [Files -> Exes \cup {None}]
        /\ leaked' \subseteq Files
    BY <1>3 DEF Close, TypeOK
  <2>2. hook' \in [Tasks -> Hook] /\ HookBusy' /\ overlapped' \subseteq Exes
    <3>1. CASE KindOf[f] = "camera" /\ openFiles[f] # None
      <4>1. openFiles[f] \in Exes
        BY <3>1 DEF TypeOK
      <4> DEFINE h == [Resting EXCEPT !.at = "found", !.file = f, !.exe = openFiles[f]]
      <4>2. h \in Hook /\ h.exe \in Exes /\ h.file \in Files
        BY <1>1, <4>1 DEF Hook, Resting, Steps, Counting
      <4>3. hook' = [hook EXCEPT ![t] = h] /\ overlapped' = Overlapped(t, openFiles[f])
        BY <1>3, <3>1 DEF Close
      <4> HIDE DEF h
      <4>4. QED
        BY <1>1, <4>1, <4>2, <4>3 DEF HookBusy, Overlapped, TypeOK
    <3>2. CASE ~(KindOf[f] = "camera" /\ openFiles[f] # None)
      BY <1>1, <1>3, <3>2 DEF Close, HookBusy, TypeOK
    <3>3. QED
      BY <3>1, <3>2
  <2>3. QED
    BY <1>3, <2>1, <2>2 DEF Close, TypeOK, Hook
<1>4. ASSUME NEW t \in Tasks, HookStep(t)
      PROVE  TypeInvariant'
  BY <1>4, HookStepType
<1>5. ASSUME NEW e \in Exes, NEW classes \in SUBSET Classes, Regrant(e, classes)
      PROVE  TypeInvariant'
  BY <1>5 DEF Regrant, TypeOK, HookBusy
<1>6. ASSUME NEW classes \in SUBSET Classes, Reenforce(classes)
      PROVE  TypeInvariant'
  BY <1>6 DEF Reenforce, TypeOK, HookBusy
<1>7. CASE Tick
  BY <1>7 DEF Tick, TypeOK, HookBusy
<1>8. CASE UNCHANGED gateVars
  BY <1>8 DEF gateVars, TypeOK, HookBusy
<1>9. QED
  BY <1>2, <1>3, <1>4, <1>5, <1>6, <1>7, <1>8 DEF GateNext

(* The types hold at the start.                                            *)
LEMMA InitType ==
    ASSUME GateInit
    PROVE  TypeInvariant
<1>1. hook \in [Tasks -> Hook] /\ HookBusy
  BY RestingType DEF GateInit, HookBusy, Resting
<1>2. bursts \in [BurstKeys -> [last : Int, suppressed : Nat, denied : BOOLEAN]]
  BY DEF GateInit, NoBurst
<1>3. perms \in [Exes -> SUBSET Classes]
  BY DEF GateInit, ClassOf, Classes
<1>4. QED
  BY <1>1, <1>2, <1>3 DEF GateInit, TypeInvariant, TypeOK, Hook

(* Whatever the hooks of any number of tasks do, the maps and the ring     *)
(* buffer of the gate hold what they are declared to hold.                 *)
THEOREM TypeIsInvariant == GateSpec => []TypeOK
<1>1. GateInit => TypeInvariant
  BY InitType
<1>2. TypeInvariant /\ [GateNext]_gateVars => TypeInvariant'
  BY NextType
<1>3. TypeInvariant => TypeOK
  BY DEF TypeInvariant
<1>4. QED
  BY <1>1, <1>2, <1>3, PTL DEF GateSpec

-----------------------------------------------------------------------------
(* What is tracked is open, or was refused by the driver.  A file is in    *)
(* one place: open, or in the hands of one task; and a task that releases  *)
(* it was not granted anything.                                            *)

Releasing == {"found", "dec", "recheck", "forget", "released"}

OneHolder ==
    /\ \A t \in Tasks : hook[t].at = "rest" => hook[t].file = None
    /\ \A t \in Tasks : hook[t].file # None => held[hook[t].file] = None
    /\ \A t, u \in Tasks : hook[t].file # None /\ hook[t].file = hook[u].file => t = u

HookVerdict ==
    /\ \A t \in Tasks : hook[t].at = "track" => hook[t].ok /\ KindOf[hook[t].file] = "camera"
    /\ \A t \in Tasks : hook[t].at \in Releasing => ~hook[t].ok

OnlyCameras == \A f \in Files : openFiles[f] # None => KindOf[f] = "camera"

FileInvariant == OneHolder /\ HookVerdict /\ OnlyCameras /\ TrackedUnlessRefused

(* A task that moves on inside its hook.                                   *)
LEMMA MoveFiles ==
    ASSUME TypeInvariant, FileInvariant, UNCHANGED <<held, leaked, openFiles>>,
           \A u \in Tasks :
               /\ hook'[u].exe = hook[u].exe /\ hook'[u].file = hook[u].file
               /\ hook'[u].ok = hook[u].ok
               /\ hook'[u].at = "rest" => hook[u].at = "rest"
               /\ hook'[u].at = "track" => hook[u].at = "track"
               /\ hook'[u].at \in Releasing => hook[u].at \in Releasing
    PROVE  FileInvariant'
BY DEF FileInvariant, OneHolder, HookVerdict, OnlyCameras, TrackedUnlessRefused

(* A task that leaves its hook without a file.                             *)
LEMMA LeaveFiles ==
    ASSUME TypeInvariant, FileInvariant, NEW t \in Tasks, hook[t].at \in Releasing,
           UNCHANGED <<held, leaked, openFiles>>, Leave(t)
    PROVE  FileInvariant'
<1>1. /\ hook' = [hook EXCEPT ![t] = Resting]
      /\ hook \in [Tasks -> Hook]
      /\ ~hook[t].ok
  BY DEF Leave, FileInvariant, HookVerdict, TypeInvariant, TypeOK, Hook
<1>2. Resting.at = "rest" /\ Resting.file = None /\ "rest" \notin Releasing
  BY DEF Resting, Releasing
<1>3. \A u \in Tasks : hook'[u] = IF u = t THEN Resting ELSE hook[u]
  BY <1>1
<1>4. OneHolder' /\ HookVerdict' /\ OnlyCameras'
  BY <1>2, <1>3 DEF FileInvariant, OneHolder, HookVerdict, OnlyCameras
<1>5. TrackedUnlessRefused'
  BY <1>1, <1>3 DEF FileInvariant, TrackedUnlessRefused
<1>6. QED
  BY <1>4, <1>5 DEF FileInvariant

(* A task that ends an open.                                               *)
LEMMA FinishFiles ==
    ASSUME TypeInvariant, FileInvariant, NEW t \in Tasks, hook[t].at # "rest",
           UNCHANGED openFiles, Finish(t)
    PROVE  FileInvariant'
<1>1. /\ hook' = [hook EXCEPT ![t] = Resting]
      /\ hook \in [Tasks -> Hook]
      /\ held \in [Files -> Exes \cup {None}]
      /\ hook[t].file \in Files /\ hook[t].exe \in Exes
      /\ \/ hook[t].ok /\ held' = [held EXCEPT ![hook[t].file] = hook[t].exe] /\ leaked' = leaked
         \/ /\ hook[t].ok /\ held' = held
            /\ leaked' = IF openFiles[hook[t].file] # None THEN leaked \cup {hook[t].file} ELSE leaked
         \/ ~hook[t].ok /\ held' = held /\ leaked' = leaked
  BY DEF Finish, DriverOpens, DriverRefuses, Leave, TypeInvariant, TypeOK, HookBusy, Hook
<1>2. Resting.at = "rest" /\ Resting.file = None /\ "rest" \notin Releasing /\ None \notin Files
  BY DEF Resting, Releasing
<1>3. \A u \in Tasks : hook'[u] = IF u = t THEN Resting ELSE hook[u]
  BY <1>1
<1>4. (\A f \in Files : f # hook[t].file => held'[f] = held[f]) /\ leaked \subseteq leaked'
  BY <1>1
<1>5. OneHolder'
  <2>1. \A u \in Tasks : hook[u].file \in Files \cup {None}
    BY <1>1 DEF Hook
  <2>2. \A u \in Tasks : u # t /\ hook[u].file # None => hook[u].file # hook[t].file
    BY <1>1 DEF FileInvariant, OneHolder
  <2>3. QED
    BY <1>2, <1>3, <1>4, <2>1, <2>2 DEF FileInvariant, OneHolder
<1>6. HookVerdict' /\ OnlyCameras'
  BY <1>2, <1>3 DEF FileInvariant, HookVerdict, OnlyCameras
<1>7. TrackedUnlessRefused'
  <2> SUFFICES ASSUME NEW f \in Files, openFiles[f] # None
               PROVE  \/ held'[f] = openFiles[f]
                      \/ \E u \in Tasks : hook'[u].file = f /\ hook'[u].exe = openFiles[f] /\ hook'[u].ok
                      \/ f \in leaked'
    BY DEF TrackedUnlessRefused
  <2>1. CASE f = hook[t].file /\ f \notin leaked
    <3>1. held[f] = None
      BY <1>1, <1>2, <2>1 DEF FileInvariant, OneHolder
    <3>2. PICK u \in Tasks : hook[u].file = f /\ hook[u].exe = openFiles[f] /\ hook[u].ok
      BY <2>1, <3>1 DEF FileInvariant, TrackedUnlessRefused
    <3>3. u = t
      BY <1>1, <1>2, <2>1, <3>2 DEF FileInvariant, OneHolder
    <3>4. QED
      BY <1>1, <2>1, <3>2, <3>3
  <2>2. CASE f # hook[t].file
    BY <1>3, <1>4, <2>2 DEF FileInvariant, TrackedUnlessRefused
  <2>3. CASE f \in leaked
    BY <1>4, <2>3
  <2>4. QED
    BY <2>1, <2>2, <2>3
<1>8. QED
  BY <1>5, <1>6, <1>7 DEF FileInvariant

(* An open that starts: the file is nowhere yet, and not tracked.          *)
LEMMA OpenFiles ==
    ASSUME TypeInvariant, FileInvariant, NEW t \in Tasks, NEW e \in Exes, NEW f \in Files,
           OpenVerdict(t, e, f)
    PROVE  FileInvariant'
<1> DEFINE h == [Resting EXCEPT !.exe = e, !.file = f, !.ok = Permitted(e, f)]
<1>1. hook \in [Tasks -> Hook] /\ hook[t].at = "rest" /\ ~Busy(f) /\ UNCHANGED <<held, leaked, openFiles>>
  BY DEF OpenVerdict, TypeInvariant, TypeOK, Hook
<1>2. \/ hook' = [hook EXCEPT ![t] = [h EXCEPT !.at = "track"]] /\ h.ok /\ KindOf[f] = "camera"
      \/ hook' = [hook EXCEPT ![t] = ToWindow(h)]
  BY DEF OpenVerdict
<1>3. /\ ToWindow(h).at = "window" /\ ToWindow(h).file = f
      /\ [h EXCEPT !.at = "track"].at = "track" /\ [h EXCEPT !.at = "track"].file = f
      /\ [h EXCEPT !.at = "track"].ok = h.ok
      /\ "window" \notin Releasing /\ "track" \notin Releasing
  BY DEF ToWindow, Resting, Releasing
<1> HIDE DEF h
<1>4. /\ hook'[t].at \in {"window", "track"} /\ hook'[t].file = f
      /\ hook'[t].at = "track" => hook'[t].ok /\ KindOf[f] = "camera"
      /\ \A u \in Tasks \ {t} : hook'[u] = hook[u]
  BY <1>1, <1>2, <1>3
<1>5. OneHolder'
  BY <1>1, <1>4 DEF FileInvariant, OneHolder, Busy
<1>6. HookVerdict'
  BY <1>3, <1>4 DEF FileInvariant, HookVerdict
<1>7. OnlyCameras' /\ TrackedUnlessRefused'
  <2>1. hook[t].file = None /\ None \notin Files
    BY <1>1 DEF FileInvariant, OneHolder
  <2>2. QED
    BY <1>1, <1>4, <2>1 DEF FileInvariant, OnlyCameras, TrackedUnlessRefused
<1>8. QED
  BY <1>5, <1>6, <1>7 DEF FileInvariant

(* A close: the handle is forgotten before the file is gone.               *)
LEMMA CloseFiles ==
    ASSUME TypeInvariant, FileInvariant, NEW t \in Tasks, NEW f \in Files, Close(t, f)
    PROVE  FileInvariant'
<1>1. /\ hook \in [Tasks -> Hook] /\ hook[t].at = "rest"
      /\ held[f] # None /\ held' = [held EXCEPT ![f] = None]
      /\ held \in [Files -> Exes \cup {None}] /\ openFiles \in [Files -> Exes \cup {None}]
      /\ hook[t].file = None /\ None \notin Files
  BY DEF Close, TypeInvariant, TypeOK, Hook, FileInvariant, OneHolder
<1>2. \A u \in Tasks : hook[u].file # f
  BY <1>1 DEF FileInvariant, OneHolder
<1>3. \A g \in Files : g # f => held'[g] = held[g]
  BY <1>1
<1>4. \A u \in Tasks : hook[u].file \in Files \cup {None}
  BY <1>1 DEF Hook
<1>5. CASE openFiles[f] # None
  <2>1. KindOf[f] = "camera"
    BY <1>5 DEF FileInvariant, OnlyCameras
  <2> DEFINE h == [Resting EXCEPT !.at = "found", !.file = f, !.exe = openFiles[f]]
  <2>2. /\ hook' = [hook EXCEPT ![t] = h] /\ openFiles' = [openFiles EXCEPT ![f] = None]
        /\ leaked' = leaked \ {f}
    BY <1>5, <2>1 DEF Close
  <2>3. h.at = "found" /\ h.file = f /\ h.ok = FALSE
    BY DEF Resting
  <2> HIDE DEF h
  <2>4. \A u \in Tasks : hook'[u] = IF u = t THEN h ELSE hook[u]
    BY <1>1, <2>2
  <2>5. OneHolder'
    BY <1>1, <1>2, <1>3, <1>4, <2>3, <2>4 DEF FileInvariant, OneHolder
  <2>6. HookVerdict'
    BY <2>3, <2>4 DEF FileInvariant, HookVerdict
  <2>7. OnlyCameras'
    BY <1>1, <2>2 DEF FileInvariant, OnlyCameras
  <2>8. TrackedUnlessRefused'
    <3>1. \A g \in Files : openFiles'[g] = IF g = f THEN None ELSE openFiles[g]
      BY <1>1, <2>2
    <3>2. QED
      BY <1>1, <1>3, <2>2, <2>4, <3>1 DEF FileInvariant, TrackedUnlessRefused
  <2>9. QED
    BY <2>5, <2>6, <2>7, <2>8 DEF FileInvariant
<1>6. CASE openFiles[f] = None
  <2>1. UNCHANGED <<hook, leaked, openFiles>>
    BY <1>6 DEF Close
  <2>2. OneHolder'
    BY <1>1, <1>2, <1>3, <1>4, <2>1 DEF FileInvariant, OneHolder
  <2>3. HookVerdict' /\ OnlyCameras'
    BY <2>1 DEF FileInvariant, HookVerdict, OnlyCameras
  <2>4. TrackedUnlessRefused'
    BY <1>3, <1>6, <2>1 DEF FileInvariant, TrackedUnlessRefused
  <2>5. QED
    BY <2>2, <2>3, <2>4 DEF FileInvariant
<1>7. QED
  BY <1>5, <1>6

(* The handle that enters the table belongs to the task that opens it.     *)
LEMMA TrackFiles ==
    ASSUME TypeInvariant, FileInvariant, NEW t \in Tasks, Track(t)
    PROVE  FileInvariant'
<1>1. /\ hook \in [Tasks -> Hook] /\ hook[t].at = "track" /\ UNCHANGED <<held, leaked>>
      /\ hook[t].file \in Files /\ hook[t].exe \in Exes
      /\ openFiles \in [Files -> Exes \cup {None}]
  BY DEF Track, TypeInvariant, TypeOK, Hook, HookBusy
<1>2. hook[t].ok /\ KindOf[hook[t].file] = "camera"
  BY <1>1 DEF FileInvariant, HookVerdict
<1>3. /\ \A u \in Tasks : /\ hook'[u].exe = hook[u].exe /\ hook'[u].file = hook[u].file
                          /\ hook'[u].ok = hook[u].ok
      /\ \A u \in Tasks \ {t} : hook'[u] = hook[u]
      /\ hook'[t].at \in {"lookup", "window"}
  <2>1. \/ hook' = [hook EXCEPT ![t] = [hook[t] EXCEPT !.at = "lookup"]]
        \/ hook' = [hook EXCEPT ![t] = ToWindow(hook[t])]
    BY DEF Track, MoveTo
  <2>2. \A h \in Hook : /\ ToWindow(h).exe = h.exe /\ ToWindow(h).file = h.file
                        /\ ToWindow(h).ok = h.ok /\ ToWindow(h).at = "window"
                        /\ [h EXCEPT !.at = "lookup"].exe = h.exe
                        /\ [h EXCEPT !.at = "lookup"].file = h.file
                        /\ [h EXCEPT !.at = "lookup"].ok = h.ok
                        /\ [h EXCEPT !.at = "lookup"].at = "lookup"
    BY DEF ToWindow, Hook
  <2>3. hook[t] \in Hook
    BY <1>1
  <2>4. CASE hook' = [hook EXCEPT ![t] = [hook[t] EXCEPT !.at = "lookup"]]
    BY <1>1, <2>2, <2>3, <2>4
  <2>5. CASE hook' = [hook EXCEPT ![t] = ToWindow(hook[t])]
    BY <1>1, <2>2, <2>3, <2>5
  <2>6. QED
    BY <2>1, <2>4, <2>5
<1>4. \/ UNCHANGED openFiles
      \/ openFiles' = [openFiles EXCEPT ![hook[t].file] = hook[t].exe]
  BY DEF Track
<1>5. OneHolder' /\ HookVerdict'
  BY <1>1, <1>3 DEF FileInvariant, OneHolder, HookVerdict, Releasing
<1>6. \A f \in Files : openFiles'[f] = openFiles[f] \/ (f = hook[t].file /\ openFiles'[f] = hook[t].exe)
  BY <1>1, <1>4
<1>7. OnlyCameras' /\ TrackedUnlessRefused'
  BY <1>1, <1>2, <1>3, <1>6 DEF FileInvariant, OnlyCameras, TrackedUnlessRefused
<1>8. QED
  BY <1>5, <1>7 DEF FileInvariant

(* Every step of a hook keeps the files in place.                          *)
LEMMA HookStepFiles ==
    ASSUME TypeInvariant, FileInvariant, NEW t \in Tasks, HookStep(t)
    PROVE  FileInvariant'
<1>1. hook \in [Tasks -> Hook]
  BY DEF TypeInvariant, TypeOK, Hook
<1>2. CASE Track(t)
  BY <1>2, TrackFiles
<1>3. CASE CountLookup(t) \/ CountAdd(t) \/ CoalesceLookup(t) \/ TakeBurst(t) \/ ReleaseDecrement(t)
  <2>1. CASE CountLookup(t)
    BY <1>1, <2>1, MoveFiles DEF CountLookup, Hook, Releasing
  <2>2. CASE CountAdd(t)
    BY <1>1, <2>2, MoveFiles DEF CountAdd, ToWindow, Hook, Releasing
  <2>3. CASE CoalesceLookup(t)
    <3>1. PICK step \in {"first", "swallow", "reset"}, seen \in {bursts[Key(t)].suppressed} :
              hook' = [hook EXCEPT ![t].at = step, ![t].fresh = TRUE, ![t].seen = seen]
      BY <2>3 DEF CoalesceLookup
    <3>2. UNCHANGED <<held, leaked, openFiles>> /\ hook[t].at = "window"
      BY <2>3 DEF CoalesceLookup
    <3>3. QED
      BY <1>1, <3>1, <3>2, MoveFiles DEF Hook, Releasing
  <2>4. CASE TakeBurst(t)
    BY <1>1, <2>4, MoveFiles DEF TakeBurst, MoveTo, Hook, Releasing
  <2>5. CASE ReleaseDecrement(t)
    BY <1>1, <2>5, MoveFiles DEF ReleaseDecrement, MoveTo, Hook, Releasing
  <2>6. QED
    BY <1>3, <2>1, <2>2, <2>3, <2>4, <2>5
<1>4. CASE CountOne(t)
  <2>1. /\ hook' = [Staled(CountPointers(hook[t].exe)) EXCEPT ![t] = ToWindow(hook[t])]
        /\ UNCHANGED <<held, leaked, openFiles>>
    BY <1>4 DEF CountOne
  <2>2. /\ ToWindow(hook[t]).exe = hook[t].exe /\ ToWindow(hook[t]).file = hook[t].file
        /\ ToWindow(hook[t]).ok = hook[t].ok /\ ToWindow(hook[t]).at = "window"
    BY <1>1 DEF ToWindow, Hook
  <2>3. QED
    BY <2>1, <2>2, StaledType, MoveFiles DEF Releasing
<1>5. CASE FirstBurst(t) \/ ReleaseForget(t)
  <2>1. ASSUME NEW users, NEW step \in {"report", "released"},
               hook' = [Staled(users) EXCEPT ![t].at = step],
               step = "released" => hook[t].at = "forget", hook[t].at # "rest",
               UNCHANGED <<held, leaked, openFiles>>
        PROVE  FileInvariant'
    <3> DEFINE S == Staled(users)
    <3>1. /\ S \in [Tasks -> Hook]
          /\ \A u \in Tasks : /\ S[u].at = hook[u].at /\ S[u].exe = hook[u].exe
                              /\ S[u].file = hook[u].file /\ S[u].ok = hook[u].ok
      BY StaledType
    <3>2. hook' = [S EXCEPT ![t].at = step]
      BY <2>1
    <3> HIDE DEF S
    <3>3. \A u \in Tasks : /\ hook'[u].exe = S[u].exe /\ hook'[u].file = S[u].file
                           /\ hook'[u].ok = S[u].ok
                           /\ hook'[u].at = IF u = t THEN step ELSE S[u].at
      BY <3>1, <3>2 DEF Hook
    <3>4. QED
      BY <2>1, <3>1, <3>3, MoveFiles DEF Releasing
  <2>2. CASE FirstBurst(t)
    <3>1. /\ hook' = [Staled(BurstPointers(Key(t))) EXCEPT ![t].at = "report"]
          /\ hook[t].at # "rest" /\ UNCHANGED <<held, leaked, openFiles>>
      BY <2>2 DEF FirstBurst
    <3>2. QED
      BY <2>1, <3>1
  <2>3. CASE ReleaseForget(t)
    <3>1. /\ hook' = [Staled(CountPointers(hook[t].exe)) EXCEPT ![t].at = "released"]
          /\ hook[t].at = "forget" /\ UNCHANGED <<held, leaked, openFiles>>
      BY <2>3 DEF ReleaseForget
    <3>2. QED
      BY <2>1, <3>1
  <2>4. QED
    BY <1>5, <2>2, <2>3
<1>6. CASE Swallow(t) \/ Report(t)
  BY <1>6, FinishFiles DEF Swallow, Report
<1>7. CASE ReleaseLookup(t) \/ ReleaseRecheck(t)
  <2>1. hook[t].at \in Releasing /\ UNCHANGED <<held, leaked, openFiles>>
    BY <1>7 DEF ReleaseLookup, ReleaseRecheck, Releasing
  <2>2. CASE Leave(t)
    BY <2>1, <2>2, LeaveFiles
  <2>3. CASE ~Leave(t)
    BY <1>1, <1>7, <2>1, <2>3, MoveFiles DEF ReleaseLookup, ReleaseRecheck, MoveTo, Hook, Releasing
  <2>4. QED
    BY <2>2, <2>3
<1>8. CASE ReleaseReport(t)
  BY <1>8, LeaveFiles DEF ReleaseReport, Releasing
<1>9. QED
  BY <1>2, <1>3, <1>4, <1>5, <1>6, <1>7, <1>8 DEF HookStep

(* Every step keeps the files in place.                                    *)
LEMMA NextFiles ==
    ASSUME TypeInvariant, FileInvariant, [GateNext]_gateVars
    PROVE  FileInvariant'
<1>1. CASE UNCHANGED <<hook, held, leaked, openFiles>>
  BY <1>1 DEF FileInvariant, OneHolder, HookVerdict, OnlyCameras, TrackedUnlessRefused
<1>2. QED
  BY <1>1, OpenFiles, CloseFiles, HookStepFiles DEF GateNext, gateVars, Regrant, Reenforce, Tick

(* A tracked handle is open, or being opened with leave, in every state of *)
(* any number of hooks, but for those whose open the driver refused after  *)
(* the hook had let it through: what the hook denied never holds a session *)
(* open, and a close ends the entry of whatever file has the address.      *)
THEOREM OnlyRefusedOpensStay == GateSpec => []TrackedUnlessRefused
<1>1. GateInit => TypeInvariant /\ FileInvariant
  <2> SUFFICES ASSUME GateInit
               PROVE  FileInvariant
    BY InitType
  <2>1. /\ \A t \in Tasks : hook[t].at = "rest" /\ hook[t].file = None
        /\ \A f \in Files : openFiles[f] = None
    BY DEF GateInit, Resting
  <2>2. QED
    BY <2>1 DEF FileInvariant, OneHolder, HookVerdict, OnlyCameras, TrackedUnlessRefused, Releasing
<1>2. TypeInvariant /\ FileInvariant /\ [GateNext]_gateVars => TypeInvariant' /\ FileInvariant'
  BY NextType, NextFiles
<1>3. FileInvariant => TrackedUnlessRefused
  BY DEF FileInvariant
<1>4. QED
  BY <1>1, <1>2, <1>3, PTL DEF GateSpec

-----------------------------------------------------------------------------
(* The handle count.  While the hooks of an executable count one after the *)
(* other, the count is what is tracked, off by what the one hook that is   *)
(* counting has still to write.                                            *)

Handles(e) == Cardinality(TrackedBy(e))

\* What the map holds for a number of handles.
Entry(n) == IF n = 0 THEN NoCount ELSE n

OneCounter(e) ==
    \A t, u \in Tasks :
        hook[t].exe = e /\ hook[t].at \in Counting /\ hook[u].exe = e /\ hook[u].at \in Counting
            => t = u

Quiet(e) == \A t \in Tasks : hook[t].exe = e => hook[t].at \notin Counting

CountAtStep(t, e) ==
    CASE hook[t].at = "track"   -> counts[e] = Entry(Handles(e))
      [] hook[t].at = "lookup"  -> Handles(e) > 0 /\ counts[e] = Entry(Handles(e) - 1)
      [] hook[t].at = "add"     -> hook[t].fresh /\ Handles(e) > 1 /\ counts[e] = Handles(e) - 1
      [] hook[t].at = "one"     -> Handles(e) = 1 /\ counts[e] = NoCount
      [] hook[t].at = "found"   -> counts[e] = Handles(e) + 1
      [] hook[t].at = "dec"     -> hook[t].fresh /\ counts[e] = Handles(e) + 1
      [] hook[t].at = "recheck" -> counts[e] = Handles(e)
      [] hook[t].at = "forget"  -> Handles(e) = 0 /\ counts[e] = 0
      [] OTHER                  -> TRUE

CountOf(e) ==
    /\ OneCounter(e)
    /\ Quiet(e) => counts[e] = Entry(Handles(e))
    /\ \A t \in Tasks : hook[t].exe = e => CountAtStep(t, e)

\* The table is never larger than its capacity.
TableFits == Cardinality({f \in Files : openFiles[f] # None}) \in 0..TableCap

CountInvariant == TableFits /\ \A e \in Exes \ overlapped : CountOf(e)

(* The number of handles of an executable, which the wrap is well above.   *)
LEMMA HandlesFit ==
    ASSUME TypeInvariant, TableFits, NEW e \in Exes
    PROVE  /\ IsFiniteSet(TrackedBy(e)) /\ Handles(e) \in 0..TableCap
           /\ Handles(e) = 0 <=> TrackedBy(e) = {}
<1> DEFINE All == {f \in Files : openFiles[f] # None}
<1>1. All \in SUBSET Files /\ TrackedBy(e) \in SUBSET All
  BY DEF TrackedBy
<1>2. IsFiniteSet(All) /\ Cardinality(All) \in 0..TableCap
  BY <1>1, FS_Subset DEF TableFits
<1> HIDE DEF All
<1>3. IsFiniteSet(TrackedBy(e)) /\ Cardinality(TrackedBy(e)) <= Cardinality(All)
  BY <1>1, <1>2, FS_Subset
<1>4. Cardinality(TrackedBy(e)) \in Nat
  BY <1>3, FS_CardinalityType
<1>5. QED
  BY <1>2, <1>3, <1>4, FS_EmptySet DEF Handles

(* The atomic add and the atomic decrement of a count that fits.           *)
LEMMA Modulo ==
    ASSUME NEW w \in Nat, NEW n \in Nat, n + 1 < w
    PROVE  /\ n % w = n
           /\ (n + 1 + (w - 1)) % w = n
<1>1. \A a \in 0..(w - 1) : a % w = a /\ (a + w) % w = a
  OBVIOUS
<1>2. n \in 0..(w - 1) /\ n + 1 + (w - 1) = n + w
  OBVIOUS
<1>3. QED
  BY <1>1, <1>2

(* A step that touches neither the count nor the handles of an executable, *)
(* nor a hook that counts for it.                                          *)
LEMMA CountFrame ==
    ASSUME NEW e \in Exes, CountOf(e),
           counts'[e] = counts[e],
           \A f \in Files : openFiles'[f] = e <=> openFiles[f] = e,
           \A t \in Tasks :
               LET was == hook[t].exe = e /\ hook[t].at \in Counting
                   is == hook'[t].exe = e /\ hook'[t].at \in Counting
               IN /\ is <=> was
                  /\ is => hook'[t].at = hook[t].at /\ hook'[t].fresh = hook[t].fresh
    PROVE  CountOf(e)'
<1>1. TrackedBy(e)' = TrackedBy(e)
  BY DEF TrackedBy
<1>2. Handles(e)' = Handles(e)
  BY <1>1 DEF Handles
<1>3. OneCounter(e)' /\ (Quiet(e)' <=> Quiet(e))
  BY DEF CountOf, OneCounter, Quiet
<1>4. \A t \in Tasks : hook'[t].exe = e => CountAtStep(t, e)'
  <2> SUFFICES ASSUME NEW t \in Tasks, hook'[t].exe = e
               PROVE  CountAtStep(t, e)'
    OBVIOUS
  <2>1. CASE hook'[t].at \in Counting
    <3>1. /\ hook[t].exe = e /\ hook'[t].at = hook[t].at /\ hook'[t].fresh = hook[t].fresh
      BY <2>1
    <3>2. CountAtStep(t, e)
      BY <3>1 DEF CountOf
    <3>3. QED
      BY <1>2, <3>1, <3>2 DEF CountAtStep
  <2>2. CASE hook'[t].at \notin Counting
    BY <2>2 DEF CountAtStep, Counting
  <2>3. QED
    BY <2>1, <2>2
<1>5. QED
  BY <1>2, <1>3, <1>4 DEF CountOf

(* A step of the one hook that counts for an executable, seen from the     *)
(* count: what has to be shown of the states after it.                     *)
LEMMA CountMove ==
    ASSUME NEW e \in Exes, OneCounter(e), NEW t \in Tasks,
           Quiet(e) \/ (hook[t].exe = e /\ hook[t].at \in Counting),
           \A u \in Tasks \ {t} : hook'[u].exe = hook[u].exe /\ hook'[u].at = hook[u].at,
           hook'[t].at \in Counting /\ hook'[t].exe = e => CountAtStep(t, e)',
           ~(hook'[t].at \in Counting /\ hook'[t].exe = e) => counts'[e] = Entry(Handles(e)')
    PROVE  CountOf(e)'
<1>1. \A u \in Tasks \ {t} : hook'[u].exe = e => hook'[u].at \notin Counting
  BY DEF OneCounter, Quiet
<1>2. OneCounter(e)'
  BY <1>1 DEF OneCounter
<1>3. Quiet(e)' => counts'[e] = Entry(Handles(e)')
  BY DEF Quiet
<1>4. Entry(Handles(e)') = Entry(Handles(e))'
  BY DEF Entry
<1>5. \A u \in Tasks : hook'[u].exe = e => CountAtStep(u, e)'
  <2>1. \A u \in Tasks : hook'[u].at \notin Counting => CountAtStep(u, e)'
    BY DEF CountAtStep, Counting
  <2>2. QED
    BY <1>1, <2>1
<1>6. QED
  BY <1>2, <1>3, <1>4, <1>5 DEF CountOf

(* A step that makes or takes away no handle.                              *)
LEMMA SameHandles ==
    ASSUME NEW e \in Exes, UNCHANGED openFiles
    PROVE  Handles(e)' = Handles(e)
<1>1. TrackedBy(e)' = TrackedBy(e)
  BY DEF TrackedBy
<1>2. QED
  BY <1>1 DEF Handles

(* What a task that only moves on in the counting part leaves alone.       *)
LEMMA TaskMoves ==
    ASSUME TypeInvariant, NEW t \in Tasks, NEW step, NEW fresh,
           hook' = [hook EXCEPT ![t] = [hook[t] EXCEPT !.at = step, !.fresh = fresh]]
    PROVE  /\ hook'[t].at = step /\ hook'[t].exe = hook[t].exe /\ hook'[t].fresh = fresh
           /\ \A u \in Tasks \ {t} : hook'[u] = hook[u]
BY DEF TypeInvariant, TypeOK

(* What a task that leaves the counting part leaves alone.                 *)
LEMMA TaskLeaves ==
    ASSUME TypeInvariant, NEW t \in Tasks, Leave(t) \/ hook' = [hook EXCEPT ![t] = ToWindow(hook[t])]
    PROVE  /\ hook'[t].at \in {"rest", "window"}
           /\ hook'[t].at \notin Counting
           /\ \A u \in Tasks \ {t} : hook'[u] = hook[u]
<1>1. hook \in [Tasks -> Hook]
  BY DEF TypeInvariant, TypeOK, Hook
<1>2. ToWindow(hook[t]).at = "window" /\ Resting.at = "rest"
  BY <1>1 DEF ToWindow, Resting, Hook
<1>3. QED
  BY <1>1, <1>2 DEF Leave, Counting

(* The table has room for the handle that enters it.                       *)
LEMMA TrackTable ==
    ASSUME TypeInvariant, TableFits, NEW t \in Tasks, Track(t)
    PROVE  TableFits'
<1> DEFINE All == {f \in Files : openFiles[f] # None}
           Next == {f \in Files : openFiles'[f] # None}
<1>1. /\ hook[t].exe \in Exes /\ hook[t].file \in Files
      /\ openFiles \in [Files -> Exes \cup {None}]
  BY DEF Track, TypeInvariant, TypeOK, HookBusy
<1>2. /\ TableFits <=> Cardinality(All) \in 0..TableCap
      /\ TableFits' <=> Cardinality(Next) \in 0..TableCap
  BY DEF TableFits
<1>3. CASE /\ Cardinality(All) < TableCap /\ openFiles[hook[t].file] = None
           /\ openFiles' = [openFiles EXCEPT ![hook[t].file] = hook[t].exe]
  <2>1. Next = All \cup {hook[t].file}
    BY <1>1, <1>3
  <2>2. All \in SUBSET Files /\ hook[t].file \notin All
    BY <1>3
  <2> HIDE DEF All, Next
  <2>3. IsFiniteSet(All) /\ Cardinality(All) \in Nat
    BY <2>2, FS_Subset, FS_CardinalityType
  <2>4. Cardinality(All \cup {hook[t].file}) = Cardinality(All) + 1
    BY <2>2, <2>3, FS_AddElement
  <2>5. QED
    BY <1>2, <1>3, <2>1, <2>3, <2>4
<1>4. CASE UNCHANGED openFiles
  BY <1>4 DEF TableFits
<1>5. QED
  BY <1>3, <1>4 DEF Track

(* The handle that enters the table.                                       *)
LEMMA TrackCounts ==
    ASSUME TypeInvariant, CountInvariant, NEW t \in Tasks, Track(t), NEW e \in Exes, CountOf(e)
    PROVE  CountOf(e)'
<1>1. /\ hook[t].at = "track" /\ hook[t].exe \in Exes /\ hook[t].file \in Files
      /\ openFiles \in [Files -> Exes \cup {None}]
      /\ hook \in [Tasks -> Hook] /\ hook[t] \in Hook
      /\ UNCHANGED counts
  BY DEF Track, TypeInvariant, TypeOK, HookBusy, Hook
<1> DEFINE All == {f \in Files : openFiles[f] # None}
<1>2. CASE /\ Cardinality(All) < TableCap /\ openFiles[hook[t].file] = None
           /\ openFiles' = [openFiles EXCEPT ![hook[t].file] = hook[t].exe]
           /\ MoveTo(t, "lookup")
  <2>1. \A f \in Files : openFiles'[f] = IF f = hook[t].file THEN hook[t].exe ELSE openFiles[f]
    BY <1>1, <1>2
  <2>3. /\ hook'[t].at = "lookup" /\ hook'[t].exe = hook[t].exe
        /\ \A u \in Tasks \ {t} : hook'[u] = hook[u]
    BY <1>1, <1>2 DEF MoveTo, Hook
  <2>4. CASE e # hook[t].exe
    <3>1. \A f \in Files : openFiles'[f] = e <=> openFiles[f] = e
      BY <1>2, <2>1, <2>4
    <3>2. QED
      BY <1>1, <2>3, <2>4, <3>1, CountFrame
  <2>5. CASE e = hook[t].exe
    <3>1. TrackedBy(e)' = TrackedBy(e) \cup {hook[t].file} /\ hook[t].file \notin TrackedBy(e)
      BY <1>1, <1>2, <2>1, <2>5 DEF TrackedBy
    <3>2. IsFiniteSet(TrackedBy(e)) /\ Handles(e) \in 0..TableCap
      BY HandlesFit DEF CountInvariant
    <3>3. Handles(e)' = Handles(e) + 1
      BY <3>1, <3>2, FS_AddElement DEF Handles
    <3>4. counts[e] = Entry(Handles(e))
      BY <1>1, <2>5 DEF CountOf, CountAtStep
    <3>5. CountAtStep(t, e)'
      BY <1>1, <2>3, <3>2, <3>3, <3>4 DEF CountAtStep, Entry
    <3>6. OneCounter(e) /\ hook[t].at \in Counting /\ hook'[t].at \in Counting
      BY <1>1, <2>3 DEF CountOf, Counting
    <3>7. QED
      BY <2>3, <2>5, <3>5, <3>6, CountMove
  <2>6. QED
    BY <2>4, <2>5
<1>3. CASE UNCHANGED openFiles /\ hook' = [hook EXCEPT ![t] = ToWindow(hook[t])]
  <2>2. hook'[t].at \notin Counting /\ \A u \in Tasks \ {t} : hook'[u] = hook[u]
    BY <1>3, TaskLeaves
  <2>3. CASE e # hook[t].exe
    <3>1. hook'[t].exe = hook[t].exe
      BY <1>1, <1>3 DEF ToWindow, Hook
    <3>2. QED
      BY <1>1, <1>3, <2>2, <2>3, <3>1, CountFrame
  <2>4. CASE e = hook[t].exe
    <3>1. counts[e] = Entry(Handles(e)) /\ OneCounter(e) /\ hook[t].at \in Counting
      BY <1>1, <2>4 DEF CountOf, CountAtStep, Counting
    <3>2. Handles(e)' = Handles(e)
      BY <1>3, SameHandles
    <3>3. QED
      BY <1>1, <2>2, <2>4, <3>1, <3>2, CountMove
  <2>5. QED
    BY <2>3, <2>4
<1>4. QED
  BY <1>2, <1>3 DEF Track

(* The counting steps of an open.                                          *)
LEMMA AddCounts ==
    ASSUME TypeInvariant, CountInvariant, NEW t \in Tasks, NEW e \in Exes, CountOf(e),
           e \notin overlapped', CountLookup(t) \/ CountAdd(t) \/ CountOne(t)
    PROVE  CountOf(e)'
<1>1. /\ hook \in [Tasks -> Hook] /\ hook[t] \in Hook /\ hook[t].exe \in Exes
      /\ counts \in [Exes -> Nat \cup {NoCount}] /\ UNCHANGED openFiles
      /\ hook[t].at \in Counting
  BY DEF CountLookup, CountAdd, CountOne, TypeInvariant, TypeOK, HookBusy, Hook, Counting
<1>2. Handles(e)' = Handles(e) /\ Handles(e) \in 0..TableCap
  BY <1>1, SameHandles, HandlesFit DEF CountInvariant
<1>3. OneCounter(e) /\ (e = hook[t].exe => CountAtStep(t, e))
  BY DEF CountOf
<1>4. CASE CountLookup(t)
  <2>1. PICK step \in {"one", "add"} :
            /\ hook' = [hook EXCEPT ![t].at = step, ![t].fresh = TRUE]
            /\ step = "one" <=> counts[hook[t].exe] = NoCount
    BY <1>4 DEF CountLookup
  <2>2. /\ hook'[t].at = step /\ hook'[t].exe = hook[t].exe /\ hook'[t].fresh = TRUE
        /\ \A u \in Tasks \ {t} : hook'[u] = hook[u]
    BY <1>1, <2>1 DEF Hook
  <2>3. UNCHANGED counts /\ hook[t].at = "lookup"
    BY <1>4 DEF CountLookup
  <2>4. CASE e # hook[t].exe
    BY <1>1, <2>2, <2>3, <2>4, CountFrame
  <2>5. CASE e = hook[t].exe
    <3>1. Handles(e) > 0 /\ counts[e] = Entry(Handles(e) - 1)
      BY <1>3, <2>3, <2>5 DEF CountAtStep
    <3>2. CountAtStep(t, e)'
      BY <1>2, <2>1, <2>2, <2>3, <2>5, <3>1 DEF CountAtStep, Entry, NoCount
    <3>3. hook'[t].at \in Counting
      BY <2>2 DEF Counting
    <3>4. QED
      BY <1>1, <1>3, <2>2, <2>5, <3>2, <3>3, CountMove
  <2>6. QED
    BY <2>4, <2>5
<1>5. CASE CountAdd(t)
  <2>1. hook' = [hook EXCEPT ![t] = ToWindow(hook[t])] /\ hook[t].at = "add" /\ AddThrough(t, 1)
    BY <1>5 DEF CountAdd
  <2>2. hook'[t].at \notin Counting /\ \A u \in Tasks \ {t} : hook'[u] = hook[u]
    BY <2>1, TaskLeaves
  <2>3. CASE e # hook[t].exe
    <3>1. counts'[e] = counts[e]
      BY <1>1, <2>1, <2>3 DEF AddThrough
    <3>2. hook'[t].exe = hook[t].exe
      BY <1>1, <2>1 DEF ToWindow, Hook
    <3>3. QED
      BY <1>1, <2>2, <2>3, <3>1, <3>2, CountFrame
  <2>4. CASE e = hook[t].exe
    <3>1. hook[t].fresh /\ Handles(e) > 1 /\ counts[e] = Handles(e) - 1
      BY <1>3, <2>1, <2>4 DEF CountAtStep
    <3>2. counts' = [counts EXCEPT ![e] = (counts[e] + 1) % Wrap]
      BY <2>1, <2>4, <3>1 DEF AddThrough
    <3>3. counts[e] + 1 = Handles(e) /\ Handles(e) \in Nat /\ Handles(e) + 1 < Wrap
      BY <1>2, <3>1
    <3>4. counts'[e] = Handles(e)
      BY <1>1, <3>2, <3>3, Modulo
    <3>5. counts'[e] = Entry(Handles(e)')
      BY <1>2, <3>1, <3>4 DEF Entry
    <3>6. QED
      BY <1>1, <1>3, <2>2, <2>4, <3>5, CountMove
  <2>5. QED
    BY <2>3, <2>4
<1>6. CASE CountOne(t)
  <2> DEFINE S == Staled(CountPointers(hook[t].exe))
  <2>1. /\ hook' = [S EXCEPT ![t] = ToWindow(hook[t])] /\ hook[t].at = "one"
        /\ counts' = [counts EXCEPT ![hook[t].exe] = 1]
    BY <1>6 DEF CountOne
  <2>2. /\ S \in [Tasks -> Hook]
        /\ \A u \in Tasks : /\ S[u].at = hook[u].at /\ S[u].exe = hook[u].exe
                            /\ hook[u].exe # hook[t].exe => S[u] = hook[u]
    BY StaledType DEF CountPointers
  <2>3. ToWindow(hook[t]).at = "window" /\ ToWindow(hook[t]).exe = hook[t].exe
    BY <1>1 DEF ToWindow, Hook
  <2> HIDE DEF S
  <2>4. \A u \in Tasks : hook'[u] = IF u = t THEN ToWindow(hook[t]) ELSE S[u]
    BY <2>1, <2>2
  <2>5. "window" \notin Counting
    BY DEF Counting
  <2>6. CASE e # hook[t].exe
    <3>1. counts'[e] = counts[e]
      BY <1>1, <2>1, <2>6
    <3>2. QED
      BY <1>1, <2>2, <2>3, <2>4, <2>5, <2>6, <3>1, CountFrame
  <2>7. CASE e = hook[t].exe
    <3>1. Handles(e) = 1
      BY <1>3, <2>1, <2>7 DEF CountAtStep
    <3>2. counts'[e] = Entry(Handles(e)')
      BY <1>1, <1>2, <2>1, <2>7, <3>1 DEF Entry
    <3>3. QED
      BY <1>1, <1>3, <2>2, <2>3, <2>4, <2>5, <2>7, <3>2, CountMove
  <2>8. QED
    BY <2>6, <2>7
<1>7. QED
  BY <1>4, <1>5, <1>6

(* The counting steps of a release.                                        *)
LEMMA ReleaseCounts ==
    ASSUME TypeInvariant, CountInvariant, NEW t \in Tasks, NEW e \in Exes, CountOf(e),
           e \notin overlapped',
           ReleaseLookup(t) \/ ReleaseDecrement(t) \/ ReleaseRecheck(t) \/ ReleaseForget(t)
    PROVE  CountOf(e)'
<1>1. /\ hook \in [Tasks -> Hook] /\ hook[t] \in Hook /\ hook[t].exe \in Exes
      /\ counts \in [Exes -> Nat \cup {NoCount}] /\ UNCHANGED openFiles
      /\ hook[t].at \in Counting
  BY DEF ReleaseLookup, ReleaseDecrement, ReleaseRecheck, ReleaseForget, TypeInvariant, TypeOK,
         HookBusy, Hook, Counting
<1>2. Handles(e)' = Handles(e) /\ Handles(e) \in 0..TableCap
  BY <1>1, SameHandles, HandlesFit DEF CountInvariant
<1>3. OneCounter(e) /\ (e = hook[t].exe => CountAtStep(t, e))
  BY DEF CountOf
<1>4. ASSUME Leave(t), UNCHANGED counts, e = hook[t].exe => counts[e] = Entry(Handles(e))
      PROVE  CountOf(e)'
  <2>1. hook'[t].at \notin Counting /\ \A u \in Tasks \ {t} : hook'[u] = hook[u]
    BY <1>4, TaskLeaves
  <2>2. hook'[t].exe = None /\ None \notin Exes
    BY <1>1, <1>4 DEF Leave, Resting
  <2>3. CASE e # hook[t].exe
    BY <1>1, <1>4, <2>1, <2>2, <2>3, CountFrame
  <2>4. CASE e = hook[t].exe
    BY <1>1, <1>2, <1>3, <1>4, <2>1, <2>2, <2>4, CountMove
  <2>5. QED
    BY <2>3, <2>4
<1>5. CASE ReleaseLookup(t)
  <2>1. hook[t].at = "found" /\ UNCHANGED counts
    BY <1>5 DEF ReleaseLookup
  <2>2. e = hook[t].exe => counts[e] = Handles(e) + 1 /\ counts[e] # NoCount
    BY <1>2, <1>3, <2>1 DEF CountAtStep, NoCount
  <2>3. CASE counts[hook[t].exe] = NoCount
    <3>1. Leave(t) /\ e # hook[t].exe
      BY <1>5, <2>2, <2>3 DEF ReleaseLookup
    <3>2. QED
      BY <1>4, <2>1, <3>1
  <2>4. CASE counts[hook[t].exe] # NoCount
    <3>1. hook' = [hook EXCEPT ![t].at = "dec", ![t].fresh = TRUE]
      BY <1>5, <2>4 DEF ReleaseLookup
    <3>2. /\ hook'[t].at = "dec" /\ hook'[t].exe = hook[t].exe /\ hook'[t].fresh = TRUE
          /\ \A u \in Tasks \ {t} : hook'[u] = hook[u]
      BY <1>1, <3>1 DEF Hook
    <3>3. CASE e # hook[t].exe
      BY <1>1, <2>1, <3>2, <3>3, CountFrame
    <3>4. CASE e = hook[t].exe
      <4>1. CountAtStep(t, e)'
        BY <1>2, <2>1, <2>2, <3>2, <3>4 DEF CountAtStep
      <4>2. hook'[t].at \in Counting
        BY <3>2 DEF Counting
      <4>3. QED
        BY <1>1, <1>3, <3>2, <3>4, <4>1, <4>2, CountMove
    <3>5. QED
      BY <3>3, <3>4
  <2>5. QED
    BY <2>3, <2>4
<1>6. CASE ReleaseDecrement(t)
  <2>1. hook[t].at = "dec" /\ AddThrough(t, Wrap - 1) /\ hook' = [hook EXCEPT ![t].at = "recheck"]
    BY <1>6 DEF ReleaseDecrement, MoveTo
  <2>2. /\ hook'[t].at = "recheck" /\ hook'[t].exe = hook[t].exe
        /\ \A u \in Tasks \ {t} : hook'[u] = hook[u]
    BY <1>1, <2>1 DEF Hook
  <2>3. CASE e # hook[t].exe
    <3>1. counts'[e] = counts[e]
      BY <1>1, <2>1, <2>3 DEF AddThrough
    <3>2. QED
      BY <1>1, <2>2, <2>3, <3>1, CountFrame
  <2>4. CASE e = hook[t].exe
    <3>1. hook[t].fresh /\ counts[e] = Handles(e) + 1
      BY <1>3, <2>1, <2>4 DEF CountAtStep
    <3>2. counts' = [counts EXCEPT ![e] = (counts[e] + (Wrap - 1)) % Wrap]
      BY <2>1, <2>4, <3>1 DEF AddThrough
    <3>3. Handles(e) \in Nat /\ Handles(e) + 1 < Wrap
      BY <1>2
    <3>4. counts'[e] = Handles(e)
      BY <1>1, <3>1, <3>2, <3>3, Modulo
    <3>5. CountAtStep(t, e)'
      BY <1>2, <2>2, <3>4 DEF CountAtStep
    <3>6. hook'[t].at \in Counting
      BY <2>2 DEF Counting
    <3>7. QED
      BY <1>1, <1>3, <2>2, <2>4, <3>5, <3>6, CountMove
  <2>5. QED
    BY <2>3, <2>4
<1>7. CASE ReleaseRecheck(t)
  <2>1. hook[t].at = "recheck" /\ UNCHANGED counts
    BY <1>7 DEF ReleaseRecheck
  <2>2. e = hook[t].exe => counts[e] = Handles(e)
    BY <1>3, <2>1 DEF CountAtStep
  <2>3. CASE counts[hook[t].exe] # 0
    <3>1. Leave(t)
      BY <1>7, <2>3 DEF ReleaseRecheck
    <3>2. e = hook[t].exe => counts[e] = Entry(Handles(e))
      BY <1>2, <2>2, <2>3 DEF Entry
    <3>3. QED
      BY <1>4, <2>1, <3>1, <3>2
  <2>4. CASE counts[hook[t].exe] = 0
    <3>1. hook' = [hook EXCEPT ![t].at = "forget"]
      BY <1>7, <2>4 DEF ReleaseRecheck, MoveTo
    <3>2. /\ hook'[t].at = "forget" /\ hook'[t].exe = hook[t].exe
          /\ \A u \in Tasks \ {t} : hook'[u] = hook[u]
      BY <1>1, <3>1 DEF Hook
    <3>3. CASE e # hook[t].exe
      BY <1>1, <2>1, <3>2, <3>3, CountFrame
    <3>4. CASE e = hook[t].exe
      <4>1. CountAtStep(t, e)'
        BY <1>2, <2>1, <2>2, <2>4, <3>2, <3>4 DEF CountAtStep
      <4>2. hook'[t].at \in Counting
        BY <3>2 DEF Counting
      <4>3. QED
        BY <1>1, <1>3, <3>2, <3>4, <4>1, <4>2, CountMove
    <3>5. QED
      BY <3>3, <3>4
  <2>5. QED
    BY <2>3, <2>4
<1>8. CASE ReleaseForget(t)
  <2> DEFINE S == Staled(CountPointers(hook[t].exe))
  <2>1. /\ hook' = [S EXCEPT ![t].at = "released"] /\ hook[t].at = "forget"
        /\ counts' = [counts EXCEPT ![hook[t].exe] = NoCount]
    BY <1>8 DEF ReleaseForget
  <2>2. /\ S \in [Tasks -> Hook]
        /\ \A u \in Tasks : /\ S[u].at = hook[u].at /\ S[u].exe = hook[u].exe
                            /\ hook[u].exe # hook[t].exe => S[u] = hook[u]
    BY StaledType DEF CountPointers
  <2> HIDE DEF S
  <2>3. /\ hook'[t].at = "released" /\ hook'[t].exe = hook[t].exe
        /\ \A u \in Tasks \ {t} : hook'[u] = S[u]
    BY <2>1, <2>2 DEF Hook
  <2>4. "released" \notin Counting
    BY DEF Counting
  <2>5. CASE e # hook[t].exe
    <3>1. counts'[e] = counts[e]
      BY <1>1, <2>1, <2>5
    <3>2. QED
      BY <1>1, <2>2, <2>3, <2>4, <2>5, <3>1, CountFrame
  <2>6. CASE e = hook[t].exe
    <3>1. Handles(e) = 0
      BY <1>3, <2>1, <2>6 DEF CountAtStep
    <3>2. counts'[e] = Entry(Handles(e)')
      BY <1>1, <1>2, <2>1, <2>6, <3>1 DEF Entry
    <3>3. QED
      BY <1>1, <1>3, <2>2, <2>3, <2>4, <2>6, <3>2, CountMove
  <2>7. QED
    BY <2>5, <2>6
<1>9. QED
  BY <1>5, <1>6, <1>7, <1>8

(* The coalescing of an event, and a release that is reported.             *)
LEMMA OtherCounts ==
    ASSUME TypeInvariant, NEW t \in Tasks, NEW e \in Exes, CountOf(e),
           CoalesceLookup(t) \/ Swallow(t) \/ TakeBurst(t) \/ FirstBurst(t) \/ Report(t)
               \/ ReleaseReport(t)
    PROVE  CountOf(e)'
<1>1. hook \in [Tasks -> Hook]
  BY DEF TypeInvariant, TypeOK, Hook
<1>2. UNCHANGED <<counts, openFiles>> /\ hook[t].at \notin Counting
  BY DEF CoalesceLookup, Swallow, TakeBurst, FirstBurst, Report, ReleaseReport, Counting
<1>3. /\ hook'[t].at \notin Counting
      /\ \A u \in Tasks \ {t} : /\ hook'[u].at = hook[u].at /\ hook'[u].exe = hook[u].exe
                                /\ hook[u].at \in Counting => hook'[u].fresh = hook[u].fresh
  <2>1. CASE CoalesceLookup(t)
    <3>1. PICK step \in {"first", "swallow", "reset"}, seen \in {bursts[Key(t)].suppressed} :
              hook' = [hook EXCEPT ![t].at = step, ![t].fresh = TRUE, ![t].seen = seen]
      BY <2>1 DEF CoalesceLookup
    <3>2. QED
      BY <1>1, <3>1 DEF Hook, Counting
  <2>2. CASE TakeBurst(t)
    BY <1>1, <2>2 DEF TakeBurst, MoveTo, Hook, Counting
  <2>3. CASE FirstBurst(t)
    <3> DEFINE S == Staled(BurstPointers(Key(t)))
    <3>1. hook' = [S EXCEPT ![t].at = "report"]
      BY <2>3 DEF FirstBurst
    <3>2. /\ S \in [Tasks -> Hook]
          /\ \A u \in Tasks : /\ S[u].at = hook[u].at /\ S[u].exe = hook[u].exe
                              /\ u \notin BurstPointers(Key(t)) => S[u] = hook[u]
      BY StaledType
    <3>3. \A u \in Tasks : hook[u].at \in Counting => u \notin BurstPointers(Key(t))
      BY DEF BurstPointers, Counting
    <3> HIDE DEF S
    <3>4. hook'[t].at = "report" /\ \A u \in Tasks \ {t} : hook'[u] = S[u]
      BY <3>1, <3>2 DEF Hook
    <3>5. QED
      BY <3>2, <3>3, <3>4 DEF Counting
  <2>4. CASE Swallow(t) \/ Report(t) \/ ReleaseReport(t)
    <3>1. Leave(t)
      BY <2>4 DEF Swallow, Report, ReleaseReport, Finish
    <3>2. QED
      BY <3>1, TaskLeaves
  <2>5. QED
    BY <2>1, <2>2, <2>3, <2>4
<1>4. QED
  BY <1>2, <1>3, CountFrame

(* An open that starts.                                                    *)
LEMMA OpenCounts ==
    ASSUME TypeInvariant, NEW t \in Tasks, NEW d \in Exes, NEW f \in Files,
           OpenVerdict(t, d, f), NEW e \in Exes, CountOf(e), e \notin overlapped'
    PROVE  CountOf(e)'
<1> DEFINE h == [Resting EXCEPT !.exe = d, !.file = f, !.ok = Permitted(d, f)]
<1>1. /\ hook \in [Tasks -> Hook] /\ hook[t].at = "rest"
      /\ UNCHANGED <<counts, openFiles>>
  BY DEF OpenVerdict, TypeInvariant, TypeOK, Hook
<1>2. \/ /\ hook' = [hook EXCEPT ![t] = [h EXCEPT !.at = "track"]]
         /\ overlapped' = Overlapped(t, d)
      \/ hook' = [hook EXCEPT ![t] = ToWindow(h)]
  BY DEF OpenVerdict
<1>3. /\ ToWindow(h).at = "window"
      /\ [h EXCEPT !.at = "track"].at = "track" /\ [h EXCEPT !.at = "track"].exe = d
      /\ "window" \notin Counting /\ "rest" \notin Counting /\ "track" \in Counting
  BY DEF ToWindow, Resting, Counting
<1> HIDE DEF h
<1>4. \A u \in Tasks \ {t} : hook'[u] = hook[u]
  BY <1>1, <1>2
<1>5. CASE hook'[t].at = "track" /\ hook'[t].exe = e /\ e = d /\ overlapped' = Overlapped(t, d)
  <2>1. \A u \in Tasks \ {t} : hook[u].exe = e => hook[u].at \notin Counting
    BY <1>5 DEF Overlapped
  <2>2. Quiet(e) /\ OneCounter(e) /\ counts[e] = Entry(Handles(e))
    BY <1>1, <1>3, <2>1 DEF CountOf, Quiet
  <2>3. CountAtStep(t, e)'
    <3>1. Handles(e)' = Handles(e)
      BY <1>1, SameHandles
    <3>2. QED
      BY <1>1, <1>5, <2>2, <3>1 DEF CountAtStep, Entry
  <2>4. QED
    BY <1>3, <1>4, <1>5, <2>2, <2>3, CountMove
<1>6. CASE ~(hook'[t].at \in Counting /\ hook'[t].exe = e)
  BY <1>1, <1>3, <1>4, <1>6, CountFrame
<1>7. QED
  BY <1>1, <1>2, <1>3, <1>5, <1>6

(* A close: one handle fewer, and a count that has still to follow.        *)
LEMMA CloseCounts ==
    ASSUME TypeInvariant, CountInvariant, NEW t \in Tasks, NEW f \in Files, Close(t, f),
           NEW e \in Exes, CountOf(e), e \notin overlapped'
    PROVE  CountOf(e)'
<1>1. /\ hook \in [Tasks -> Hook] /\ hook[t].at = "rest" /\ "rest" \notin Counting
      /\ openFiles \in [Files -> Exes \cup {None}] /\ UNCHANGED counts
  BY DEF Close, TypeInvariant, TypeOK, Hook, Counting
<1>2. CASE KindOf[f] = "camera" /\ openFiles[f] # None
  <2> DEFINE h == [Resting EXCEPT !.at = "found", !.file = f, !.exe = openFiles[f]]
  <2>1. /\ hook' = [hook EXCEPT ![t] = h] /\ overlapped' = Overlapped(t, openFiles[f])
        /\ openFiles' = [openFiles EXCEPT ![f] = None]
    BY <1>2 DEF Close
  <2>2. h.at = "found" /\ h.exe = openFiles[f] /\ "found" \in Counting
    BY DEF Resting, Counting
  <2> HIDE DEF h
  <2>3. hook'[t] = h /\ \A u \in Tasks \ {t} : hook'[u] = hook[u]
    BY <1>1, <2>1
  <2>4. \A g \in Files : openFiles'[g] = IF g = f THEN None ELSE openFiles[g]
    BY <1>1, <2>1
  <2>5. CASE e # openFiles[f]
    <3>1. \A g \in Files : openFiles'[g] = e <=> openFiles[g] = e
      BY <2>4, <2>5
    <3>2. QED
      BY <1>1, <2>2, <2>3, <2>5, <3>1, CountFrame
  <2>6. CASE e = openFiles[f]
    <3>1. \A u \in Tasks \ {t} : hook[u].exe = e => hook[u].at \notin Counting
      BY <2>1, <2>6 DEF Overlapped
    <3>2. Quiet(e) /\ OneCounter(e) /\ counts[e] = Entry(Handles(e))
      BY <1>1, <3>1 DEF CountOf, Quiet
    <3>3. TrackedBy(e)' = TrackedBy(e) \ {f} /\ f \in TrackedBy(e)
      BY <2>4, <2>6 DEF TrackedBy
    <3>4. IsFiniteSet(TrackedBy(e)) /\ Handles(e) \in 0..TableCap
      BY HandlesFit DEF CountInvariant
    <3>5. Handles(e)' = Handles(e) - 1 /\ Handles(e) # 0
      BY <3>3, <3>4, FS_RemoveElement, HandlesFit DEF Handles, CountInvariant
    <3>6. CountAtStep(t, e)'
      BY <1>1, <2>2, <2>3, <3>2, <3>4, <3>5 DEF CountAtStep, Entry
    <3>7. QED
      BY <2>2, <2>3, <2>6, <3>2, <3>6, CountMove
  <2>7. QED
    BY <2>5, <2>6
<1>3. CASE ~(KindOf[f] = "camera" /\ openFiles[f] # None)
  <2>1. UNCHANGED <<hook, openFiles>>
    BY <1>3 DEF Close
  <2>2. QED
    BY <1>1, <2>1, CountFrame
<1>4. QED
  BY <1>2, <1>3

(* The table keeps within its capacity.                                    *)
LEMMA TableKeeps ==
    ASSUME TypeInvariant, TableFits,
           UNCHANGED openFiles \/ \E f \in Files : openFiles' = [openFiles EXCEPT ![f] = None]
    PROVE  TableFits'
<1>1. CASE UNCHANGED openFiles
  BY <1>1 DEF TableFits
<1>2. ASSUME NEW f \in Files, openFiles' = [openFiles EXCEPT ![f] = None]
      PROVE  TableFits'
  <2> DEFINE All == {g \in Files : openFiles[g] # None}
             Next == {g \in Files : openFiles'[g] # None}
  <2>1. (TableFits <=> Cardinality(All) \in 0..TableCap) /\ (TableFits' <=> Cardinality(Next) \in 0..TableCap)
    BY DEF TableFits
  <2>2. Next \in SUBSET All /\ All \in SUBSET Files
    BY <1>2 DEF TypeInvariant, TypeOK
  <2> HIDE DEF All, Next
  <2>3. IsFiniteSet(All) /\ IsFiniteSet(Next) /\ Cardinality(Next) <= Cardinality(All)
    BY <2>2, FS_Subset
  <2>4. Cardinality(Next) \in Nat
    BY <2>3, FS_CardinalityType
  <2>5. QED
    BY <2>1, <2>3, <2>4
<1>3. QED
  BY <1>1, <1>2

(* Once two hooks of an executable have counted at once, it stays so.      *)
LEMMA OverlapStays ==
    ASSUME [GateNext]_gateVars
    PROVE  overlapped \subseteq overlapped'
<1>1. ASSUME NEW t \in Tasks, HookStep(t)
      PROVE  overlapped \subseteq overlapped'
  BY <1>1 DEF HookStep, Track, CountLookup, CountAdd, CountOne, CoalesceLookup, Swallow, TakeBurst,
              FirstBurst, Report, ReleaseLookup, ReleaseDecrement, ReleaseRecheck, ReleaseForget,
              ReleaseReport, AddThrough
<1>2. ASSUME NEW t \in Tasks, NEW e \in Exes, NEW f \in Files, OpenVerdict(t, e, f)
      PROVE  overlapped \subseteq overlapped'
  BY <1>2 DEF OpenVerdict, Overlapped
<1>3. ASSUME NEW t \in Tasks, NEW f \in Files, Close(t, f)
      PROVE  overlapped \subseteq overlapped'
  BY <1>3 DEF Close, Overlapped
<1>4. QED
  BY <1>1, <1>2, <1>3 DEF GateNext, gateVars, Regrant, Reenforce, Tick

(* Every step keeps the counts.                                            *)
LEMMA NextCounts ==
    ASSUME TypeInvariant, FileInvariant, CountInvariant, [GateNext]_gateVars
    PROVE  CountInvariant'
<1>1. \A e \in Exes : e \notin overlapped' => CountOf(e)
  BY OverlapStays DEF CountInvariant
<1>2. ASSUME NEW t \in Tasks, HookStep(t)
      PROVE  CountInvariant'
  <2>1. CASE Track(t)
    <3>1. TableFits'
      BY <2>1, TrackTable DEF CountInvariant
    <3>2. \A e \in Exes \ overlapped' : CountOf(e)'
      BY <1>1, <2>1, TrackCounts
    <3>3. QED
      BY <3>1, <3>2 DEF CountInvariant
  <2>2. CASE ~Track(t)
    <3>1. UNCHANGED openFiles
      BY <1>2, <2>2 DEF HookStep, CountLookup, CountAdd, CountOne, CoalesceLookup, Swallow,
             TakeBurst, FirstBurst, Report, ReleaseLookup, ReleaseDecrement, ReleaseRecheck,
             ReleaseForget, ReleaseReport
    <3>2. TableFits'
      BY <3>1, TableKeeps DEF CountInvariant
    <3>3. \A e \in Exes \ overlapped' : CountOf(e)'
      BY <1>1, <1>2, <2>2, AddCounts, ReleaseCounts, OtherCounts DEF HookStep
    <3>4. QED
      BY <3>2, <3>3 DEF CountInvariant
  <2>3. QED
    BY <2>1, <2>2
<1>3. ASSUME NEW t \in Tasks, NEW e \in Exes, NEW f \in Files, OpenVerdict(t, e, f)
      PROVE  CountInvariant'
  <2>1. TableFits'
    BY <1>3, TableKeeps DEF OpenVerdict, CountInvariant
  <2>2. \A d \in Exes \ overlapped' : CountOf(d)'
    BY <1>1, <1>3, OpenCounts
  <2>3. QED
    BY <2>1, <2>2 DEF CountInvariant
<1>4. ASSUME NEW t \in Tasks, NEW f \in Files, Close(t, f)
      PROVE  CountInvariant'
  <2>1. TableFits'
    <3>1. UNCHANGED openFiles \/ openFiles' = [openFiles EXCEPT ![f] = None]
      BY <1>4 DEF Close
    <3>2. QED
      BY <3>1, TableKeeps DEF CountInvariant
  <2>2. \A d \in Exes \ overlapped' : CountOf(d)'
    BY <1>1, <1>4, CloseCounts
  <2>3. QED
    BY <2>1, <2>2 DEF CountInvariant
<1>5. CASE UNCHANGED <<hook, openFiles, counts, overlapped>>
  <2>1. TableFits'
    BY <1>5, TableKeeps DEF CountInvariant
  <2>2. \A e \in Exes \ overlapped' : CountOf(e)'
    BY <1>1, <1>5, CountFrame
  <2>3. QED
    BY <2>1, <2>2 DEF CountInvariant
<1>6. QED
  BY <1>2, <1>3, <1>4, <1>5 DEF GateNext, gateVars, Regrant, Reenforce, Tick

(* The hooks' tables are empty at the start.                               *)
LEMMA GateStart ==
    ASSUME GateInit
    PROVE  FileInvariant /\ CountInvariant
<1>1. /\ \A t \in Tasks : hook[t].at = "rest" /\ hook[t].file = None
      /\ \A f \in Files : openFiles[f] = None
      /\ \A e \in Exes : counts[e] = NoCount
  BY DEF GateInit, Resting
<1>2. FileInvariant
  BY <1>1 DEF FileInvariant, OneHolder, HookVerdict, OnlyCameras, TrackedUnlessRefused, Releasing
<1>3. TableFits
  <2>1. {f \in Files : openFiles[f] # None} = {}
    BY <1>1
  <2>2. QED
    BY <2>1, FS_EmptySet DEF TableFits
<1>4. ASSUME NEW e \in Exes
      PROVE  CountOf(e)
  <2>1. TrackedBy(e) = {}
    BY <1>1 DEF TrackedBy
  <2>2. Handles(e) = 0
    BY <2>1, FS_EmptySet DEF Handles
  <2>3. QED
    BY <1>1, <2>2 DEF CountOf, OneCounter, Quiet, CountAtStep, Counting, Entry
<1>5. QED
  BY <1>2, <1>3, <1>4 DEF CountInvariant

(* Where no hook of an executable counts, its count is exact.              *)
LEMMA CountIsExact ==
    ASSUME TypeInvariant, CountInvariant
    PROVE  CountsAreExact
<1> SUFFICES ASSUME NEW e \in Exes \ overlapped,
                    \A t \in Tasks : hook[t].exe = e => hook[t].at \notin Counting
             PROVE  counts[e] = IF TrackedBy(e) = {} THEN NoCount ELSE Cardinality(TrackedBy(e))
  BY DEF CountsAreExact
<1>1. counts[e] = Entry(Handles(e))
  BY DEF CountInvariant, CountOf, Quiet
<1>2. Handles(e) = 0 <=> TrackedBy(e) = {}
  BY HandlesFit DEF CountInvariant
<1>3. QED
  BY <1>1, <1>2 DEF Entry, Handles

(* While the hooks of an executable count one after the other, its count   *)
(* is the number of its tracked handles, and there is none when there is   *)
(* none: the close of the last handle is the one that finds zero.          *)
THEOREM LastCloseIsFound == GateSpec => []CountsAreExact
<1>1. GateInit => TypeInvariant /\ FileInvariant /\ CountInvariant
  BY InitType, GateStart
<1>2. TypeInvariant /\ FileInvariant /\ CountInvariant /\ [GateNext]_gateVars
        => TypeInvariant' /\ FileInvariant' /\ CountInvariant'
  BY NextType, NextFiles, NextCounts
<1>3. TypeInvariant /\ CountInvariant => CountsAreExact
  BY CountIsExact
<1>4. QED
  BY <1>1, <1>2, <1>3, PTL DEF GateSpec
=============================================================================
