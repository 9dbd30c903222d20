--------------------------- MODULE EventPathProofs ---------------------------
(***************************************************************************)
(* Theorems about EventPath, for any number of tasks, executables and open *)
(* files, any number of events under way, and any order of connections,    *)
(* flushes, restarts and answers.                                          *)
(***************************************************************************)
EXTENDS EventPath, KernelGateProofs, Sums, SequenceTheorems

USE PathAssumption

-----------------------------------------------------------------------------
(* Type correctness.                                                       *)

(* An event the daemon is in the middle of has an executable.              *)
EventInHand == handling.at # "idle" => handling.exe \in Exes

PathTypes == TypeOKPath /\ HookBusy /\ EventInHand

(* What the helper passes on of an event is a message.                     *)
LEMMA MessageType ==
    ASSUME NEW ev \in Events
    PROVE  MessageOf(ev) \in Messages
BY DEF Events, Messages, MessageOf, RoleOf

(* The summary of a burst is a message, and about that burst.              *)
LEMMA SummaryType ==
    ASSUME NEW e \in Snapshots
    PROVE  /\ Summary(e) \in Messages /\ e.key \in BurstKeys
           /\ KeyOf(Summary(e)) = e.key
           /\ Cleared(e) \in [last : Int, suppressed : Nat, denied : BOOLEAN]
<1>1. /\ e.key \in BurstKeys /\ e.last \in Int /\ e.suppressed \in Nat /\ e.denied \in BOOLEAN
      /\ e.key[1] \in Exes /\ e.key[2] \in {"video", "sound"}
      /\ e.key = <<e.key[1], e.key[2]>>
  BY DEF Snapshots, BurstKeys, Classes
<1>2. Summary(e) \in Messages
  BY <1>1 DEF Summary, Messages
<1>3. /\ Summary(e).exe = e.key[1]
      /\ Summary(e).role = "CAMERA" <=> e.key[2] = "video"
  BY DEF Summary
<1>4. KeyOf(Summary(e)) = e.key
  BY <1>1, <1>3 DEF KeyOf
<1>5. QED
  BY <1>1, <1>2, <1>4 DEF Cleared

(* The burst a message is about, and what it counts for.                   *)
LEMMA MessageWorth ==
    ASSUME NEW m \in Messages
    PROVE  /\ KeyOf(m) \in BurstKeys /\ m.exe \in Exes
           /\ Worth(m) \in Nat /\ DeniedOpens(m) \in Nat /\ AllowedOpens(m) \in Nat
           /\ m.kind # "summary" => Worth(m) >= 1
BY DEF Messages, KeyOf, BurstKeys, Classes, Worth, DeniedOpens, AllowedOpens

(* The queues stay queues of messages.                                     *)
LEMMA QueueType ==
    ASSUME NEW q \in Seq(Messages)
    PROVE  /\ \A m \in Messages : Append(q, m) \in Seq(Messages)
           /\ q # <<>> => Head(q) \in Messages /\ Tail(q) \in Seq(Messages)
OBVIOUS

(* The queues are made of messages one place after the other.              *)
LEMMA QueueMember ==
    ASSUME NEW q \in Seq(Messages), NEW i \in DOMAIN q
    PROVE  q[i] \in Messages
OBVIOUS

(* What was read out of the coalesce map is a set of its entries.          *)
LEMMA ReadType ==
    ASSUME TypeOKPath, NEW window, ReadBursts(window)
    PROVE  flushing' \in SUBSET Snapshots
<1>1. \A k \in BurstKeys : bursts[k] \in [last : Int, suppressed : Nat, denied : BOOLEAN]
  BY DEF TypeOKPath, TypeOK
<1>2. \A k \in BurstKeys : [key |-> k, last |-> bursts[k].last, suppressed |-> bursts[k].suppressed,
                            denied |-> bursts[k].denied] \in Snapshots
  BY <1>1 DEF Snapshots
<1>3. QED
  BY <1>2 DEF ReadBursts

(* An entry of the history that is counted up is an entry.                 *)
LEMMA RecordType ==
    ASSUME TypeOKPath, NEW k \in BurstKeys, NEW d \in Nat, NEW a \in Nat, Record(k, d, a)
    PROVE  history' \in [BurstKeys -> [denied : Nat, allowed : Nat]]
<1>1. history \in [BurstKeys -> [denied : Nat, allowed : Nat]]
  BY DEF TypeOKPath
<1>2. history[k].denied + d \in Nat /\ history[k].allowed + a \in Nat
  BY <1>1
<1>3. QED
  BY <1>1, <1>2 DEF Record

(* The denials of the table are a number.                                  *)
LEMMA TotalType ==
    ASSUME history \in [BurstKeys -> [denied : Nat, allowed : Nat]]
    PROVE  /\ IsFiniteSet(BurstKeys)
           /\ TotalDenied = SumFunctionOnSet([k \in BurstKeys |-> history[k].denied], BurstKeys)
           /\ TotalDenied \in Nat
<1>1. IsFiniteSet(BurstKeys)
  <2>1. Classes = {"video"} \cup {"sound"}
    BY DEF Classes
  <2>2. IsFiniteSet(Classes)
    BY <2>1, FS_Singleton, FS_Union
  <2>3. QED
    BY <2>2, FS_Product DEF BurstKeys
<1> DEFINE f == [k \in BurstKeys |-> history[k].denied]
<1>2. \A k \in BurstKeys : f[k] \in Nat
  OBVIOUS
<1>3. TotalDenied = SumFunctionOnSet(f, BurstKeys)
  BY DEF TotalDenied, SumFunction
<1> HIDE DEF f
<1>4. TotalDenied \in Nat
  BY <1>1, <1>2, <1>3, SumIsNat
<1>5. QED
  BY <1>1, <1>3, <1>4 DEF f

(* Every step of the helper keeps the types.                               *)
LEMMA HelperTypes ==
    ASSUME PathTypes, HelperStep \/ HelperStops
    PROVE  PathTypes'
<1> USE DEF PathTypes, EventInHand
<1>1. CASE RingCallback
  <2>1. ring' \in Seq(Events) /\ pipe' \in Seq(Messages)
    <3>1. Head(ring) \in Events /\ Tail(ring) \in Seq(Events)
      BY <1>1 DEF RingCallback, TypeOKPath, TypeOK
    <3>2. MessageOf(Head(ring)) \in Messages
      BY <3>1, MessageType
    <3>3. QED
      BY <1>1, <3>1, <3>2, QueueType DEF RingCallback, TypeOKPath
  <2>2. QED
    BY <1>1, <2>1 DEF RingCallback, TypeOKPath, TypeOK, HookBusy, linkVars, daemonVars, countVars,
                      ruleVars
<1>2. CASE FlushRead
  BY <1>2, ReadType DEF FlushRead, TypeOKPath, TypeOK, HookBusy, gateVars, linkVars, daemonVars,
                        countVars, ruleVars
<1>3. CASE PushPolicy
  <2>1. perms' \in [Exes -> SUBSET Classes]
    BY <1>3 DEF PushPolicy, TypeOKPath, TypeOK, Classes
  <2>2. QED
    BY <1>3, <2>1 DEF PushPolicy, TypeOKPath, TypeOK, HookBusy, helperVars, linkVars, countVars
<1>4. ASSUME NEW e \in flushing, FlushWrite(e)
      PROVE  PathTypes'
  <2>1. e \in Snapshots
    BY DEF TypeOKPath
  <2>2. bursts' \in [BurstKeys -> [last : Int, suppressed : Nat, denied : BOOLEAN]]
    BY <1>4, <2>1, SummaryType DEF FlushWrite, TypeOKPath, TypeOK
  <2>3. hook' \in [Tasks -> Hook] /\ HookBusy'
    <3>1. TypeInvariant
      BY DEF TypeInvariant, TypeOKPath
    <3>2. hook' = Staled(BurstPointers(e.key))
      BY <1>4 DEF FlushWrite
    <3>3. QED
      BY <3>1, <3>2, StaledType DEF HookBusy
  <2>4. pipe' \in Seq(Messages)
    BY <1>4, <2>1, SummaryType, QueueType DEF FlushWrite, TypeOKPath
  <2>5. blurred' \subseteq BurstKeys
    BY <1>4, <2>1, SummaryType DEF FlushWrite, Blur, TypeOKPath, TypeOK
  <2>6. QED
    BY <1>4, <2>2, <2>3, <2>4, <2>5
       DEF FlushWrite, TypeOKPath, TypeOK, Hook, linkVars, daemonVars, countVars, ruleVars
<1>5. CASE HelperStops
  BY <1>5, ReadType DEF HelperStops, TypeOKPath, TypeOK, HookBusy, gateVars, linkVars, daemonVars,
                        countVars, ruleVars
<1>6. QED
  BY <1>1, <1>2, <1>3, <1>4, <1>5, Zenon DEF HelperStep

(* The bursts that are lost with the helper are bursts.                    *)
LEMMA LostKeys ==
    ASSUME PathTypes
    PROVE  /\ KeysIn(out) \subseteq BurstKeys /\ LostWithHelper \subseteq BurstKeys
           /\ \A n \in 0..Len(out) :
                 /\ SubSeq(out, 1, n) \in Seq(Messages)
                 /\ SubSeq(out, n + 1, Len(out)) \in Seq(Messages)
                 /\ KeysIn(SubSeq(out, n + 1, Len(out))) \subseteq BurstKeys
<1>1. pipe \in Seq(Messages) /\ out \in Seq(Messages) /\ ring \in Seq(Events)
  BY DEF PathTypes, TypeOKPath, TypeOK
<1>2. ASSUME NEW q \in Seq(Messages)
      PROVE  KeysIn(q) \subseteq BurstKeys
  BY QueueMember, MessageWorth DEF KeysIn
<1>3. RingKeys \subseteq BurstKeys
  <2>1. \A ev \in Events : RingKey(ev) \in BurstKeys
    BY DEF RingKey, Events, BurstKeys, Classes
  <2>2. \A i \in DOMAIN ring : ring[i] \in Events
    BY <1>1
  <2>3. QED
    BY <2>1, <2>2 DEF RingKeys
<1>4. LostWithHelper \subseteq BurstKeys
  BY <1>1, <1>2, <1>3 DEF LostWithHelper
<1>5. \A i \in 1..Len(out) : out[i] \in Messages
  BY <1>1
<1>6. ASSUME NEW n \in 0..Len(out)
      PROVE  /\ SubSeq(out, 1, n) \in Seq(Messages)
             /\ SubSeq(out, n + 1, Len(out)) \in Seq(Messages)
  <2>1. /\ 1 \in Int /\ n \in Int /\ n + 1 \in Int /\ Len(out) \in Int
        /\ \A i \in 1..n : out[i] \in Messages
        /\ \A i \in (n + 1)..Len(out) : out[i] \in Messages
    BY <1>1, <1>5
  <2>2. QED
    BY <2>1, SubSeqProperties
<1>7. QED
  BY <1>1, <1>2, <1>4, <1>6

(* The end of the helper's process and its next start keep the types.      *)
LEMMA LifeTypes ==
    ASSUME PathTypes, HelperExits \/ HelperStarts
    PROVE  PathTypes'
<1> USE DEF PathTypes, EventInHand
<1>1. CASE HelperExits
  <2>1. out' \in Seq(Messages) /\ blurred' \subseteq BurstKeys
    BY <1>1, LostKeys DEF HelperExits, TypeOKPath, TypeOK
  <2>2. /\ ring' \in Seq(Events) /\ pipe' \in Seq(Messages)
        /\ bursts' \in [BurstKeys -> [last : Int, suppressed : Nat, denied : BOOLEAN]]
        /\ openFiles' \in [Files -> Exes \cup {None}] /\ leaked' \subseteq Files
        /\ counts' \in [Exes -> Nat \cup {NoCount}]
    BY <1>1 DEF HelperExits, NoBurst
  <2>3. TypeOK' /\ HookBusy'
    BY <1>1, <2>1, <2>2 DEF HelperExits, TypeOKPath, TypeOK, HookBusy
  <2>4. QED
    BY <1>1, <2>1, <2>2, <2>3 DEF HelperExits, TypeOKPath, daemonVars, countVars, ruleVars
<1>2. CASE HelperStarts
  <2>1. faults' \in Nat
    BY <1>2 DEF HelperStarts, TypeOKPath
  <2>2. TypeOK' /\ HookBusy'
    BY <1>2 DEF HelperStarts, TypeOKPath, TypeOK, HookBusy, gateVars
  <2>3. QED
    BY <1>2, <2>1, <2>2 DEF HelperStarts, TypeOKPath, daemonVars, countVars, ruleVars
<1>3. QED
  BY <1>1, <1>2

(* Every step of the connection, and its end, keeps the types.             *)
LEMMA ConnectionTypes ==
    ASSUME PathTypes, ConnectionStep \/ Break
    PROVE  PathTypes'
<1> USE DEF PathTypes, EventInHand
<1>1. KeysIn(out) \subseteq BurstKeys
  BY QueueMember, MessageWorth DEF KeysIn, TypeOKPath
<1>2. CASE Forward
  <2>1. /\ Head(pipe) \in Messages /\ pipe' \in Seq(Messages)
        /\ \A m \in Messages : Append(out, m) \in Seq(Messages)
    BY <1>2, QueueType DEF Forward, TypeOKPath
  <2>2. out' \in Seq(Messages)
    BY <1>2, <2>1 DEF Forward, TypeOKPath
  <2>3. KeyOf(Head(pipe)) \in BurstKeys
    BY <2>1, MessageWorth
  <2>4. blurred' \subseteq BurstKeys
    BY <1>2, <2>3 DEF Forward, TypeOKPath, TypeOK
  <2>5. QED
    BY <1>2, <2>1, <2>2, <2>4 DEF Forward, TypeOKPath, TypeOK, HookBusy, daemonVars, countVars, ruleVars
<1>3. CASE CloseConnection
  BY <1>3 DEF CloseConnection, TypeOKPath, TypeOK, HookBusy, gateVars, helperVars, daemonVars,
              countVars, ruleVars
<1>4. CASE Connect
  BY <1>4 DEF Connect, TypeOKPath, TypeOK, HookBusy, gateVars, helperVars, countVars
<1>5. CASE Break
  BY <1>1, <1>5 DEF Break, LoseConnection, TypeOKPath, TypeOK, HookBusy, helperVars, daemonVars,
                    countVars, ruleVars
<1>6. QED
  BY <1>2, <1>3, <1>4, <1>5 DEF ConnectionStep

(* Every step of the daemon, of the user and a restart keeps the types.    *)
LEMMA DaemonTypes ==
    ASSUME PathTypes, DaemonStep \/ UserStep \/ Restart
    PROVE  PathTypes'
<1> USE DEF PathTypes, EventInHand
<1>1. /\ handling \in [at : {"idle", "decide", "ask"}, exe : Exes \cup {None}]
      /\ NoEvent \in [at : {"idle", "decide", "ask"}, exe : Exes \cup {None}]
      /\ NoEvent.at = "idle"
      /\ [handling EXCEPT !.at = "ask"] \in [at : {"idle", "decide", "ask"}, exe : Exes \cup {None}]
      /\ [handling EXCEPT !.at = "ask"].exe = handling.exe
  BY DEF TypeOKPath, NoEvent
<1>2. ASSUME NEW m, Take(m)
      PROVE  m \in Messages /\ out' \in Seq(Messages)
  BY <1>2, QueueType DEF Take, TypeOKPath
<1>3. ASSUME NEW m, Ignore(m)
      PROVE  PathTypes'
  BY <1>2, <1>3 DEF Ignore, TypeOKPath, TypeOK, HookBusy, gateVars, helperVars, daemonVars,
                    countVars, ruleVars
<1>4. ASSUME NEW m, CountSummary(m)
      PROVE  PathTypes'
  <2>1. m \in Messages /\ out' \in Seq(Messages)
    BY <1>2, <1>4 DEF CountSummary
  <2>2. blocked' \in Nat
    BY <1>4, <2>1, MessageWorth DEF CountSummary, TypeOKPath
  <2>3. history' \in [BurstKeys -> [denied : Nat, allowed : Nat]]
    BY <1>4, <2>1, MessageWorth, RecordType DEF CountSummary, RecordDenied, RecordAllowed
  <2>4. QED
    BY <1>4, <2>1, <2>2, <2>3 DEF CountSummary, TypeOKPath, TypeOK, HookBusy, gateVars, helperVars,
                                  ruleVars
<1>5. ASSUME NEW m, CountDenied(m)
      PROVE  PathTypes'
  <2>1. m \in Messages /\ out' \in Seq(Messages)
    BY <1>2, <1>5 DEF CountDenied
  <2>2. blocked' \in Nat
    BY <1>5, <2>1, MessageWorth DEF CountDenied, TypeOKPath, Logged
  <2>3. history' \in [BurstKeys -> [denied : Nat, allowed : Nat]]
    BY <1>5, <2>1, MessageWorth, RecordType DEF CountDenied, RecordDenied
  <2>4. handling' \in [at : {"idle", "decide", "ask"}, exe : Exes \cup {None}] /\ EventInHand'
    BY <1>1, <1>5, <2>1, MessageWorth DEF CountDenied, EventInHand
  <2>5. QED
    BY <1>5, <2>1, <2>2, <2>3, <2>4 DEF CountDenied, TypeOKPath, TypeOK, HookBusy, gateVars,
                                        helperVars, ruleVars
<1>6. ASSUME NEW m, CountAllowed(m)
      PROVE  PathTypes'
  <2>1. m \in Messages /\ out' \in Seq(Messages)
    BY <1>2, <1>6 DEF CountAllowed
  <2>2. history' \in [BurstKeys -> [denied : Nat, allowed : Nat]]
    BY <1>6, <2>1, MessageWorth, RecordType DEF CountAllowed, RecordAllowed, TypeOKPath
  <2>3. QED
    BY <1>6, <2>1, <2>2 DEF CountAllowed, TypeOKPath, TypeOK, HookBusy, gateVars, helperVars,
                            ruleVars
<1>7. CASE Decide
  <2>1. /\ handling.exe \in Exes
        /\ handling' = NoEvent \/ handling' = [handling EXCEPT !.at = "ask"]
    BY <1>7 DEF Decide
  <2>2. QED
    BY <1>1, <1>7, <2>1 DEF Decide, TypeOKPath, TypeOK, HookBusy, gateVars, helperVars, linkVars,
                      countVars, ruleVars
<1>8. CASE Ask
  <2>1. handling.exe \in Exes
    BY <1>8 DEF Ask
  <2>2. handling' = NoEvent
    BY <1>8 DEF Ask
  <2>3. QED
    BY <1>1, <1>8, <2>1, <2>2 DEF Ask, TypeOKPath, TypeOK, HookBusy, gateVars, helperVars, linkVars,
                            countVars, ruleVars
<1>9. ASSUME NEW e \in Exes, NEW perm \in {"allow", "deny"}, NEW there \in BOOLEAN,
             Answer(e, perm, there)
      PROVE  PathTypes'
  <2>1. /\ rule' \in [Exes -> {"none", "allow", "deny"}]
        /\ saved' \in [Exes -> {"none", "allow", "deny"}]
        /\ pushed' \in BOOLEAN
    BY <1>9 DEF Answer, TypeOKPath
  <2>2. QED
    BY <1>9, <2>1 DEF Answer, TypeOKPath, TypeOK, HookBusy, gateVars, helperVars, linkVars,
                      countVars
<1>10. ASSUME NEW e \in Exes, Dismiss(e)
       PROVE  PathTypes'
  BY <1>10 DEF Dismiss, TypeOKPath, TypeOK, HookBusy, gateVars, helperVars, linkVars, countVars
<1>11. CASE Restart
  <2>1. KeysIn(out) \subseteq BurstKeys
    BY QueueMember, MessageWorth DEF KeysIn, TypeOKPath
  <2>2. base' \in Nat
    BY <1>11, TotalType DEF Restart, TypeOKPath
  <2>3. link' \in {"up", "closing", "down"} /\ out' \in Seq(Messages) /\ blurred' \subseteq BurstKeys
    <3>1. <<>> \in Seq(Messages)
      OBVIOUS
    <3>2. CASE link = "up"
      BY <1>11, <2>1, <3>1, <3>2 DEF Restart, LoseConnection, TypeOKPath, TypeOK
    <3>3. CASE link # "up"
      BY <1>11, <3>3 DEF Restart, TypeOKPath, TypeOK
    <3>4. QED
      BY <3>2, <3>3
  <2>4. TypeOK' /\ HookBusy'
    BY <1>11, <2>3 DEF Restart, TypeOKPath, TypeOK, HookBusy
  <2>5. handling' = NoEvent /\ blocked' = 0 /\ rule' = saved /\ faults' = faults + 1
    BY <1>11 DEF Restart
  <2>6. TypeOKPath'
    <3>1. asking' = {} /\ pushed' = FALSE /\ UNCHANGED <<flushing, helperUp, gone, pipe, history, saved, answers>>
      BY <1>11 DEF Restart, helperVars
    <3>2. /\ flushing \in SUBSET Snapshots /\ helperUp \in BOOLEAN /\ gone \in BOOLEAN
          /\ pipe \in Seq(Messages)
          /\ history \in [BurstKeys -> [denied : Nat, allowed : Nat]]
          /\ saved \in [Exes -> {"none", "allow", "deny"}]
          /\ answers \in Nat /\ faults \in Nat
      BY DEF TypeOKPath
    <3>3. faults' \in Nat /\ blocked' \in Nat
      BY <2>5, <3>2
    <3>4. handling' \in [at : {"idle", "decide", "ask"}, exe : Exes \cup {None}]
      BY <1>1, <2>5
    <3>5. QED
      BY <2>2, <2>3, <2>4, <2>5, <3>1, <3>2, <3>3, <3>4 DEF TypeOKPath
  <2>7. QED
    BY <1>1, <2>4, <2>5, <2>6
<1>12. CASE DaemonStep
  BY <1>3, <1>4, <1>5, <1>6, <1>7, <1>8, <1>12 DEF DaemonStep
<1>13. CASE UserStep
  BY <1>9, <1>10, <1>13, Zenon DEF UserStep
<1>14. QED
  BY <1>11, <1>12, <1>13

(* A step of the hooks' part is one of the gate, with or without a helper. *)
LEMMA GateStepIsTheGates == GateStep => UNCHANGED pathVars /\ GateNext
BY DEF GateStep, GateNext

(* Every step keeps the types, those of the gate as KernelGate's own do.   *)
LEMMA PathNextTypes ==
    ASSUME PathTypes, [Next]_vars
    PROVE  PathTypes'
<1>1. CASE GateStep \/ UNCHANGED vars
  <2>1. UNCHANGED pathVars /\ [GateNext]_gateVars
    BY <1>1, GateStepIsTheGates DEF vars
  <2>2. TypeInvariant
    BY DEF PathTypes, TypeOKPath, TypeInvariant
  <2>3. TypeInvariant'
    BY <2>1, <2>2, NextType
  <2>4. QED
    BY <2>1, <2>3 DEF PathTypes, TypeOKPath, TypeInvariant, EventInHand, pathVars, helperVars,
                      linkVars, daemonVars, countVars, ruleVars
<1>2. QED
  BY <1>1, HelperTypes, LifeTypes, ConnectionTypes, DaemonTypes DEF Next

(* The types hold at the start.                                            *)
LEMMA PathInitTypes ==
    ASSUME Init
    PROVE  PathTypes
<1>1. TypeInvariant
  BY InitType DEF Init
<1>2. /\ history \in [BurstKeys -> [denied : Nat, allowed : Nat]]
      /\ rule \in [Exes -> {"none", "allow", "deny"}] /\ saved = rule
      /\ pipe \in Seq(Messages) /\ out \in Seq(Messages)
      /\ handling \in [at : {"idle", "decide", "ask"}, exe : Exes \cup {None}]
      /\ handling.at = "idle"
  BY DEF Init, NoEvent
<1>3. QED
  BY <1>1, <1>2 DEF Init, PathTypes, TypeOKPath, TypeInvariant, EventInHand

(* Whatever the hooks, the helper, the connection, the daemon and the user *)
(* do, every queue, map, table and counter on the way of an event holds    *)
(* what it is declared to hold: a node that is no capture never reaches    *)
(* the daemon under a role of its own.                                     *)
THEOREM PathTypesHold == Spec => []TypeOKPath
<1>1. Init => PathTypes
  BY PathInitTypes
<1>2. PathTypes /\ [Next]_vars => PathTypes'
  BY PathNextTypes
<1>3. PathTypes => TypeOKPath
  BY DEF PathTypes
<1>4. QED
  BY <1>1, <1>2, <1>3, PTL DEF Spec

-----------------------------------------------------------------------------
(* What the gate promises on its own holds on the whole path.  The helper  *)
(* reaches into the gate while hooks are running (it writes bursts back,   *)
(* which leaves their pointers stale, and rewrites the policy map), but    *)
(* into the tables of handles only when its process ends and takes them    *)
(* along.                                                                  *)

(* A step is one of the gate, or leaves its handles and their hooks alone, *)
(* but for pointers into a burst.                                          *)
LEMMA OutsideTheGate ==
    ASSUME [Next]_vars, ~HelperExits
    PROVE  \/ [GateNext]_gateVars
           \/ /\ UNCHANGED <<held, leaked, openFiles, counts, overlapped>>
              /\ UNCHANGED hook \/ \E k : hook' = Staled(BurstPointers(k))
<1> DEFINE Aside == /\ UNCHANGED <<held, leaked, openFiles, counts, overlapped>>
                    /\ UNCHANGED hook \/ \E k : hook' = Staled(BurstPointers(k))
<1>1. CASE HelperStep \/ HelperStops \/ HelperStarts
  BY <1>1 DEF HelperStep, HelperStops, HelperStarts, RingCallback, FlushRead, PushPolicy, FlushWrite,
              gateVars
<1>2. CASE ConnectionStep \/ Break
  BY <1>2 DEF ConnectionStep, Break, Forward, CloseConnection, Connect, gateVars
<1>3. CASE DaemonStep
  BY <1>3 DEF DaemonStep, Ignore, CountSummary, CountDenied, CountAllowed, Decide, Ask, gateVars
<1>4. CASE UserStep \/ Restart
  BY <1>4 DEF UserStep, Restart, Answer, Dismiss, gateVars
<1>5. CASE GateStep \/ UNCHANGED vars
  BY <1>5, GateStepIsTheGates DEF vars
<1>6. QED
  BY <1>1, <1>2, <1>3, <1>4, <1>5 DEF Next

(* Stale pointers into a burst change nothing the files depend on, nor     *)
(* what a hook that counts handles reads.                                  *)
LEMMA StaledBursts ==
    ASSUME TypeInvariant, NEW k, hook' = Staled(BurstPointers(k))
    PROVE  \A u \in Tasks : /\ hook'[u].at = hook[u].at /\ hook'[u].exe = hook[u].exe
                            /\ hook'[u].file = hook[u].file /\ hook'[u].ok = hook[u].ok
                            /\ hook[u].at \in Counting => hook'[u] = hook[u]
<1>1. \A u \in Tasks : hook[u].at \in Counting => u \notin BurstPointers(k)
  BY DEF BurstPointers, Counting
<1>2. QED
  BY <1>1, StaledType

(* Emptied tables with no hook running are as they should be.              *)
LEMMA EmptiedGate ==
    ASSUME FileInvariant, HelperExits
    PROVE  FileInvariant' /\ CountInvariant'
<1>1. /\ \A t \in Tasks : hook'[t].at = "rest"
      /\ \A f \in Files : openFiles'[f] = None
      /\ \A e \in Exes : counts'[e] = NoCount
      /\ UNCHANGED <<hook, held>>
  BY DEF HelperExits
<1>2. FileInvariant'
  BY <1>1 DEF FileInvariant, OneHolder, HookVerdict, OnlyCameras, TrackedUnlessRefused
<1>3. TableFits'
  <2>1. {f \in Files : openFiles'[f] # None} = {}
    BY <1>1
  <2>2. QED
    BY <2>1, FS_EmptySet, GateAssumption DEF TableFits
<1>4. ASSUME NEW e \in Exes
      PROVE  CountOf(e)'
  <2>1. {f \in Files : openFiles'[f] = e} = {}
    BY <1>1, GateAssumption
  <2>2. Handles(e)' = 0
    BY <2>1, FS_EmptySet DEF Handles, TrackedBy
  <2>3. QED
    BY <1>1, <2>2 DEF CountOf, OneCounter, Quiet, CountAtStep, Counting, Entry
<1>5. QED
  BY <1>2, <1>3, <1>4 DEF CountInvariant

(* Every step of the whole keeps the gate's invariants.                    *)
LEMMA PathKeepsGate ==
    ASSUME PathTypes, FileInvariant, CountInvariant, [Next]_vars
    PROVE  FileInvariant' /\ CountInvariant'
<1>1. TypeInvariant
  BY DEF PathTypes, TypeOKPath, TypeInvariant
<1>2. CASE [GateNext]_gateVars
  BY <1>1, <1>2, NextFiles, NextCounts
<1>3. CASE /\ UNCHANGED <<held, leaked, openFiles, counts, overlapped>>
           /\ UNCHANGED hook \/ \E k : hook' = Staled(BurstPointers(k))
  <2>1. \A u \in Tasks : /\ hook'[u].at = hook[u].at /\ hook'[u].exe = hook[u].exe
                         /\ hook'[u].file = hook[u].file /\ hook'[u].ok = hook[u].ok
                         /\ hook[u].at \in Counting => hook'[u] = hook[u]
    BY <1>1, <1>3, StaledBursts
  <2>2. FileInvariant'
    BY <1>1, <1>3, <2>1, MoveFiles
  <2>3. TableFits'
    BY <1>1, <1>3, TableKeeps DEF CountInvariant
  <2>4. ASSUME NEW e \in Exes \ overlapped'
        PROVE  CountOf(e)'
    <3>1. CountOf(e)
      BY <1>3 DEF CountInvariant
    <3>2. QED
      BY <1>3, <2>1, <3>1, CountFrame
  <2>5. QED
    BY <2>2, <2>3, <2>4 DEF CountInvariant
<1>4. QED
  BY <1>2, <1>3, OutsideTheGate, EmptiedGate

(* On the whole path, too, a tracked handle is open, being opened with     *)
(* leave, or one the driver refused, whatever the helper does to the       *)
(* gate's maps in between and however often its process ends and starts.   *)
THEOREM PathTracksOpenFiles == Spec => []TrackedUnlessRefused
<1>1. Init => PathTypes /\ FileInvariant /\ CountInvariant
  BY PathInitTypes, GateStart DEF Init
<1>2. PathTypes /\ FileInvariant /\ CountInvariant /\ [Next]_vars
        => PathTypes' /\ FileInvariant' /\ CountInvariant'
  BY PathNextTypes, PathKeepsGate
<1>3. FileInvariant => TrackedUnlessRefused
  BY DEF FileInvariant
<1>4. QED
  BY <1>1, <1>2, <1>3, PTL DEF Spec

(* On the whole path, too, the close of the last handle finds zero: the    *)
(* flush of a burst never touches a count that a hook is in the middle of. *)
THEOREM PathFindsLastClose == Spec => []CountsAreExact
<1>1. Init => PathTypes /\ FileInvariant /\ CountInvariant
  BY PathInitTypes, GateStart DEF Init
<1>2. PathTypes /\ FileInvariant /\ CountInvariant /\ [Next]_vars
        => PathTypes' /\ FileInvariant' /\ CountInvariant'
  BY PathNextTypes, PathKeepsGate
<1>3. PathTypes /\ CountInvariant => CountsAreExact
  BY CountIsExact DEF PathTypes, TypeOKPath, TypeInvariant
<1>4. QED
  BY <1>1, <1>2, <1>3, PTL DEF Spec

-----------------------------------------------------------------------------
(* The counter and the table.                                              *)

(* What is recorded of a burst: its own entry grows, no other moves, and   *)
(* the denials of the table grow by what was denied.                       *)
LEMMA RecordTotal ==
    ASSUME PathTypes, NEW k \in BurstKeys, NEW d \in Nat, NEW a \in Nat, Record(k, d, a)
    PROVE  /\ history'[k].denied = history[k].denied + d
           /\ history'[k].allowed = history[k].allowed + a
           /\ \A j \in BurstKeys \ {k} : history'[j] = history[j]
           /\ TotalDenied' = TotalDenied + d
<1> DEFINE f == [j \in BurstKeys |-> history[j].denied]
           g == [j \in BurstKeys |-> history'[j].denied]
<1>1. /\ history \in [BurstKeys -> [denied : Nat, allowed : Nat]]
      /\ history' \in [BurstKeys -> [denied : Nat, allowed : Nat]]
  BY RecordType DEF PathTypes, TypeOKPath
<1>2. /\ history'[k].denied = history[k].denied + d
      /\ history'[k].allowed = history[k].allowed + a
      /\ \A j \in BurstKeys \ {k} : history'[j] = history[j]
  BY <1>1 DEF Record
<1>3. /\ IsFiniteSet(BurstKeys) /\ TotalDenied \in Nat
      /\ TotalDenied = SumFunctionOnSet(f, BurstKeys)
      /\ TotalDenied' = SumFunctionOnSet(g, BurstKeys)
  <2>1. TotalDenied' = SumFunctionOnSet(g, DOMAIN g)
    BY DEF TotalDenied, SumFunction
  <2>2. DOMAIN g = BurstKeys
    OBVIOUS
  <2>3. QED
    BY <1>1, <2>1, <2>2, TotalType
<1>4. /\ \A j \in BurstKeys : f[j] \in Nat /\ g[j] \in Nat
      /\ \A j \in BurstKeys \ {k} : f[j] = g[j]
      /\ g[k] = f[k] + d
  BY <1>1, <1>2
<1> HIDE DEF f, g
<1>5. SumFunctionOnSet(f, BurstKeys) + g[k] = SumFunctionOnSet(g, BurstKeys) + f[k]
  BY <1>3, <1>4, SumChange
<1>6. SumFunctionOnSet(g, BurstKeys) \in Nat
  BY <1>3, <1>4, SumIsNat
<1>7. TotalDenied' = TotalDenied + d
  BY <1>3, <1>4, <1>5, <1>6
<1>8. QED
  BY <1>2, <1>7

(* A table that does not move has the same denials.                        *)
LEMMA SameTotal ==
    ASSUME UNCHANGED history
    PROVE  UNCHANGED TotalDenied
BY DEF TotalDenied

(* The counter and the table agree after every step: what the daemon adds  *)
(* to the one it records in the other, log_event's own one included, and a *)
(* restart reads back the table it saved.                                  *)
LEMMA CountersKeep ==
    ASSUME PathTypes, CountersAgree, [Next]_vars
    PROVE  CountersAgree'
<1>1. blocked \in Nat /\ base \in Nat /\ TotalDenied \in Nat
  BY TotalType DEF PathTypes, TypeOKPath
<1>2. CASE UNCHANGED <<blocked, base, history>>
  BY <1>2, SameTotal DEF CountersAgree
<1>3. ASSUME NEW m, Take(m)
      PROVE  /\ KeyOf(m) \in BurstKeys /\ DeniedOpens(m) \in Nat /\ AllowedOpens(m) \in Nat
             /\ m.denied /\ m.kind = "open" => DeniedOpens(m) >= 1
  <2>1. m \in Messages
    BY <1>3, QueueType DEF Take, PathTypes, TypeOKPath
  <2>2. QED
    BY <2>1, MessageWorth DEF DeniedOpens
<1>4. ASSUME NEW m, CountSummary(m)
      PROVE  CountersAgree'
  <2>1. /\ KeyOf(m) \in BurstKeys /\ DeniedOpens(m) \in Nat /\ AllowedOpens(m) \in Nat
        /\ blocked' = blocked + DeniedOpens(m) /\ base' = base
    BY <1>3, <1>4 DEF CountSummary
  <2>2. CASE m.denied
    <3>1. Record(KeyOf(m), DeniedOpens(m), 0)
      BY <1>4, <2>2 DEF CountSummary, RecordDenied
    <3>2. TotalDenied' = TotalDenied + DeniedOpens(m)
      BY <2>1, <3>1, RecordTotal
    <3>3. QED
      BY <1>1, <2>1, <3>2 DEF CountersAgree
  <2>3. CASE ~m.denied
    <3>1. Record(KeyOf(m), 0, AllowedOpens(m)) /\ DeniedOpens(m) = 0
      BY <1>4, <2>3 DEF CountSummary, RecordAllowed, DeniedOpens
    <3>2. TotalDenied' = TotalDenied + 0
      BY <2>1, <3>1, RecordTotal
    <3>3. QED
      BY <1>1, <2>1, <3>1, <3>2 DEF CountersAgree
  <2>4. QED
    BY <2>2, <2>3
<1>5. ASSUME NEW m, CountDenied(m)
      PROVE  CountersAgree'
  <2>1. /\ KeyOf(m) \in BurstKeys /\ DeniedOpens(m) \in Nat /\ DeniedOpens(m) >= 1
        /\ blocked' = blocked + Logged(TRUE) + (DeniedOpens(m) - Logged(TRUE)) /\ base' = base
        /\ Record(KeyOf(m), DeniedOpens(m), 0)
    BY <1>3, <1>5 DEF CountDenied, RecordDenied
  <2>2. TotalDenied' = TotalDenied + DeniedOpens(m)
    BY <2>1, RecordTotal
  <2>3. blocked' = blocked + DeniedOpens(m)
    BY <1>1, <2>1 DEF Logged
  <2>4. base' = base /\ DeniedOpens(m) \in Nat
    BY <2>1
  <2>5. QED
    BY <1>1, <2>2, <2>3, <2>4 DEF CountersAgree
<1>6. ASSUME NEW m, CountAllowed(m)
      PROVE  CountersAgree'
  <2>1. KeyOf(m) \in BurstKeys /\ AllowedOpens(m) \in Nat /\ UNCHANGED <<blocked, base>>
    BY <1>3, <1>6 DEF CountAllowed
  <2>2. CASE m.role = "CAMERA"
    <3>1. Record(KeyOf(m), 0, AllowedOpens(m))
      BY <1>6, <2>2 DEF CountAllowed, RecordAllowed
    <3>2. TotalDenied' = TotalDenied + 0
      BY <2>1, <3>1, RecordTotal
    <3>3. QED
      BY <1>1, <2>1, <3>2 DEF CountersAgree
  <2>3. CASE m.role # "CAMERA"
    BY <1>2, <1>6, <2>1, <2>3 DEF CountAllowed
  <2>4. QED
    BY <2>2, <2>3
<1>7. CASE Restart
  <2>1. blocked' = 0 /\ base' = TotalDenied /\ TotalDenied' = TotalDenied
    BY <1>7, SameTotal DEF Restart
  <2>2. QED
    BY <1>1, <2>1 DEF CountersAgree
<1>8. CASE DaemonStep
  <2>1. ASSUME NEW m, Ignore(m)
        PROVE  UNCHANGED <<blocked, base, history>>
    BY <2>1 DEF Ignore, daemonVars, countVars
  <2>2. CASE Decide \/ Ask
    BY <1>2, <2>2 DEF Decide, Ask, countVars
  <2>3. QED
    BY <1>2, <1>4, <1>5, <1>6, <1>8, <2>1, <2>2 DEF DaemonStep
<1>9. CASE HelperStep \/ HelperStops \/ HelperExits \/ HelperStarts
  <2>1. UNCHANGED <<blocked, base, history>>
    BY <1>9 DEF HelperStep, HelperStops, HelperExits, HelperStarts, RingCallback, FlushRead,
                PushPolicy, FlushWrite, daemonVars, countVars
  <2>2. QED
    BY <1>2, <2>1
<1>10. CASE ConnectionStep \/ Break \/ UserStep
  <2>1. UNCHANGED <<blocked, base, history>>
    BY <1>10 DEF ConnectionStep, Break, UserStep, Forward, CloseConnection, Connect, Answer, Dismiss,
                 daemonVars, countVars
  <2>2. QED
    BY <1>2, <2>1
<1>11. CASE GateStep \/ UNCHANGED vars
  <2>1. UNCHANGED <<blocked, base, history>>
    BY <1>11 DEF GateStep, vars, pathVars, daemonVars, countVars
  <2>2. QED
    BY <1>2, <2>1
<1>12. QED
  BY <1>7, <1>8, <1>9, <1>10, <1>11 DEF Next

(* The status line's counter of denials is what the table on disk has      *)
(* gained since the daemon started, at all times and across its restarts,  *)
(* however many events, bursts and summaries came in.                      *)
THEOREM CountersNeverPart == Spec => []CountersAgree
<1>1. Init => PathTypes /\ CountersAgree
  <2> SUFFICES ASSUME Init
               PROVE  CountersAgree
    BY PathInitTypes
  <2> DEFINE f == [k \in BurstKeys |-> history[k].denied]
  <2>1. \A k \in BurstKeys : f[k] = 0
    BY DEF Init
  <2>2. IsFiniteSet(BurstKeys) /\ TotalDenied = SumFunctionOnSet(f, BurstKeys)
    BY PathInitTypes, TotalType DEF PathTypes, TypeOKPath
  <2> HIDE DEF f
  <2>3. TotalDenied = 0
    BY <2>1, <2>2, SumZero
  <2>4. QED
    BY <2>3 DEF Init, CountersAgree
<1>2. PathTypes /\ CountersAgree /\ [Next]_vars => PathTypes' /\ CountersAgree'
  BY PathNextTypes, CountersKeep
<1>3. QED
  BY <1>1, <1>2, PTL DEF Spec

-----------------------------------------------------------------------------
(* Where the opens are that were not yet counted.                          *)

(* The opens in a queue of messages.                                       *)
LEMMA QueueAmount ==
    ASSUME NEW k, NEW d, NEW q \in Seq(Messages)
    PROVE  /\ InQueue(q, k, d) \in Nat
           /\ k \notin KeysIn(q) => InQueue(q, k, d) = 0
           /\ \A m \in Messages : /\ QueueWorth(m, k, d) \in Nat
                                  /\ InQueue(Append(q, m), k, d) = InQueue(q, k, d) + QueueWorth(m, k, d)
           /\ q # <<>> => InQueue(q, k, d) = QueueWorth(Head(q), k, d) + InQueue(Tail(q), k, d)
<1> DEFINE W == [m \in Messages |-> QueueWorth(m, k, d)]
<1>1. \A m \in Messages : QueueWorth(m, k, d) \in Nat
  BY MessageWorth DEF QueueWorth
<1>2. W \in [Messages -> Nat] /\ \A m \in Messages : W[m] = QueueWorth(m, k, d)
  BY <1>1
<1>3. \A r \in Seq(Messages) : InQueue(r, k, d) = WorthOf(W, r)
  <2> SUFFICES ASSUME NEW r \in Seq(Messages)
               PROVE  InQueue(r, k, d) = WorthOf(W, r)
    OBVIOUS
  <2>1. DOMAIN r = 1..Len(r) /\ \A i \in 1..Len(r) : r[i] \in Messages
    OBVIOUS
  <2>2. [i \in DOMAIN r |-> QueueWorth(r[i], k, d)] = [i \in 1..Len(r) |-> W[r[i]]]
    BY <2>1
  <2>3. QED
    BY <2>1, <2>2 DEF InQueue, SumFunction, WorthOf
<1> HIDE DEF W
<1>4. InQueue(q, k, d) \in Nat
  BY <1>2, <1>3, WorthIsNat
<1>5. ASSUME k \notin KeysIn(q)
      PROVE  InQueue(q, k, d) = 0
  <2>1. \A i \in 1..Len(q) : q[i] \in Messages /\ KeyOf(q[i]) # k
    BY <1>5 DEF KeysIn
  <2>2. \A i \in 1..Len(q) : W[q[i]] = 0
    BY <1>2, <2>1 DEF QueueWorth
  <2>3. QED
    BY <1>2, <1>3, <2>2, WorthIsNat
<1>6. ASSUME NEW m \in Messages
      PROVE  InQueue(Append(q, m), k, d) = InQueue(q, k, d) + QueueWorth(m, k, d)
  <2>1. Append(q, m) \in Seq(Messages)
    BY QueueType
  <2>2. InQueue(Append(q, m), k, d) = WorthOf(W, Append(q, m)) /\ InQueue(q, k, d) = WorthOf(W, q)
    BY <1>3, <2>1
  <2>3. WorthOf(W, Append(q, m)) = WorthOf(W, q) + W[m]
    BY <1>2, WorthOfAppend
  <2>4. QED
    BY <1>2, <2>2, <2>3
<1>7. ASSUME q # <<>>
      PROVE  InQueue(q, k, d) = QueueWorth(Head(q), k, d) + InQueue(Tail(q), k, d)
  BY <1>2, <1>3, <1>7, QueueType, WorthOfTail
<1>8. QED
  BY <1>1, <1>4, <1>5, <1>6, <1>7

(* What is cut off a queue without a burst in it takes none of its opens.  *)
LEMMA QueuePrefix ==
    ASSUME NEW k, NEW d, NEW q \in Seq(Messages), NEW n \in 0..Len(q),
           k \notin KeysIn(SubSeq(q, n + 1, Len(q)))
    PROVE  InQueue(SubSeq(q, 1, n), k, d) = InQueue(q, k, d)
<1> DEFINE W == [m \in Messages |-> QueueWorth(m, k, d)]
           r == SubSeq(q, 1, n)
           z == SubSeq(q, n + 1, Len(q))
<1>1. W \in [Messages -> Nat] /\ \A m \in Messages : W[m] = QueueWorth(m, k, d)
  BY MessageWorth DEF QueueWorth
<1>2. /\ n \in Nat /\ Len(q) \in Nat /\ n <= Len(q)
      /\ \A i \in 1..Len(q) : q[i] \in Messages
  OBVIOUS
<1>3. r \in Seq(Messages) /\ Len(r) = n /\ \A i \in 1..n : r[i] = q[i]
  <2>1. \A i \in 1..n : q[i] \in Messages
    BY <1>2
  <2>2. 1 \in Int /\ n \in Int
    BY <1>2
  <2>3. /\ r \in Seq(Messages) /\ Len(r) = IF 1 <= n THEN n - 1 + 1 ELSE 0
        /\ \A i \in 1..(n - 1 + 1) : r[i] = q[1 + i - 1]
    BY <2>1, <2>2, SubSeqProperties
  <2> HIDE DEF r
  <2>4. n - 1 + 1 = n /\ \A i \in 1..n : 1 + i - 1 = i
    BY <1>2
  <2>5. QED
    BY <1>2, <2>3, <2>4
<1>4. /\ Len(z) = Len(q) - n /\ z \in Seq(Messages)
      /\ \A i \in (n + 1)..Len(q) : i - n \in 1..Len(z) /\ z[i - n] = q[i]
  <2>1. \A i \in (n + 1)..Len(q) : q[i] \in Messages
    BY <1>2
  <2>2. n + 1 \in Int /\ Len(q) \in Int
    BY <1>2
  <2>3. /\ z \in Seq(Messages)
        /\ Len(z) = IF n + 1 <= Len(q) THEN Len(q) - (n + 1) + 1 ELSE 0
        /\ \A i \in 1..(Len(q) - (n + 1) + 1) : z[i] = q[n + 1 + i - 1]
    BY <2>1, <2>2, SubSeqProperties
  <2> HIDE DEF z
  <2>4. Len(z) = Len(q) - n
    BY <1>2, <2>3
  <2>5. ASSUME NEW i \in (n + 1)..Len(q)
        PROVE  i - n \in 1..Len(z) /\ z[i - n] = q[i]
    <3>1. i - n \in 1..(Len(q) - (n + 1) + 1) /\ n + 1 + (i - n) - 1 = i /\ i - n \in 1..Len(z)
      BY <1>2, <2>4
    <3>2. z[i - n] = q[n + 1 + (i - n) - 1]
      BY <2>3, <3>1
    <3>3. QED
      BY <3>1, <3>2
  <2>6. QED
    BY <2>3, <2>4, <2>5
<1>5. ASSUME NEW i \in (n + 1)..Len(q)
      PROVE  W[q[i]] = 0
  <2>1. i - n \in DOMAIN z /\ z[i - n] = q[i] /\ q[i] \in Messages
    BY <1>2, <1>4
  <2>2. KeyOf(q[i]) # k
    BY <2>1 DEF KeysIn
  <2>3. QED
    BY <1>1, <2>1, <2>2 DEF QueueWorth
<1>6. ASSUME NEW s \in Seq(Messages)
      PROVE  InQueue(s, k, d) = WorthOf(W, s)
  <2>1. DOMAIN s = 1..Len(s) /\ \A i \in 1..Len(s) : s[i] \in Messages
    OBVIOUS
  <2>2. [i \in DOMAIN s |-> QueueWorth(s[i], k, d)] = [i \in 1..Len(s) |-> W[s[i]]]
    BY <2>1
  <2>3. QED
    BY <2>1, <2>2 DEF InQueue, SumFunction, WorthOf
<1> HIDE DEF W, r, z
<1>7. WorthOf(W, r) = WorthOf(W, q)
  BY <1>1, <1>3, <1>5, WorthOfPrefix
<1>8. InQueue(r, k, d) = InQueue(q, k, d)
  BY <1>3, <1>6, <1>7
<1>9. QED
  BY <1>8 DEF r

(* The opens in the ring buffer.                                           *)
LEMMA RingAmount ==
    ASSUME ring \in Seq(Events), ring' \in Seq(Events), NEW k, NEW d
    PROVE  /\ InRing(k, d) \in Nat /\ InRing(k, d)' \in Nat
           /\ UNCHANGED ring => InRing(k, d)' = InRing(k, d)
           /\ \A ev \in Events : /\ RingWorth(ev, k, d) \in Nat
                                 /\ ring' = Append(ring, ev) =>
                                        InRing(k, d)' = InRing(k, d) + RingWorth(ev, k, d)
           /\ ring # <<>> /\ ring' = Tail(ring) =>
                  InRing(k, d) = RingWorth(Head(ring), k, d) + InRing(k, d)'
<1> DEFINE W == [ev \in Events |-> RingWorth(ev, k, d)]
<1>1. \A ev \in Events : RingWorth(ev, k, d) \in Nat
  BY DEF RingWorth, Events
<1>2. W \in [Events -> Nat] /\ \A ev \in Events : W[ev] = RingWorth(ev, k, d)
  BY <1>1
<1>3. InRing(k, d) = WorthOf(W, ring)
  <2>1. DOMAIN ring = 1..Len(ring) /\ \A i \in 1..Len(ring) : ring[i] \in Events
    OBVIOUS
  <2>2. [i \in DOMAIN ring |-> RingWorth(ring[i], k, d)] = [i \in 1..Len(ring) |-> W[ring[i]]]
    BY <2>1
  <2>3. QED
    BY <2>1, <2>2 DEF InRing, SumFunction, WorthOf
<1>4. InRing(k, d)' = WorthOf(W, ring')
  <2>1. DOMAIN ring' = 1..Len(ring') /\ \A i \in 1..Len(ring') : ring'[i] \in Events
    OBVIOUS
  <2>2. [i \in DOMAIN ring' |-> RingWorth(ring'[i], k, d)] = [i \in 1..Len(ring') |-> W[ring'[i]]]
    BY <2>1
  <2>3. QED
    BY <2>1, <2>2 DEF InRing, SumFunction, WorthOf
<1> HIDE DEF W
<1>5. InRing(k, d) \in Nat /\ InRing(k, d)' \in Nat
  BY <1>2, <1>3, <1>4, WorthIsNat
<1>6. ASSUME NEW ev \in Events, ring' = Append(ring, ev)
      PROVE  InRing(k, d)' = InRing(k, d) + RingWorth(ev, k, d)
  BY <1>2, <1>3, <1>4, <1>6, WorthOfAppend
<1>7. ASSUME ring # <<>>, ring' = Tail(ring)
      PROVE  InRing(k, d) = RingWorth(Head(ring), k, d) + InRing(k, d)'
  <2>1. Head(ring) \in Events
    BY <1>7
  <2>2. QED
    BY <1>2, <1>3, <1>4, <1>7, <2>1, WorthOfTail
<1>8. QED
  BY <1>1, <1>3, <1>4, <1>5, <1>6, <1>7

(* The opens in the hands of the hooks: one hook's part of them changes    *)
(* the whole by as much.                                                   *)
LEMMA HooksAmount ==
    ASSUME hook \in [Tasks -> Hook], hook' \in [Tasks -> Hook], NEW k, NEW d
    PROVE  /\ InHooks(k, d) \in Nat /\ InHooks(k, d)' \in Nat
           /\ \A t \in Tasks : HookWorth(t, k, d) \in Nat /\ HookWorth(t, k, d)' \in Nat
           /\ \A t \in Tasks :
                (\A u \in Tasks \ {t} : HookWorth(u, k, d)' = HookWorth(u, k, d)) =>
                    InHooks(k, d) + HookWorth(t, k, d)' = InHooks(k, d)' + HookWorth(t, k, d)
           /\ (\A u \in Tasks : HookWorth(u, k, d)' = HookWorth(u, k, d)) =>
                  InHooks(k, d)' = InHooks(k, d)
<1> DEFINE f == [t \in Tasks |-> HookWorth(t, k, d)]
           g == [t \in Tasks |-> HookWorth(t, k, d)']
<1>1. \A t \in Tasks : HookWorth(t, k, d) \in Nat /\ HookWorth(t, k, d)' \in Nat
  BY DEF HookWorth, Hook
<1>2. \A t \in Tasks : /\ f[t] = HookWorth(t, k, d) /\ g[t] = HookWorth(t, k, d)'
                       /\ f[t] \in Nat /\ g[t] \in Nat
  BY <1>1
<1>3. InHooks(k, d) = SumFunctionOnSet(f, Tasks) /\ InHooks(k, d)' = SumFunctionOnSet(g, Tasks)
  BY DEF InHooks, SumFunction
<1> HIDE DEF f, g
<1>4. InHooks(k, d) \in Nat /\ InHooks(k, d)' \in Nat
  BY <1>2, <1>3, SumIsNat
<1>5. ASSUME NEW t \in Tasks, \A u \in Tasks \ {t} : HookWorth(u, k, d)' = HookWorth(u, k, d)
      PROVE  InHooks(k, d) + HookWorth(t, k, d)' = InHooks(k, d)' + HookWorth(t, k, d)
  <2>1. \A u \in Tasks \ {t} : f[u] = g[u]
    BY <1>2, <1>5
  <2>2. SumFunctionOnSet(f, Tasks) + g[t] = SumFunctionOnSet(g, Tasks) + f[t]
    BY <1>2, <2>1, SumChange
  <2>3. QED
    BY <1>2, <1>3, <2>2
<1>6. ASSUME \A u \in Tasks : HookWorth(u, k, d)' = HookWorth(u, k, d)
      PROVE  InHooks(k, d)' = InHooks(k, d)
  <2>1. \A u \in Tasks : f[u] = g[u]
    BY <1>2, <1>6
  <2>2. QED
    BY <1>3, <2>1, SumAgree
<1>7. QED
  BY <1>1, <1>4, <1>5, <1>6

-----------------------------------------------------------------------------
(* Every open is counted once.  By itself the balance is not inductive: it *)
(* needs that the ring buffer is never more than full (a hook that finds   *)
(* it full says so of its burst), and that a hook which starts a burst has *)
(* taken nothing out of the map.                                           *)

RingFits == Len(ring) <= RingCap

FirstFindsNothing == \A t \in Tasks : hook[t].at = "first" => hook[t].seen = 0

\* The two sides of the balance, for the denied or the allowed opens.
Happened(k, d) == IF d THEN truth[k].denied ELSE truth[k].allowed
Recorded(k, d) == IF d THEN history[k].denied ELSE history[k].allowed
Balanced(k, d) == Happened(k, d) = Recorded(k, d) + OnTheWay(k, d)

CamerasBalance ==
    \A k \in BurstKeys \ blurred, d \in BOOLEAN : k[2] = "video" => Balanced(k, d)

OpenInvariant == RingFits /\ FirstFindsNothing /\ CamerasBalance

(* Where the bursts of the cameras balance, every open of one is counted.  *)
LEMMA BalanceOfOpens == CamerasBalance => EveryOpenIsCounted
<1>1. \A k : /\ Balanced(k, TRUE) <=> truth[k].denied = history[k].denied + OnTheWay(k, TRUE)
             /\ Balanced(k, FALSE) <=> truth[k].allowed = history[k].allowed + OnTheWay(k, FALSE)
  BY DEF Balanced, Happened, Recorded
<1>2. TRUE \in BOOLEAN /\ FALSE \in BOOLEAN
  OBVIOUS
<1>3. QED
  BY <1>1, <1>2 DEF EveryOpenIsCounted, CamerasBalance

(* The amounts are numbers.                                                *)
LEMMA AmountsAreNumbers ==
    ASSUME PathTypes, PathTypes', NEW k \in BurstKeys, NEW d \in BOOLEAN
    PROVE  /\ Happened(k, d) \in Nat /\ Happened(k, d)' \in Nat
           /\ Recorded(k, d) \in Nat /\ Recorded(k, d)' \in Nat
           /\ InMap(k, d) \in Nat /\ InMap(k, d)' \in Nat
           /\ InHooks(k, d) \in Nat /\ InHooks(k, d)' \in Nat
           /\ InRing(k, d) \in Nat /\ InRing(k, d)' \in Nat
           /\ InQueue(pipe, k, d) \in Nat /\ InQueue(pipe, k, d)' \in Nat
           /\ InQueue(out, k, d) \in Nat /\ InQueue(out, k, d)' \in Nat
<1>1. Happened(k, d) \in Nat /\ Happened(k, d)' \in Nat
  BY DEF Happened, PathTypes, TypeOKPath, TypeOK
<1>2. Recorded(k, d) \in Nat /\ Recorded(k, d)' \in Nat
  BY DEF Recorded, PathTypes, TypeOKPath
<1>3. InMap(k, d) \in Nat /\ InMap(k, d)' \in Nat
  BY DEF InMap, PathTypes, TypeOKPath, TypeOK
<1>4. InHooks(k, d) \in Nat /\ InHooks(k, d)' \in Nat
  BY HooksAmount DEF PathTypes, TypeOKPath, TypeOK, Hook
<1>5. InRing(k, d) \in Nat /\ InRing(k, d)' \in Nat
  BY RingAmount DEF PathTypes, TypeOKPath, TypeOK
<1>6. /\ InQueue(pipe, k, d) \in Nat /\ InQueue(out, k, d) \in Nat
      /\ InQueue(pipe', k, d) \in Nat /\ InQueue(out', k, d) \in Nat
  BY QueueAmount DEF PathTypes, TypeOKPath
<1>7. InQueue(pipe, k, d)' = InQueue(pipe', k, d) /\ InQueue(out, k, d)' = InQueue(out', k, d)
  BY DEF InQueue, QueueWorth
<1>8. QED
  BY <1>1, <1>2, <1>3, <1>4, <1>5, <1>6, <1>7

\* A hook that goes on with what it has taken, or never had anything.
Still(u) ==
    \/ /\ hook'[u].at = hook[u].at /\ hook'[u].exe = hook[u].exe /\ hook'[u].file = hook[u].file
       /\ hook'[u].ok = hook[u].ok /\ hook'[u].seen = hook[u].seen
    \/ /\ hook[u].at # "report" /\ hook'[u].at # "report"
       /\ hook'[u].at = "first" => hook'[u].seen = 0

(* A hook that is still holds what it held.                                *)
LEMMA StillHolds ==
    ASSUME NEW u \in Tasks, Still(u)
    PROVE  /\ \A k, d : HookWorth(u, k, d)' = HookWorth(u, k, d)
           /\ FirstFindsNothing /\ hook'[u].at = "first" => hook'[u].seen = 0
BY DEF Still, HookWorth, Key, ClassOf, FirstFindsNothing

(* Hooks that are all still hold together what they held.                  *)
LEMMA AllStill ==
    ASSUME PathTypes, PathTypes', \A u \in Tasks : Still(u), NEW k, NEW d
    PROVE  InHooks(k, d)' = InHooks(k, d)
<1>1. hook \in [Tasks -> Hook] /\ hook' \in [Tasks -> Hook]
  BY DEF PathTypes, TypeOKPath, TypeOK, Hook
<1>2. \A u \in Tasks : HookWorth(u, k, d)' = HookWorth(u, k, d)
  BY StillHolds
<1>3. QED
  BY <1>1, <1>2, HooksAmount

(* Hooks whose pointers become stale are still.                            *)
LEMMA StaledStill ==
    ASSUME TypeInvariant, NEW users, NEW u \in Tasks, hook'[u] = Staled(users)[u]
    PROVE  Still(u)
BY StaledType DEF Still

(* The steps of a hook that have nothing to do with bursts.                *)
LEMMA OtherHooksStill ==
    ASSUME TypeInvariant, NEW t \in Tasks,
           HookStep(t), ~Swallow(t), ~TakeBurst(t), ~FirstBurst(t), ~Report(t)
    PROVE  \A u \in Tasks : Still(u)
<1>1. hook \in [Tasks -> Hook]
  BY DEF TypeInvariant, TypeOK, Hook
<1>2. ASSUME NEW h, hook' = [hook EXCEPT ![t] = h], hook[t].at # "report", h.at # "report",
             h.at = "first" => h.seen = 0
      PROVE  \A u \in Tasks : Still(u)
  BY <1>1, <1>2 DEF Still
<1>3. ASSUME NEW a, a # "report", a # "first", hook[t].at # "report",
             \/ hook' = [hook EXCEPT ![t].at = a]
             \/ hook' = [hook EXCEPT ![t].at = a, ![t].fresh = TRUE]
      PROVE  \A u \in Tasks : Still(u)
  <2>1. hook'[t].at = a /\ \A u \in Tasks \ {t} : hook'[u] = hook[u]
    BY <1>1, <1>3 DEF Hook
  <2>2. QED
    BY <1>3, <2>1 DEF Still
<1>4. ASSUME hook[t].at # "report",
             hook' = [hook EXCEPT ![t] = ToWindow(hook[t])] \/ hook' = [hook EXCEPT ![t] = Resting]
      PROVE  \A u \in Tasks : Still(u)
  <2>1. ToWindow(hook[t]).at = "window" /\ Resting.at = "rest"
    BY <1>1 DEF ToWindow, Hook, Resting
  <2>2. QED
    BY <1>2, <1>4, <2>1
<1>5. CASE Track(t) \/ CountLookup(t) \/ CountAdd(t)
  <2>1. \/ hook' = [hook EXCEPT ![t].at = "lookup"]
        \/ hook' = [hook EXCEPT ![t].at = "one", ![t].fresh = TRUE]
        \/ hook' = [hook EXCEPT ![t].at = "add", ![t].fresh = TRUE]
        \/ hook' = [hook EXCEPT ![t] = ToWindow(hook[t])]
    BY <1>5 DEF Track, CountLookup, CountAdd, MoveTo
  <2>2. hook[t].at # "report"
    BY <1>5 DEF Track, CountLookup, CountAdd
  <2>3. QED
    BY <1>3, <1>4, <2>1, <2>2
<1>6. CASE ReleaseLookup(t) \/ ReleaseDecrement(t) \/ ReleaseRecheck(t) \/ ReleaseReport(t)
  <2>1. \/ hook' = [hook EXCEPT ![t].at = "dec", ![t].fresh = TRUE]
        \/ hook' = [hook EXCEPT ![t].at = "recheck"]
        \/ hook' = [hook EXCEPT ![t].at = "forget"]
        \/ hook' = [hook EXCEPT ![t] = Resting]
    BY <1>6 DEF ReleaseLookup, ReleaseDecrement, ReleaseRecheck, ReleaseReport, MoveTo, Leave
  <2>2. hook[t].at # "report"
    BY <1>6 DEF ReleaseLookup, ReleaseDecrement, ReleaseRecheck, ReleaseReport
  <2>3. QED
    BY <1>3, <1>4, <2>1, <2>2
<1>7. CASE CoalesceLookup(t)
  <2> DEFINE b == bursts[Key(t)]
             step == IF b = NoBurst THEN "first"
                     ELSE IF InWindow(hook[t].time, b.last) THEN "swallow" ELSE "reset"
             h == [hook[t] EXCEPT !.at = step, !.fresh = TRUE, !.seen = b.suppressed]
  <2>1. hook' = [hook EXCEPT ![t] = h] /\ hook[t].at = "window"
    BY <1>1, <1>7 DEF CoalesceLookup, Hook
  <2>2. h.at = step /\ h.seen = b.suppressed
    BY <1>1 DEF Hook
  <2>3. step # "report" /\ (step = "first" => b.suppressed = 0)
    BY DEF NoBurst
  <2> HIDE DEF h, step
  <2>4. QED
    BY <1>2, <2>1, <2>2, <2>3
<1>8. ASSUME NEW users, NEW h, hook' = [Staled(users) EXCEPT ![t] = h], hook[t].at # "report",
             h.at # "report", h.at # "first"
      PROVE  \A u \in Tasks : Still(u)
  <2>1. hook'[t] = h /\ \A u \in Tasks \ {t} : hook'[u] = Staled(users)[u]
    BY <1>8 DEF Staled
  <2>2. Still(t)
    BY <1>8, <2>1 DEF Still
  <2>3. QED
    BY <2>1, <2>2, StaledStill
<1>9. CASE CountOne(t)
  <2>1. ToWindow(hook[t]).at = "window"
    BY <1>1 DEF ToWindow, Hook
  <2>2. QED
    BY <1>8, <1>9, <2>1 DEF CountOne
<1>10. CASE ReleaseForget(t)
  <2> DEFINE users == CountPointers(hook[t].exe)
             h == [Staled(users)[t] EXCEPT !.at = "released"]
  <2>1. hook' = [Staled(users) EXCEPT ![t] = h] /\ hook[t].at = "forget"
    BY <1>10 DEF ReleaseForget
  <2>2. h.at = "released"
    BY StaledType DEF Hook
  <2> HIDE DEF h, users
  <2>3. QED
    BY <1>8, <2>1, <2>2
<1>11. QED
  BY <1>5, <1>6, <1>7, <1>9, <1>10 DEF HookStep

(* A step that moves nothing of a burst keeps its balance.                 *)
LEMMA SameBalance ==
    ASSUME NEW k, NEW d, Balanced(k, d),
           truth'[k] = truth[k], history'[k] = history[k], bursts'[k] = bursts[k],
           InHooks(k, d)' = InHooks(k, d), InRing(k, d)' = InRing(k, d),
           InQueue(pipe, k, d)' = InQueue(pipe, k, d), InQueue(out, k, d)' = InQueue(out, k, d)
    PROVE  Balanced(k, d)'
<1>1. /\ Happened(k, d)' = Happened(k, d) /\ Recorded(k, d)' = Recorded(k, d)
      /\ InMap(k, d)' = InMap(k, d)
  BY DEF Happened, Recorded, InMap
<1>2. OnTheWay(k, d)' = OnTheWay(k, d)
  BY <1>1 DEF OnTheWay
<1>3. QED
  BY <1>1, <1>2 DEF Balanced

(* A queue that is left alone has what it had.                             *)
LEMMA SameQueues ==
    ASSUME NEW k, NEW d
    PROVE  /\ UNCHANGED pipe => InQueue(pipe, k, d)' = InQueue(pipe, k, d)
           /\ UNCHANGED out => InQueue(out, k, d)' = InQueue(out, k, d)
           /\ UNCHANGED ring => InRing(k, d)' = InRing(k, d)
BY DEF InQueue, InRing, QueueWorth, RingWorth

(* What the end of an open adds to the opens that took place.              *)
LEMMA FinishHappened ==
    ASSUME PathTypes, NEW t \in Tasks, hook[t].at # "rest", Finish(t),
           NEW k \in BurstKeys, NEW d \in BOOLEAN
    PROVE  /\ k # Key(t) => truth'[k] = truth[k]
           /\ Happened(k, d)' = Happened(k, d) + (IF k = Key(t) /\ hook[t].ok = ~d THEN 1 ELSE 0)
<1>1. /\ truth \in [BurstKeys -> [denied : Nat, allowed : Nat]]
      /\ hook[t].ok \in BOOLEAN /\ Key(t) \in BurstKeys
  BY KeyType DEF PathTypes, TypeOKPath, TypeOK, TypeInvariant
<1>2. CASE hook[t].ok
  <2>1. truth' = [truth EXCEPT ![Key(t)] = [truth[Key(t)] EXCEPT !.allowed = @ + 1]]
    BY <1>2 DEF Finish
  <2>2. hook[t].ok = ~d <=> ~d
    BY <1>2, <1>1
  <2>3. QED
    BY <1>1, <2>1, <2>2 DEF Happened
<1>3. CASE ~hook[t].ok
  <2>1. truth' = [truth EXCEPT ![Key(t)] = [truth[Key(t)] EXCEPT !.denied = @ + 1]]
    BY <1>3 DEF Finish
  <2>2. hook[t].ok = ~d <=> d
    BY <1>3, <1>1
  <2>3. QED
    BY <1>1, <2>1, <2>2 DEF Happened
<1>4. QED
  BY <1>2, <1>3

(* A hook that ends leaves with nothing.                                   *)
LEMMA FinishHands ==
    ASSUME PathTypes, NEW t \in Tasks, Finish(t)
    PROVE  /\ hook'[t].at = "rest" /\ \A k, d : HookWorth(t, k, d)' = 0
           /\ \A u \in Tasks \ {t} : hook'[u] = hook[u] /\ Still(u)
<1>1. hook' = [hook EXCEPT ![t] = Resting] /\ hook \in [Tasks -> Hook] /\ Resting.at = "rest"
  BY DEF Finish, Leave, PathTypes, TypeOKPath, TypeOK, Hook, Resting
<1>2. hook'[t].at = "rest" /\ \A u \in Tasks \ {t} : hook'[u] = hook[u]
  BY <1>1
<1>3. QED
  BY <1>2 DEF Still, HookWorth

(* An open that is swallowed is in the map from then on.                   *)
LEMMA SwallowBalance ==
    ASSUME PathTypes, PathTypes', NEW t \in Tasks, Swallow(t), UNCHANGED pathVars,
           NEW k \in BurstKeys \ blurred', NEW d \in BOOLEAN, Balanced(k, d)
    PROVE  Balanced(k, d)'
<1>1. /\ Finish(t) /\ hook[t].at = "swallow" /\ UNCHANGED ring
      /\ UNCHANGED <<history, pipe, out>>
  BY DEF Swallow, pathVars, helperVars, linkVars, daemonVars, countVars
<1>2. \A u \in Tasks : Still(u)
  BY <1>1, FinishHands DEF Still
<1>3. /\ InHooks(k, d)' = InHooks(k, d) /\ InRing(k, d)' = InRing(k, d)
      /\ InQueue(pipe, k, d)' = InQueue(pipe, k, d) /\ InQueue(out, k, d)' = InQueue(out, k, d)
  BY <1>1, <1>2, AllStill, SameQueues
<1>4. /\ bursts \in [BurstKeys -> [last : Int, suppressed : Nat, denied : BOOLEAN]]
      /\ hook[t].ok \in BOOLEAN
  BY DEF PathTypes, TypeOKPath, TypeOK
<1>5. CASE k # Key(t)
  <2>1. bursts'[k] = bursts[k] /\ truth'[k] = truth[k]
    BY <1>1, <1>4, <1>5, FinishHappened DEF Swallow
  <2>2. QED
    BY <1>1, <1>3, <2>1, SameBalance
<1>6. CASE k = Key(t)
  <2>1. hook[t].fresh /\ bursts[k].denied = ~hook[t].ok
    BY <1>6 DEF Swallow, Blur
  <2>2. bursts' = [bursts EXCEPT ![k] = [bursts[k] EXCEPT !.suppressed = @ + 1]]
    BY <1>6, <2>1 DEF Swallow
  <2>3. bursts'[k].suppressed = bursts[k].suppressed + 1 /\ bursts'[k].denied = bursts[k].denied
    BY <1>4, <2>2
  <2>4. bursts[k].denied = d <=> hook[t].ok = ~d
    BY <1>4, <2>1
  <2>5. Happened(k, d)' = Happened(k, d) + (IF bursts[k].denied = d THEN 1 ELSE 0)
    BY <1>1, <1>6, <2>4, FinishHappened
  <2>6. InMap(k, d)' = InMap(k, d) + (IF bursts[k].denied = d THEN 1 ELSE 0)
    BY <1>4, <2>3 DEF InMap
  <2>7. Recorded(k, d)' = Recorded(k, d)
    BY <1>1 DEF Recorded
  <2>8. QED
    BY <1>3, <2>5, <2>6, <2>7, AmountsAreNumbers DEF Balanced, OnTheWay
<1>7. QED
  BY <1>5, <1>6

(* What a hook takes out of the map it has in its hands.                   *)
LEMMA TakeBalance ==
    ASSUME PathTypes, PathTypes', NEW t \in Tasks, TakeBurst(t), UNCHANGED pathVars,
           NEW k \in BurstKeys \ blurred', NEW d \in BOOLEAN, Balanced(k, d)
    PROVE  Balanced(k, d)'
<1>1. /\ hook[t].at = "reset" /\ UNCHANGED <<ring, truth>> /\ UNCHANGED <<history, pipe, out>>
  BY DEF TakeBurst, pathVars, helperVars, linkVars, daemonVars, countVars
<1>2. /\ hook \in [Tasks -> Hook] /\ hook' \in [Tasks -> Hook]
      /\ bursts \in [BurstKeys -> [last : Int, suppressed : Nat, denied : BOOLEAN]]
      /\ hook[t].ok \in BOOLEAN /\ hook[t].seen \in Nat
  BY DEF PathTypes, TypeOKPath, TypeOK, Hook
<1>3. /\ hook' = [hook EXCEPT ![t] = [hook[t] EXCEPT !.at = "report"]]
      /\ hook'[t].at = "report" /\ hook'[t].exe = hook[t].exe /\ hook'[t].file = hook[t].file
      /\ hook'[t].ok = hook[t].ok /\ hook'[t].seen = hook[t].seen
      /\ \A u \in Tasks \ {t} : hook'[u] = hook[u]
  BY <1>2 DEF TakeBurst, MoveTo, Hook
<1>4. /\ InRing(k, d)' = InRing(k, d)
      /\ InQueue(pipe, k, d)' = InQueue(pipe, k, d) /\ InQueue(out, k, d)' = InQueue(out, k, d)
  BY <1>1, SameQueues
<1>5. \A u \in Tasks \ {t} : HookWorth(u, k, d)' = HookWorth(u, k, d)
  BY <1>3, StillHolds DEF Still
<1>6. /\ HookWorth(t, k, d) = 0
      /\ HookWorth(t, k, d)' = IF k = Key(t) /\ hook[t].ok = ~d THEN hook[t].seen ELSE 0
  BY <1>1, <1>3 DEF HookWorth, Key, ClassOf
<1>7. InHooks(k, d) + HookWorth(t, k, d)' = InHooks(k, d)' + HookWorth(t, k, d)
  BY <1>2, <1>5, HooksAmount
<1>8. CASE k # Key(t)
  <2>1. bursts'[k] = bursts[k] /\ truth'[k] = truth[k]
    BY <1>1, <1>2, <1>8 DEF TakeBurst
  <2>2. InHooks(k, d)' = InHooks(k, d)
    BY <1>6, <1>7, <1>8, AmountsAreNumbers
  <2>3. QED
    BY <1>1, <1>4, <2>1, <2>2, SameBalance
<1>9. CASE k = Key(t)
  <2>1. /\ hook[t].fresh /\ bursts[k].suppressed = hook[t].seen
        /\ hook[t].seen > 0 => bursts[k].denied = ~hook[t].ok
    BY <1>9 DEF TakeBurst, Blur
  <2>2. bursts' = [bursts EXCEPT ![k] = [last |-> hook[t].time, suppressed |-> 0,
                                         denied |-> ~hook[t].ok]]
    BY <1>9, <2>1 DEF TakeBurst
  <2>3. bursts'[k].suppressed = 0
    BY <1>2, <2>2
  <2>4. InMap(k, d)' = 0
    BY <2>3 DEF InMap
  <2>5. hook[t].seen > 0 => (bursts[k].denied = d <=> hook[t].ok = ~d)
    BY <1>2, <2>1
  <2>6. InMap(k, d) = HookWorth(t, k, d)'
    BY <1>2, <1>6, <1>9, <2>1, <2>5 DEF InMap
  <2>7. Recorded(k, d)' = Recorded(k, d) /\ Happened(k, d)' = Happened(k, d)
    BY <1>1 DEF Recorded, Happened
  <2>8. QED
    BY <1>4, <1>6, <1>7, <2>4, <2>6, <2>7, AmountsAreNumbers DEF Balanced, OnTheWay
<1>10. QED
  BY <1>8, <1>9

(* A hook that starts a burst takes nothing.                               *)
LEMMA FirstBalance ==
    ASSUME PathTypes, PathTypes', FirstFindsNothing,
           NEW t \in Tasks, FirstBurst(t), UNCHANGED pathVars,
           NEW k \in BurstKeys \ blurred', NEW d \in BOOLEAN, Balanced(k, d)
    PROVE  Balanced(k, d)'
<1>1. /\ hook[t].at = "first" /\ UNCHANGED <<ring, truth>> /\ UNCHANGED <<history, pipe, out>>
  BY DEF FirstBurst, pathVars, helperVars, linkVars, daemonVars, countVars
<1>2. /\ hook \in [Tasks -> Hook] /\ hook' \in [Tasks -> Hook]
      /\ bursts \in [BurstKeys -> [last : Int, suppressed : Nat, denied : BOOLEAN]]
      /\ TypeInvariant
  BY DEF PathTypes, TypeOKPath, TypeOK, Hook, TypeInvariant
<1>3. /\ hook'[t].seen = hook[t].seen
      /\ \A u \in Tasks \ {t} : Still(u)
  <2> DEFINE S == Staled(BurstPointers(Key(t)))
  <2>1. hook' = [S EXCEPT ![t].at = "report"] /\ S \in [Tasks -> Hook] /\ S[t].seen = hook[t].seen
    BY <1>2, StaledType DEF FirstBurst
  <2> HIDE DEF S
  <2>2. hook'[t].seen = hook[t].seen /\ \A u \in Tasks \ {t} : hook'[u] = S[u]
    BY <2>1 DEF Hook
  <2>3. QED
    BY <1>2, <2>2, StaledStill DEF S
<1>4. hook[t].seen = 0 /\ hook'[t].seen = 0
  BY <1>1, <1>3 DEF FirstFindsNothing
<1>5. \A u \in Tasks : HookWorth(u, k, d)' = HookWorth(u, k, d)
  <2>1. HookWorth(t, k, d) = 0 /\ HookWorth(t, k, d)' = 0
    BY <1>4 DEF HookWorth
  <2>2. QED
    BY <1>3, <2>1, StillHolds
<1>6. /\ InHooks(k, d)' = InHooks(k, d) /\ InRing(k, d)' = InRing(k, d)
      /\ InQueue(pipe, k, d)' = InQueue(pipe, k, d) /\ InQueue(out, k, d)' = InQueue(out, k, d)
  BY <1>1, <1>2, <1>5, HooksAmount, SameQueues
<1>7. bursts' = [bursts EXCEPT ![Key(t)] = [last |-> hook[t].time, suppressed |-> 0,
                                            denied |-> ~hook[t].ok]]
  BY DEF FirstBurst
<1>8. CASE k # Key(t)
  <2>1. bursts'[k] = bursts[k]
    BY <1>2, <1>7, <1>8
  <2>2. QED
    BY <1>1, <1>6, <2>1, SameBalance
<1>9. CASE k = Key(t)
  <2>1. bursts[k].suppressed = 0
    BY <1>2, <1>9 DEF FirstBurst, Blur
  <2>2. bursts'[k].suppressed = 0
    BY <1>2, <1>7, <1>9
  <2>3. InMap(k, d)' = InMap(k, d)
    BY <2>1, <2>2 DEF InMap
  <2>4. Recorded(k, d)' = Recorded(k, d) /\ Happened(k, d)' = Happened(k, d)
    BY <1>1 DEF Recorded, Happened
  <2>5. QED
    BY <1>6, <2>3, <2>4 DEF Balanced, OnTheWay
<1>10. QED
  BY <1>8, <1>9

(* A hook that reports puts its own open and what it took into the ring.   *)
LEMMA ReportBalance ==
    ASSUME PathTypes, PathTypes', RingFits,
           NEW t \in Tasks, Report(t), UNCHANGED pathVars,
           NEW k \in BurstKeys \ blurred', NEW d \in BOOLEAN, Balanced(k, d)
    PROVE  Balanced(k, d)'
<1> DEFINE ev == [kind |-> "open", exe |-> hook[t].exe, node |-> KindOf[hook[t].file],
                  denied |-> ~hook[t].ok, extra |-> hook[t].seen]
<1>1. /\ hook[t].at = "report" /\ Finish(t) /\ Emit(ev) /\ UNCHANGED bursts
      /\ UNCHANGED <<history, pipe, out>>
  BY DEF Report, pathVars, helperVars, linkVars, daemonVars, countVars
<1>2. /\ hook \in [Tasks -> Hook] /\ hook' \in [Tasks -> Hook]
      /\ ring \in Seq(Events) /\ ring' \in Seq(Events)
      /\ hook[t].ok \in BOOLEAN /\ hook[t].seen \in Nat
      /\ hook[t].exe \in Exes /\ hook[t].file \in Files
  BY <1>1 DEF PathTypes, TypeOKPath, TypeOK, Hook, HookBusy
<1>3. ev \in Events
  <2>1. (~hook[t].ok) \in BOOLEAN
    OBVIOUS
  <2>2. KindOf[hook[t].file] \in {"camera", "capture", "playback"}
    BY <1>2, GateAssumption
  <2>3. QED
    BY <1>2, <2>1, <2>2 DEF Events
<1>4. RingWorth(ev, k, d) = IF k = Key(t) /\ hook[t].ok = ~d THEN 1 + hook[t].seen ELSE 0
  <2>1. RingKey(ev) = Key(t)
    BY DEF RingKey, Key, ClassOf
  <2>2. ev.denied = d <=> hook[t].ok = ~d
    <3>1. ev.denied = ~hook[t].ok
      OBVIOUS
    <3> HIDE DEF ev
    <3>2. QED
      BY <1>2, <3>1
  <2>3. ev.kind = "open" /\ ev.extra = hook[t].seen
    OBVIOUS
  <2> HIDE DEF ev
  <2>4. QED
    BY <2>1, <2>2, <2>3 DEF RingWorth
<1> HIDE DEF ev
<1>5. /\ InQueue(pipe, k, d)' = InQueue(pipe, k, d) /\ InQueue(out, k, d)' = InQueue(out, k, d)
      /\ InMap(k, d)' = InMap(k, d) /\ Recorded(k, d)' = Recorded(k, d)
  BY <1>1, SameQueues DEF InMap, Recorded
<1>6. Happened(k, d)' = Happened(k, d) + (IF k = Key(t) /\ hook[t].ok = ~d THEN 1 ELSE 0)
  BY <1>1, FinishHappened
<1>7. InHooks(k, d) + HookWorth(t, k, d)' = InHooks(k, d)' + HookWorth(t, k, d)
  <2>1. \A u \in Tasks \ {t} : HookWorth(u, k, d)' = HookWorth(u, k, d)
    BY <1>1, FinishHands, StillHolds
  <2>2. QED
    BY <1>2, <2>1, HooksAmount
<1>8. /\ HookWorth(t, k, d)' = 0
      /\ HookWorth(t, k, d) = IF k = Key(t) /\ hook[t].ok = ~d THEN hook[t].seen ELSE 0
  BY <1>1, FinishHands DEF HookWorth
<1>9. CASE Len(ring) < RingCap
  <2>1. InRing(k, d)' = InRing(k, d) + RingWorth(ev, k, d)
    BY <1>1, <1>2, <1>3, <1>9, RingAmount DEF Emit
  <2>2. CASE k = Key(t) /\ hook[t].ok = ~d
    <3>1. /\ Happened(k, d)' = Happened(k, d) + 1
          /\ InRing(k, d)' = InRing(k, d) + (1 + hook[t].seen)
          /\ InHooks(k, d) = InHooks(k, d)' + hook[t].seen
      BY <1>4, <1>6, <1>7, <1>8, <2>1, <2>2, AmountsAreNumbers
    <3>2. hook[t].seen \in Nat
      BY <1>2
    <3>3. Happened(k, d) = Recorded(k, d) + OnTheWay(k, d)
      BY DEF Balanced
    <3>4. Happened(k, d)' = Recorded(k, d)' + OnTheWay(k, d)'
      BY <1>5, <3>1, <3>2, <3>3, AmountsAreNumbers DEF OnTheWay
    <3>5. QED
      BY <3>4 DEF Balanced
  <2>3. CASE ~(k = Key(t) /\ hook[t].ok = ~d)
    <3>1. /\ Happened(k, d)' = Happened(k, d)
          /\ InRing(k, d)' = InRing(k, d) /\ InHooks(k, d) = InHooks(k, d)'
      BY <1>4, <1>6, <1>7, <1>8, <2>1, <2>3, AmountsAreNumbers
    <3>2. QED
      BY <1>5, <3>1, AmountsAreNumbers DEF Balanced, OnTheWay
  <2>4. QED
    BY <2>2, <2>3
<1>10. CASE ~(Len(ring) < RingCap)
  <2>1. Len(ring) = RingCap /\ ring' = ring
    BY <1>1, <1>2, <1>10, GateAssumption DEF RingFits, Emit
  <2>2. k # Key(t)
    BY <2>1 DEF Report, Blur
  <2>3. InRing(k, d)' = InRing(k, d)
    BY <2>1, SameQueues
  <2>4. QED
    BY <1>5, <1>6, <1>7, <1>8, <2>2, <2>3, AmountsAreNumbers DEF Balanced, OnTheWay
<1>11. QED
  BY <1>9, <1>10

(* The steps of the gate that have nothing to do with bursts.              *)
LEMMA OtherGateSteps ==
    ASSUME PathTypes, GateNext,
           \A t \in Tasks : ~Swallow(t) /\ ~TakeBurst(t) /\ ~FirstBurst(t) /\ ~Report(t)
    PROVE  /\ \A u \in Tasks : Still(u)
           /\ UNCHANGED <<bursts, truth>>
           /\ \/ UNCHANGED ring
              \/ \E ev \in Events : /\ ev.kind = "release" /\ Len(ring) < RingCap
                                    /\ ring' = Append(ring, ev)
<1>1. hook \in [Tasks -> Hook] /\ TypeInvariant
  BY DEF PathTypes, TypeOKPath, TypeOK, TypeInvariant, Hook
<1>2. ASSUME NEW t \in Tasks, NEW h, hook' = [hook EXCEPT ![t] = h], hook[t].at # "report",
             h.at # "report", h.at # "first"
      PROVE  \A u \in Tasks : Still(u)
  BY <1>1, <1>2 DEF Still
<1>3. ASSUME NEW t \in Tasks, NEW e \in Exes, NEW f \in Files, OpenVerdict(t, e, f)
      PROVE  (\A u \in Tasks : Still(u)) /\ UNCHANGED <<bursts, truth, ring>>
  <2> DEFINE h == [Resting EXCEPT !.exe = e, !.file = f, !.ok = Permitted(e, f)]
  <2>1. [h EXCEPT !.at = "track"].at = "track" /\ ToWindow(h).at = "window"
    BY DEF Resting, ToWindow
  <2>2. hook' = [hook EXCEPT ![t] = [h EXCEPT !.at = "track"]] \/ hook' = [hook EXCEPT ![t] = ToWindow(h)]
    BY <1>3 DEF OpenVerdict
  <2>3. hook[t].at = "rest" /\ UNCHANGED <<bursts, truth, ring>>
    BY <1>3 DEF OpenVerdict
  <2> HIDE DEF h
  <2>4. QED
    BY <1>2, <2>1, <2>2, <2>3
<1>4. ASSUME NEW t \in Tasks, NEW f \in Files, Close(t, f)
      PROVE  (\A u \in Tasks : Still(u)) /\ UNCHANGED <<bursts, truth, ring>>
  <2> DEFINE h == [Resting EXCEPT !.at = "found", !.file = f, !.exe = openFiles[f]]
  <2>1. h.at = "found"
    BY DEF Resting
  <2>2. hook' = [hook EXCEPT ![t] = h] \/ UNCHANGED hook
    BY <1>4 DEF Close
  <2>3. hook[t].at = "rest" /\ UNCHANGED <<bursts, truth, ring>>
    BY <1>4 DEF Close
  <2> HIDE DEF h
  <2>4. QED
    BY <1>2, <2>1, <2>2, <2>3 DEF Still
<1>5. ASSUME NEW t \in Tasks, HookStep(t)
      PROVE  (\A u \in Tasks : Still(u)) /\ UNCHANGED <<bursts, truth>>
  <2>1. \A u \in Tasks : Still(u)
    BY <1>1, <1>5, OtherHooksStill
  <2>2. UNCHANGED <<bursts, truth>>
    BY <1>5 DEF HookStep, Track, CountLookup, CountAdd, CountOne, CoalesceLookup, ReleaseLookup,
                ReleaseDecrement, ReleaseRecheck, ReleaseForget, ReleaseReport
  <2>3. QED
    BY <2>1, <2>2
<1>6. ASSUME NEW t \in Tasks, HookStep(t), ~ReleaseReport(t)
      PROVE  UNCHANGED ring
  BY <1>6 DEF HookStep, Track, CountLookup, CountAdd, CountOne, CoalesceLookup, ReleaseLookup,
              ReleaseDecrement, ReleaseRecheck, ReleaseForget
<1>7. ASSUME NEW t \in Tasks, ReleaseReport(t)
      PROVE  \/ UNCHANGED ring
             \/ \E ev \in Events : /\ ev.kind = "release" /\ Len(ring) < RingCap
                                   /\ ring' = Append(ring, ev)
  <2> DEFINE ev == [kind |-> "release", exe |-> hook[t].exe, node |-> "camera",
                    denied |-> FALSE, extra |-> 0]
  <2>1. hook[t].exe \in Exes
    BY <1>7 DEF ReleaseReport, PathTypes, HookBusy
  <2>2. ev \in Events /\ ev.kind = "release"
    BY <2>1 DEF Events
  <2>3. Emit(ev)
    BY <1>7 DEF ReleaseReport
  <2> HIDE DEF ev
  <2>4. QED
    BY <2>2, <2>3 DEF Emit
<1>8. CASE UNCHANGED <<hook, bursts, truth, ring>>
  BY <1>8 DEF Still
<1>9. ASSUME NEW t \in Tasks, HookStep(t)
      PROVE  \/ UNCHANGED ring
             \/ \E ev \in Events : /\ ev.kind = "release" /\ Len(ring) < RingCap
                                   /\ ring' = Append(ring, ev)
  BY <1>6, <1>7, <1>9
<1>10. CASE \E t \in Tasks : HookStep(t)
  BY <1>5, <1>9, <1>10
<1>11. CASE \/ \E t \in Tasks, e \in Exes, f \in Files : OpenVerdict(t, e, f)
            \/ \E t \in Tasks, f \in Files : Close(t, f)
  BY <1>3, <1>4, <1>11
<1>12. CASE \/ \E e \in Exes, classes \in SUBSET Classes : Regrant(e, classes)
            \/ \E classes \in SUBSET Classes : Reenforce(classes)
            \/ Tick
  BY <1>8, <1>12 DEF Regrant, Reenforce, Tick
<1>13. QED
  BY <1>10, <1>11, <1>12 DEF GateNext

(* Every step of the gate keeps the balance of a burst it does not blur.   *)
LEMMA GateBalance ==
    ASSUME PathTypes, PathTypes', RingFits, FirstFindsNothing, GateStep,
           NEW k \in BurstKeys \ blurred', NEW d \in BOOLEAN, Balanced(k, d)
    PROVE  Balanced(k, d)'
<1>1. UNCHANGED pathVars /\ GateNext
  BY GateStepIsTheGates
<1>2. CASE \E t \in Tasks : Swallow(t) \/ TakeBurst(t) \/ FirstBurst(t) \/ Report(t)
  BY <1>1, <1>2, SwallowBalance, TakeBalance, FirstBalance, ReportBalance
<1>3. CASE \A t \in Tasks : ~Swallow(t) /\ ~TakeBurst(t) /\ ~FirstBurst(t) /\ ~Report(t)
  <2>1. /\ \A u \in Tasks : Still(u)
        /\ UNCHANGED <<bursts, truth>>
        /\ UNCHANGED ring \/ \E ev \in Events : ev.kind = "release" /\ ring' = Append(ring, ev)
    BY <1>1, <1>3, OtherGateSteps
  <2>2. InRing(k, d)' = InRing(k, d)
    <3>1. CASE UNCHANGED ring
      BY <3>1, SameQueues
    <3>2. ASSUME NEW ev \in Events, ev.kind = "release", ring' = Append(ring, ev)
          PROVE  InRing(k, d)' = InRing(k, d)
      <4>1. ring \in Seq(Events) /\ ring' \in Seq(Events)
        BY DEF PathTypes, TypeOKPath, TypeOK
      <4>2. InRing(k, d)' = InRing(k, d) + RingWorth(ev, k, d) /\ InRing(k, d) \in Nat
        BY <3>2, <4>1, RingAmount
      <4>3. RingWorth(ev, k, d) = 0
        BY <3>2 DEF RingWorth
      <4>4. QED
        BY <4>2, <4>3
    <3>3. QED
      BY <2>1, <3>1, <3>2
  <2>3. UNCHANGED <<history, pipe, out>>
    BY <1>1 DEF pathVars, helperVars, linkVars, daemonVars, countVars
  <2>4. QED
    BY <2>1, <2>2, <2>3, AllStill, SameQueues, SameBalance
<1>4. QED
  BY <1>2, <1>3

(* What the helper makes of an event is worth, to the burst of a camera,   *)
(* what the event is worth; and what it drops is worth nothing.            *)
LEMMA MessageOfEvent ==
    ASSUME NEW ev \in Events, NEW k, NEW d, k[2] = "video"
    PROVE  /\ QueueWorth(MessageOf(ev), k, d) = RingWorth(ev, k, d)
           /\ ~IsCapture(ev.node) => RingWorth(ev, k, d) = 0
<1>1. ev.node \in {"camera", "capture", "playback"} /\ ev.kind \in {"open", "release"}
  BY DEF Events
<1>2. KeyOf(MessageOf(ev)) = RingKey(ev)
  BY DEF KeyOf, MessageOf, RoleOf, RingKey
<1>3. /\ MessageOf(ev).kind = ev.kind /\ MessageOf(ev).denied = ev.denied
      /\ MessageOf(ev).extra = ev.extra
  BY DEF MessageOf
<1>4. QueueWorth(MessageOf(ev), k, d) = RingWorth(ev, k, d)
  BY <1>1, <1>2, <1>3 DEF QueueWorth, RingWorth, Worth
<1>5. ~IsCapture(ev.node) => RingKey(ev)[2] = "sound"
  BY DEF IsCapture, RingKey
<1>6. QED
  BY <1>4, <1>5 DEF RingWorth

(* What the helper passes on it takes from the ring.                       *)
LEMMA RingBalance ==
    ASSUME PathTypes, PathTypes', RingCallback,
           NEW k \in BurstKeys, k[2] = "video", NEW d \in BOOLEAN, Balanced(k, d)
    PROVE  Balanced(k, d)'
<1> DEFINE ev == Head(ring)
<1>1. /\ ring # <<>> /\ ring' = Tail(ring) /\ ev \in Events
      /\ ring \in Seq(Events) /\ ring' \in Seq(Events) /\ pipe \in Seq(Messages)
  BY DEF RingCallback, PathTypes, TypeOKPath, TypeOK
<1>2. InRing(k, d) = RingWorth(ev, k, d) + InRing(k, d)' /\ RingWorth(ev, k, d) \in Nat
  BY <1>1, RingAmount
<1>3. InQueue(pipe, k, d)' = InQueue(pipe, k, d) + RingWorth(ev, k, d)
  <2>1. CASE IsCapture(ev.node)
    <3>1. pipe' = Append(pipe, MessageOf(ev)) /\ MessageOf(ev) \in Messages
      BY <1>1, <2>1, MessageType DEF RingCallback
    <3>2. InQueue(pipe', k, d) = InQueue(pipe, k, d) + QueueWorth(MessageOf(ev), k, d)
      BY <1>1, <3>1, QueueAmount
    <3>3. InQueue(pipe, k, d)' = InQueue(pipe', k, d)
      BY DEF InQueue, QueueWorth
    <3>4. QED
      BY <1>1, <3>2, <3>3, MessageOfEvent
  <2>2. CASE ~IsCapture(ev.node)
    <3>1. UNCHANGED pipe
      BY <2>2 DEF RingCallback
    <3>2. RingWorth(ev, k, d) = 0
      BY <1>1, <2>2, MessageOfEvent
    <3>3. QED
      BY <3>1, <3>2, SameQueues, AmountsAreNumbers
  <2>3. QED
    BY <2>1, <2>2
<1>4. UNCHANGED <<hook, bursts, truth, out, history>>
  BY DEF RingCallback, linkVars, daemonVars, countVars
<1>5. /\ InHooks(k, d)' = InHooks(k, d) /\ InQueue(out, k, d)' = InQueue(out, k, d)
      /\ InMap(k, d)' = InMap(k, d) /\ Recorded(k, d)' = Recorded(k, d)
      /\ Happened(k, d)' = Happened(k, d)
  BY <1>4, AllStill, SameQueues DEF Still, InMap, Recorded, Happened
<1> HIDE DEF ev
<1>6. QED
  BY <1>2, <1>3, <1>5, AmountsAreNumbers DEF Balanced, OnTheWay

(* The summary of a burst carries what the flush takes out of the map.     *)
LEMMA FlushBalance ==
    ASSUME PathTypes, PathTypes', NEW e \in flushing, FlushWrite(e),
           NEW k \in BurstKeys \ blurred', NEW d \in BOOLEAN, Balanced(k, d)
    PROVE  Balanced(k, d)'
<1>1. /\ e \in Snapshots /\ pipe \in Seq(Messages)
      /\ bursts \in [BurstKeys -> [last : Int, suppressed : Nat, denied : BOOLEAN]]
      /\ TypeInvariant /\ hook \in [Tasks -> Hook]
  BY DEF PathTypes, TypeOKPath, TypeOK, TypeInvariant, Hook
<1>2. /\ UNCHANGED <<ring, truth, out, history>>
      /\ pipe' = Append(pipe, Summary(e))
      /\ bursts' = [bursts EXCEPT ![e.key] = Cleared(e)]
      /\ hook' = Staled(BurstPointers(e.key))
  BY DEF FlushWrite, linkVars, daemonVars, countVars
<1>3. /\ e.key \in BurstKeys /\ Summary(e) \in Messages /\ KeyOf(Summary(e)) = e.key
      /\ e.suppressed \in Nat
  BY <1>1, SummaryType DEF Snapshots
<1>4. \A u \in Tasks : Still(u)
  BY <1>1, <1>2, StaledStill
<1>5. /\ InHooks(k, d)' = InHooks(k, d) /\ InRing(k, d)' = InRing(k, d)
      /\ InQueue(out, k, d)' = InQueue(out, k, d)
      /\ Recorded(k, d)' = Recorded(k, d) /\ Happened(k, d)' = Happened(k, d)
  BY <1>2, <1>4, AllStill, SameQueues DEF Recorded, Happened
<1>6. InQueue(pipe, k, d)' = InQueue(pipe, k, d) + QueueWorth(Summary(e), k, d)
  <2>1. InQueue(pipe', k, d) = InQueue(pipe, k, d) + QueueWorth(Summary(e), k, d)
    BY <1>1, <1>2, <1>3, QueueAmount
  <2>2. InQueue(pipe, k, d)' = InQueue(pipe', k, d)
    BY DEF InQueue, QueueWorth
  <2>3. QED
    BY <2>1, <2>2
<1>7. QueueWorth(Summary(e), k, d) = IF k = e.key /\ e.denied = d THEN e.suppressed ELSE 0
  <2>1. /\ Summary(e).kind = "summary" /\ Summary(e).denied = e.denied
        /\ Summary(e).extra = e.suppressed
    BY DEF Summary
  <2>2. QED
    BY <1>3, <2>1 DEF QueueWorth, Worth
<1>8. InMap(k, d) = InMap(k, d)' + QueueWorth(Summary(e), k, d)
  <2>1. CASE k # e.key
    <3>1. bursts'[k] = bursts[k]
      BY <1>1, <1>2, <1>3, <2>1
    <3>2. InMap(k, d)' = InMap(k, d)
      BY <3>1 DEF InMap
    <3>3. QED
      BY <1>7, <2>1, <3>2, AmountsAreNumbers
  <2>2. CASE k = e.key
    <3>1. bursts[k].suppressed = e.suppressed /\ bursts[k].denied = e.denied
      BY <2>2 DEF FlushWrite, Blur
    <3>2. bursts'[k].suppressed = 0
      BY <1>1, <1>2, <1>3, <2>2 DEF Cleared
    <3>3. InMap(k, d)' = 0
      BY <3>2 DEF InMap
    <3>4. QED
      BY <1>3, <1>7, <2>2, <3>1, <3>3 DEF InMap
  <2>3. QED
    BY <2>1, <2>2
<1>9. QueueWorth(Summary(e), k, d) \in Nat
  BY <1>3, <1>7
<1>10. QED
  BY <1>5, <1>6, <1>8, <1>9, AmountsAreNumbers DEF Balanced, OnTheWay

(* What moves from the queue to the writer of a connection is still there; *)
(* what a connection that is gone swallows blurs its burst.                *)
LEMMA ForwardBalance ==
    ASSUME PathTypes, PathTypes', Forward,
           NEW k \in BurstKeys \ blurred', NEW d \in BOOLEAN, Balanced(k, d)
    PROVE  Balanced(k, d)'
<1> DEFINE m == Head(pipe)
<1>1. /\ pipe # <<>> /\ pipe' = Tail(pipe) /\ m \in Messages
      /\ pipe \in Seq(Messages) /\ out \in Seq(Messages)
      /\ UNCHANGED <<hook, bursts, ring, truth, history>>
  BY DEF Forward, PathTypes, TypeOKPath, daemonVars, countVars
<1>2. /\ InHooks(k, d)' = InHooks(k, d) /\ InRing(k, d)' = InRing(k, d)
      /\ InMap(k, d)' = InMap(k, d) /\ Recorded(k, d)' = Recorded(k, d)
      /\ Happened(k, d)' = Happened(k, d)
  BY <1>1, AllStill, SameQueues DEF Still, InMap, Recorded, Happened
<1>3. /\ InQueue(pipe, k, d)' = InQueue(pipe', k, d) /\ InQueue(out, k, d)' = InQueue(out', k, d)
  BY DEF InQueue, QueueWorth
<1>4. InQueue(pipe, k, d) = QueueWorth(m, k, d) + InQueue(pipe, k, d)' /\ QueueWorth(m, k, d) \in Nat
  BY <1>1, <1>3, QueueAmount
<1> HIDE DEF m
<1>5. CASE link = "up"
  <2>1. out' = Append(out, m)
    BY <1>5 DEF Forward, m
  <2>2. InQueue(out, k, d)' = InQueue(out, k, d) + QueueWorth(m, k, d)
    BY <1>1, <1>3, <2>1, QueueAmount
  <2>3. QED
    BY <1>2, <1>4, <2>2, AmountsAreNumbers DEF Balanced, OnTheWay
<1>6. CASE link # "up"
  <2>1. k # KeyOf(m) /\ UNCHANGED out
    BY <1>6 DEF Forward, m
  <2>2. QueueWorth(m, k, d) = 0 /\ InQueue(out, k, d)' = InQueue(out, k, d)
    BY <2>1, SameQueues DEF QueueWorth
  <2>3. QED
    BY <1>2, <1>4, <2>2, AmountsAreNumbers DEF Balanced, OnTheWay
<1>7. QED
  BY <1>5, <1>6

(* A connection that breaks blurs every burst it takes an open of along.   *)
LEMMA LossBalance ==
    ASSUME PathTypes, PathTypes', LoseConnection,
           UNCHANGED <<hook, bursts, ring, truth, history, pipe>>,
           NEW k \in BurstKeys \ blurred', NEW d \in BOOLEAN, Balanced(k, d)
    PROVE  Balanced(k, d)'
<1>1. /\ InHooks(k, d)' = InHooks(k, d) /\ InRing(k, d)' = InRing(k, d)
      /\ InQueue(pipe, k, d)' = InQueue(pipe, k, d)
  BY AllStill, SameQueues DEF Still
<1>2. /\ k \notin KeysIn(out) /\ out' = <<>> /\ out \in Seq(Messages) /\ out' \in Seq(Messages)
  BY DEF LoseConnection, PathTypes, TypeOKPath
<1>3. k \notin KeysIn(out')
  BY <1>2 DEF KeysIn
<1>4. InQueue(out, k, d) = 0 /\ InQueue(out', k, d) = 0
  BY <1>2, <1>3, QueueAmount
<1>5. InQueue(out, k, d)' = InQueue(out', k, d)
  BY DEF InQueue, QueueWorth
<1>6. QED
  BY <1>1, <1>4, <1>5, SameBalance

(* The end of the helper's process blurs every burst it takes an open of   *)
(* along: of the others there is nothing in the map, the ring, the channel *)
(* or the part of the connection that is cut off.                          *)
LEMMA ExitBalance ==
    ASSUME PathTypes, PathTypes', HelperExits,
           NEW k \in BurstKeys \ blurred', NEW d \in BOOLEAN, Balanced(k, d)
    PROVE  Balanced(k, d)'
<1>1. PICK n \in 0..Len(out) : /\ out' = SubSeq(out, 1, n)
                               /\ k \notin LostWithHelper
                               /\ k \notin KeysIn(SubSeq(out, n + 1, Len(out)))
  BY DEF HelperExits
<1>2. /\ UNCHANGED <<hook, truth, history>>
      /\ ring' = <<>> /\ pipe' = <<>> /\ bursts' = [j \in BurstKeys |-> NoBurst]
  BY DEF HelperExits, daemonVars, countVars
<1>3. /\ pipe \in Seq(Messages) /\ out \in Seq(Messages) /\ ring \in Seq(Events)
      /\ pipe' \in Seq(Messages) /\ out' \in Seq(Messages)
      /\ bursts \in [BurstKeys -> [last : Int, suppressed : Nat, denied : BOOLEAN]]
  BY DEF PathTypes, TypeOKPath, TypeOK
<1>4. InMap(k, d) = 0 /\ InMap(k, d)' = 0
  <2>1. bursts[k].suppressed = 0
    BY <1>1, <1>3 DEF LostWithHelper
  <2>2. bursts'[k].suppressed = 0
    BY <1>2 DEF NoBurst
  <2>3. QED
    BY <2>1, <2>2 DEF InMap
<1>5. InRing(k, d) = 0 /\ InRing(k, d)' = 0
  <2>1. \A i \in DOMAIN ring : RingKey(ring[i]) # k
    BY <1>1 DEF LostWithHelper, RingKeys
  <2>2. InRing(k, d) = 0
    <3> DEFINE f == [i \in DOMAIN ring |-> RingWorth(ring[i], k, d)]
    <3>1. \A i \in DOMAIN ring : f[i] = 0
      BY <2>1 DEF RingWorth
    <3>2. InRing(k, d) = SumFunctionOnSet(f, DOMAIN ring)
      BY DEF InRing, SumFunction
    <3>3. IsFiniteSet(DOMAIN ring)
      <4>1. DOMAIN ring = 1..Len(ring) /\ Len(ring) \in Nat
        BY <1>3
      <4>2. QED
        BY <4>1, FS_Interval
    <3> HIDE DEF f
    <3>4. QED
      BY <3>1, <3>2, <3>3, SumZero
  <2>3. InRing(k, d)' = 0
    <3> DEFINE f == [i \in DOMAIN ring' |-> RingWorth(ring'[i], k, d)]
    <3>1. DOMAIN f = {}
      BY <1>2
    <3>2. InRing(k, d)' = SumFunctionOnSet(f, {})
      BY <3>1 DEF InRing, SumFunction, RingWorth, RingKey
    <3> HIDE DEF f
    <3>3. QED
      BY <3>2, SumEmpty
  <2>4. QED
    BY <2>2, <2>3
<1>6. InQueue(pipe, k, d) = 0 /\ InQueue(pipe, k, d)' = 0
  <2>1. k \notin KeysIn(pipe) /\ k \notin KeysIn(pipe')
    BY <1>1, <1>2 DEF LostWithHelper, KeysIn
  <2>2. InQueue(pipe, k, d) = 0 /\ InQueue(pipe', k, d) = 0
    BY <1>3, <2>1, QueueAmount
  <2>3. InQueue(pipe, k, d)' = InQueue(pipe', k, d)
    BY DEF InQueue, QueueWorth
  <2>4. QED
    BY <2>2, <2>3
<1>7. InQueue(out, k, d)' = InQueue(out, k, d)
  <2>1. InQueue(out, k, d)' = InQueue(out', k, d)
    BY DEF InQueue, QueueWorth
  <2>2. QED
    BY <1>1, <1>3, <2>1, QueuePrefix
<1>8. InHooks(k, d)' = InHooks(k, d)
  BY <1>2, AllStill DEF Still
<1>9. Happened(k, d)' = Happened(k, d) /\ Recorded(k, d)' = Recorded(k, d)
  BY <1>2 DEF Happened, Recorded
<1>10. OnTheWay(k, d)' = OnTheWay(k, d)
  BY <1>4, <1>5, <1>6, <1>7, <1>8 DEF OnTheWay
<1>11. QED
  BY <1>9, <1>10 DEF Balanced

(* An event that is recorded moves its worth into the history.             *)
LEMMA RecordedWorth ==
    ASSUME PathTypes, NEW m \in Messages, m.kind # "release",
           Record(KeyOf(m), DeniedOpens(m), AllowedOpens(m)),
           NEW k \in BurstKeys, NEW d \in BOOLEAN
    PROVE  Recorded(k, d)' = Recorded(k, d) + QueueWorth(m, k, d)
<1>1. /\ KeyOf(m) \in BurstKeys /\ DeniedOpens(m) \in Nat /\ AllowedOpens(m) \in Nat
      /\ m.denied \in BOOLEAN
      /\ history[k].denied \in Nat /\ history[k].allowed \in Nat
  BY MessageWorth DEF Messages, PathTypes, TypeOKPath
<1>2. /\ history'[KeyOf(m)].denied = history[KeyOf(m)].denied + DeniedOpens(m)
      /\ history'[KeyOf(m)].allowed = history[KeyOf(m)].allowed + AllowedOpens(m)
      /\ \A j \in BurstKeys \ {KeyOf(m)} : history'[j] = history[j]
  BY <1>1, RecordTotal
<1>3. CASE k # KeyOf(m)
  <2>1. history'[k] = history[k]
    BY <1>2, <1>3
  <2>2. QED
    BY <1>1, <1>3, <2>1 DEF Recorded, QueueWorth
<1>4. CASE k = KeyOf(m)
  <2>1. Recorded(k, d)' = Recorded(k, d) + (IF d THEN DeniedOpens(m) ELSE AllowedOpens(m))
    BY <1>2, <1>4 DEF Recorded
  <2>2. QueueWorth(m, k, d) = IF m.denied = d THEN Worth(m) ELSE 0
    BY <1>4 DEF QueueWorth
  <2>3. QueueWorth(m, k, d) = IF d THEN DeniedOpens(m) ELSE AllowedOpens(m)
    <3>1. CASE m.denied
      <4>1. DeniedOpens(m) = Worth(m) /\ AllowedOpens(m) = 0 /\ (m.denied = d <=> d)
        BY <1>1, <3>1 DEF DeniedOpens, AllowedOpens
      <4>2. QED
        BY <2>2, <4>1
    <3>2. CASE ~m.denied
      <4>1. DeniedOpens(m) = 0 /\ AllowedOpens(m) = Worth(m) /\ (m.denied = d <=> ~d)
        BY <1>1, <3>2 DEF DeniedOpens, AllowedOpens
      <4>2. QED
        BY <2>2, <4>1
    <3>3. QED
      BY <3>1, <3>2
  <2>4. QED
    BY <2>1, <2>3
<1>5. QED
  BY <1>3, <1>4

(* What the daemon takes off the connection it has recorded, or it was     *)
(* nothing of a camera.                                                    *)
LEMMA TakeOffBalance ==
    ASSUME PathTypes, PathTypes', NEW m, Take(m),
           UNCHANGED <<hook, bursts, ring, truth, pipe>>,
           NEW k \in BurstKeys, NEW d \in BOOLEAN, Balanced(k, d),
           Recorded(k, d)' = Recorded(k, d) + QueueWorth(m, k, d)
    PROVE  Balanced(k, d)'
<1>1. /\ m \in Messages /\ out # <<>> /\ m = Head(out) /\ out' = Tail(out) /\ out \in Seq(Messages)
  BY QueueType DEF Take, PathTypes, TypeOKPath
<1>2. InQueue(out, k, d) = QueueWorth(m, k, d) + InQueue(out', k, d) /\ QueueWorth(m, k, d) \in Nat
  BY <1>1, QueueAmount
<1>3. InQueue(out, k, d)' = InQueue(out', k, d)
  BY DEF InQueue, QueueWorth
<1>4. /\ InHooks(k, d)' = InHooks(k, d) /\ InRing(k, d)' = InRing(k, d)
      /\ InQueue(pipe, k, d)' = InQueue(pipe, k, d)
      /\ InMap(k, d)' = InMap(k, d) /\ Happened(k, d)' = Happened(k, d)
  BY AllStill, SameQueues DEF Still, InMap, Happened
<1>5. QED
  BY <1>2, <1>3, <1>4, AmountsAreNumbers DEF Balanced, OnTheWay

(* Every step of the daemon keeps the balance of a camera's burst.         *)
LEMMA DaemonBalance ==
    ASSUME PathTypes, PathTypes', DaemonStep,
           NEW k \in BurstKeys, k[2] = "video", NEW d \in BOOLEAN, Balanced(k, d)
    PROVE  Balanced(k, d)'
<1>1. ASSUME NEW m, Take(m)
      PROVE  m \in Messages /\ (m.role # "CAMERA" => QueueWorth(m, k, d) = 0)
  <2>1. m \in Messages
    BY <1>1, QueueType DEF Take, PathTypes, TypeOKPath
  <2>2. m.role # "CAMERA" => KeyOf(m)[2] = "sound"
    BY DEF KeyOf
  <2>3. QED
    BY <2>1, <2>2 DEF QueueWorth
<1>2. Recorded(k, d) \in Nat
  BY AmountsAreNumbers
<1>3. ASSUME NEW m, Ignore(m)
      PROVE  Balanced(k, d)'
  <2>1. Take(m) /\ UNCHANGED <<hook, bursts, ring, truth, pipe, history>>
    BY <1>3 DEF Ignore, gateVars, helperVars, daemonVars, countVars
  <2>2. QueueWorth(m, k, d) = 0
    BY <1>1, <1>3, <2>1 DEF Ignore, QueueWorth
  <2>3. Recorded(k, d)' = Recorded(k, d) + QueueWorth(m, k, d)
    BY <1>2, <2>1, <2>2 DEF Recorded
  <2>4. QED
    BY <2>1, <2>3, TakeOffBalance
<1>4. ASSUME NEW m, CountSummary(m)
      PROVE  Balanced(k, d)'
  <2>1. Take(m) /\ UNCHANGED <<hook, bursts, ring, truth, pipe>> /\ m.kind = "summary"
    BY <1>4 DEF CountSummary, gateVars, helperVars
  <2>2. Record(KeyOf(m), DeniedOpens(m), AllowedOpens(m))
    BY <1>4 DEF CountSummary, RecordDenied, RecordAllowed, DeniedOpens, AllowedOpens
  <2>3. Recorded(k, d)' = Recorded(k, d) + QueueWorth(m, k, d)
    BY <1>1, <2>1, <2>2, RecordedWorth
  <2>4. QED
    BY <2>1, <2>3, TakeOffBalance
<1>5. ASSUME NEW m, CountDenied(m)
      PROVE  Balanced(k, d)'
  <2>1. Take(m) /\ UNCHANGED <<hook, bursts, ring, truth, pipe>> /\ m.kind = "open"
    BY <1>5 DEF CountDenied, gateVars, helperVars
  <2>2. Record(KeyOf(m), DeniedOpens(m), AllowedOpens(m))
    BY <1>5 DEF CountDenied, RecordDenied, AllowedOpens
  <2>3. Recorded(k, d)' = Recorded(k, d) + QueueWorth(m, k, d)
    BY <1>1, <2>1, <2>2, RecordedWorth
  <2>4. QED
    BY <2>1, <2>3, TakeOffBalance
<1>6. ASSUME NEW m, CountAllowed(m)
      PROVE  Balanced(k, d)'
  <2>1. Take(m) /\ UNCHANGED <<hook, bursts, ring, truth, pipe>> /\ m.kind = "open"
    BY <1>6 DEF CountAllowed, gateVars, helperVars
  <2>2. CASE m.role = "CAMERA"
    <3>1. Record(KeyOf(m), DeniedOpens(m), AllowedOpens(m))
      BY <1>6, <2>2 DEF CountAllowed, RecordAllowed, DeniedOpens
    <3>2. Recorded(k, d)' = Recorded(k, d) + QueueWorth(m, k, d)
      BY <1>1, <2>1, <3>1, RecordedWorth
    <3>3. QED
      BY <2>1, <3>2, TakeOffBalance
  <2>3. CASE m.role # "CAMERA"
    <3>1. UNCHANGED history
      BY <1>6, <2>3 DEF CountAllowed
    <3>2. Recorded(k, d)' = Recorded(k, d) + QueueWorth(m, k, d)
      BY <1>1, <1>2, <2>1, <2>3, <3>1 DEF Recorded
    <3>3. QED
      BY <2>1, <3>2, TakeOffBalance
  <2>4. QED
    BY <2>2, <2>3
<1>7. CASE Decide \/ Ask
  <2>1. UNCHANGED <<hook, bursts, ring, truth, pipe, out, history>>
    BY <1>7 DEF Decide, Ask, gateVars, helperVars, linkVars, countVars
  <2>2. QED
    BY <2>1, AllStill, SameQueues, SameBalance DEF Still
<1>8. QED
  BY <1>3, <1>4, <1>5, <1>6, <1>7 DEF DaemonStep

(* A step that is none of the hooks', the queues' or the counters' moves   *)
(* no open.                                                                *)
LEMMA IdleBalance ==
    ASSUME PathTypes, PathTypes', UNCHANGED <<hook, bursts, ring, truth, pipe, out, history>>,
           NEW k, NEW d, Balanced(k, d)
    PROVE  Balanced(k, d)'
BY AllStill, SameQueues, SameBalance DEF Still

(* What is blurred stays so.                                               *)
LEMMA BlurStays ==
    ASSUME [Next]_vars
    PROVE  blurred \subseteq blurred'
<1>1. ASSUME NEW t \in Tasks, HookStep(t)
      PROVE  blurred \subseteq blurred'
  BY <1>1 DEF HookStep, Track, CountLookup, CountAdd, CountOne, CoalesceLookup, Swallow, TakeBurst,
              FirstBurst, Report, ReleaseLookup, ReleaseDecrement, ReleaseRecheck, ReleaseForget,
              ReleaseReport, Blur
<1>2. CASE GateStep
  BY <1>1, <1>2, GateStepIsTheGates DEF GateNext, OpenVerdict, Close, Regrant, Reenforce, Tick
<1>3. CASE HelperStep \/ HelperStops \/ HelperExits \/ HelperStarts
  BY <1>3 DEF HelperStep, HelperStops, HelperExits, HelperStarts, RingCallback, FlushRead, PushPolicy,
              FlushWrite, Blur, gateVars
<1>4. CASE ConnectionStep \/ Break
  BY <1>4 DEF ConnectionStep, Break, Forward, LoseConnection, CloseConnection, Connect, gateVars
<1>5. CASE DaemonStep
  BY <1>5 DEF DaemonStep, Ignore, CountSummary, CountDenied, CountAllowed, Decide, Ask, gateVars
<1>6. CASE UserStep \/ Restart
  BY <1>6 DEF UserStep, Restart, LoseConnection, Answer, Dismiss, gateVars
<1>7. CASE UNCHANGED vars
  BY <1>7 DEF vars, gateVars
<1>8. QED
  BY <1>2, <1>3, <1>4, <1>5, <1>6, <1>7 DEF Next

(* Every step keeps the balance of a camera's burst it does not blur.      *)
LEMMA PathBalance ==
    ASSUME PathTypes, PathTypes', RingFits, FirstFindsNothing, [Next]_vars,
           NEW k \in BurstKeys \ blurred', k[2] = "video", NEW d \in BOOLEAN, Balanced(k, d)
    PROVE  Balanced(k, d)'
<1>1. CASE HelperStep \/ HelperStops
  <2>1. CASE FlushRead \/ PushPolicy \/ HelperStops
    <3>1. UNCHANGED <<hook, bursts, ring, truth, pipe, out, history>>
      BY <2>1 DEF FlushRead, PushPolicy, HelperStops, gateVars, helperVars, linkVars, daemonVars,
                  countVars
    <3>2. QED
      BY <3>1, IdleBalance
  <2>2. QED
    BY <1>1, <2>1, RingBalance, FlushBalance DEF HelperStep
<1>2. CASE ConnectionStep \/ Break
  <2>1. CASE CloseConnection \/ Connect
    <3>1. UNCHANGED <<hook, bursts, ring, truth, pipe, out, history>>
      BY <2>1 DEF CloseConnection, Connect, gateVars, helperVars, daemonVars, countVars
    <3>2. QED
      BY <3>1, IdleBalance
  <2>2. CASE Break
    <3>1. LoseConnection /\ UNCHANGED <<hook, bursts, ring, truth, history, pipe>>
      BY <2>2 DEF Break, helperVars, daemonVars, countVars
    <3>2. QED
      BY <3>1, LossBalance
  <2>3. QED
    BY <1>2, <2>1, <2>2, ForwardBalance DEF ConnectionStep
<1>3. CASE Restart
  <2>1. UNCHANGED <<hook, bursts, ring, truth, history, pipe>> /\ (LoseConnection \/ UNCHANGED out)
    BY <1>3 DEF Restart, helperVars
  <2>2. QED
    BY <2>1, LossBalance, IdleBalance
<1>4. CASE UserStep \/ UNCHANGED vars
  <2>1. UNCHANGED <<hook, bursts, ring, truth, pipe, out, history>>
    BY <1>4 DEF UserStep, Answer, Dismiss, vars, pathVars, daemonVars, gateVars, helperVars, linkVars,
                countVars
  <2>2. QED
    BY <2>1, IdleBalance
<1>5. CASE HelperStarts
  <2>1. UNCHANGED <<hook, bursts, ring, truth, pipe, out, history>>
    BY <1>5 DEF HelperStarts, gateVars, daemonVars, countVars
  <2>2. QED
    BY <2>1, IdleBalance
<1>6. QED
  BY <1>1, <1>2, <1>3, <1>4, <1>5, ExitBalance, GateBalance, DaemonBalance DEF Next

(* The ring is never more than full, and a hook that starts a burst has    *)
(* taken nothing.                                                          *)
LEMMA RingAndFirst ==
    ASSUME PathTypes, RingFits, FirstFindsNothing, [Next]_vars
    PROVE  RingFits' /\ FirstFindsNothing'
<1>1. /\ ring \in Seq(Events) /\ TypeInvariant /\ hook \in [Tasks -> Hook]
      /\ RingCap \in Nat
  BY GateAssumption DEF PathTypes, TypeOKPath, TypeOK, TypeInvariant, Hook
<1>2. (\A u \in Tasks : Still(u)) => FirstFindsNothing'
  BY StillHolds DEF FirstFindsNothing
<1>3. UNCHANGED ring => RingFits'
  BY DEF RingFits
<1>4. ASSUME NEW t \in Tasks, Swallow(t) \/ Report(t)
      PROVE  RingFits' /\ FirstFindsNothing'
  <2>1. Finish(t)
    BY <1>4 DEF Swallow, Report
  <2>2. FirstFindsNothing'
    BY <2>1, FinishHands, StillHolds DEF FirstFindsNothing
  <2>3. ring' = ring \/ \E ev : Len(ring) < RingCap /\ ring' = Append(ring, ev)
    BY <1>4 DEF Swallow, Report, Emit
  <2>4. ASSUME NEW ev, Len(ring) < RingCap, ring' = Append(ring, ev)
        PROVE  RingFits'
    BY <1>1, <2>4 DEF RingFits
  <2>5. QED
    BY <1>3, <2>2, <2>3, <2>4
<1>5. ASSUME NEW t \in Tasks, TakeBurst(t)
      PROVE  RingFits' /\ FirstFindsNothing'
  <2>1. hook'[t].at = "report" /\ \A u \in Tasks \ {t} : hook'[u] = hook[u]
    BY <1>1, <1>5 DEF TakeBurst, MoveTo, Hook
  <2>2. QED
    BY <1>3, <1>5, <2>1 DEF TakeBurst, FirstFindsNothing
<1>6. ASSUME NEW t \in Tasks, FirstBurst(t)
      PROVE  RingFits' /\ FirstFindsNothing'
  <2> DEFINE S == Staled(BurstPointers(Key(t)))
  <2>1. hook' = [S EXCEPT ![t].at = "report"] /\ S \in [Tasks -> Hook]
    BY <1>1, <1>6, StaledType DEF FirstBurst
  <2> HIDE DEF S
  <2>2. hook'[t].at = "report" /\ \A u \in Tasks \ {t} : hook'[u] = S[u]
    BY <2>1 DEF Hook
  <2>3. \A u \in Tasks \ {t} : Still(u)
    BY <1>1, <2>2, StaledStill DEF S
  <2>4. FirstFindsNothing'
    BY <2>2, <2>3, StillHolds DEF FirstFindsNothing
  <2>5. UNCHANGED ring
    BY <1>6 DEF FirstBurst
  <2>6. QED
    BY <1>3, <2>4, <2>5
<1>7. CASE GateStep /\ \A t \in Tasks : ~Swallow(t) /\ ~TakeBurst(t) /\ ~FirstBurst(t) /\ ~Report(t)
  <2>1. /\ \A u \in Tasks : Still(u)
        /\ UNCHANGED ring \/ \E ev \in Events : Len(ring) < RingCap /\ ring' = Append(ring, ev)
    BY <1>7, OtherGateSteps, GateStepIsTheGates
  <2>2. ASSUME NEW ev \in Events, Len(ring) < RingCap, ring' = Append(ring, ev)
        PROVE  RingFits'
    BY <1>1, <2>2 DEF RingFits
  <2>3. QED
    BY <1>2, <1>3, <2>1, <2>2
<1>8. CASE RingCallback
  <2>1. ring' = Tail(ring) /\ ring # <<>> /\ UNCHANGED hook
    BY <1>8 DEF RingCallback
  <2>2. RingFits'
    BY <1>1, <2>1 DEF RingFits
  <2>3. QED
    BY <1>2, <2>1, <2>2 DEF Still
<1>9. ASSUME NEW e \in flushing, FlushWrite(e)
      PROVE  RingFits' /\ FirstFindsNothing'
  <2>1. UNCHANGED ring /\ hook' = Staled(BurstPointers(e.key))
    BY <1>9 DEF FlushWrite
  <2>2. \A u \in Tasks : Still(u)
    BY <1>1, <2>1, StaledStill
  <2>3. QED
    BY <1>2, <1>3, <2>1, <2>2
<1>10. CASE UNCHANGED <<ring, hook>>
  BY <1>2, <1>3, <1>10 DEF Still
<1>11. CASE FlushRead \/ PushPolicy \/ HelperStops \/ ConnectionStep \/ Break \/ UNCHANGED vars
  <2>1. UNCHANGED <<ring, hook>>
    BY <1>11 DEF FlushRead, PushPolicy, HelperStops, ConnectionStep, Break, Forward, CloseConnection,
                 Connect, vars, gateVars
  <2>2. QED
    BY <1>10, <2>1
<1>12. CASE DaemonStep \/ UserStep \/ Restart
  <2>1. UNCHANGED <<ring, hook>>
    BY <1>12 DEF DaemonStep, UserStep, Restart, Ignore, CountSummary, CountDenied, CountAllowed,
                 Decide, Ask, Answer, Dismiss, gateVars
  <2>2. QED
    BY <1>10, <2>1
<1>13. CASE HelperStep
  BY <1>8, <1>9, <1>11, <1>13 DEF HelperStep
<1>14. CASE GateStep
  BY <1>4, <1>5, <1>6, <1>7, <1>14
<1>15. CASE HelperExits
  <2>1. UNCHANGED hook /\ ring' = <<>>
    BY <1>15 DEF HelperExits
  <2>2. QED
    BY <1>1, <1>2, <2>1 DEF Still, RingFits
<1>16. CASE HelperStarts
  BY <1>10, <1>16 DEF HelperStarts, gateVars
<1>17. QED
  BY <1>11, <1>12, <1>13, <1>14, <1>15, <1>16 DEF Next

(* Every camera open, denied or allowed, is in the history, or on its way  *)
(* to it in one place, however hooks, flushes, connections and restarts    *)
(* interleave, for any number of tasks, executables and events under way.  *)
(* Excepted are the bursts that a race, a full ring, a lost connection or  *)
(* the end of the helper's process has touched.                            *)
THEOREM OpensAreCountedOnce == Spec => []EveryOpenIsCounted
<1>1. Init => PathTypes /\ OpenInvariant
  <2> SUFFICES ASSUME Init
               PROVE  OpenInvariant
    BY PathInitTypes
  <2>1. RingFits /\ FirstFindsNothing
    BY GateAssumption DEF Init, GateInit, RingFits, FirstFindsNothing, Resting
  <2>2. ASSUME NEW k \in BurstKeys, NEW d \in BOOLEAN
        PROVE  Balanced(k, d)
    <3>1. /\ ring = <<>> /\ pipe = <<>> /\ out = <<>>
          /\ \A t \in Tasks : hook[t].at = "rest"
          /\ bursts[k].suppressed = 0 /\ truth[k].denied = 0 /\ truth[k].allowed = 0
          /\ history[k].denied = 0 /\ history[k].allowed = 0
      BY DEF Init, GateInit, Resting, NoBurst
    <3>2. InHooks(k, d) = 0
      <4> DEFINE f == [t \in Tasks |-> HookWorth(t, k, d)]
      <4>1. \A t \in Tasks : f[t] = 0
        BY <3>1 DEF HookWorth
      <4>2. InHooks(k, d) = SumFunctionOnSet(f, Tasks)
        BY DEF InHooks, SumFunction
      <4> HIDE DEF f
      <4>3. QED
        BY <4>1, <4>2, SumZero
    <3>3. InQueue(pipe, k, d) = 0 /\ InQueue(out, k, d) = 0
      <4>1. <<>> \in Seq(Messages) /\ k \notin KeysIn(<<>>)
        BY DEF KeysIn
      <4>2. QED
        BY <3>1, <4>1, QueueAmount
    <3>4. InRing(k, d) = 0
      <4> DEFINE f == [i \in DOMAIN ring |-> RingWorth(ring[i], k, d)]
      <4>1. DOMAIN f = {}
        BY <3>1
      <4>2. InRing(k, d) = SumFunctionOnSet(f, {})
        BY <4>1 DEF InRing, SumFunction
      <4> HIDE DEF f
      <4>3. QED
        BY <4>2, SumEmpty
    <3>5. InMap(k, d) = 0
      BY <3>1 DEF InMap
    <3>6. Happened(k, d) = 0 /\ Recorded(k, d) = 0
      BY <3>1 DEF Happened, Recorded
    <3>7. QED
      BY <3>2, <3>3, <3>4, <3>5, <3>6 DEF Balanced, OnTheWay
  <2>3. QED
    BY <2>1, <2>2 DEF OpenInvariant, CamerasBalance
<1>2. PathTypes /\ OpenInvariant /\ [Next]_vars => PathTypes' /\ OpenInvariant'
  <2> SUFFICES ASSUME PathTypes, OpenInvariant, [Next]_vars
               PROVE  PathTypes' /\ OpenInvariant'
    OBVIOUS
  <2>1. PathTypes'
    BY PathNextTypes
  <2>2. RingFits' /\ FirstFindsNothing'
    BY RingAndFirst DEF OpenInvariant
  <2>3. ASSUME NEW k \in BurstKeys \ blurred', k[2] = "video", NEW d \in BOOLEAN
        PROVE  Balanced(k, d)'
    <3>1. Balanced(k, d)
      BY <2>3, BlurStays DEF OpenInvariant, CamerasBalance
    <3>2. QED
      BY <2>1, <2>3, <3>1, PathBalance DEF OpenInvariant
  <2>4. QED
    BY <2>1, <2>2, <2>3 DEF OpenInvariant, CamerasBalance
<1>3. OpenInvariant => EveryOpenIsCounted
  BY BalanceOfOpens DEF OpenInvariant
<1>4. QED
  BY <1>1, <1>2, <1>3, PTL DEF Spec
=============================================================================
