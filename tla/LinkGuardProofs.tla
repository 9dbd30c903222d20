--------------------------- MODULE LinkGuardProofs ---------------------------
(***************************************************************************)
(* What the abstract guard is worth: whoever implements LinkGuard forgets  *)
(* no refused link, for every set of links and every set of judgements.    *)
(***************************************************************************)
EXTENDS LinkGuard, TLAPS

(* Only links that were made flow or are judged.                           *)
GuardInvariant ==
    /\ flowing \subseteq made
    /\ judged \in [Links -> Judgements \cup {"none"}]
    /\ \A l \in Links : l \notin made => judged[l] = "none"
    /\ made \subseteq Links
    /\ NoRefusedLinkForgotten

(* Every step of the guard keeps its invariant.                            *)
LEMMA GuardStep ==
    ASSUME "none" \notin Refusals, GuardInvariant, [GuardNext]_guardVars
    PROVE  GuardInvariant'
<1>1. ASSUME NEW l \in Links, Make(l) PROVE GuardInvariant'
  <2>1. \A k \in flowing' : judged'[k] \in Refusals => k \in pursued' \cup reported'
    BY <1>1 DEF Make, GuardInvariant, NoRefusedLinkForgotten
  <2>2. QED
    BY <1>1, <2>1 DEF Make, GuardInvariant, NoRefusedLinkForgotten
<1>2. ASSUME NEW gone \in SUBSET Links, End(gone) PROVE GuardInvariant'
  BY <1>2 DEF End, GuardInvariant, NoRefusedLinkForgotten
<1>3. ASSUME NEW access \in SUBSET Links, NEW verdict \in Judgements, Judge(access, verdict)
      PROVE  GuardInvariant'
  <2>1. \A k \in Links : judged'[k] = IF k \in access THEN verdict ELSE judged[k]
    BY <1>3 DEF Judge
  <2>2. ASSUME NEW k \in flowing, judged'[k] \in Refusals
        PROVE  k \in pursued' \cup reported
    <3>1. k \in Links
      BY <2>2 DEF GuardInvariant
    <3>2. CASE k \in access
      BY <1>3, <2>1, <2>2, <3>1, <3>2 DEF Judge
    <3>3. CASE k \notin access
      BY <1>3, <2>1, <2>2, <3>1, <3>3 DEF Judge, GuardInvariant, NoRefusedLinkForgotten
    <3>4. QED
      BY <3>2, <3>3
  <2>3. QED
    BY <1>3, <2>1, <2>2 DEF Judge, GuardInvariant, NoRefusedLinkForgotten
<1>4. ASSUME NEW left \in SUBSET pursued, NEW stuck \in SUBSET pursued, GiveUp(left, stuck)
      PROVE  GuardInvariant'
  BY <1>4 DEF GiveUp, GuardInvariant, NoRefusedLinkForgotten
<1>5. CASE UNCHANGED guardVars
  BY <1>5 DEF guardVars, GuardInvariant, NoRefusedLinkForgotten
<1>6. QED
  BY <1>1, <1>2, <1>3, <1>4, <1>5 DEF GuardNext

(* A refused link that flows is pursued or was reported: it is pursued     *)
(* from its judgement on, and given up only over a report.                 *)
THEOREM RefusedLinksAreNotForgotten ==
    ASSUME "none" \notin Refusals
    PROVE  GuardSpec => []NoRefusedLinkForgotten
<1>1. GuardInit => GuardInvariant
  BY DEF GuardInit, GuardInvariant, NoRefusedLinkForgotten
<1>2. GuardInvariant /\ [GuardNext]_guardVars => GuardInvariant'
  BY GuardStep
<1>3. GuardInvariant => NoRefusedLinkForgotten
  BY DEF GuardInvariant
<1>4. QED
  BY <1>1, <1>2, <1>3, PTL DEF GuardSpec
=============================================================================
