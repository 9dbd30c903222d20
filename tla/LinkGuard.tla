------------------------------ MODULE LinkGuard ------------------------------
(***************************************************************************)
(* What layer 1 promises of the links to protected devices, without        *)
(* blocks, ledger, serials, ids, tasks and locks.  A link flows until      *)
(* somebody ends it.  While it flows it may be judged, together with the   *)
(* others of its access.  A link that was refused is pursued, and the      *)
(* pursuit may be given up only over a link that is gone or is reported as *)
(* one that could not be stopped.                                          *)
(***************************************************************************)
CONSTANTS
    Links,      \* links that may ever be made
    Judgements, \* what a link may be judged
    Refusals    \* those of them that refuse it

VARIABLES
    made,       \* links made so far
    flowing,    \* links there are
    judged,     \* the last judgement of each link, "none" before the first
    pursued,    \* refused links that are being acted on
    reported    \* links reported as not stopped

guardVars == <<made, flowing, judged, pursued, reported>>

GuardInit ==
    /\ made = {} /\ flowing = {}
    /\ judged = [l \in Links |-> "none"]
    /\ pursued = {} /\ reported = {}

\* A new link, never one of those that were there before.
Make(l) ==
    /\ l \notin made
    /\ made' = made \cup {l} /\ flowing' = flowing \cup {l}
    /\ UNCHANGED <<judged, pursued, reported>>

\* Links end: by their application, by the guard or with PipeWire.
End(gone) ==
    /\ flowing' = flowing \ gone
    /\ UNCHANGED <<made, judged, pursued, reported>>

\* An access is judged, of links that were made; refused, it is pursued.
Judge(access, verdict) ==
    /\ access \subseteq made
    /\ judged' = [l \in Links |-> IF l \in access THEN verdict ELSE judged[l]]
    /\ pursued' = IF verdict \in Refusals THEN pursued \cup access ELSE pursued
    /\ UNCHANGED <<made, flowing, reported>>

\* Some pursuits end, those of left go on: the links are gone, or reported as
\* stuck.
GiveUp(left, stuck) ==
    /\ (pursued \ left) \cap flowing \subseteq stuck
    /\ pursued' = left
    /\ reported' = reported \cup stuck
    /\ UNCHANGED <<made, flowing, judged>>

GuardNext ==
    \/ \E l \in Links : Make(l)
    \/ \E gone \in SUBSET Links : End(gone)
    \/ \E access \in SUBSET Links, verdict \in Judgements : Judge(access, verdict)
    \/ \E left, stuck \in SUBSET pursued : GiveUp(left, stuck)

GuardSpec == GuardInit /\ [][GuardNext]_guardVars

\* A refused link that flows is pursued or reported.
NoRefusedLinkForgotten ==
    \A l \in flowing : judged[l] \in Refusals => l \in pursued \cup reported
=============================================================================
