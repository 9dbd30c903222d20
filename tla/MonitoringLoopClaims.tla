------------------------ MODULE MonitoringLoopClaims ------------------------
(***************************************************************************)
(* What a comment of the repository says of layer 1 and the code does not  *)
(* keep.  The run claim_unused_grant refutes it.                           *)
(***************************************************************************)
EXTENDS MonitoringLoop

(* "awaiting_open_secs: a granted session that is never opened expires     *)
(* after this": a while_in_use grant that was never used lets nothing      *)
(* through once it is older than the bound.  session_live ignores the age, *)
(* and expire_sessions runs only after the groups of an update.            *)
UnusedGrantExpires ==
    [][\A g \in todo :
          LET s == sessions[PairOf(g)]
          IN  (/\ g \notin todo' /\ pc' = "allow"
               /\ rules[PairOf(g)] = "while_in_use"
               /\ s.state = "awaiting")
              => now - s.at < AwaitingOpen]_vars
=============================================================================
