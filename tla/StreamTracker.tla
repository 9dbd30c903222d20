---------------------------- MODULE StreamTracker ----------------------------
(***************************************************************************)
(* The while_in_use sessions and dismissal cooldowns of stream_tracker.rs, *)
(* as functions on their values and the current time.                      *)
(***************************************************************************)
EXTENDS LinkAudit

CONSTANTS
    Settle,         \* policy.while_in_use_settle_secs
    AwaitingOpen,   \* policy.awaiting_open_secs
    Cooldown,       \* policy.dismiss_cooldown_secs
    NoConn          \* no tracked connection

ASSUME TimeAssumption ==
    /\ Settle \in Nat
    /\ AwaitingOpen \in Nat
    /\ Cooldown \in Nat

(* An ActiveConnection: who holds the device, and the link it was added    *)
(* for.                                                                    *)
Conn == [app: Apps, cat: Cats, perm: Permissions, inst: Nat]

ASSUME ConnAssumption == NoConn \notin Conn

(* SessionState, with "none" for no session.                               *)
Session == [state: {"none", "awaiting", "open"}, at: Nat]

NoSession == [state |-> "none", at |-> 0]

NeverDismissed == 0

BeginSession(now) == [state |-> "awaiting", at |-> now]

(* mark_session_opened followed by refresh_session: an awaiting session    *)
(* opens, an open one has its settle window restarted.                     *)
TouchSession(s, now) ==
    IF s.state = "none" THEN s ELSE [state |-> "open", at |-> now]

HasActiveLink(active, app, cat) ==
    \E id \in LinkIds : /\ active[id] # NoConn
                        /\ active[id].app = app
                        /\ active[id].cat = cat

(* session_live: an unopened grant is live whatever its age.               *)
SessionLive(s, active, app, cat, now) ==
    \/ s.state = "awaiting"
    \/ /\ s.state = "open"
       /\ \/ HasActiveLink(active, app, cat)
          \/ now - s.at < Settle

(* The test of expire_sessions.                                            *)
SessionOver(s, active, app, cat, now) ==
    \/ /\ s.state = "awaiting"
       /\ AwaitingOpen > 0
       /\ now - s.at >= AwaitingOpen
    \/ /\ s.state = "open"
       /\ ~HasActiveLink(active, app, cat)
       /\ now - s.at >= Settle

ExpireSessions(sessions, active, now) ==
    [p \in Apps \X Cats |->
        IF SessionOver(sessions[p], active, p[1], p[2], now)
        THEN NoSession ELSE sessions[p]]

(* is_in_cooldown.                                                         *)
InCooldown(dismissedAt, now) ==
    /\ dismissedAt # NeverDismissed
    /\ now - dismissedAt < Cooldown
=============================================================================
