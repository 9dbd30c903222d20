---------------------------- MODULE PolicyEngine ----------------------------
(***************************************************************************)
(* What the user's rules say about one access: the permissions of          *)
(* hwprivacy-common, the verdict of policy_engine.rs, and what a prompt's  *)
(* answer turns into.                                                      *)
(*                                                                         *)
(* A name is what PipeWire reports for an application.  Norm is            *)
(* normalize_app_name: "Firefox" and "Firefox [pipewire-pulse]" are two    *)
(* names of one application.  Rules, sessions and prompt claims are kept   *)
(* per normalised application; dismissals are kept per raw name.           *)
(***************************************************************************)
EXTENDS Naturals

CONSTANTS
    Names,          \* application names as the graph reports them
    Apps,           \* normalised application keys
    Norm,           \* [Names -> Apps], normalize_app_name
    Unruleable,     \* names that sanitize_rule_name refuses
    Guarded,        \* categories the config guards
    DefaultAction   \* policy.default_action: "deny", or "ask"

Cats == {"mic", "camera", "monitor"}

Permissions == {"allow", "deny", "ask", "while_in_use"}

ASSUME PolicyAssumption ==
    /\ Norm \in [Names -> Apps]
    /\ Unruleable \subseteq Names
    /\ Guarded \subseteq Cats
    /\ DefaultAction \in Permissions

(* The permissions the prompt of a category has buttons for.  The camera's *)
(* has no "While in Use" button.                                           *)
PromptChoices(cat) ==
    {"allow", "deny"} \cup (IF cat = "camera" THEN {} ELSE {"while_in_use"})

(* Config::set_rule: an unusable name, and a camera rule that could never  *)
(* start a session, are refused.                                           *)
RuleAccepted(name, cat, perm) ==
    /\ name \notin Unruleable
    /\ ~(cat = "camera" /\ perm = "while_in_use")

(* The rule table after set_rule; unchanged when the rule is refused.      *)
SetRuleIn(rules, name, cat, perm) ==
    IF RuleAccepted(name, cat, perm)
    THEN [rules EXCEPT ![<<Norm[name], cat>>] = perm]
    ELSE rules

(* The rule table after remove_rule: every category falls back to the      *)
(* default action.                                                         *)
RemoveRuleIn(rules, app) ==
    [r \in Apps \X Cats |-> IF r[1] = app THEN DefaultAction ELSE rules[r]]

(* evaluate() for a category that is guarded (the loop tests that first).  *)
Evaluate(perm, sessionLive) ==
    IF perm = "while_in_use"
    THEN IF sessionLive THEN "allow" ELSE "ask"
    ELSE perm
=============================================================================
