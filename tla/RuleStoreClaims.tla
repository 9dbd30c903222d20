-------------------------- MODULE RuleStoreClaims --------------------------
(***************************************************************************)
(* What the documentation says of the rule table and the code does not do. *)
(***************************************************************************)
EXTENDS MCRuleStore

=============================================================================
