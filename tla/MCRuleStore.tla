---------------------------- MODULE MCRuleStore ----------------------------
(***************************************************************************)
(* An instance of RuleStore for TLC: Firefox as PipeWire names it, as the  *)
(* kernel names its binary, and as a pasted notification label.            *)
(***************************************************************************)
EXTENDS RuleStore

MCNames == {"firefox", "firefox-esr", "firefox (pid:7)"}
MCNorm == [n \in MCNames |-> n]
MCSane == [n \in MCNames |-> IF n = "firefox (pid:7)" THEN "firefox" ELSE n]
MCExes == {"/esr", "opt"}
MCAbsolute == {"/esr"}
MCShort == [e \in MCExes |-> IF e = "/esr" THEN "firefox-esr" ELSE "firefox"]
MicCamera == {"microphone", "camera"}
MCPermissions == {"allow", "deny", "while_in_use"}
Granting == [name |-> "firefox-esr", candidates |-> <<"opt", "/esr">>,
             says |-> [c \in MicCamera |-> IF c = "camera" THEN "allow" ELSE "deny"]]
Plain == [name |-> "firefox", candidates |-> <<>>,
          says |-> [c \in MicCamera |-> "deny"]]
MCBaseline == <<Plain>>
Denying == [name |-> "firefox-esr", candidates |-> <<"/esr">>,
            says |-> [c \in MicCamera |-> "deny"]]
MCPresets == {<<Granting, Plain, Denying>>}
MCSystem == [rules |-> {[app |-> "firefox", exe |-> None,
                         says |-> [c \in MicCamera |-> IF c = "camera" THEN None ELSE "allow"]]},
             default |-> "deny"]
Says(mic, cam) == [c \in MicCamera |-> IF c = "camera" THEN cam ELSE mic]
\* The pair of 2026-09-01, and two names that were given one binary.
MCUserFiles == {
    [rules |-> {[app |-> "firefox", says |-> Says("allow", None), exe |-> None],
                [app |-> "firefox-esr", says |-> Says("deny", "deny"), exe |-> "/esr"]},
     default |-> "deny"],
    [rules |-> {[app |-> "firefox", says |-> Says("while_in_use", "allow"), exe |-> "/esr"],
                [app |-> "firefox-esr", says |-> Says(None, "deny"), exe |-> "/esr"]},
     default |-> "deny"]}
MCDeclared == {<<"firefox", "/esr">>}
=============================================================================
