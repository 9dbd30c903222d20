----------------------------- MODULE RuleStore -----------------------------
(***************************************************************************)
(* The rule table of the daemon, the file it is kept in, and everything    *)
(* that changes it: the D-Bus calls of the front ends, the import of a     *)
(* preset, the merge of two rules, and the answer to a camera question of  *)
(* the kernel layer.  Beside it the table of observed identities, from     *)
(* which two rules for one program are recognised and announced.           *)
(*                                                                         *)
(* A call holds the state lock from its first look at the table to the end *)
(* of its save, so it is one step.  What can come in between is inside the *)
(* save: Config::save truncates the file and writes it, and may be cut off *)
(* at any line.                                                            *)
(***************************************************************************)
EXTENDS Naturals, Sequences

CONSTANTS
    Names,       \* names as a person or a program spells them
    Norm,        \* normalize_app_name: the key a lookup uses
    Sane,        \* sanitize_rule_name: the key a rule is written under, or None
    Exes,        \* paths of executables, relative ones included
    Absolute,    \* the absolute ones
    ShortName,   \* short_name: the last component of a path
    Categories,  \* device categories, "camera" among them
    Permissions, \* the permissions that are asked for
    UserFiles,   \* configurations the user's file may hold at the start
    SystemFile,  \* /etc/hwprivacy/config.toml as a configuration, or None
    Presets,     \* presets: sequences of proposed rules
    Baseline,    \* the preset the installer imports into a new file
    Declared,    \* <<name, executable>> pairs that streams declare truthfully
    None,        \* no opinion, no executable, no rule, no file
    Garbage,     \* a file that does not parse
    MaxCalls,    \* bound: calls that change something
    MaxFaults    \* bound: failed writes and changes of binaries

Keys == {Sane[n] : n \in Names} \ {None}
Opinions == [Categories -> Permissions \cup {None}]
Rules == [app : Keys, says : Opinions, exe : Exes \cup {None}]
\* A name has one rule.
Unique(rules) == \A r, s \in rules : r.app = s.app => r = s

Configs == [rules : SUBSET Rules, default : Permissions]

\* A proposed rule of a preset; the first candidate that exists is its binary.
Entries == [name : Names, candidates : Seq(Exes), says : Opinions]

ASSUME StoreAssumption ==
    /\ Norm \in [Names -> Names]
    /\ Sane \in [Names -> Names \cup {None}] /\ None \notin Names
    \* Names carry at most one pasted label: a name that finds a rule is
    \* written under the name of that rule.
    /\ \A k \in Keys : Norm[k] = k
    /\ \A n \in Names : Norm[n] \in Keys => Sane[n] = Norm[n]
    /\ Absolute \subseteq Exes /\ None \notin Exes
    /\ ShortName \in [Exes -> Names]
    /\ "camera" \in Categories
    /\ {"allow", "deny"} \subseteq Permissions /\ None \notin Permissions
    /\ UserFiles \subseteq {cfg \in Configs : Unique(cfg.rules)}
    /\ SystemFile \in {cfg \in Configs : Unique(cfg.rules)} \cup {None}
    /\ Presets \subseteq Seq(Entries) /\ Baseline \in Seq(Entries)
    /\ Garbage \notin Configs /\ None \notin Configs /\ None # Garbage
    /\ Declared \subseteq Names \X Exes
    /\ MaxCalls \in Nat /\ MaxFaults \in Nat

VARIABLES
    config,     \* DaemonState.config
    file,       \* the user's config.toml: a configuration, None or Garbage
    present,    \* executables that exist, as the daemon resolves their paths
    asked,      \* executables a camera question is on the screen for
    ids,        \* DaemonState.identities: pairs and announced splits
    idFile,     \* identities.json
    calls,      \* bound: calls so far
    faults,     \* bound: faults so far
    answer,     \* history: what the last call told its caller
    saveFailed, \* history: the last save failed
    drafts,     \* history: what save was given since it last succeeded
    told,       \* history: how often a split was announced
    forgot      \* history: a restart lost identities that were not written

vars == <<config, file, present, asked, ids, idFile, calls, faults, answer,
          saveFailed, drafts, told, forgot>>

-----------------------------------------------------------------------------
\* Looking things up.
Named(rules, name) == {r \in rules : r.app = Norm[name]}
Owners(rules, exe) == {r \in rules : r.exe = exe}

\* Rules are kept without their order.  find_rule_by_exe returns the first
\* rule of the file that names the binary: any of them may be that one.
FirstOwners(rules) ==
    {first \in [Exes -> rules \cup {None}] :
        \A e \in Exes : IF Owners(rules, e) = {} THEN first[e] = None
                                                 ELSE first[e] \in Owners(rules, e)}

Permission(cfg, name, cat) ==
    LET stated == {r.says[cat] : r \in Named(cfg.rules, name)} \ {None}
    IN  IF stated = {} THEN cfg.default ELSE CHOOSE p \in stated : TRUE

\* The executables the daemon wants the kernel to let open the camera.
CameraAllowlist(rules) ==
    {r.exe : r \in {s \in rules : s.says["camera"] = "allow"}} \ {None}

\* Changing the table.
EmptyRule(key) == [app |-> key, says |-> [c \in Categories |-> None], exe |-> None]

Replace(rules, old, new) == (rules \ {old}) \cup {new}

\* set_rule refuses a name nothing can match and a session for the camera.
Settable(name, cat, perm) ==
    Sane[name] # None /\ ~(cat = "camera" /\ perm = "while_in_use")

WithOpinion(rules, key, cat, perm) ==
    LET old == IF Named(rules, key) = {} THEN EmptyRule(key)
                                         ELSE CHOOSE r \in Named(rules, key) : TRUE
    IN  Replace(rules, old, [old EXCEPT !.says[cat] = perm])

\* set_rule_exe refuses a name without a rule, and a path that is relative (the
\* kernel layer cannot match it) or does not exist; the empty path clears the
\* executable.
Attachable(rules, name, path) ==
    Named(rules, name) # {} /\ path \in (Absolute \cap present) \cup {None}

WithExe(rules, name, path) ==
    LET old == CHOOSE r \in Named(rules, name) : TRUE
    IN  Replace(rules, old, [old EXCEPT !.exe = path])

Without(rules, name) == rules \ Named(rules, name)

-----------------------------------------------------------------------------
\* The file.  Config::load takes the user's file, else the system's, else the
\* defaults; a file that does not parse counts as missing.
DefaultConfig == [rules |-> {}, default |-> "deny"]

\* Mutant: without a readable file everything is allowed.
LoadOpen(content) ==
    IF content \in {None, Garbage} THEN [DefaultConfig EXCEPT !.default = "allow"]
                                   ELSE content

Load(content) ==
    IF content \in {None, Garbage}
    THEN IF SystemFile = None THEN DefaultConfig ELSE SystemFile
    ELSE content

\* The lines of a rule are written in this order: name, opinions, executable.
\* Of a rule that is cut off, the executable and the last opinions are missing.
Heads == {{}, {"microphone"}, {"microphone", "camera"}, Categories}

CutOff(r) ==
    {[r EXCEPT !.says = [c \in Categories |-> IF c \in kept THEN r.says[c] ELSE None],
               !.exe = None] : kept \in Heads}

\* A write that ends inside a rule: some of the others, and what there is of it.
CutShort(cfg, r) ==
    UNION {{[cfg EXCEPT !.rules = part \cup {cut}] : part \in SUBSET (cfg.rules \ {r})} :
           cut \in CutOff(r)}

\* What a write that ends early leaves: nothing that parses, the settings
\* only, or some of the rules and a part of one more.  An empty file parses,
\* as the defaults.
Torn(cfg) ==
    {Garbage, DefaultConfig}
    \cup {[cfg EXCEPT !.rules = part] : part \in SUBSET cfg.rules}
    \cup (UNION {CutShort(cfg, r) : r \in cfg.rules})

\* A save that succeeds, and one that fails before or after the truncation.
Saved(cfg) ==
    /\ file' = cfg /\ drafts' = {cfg} /\ saveFailed' = FALSE
    /\ UNCHANGED faults

NotSaved(cfg) ==
    /\ faults < MaxFaults /\ faults' = faults + 1
    /\ file' \in {file} \cup Torn(cfg)
    /\ drafts' = drafts \cup {cfg} /\ saveFailed' = TRUE

Unwritten == UNCHANGED <<file, drafts, saveFailed, faults>>

Called(reply) ==
    /\ calls < MaxCalls /\ calls' = calls + 1
    /\ answer' = reply
    /\ UNCHANGED <<present, ids, idFile, told, forgot>>

-----------------------------------------------------------------------------
\* The D-Bus calls.  A call that is refused before it changed anything is no
\* step.
\* Mutant: the rule is stored under the name as it was given.
SetRuleRaw(name, cat, perm) ==
    /\ Settable(name, cat, perm)
    /\ config' = [config EXCEPT !.rules = WithOpinion(@, name, cat, perm)]
    /\ Called("done") /\ Saved(config')
    /\ UNCHANGED asked

\* set_rule answers TRUE whether or not the save succeeded.
SetRule(name, cat, perm) ==
    /\ Settable(name, cat, perm)
    /\ config' = [config EXCEPT !.rules = WithOpinion(@, Sane[name], cat, perm)]
    /\ Called("done")
    /\ Saved(config') \/ NotSaved(config')
    /\ UNCHANGED asked

\* A failed save is answered with "saved nothing"; the table keeps the change.
SetRuleExe(name, path) ==
    /\ Attachable(config.rules, name, path)
    /\ config' = [config EXCEPT !.rules = WithExe(@, name, path)]
    /\ \/ Called("done") /\ Saved(config')
       \/ Called("refused") /\ NotSaved(config')
    /\ UNCHANGED asked

\* The rule is written first; when the executable is then refused, the rule
\* of that name is removed, whatever else it said, and nothing is saved.
AllowCamera(name, path) ==
    /\ Settable(name, "camera", "allow")
    /\ LET granted == WithOpinion(config.rules, Sane[name], "camera", "allow")
       IN  \/ /\ Attachable(granted, name, path)
              /\ config' = [config EXCEPT !.rules = WithExe(granted, name, path)]
              /\ \/ Called("done") /\ Saved(config')
                 \/ Called("refused") /\ NotSaved(config')
           \/ /\ ~Attachable(granted, name, path)
              /\ config' = [config EXCEPT !.rules = Without(granted, name)]
              /\ Called("refused") /\ Unwritten
    /\ UNCHANGED asked

\* Mutant: only the reply tells of a removed rule.
RemoveRuleUnsaved(name) ==
    /\ config' = [config EXCEPT !.rules = Without(@, name)]
    /\ Called("done") /\ Unwritten
    /\ UNCHANGED asked

RemoveRule(name) ==
    /\ Named(config.rules, name) # {}
    /\ config' = [config EXCEPT !.rules = Without(@, name)]
    /\ Called("done")
    /\ Saved(config') \/ NotSaved(config')
    /\ UNCHANGED asked

-----------------------------------------------------------------------------
\* Two rules that look like one program: a rule without a binary, matching a
\* name a stream has declared, and a rule that owns the stream's binary.
Splits(rules, pairs, first) ==
    UNION {{<<r.app, first[p[2]].app>> :
                p \in {q \in pairs : /\ r.app = Norm[q[1]]
                                     /\ first[q[2]] # None /\ first[q[2]].app # r.app}} :
           r \in {s \in rules : s.exe = None}}

Conflict(a, b) == a # None /\ b # None /\ a # b

\* Config::merge_rules refuses, besides, a choice where there is nothing to
\* choose and a conflict without a choice.
Mergeable(source, target, choice) ==
    /\ source.app # target.app
    /\ choice["camera"] # "while_in_use"
    /\ ~Conflict(source.exe, target.exe)
    /\ \A c \in Categories :
          choice[c] # None <=> Conflict(source.says[c], target.says[c])

\* Mutant: where the rules differ, allow wins.
MergedOr(source, target, choice) ==
    [target EXCEPT
        !.exe = IF @ # None THEN @ ELSE source.exe,
        !.says = [c \in Categories |->
                    IF "allow" \in {source.says[c], target.says[c], choice[c]}
                    THEN "allow" ELSE target.says[c]]]

Merged(source, target, choice) ==
    [target EXCEPT
        !.exe = IF @ # None THEN @ ELSE source.exe,
        !.says = [c \in Categories |->
                    IF choice[c] # None THEN choice[c]
                    ELSE IF target.says[c] # None THEN target.says[c]
                                                  ELSE source.says[c]]]

\* The rule the streams' name matches has to be the one that stays.  A merge
\* whose save fails puts the old table back.  A preview changes nothing.
MergeRules(from, into, choice) ==
    /\ \E source \in Named(config.rules, from), target \in Named(config.rules, into) :
          LET after == [config EXCEPT !.rules =
                          (@ \ {source, target}) \cup {Merged(source, target, choice)}]
          IN  /\ Mergeable(source, target, choice)
              /\ \E first \in FirstOwners(config.rules) :
                    <<source.app, target.app>> \notin Splits(config.rules, ids.pairs, first)
              /\ \/ config' = after /\ Saved(after) /\ Called("merged")
                 \/ UNCHANGED config /\ NotSaved(after) /\ Called("refused")
    /\ UNCHANGED asked

-----------------------------------------------------------------------------
\* Presets.  The first candidate that exists is the executable.  path_exists
\* takes a relative one from the daemon's working directory.
Resolved(entry) ==
    LET hits == {i \in DOMAIN entry.candidates : entry.candidates[i] \in present}
    IN  IF hits = {} THEN None
        ELSE entry.candidates[CHOOSE i \in hits : \A j \in hits : i <= j]

\* Mutant: a camera is granted to a binary that is not here.
PlannedUnresolved(entry, rules) ==
    Sane[entry.name] # None /\ Named(rules, Sane[entry.name]) = {}

\* Preset::plan: an entry is skipped if its name is unusable, if there is a
\* rule for it, or if it wants the camera and no binary is here.
Planned(entry, rules) ==
    /\ Sane[entry.name] # None
    /\ Named(rules, Sane[entry.name]) = {}
    /\ entry.says["camera"] = "allow" => Resolved(entry) # None

Proposed(entry) == [app |-> Sane[entry.name], says |-> entry.says, exe |-> Resolved(entry)]

\* Mutant: the entries are pushed as planned.
AdditionsUnchecked(preset, rules) ==
    {Proposed(preset[i]) : i \in {j \in DOMAIN preset : Planned(preset[j], rules)}}

\* apply_preset looks again before each entry, so of two entries for one name
\* the first is added.
Additions(preset, rules) ==
    {Proposed(preset[i]) : i \in
        {j \in DOMAIN preset :
            /\ Planned(preset[j], rules)
            /\ \A k \in 1..(j - 1) :
                  Planned(preset[k], rules) => Sane[preset[k].name] # Sane[preset[j].name]}}

ImportPreset(preset) ==
    LET added == Additions(preset, config.rules)
    IN  /\ added # {}
        /\ config' = [config EXCEPT !.rules = @ \cup added]
        /\ Called("imported")
        /\ Saved(config') \/ NotSaved(config')
        /\ UNCHANGED asked

-----------------------------------------------------------------------------
\* The camera question of the kernel layer.
\* The rule an answer is written to: the one that owns the binary, else the
\* one of its short name.
Targets(exe) ==
    IF Owners(config.rules, exe) = {} THEN {ShortName[exe]}
                                      ELSE {r.app : r \in Owners(config.rules, exe)}

\* An executable that was denied is asked about, by the full path the kernel
\* gives, unless its rule says deny or a question for its short name is open.
AskCamera(exe) ==
    /\ exe \in Absolute \cap present /\ \A e \in asked : ShortName[e] # ShortName[exe]
    /\ \E target \in Targets(exe) :
          \A r \in Named(config.rules, target) : r.says["camera"] # "deny"
    /\ asked' = asked \cup {exe}
    /\ UNCHANGED <<config, file, present, ids, idFile, calls, faults, answer,
                   saveFailed, drafts, told, forgot>>

\* Mutant: the executable is not attached to a rule that exists.
AnswerCameraByName(exe, perm) ==
    /\ exe \in asked /\ asked' = asked \ {exe}
    /\ config' = [config EXCEPT !.rules =
                    WithOpinion(@, Sane[ShortName[exe]], "camera", perm)]
    /\ Called(perm) /\ Saved(config')

\* Without a rule of that name one is created, which denies; then the binary
\* is attached; then the answer is written.  Only the last is followed by a save.
AnswerCamera(exe, perm) ==
    /\ exe \in asked /\ asked' = asked \ {exe}
    /\ \E target \in Targets(exe) :
          LET known == Named(config.rules, target) # {}
              created == IF known THEN config.rules
                         ELSE WithOpinion(config.rules, Sane[target], "camera", "deny")
              usable == known \/ Sane[target] # None
          IN  \/ /\ usable /\ Attachable(created, target, exe)
                 /\ config' = [config EXCEPT !.rules =
                       WithOpinion(WithExe(created, target, exe), Sane[target], "camera", perm)]
                 /\ Called(perm)
                 /\ Saved(config') \/ NotSaved(config')
              \/ /\ ~(usable /\ Attachable(created, target, exe))
                 /\ config' = IF usable THEN [config EXCEPT !.rules = created] ELSE config
                 /\ Called("refused") /\ Unwritten

DismissCamera(exe) ==
    /\ exe \in asked /\ asked' = asked \ {exe}
    /\ UNCHANGED <<config, file, present, ids, idFile, calls, faults, answer,
                   saveFailed, drafts, told, forgot>>

-----------------------------------------------------------------------------
\* Identities.  Each update of the graph shows some streams; only a pair that
\* touches a rule is kept.  Splits not announced before are announced, after
\* the table was written, by a file that replaces the old one in one step.
Touches(rules, pair) == Named(rules, pair[1]) # {} \/ Owners(rules, pair[2]) # {}

\* Mutant: announced splits are not remembered.
AnnouncedOnly(announced, fresh) == announced

Announced(announced, fresh) == announced \cup fresh

Observe(seen) ==
    /\ \E first \in FirstOwners(config.rules) :
          LET pairs == ids.pairs \cup {p \in seen : Touches(config.rules, p)}
              fresh == Splits(config.rules, pairs, first) \ ids.announced
          IN  /\ ids' = [pairs |-> pairs, announced |-> Announced(ids.announced, fresh)]
              /\ told' = [s \in DOMAIN told |-> IF s \in fresh THEN told[s] + 1 ELSE told[s]]
    /\ \/ idFile' = ids' /\ UNCHANGED faults
       \/ /\ ids' # idFile
          /\ faults < MaxFaults /\ faults' = faults + 1
          /\ UNCHANGED idFile
    /\ \A s \in DOMAIN told : told'[s] <= 2   \* bound
    /\ UNCHANGED <<config, file, present, asked, calls, answer, saveFailed, drafts, forgot>>

-----------------------------------------------------------------------------
\* The daemon ends, by itself or by a crash, and starts again.
Restart ==
    /\ config' = Load(file) /\ drafts' = {config'} /\ saveFailed' = FALSE
    /\ ids' = idFile
    /\ asked' = {}
    /\ answer' = "none"
    /\ forgot' = (forgot \/ ids.announced # idFile.announced)
    /\ UNCHANGED <<file, present, idFile, calls, faults, told>>

\* Programs are installed and removed.
BinaryChanges(exe) ==
    /\ faults < MaxFaults /\ faults' = faults + 1
    /\ present' = IF exe \in present THEN present \ {exe} ELSE present \cup {exe}
    /\ UNCHANGED <<config, file, asked, ids, idFile, calls, answer, saveFailed,
                   drafts, told, forgot>>

-----------------------------------------------------------------------------
NoIds == [pairs |-> {}, announced |-> {}]

\* The installer writes the defaults and the baseline preset where the user
\* has no file.
InstalledFile == [DefaultConfig EXCEPT !.rules = Additions(Baseline, {})]

\* The daemon starts on a file of the user's, of the installer's, or on none.
Init ==
    /\ present \in SUBSET Exes
    /\ file \in {None, InstalledFile} \cup UserFiles
    /\ config = Load(file) /\ drafts = {config}
    /\ asked = {}
    /\ ids = NoIds /\ idFile = NoIds
    /\ calls = 0 /\ faults = 0
    /\ answer = "none" /\ saveFailed = FALSE
    /\ told = [s \in Keys \X Keys |-> 0]
    /\ forgot = FALSE

Choices == [Categories -> Permissions \cup {None}]

Next ==
    \/ \E n \in Names, c \in Categories, p \in Permissions : SetRule(n, c, p)
    \/ \E n \in Names, e \in Exes \cup {None} : SetRuleExe(n, e)
    \/ \E n \in Names, e \in Exes \cup {None} : AllowCamera(n, e)
    \/ \E n \in Names : RemoveRule(n)
    \/ \E from, into \in Names, choice \in Choices : MergeRules(from, into, choice)
    \/ \E preset \in Presets : ImportPreset(preset)
    \/ \E e \in Exes : AskCamera(e) \/ DismissCamera(e)
    \/ \E e \in Exes, p \in {"allow", "deny"} : AnswerCamera(e, p)
    \/ Observe({}) \/ \E p \in Declared : Observe({p})
    \/ Restart
    \/ \E e \in Exes : BinaryChanges(e)

Spec == Init /\ [][Next]_vars

-----------------------------------------------------------------------------
\* Every variable keeps its type, and no rule is stored under a name that a
\* look-up would not find.
TypeOK ==
    /\ config \in Configs
    /\ file \in Configs \cup {None, Garbage}
    /\ present \subseteq Exes /\ asked \subseteq Exes
    /\ ids \in [pairs : SUBSET Declared, announced : SUBSET (Keys \X Keys)]
    /\ idFile \in [pairs : SUBSET Declared, announced : SUBSET (Keys \X Keys)]
    /\ calls \in 0..MaxCalls /\ faults \in 0..MaxFaults
    /\ answer \in {"none", "refused", "done", "merged", "imported", "allow", "deny"}
    /\ saveFailed \in BOOLEAN /\ forgot \in BOOLEAN
    /\ drafts \subseteq Configs
    /\ told \in [Keys \X Keys -> 0..2]

\* A name has one rule, in the table and in every file that can be loaded:
\* find_rule stops at the first, so a second one would be a permission the
\* user sees and nothing obeys.  set_rule and apply_preset look before they
\* push, merge_rules takes one rule out, a torn file repeats none.
OneRulePerName ==
    /\ \A cfg \in drafts \cup {config} : Unique(cfg.rules)
    /\ file \notin {None, Garbage} => Unique(file.rules)

\* What a call reported as done survives a restart, unless its save failed:
\* no path from a changed table to a good answer leaves the file behind.
DoneIsDurable ==
    answer \notin {"none", "refused"} => saveFailed \/ file = config

\* However saves were cut off, a restart grants nothing anew: what is allowed
\* after it was allowed by a configuration that was given to save, or by the
\* system's file.  (Unless applications without a rule are allowed anyway.)
RestartGrantsNothing ==
    [][answer' = "none" =>
        LET sources == drafts \cup ({SystemFile} \ {None})
        IN  /\ CameraAllowlist(config'.rules)
                  \subseteq UNION {CameraAllowlist(s.rules) : s \in sources}
            /\ (\A s \in sources : s.default # "allow") =>
                  \A n \in Names, c \in Categories :
                     Permission(config', n, c) = "allow"
                        => \E s \in sources : Permission(s, n, c) = "allow"]_vars

\* A merge decides nothing by itself: of two rules one is left under its own
\* name, every opinion both held or one held alone stands, no executable comes
\* or goes, and no other rule is touched.
MergeNeverGuesses ==
    [][answer' = "merged" /\ calls' # calls =>
        \E s, t \in config.rules : \E m \in config'.rules :
           /\ s # t /\ config'.rules \ {m} = config.rules \ {s, t}
           /\ m.app = t.app
           /\ {m.exe} \cup {None} = {s.exe, t.exe} \cup {None}
           /\ \A c \in Categories :
                 ~Conflict(s.says[c], t.says[c])
                    => {m.says[c]} \cup {None} = {s.says[c], t.says[c]} \cup {None}]_vars

\* An import leaves every rule alone, and the rule every name has that has one,
\* whatever spelling the preset gives it.  Every camera it grants, it grants to
\* a file that is here.  (That file need not be one the kernel layer can match:
\* unlike set_rule_exe, an import takes a relative path.)
ImportOnlyAdds ==
    [][answer' = "imported" /\ calls' # calls =>
        /\ config.rules \subseteq config'.rules
        /\ \A n \in Names :
              Named(config.rules, n) # {} => Named(config'.rules, n) = Named(config.rules, n)
        /\ \A r \in config'.rules \ config.rules :
              r.says["camera"] = "allow" => r.exe \in present]_vars

\* The answer to a camera question decides about the binary that was asked
\* about: allowed, it is on the kernel's list; denied, only a second rule that
\* named it before, too, can leave it there.
AnswerIsObeyed ==
    [][\A e \in asked \ asked' : calls' # calls =>
         /\ answer' = "allow" => e \in CameraAllowlist(config'.rules)
         /\ answer' = "deny"
               => /\ \E r \in config'.rules : r.exe = e /\ r.says["camera"] = "deny"
                  /\ e \notin CameraAllowlist(config'.rules \ config.rules)]_vars

\* A split is announced once, not at every login: only a failed write of
\* identities.json, followed by a restart, repeats it.
SplitAnnouncedOnce == forgot \/ \A s \in DOMAIN told : told[s] <= 1
=============================================================================
