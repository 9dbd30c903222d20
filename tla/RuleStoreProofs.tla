-------------------------- MODULE RuleStoreProofs --------------------------
(***************************************************************************)
(* Theorems about RuleStore, for any names, executables, categories and    *)
(* presets: a name has one rule whatever is called and whatever is cut     *)
(* off, and what follows from it.                                          *)
(***************************************************************************)
EXTENDS RuleStore, WellFoundedInduction, TLAPS

USE StoreAssumption

-----------------------------------------------------------------------------
(* A table as the code keeps it: rules under stored names, one of each.    *)
Table(rules) == rules \subseteq Rules /\ Unique(rules)

Sound(cfg) == cfg \in Configs /\ Table(cfg.rules)

(* A stored name is a name, and the one it is looked up under.             *)
LEMMA KeyNames == Keys \subseteq Names /\ \A k \in Keys : Norm[k] = k /\ Sane[k] = k
BY DEF Keys

(* The rules of a name.                                                    *)
LEMMA NamedRules ==
    ASSUME NEW rules, Table(rules), NEW name
    PROVE  /\ \A r \in Named(rules, name) : r \in rules /\ r \in Rules /\ r.app = Norm[name]
           /\ \A r \in rules : r.app = Norm[name] => r \in Named(rules, name)
BY DEF Named, Table

(* One rule takes the place of another of its name, or of none.            *)
LEMMA ReplaceKeeps ==
    ASSUME NEW rules, Table(rules), NEW old, NEW new \in Rules,
           \A r \in rules : r.app = new.app => r = old
    PROVE  Table(Replace(rules, old, new))
BY DEF Table, Unique, Replace

(* set_rule writes one opinion of one rule.                                *)
LEMMA OpinionKeeps ==
    ASSUME NEW rules, Table(rules), NEW key \in Keys, NEW cat \in Categories, NEW perm \in Permissions
    PROVE  Table(WithOpinion(rules, key, cat, perm))
<1> DEFINE old == IF Named(rules, key) = {} THEN EmptyRule(key)
                                            ELSE CHOOSE r \in Named(rules, key) : TRUE
           new == [old EXCEPT !.says[cat] = perm]
<1>1. Norm[key] = key
  BY KeyNames
<1>2. old \in Rules /\ old.app = key
  <2>1. CASE Named(rules, key) = {}
    <3>1. EmptyRule(key) \in Rules /\ EmptyRule(key).app = key
      BY DEF EmptyRule, Rules, Opinions
    <3>2. QED
      BY <2>1, <3>1
  <2>2. CASE Named(rules, key) # {}
    <3>1. (CHOOSE r \in Named(rules, key) : TRUE) \in Named(rules, key)
      BY <2>2
    <3>2. QED
      BY <1>1, <2>2, <3>1, NamedRules
  <2>3. QED
    BY <2>1, <2>2
<1>3. \A r \in rules : r.app = key => r = old
  <2> SUFFICES ASSUME NEW r \in rules, r.app = key
               PROVE  r = old
    OBVIOUS
  <2>1. r \in Named(rules, key)
    BY <1>1, NamedRules
  <2>2. (CHOOSE q \in Named(rules, key) : TRUE) \in Named(rules, key)
    BY <2>1
  <2>3. old \in rules /\ old.app = key
    BY <1>1, <2>1, <2>2, NamedRules
  <2>4. QED
    BY <2>3 DEF Table, Unique
<1>4. WithOpinion(rules, key, cat, perm) = Replace(rules, old, new)
  BY DEF WithOpinion
<1> HIDE DEF old
<1>5. new \in Rules /\ new.app = key
  <2>1. old.says \in Opinions /\ [old.says EXCEPT ![cat] = perm] \in Opinions
    BY <1>2 DEF Rules, Opinions
  <2>2. new = [old EXCEPT !.says = [old.says EXCEPT ![cat] = perm]]
    OBVIOUS
  <2>3. QED
    BY <1>2, <2>1, <2>2 DEF Rules
<1> HIDE DEF new
<1>6. QED
  BY <1>3, <1>4, <1>5, ReplaceKeeps

(* set_rule_exe writes the executable of one rule.                         *)
LEMMA ExeKeeps ==
    ASSUME NEW rules, Table(rules), NEW name, Named(rules, name) # {}, NEW path \in Exes \cup {None}
    PROVE  Table(WithExe(rules, name, path))
<1> DEFINE old == CHOOSE r \in Named(rules, name) : TRUE
           new == [old EXCEPT !.exe = path]
<1>1. old \in rules /\ old \in Rules /\ old.app = Norm[name]
  BY NamedRules
<1>2. WithExe(rules, name, path) = Replace(rules, old, new)
  BY DEF WithExe
<1> HIDE DEF old
<1>3. new \in Rules /\ new.app = old.app
  BY <1>1 DEF Rules
<1>4. \A r \in rules : r.app = old.app => r = old
  BY <1>1 DEF Table, Unique
<1> HIDE DEF new
<1>5. QED
  BY <1>2, <1>3, <1>4, ReplaceKeeps

(* A part of a table is a table.                                           *)
LEMMA PartKeeps ==
    ASSUME NEW rules, Table(rules), NEW part \in SUBSET rules
    PROVE  Table(part)
BY DEF Table, Unique

(* The rule a merge leaves.                                                *)
LEMMA MergedRule ==
    ASSUME NEW source \in Rules, NEW target \in Rules, NEW choice \in Choices
    PROVE  /\ Merged(source, target, choice) \in Rules
           /\ Merged(source, target, choice).app = target.app
<1> DEFINE says == [c \in Categories |-> IF choice[c] # None THEN choice[c]
                                         ELSE IF target.says[c] # None THEN target.says[c]
                                                                       ELSE source.says[c]]
           exe == IF target.exe # None THEN target.exe ELSE source.exe
           m == Merged(source, target, choice)
<1>1. says \in Opinions
  BY DEF Rules, Opinions, Choices
<1>2. exe \in Exes \cup {None}
  BY DEF Rules
<1>3. m = [target EXCEPT !.exe = exe, !.says = says]
  BY DEF Merged, Rules
<1> HIDE DEF says, exe, m
<1>4. m \in Rules /\ m.app = target.app
  BY <1>1, <1>2, <1>3 DEF Rules
<1>5. QED
  BY <1>4 DEF m

(* merge_rules leaves one rule where there were two.                       *)
LEMMA MergeKeeps ==
    ASSUME NEW rules, Table(rules), NEW source \in rules, NEW target \in rules, source # target,
           NEW m \in Rules, m.app = target.app
    PROVE  /\ Table((rules \ {source, target}) \cup {m})
           /\ m \notin rules \ {source, target}
<1>1. \A r \in rules \ {source, target} : r.app # target.app
  BY DEF Table, Unique
<1>2. QED
  BY <1>1 DEF Table, Unique

(* A set of numbers that is not empty has a least one.                     *)
LEMMA Least ==
    ASSUME NEW hits \in SUBSET Nat, hits # {}
    PROVE  \E i \in hits : \A j \in hits : i <= j
<1> DEFINE R == OpToRel(<, Nat)
<1>1. PICK i \in hits : \A j \in hits : <<j, i>> \notin R
  <2>1. IsWellFoundedOn(R, Nat)
    BY NatLessThanWellFounded
  <2> HIDE DEF R
  <2>2. QED
    BY <2>1, WFMin
<1>2. \A j \in hits : ~(j < i)
  BY <1>1 DEF OpToRel
<1>3. QED
  BY <1>2

(* The binary of a proposed rule is one that is here.                      *)
LEMMA ResolvedHere ==
    ASSUME NEW entry \in Entries
    PROVE  Resolved(entry) \in (Exes \cap present) \cup {None}
<1> DEFINE hits == {i \in DOMAIN entry.candidates : entry.candidates[i] \in present}
           i == CHOOSE i \in hits : \A j \in hits : i <= j
<1>1. Resolved(entry) = IF hits = {} THEN None ELSE entry.candidates[i]
  BY DEF Resolved
<1>2. entry.candidates \in Seq(Exes)
  BY DEF Entries
<1>3. hits \in SUBSET Nat /\ hits \in SUBSET DOMAIN entry.candidates
  BY <1>2
<1>4. \A k \in hits : entry.candidates[k] \in Exes \cap present
  BY <1>2
<1> HIDE DEF hits
<1>5. hits # {} => i \in hits
  BY <1>3, Least
<1> HIDE DEF i
<1>6. QED
  BY <1>1, <1>4, <1>5

(* What an import adds: rules of stored names that had none, one for each, *)
(* and a camera only for a binary that is here.                            *)
LEMMA AdditionsKeep ==
    ASSUME NEW rules, Table(rules), NEW preset \in Seq(Entries)
    PROVE  /\ Table(rules \cup Additions(preset, rules))
           /\ \A r \in Additions(preset, rules), s \in rules : r.app # s.app
           /\ \A r \in Additions(preset, rules) : r.says["camera"] = "allow" => r.exe \in present
<1> DEFINE I == {j \in DOMAIN preset :
                    /\ Planned(preset[j], rules)
                    /\ \A k \in 1..(j - 1) :
                          Planned(preset[k], rules) => Sane[preset[k].name] # Sane[preset[j].name]}
<1>1. \A j \in DOMAIN preset : j \in Nat /\ j > 0 /\ preset[j] \in Entries
  OBVIOUS
<1>2. \A k, j \in DOMAIN preset : k < j => k \in 1..(j - 1)
  BY <1>1
<1>3. /\ I \subseteq DOMAIN preset
      /\ \A j \in I : Planned(preset[j], rules)
      /\ \A j, k \in I : k < j => Sane[preset[k].name] # Sane[preset[j].name]
  BY <1>2
<1>4. Additions(preset, rules) = {Proposed(preset[j]) : j \in I}
  BY DEF Additions
<1> HIDE DEF I
<1>5. ASSUME NEW j \in I, NEW k \in I, Sane[preset[k].name] = Sane[preset[j].name]
      PROVE  k = j
  <2>1. ~(k < j) /\ ~(j < k)
    BY <1>3, <1>5
  <2>2. j \in Nat /\ k \in Nat
    BY <1>1, <1>3
  <2>3. QED
    BY <2>1, <2>2
<1>6. ASSUME NEW j \in I
      PROVE  /\ Proposed(preset[j]) \in Rules
             /\ Proposed(preset[j]).app = Sane[preset[j].name]
             /\ \A r \in rules : r.app # Proposed(preset[j]).app
             /\ Proposed(preset[j]).says["camera"] = "allow" => Proposed(preset[j]).exe \in present
  <2>1. preset[j] \in Entries /\ Planned(preset[j], rules)
    BY <1>1, <1>3
  <2>2. preset[j].name \in Names /\ preset[j].says \in Opinions
    BY <2>1 DEF Entries
  <2>3. Sane[preset[j].name] \in Keys
    BY <2>1, <2>2 DEF Planned, Keys
  <2>4. Resolved(preset[j]) \in (Exes \cap present) \cup {None}
    BY <2>1, ResolvedHere
  <2>5. Proposed(preset[j]) \in Rules /\ Proposed(preset[j]).app = Sane[preset[j].name]
    BY <2>2, <2>3, <2>4 DEF Proposed, Rules
  <2>6. \A r \in rules : r.app # Sane[preset[j].name]
    BY <2>1, <2>3, KeyNames DEF Planned, Named
  <2>7. Proposed(preset[j]).says["camera"] = "allow" => Proposed(preset[j]).exe \in present
    BY <2>1, <2>4 DEF Proposed, Planned
  <2>8. QED
    BY <2>5, <2>6, <2>7
<1>7. QED
  BY <1>4, <1>5, <1>6 DEF Table, Unique

-----------------------------------------------------------------------------
(* What can be on disk.                                                    *)

\* A configuration that says nothing beyond another: rules and opinions may
\* be missing, and the default may be the strictest.
Within(part, whole) ==
    /\ part.default \in {whole.default, "deny"}
    /\ \A r \in part.rules : \E s \in whole.rules :
          /\ s.app = r.app /\ r.exe \in {s.exe, None}
          /\ \A c \in Categories : r.says[c] \in {s.says[c], None}

(* A whole is within itself.                                               *)
LEMMA WithinItself ==
    ASSUME NEW cfg
    PROVE  Within(cfg, cfg)
BY DEF Within

(* The defaults are sound, and within anything.                            *)
LEMMA DefaultSound ==
    /\ Sound(DefaultConfig)
    /\ \A cfg : Within(DefaultConfig, cfg)
BY DEF Sound, DefaultConfig, Configs, Table, Unique, Within

(* A rule whose last lines are missing.                                    *)
LEMMA CutRule ==
    ASSUME NEW r \in Rules, NEW cut \in CutOff(r)
    PROVE  /\ cut \in Rules /\ cut.app = r.app /\ cut.exe = None
           /\ \A c \in Categories : cut.says[c] \in {r.says[c], None}
<1>1. PICK kept \in Heads :
          cut = [r EXCEPT !.says = [c \in Categories |-> IF c \in kept THEN r.says[c] ELSE None],
                          !.exe = None]
  BY DEF CutOff
<1> DEFINE says == [c \in Categories |-> IF c \in kept THEN r.says[c] ELSE None]
<1>2. says \in Opinions /\ \A c \in Categories : says[c] \in {r.says[c], None}
  BY DEF Rules, Opinions
<1>3. cut = [r EXCEPT !.says = says, !.exe = None]
  BY <1>1
<1> HIDE DEF says
<1>4. QED
  BY <1>2, <1>3 DEF Rules

(* What a write that ends early leaves is a sound configuration that says  *)
(* nothing beyond what was written, or does not parse.                     *)
LEMMA TornSound ==
    ASSUME NEW cfg, Sound(cfg), NEW content \in Torn(cfg)
    PROVE  content = Garbage \/ (Sound(content) /\ Within(content, cfg))
<1>1. CASE content = DefaultConfig
  BY <1>1, DefaultSound
<1>2. ASSUME NEW part \in SUBSET cfg.rules, content = [cfg EXCEPT !.rules = part]
      PROVE  Sound(content) /\ Within(content, cfg)
  <2>1. content \in Configs /\ content.rules = part /\ content.default = cfg.default
    BY <1>2 DEF Sound, Configs, Table
  <2>2. Table(part)
    BY PartKeeps DEF Sound
  <2>3. QED
    BY <2>1, <2>2 DEF Sound, Within
<1>3. ASSUME NEW r \in cfg.rules, NEW part \in SUBSET (cfg.rules \ {r}), NEW cut \in CutOff(r),
             content = [cfg EXCEPT !.rules = part \cup {cut}]
      PROVE  Sound(content) /\ Within(content, cfg)
  <2>1. r \in Rules /\ cfg.rules \subseteq Rules /\ Unique(cfg.rules)
    BY DEF Sound, Table
  <2>2. /\ cut \in Rules /\ cut.app = r.app /\ cut.exe = None
        /\ \A c \in Categories : cut.says[c] \in {r.says[c], None}
    BY <2>1, CutRule
  <2>3. content \in Configs /\ content.rules = part \cup {cut} /\ content.default = cfg.default
    BY <1>3, <2>1, <2>2 DEF Sound, Configs
  <2>4. Table(part \cup {cut})
    BY <2>1, <2>2 DEF Table, Unique
  <2>5. \A q \in part \cup {cut} : \E s \in cfg.rules :
            /\ s.app = q.app /\ q.exe \in {s.exe, None}
            /\ \A c \in Categories : q.says[c] \in {s.says[c], None}
    BY <2>2
  <2>6. QED
    BY <2>3, <2>4, <2>5 DEF Sound, Within
<1>4. Torn(cfg) = {Garbage, DefaultConfig}
                    \cup {[cfg EXCEPT !.rules = part] : part \in SUBSET cfg.rules}
                    \cup (UNION {CutShort(cfg, r) : r \in cfg.rules})
  BY DEF Torn
<1>5. ASSUME NEW r \in cfg.rules, content \in CutShort(cfg, r)
      PROVE  Sound(content) /\ Within(content, cfg)
  <2> DEFINE Parts(cut) == {[cfg EXCEPT !.rules = part \cup {cut}] : part \in SUBSET (cfg.rules \ {r})}
  <2>1. CutShort(cfg, r) = UNION {Parts(cut) : cut \in CutOff(r)}
    BY DEF CutShort
  <2>2. ASSUME NEW cut \in CutOff(r), content \in Parts(cut)
        PROVE  Sound(content) /\ Within(content, cfg)
    <3>1. PICK part \in SUBSET (cfg.rules \ {r}) : content = [cfg EXCEPT !.rules = part \cup {cut}]
      BY <2>2
    <3>2. QED
      BY <1>3, <3>1
  <2> HIDE DEF Parts
  <2>3. PICK cut \in CutOff(r) : content \in Parts(cut)
    BY <1>5, <2>1
  <2>4. QED
    BY <2>2, <2>3
<1>6. CASE content \in UNION {CutShort(cfg, r) : r \in cfg.rules}
  <2>1. PICK r \in cfg.rules : content \in CutShort(cfg, r)
    BY <1>6
  <2>2. QED
    BY <1>5, <2>1
<1>7. CASE content \in {[cfg EXCEPT !.rules = part] : part \in SUBSET cfg.rules}
  <2>1. PICK part \in SUBSET cfg.rules : content = [cfg EXCEPT !.rules = part]
    BY <1>7
  <2>2. QED
    BY <1>2, <2>1
<1>8. \/ content \in {Garbage, DefaultConfig}
      \/ content \in {[cfg EXCEPT !.rules = part] : part \in SUBSET cfg.rules}
      \/ content \in UNION {CutShort(cfg, r) : r \in cfg.rules}
  BY <1>4
<1>9. QED
  BY <1>1, <1>6, <1>7, <1>8

(* What is loaded is sound.                                                *)
LEMMA LoadSound ==
    ASSUME NEW content, content \in {None, Garbage} \/ Sound(content)
    PROVE  /\ Sound(Load(content))
           /\ content \notin {None, Garbage} => Load(content) = content
           /\ content \in {None, Garbage} => Load(content) \in {DefaultConfig, SystemFile}
           /\ content \in {None, Garbage} /\ SystemFile # None => Load(content) = SystemFile
BY DefaultSound DEF Load, Sound, Table, Configs

(* What is allowed in a part is allowed in the whole.                      *)
LEMMA WithinAllows ==
    ASSUME NEW part, NEW whole, Sound(part), Sound(whole), Within(part, whole)
    PROVE  /\ CameraAllowlist(part.rules) \subseteq CameraAllowlist(whole.rules)
           /\ whole.default # "allow" =>
                 \A n \in Names, c \in Categories :
                    Permission(part, n, c) = "allow" => Permission(whole, n, c) = "allow"
<1>1. CameraAllowlist(part.rules) \subseteq CameraAllowlist(whole.rules)
  <2> SUFFICES ASSUME NEW e \in CameraAllowlist(part.rules)
               PROVE  e \in CameraAllowlist(whole.rules)
    OBVIOUS
  <2>1. PICK r \in part.rules : r.says["camera"] = "allow" /\ r.exe = e /\ e # None
    BY DEF CameraAllowlist
  <2>2. PICK s \in whole.rules : r.exe \in {s.exe, None} /\ r.says["camera"] \in {s.says["camera"], None}
    BY DEF Within
  <2>3. s.says["camera"] = "allow" /\ s.exe = e
    BY <2>1, <2>2
  <2>4. QED
    BY <2>1, <2>3 DEF CameraAllowlist
<1>2. ASSUME whole.default # "allow", NEW n \in Names, NEW c \in Categories,
             Permission(part, n, c) = "allow"
      PROVE  Permission(whole, n, c) = "allow"
  <2> DEFINE says(cfg) == {r.says[c] : r \in Named(cfg.rules, n)} \ {None}
  <2>1. \A cfg : Permission(cfg, n, c) = IF says(cfg) = {} THEN cfg.default ELSE CHOOSE p \in says(cfg) : TRUE
    BY DEF Permission
  <2>2. says(part) # {}
    BY <1>2, <2>1 DEF Within
  <2>3. "allow" \in says(part)
    <3>1. (CHOOSE p \in says(part) : TRUE) \in says(part)
      BY <2>2
    <3>2. QED
      BY <1>2, <2>1, <2>2, <3>1
  <2>4. PICK r \in part.rules : r.app = Norm[n] /\ r.says[c] = "allow"
    BY <2>3, NamedRules DEF Sound
  <2>5. PICK s \in whole.rules : s.app = r.app /\ r.says[c] \in {s.says[c], None}
    BY DEF Within
  <2>6. s \in Named(whole.rules, n) /\ s.says[c] = "allow" /\ "allow" # None
    BY <2>4, <2>5, NamedRules DEF Sound
  <2>7. Named(whole.rules, n) = {s}
    BY <2>4, <2>5, <2>6, NamedRules DEF Sound, Table, Unique
  <2>8. says(whole) = {"allow"}
    BY <2>6, <2>7
  <2>9. (CHOOSE p \in {"allow"} : TRUE) = "allow"
    OBVIOUS
  <2>10. QED
    BY <2>1, <2>8, <2>9
<1>3. QED
  BY <1>1, <1>2

-----------------------------------------------------------------------------
(* The configuration in memory, what was given to save, and the file.      *)
StoreInvariant ==
    /\ Sound(config)
    /\ \A d \in drafts : Sound(d)
    /\ file \notin {None, Garbage} => Sound(file) /\ \E d \in drafts : Within(file, d)
    /\ answer = "none" => config \in drafts
    /\ answer \notin {"none", "refused"} => saveFailed \/ file = config

(* A save, of whatever outcome, of a sound configuration.                  *)
LEMMA SaveKeeps ==
    ASSUME StoreInvariant, NEW cfg, Sound(cfg), Saved(cfg) \/ NotSaved(cfg)
    PROVE  /\ \A d \in drafts' : Sound(d)
           /\ file' \notin {None, Garbage} => Sound(file') /\ \E d \in drafts' : Within(file', d)
           /\ saveFailed' \/ file' = cfg
<1>1. CASE Saved(cfg)
  BY <1>1, WithinItself DEF Saved
<1>2. CASE NotSaved(cfg)
  <2>1. drafts' = drafts \cup {cfg} /\ saveFailed' /\ file' \in {file} \cup Torn(cfg)
    BY <1>2 DEF NotSaved
  <2>2. QED
    BY <2>1, TornSound DEF StoreInvariant
<1>3. QED
  BY <1>1, <1>2

(* A call that leaves a sound configuration and saves it, or says no.      *)
LEMMA CallKeeps ==
    ASSUME StoreInvariant, NEW reply, Called(reply), reply # "none", Sound(config'),
           \/ Saved(config') \/ NotSaved(config')
           \/ reply = "refused" /\ Unwritten
           \/ reply = "refused" /\ \E cfg : Sound(cfg) /\ NotSaved(cfg)
    PROVE  StoreInvariant'
<1>1. answer' = reply
  BY DEF Called
<1>2. CASE Saved(config') \/ NotSaved(config')
  BY <1>1, <1>2, SaveKeeps DEF StoreInvariant
<1>3. CASE reply = "refused" /\ Unwritten
  BY <1>1, <1>3 DEF Unwritten, StoreInvariant
<1>4. ASSUME reply = "refused", NEW cfg, Sound(cfg), NotSaved(cfg)
      PROVE  StoreInvariant'
  BY <1>1, <1>4, SaveKeeps DEF StoreInvariant
<1>5. QED
  BY <1>2, <1>3, <1>4

(* A configuration with another table.                                     *)
LEMMA SoundTable ==
    ASSUME Sound(config), NEW rules, Table(rules), config' = [config EXCEPT !.rules = rules]
    PROVE  Sound(config') /\ config'.rules = rules
BY DEF Sound, Configs, Table

(* The rule of a name that set_rule takes.                                 *)
LEMMA SettableKey ==
    ASSUME NEW n \in Names, Sane[n] # None
    PROVE  Sane[n] \in Keys
BY DEF Keys

(* The calls that change one rule.                                         *)
LEMMA EditsKeep ==
    ASSUME StoreInvariant, NEW n \in Names,
           \/ \E c \in Categories, q \in Permissions : SetRule(n, c, q)
           \/ \E e \in Exes \cup {None} : SetRuleExe(n, e) \/ AllowCamera(n, e)
           \/ RemoveRule(n)
    PROVE  StoreInvariant'
<1>1. Sound(config) /\ Table(config.rules)
  BY DEF StoreInvariant, Sound
<1>2. Table(Without(config.rules, n))
  BY <1>1, PartKeeps DEF Without
<1>3. ASSUME NEW c \in Categories, NEW q \in Permissions, SetRule(n, c, q)
      PROVE  StoreInvariant'
  <2>1. Table(WithOpinion(config.rules, Sane[n], c, q))
    BY <1>1, <1>3, SettableKey, OpinionKeeps DEF SetRule, Settable
  <2>2. config' = [config EXCEPT !.rules = WithOpinion(config.rules, Sane[n], c, q)]
    BY <1>3 DEF SetRule
  <2>3. Called("done") /\ (Saved(config') \/ NotSaved(config'))
    BY <1>3 DEF SetRule
  <2>4. QED
    BY <1>1, <2>1, <2>2, <2>3, SoundTable, CallKeeps
<1>4. ASSUME NEW e \in Exes \cup {None}, SetRuleExe(n, e)
      PROVE  StoreInvariant'
  <2>1. Table(WithExe(config.rules, n, e))
    BY <1>1, <1>4, ExeKeeps DEF SetRuleExe, Attachable
  <2>2. config' = [config EXCEPT !.rules = WithExe(config.rules, n, e)]
    BY <1>4 DEF SetRuleExe
  <2>3. Sound(config')
    BY <1>1, <2>1, <2>2, SoundTable
  <2>4. \/ Called("done") /\ Saved(config')
        \/ Called("refused") /\ NotSaved(config')
    BY <1>4 DEF SetRuleExe
  <2>5. QED
    BY <2>3, <2>4, CallKeeps
<1>5. ASSUME NEW e \in Exes \cup {None}, AllowCamera(n, e)
      PROVE  StoreInvariant'
  <2> DEFINE granted == WithOpinion(config.rules, Sane[n], "camera", "allow")
  <2>1. Table(granted)
    BY <1>1, <1>5, SettableKey, OpinionKeeps DEF AllowCamera, Settable
  <2>2. \/ /\ Attachable(granted, n, e)
           /\ config' = [config EXCEPT !.rules = WithExe(granted, n, e)]
           /\ \/ Called("done") /\ Saved(config')
              \/ Called("refused") /\ NotSaved(config')
        \/ /\ config' = [config EXCEPT !.rules = Without(granted, n)]
           /\ Called("refused") /\ Unwritten
    BY <1>5 DEF AllowCamera
  <2> HIDE DEF granted
  <2>3. Attachable(granted, n, e) => Table(WithExe(granted, n, e))
    BY <2>1, ExeKeeps DEF Attachable
  <2>4. Table(Without(granted, n))
    BY <2>1, PartKeeps DEF Without
  <2>5. Sound(config')
    BY <1>1, <2>2, <2>3, <2>4, SoundTable
  <2>6. QED
    BY <2>2, <2>5, CallKeeps
<1>6. CASE RemoveRule(n)
  <2>1. config' = [config EXCEPT !.rules = Without(config.rules, n)]
    BY <1>6 DEF RemoveRule
  <2>2. Called("done") /\ (Saved(config') \/ NotSaved(config'))
    BY <1>6 DEF RemoveRule
  <2>3. QED
    BY <1>1, <1>2, <2>1, <2>2, SoundTable, CallKeeps
<1>7. QED
  BY <1>3, <1>4, <1>5, <1>6

(* A merge keeps the store, and is a merge of two rules of the table.      *)
LEMMA MergesKeep ==
    ASSUME StoreInvariant, NEW from \in Names, NEW into \in Names, NEW choice \in Choices,
           MergeRules(from, into, choice)
    PROVE  /\ StoreInvariant'
           /\ answer' = "merged" =>
                \E s, t \in config.rules : \E m \in config'.rules :
                   /\ s # t /\ config'.rules \ {m} = config.rules \ {s, t}
                   /\ m.app = t.app
                   /\ {m.exe} \cup {None} = {s.exe, t.exe} \cup {None}
                   /\ \A c \in Categories :
                         ~Conflict(s.says[c], t.says[c])
                            => {m.says[c]} \cup {None} = {s.says[c], t.says[c]} \cup {None}
<1>1. Sound(config) /\ Table(config.rules)
  BY DEF StoreInvariant, Sound
<1>2. PICK source \in Named(config.rules, from), target \in Named(config.rules, into) :
          LET after == [config EXCEPT !.rules =
                          (config.rules \ {source, target}) \cup {Merged(source, target, choice)}]
          IN  /\ Mergeable(source, target, choice)
              /\ \/ config' = after /\ Saved(after) /\ Called("merged")
                 \/ UNCHANGED config /\ NotSaved(after) /\ Called("refused")
  BY DEF MergeRules
<1> DEFINE m == Merged(source, target, choice)
           rules == (config.rules \ {source, target}) \cup {m}
           after == [config EXCEPT !.rules = rules]
<1>3. source \in config.rules /\ target \in config.rules /\ source # target
  BY <1>1, <1>2, NamedRules DEF Mergeable
<1>4. /\ m \in Rules /\ m.app = target.app /\ Table(rules)
      /\ m \notin config.rules \ {source, target}
  <2>1. source \in Rules /\ target \in Rules
    BY <1>1, <1>3 DEF Table
  <2>2. m \in Rules /\ m.app = target.app
    BY <2>1, MergedRule
  <2> HIDE DEF m
  <2>3. /\ Table((config.rules \ {source, target}) \cup {m})
        /\ m \notin config.rules \ {source, target}
    BY ONLY <1>1, <1>3, <2>2, MergeKeeps
  <2>4. QED
    BY <2>2, <2>3
<1>5. \/ config' = after /\ Saved(after) /\ Called("merged")
      \/ UNCHANGED config /\ NotSaved(after) /\ Called("refused")
  BY <1>2
<1>6. Sound(after) /\ after.rules = rules
  BY <1>1, <1>4 DEF Sound, Configs, Table
<1>7. /\ {m.exe} \cup {None} = {source.exe, target.exe} \cup {None}
      /\ \A c \in Categories :
            ~Conflict(source.says[c], target.says[c])
               => {m.says[c]} \cup {None} = {source.says[c], target.says[c]} \cup {None}
  <2>1. source \in Rules /\ target \in Rules
    BY <1>1, <1>3 DEF Table
  <2>2. /\ m.exe = IF target.exe # None THEN target.exe ELSE source.exe
        /\ \A c \in Categories : m.says[c] = IF choice[c] # None THEN choice[c]
                                             ELSE IF target.says[c] # None THEN target.says[c]
                                                                           ELSE source.says[c]
    BY <2>1 DEF Merged, Rules
  <2>3. /\ ~Conflict(source.exe, target.exe)
        /\ \A c \in Categories : choice[c] # None <=> Conflict(source.says[c], target.says[c])
    BY <1>2 DEF Mergeable
  <2> HIDE DEF m
  <2>4. {m.exe} \cup {None} = {source.exe, target.exe} \cup {None}
    BY <2>2, <2>3 DEF Conflict
  <2>5. ASSUME NEW c \in Categories, ~Conflict(source.says[c], target.says[c])
        PROVE  {m.says[c]} \cup {None} = {source.says[c], target.says[c]} \cup {None}
    BY <2>2, <2>3, <2>5 DEF Conflict
  <2>6. QED
    BY <2>4, <2>5
<1> HIDE DEF m, after
<1>8. StoreInvariant'
  BY <1>1, <1>5, <1>6, CallKeeps
<1>9. answer' = "merged" => config' = after
  BY <1>5 DEF Called
<1>10. rules \ {m} = config.rules \ {source, target}
  BY <1>4
<1>11. m \in rules
  OBVIOUS
<1> HIDE DEF rules
<1>12. ASSUME answer' = "merged"
       PROVE  \E s, t \in config.rules : \E k \in config'.rules :
                 /\ s # t /\ config'.rules \ {k} = config.rules \ {s, t}
                 /\ k.app = t.app
                 /\ {k.exe} \cup {None} = {s.exe, t.exe} \cup {None}
                 /\ \A c \in Categories :
                       ~Conflict(s.says[c], t.says[c])
                          => {k.says[c]} \cup {None} = {s.says[c], t.says[c]} \cup {None}
  <2>1. config'.rules = rules
    BY <1>6, <1>9, <1>12
  <2>2. m \in config'.rules /\ config'.rules \ {m} = config.rules \ {source, target}
    BY <1>10, <1>11, <2>1
  <2>3. source \in config.rules /\ target \in config.rules
    BY <1>3
  <2> USE <2>3
  <2> WITNESS source \in config.rules, target \in config.rules
  <2> USE <2>2
  <2> WITNESS m \in config'.rules
  <2>4. QED
    BY <1>3, <1>4, <1>7, <2>2
<1>13. QED
  BY <1>8, <1>12

(* An import keeps the store.                                              *)
LEMMA ImportsKeep ==
    ASSUME StoreInvariant, NEW preset \in Presets, ImportPreset(preset)
    PROVE  /\ StoreInvariant'
           /\ config.rules \subseteq config'.rules
           /\ \A r \in config'.rules \ config.rules, s \in config.rules : r.app # s.app
           /\ \A r \in config'.rules \ config.rules : r.says["camera"] = "allow" => r.exe \in present
<1> DEFINE rules == config.rules \cup Additions(preset, config.rules)
<1>1. Sound(config) /\ Table(config.rules) /\ preset \in Seq(Entries)
  BY DEF StoreInvariant, Sound
<1>2. /\ config' = [config EXCEPT !.rules = rules]
      /\ Called("imported") /\ (Saved(config') \/ NotSaved(config'))
  BY DEF ImportPreset
<1>3. /\ Table(rules) /\ config.rules \subseteq rules
      /\ \A r \in rules \ config.rules, s \in config.rules : r.app # s.app
      /\ \A r \in rules \ config.rules : r.says["camera"] = "allow" => r.exe \in present
  BY <1>1, AdditionsKeep
<1> HIDE DEF rules
<1>4. Sound(config') /\ config'.rules = rules
  BY <1>1, <1>2, <1>3, SoundTable
<1>5. QED
  BY <1>2, <1>3, <1>4, CallKeeps

(* The answer to a camera question keeps the store.                        *)
LEMMA AnswersKeep ==
    ASSUME StoreInvariant, NEW exe \in Exes, NEW perm \in {"allow", "deny"}, AnswerCamera(exe, perm)
    PROVE  StoreInvariant'
<1>1. Sound(config) /\ Table(config.rules)
  BY DEF StoreInvariant, Sound
<1>2. Targets(exe) \subseteq Names
  BY <1>1, KeyNames DEF Targets, Owners, Table, Rules
<1> DEFINE known(target) == Named(config.rules, target) # {}
           created(target) == IF known(target) THEN config.rules
                              ELSE WithOpinion(config.rules, Sane[target], "camera", "deny")
           usable(target) == known(target) \/ Sane[target] # None
<1>3. PICK target \in Targets(exe) :
          \/ /\ usable(target) /\ Attachable(created(target), target, exe)
             /\ config' = [config EXCEPT !.rules =
                   WithOpinion(WithExe(created(target), target, exe), Sane[target], "camera", perm)]
             /\ Called(perm)
             /\ Saved(config') \/ NotSaved(config')
          \/ /\ config' = IF usable(target) THEN [config EXCEPT !.rules = created(target)] ELSE config
             /\ Called("refused") /\ Unwritten
  BY DEF AnswerCamera
<1>4. usable(target) => Sane[target] \in Keys
  <2>1. target \in Names
    BY <1>2
  <2>2. known(target) => Norm[target] \in Keys
    BY <1>1, NamedRules DEF Rules
  <2>3. QED
    BY <2>1, <2>2, SettableKey
<1>5. usable(target) => Table(created(target))
  BY <1>1, <1>4, OpinionKeeps
<1>6. usable(target) /\ Attachable(created(target), target, exe)
        => Table(WithOpinion(WithExe(created(target), target, exe), Sane[target], "camera", perm))
  <2> HIDE DEF created, usable
  <2>1. Attachable(created(target), target, exe) => Named(created(target), target) # {}
    BY DEF Attachable
  <2>2. QED
    BY <1>4, <1>5, <2>1, ExeKeeps, OpinionKeeps
<1> HIDE DEF created, usable
<1>7. Sound(config')
  BY <1>1, <1>3, <1>5, <1>6, SoundTable
<1>8. QED
  BY <1>3, <1>7, CallKeeps

(* What does not touch the store keeps it.                                 *)
LEMMA StoreFrame ==
    ASSUME StoreInvariant, UNCHANGED <<config, file, drafts, answer, saveFailed>>
    PROVE  StoreInvariant'
BY DEF StoreInvariant

(* A restart takes what is on disk.                                        *)
LEMMA RestartKeeps ==
    ASSUME StoreInvariant, Restart
    PROVE  StoreInvariant'
<1>1. Sound(Load(file)) /\ (file \notin {None, Garbage} => Load(file) = file)
  BY LoadSound DEF StoreInvariant
<1>2. config' = Load(file) /\ drafts' = {Load(file)} /\ answer' = "none" /\ file' = file
  BY DEF Restart
<1>3. QED
  BY <1>1, <1>2, WithinItself DEF StoreInvariant

(* Every step keeps the store.                                             *)
LEMMA NextKeeps ==
    ASSUME StoreInvariant, [Next]_vars
    PROVE  StoreInvariant'
<1>1. CASE \/ \E e \in Exes : AskCamera(e) \/ DismissCamera(e)
           \/ \E e \in Exes : BinaryChanges(e)
  BY <1>1, StoreFrame DEF AskCamera, DismissCamera, BinaryChanges
<1>2. CASE Observe({}) \/ \E p \in Declared : Observe({p})
  BY <1>2, StoreFrame DEF Observe
<1>3. CASE UNCHANGED vars
  BY <1>3, StoreFrame DEF vars
<1>4. CASE \/ \E n \in Names, c \in Categories, p \in Permissions : SetRule(n, c, p)
           \/ \E n \in Names, e \in Exes \cup {None} : SetRuleExe(n, e)
           \/ \E n \in Names, e \in Exes \cup {None} : AllowCamera(n, e)
           \/ \E n \in Names : RemoveRule(n)
  BY <1>4, EditsKeep
<1>5. CASE \E from, into \in Names, choice \in Choices : MergeRules(from, into, choice)
  BY <1>5, MergesKeep
<1>6. CASE \E preset \in Presets : ImportPreset(preset)
  BY <1>6, ImportsKeep
<1>7. CASE \E e \in Exes, p \in {"allow", "deny"} : AnswerCamera(e, p)
  BY <1>7, AnswersKeep
<1>8. CASE Restart
  BY <1>8, RestartKeeps
<1>9. QED
  BY <1>1, <1>2, <1>3, <1>4, <1>5, <1>6, <1>7, <1>8, Zenon DEF Next

(* The daemon starts on a sound file, or on none.                          *)
LEMMA InitKeeps ==
    ASSUME Init
    PROVE  StoreInvariant
<1>1. Sound(InstalledFile)
  <2>1. Table({} \cup Additions(Baseline, {}))
    <3>1. Table({})
      BY DEF Table, Unique
    <3>2. QED
      BY <3>1, AdditionsKeep
  <2>2. {} \cup Additions(Baseline, {}) = Additions(Baseline, {})
    OBVIOUS
  <2>3. Table(Additions(Baseline, {}))
    BY <2>1, <2>2
  <2>4. DefaultConfig \in Configs
    BY DefaultSound DEF Sound
  <2>5. QED
    BY <2>3, <2>4 DEF InstalledFile, Sound, Configs, Table
<1>2. \A cfg \in UserFiles : Sound(cfg)
  BY DEF Sound, Configs, Table
<1>3. file \in {None, Garbage} \/ Sound(file)
  BY <1>1, <1>2 DEF Init
<1>4. Sound(Load(file)) /\ (file \notin {None, Garbage} => Load(file) = file)
  BY <1>3, LoadSound
<1>5. config = Load(file) /\ drafts = {config} /\ answer = "none"
  BY DEF Init
<1>6. QED
  BY <1>3, <1>4, <1>5, WithinItself DEF StoreInvariant

(* The invariant holds in every state: the initial states have it and every *)
(* call, failed save and restart keeps it.                                 *)
LEMMA StoreIsInvariant == Spec => []StoreInvariant
<1>1. Init => StoreInvariant
  BY InitKeeps
<1>2. StoreInvariant /\ [Next]_vars => StoreInvariant'
  BY NextKeeps
<1>3. QED
  BY <1>1, <1>2, PTL DEF Spec

-----------------------------------------------------------------------------
(* A name has one rule, in memory, in what is saved and in every file that *)
(* can be loaded, after any calls, failed saves and restarts.              *)
THEOREM NamesHaveOneRule == Spec => []OneRulePerName
<1>1. StoreInvariant => OneRulePerName
  BY DEF StoreInvariant, OneRulePerName, Sound, Table
<1>2. QED
  BY <1>1, StoreIsInvariant, PTL

(* What a call reported as done is in the file, or its save failed.        *)
THEOREM DoneStays == Spec => []DoneIsDurable
<1>1. StoreInvariant => DoneIsDurable
  BY DEF StoreInvariant, DoneIsDurable
<1>2. QED
  BY <1>1, StoreIsInvariant, PTL

(* What the daemon starts with after an end at any line of a save is       *)
(* allowed by a configuration that was to be saved, or by the system's.    *)
LEMMA RestartWithin ==
    ASSUME StoreInvariant, Restart
    PROVE  \/ config' = DefaultConfig
           \/ \E d \in drafts \cup ({SystemFile} \ {None}) : Sound(d) /\ Within(config', d)
<1>1. config' = Load(file)
  BY DEF Restart
<1>2. CASE file \in {None, Garbage}
  <2>1. config' = DefaultConfig \/ (SystemFile # None /\ config' = SystemFile /\ Sound(SystemFile))
    BY <1>1, <1>2, LoadSound DEF Load, Sound, Table
  <2>2. QED
    BY <2>1, WithinItself
<1>3. CASE file \notin {None, Garbage}
  BY <1>1, <1>3, LoadSound DEF StoreInvariant
<1>4. QED
  BY <1>2, <1>3

(* An interrupted save grants nothing anew.                                *)
THEOREM RestartsGrantNothing == Spec => RestartGrantsNothing
<1>1. StoreInvariant /\ [Next]_vars =>
        [answer' = "none" =>
          LET sources == drafts \cup ({SystemFile} \ {None})
          IN  /\ CameraAllowlist(config'.rules)
                    \subseteq UNION {CameraAllowlist(s.rules) : s \in sources}
              /\ (\A s \in sources : s.default # "allow") =>
                    \A n \in Names, c \in Categories :
                       Permission(config', n, c) = "allow"
                          => \E s \in sources : Permission(s, n, c) = "allow"]_vars
  <2> DEFINE sources == drafts \cup ({SystemFile} \ {None})
  <2> SUFFICES ASSUME StoreInvariant, [Next]_vars, answer' = "none", vars' # vars
               PROVE  /\ CameraAllowlist(config'.rules)
                            \subseteq (UNION {CameraAllowlist(s.rules) : s \in sources})
                      /\ (\A s \in sources : s.default # "allow") =>
                            \A n \in Names, c \in Categories :
                               Permission(config', n, c) = "allow"
                                  => \E s \in sources : Permission(s, n, c) = "allow"
    OBVIOUS
  <2>1. StoreInvariant'
    BY NextKeeps
  <2>2. \/ config' = DefaultConfig
        \/ \E d \in sources : Sound(d) /\ Within(config', d)
    <3>1. CASE Restart
      BY <3>1, RestartWithin
    <3>2. CASE ~Restart
      <4>1. answer = "none" /\ config' = config
        BY <3>2 DEF Next, SetRule, SetRuleExe, AllowCamera, RemoveRule, MergeRules, ImportPreset,
                    AskCamera, DismissCamera, AnswerCamera, Observe, BinaryChanges, Called, vars
      <4>2. QED
        BY <4>1, WithinItself DEF StoreInvariant
    <3>3. QED
      BY <3>1, <3>2
  <2> HIDE DEF sources
  <2>3. CASE config' = DefaultConfig
    <3>1. CameraAllowlist(config'.rules) = {}
      BY <2>3 DEF DefaultConfig, CameraAllowlist
    <3>2. \A n, c : Permission(config', n, c) = "deny"
      BY <2>3 DEF DefaultConfig, Permission, Named
    <3>3. QED
      BY <3>1, <3>2
  <2>4. ASSUME NEW d \in sources, Sound(d), Within(config', d)
        PROVE  /\ CameraAllowlist(config'.rules)
                     \subseteq (UNION {CameraAllowlist(s.rules) : s \in sources})
               /\ (\A s \in sources : s.default # "allow") =>
                     \A n \in Names, c \in Categories :
                        Permission(config', n, c) = "allow"
                           => \E s \in sources : Permission(s, n, c) = "allow"
    <3>1. Sound(config')
      BY <2>1 DEF StoreInvariant
    <3>2. /\ CameraAllowlist(config'.rules) \subseteq CameraAllowlist(d.rules)
          /\ d.default # "allow" =>
                \A n \in Names, c \in Categories :
                   Permission(config', n, c) = "allow" => Permission(d, n, c) = "allow"
      BY <2>4, <3>1, WithinAllows
    <3>3. CameraAllowlist(d.rules) \subseteq (UNION {CameraAllowlist(s.rules) : s \in sources})
      BY <2>4
    <3>4. QED
      BY <2>4, <3>2, <3>3
  <2>5. QED
    BY <2>2, <2>3, <2>4
<1>2. QED
  BY <1>1, StoreIsInvariant, PTL DEF Spec, RestartGrantsNothing

(* A merge decides nothing by itself.                                      *)
THEOREM MergesGuessNothing == Spec => MergeNeverGuesses
<1>1. StoreInvariant /\ [Next]_vars =>
        [answer' = "merged" /\ calls' # calls =>
          \E s, t \in config.rules : \E m \in config'.rules :
             /\ s # t /\ config'.rules \ {m} = config.rules \ {s, t}
             /\ m.app = t.app
             /\ {m.exe} \cup {None} = {s.exe, t.exe} \cup {None}
             /\ \A c \in Categories :
                   ~Conflict(s.says[c], t.says[c])
                      => {m.says[c]} \cup {None} = {s.says[c], t.says[c]} \cup {None}]_vars
  <2> SUFFICES ASSUME StoreInvariant, [Next]_vars, answer' = "merged", calls' # calls
               PROVE  \E s, t \in config.rules : \E m \in config'.rules :
                         /\ s # t /\ config'.rules \ {m} = config.rules \ {s, t}
                         /\ m.app = t.app
                         /\ {m.exe} \cup {None} = {s.exe, t.exe} \cup {None}
                         /\ \A c \in Categories :
                               ~Conflict(s.says[c], t.says[c])
                                  => {m.says[c]} \cup {None} = {s.says[c], t.says[c]} \cup {None}
    OBVIOUS
  <2>1. PICK from \in Names, into \in Names, choice \in Choices : MergeRules(from, into, choice)
    BY DEF Next, SetRule, SetRuleExe, AllowCamera, RemoveRule, ImportPreset, AskCamera,
           DismissCamera, AnswerCamera, Observe, BinaryChanges, Restart, Called, vars
  <2>2. QED
    BY <2>1, MergesKeep
<1>2. QED
  BY <1>1, StoreIsInvariant, PTL DEF Spec, MergeNeverGuesses

(* An import changes no rule and what no name finds that found one, and    *)
(* grants a camera only to a file that is here.                            *)
THEOREM ImportsOnlyAdd == Spec => ImportOnlyAdds
<1> DEFINE Added ==
        /\ config.rules \subseteq config'.rules
        /\ \A n \in Names :
              Named(config.rules, n) # {} => Named(config'.rules, n) = Named(config.rules, n)
        /\ \A r \in config'.rules \ config.rules :
              r.says["camera"] = "allow" => r.exe \in present
<1>1. StoreInvariant /\ [Next]_vars => [answer' = "imported" /\ calls' # calls => Added]_vars
  <2> SUFFICES ASSUME StoreInvariant, [Next]_vars, answer' = "imported", calls' # calls
               PROVE  Added
    OBVIOUS
  <2>1. PICK preset \in Presets : ImportPreset(preset)
    BY DEF Next, SetRule, SetRuleExe, AllowCamera, RemoveRule, MergeRules, AskCamera,
           DismissCamera, AnswerCamera, Observe, BinaryChanges, Restart, Called, vars
  <2>2. /\ config.rules \subseteq config'.rules
        /\ \A r \in config'.rules \ config.rules, s \in config.rules : r.app # s.app
        /\ \A r \in config'.rules \ config.rules : r.says["camera"] = "allow" => r.exe \in present
    BY <2>1, ImportsKeep
  <2>3. ASSUME NEW n \in Names, Named(config.rules, n) # {}
        PROVE  Named(config'.rules, n) = Named(config.rules, n)
    BY <2>2, <2>3 DEF Named
  <2>4. QED
    BY <2>2, <2>3
<1>2. QED
  BY <1>1, StoreIsInvariant, PTL DEF Spec, ImportOnlyAdds

-----------------------------------------------------------------------------
(* An executable is attached to a rule and an opinion written to the same  *)
(* rule: one rule of the table is replaced by one that says both.          *)
LEMMA AttachThenSay ==
    ASSUME NEW rules, Table(rules), NEW name, NEW key \in Keys, Norm[name] = key,
           Named(rules, name) # {}, NEW path \in Exes, NEW cat \in Categories,
           NEW perm \in Permissions
    PROVE  \E old \in rules : \E new :
              /\ old.app = key /\ new.exe = path /\ new.says[cat] = perm
              /\ WithOpinion(WithExe(rules, name, path), key, cat, perm) = (rules \ {old}) \cup {new}
<1> DEFINE old == CHOOSE r \in Named(rules, name) : TRUE
           mid == [old EXCEPT !.exe = path]
           new == [mid EXCEPT !.says[cat] = perm]
           table == (rules \ {old}) \cup {mid}
<1>1. old \in rules /\ old \in Rules /\ old.app = key
  BY NamedRules
<1>2. WithExe(rules, name, path) = table
  BY DEF WithExe, Replace
<1>3. \A r \in rules : r.app = key => r = old
  BY <1>1 DEF Table, Unique
<1> HIDE DEF old
<1>4. mid \in Rules /\ mid.app = key /\ mid.exe = path
  BY <1>1 DEF Rules
<1>5. Norm[key] = key
  BY KeyNames
<1> HIDE DEF mid
<1>6. Named(table, key) = {mid}
  <2>1. \A r \in rules \ {old} : r.app # key
    BY <1>3
  <2>2. QED
    BY <1>4, <1>5, <2>1 DEF Named
<1>7. (CHOOSE r \in {mid} : TRUE) = mid
  OBVIOUS
<1>8. WithOpinion(table, key, cat, perm) = Replace(table, mid, new)
  BY <1>6, <1>7 DEF WithOpinion
<1>9. new.exe = path /\ new.says[cat] = perm
  BY <1>4 DEF Rules, Opinions
<1>10. mid \notin rules \ {old}
  BY <1>3, <1>4
<1>11. Replace(table, mid, new) = (rules \ {old}) \cup {new}
  BY <1>10 DEF Replace
<1> HIDE DEF new, table
<1>12. QED
  BY <1>1, <1>2, <1>8, <1>9, <1>11

(* What an answer does to the table: the rule that now names the binary is *)
(* the only new one, and says what was answered.                           *)
LEMMA AnswerWrites ==
    ASSUME StoreInvariant, NEW exe \in Exes, NEW perm \in {"allow", "deny"},
           AnswerCamera(exe, perm), answer' # "refused"
    PROVE  /\ answer' = perm
           /\ \E new \in config'.rules :
                 /\ new.exe = exe /\ new.says["camera"] = perm
                 /\ config'.rules \ config.rules \subseteq {new}
<1>1. Sound(config) /\ Table(config.rules)
  BY DEF StoreInvariant, Sound
<1>2. Targets(exe) \subseteq Names
  BY <1>1, KeyNames DEF Targets, Owners, Table, Rules
<1> DEFINE known(target) == Named(config.rules, target) # {}
           created(target) == IF known(target) THEN config.rules
                              ELSE WithOpinion(config.rules, Sane[target], "camera", "deny")
           usable(target) == known(target) \/ Sane[target] # None
           written(target) ==
              WithOpinion(WithExe(created(target), target, exe), Sane[target], "camera", perm)
<1>3. PICK target \in Targets(exe) :
          /\ usable(target) /\ Attachable(created(target), target, exe)
          /\ config' = [config EXCEPT !.rules = written(target)]
          /\ Called(perm)
  BY DEF AnswerCamera, Called
<1>4. target \in Names
  BY <1>2
<1>5. known(target) => Norm[target] \in Keys /\ Sane[target] = Norm[target]
  <2>1. known(target) => Norm[target] \in Keys
    BY <1>1, NamedRules DEF Rules
  <2>2. QED
    BY <1>4, <2>1
<1>6. Sane[target] \in Keys
  BY <1>3, <1>4, <1>5, SettableKey
<1>7. Table(created(target))
  BY <1>1, <1>6, OpinionKeeps
<1>8. Norm[target] = Sane[target] /\ \A r \in created(target) : r \in config.rules \/ r.app = Sane[target]
  <2>1. CASE known(target)
    BY <1>5, <2>1
  <2>2. CASE ~known(target)
    <3> DEFINE new == [EmptyRule(Sane[target]) EXCEPT !.says["camera"] = "deny"]
    <3>1. \A r \in created(target) : r \in config.rules \/ r.app = Sane[target]
      <4>1. CASE Named(config.rules, Sane[target]) = {}
        <5>1. created(target) = Replace(config.rules, EmptyRule(Sane[target]), new)
          BY <2>2, <4>1 DEF WithOpinion
        <5>2. new.app = Sane[target]
          BY DEF EmptyRule
        <5> HIDE DEF created, new
        <5>3. QED
          BY <5>1, <5>2 DEF Replace
      <4>2. CASE Named(config.rules, Sane[target]) # {}
        <5> DEFINE old == CHOOSE r \in Named(config.rules, Sane[target]) : TRUE
                   changed == [old EXCEPT !.says["camera"] = "deny"]
        <5>1. old \in Rules /\ old.app = Sane[target]
          BY <1>1, <1>6, <4>2, NamedRules, KeyNames
        <5>2. created(target) = Replace(config.rules, old, changed)
          BY <2>2, <4>2 DEF WithOpinion
        <5> HIDE DEF created, old
        <5>3. changed.app = Sane[target]
          BY <5>1 DEF Rules
        <5> HIDE DEF changed
        <5>4. QED
          BY <5>2, <5>3 DEF Replace
      <4>3. QED
        BY <4>1, <4>2
    <3>2. PICK r \in Named(created(target), target) : TRUE
      BY <1>3 DEF Attachable
    <3>3. r \in created(target) /\ r.app = Norm[target]
      BY <1>7, <3>2, NamedRules
    <3>4. r \notin config.rules
      BY <1>1, <2>2, <3>3, NamedRules
    <3>5. QED
      BY <3>1, <3>3, <3>4
  <2>3. QED
    BY <2>1, <2>2
<1>9. Named(created(target), target) # {}
  BY <1>3 DEF Attachable
<1> HIDE DEF created, known, usable
<1>10. PICK old \in created(target) : \E new :
          /\ old.app = Sane[target] /\ new.exe = exe /\ new.says["camera"] = perm
          /\ written(target) = (created(target) \ {old}) \cup {new}
  BY <1>6, <1>7, <1>8, <1>9, AttachThenSay
<1>11. PICK new :
          /\ old.app = Sane[target] /\ new.exe = exe /\ new.says["camera"] = perm
          /\ written(target) = (created(target) \ {old}) \cup {new}
  BY <1>10
<1> HIDE DEF written
<1>12. config'.rules = written(target)
  BY <1>1, <1>3 DEF Sound, Configs
<1>13. created(target) \ {old} \subseteq config.rules
  BY <1>7, <1>8, <1>10, <1>11 DEF Table, Unique
<1>14. new \in config'.rules /\ config'.rules \ config.rules \subseteq {new}
  BY <1>11, <1>12, <1>13
<1>15. answer' = perm
  BY <1>3 DEF Called
<1>16. QED
  BY <1>11, <1>14, <1>15

(* The answer to a camera question decides about the binary that was asked *)
(* about: a yes puts it on the kernel's list, a no takes away whatever the *)
(* rule that names it had granted.                                         *)
THEOREM AnswersAreObeyed == Spec => AnswerIsObeyed
<1>1. StoreInvariant /\ [Next]_vars =>
        [\A e \in asked \ asked' : calls' # calls =>
          /\ answer' = "allow" => e \in CameraAllowlist(config'.rules)
          /\ answer' = "deny"
                => /\ \E r \in config'.rules : r.exe = e /\ r.says["camera"] = "deny"
                   /\ e \notin CameraAllowlist(config'.rules \ config.rules)]_vars
  <2> SUFFICES ASSUME StoreInvariant, [Next]_vars, NEW e \in asked \ asked', calls' # calls,
                      answer' \in {"allow", "deny"}
               PROVE  /\ answer' = "allow" => e \in CameraAllowlist(config'.rules)
                      /\ answer' = "deny"
                            => /\ \E r \in config'.rules : r.exe = e /\ r.says["camera"] = "deny"
                               /\ e \notin CameraAllowlist(config'.rules \ config.rules)
    OBVIOUS
  <2>1. PICK exe \in Exes, perm \in {"allow", "deny"} : AnswerCamera(exe, perm)
    BY DEF Next, SetRule, SetRuleExe, AllowCamera, RemoveRule, MergeRules, ImportPreset,
           AskCamera, DismissCamera, Observe, BinaryChanges, Restart, Called, vars
  <2>2. e = exe
    BY <2>1 DEF AnswerCamera
  <2>3. /\ answer' = perm
        /\ \E new \in config'.rules :
              /\ new.exe = exe /\ new.says["camera"] = perm
              /\ config'.rules \ config.rules \subseteq {new}
    BY <2>1, AnswerWrites
  <2>4. PICK new \in config'.rules :
            /\ new.exe = exe /\ new.says["camera"] = perm
            /\ config'.rules \ config.rules \subseteq {new}
    BY <2>3
  <2>5. perm = "allow" => e \in CameraAllowlist(config'.rules)
    BY <2>2, <2>4 DEF CameraAllowlist
  <2>6. perm = "deny" => e \notin CameraAllowlist(config'.rules \ config.rules)
    BY <2>4 DEF CameraAllowlist
  <2>7. QED
    BY <2>2, <2>3, <2>4, <2>5, <2>6
<1>2. QED
  BY <1>1, StoreIsInvariant, PTL DEF Spec, AnswerIsObeyed

-----------------------------------------------------------------------------
(* Beside the store: the questions, the identities and the counters.       *)
Identities == [pairs : SUBSET Declared, announced : SUBSET (Keys \X Keys)]

RestTyped ==
    /\ present \subseteq Exes /\ asked \subseteq Exes
    /\ ids \in Identities /\ idFile \in Identities
    /\ calls \in 0..MaxCalls /\ faults \in 0..MaxFaults
    /\ answer \in {"none", "refused", "done", "merged", "imported", "allow", "deny"}
    /\ saveFailed \in BOOLEAN /\ forgot \in BOOLEAN
    /\ told \in [Keys \X Keys -> 0..2]

\* What has been announced is remembered as announced.
Remembered ==
    forgot \/ \A s \in Keys \X Keys : told[s] <= 1 /\ (told[s] = 1 => s \in ids.announced)

IdInvariant == RestTyped /\ Remembered

(* Two rules that look like one program are two stored names.              *)
LEMMA SplitNames ==
    ASSUME NEW rules, Table(rules), NEW pairs \in SUBSET Declared, NEW first \in FirstOwners(rules)
    PROVE  Splits(rules, pairs, first) \subseteq Keys \X Keys
<1> SUFFICES ASSUME NEW s \in Splits(rules, pairs, first)
             PROVE  s \in Keys \X Keys
  OBVIOUS
<1>1. PICK r \in rules : \E p \in pairs : /\ first[p[2]] # None
                                          /\ s = <<r.app, first[p[2]].app>>
  BY DEF Splits
<1>2. PICK p \in pairs : first[p[2]] # None /\ s = <<r.app, first[p[2]].app>>
  BY <1>1
<1>3. first \in [Exes -> rules \cup {None}] /\ p[2] \in Exes
  BY DEF FirstOwners
<1>4. first[p[2]] \in Rules /\ r \in Rules
  BY <1>2, <1>3 DEF Table
<1>5. QED
  BY <1>2, <1>4 DEF Rules

(* A save counts a fault at most.                                          *)
LEMMA SaveTypes ==
    ASSUME RestTyped, NEW cfg, Saved(cfg) \/ NotSaved(cfg)
    PROVE  faults' \in 0..MaxFaults /\ saveFailed' \in BOOLEAN
<1>1. faults' \in 0..MaxFaults
  BY DEF RestTyped, Saved, NotSaved
<1>2. saveFailed' \in BOOLEAN
  BY Zenon DEF Saved, NotSaved
<1>3. QED
  BY <1>1, <1>2

(* A call changes of the rest only the reply and the counters.             *)
LEMMA CallTypes ==
    ASSUME IdInvariant, NEW reply \in {"refused", "done", "merged", "imported", "allow", "deny"},
           Called(reply), asked' \subseteq asked,
           \/ \E cfg : Saved(cfg) \/ NotSaved(cfg)
           \/ Unwritten
    PROVE  IdInvariant'
<1>1. faults' \in 0..MaxFaults /\ saveFailed' \in BOOLEAN
  BY SaveTypes DEF IdInvariant, RestTyped, Unwritten
<1>2. RestTyped'
  BY <1>1 DEF IdInvariant, RestTyped, Called
<1>3. Remembered'
  BY DEF IdInvariant, Remembered, Called
<1>4. QED
  BY <1>2, <1>3 DEF IdInvariant

(* What is seen is kept, and a split that is new is announced and          *)
(* remembered.                                                             *)
LEMMA ObserveKeeps ==
    ASSUME IdInvariant, StoreInvariant, NEW seen \in SUBSET Declared, Observe(seen)
    PROVE  IdInvariant'
<1>1. PICK first \in FirstOwners(config.rules) :
          LET pairs == ids.pairs \cup {p \in seen : Touches(config.rules, p)}
              fresh == Splits(config.rules, pairs, first) \ ids.announced
          IN  /\ ids' = [pairs |-> pairs, announced |-> Announced(ids.announced, fresh)]
              /\ told' = [s \in DOMAIN told |-> IF s \in fresh THEN told[s] + 1 ELSE told[s]]
  BY DEF Observe
<1> DEFINE pairs == ids.pairs \cup {p \in seen : Touches(config.rules, p)}
           fresh == Splits(config.rules, pairs, first) \ ids.announced
<1>2. /\ ids' = [pairs |-> pairs, announced |-> ids.announced \cup fresh]
      /\ told' = [s \in DOMAIN told |-> IF s \in fresh THEN told[s] + 1 ELSE told[s]]
  BY <1>1 DEF Announced
<1>3. pairs \in SUBSET Declared /\ ids.announced \in SUBSET (Keys \X Keys)
  BY DEF IdInvariant, RestTyped, Identities
<1>4. Table(config.rules)
  BY DEF StoreInvariant, Sound
<1> HIDE DEF pairs
<1>5. fresh \subseteq Keys \X Keys /\ fresh \cap ids.announced = {}
  BY <1>3, <1>4, SplitNames
<1> HIDE DEF fresh
<1>6. ids' \in Identities
  BY <1>2, <1>3, <1>5 DEF Identities
<1>7. told \in [Keys \X Keys -> 0..2] /\ DOMAIN told = Keys \X Keys
  BY DEF IdInvariant, RestTyped
<1>8. told' \in [Keys \X Keys -> 0..2]
  <2>1. \A s \in Keys \X Keys : told'[s] \in Nat
    BY <1>2, <1>7
  <2>2. \A s \in Keys \X Keys : told'[s] <= 2
    BY <1>7 DEF Observe
  <2>3. \A s \in Keys \X Keys : told'[s] \in 0..2
    BY <2>1, <2>2
  <2>4. told' = [s \in Keys \X Keys |-> told'[s]]
    BY <1>2, <1>7
  <2>5. QED
    BY <2>3, <2>4
<1>9. idFile' \in Identities /\ faults' \in 0..MaxFaults
  <2>1. \/ idFile' = ids' /\ UNCHANGED faults
        \/ faults < MaxFaults /\ faults' = faults + 1 /\ UNCHANGED idFile
    BY DEF Observe
  <2>2. idFile \in Identities /\ faults \in 0..MaxFaults
    BY DEF IdInvariant, RestTyped
  <2>3. faults' \in 0..MaxFaults
    BY <2>1, <2>2
  <2>4. idFile' \in Identities
    BY <1>6, <2>1, <2>2, Zenon
  <2>5. QED
    BY <2>3, <2>4
<1>10. RestTyped'
  BY <1>6, <1>8, <1>9 DEF Observe, IdInvariant, RestTyped
<1>11. Remembered'
  <2> SUFFICES ASSUME ~forgot, NEW s \in Keys \X Keys
               PROVE  told'[s] <= 1 /\ (told'[s] = 1 => s \in ids'.announced)
    BY DEF Remembered, Observe
  <2>1. told[s] <= 1 /\ (told[s] = 1 => s \in ids.announced) /\ told[s] \in 0..2
    BY <1>7 DEF IdInvariant, Remembered
  <2>2. ids'.announced = ids.announced \cup fresh
    BY <1>2
  <2>3. told'[s] = IF s \in fresh THEN told[s] + 1 ELSE told[s]
    BY <1>2, <1>7
  <2>4. QED
    BY <1>5, <2>1, <2>2, <2>3
<1>12. QED
  BY <1>10, <1>11 DEF IdInvariant

(* Every step keeps what is announced remembered.                          *)
LEMMA NextRemembers ==
    ASSUME IdInvariant, StoreInvariant, [Next]_vars
    PROVE  IdInvariant'
<1>1. CASE \E e \in Exes : AskCamera(e) \/ DismissCamera(e)
  BY <1>1 DEF AskCamera, DismissCamera, IdInvariant, RestTyped, Remembered
<1>2. CASE \E e \in Exes : BinaryChanges(e)
  BY <1>2 DEF BinaryChanges, IdInvariant, RestTyped, Remembered
<1>3. CASE UNCHANGED vars
  BY <1>3 DEF vars, IdInvariant, RestTyped, Remembered
<1>4. CASE Observe({}) \/ \E p \in Declared : Observe({p})
  BY <1>4, ObserveKeeps
<1>5. CASE \E n \in Names, c \in Categories, p \in Permissions : SetRule(n, c, p)
  BY <1>5, CallTypes DEF SetRule
<1>6. CASE \E n \in Names, e \in Exes \cup {None} : SetRuleExe(n, e)
  BY <1>6, CallTypes DEF SetRuleExe
<1>7. CASE \E n \in Names, e \in Exes \cup {None} : AllowCamera(n, e)
  BY <1>7, CallTypes DEF AllowCamera
<1>8. CASE \E n \in Names : RemoveRule(n)
  BY <1>8, CallTypes DEF RemoveRule
<1>9. CASE \E from, into \in Names, choice \in Choices : MergeRules(from, into, choice)
  BY <1>9, CallTypes DEF MergeRules
<1>10. CASE \E preset \in Presets : ImportPreset(preset)
  BY <1>10, CallTypes DEF ImportPreset
<1>11. CASE \E e \in Exes, p \in {"allow", "deny"} : AnswerCamera(e, p)
  BY <1>11, CallTypes DEF AnswerCamera
<1>12. CASE Restart
  <2>1. RestTyped'
    BY <1>12 DEF Restart, IdInvariant, RestTyped
  <2>2. Remembered'
    BY <1>12 DEF Restart, IdInvariant, Remembered
  <2>3. QED
    BY <2>1, <2>2 DEF IdInvariant
<1>13. QED
  BY <1>1, <1>2, <1>3, <1>4, <1>5, <1>6, <1>7, <1>8, <1>9, <1>10, <1>11, <1>12, Zenon DEF Next

(* Nothing has been announced at the start, and every step keeps what was  *)
(* announced remembered, until a restart forgets what was not written.     *)
LEMMA IdsAreInvariant == Spec => []IdInvariant
<1>1. Init => IdInvariant
  <2> SUFFICES ASSUME Init PROVE IdInvariant
    OBVIOUS
  <2>1. NoIds \in Identities
    BY DEF NoIds, Identities
  <2>2. present \subseteq Exes /\ calls \in 0..MaxCalls /\ faults \in 0..MaxFaults
    BY DEF Init
  <2>3. asked = {} /\ ids = NoIds /\ idFile = NoIds /\ answer = "none"
    BY DEF Init
  <2>4. told = [s \in Keys \X Keys |-> 0]
    BY DEF Init
  <2>5. saveFailed \in BOOLEAN /\ forgot \in BOOLEAN
    BY Zenon DEF Init
  <2>6. told \in [Keys \X Keys -> 0..2] /\ \A s \in Keys \X Keys : told[s] = 0
    BY <2>4
  <2>7. RestTyped
    BY <2>1, <2>2, <2>3, <2>5, <2>6 DEF RestTyped
  <2>8. QED
    BY <2>6, <2>7 DEF IdInvariant, Remembered
<1>2. IdInvariant /\ StoreInvariant /\ [Next]_vars => IdInvariant'
  BY NextRemembers
<1>3. QED
  BY <1>1, <1>2, StoreIsInvariant, PTL DEF Spec

(* Every variable keeps its type; every stored name is one a look-up finds. *)
THEOREM TypeIsInvariant == Spec => []TypeOK
<1>1. StoreInvariant /\ IdInvariant => TypeOK
  BY DEF StoreInvariant, IdInvariant, RestTyped, Identities, Sound, TypeOK
<1>2. QED
  BY <1>1, StoreIsInvariant, IdsAreInvariant, PTL

(* A split is announced once, unless a failed write of identities.json was *)
(* followed by a restart.                                                  *)
THEOREM SplitsAreToldOnce == Spec => []SplitAnnouncedOnce
<1>1. IdInvariant => SplitAnnouncedOnce
  BY DEF IdInvariant, RestTyped, Remembered, SplitAnnouncedOnce
<1>2. QED
  BY <1>1, IdsAreInvariant, PTL
=============================================================================
