--------------------------- MODULE ModelSettings ---------------------------
(***************************************************************************)
(* The model settings of a daemon: ConfigStore (internal/model/runtime.go),*)
(* ProfileStore (profiles.go), LastTestStore (lasttest.go) and the pages   *)
(* that change them (internal/api/web.go).                                 *)
(*                                                                         *)
(* ConfigStore writes its file before it takes the lock and sets the value *)
(* in force; LastTestStore sets the value under the lock and writes the    *)
(* file after it; ProfileStore does both under its lock.  So calls from    *)
(* two browser tabs interleave in different ways, and a write that fails   *)
(* or is cut short leaves different things behind.                         *)
(***************************************************************************)
EXTENDS ModelConfig, FiniteSets

CONSTANTS
  Tab,           \* browser tabs and chat turns, each with one call at a time
  Forms,         \* what users type into the settings form
  Name,          \* names of stored profiles that pass sanitizeProfileName
  Envs,          \* environments a daemon may be started in
  Asked,         \* what callers of the gateway ask for: [profile, tokens, temp]
  MaxEdits,      \* bound: calls, one that overlaps another counted twice
  MaxStarts,     \* bound: daemon starts
  MaxBadWrites   \* bound: writes that fail

ASSUME SettingsAssumption ==
  /\ \A f \in Forms, p \in Profile :
       f.tokens[p] \in Int \cup {NoValue} /\ f.temp[p] \in Int \cup {NoValue}
  /\ \A r \in Asked : r.tokens \in Int /\ r.temp \in 0..TempLimit

VARIABLES
  serving,       \* the daemon runs
  secrets,       \* MNEMOSYNE_MODEL_CONFIG_PATH is set: the key goes to the file
  env,           \* the environment it was started in
  cfg,           \* ConfigStore.cfg, the configuration in force
  cfile,         \* config.json
  profiles,      \* ProfileStore.data: the stored ones
  pfile,         \* profiles.json
  test,          \* LastTestStore.data
  tfile,         \* last-test.json
  call,          \* the call of each tab and its next step
  mixed,         \* ledger: since the start, calls overlapped or a write failed
  edits, starts, badWrites

stores == <<cfg, profiles, test>>
files == <<cfile, pfile, tfile>>
settingsBounds == <<edits, starts, badWrites>>
settingsVars == <<serving, secrets, env, stores, files, call, mixed, settingsBounds>>

NoCall == [at |-> "none"]
Absent == [is |-> "absent"]
Cut == [is |-> "torn"]
Has(v) == [is |-> "ok", value |-> v]
Untested == [provider |-> "", model |-> "", ok |-> FALSE, tools |-> FALSE]

SettingsInit ==
  /\ serving = FALSE /\ secrets \in BOOLEAN /\ env \in Envs
  /\ cfg = None /\ profiles = [n \in {} |-> None] /\ test = Untested
  /\ cfile = Absent /\ pfile = Absent /\ tfile = Absent
  /\ call = [t \in Tab |-> NoCall]
  /\ mixed = FALSE
  /\ edits = 0 /\ starts = 0 /\ badWrites = 0

-----------------------------------------------------------------------------
(***************************************************************************)
(* Starting                                                                *)
(***************************************************************************)

\* The key stays out of the default file; writeConfigFile normalises again.
diskConfig(c) == normalizeConfig(IF secrets THEN c ELSE [c EXCEPT !.key = ""])

Stored(f, default) == IF f.is = "ok" THEN f.value ELSE default

\* What NewConfigStoreAtPath makes of its file in environment e.
Loaded(f, e) == applyModelEnvOverlay(Stored(f, configFromEnv(e)), e)

\* NewConfigStoreAtPath, NewProfileStore, NewLastTestStore.  The first two
\* fail on a file they cannot parse, and the daemon with them; the third
\* goes on without.
StartDaemon(e) ==
  /\ ~serving /\ cfile # Cut /\ pfile # Cut
  /\ starts < MaxStarts /\ starts' = starts + 1
  /\ serving' = TRUE /\ env' = e
  /\ cfg' = Loaded(cfile, e)
  /\ cfile' = IF cfile = Absent THEN Has(diskConfig(cfg')) ELSE cfile
  /\ profiles' = Stored(pfile, [n \in {} |-> None])
  /\ test' = Stored(tfile, Untested)
  /\ mixed' = FALSE
  /\ UNCHANGED <<secrets, pfile, tfile, call, edits, badWrites>>

\* The daemon is stopped or dies.  A file that is being written is cut short
\* or has its old or its new content.
Outcomes(f, new) == {f, Cut, Has(new)}
Writing(at) == {t \in Tab : call[t].at = at}

StopServing ==
  /\ serving
  /\ serving' = FALSE
  /\ cfile' \in {cfile} \cup
       UNION {Outcomes(cfile, diskConfig(call[t].cfg)) : t \in Writing("write")}
  /\ pfile' \in {pfile} \cup UNION {Outcomes(pfile, profiles) : t \in Writing("persist")}
  /\ tfile' \in {tfile} \cup UNION {Outcomes(tfile, call[t].test) : t \in Writing("record")}
  /\ call' = [t \in Tab |-> NoCall]
  /\ cfg' = None /\ profiles' = [n \in {} |-> None] /\ test' = Untested
  /\ UNCHANGED <<secrets, env, mixed, settingsBounds>>

-----------------------------------------------------------------------------
(***************************************************************************)
(* Calls                                                                   *)
(***************************************************************************)

Busy == {t \in Tab : call[t] # NoCall}

\* A call begins.
Begin(t, c) ==
  /\ serving /\ call[t] = NoCall
  /\ edits' = edits + (IF Busy = {} THEN 1 ELSE 2) /\ edits' <= MaxEdits
  /\ call' = [call EXCEPT ![t] = c]
  /\ mixed' = (mixed \/ Busy # {})

Return(t) == call' = [call EXCEPT ![t] = NoCall]

\* handleWebUpdateModels: the form on top of the configuration in force, and
\* ConfigStore.Save.
UpdateModels(t, form) ==
  /\ Begin(t, [at |-> "write", raced |-> FALSE,
               cfg |-> normalizeConfig(modelConfigFromForm(form, cfg))])
  /\ UNCHANGED <<serving, secrets, env, stores, files, starts, badWrites>>

\* No ProfileStore call is inside its lock.
ProfilesFree == Writing("persist") = {}

\* handleWebApplyModelProfile: the stored configuration, and Save.
ApplyModelProfile(t, n) ==
  /\ ProfilesFree /\ n \in DOMAIN profiles
  /\ Begin(t, [at |-> "write", raced |-> FALSE, cfg |-> normalizeConfig(profiles[n])])
  /\ UNCHANGED <<serving, secrets, env, stores, files, starts, badWrites>>

\* Two calls that write the same file at once: the later one may have opened
\* it before the earlier one wrote, and leave a mixture.
Race(t, at) ==
  [u \in Tab |-> IF u # t /\ call[u].at = at THEN [call[u] EXCEPT !.raced = TRUE] ELSE call[u]]
Written(t, new) == {Has(new)} \cup (IF call[t].raced THEN {Cut} ELSE {})

\* ConfigStore.Save writes the file without a lock.
SaveWrite(t) ==
  /\ call[t].at = "write"
  /\ cfile' \in Written(t, diskConfig(call[t].cfg))
  /\ call' = [Race(t, "write") EXCEPT ![t] = [at |-> "set", cfg |-> call[t].cfg]]
  /\ UNCHANGED <<serving, secrets, env, stores, pfile, tfile, mixed, settingsBounds>>

\* Mutant: the limits go to the file only.
SaveSetDefaults(t) ==
  /\ call[t].at = "set"
  /\ cfg' = [call[t].cfg EXCEPT !.tokens = TokenDefault]
  /\ Return(t)
  /\ UNCHANGED <<serving, secrets, env, profiles, test, files, mixed, settingsBounds>>

SaveSet(t) ==
  /\ call[t].at = "set"
  /\ cfg' = call[t].cfg
  /\ Return(t)
  /\ UNCHANGED <<serving, secrets, env, profiles, test, files, mixed, settingsBounds>>

\* ProfileStore.Save: a configuration that is not valid is refused.
ProfileSave(n, c) ==
  /\ validateConfig(c)
  /\ profiles' = [m \in DOMAIN profiles \cup {n} |-> IF m = n THEN c ELSE profiles[m]]

\* ProfileStore.Delete: a name that is not there is no error.
ProfileDelete(n) == profiles' = [m \in DOMAIN profiles \ {n} |-> profiles[m]]

SaveModelProfile(t, form, n) ==
  /\ ProfilesFree
  /\ ProfileSave(n, normalizeConfig(modelConfigFromForm(form, cfg)))
  /\ Begin(t, [at |-> "persist"])
  /\ UNCHANGED <<serving, secrets, env, cfg, test, files, starts, badWrites>>

DeleteModelProfile(t, n) ==
  /\ ProfilesFree
  /\ ProfileDelete(n)
  /\ Begin(t, [at |-> "persist"])
  /\ UNCHANGED <<serving, secrets, env, cfg, test, files, starts, badWrites>>

persistLocked(t) ==
  /\ call[t].at = "persist"
  /\ pfile' = Has(profiles)
  /\ Return(t)
  /\ UNCHANGED <<serving, secrets, env, stores, cfile, tfile, mixed, settingsBounds>>

\* handleWebTestModelsJSON: the form on top of the configuration in force is
\* tested, not saved.
TestModels(t, form) ==
  /\ Begin(t, [at |-> "probe", cfg |-> modelConfigFromForm(form, cfg)])
  /\ UNCHANGED <<serving, secrets, env, stores, files, starts, badWrites>>

\* What is recorded of a test: what does not answer, under the conversation
\* model.
recordLastTest(c, ok, tools) ==
  LET n == normalizeConfig(c) IN
  IF ok THEN [provider |-> n.provider, model |-> n.model["routing"], ok |-> TRUE, tools |-> tools]
  ELSE [provider |-> c.provider, model |-> c.model["conversation"], ok |-> FALSE, tools |-> FALSE]

\* TestConfig asks the routing model, TestToolCalls whether it calls a tool.
TestEnds(t, ok, tools) ==
  /\ call[t].at = "probe"
  /\ ok => validateConfig(call[t].cfg)
  /\ tools => ok
  /\ test' = recordLastTest(call[t].cfg, ok, tools)
  /\ call' = [call EXCEPT ![t] = [at |-> "record", raced |-> FALSE, test |-> test']]
  /\ UNCHANGED <<serving, secrets, env, cfg, profiles, files, mixed, settingsBounds>>

\* LastTestStore.Save, after its lock.
RecordLastTest(t) ==
  /\ call[t].at = "record"
  /\ tfile' \in Written(t, call[t].test)
  /\ call' = [Race(t, "record") EXCEPT ![t] = NoCall]
  /\ UNCHANGED <<serving, secrets, env, stores, cfile, pfile, mixed, settingsBounds>>

\* A write fails.  Save returns the error and leaves the value in force;
\* ProfileStore has changed it already; LastTestStore ignores the error.
WriteFails(t) ==
  /\ badWrites < MaxBadWrites /\ badWrites' = badWrites + 1
  /\ \/ call[t].at = "write" /\ cfile' \in {cfile, Cut} /\ UNCHANGED <<pfile, tfile>>
     \/ call[t].at = "persist" /\ pfile' \in {pfile, Cut} /\ UNCHANGED <<cfile, tfile>>
     \/ call[t].at = "record" /\ tfile' \in {tfile, Cut} /\ UNCHANGED <<cfile, pfile>>
  /\ Return(t)
  /\ mixed' = TRUE
  /\ UNCHANGED <<serving, secrets, env, stores, edits, starts>>

\* RuntimeGateway.GenerateText and StreamText copy the configuration in force
\* and work with the copy; settings may change before the answer is there.
GenerateText(t, req) ==
  /\ validateConfig(cfg)
  /\ Begin(t, [at |-> "request", cfg |-> cfg, req |-> resolveRequest(cfg, req)])
  /\ UNCHANGED <<serving, secrets, env, stores, files, starts, badWrites>>

Answer(t) ==
  /\ call[t].at = "request"
  /\ Return(t)
  /\ UNCHANGED <<serving, secrets, env, stores, files, mixed, settingsBounds>>

SettingsNext ==
  \/ \E e \in Envs : StartDaemon(e)
  \/ StopServing
  \/ \E t \in Tab :
       \/ \E form \in Forms :
            \/ UpdateModels(t, form) \/ TestModels(t, form)
            \/ \E n \in Name : SaveModelProfile(t, form, n)
       \/ \E n \in Name : ApplyModelProfile(t, n) \/ DeleteModelProfile(t, n)
       \/ \E req \in Asked : GenerateText(t, req)
       \/ \E ok, tools \in BOOLEAN : TestEnds(t, ok, tools)
       \/ SaveWrite(t) \/ SaveSet(t) \/ persistLocked(t) \/ RecordLastTest(t)
       \/ WriteFails(t) \/ Answer(t)

-----------------------------------------------------------------------------
(***************************************************************************)
(* Properties                                                              *)
(***************************************************************************)

Normal(c) == c = normalizeConfig(c)

\* The configuration in force is in normal form, also after an environment, a
\* form and a stored profile were laid over one another, and so is the file;
\* the file holds a key only if the operator chose a path for it.
SettingsTypeOK ==
  /\ serving \in BOOLEAN /\ secrets \in BOOLEAN /\ mixed \in BOOLEAN /\ env \in Envs
  /\ Normal(cfg)
  /\ cfile.is = "ok" => Normal(cfile.value) /\ (cfile.value.key # "" => secrets)
  /\ \A t \in Tab : call[t].at \in
       {"none", "write", "set", "persist", "probe", "record", "request"}

\* When no call is under way, and since the start no two overlapped and no
\* write failed, a restart brings everything back: the same configuration in
\* an environment that says nothing (but for the key, which the default file
\* does not hold), the same profiles, the same last test.
SettingsSurvive ==
  serving /\ Busy = {} /\ ~mixed =>
    /\ Silent(env) =>
         /\ cfile.is = "ok"
         /\ Loaded(cfile, env) = [cfg EXCEPT !.key = IF secrets THEN @ ELSE ""]
    /\ Stored(pfile, [n \in {} |-> None]) = profiles
    /\ Stored(tfile, Untested) = test

\* Every stored profile can be used as it is: applying one gives a
\* configuration with a provider, a key, an address and models, whatever was
\* in force when it was stored and however often it was loaded again.
ProfilesUsable ==
  \A n \in DOMAIN profiles : validateConfig(profiles[n]) /\ Normal(profiles[n])

\* Whatever was typed, stored or set in the environment, a request names a
\* model, an address and a key, and asks for at least one token and at most
\* what its profile and the limit of 8192 allow.
RequestsWithin ==
  \A t \in Tab : call[t].at = "request" =>
    LET r == call[t].req IN
    /\ r.model # "" /\ r.base # "" /\ r.key # ""
    /\ r.tokens \in 1..r.limit /\ r.limit <= TokenLimit
    /\ r.temp \in 0..TempLimit

\* What is stored and what is asked for is complete and within its limits:
\* ProfilesUsable and RequestsWithin, over states of the right types (a file
\* without secrets holds no key).
ConfigUsable == SettingsTypeOK /\ ProfilesUsable /\ RequestsWithin
=============================================================================
