--------------------------- MODULE SkillRegistry ---------------------------
(***************************************************************************)
(* The skills a runner knows (internal/skills/registry.go, manifest.go and *)
(* the first part of runner.go): the built-in ones, the ones of manifest   *)
(* files, and the settings file that switches them on and off.             *)
(*                                                                         *)
(* Neither the runner nor the registry has a lock.  A reload replaces the  *)
(* registry by an empty one and fills it again while tasks are resolved in *)
(* it and other reloads fill the same one, so each access of the registry  *)
(* or of a file is a step of its own.  (Go may also stop the process when  *)
(* two goroutines meet in the map: that is a crash.)                       *)
(***************************************************************************)
EXTENDS Integers, FiniteSets, Sequences, SequencesExt

CONSTANTS
  Builtin,       \* the built-in skills, in the order they are registered
  Files,         \* the manifest files there may be (by skill name), in order
  Manifests,     \* what a manifest may say: records [uses, enabled]
  Installed,     \* what the manifest files may hold when the daemon starts
  External,      \* "uses" of a manifest that runs a command of its own
  Toggles,       \* the settings administrators may make: <<name, enabled>>
  Admin,         \* administrators' calls that may be open at once
  MaxCalls,      \* bound: calls, one that overlaps another counted twice
  MaxFaults      \* bound: failed writes and crashes

VARIABLES
  reg,           \* the registry: [handler, enabled] of the registered names
  manifest,      \* the manifest files
  state,         \* state/skills.json: the settings made, or Torn
  admin,         \* the administrators' calls
  mixed,         \* ledger: the last reload did not run alone, or a file was torn after it
  calls, faults  \* how much of each bound is used

regVars == <<reg, manifest, state, admin, mixed, calls>>

Names == Range(Builtin) \cup Range(Files)
NoFile == [uses |-> "none", enabled |-> FALSE]
Undecodable == [uses |-> "torn", enabled |-> FALSE]
Torn == [n \in {"torn"} |-> FALSE]
Off == [at |-> "off"]
OpenCalls == {a \in Admin : admin[a] # Off}

ASSUME RegistryAssumption ==
  /\ MaxCalls \in Nat /\ MaxFaults \in Nat
  /\ Builtin \in Seq(Range(Builtin)) /\ IsInjective(Builtin) /\ "task-plan" \in Range(Builtin)
  /\ Files \in Seq(Range(Files))
  /\ External \notin Range(Builtin) \cup Range(Files)
  /\ \A m \in Manifests : m = [uses |-> m.uses, enabled |-> m.enabled] /\ m.enabled \in BOOLEAN
  /\ NoFile \notin Manifests
  /\ Installed \subseteq [Range(Files) -> Manifests \cup {NoFile}]
  /\ \A s \in Toggles : s[2] \in BOOLEAN

-----------------------------------------------------------------------------
(***************************************************************************)
(* The registry and what is read into it                                   *)
(***************************************************************************)

Resolves(g, n) == n \in DOMAIN g

\* Register refuses a name that is taken.
Register(g, n, def) ==
  IF Resolves(g, n) THEN g ELSE [m \in DOMAIN g \cup {n} |-> IF m = n THEN def ELSE g[m]]

SetEnabled(g, n, on) == IF Resolves(g, n) THEN [g EXCEPT ![n].enabled = on] ELSE g

\* validateManifest: what SaveManifest accepts; that the name is free and
\* the skill it uses exists is not looked at.
validateManifest(m) == m.uses # "torn"

\* The skill a manifest makes: that of a command, or a copy of another one.
Made(g, m) ==
  [handler |-> IF m.uses = External THEN External ELSE g[m.uses].handler, enabled |-> m.enabled]

\* The file decodes, uses a skill that is known and has a name that is free.
Loads(g, n) ==
  LET m == manifest[n]
  IN  validateManifest(m) /\ (m.uses = External \/ Resolves(g, m.uses)) /\ ~Resolves(g, n)

loadSkillManifest(g, n) == IF Loads(g, n) THEN Register(g, n, Made(g, manifest[n])) ELSE g

\* The files there are, by their places in the order.
Present == {i \in DOMAIN Files : manifest[Files[i]] # NoFile}

Builtins == [n \in Range(Builtin) |-> [handler |-> n, enabled |-> TRUE]]

\* What a reload that runs alone makes of the files, in their order; the
\* settings are left out when a manifest does not load.
Loaded ==
  LET after[i \in 0..Len(Files)] ==
        IF i = 0 THEN Builtins
        ELSE IF i \in Present THEN loadSkillManifest(after[i - 1], Files[i]) ELSE after[i - 1]
      g == after[Len(Files)]
      allLoad == \A i \in Present : Loads(after[i - 1], Files[i])
  IN  [n \in DOMAIN g |->
         IF allLoad /\ state # Torn /\ n \in DOMAIN state
         THEN [g[n] EXCEPT !.enabled = state[n]] ELSE g[n]]

-----------------------------------------------------------------------------
(***************************************************************************)
(* Administrators' calls, each ending in a reload                          *)
(***************************************************************************)

Goto(a, next) == admin' = [admin EXCEPT ![a] = next]
Return(a) == Goto(a, Off)

Begin(a, first) ==
  /\ admin[a] = Off
  /\ calls' = calls + (IF OpenCalls = {} THEN 1 ELSE 2)
  /\ calls' <= MaxCalls
  /\ mixed' = (mixed \/ OpenCalls # {})
  /\ Goto(a, first)
  /\ UNCHANGED <<reg, manifest, state, faults>>

\* An unknown skill is an error.
SetSkillEnabled(a, n, on) ==
  /\ Resolves(reg, n)
  /\ Begin(a, [at |-> "load", name |-> n, on |-> on])

SaveManifest(a, n, m) ==
  /\ validateManifest(m)
  /\ Begin(a, [at |-> "manifest", name |-> n, says |-> m])

ReloadSkills(a) == Begin(a, [at |-> "new"])

loadSkillState(a) ==
  /\ admin[a].at = "load"
  /\ IF state = Torn THEN Return(a)
     ELSE Goto(a, [at |-> "setting",
                   set |-> [n \in DOMAIN state \cup {admin[a].name} |->
                              IF n = admin[a].name THEN admin[a].on ELSE state[n]]])
  /\ UNCHANGED <<reg, manifest, state, mixed, calls, faults>>

saveSkillState(a) ==
  /\ admin[a].at = "setting"
  /\ state' = admin[a].set
  /\ Goto(a, [at |-> "new"])
  /\ UNCHANGED <<reg, manifest, mixed, calls, faults>>

WriteManifest(a) ==
  /\ admin[a].at = "manifest"
  /\ manifest' = [manifest EXCEPT ![admin[a].name] = admin[a].says]
  /\ Goto(a, [at |-> "new"])
  /\ UNCHANGED <<reg, state, mixed, calls, faults>>

\* A write fails half way: the call returns the error and does not reload.
AdminWriteFails(a) ==
  /\ faults < MaxFaults
  /\ faults' = faults + 1
  /\ \/ admin[a].at = "setting" /\ state' = Torn /\ UNCHANGED manifest
     \/ /\ admin[a].at = "manifest"
        /\ manifest' = [manifest EXCEPT ![admin[a].name] = Undecodable]
        /\ UNCHANGED state
  /\ mixed' = TRUE
  /\ Return(a)
  /\ UNCHANGED <<reg, calls>>

NewRegistry(a) ==
  /\ admin[a].at = "new"
  /\ reg' = <<>>
  /\ mixed' = (OpenCalls # {a})
  /\ Goto(a, [at |-> "builtin", i |-> 1])
  /\ UNCHANGED <<manifest, state, calls, faults>>

\* One skill; one that another reload has registered meanwhile is a panic,
\* which ends the call.
registerBuiltins(a) ==
  /\ admin[a].at = "builtin"
  /\ LET n == Builtin[admin[a].i]
     IN  IF Resolves(reg, n) THEN Return(a) /\ UNCHANGED reg
         ELSE /\ reg' = Register(reg, n, [handler |-> n, enabled |-> TRUE])
              /\ Goto(a, IF admin[a].i < Len(Builtin)
                         THEN [at |-> "builtin", i |-> admin[a].i + 1] ELSE [at |-> "dir"])
  /\ UNCHANGED <<manifest, state, mixed, calls, faults>>

ReadDir(a) ==
  /\ admin[a].at = "dir"
  /\ Goto(a, [at |-> "files", todo |-> Present, failed |-> FALSE])
  /\ UNCHANGED <<reg, manifest, state, mixed, calls, faults>>

\* One file; a file that does not load is reported at the end, and then the
\* settings are not applied.
LoadSkillManifests(a) ==
  /\ admin[a].at = "files"
  /\ LET todo == admin[a].todo
         n == Files[Min(todo)]
     IN  IF todo = {}
         THEN /\ IF admin[a].failed THEN Return(a) ELSE Goto(a, [at |-> "settings"])
              /\ UNCHANGED reg
         ELSE /\ reg' = loadSkillManifest(reg, n)
              /\ Goto(a, [at |-> "files", todo |-> todo \ {Min(todo)},
                          failed |-> admin[a].failed \/ ~Loads(reg, n)])
  /\ UNCHANGED <<manifest, state, mixed, calls, faults>>

\* Mutant: the settings are only read when the daemon starts.
MutReadSettingsNot(a) ==
  /\ admin[a].at = "settings"
  /\ Return(a)
  /\ UNCHANGED <<reg, manifest, state, mixed, calls, faults>>

ReadSettings(a) ==
  /\ admin[a].at = "settings"
  /\ IF state = Torn THEN Return(a) ELSE Goto(a, [at |-> "apply", left |-> state])
  /\ UNCHANGED <<reg, manifest, state, mixed, calls, faults>>

\* One setting, in the order of a map; a skill that is gone is passed over.
applySkillStateOverrides(a) ==
  /\ admin[a].at = "apply"
  /\ LET left == admin[a].left
     IN  \/ DOMAIN left = {} /\ Return(a) /\ UNCHANGED reg
         \/ \E n \in DOMAIN left :
              /\ reg' = SetEnabled(reg, n, left[n])
              /\ Goto(a, [at |-> "apply", left |-> [m \in DOMAIN left \ {n} |-> left[m]]])
  /\ UNCHANGED <<manifest, state, mixed, calls, faults>>

AdminCall(a) ==
  \/ \E s \in Toggles : SetSkillEnabled(a, s[1], s[2])
  \/ \E n \in Range(Files), m \in Manifests : SaveManifest(a, n, m)
  \/ ReloadSkills(a)

AdminStep(a) ==
  \/ loadSkillState(a) \/ saveSkillState(a) \/ WriteManifest(a) \/ AdminWriteFails(a)
  \/ NewRegistry(a) \/ registerBuiltins(a) \/ ReadDir(a) \/ LoadSkillManifests(a)
  \/ ReadSettings(a) \/ applySkillStateOverrides(a)

\* The process stops and starts again: a file that was being written may be
\* torn, and NewRunner reloads before the server listens; it drops the error.
NewRunner ==
  /\ state' \in {state} \cup (IF \E a \in Admin : admin[a].at = "setting" THEN {Torn} ELSE {})
  /\ manifest' \in {manifest} \cup
       {[manifest EXCEPT ![admin[a].name] = Undecodable] :
          a \in {a \in Admin : admin[a].at = "manifest"}}
  /\ reg' = Loaded'
  /\ admin' = [a \in Admin |-> Off]
  /\ mixed' = FALSE
  /\ UNCHANGED calls

RegistryInit ==
  /\ manifest \in Installed
  /\ state = <<>>
  /\ reg = Loaded
  /\ admin = [a \in Admin |-> Off]
  /\ mixed = FALSE /\ calls = 0

-----------------------------------------------------------------------------
(***************************************************************************)
(* Properties                                                              *)
(***************************************************************************)

RegistryTypeOK ==
  /\ DOMAIN reg \subseteq Names
  /\ \A n \in DOMAIN reg : reg[n].handler \in Range(Builtin) \cup {External} /\ reg[n].enabled \in BOOLEAN
  /\ manifest \in [Range(Files) -> Manifests \cup {NoFile, Undecodable}]
  /\ state = Torn \/ (DOMAIN state \subseteq Names /\ Range(state) \subseteq BOOLEAN)
  /\ mixed \in BOOLEAN /\ calls \in 0..MaxCalls

\* Whatever reloads fill the registry together, and whichever of them ends in
\* a panic because another one came first: when all are over, every built-in
\* skill is registered (NewRegistry, registerBuiltins).  That needs the names
\* of built-in skills to be free: a reload that is ahead may register the
\* manifest of such a name, and the one behind stops there.
BuiltinsSurvive ==
  OpenCalls = {} /\ (\A n \in Range(Builtin) \cap Range(Files) : manifest[n] = NoFile)
    => Range(Builtin) \subseteq DOMAIN reg

\* After a reload that ran alone, or a start, and until a write fails, the registry is the one that
\* the files and the settings define: nothing of an older one is left, and
\* no setting is missed although it was saved long before (ReloadSkills).
ReloadHonest == OpenCalls = {} /\ ~mixed => reg = Loaded

\* The registry is never less than the code promises: BuiltinsSurvive and
\* ReloadHonest, over states of the right types.
RegistryHonest == RegistryTypeOK /\ BuiltinsSurvive /\ ReloadHonest
=============================================================================
