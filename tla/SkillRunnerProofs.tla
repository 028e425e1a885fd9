------------------------- MODULE SkillRunnerProofs -------------------------
(***************************************************************************)
(* Proofs about SkillRunner and the registry it uses, for any skills,      *)
(* manifests, settings, tasks, runs and bounds.                            *)
(*                                                                         *)
(* What the registry should hold is defined by recursion over the manifest *)
(* files.  That the recursion has a solution, and what it gives, is shown  *)
(* by induction in the form of a set of numbers that has a least element.  *)
(***************************************************************************)
EXTENDS SkillRunner, FiniteSetTheorems, SequenceTheorems, WellFoundedInduction, TLAPS

-----------------------------------------------------------------------------
(***************************************************************************)
(* The registry                                                            *)
(***************************************************************************)

Def(h, e) == [handler |-> h, enabled |-> e]

\* Loads, loadSkillManifest, Present and Loaded of manifest files m and
\* settings st.
LoadsOf(g, m, n) ==
  validateManifest(m[n]) /\ (m[n].uses = External \/ Resolves(g, m[n].uses)) /\ ~Resolves(g, n)
LoadOf(g, m, n) == IF LoadsOf(g, m, n) THEN Register(g, n, Made(g, m[n])) ELSE g
PresentOf(m) == {i \in DOMAIN Files : m[Files[i]] # NoFile}
Then(g, m, i) == IF i \in PresentOf(m) THEN LoadOf(g, m, Files[i]) ELSE g
After(m) ==
  LET after[i \in 0..Len(Files)] == IF i = 0 THEN Builtins ELSE Then(after[i - 1], m, i)
  IN  after
AllLoad(m) == \A i \in PresentOf(m) : LoadsOf(After(m)[i - 1], m, Files[i])
Set(g, st, names) ==
  [n \in DOMAIN g |-> IF n \in names THEN [g[n] EXCEPT !.enabled = st[n]] ELSE g[n]]
LoadedOf(m, st) ==
  Set(After(m)[Len(Files)], st, IF AllLoad(m) /\ st # Torn THEN DOMAIN st ELSE {})

\* Registries, settings and manifest files.
IsDef(d) == d = Def(d.handler, d.enabled) /\ d.handler \in Range(Builtin) \cup {External}
              /\ d.enabled \in BOOLEAN
IsReg(g) == g = [n \in DOMAIN g |-> g[n]] /\ DOMAIN g \subseteq Names /\ \A n \in DOMAIN g : IsDef(g[n])
Settings(s) == s = [n \in DOMAIN s |-> s[n]] /\ DOMAIN s \subseteq Names /\ \A n \in DOMAIN s : s[n] \in BOOLEAN
Dir == [Range(Files) -> Manifests \cup {NoFile, Undecodable}]

\* An administrator's call, by the step it has come to.
AdminOK(c) ==
  \/ c = Off
  \/ c = [at |-> "load", name |-> c.name, on |-> c.on] /\ c.name \in Names /\ c.on \in BOOLEAN
  \/ c = [at |-> "setting", set |-> c.set] /\ Settings(c.set)
  \/ c = [at |-> "manifest", name |-> c.name, says |-> c.says]
     /\ c.name \in Range(Files) /\ c.says \in Manifests
  \/ c = [at |-> "new"]
  \/ c = [at |-> "builtin", i |-> c.i] /\ c.i \in 1..Len(Builtin)
  \/ c = [at |-> "dir"]
  \/ c = [at |-> "files", todo |-> c.todo, failed |-> c.failed]
     /\ c.todo \subseteq DOMAIN Files /\ c.failed \in BOOLEAN
  \/ c = [at |-> "settings"]
  \/ c = [at |-> "apply", left |-> c.left] /\ Settings(c.left)

RegTypes ==
  /\ IsReg(reg) /\ manifest \in Dir /\ (state = Torn \/ Settings(state))
  /\ admin = [a \in Admin |-> admin[a]] /\ \A a \in Admin : AdminOK(admin[a])
  /\ mixed \in BOOLEAN /\ calls \in 0..MaxCalls

\* How far a call that has the registry to itself has come with it.
FilesDone(k, c) ==
  /\ c.todo = {i \in PresentOf(manifest) : i > k}
  /\ reg = After(manifest)[k]
  /\ c.failed <=> \E i \in PresentOf(manifest) :
                     i <= k /\ ~LoadsOf(After(manifest)[i - 1], manifest, Files[i])
Phase(c) ==
  /\ c.at \in {"load", "setting"} => reg = LoadedOf(manifest, state)
  /\ c.at = "builtin" => reg = [n \in {Builtin[j] : j \in 1..(c.i - 1)} |-> Def(n, TRUE)]
  /\ c.at = "dir" => reg = Builtins
  /\ c.at = "files" => \E k \in 0..Len(Files) : FilesDone(k, c)
  /\ c.at = "settings" => AllLoad(manifest) /\ reg = After(manifest)[Len(Files)]
  /\ c.at = "apply" => /\ AllLoad(manifest) /\ state # Torn
                       /\ DOMAIN c.left \subseteq DOMAIN state
                       /\ \A n \in DOMAIN c.left : c.left[n] = state[n]
                       /\ reg = Set(After(manifest)[Len(Files)], state, DOMAIN state \ DOMAIN c.left)

Alone ==
  ~mixed => /\ \A a, b \in Admin : admin[a] # Off /\ admin[b] # Off => a = b
            /\ \A a \in Admin : admin[a] # Off => Phase(admin[a])
            /\ OpenCalls = {} => reg = LoadedOf(manifest, state)

\* As long as no manifest has the name of a built-in skill, each one that is
\* missing lies ahead of a call that will register it.
NamesFree == \A n \in Range(Builtin) \cap Range(Files) : manifest[n] = NoFile
Missing(j) == Builtin[j] \notin DOMAIN reg
Comes(c, j) ==
  \/ c.at = "new"
  \/ c.at = "builtin" /\ c.i <= j /\ \A l \in c.i..j : Missing(l)
Covered ==
  NamesFree => \A j \in DOMAIN Builtin : Missing(j) => \E a \in Admin : Comes(admin[a], j)

\* A file that was read from the directory is there.
Snapshot ==
  \A a \in Admin : admin[a].at = "files" => \A i \in admin[a].todo : manifest[Files[i]] # NoFile

RInv == RegTypes /\ Alone /\ Covered /\ Snapshot

-----------------------------------------------------------------------------
(***************************************************************************)
(* The runs                                                                *)
(***************************************************************************)

Acting == {"file-edit", "file-read", "shell-command"}
Searching == {"web-search", "github-issue-search", "email-inbox"}
Writing == {"task-plan", "memory-consolidate"} \cup Searching

\* What may be left of a run.
Plain == {<<>>, <<"observation">>, <<"artifact", "observation">>}
Acts == {<<"input", "execute", "observation">>, <<"execute", "observation">>,
         <<"input", "execute", "artifact", "observation">>, <<"execute", "artifact", "observation">>}
Commands == {externalHandler, <<"approve", "consume", "command">>, <<"consume", "command">>,
             <<"command">>}
Bold(s) == s \in Acts \cup Commands
Harmless(h) == {"generate", "consolidate", "connect", "artifact", "observation"} \cup MemoryOf(h)
Left(h, s) ==
  \/ h \in Writing /\ s \in Seq(Harmless(h))
  \/ h \in Acting /\ s \in Plain \cup Acts
  \/ h = External /\ s \in Plain \cup Commands

Ends == {"done", "blocked", "failed", "awaiting_approval"}
Going(t, h, left, to, i) ==
  [at |-> "step", task |-> t, handler |-> h, left |-> left, to |-> to, approval |-> i]
RunOK(m) ==
  \/ m = Idle
  \/ /\ m = Going(m.task, m.handler, m.left, m.to, m.approval)
     /\ m.task \in Task /\ Left(m.handler, m.left) /\ m.to \in Ends
     /\ m.approval \in 0..Len(grants)
     /\ m.to = "awaiting_approval" => m.left = <<>>
     /\ Bold(m.left) => m.to = "done"
     /\ m.left = <<"consume", "command">> => m.approval # 0

TaskOK(k) ==
  /\ k = [skill |-> k.skill, root |-> k.root, given |-> k.given, state |-> k.state,
          approval |-> k.approval]
  /\ k.root \in BOOLEAN /\ k.given \in BOOLEAN /\ k.state \in Ends \cup {"planned"}
  /\ k.approval \in 0..Len(grants)

Grants == [task : Task, status : {"pending", "approved", "denied", "consumed"}]

TasksOK == task = [t \in Task |-> task[t]] /\ \A t \in Task : TaskOK(task[t])
RunsOK == run = [r \in Run |-> run[r]] /\ \A r \in Run : RunOK(run[r])
OutputOK ==
  /\ artifact \in [Task -> {"none", "torn", "whole"}]
  /\ observation \in [Task -> {"none", "torn", "done", "blocked", "failed"}]
  /\ memory \in [Task -> SUBSET (MemoryOf("web-search") \cup MemoryOf("github-issue-search")
                                  \cup MemoryOf("email-inbox"))]
CountsOK ==
  /\ doneBy = [t \in Task |-> doneBy[t]]
  /\ effects \in [Task -> Nat] /\ failures \in [Task -> Nat] /\ commands \in Nat
Stores == TasksOK /\ RunsOK /\ grants \in Seq(Grants) /\ OutputOK /\ CountsOK

\* What run m, which is to complete its task, has left behind.
Made1(m) ==
  m.to = "done" /\ "command" \notin Range(m.left) =>
    /\ "observation" \notin Range(m.left) => observation[m.task] = "done"
    /\ "artifact" \notin Range(m.left) /\ m.handler \notin {"file-edit", External}
         => artifact[m.task] = "whole"
    /\ MemoryOf(m.handler) \subseteq memory[m.task] \cup Range(m.left)

Complete(t) ==
  /\ observation[t] = "done"
  /\ doneBy[t] \notin {"file-edit", External} => artifact[t] = "whole"
  /\ MemoryOf(doneBy[t]) \subseteq memory[t]

\* A task that is not run twice at once.
Single(t) ==
  /\ \A r, s \in Run : r \in Busy(t) /\ s \in Busy(t) => r = s
  /\ Busy(t) # {} => task[t].state # "done"
  /\ \A r \in Busy(t) : Made1(run[r])
  /\ task[t].state = "done" => Complete(t)

\* Every action, and every request that was not decided, is backed by a run
\* that failed, by the one that is under way or by the one that completed the task.
Waiting(t) == {i \in 1..Len(grants) : grants[i].task = t /\ grants[i].status = "pending"}
Acted(t) == \/ task[t].state = "done"
            \/ \E r \in Busy(t) : ~Bold(run[r].left)
Backed(t) ==
  effects[t] + Cardinality(Waiting(t)) <= failures[t] + (IF Acted(t) THEN 1 ELSE 0)

\* Every consumed approval is used by one command, or will be.
Consumed == {i \in 1..Len(grants) : grants[i].status = "consumed"}
Holding == {r \in Run : run[r] # Idle /\ run[r].left = <<"command">> /\ task[run[r].task].root}
Spent == commands + Cardinality(Holding) <= Cardinality(Consumed)

TInv == Stores /\ (\A t \in Task \ overlap : Single(t) /\ Backed(t)) /\ Spent

-----------------------------------------------------------------------------
(***************************************************************************)
(* Induction                                                               *)
(***************************************************************************)

\* A set of numbers has a least one.
LEMMA Least ==
  ASSUME NEW T, T \subseteq Nat, T # {}
  PROVE  \E x \in T : \A y \in T : x <= y
<1>1. PICK x \in T : \A y \in T : ~(<<y, x>> \in OpToRel(<, Nat))
  BY NatLessThanWellFounded, WFMin
<1>2. ASSUME NEW y \in T PROVE x <= y
  <2>1. <<y, x>> \in Nat \X Nat
    OBVIOUS
  <2>2. ~(y < x)
    BY <1>1, <2>1 DEF OpToRel
  <2> QED BY <2>2
<1> QED BY <1>2

LEMMA Climb ==
  ASSUME NEW S, NEW k \in Nat, k \in S, \A n \in Nat : k <= n /\ n \in S => n + 1 \in S
  PROVE  \A n \in Nat : k <= n => n \in S
<1> DEFINE T == {n \in Nat : k <= n /\ n \notin S}
<1> SUFFICES ASSUME T # {} PROVE FALSE
  OBVIOUS
<1>1. PICK m \in T : \A y \in T : m <= y
  <2> HIDE DEF T
  <2>1. T \subseteq Nat
    BY DEF T
  <2> QED BY <2>1, Least
<1>2. m # k /\ m - 1 \in Nat /\ k <= m - 1
  BY <1>1
<1>3. m - 1 \in S
  BY <1>1, <1>2
<1>4. (m - 1) + 1 \in S
  BY <1>2, <1>3
<1> QED BY <1>1, <1>4

-----------------------------------------------------------------------------
(***************************************************************************)
(* What the files define                                                   *)
(***************************************************************************)

LEMMA FilesFacts ==
  /\ Len(Files) \in Nat /\ DOMAIN Files = 1..Len(Files)
  /\ \A i \in 1..Len(Files) : Files[i] \in Range(Files)
  /\ Len(Builtin) \in Nat /\ DOMAIN Builtin = 1..Len(Builtin)
  /\ \A i \in 1..Len(Builtin) : Builtin[i] \in Range(Builtin)
  /\ \A n \in Range(Builtin) : \E i \in 1..Len(Builtin) : Builtin[i] = n
  /\ \A i, j \in 1..Len(Builtin) : Builtin[i] = Builtin[j] => i = j
<1>1. Files \in Seq(Range(Files)) /\ Builtin \in Seq(Range(Builtin)) /\ IsInjective(Builtin)
  BY RegistryAssumption
<1>2. Len(Files) \in Nat /\ DOMAIN Files = 1..Len(Files)
  BY <1>1
<1>3. Len(Builtin) \in Nat /\ DOMAIN Builtin = 1..Len(Builtin)
  BY <1>1
<1> QED BY <1>1, <1>2, <1>3 DEF Range, IsInjective

\* The recursion has a solution.
LEMMA AfterExists ==
  ASSUME NEW m
  PROVE  \A N \in Nat : \E f : f = [i \in 0..N |-> IF i = 0 THEN Builtins ELSE Then(f[i - 1], m, i)]
<1> DEFINE S == {N \in Nat : \E f : f = [i \in 0..N |-> IF i = 0 THEN Builtins ELSE Then(f[i - 1], m, i)]}
<1>1. 0 \in S
  <2>1. PICK f : f = [i \in 0..0 |-> Builtins]
    OBVIOUS
  <2>2. f = [i \in 0..0 |-> IF i = 0 THEN Builtins ELSE Then(f[i - 1], m, i)]
    BY <2>1
  <2> QED BY <2>2
<1>2. ASSUME NEW n \in Nat, 0 <= n /\ n \in S PROVE n + 1 \in S
  <2>1. PICK g : g = [i \in 0..n |-> IF i = 0 THEN Builtins ELSE Then(g[i - 1], m, i)]
    BY <1>2
  <2>2. PICK h : h = [i \in 0..(n + 1) |-> IF i = n + 1 THEN Then(g[n], m, i) ELSE g[i]]
    OBVIOUS
  <2>3. (\A i \in 0..n : h[i] = g[i]) /\ h[n + 1] = Then(g[n], m, n + 1)
    BY <2>2
  <2>4. ASSUME NEW i \in 0..n PROVE h[i] = IF i = 0 THEN Builtins ELSE Then(h[i - 1], m, i)
    <3>1. CASE i = 0
      BY <2>1, <2>3, <3>1
    <3>2. CASE i # 0
      <4>1. h[i - 1] = g[i - 1]
        BY <2>3, <3>2
      <4>2. h[i] = Then(g[i - 1], m, i)
        BY <2>1, <2>3, <3>2
      <4> QED BY <3>2, <4>1, <4>2
    <3> QED BY <3>1, <3>2
  <2>5. h[n + 1] = Then(h[(n + 1) - 1], m, n + 1)
    <3>1. h[(n + 1) - 1] = g[n]
      BY <2>3
    <3> QED BY <2>3, <3>1
  <2>6. \A i \in 0..(n + 1) : h[i] = IF i = 0 THEN Builtins ELSE Then(h[i - 1], m, i)
    BY <2>4, <2>5
  <2>7. h = [i \in 0..(n + 1) |-> IF i = 0 THEN Builtins ELSE Then(h[i - 1], m, i)]
    BY <2>2, <2>6
  <2> QED BY <2>7
<1>3. \A n \in Nat : 0 <= n => n \in S
  <2> HIDE DEF S
  <2> QED BY <1>1, <1>2, Climb
<1>4. Nat \subseteq S
  <2> HIDE DEF S
  <2> QED BY <1>3
<1> QED BY <1>4

LEMMA AfterSteps ==
  ASSUME NEW m
  PROVE  /\ After(m)[0] = Builtins
         /\ \A i \in 1..Len(Files) : After(m)[i] = Then(After(m)[i - 1], m, i)
<1> DEFINE D == After(m)
<1>1. D = CHOOSE f : f = [i \in 0..Len(Files) |-> IF i = 0 THEN Builtins ELSE Then(f[i - 1], m, i)]
  BY Zenon DEF After
<1>2. \E f : f = [i \in 0..Len(Files) |-> IF i = 0 THEN Builtins ELSE Then(f[i - 1], m, i)]
  <2>1. Len(Files) \in Nat
    BY FilesFacts
  <2> QED BY <2>1, AfterExists, Zenon
<1>3. D = [i \in 0..Len(Files) |-> IF i = 0 THEN Builtins ELSE Then(D[i - 1], m, i)]
  BY <1>1, <1>2, Zenon
<1> HIDE DEF D
<1>4. D[0] = Builtins /\ \A i \in 1..Len(Files) : D[i] = Then(D[i - 1], m, i)
  BY <1>3, FilesFacts
<1> QED BY <1>4 DEF D

LEMMA LoadedIs == Loaded = LoadedOf(manifest, state)
<1>1. Loaded = [n \in DOMAIN After(manifest)[Len(Files)] |->
                  IF AllLoad(manifest) /\ state # Torn /\ n \in DOMAIN state
                  THEN [After(manifest)[Len(Files)][n] EXCEPT !.enabled = state[n]]
                  ELSE After(manifest)[Len(Files)][n]]
  BY Zenon DEF Loaded, After, AllLoad, LoadsOf, LoadOf, Then, Loads, loadSkillManifest,
     Present, PresentOf
<1> QED BY <1>1 DEF LoadedOf, Set

LEMMA BuiltinsReg == IsReg(Builtins) /\ DOMAIN Builtins = Range(Builtin)
<1>1. DOMAIN Builtins = Range(Builtin) /\ \A n \in Range(Builtin) : Builtins[n] = Def(n, TRUE)
  BY DEF Builtins, Def
<1>2. ASSUME NEW n \in Range(Builtin) PROVE IsDef(Builtins[n])
  <2>1. PICK d : d = Def(n, TRUE)
    OBVIOUS
  <2>2. d.handler = n /\ d.enabled = TRUE
    BY <2>1 DEF Def
  <2> QED BY <1>1, <2>1, <2>2 DEF IsDef
<1>3. Builtins = [n \in DOMAIN Builtins |-> Builtins[n]]
  BY DEF Builtins
<1> QED BY <1>1, <1>2, <1>3 DEF IsReg, Names

LEMMA FileSays ==
  ASSUME NEW m \in Dir, NEW n \in Range(Files)
  PROVE  m[n].enabled \in BOOLEAN
<1>1. m[n] \in Manifests \cup {NoFile, Undecodable}
  BY DEF Dir
<1>2. NoFile.enabled = FALSE /\ Undecodable.enabled = FALSE
  BY DEF NoFile, Undecodable
<1>3. \A x \in Manifests : x.enabled \in BOOLEAN
  BY RegistryAssumption
<1> QED BY <1>1, <1>2, <1>3

LEMMA RegisterReg ==
  ASSUME NEW g, IsReg(g), NEW n \in Names, NEW d, IsDef(d)
  PROVE  IsReg(Register(g, n, d)) /\ DOMAIN Register(g, n, d) = DOMAIN g \cup {n}
<1>1. CASE n \in DOMAIN g
  BY <1>1 DEF Register, Resolves
<1>2. CASE n \notin DOMAIN g
  <2>1. PICK h : h = [x \in DOMAIN g \cup {n} |-> IF x = n THEN d ELSE g[x]]
    OBVIOUS
  <2>2. Register(g, n, d) = h
    BY <1>2, <2>1 DEF Register, Resolves
  <2>3. DOMAIN h = DOMAIN g \cup {n} /\ \A x \in DOMAIN h : h[x] = IF x = n THEN d ELSE g[x]
    BY <2>1
  <2>4. \A x \in DOMAIN h : IsDef(h[x])
    BY <2>3 DEF IsReg
  <2>5. h = [x \in DOMAIN h |-> h[x]]
    BY <2>1
  <2>6. IsReg(h)
    BY <2>3, <2>4, <2>5 DEF IsReg
  <2> QED BY <2>2, <2>3, <2>6
<1> QED BY <1>1, <1>2

LEMMA LoadReg ==
  ASSUME NEW g, IsReg(g), NEW m \in Dir, NEW n \in Range(Files)
  PROVE  /\ IsReg(LoadOf(g, m, n)) /\ DOMAIN g \subseteq DOMAIN LoadOf(g, m, n)
         /\ DOMAIN LoadOf(g, m, n) \subseteq DOMAIN g \cup {n}
<1>1. CASE ~LoadsOf(g, m, n)
  BY <1>1 DEF LoadOf
<1>2. CASE LoadsOf(g, m, n)
  <2>1. PICK d : d = Made(g, m[n])
    OBVIOUS
  <2>2. d.handler \in Range(Builtin) \cup {External}
    <3>1. CASE m[n].uses = External
      BY <2>1, <3>1 DEF Made
    <3>2. CASE m[n].uses # External
      <4>1. m[n].uses \in DOMAIN g /\ d.handler = g[m[n].uses].handler
        BY <1>2, <2>1, <3>2 DEF Made, LoadsOf, Resolves
      <4> QED BY <4>1 DEF IsReg, IsDef
    <3> QED BY <3>1, <3>2
  <2>3. d.enabled = m[n].enabled
    BY <2>1 DEF Made
  <2>4. d = Def(d.handler, d.enabled)
    BY <2>1 DEF Made, Def
  <2>5. IsDef(d)
    BY <2>2, <2>3, <2>4, FileSays DEF IsDef
  <2>6. LoadOf(g, m, n) = Register(g, n, d)
    BY <1>2, <2>1 DEF LoadOf
  <2>7. n \in Names
    BY DEF Names
  <2>8. IsReg(Register(g, n, d)) /\ DOMAIN Register(g, n, d) = DOMAIN g \cup {n}
    BY <2>5, <2>7, RegisterReg
  <2> QED BY <2>6, <2>8
<1> QED BY <1>1, <1>2

LEMMA SetReg ==
  ASSUME NEW g, IsReg(g), NEW st, NEW names, \A n \in names : st[n] \in BOOLEAN
  PROVE  IsReg(Set(g, st, names)) /\ DOMAIN Set(g, st, names) = DOMAIN g
<1>1. PICK h : h = Set(g, st, names)
  OBVIOUS
<1>2. /\ DOMAIN h = DOMAIN g /\ h = [n \in DOMAIN h |-> h[n]]
      /\ \A n \in DOMAIN g : h[n] = IF n \in names THEN [g[n] EXCEPT !.enabled = st[n]] ELSE g[n]
  BY <1>1 DEF Set
<1>3. ASSUME NEW n \in DOMAIN g PROVE IsDef(h[n])
  <2>1. CASE n \notin names
    BY <1>2, <2>1 DEF IsReg
  <2>2. CASE n \in names
    <3>1. PICK x, y : g[n] = [handler |-> x, enabled |-> y] /\ x \in Range(Builtin) \cup {External}
      BY DEF IsReg, IsDef, Def
    <3>2. PICK z \in BOOLEAN : z = st[n]
      BY <2>2
    <3>3. h[n] = [handler |-> x, enabled |-> z]
      BY <1>2, <2>2, <3>1, <3>2
    <3> QED BY <3>1, <3>2, <3>3 DEF IsDef, Def
  <2> QED BY <2>1, <2>2
<1> QED BY <1>1, <1>2, <1>3 DEF IsReg

LEMMA AfterReg ==
  ASSUME NEW m \in Dir
  PROVE  \A i \in 0..Len(Files) : IsReg(After(m)[i]) /\ Range(Builtin) \subseteq DOMAIN After(m)[i]
<1> DEFINE Good(g) == IsReg(g) /\ Range(Builtin) \subseteq DOMAIN g
           S == {i \in Nat : i <= Len(Files) => Good(After(m)[i])}
<1>1. 0 \in S
  BY AfterSteps, BuiltinsReg
<1>2. ASSUME NEW n \in Nat, 0 <= n /\ n \in S PROVE n + 1 \in S
  <2> SUFFICES ASSUME n + 1 <= Len(Files) PROVE Good(After(m)[n + 1])
    OBVIOUS
  <2>1. PICK g : g = After(m)[n]
    OBVIOUS
  <2>2. Good(g)
    BY <1>2, <2>1, FilesFacts
  <2>3. n + 1 \in 1..Len(Files) /\ (n + 1) - 1 = n
    BY FilesFacts
  <2>4. After(m)[n + 1] = Then(g, m, n + 1)
    BY <2>1, <2>3, AfterSteps
  <2>5. Files[n + 1] \in Range(Files)
    BY <2>3, FilesFacts
  <2>6. Good(Then(g, m, n + 1))
    BY <2>2, <2>5, LoadReg DEF Then
  <2> QED BY <2>4, <2>6
<1>3. \A n \in Nat : 0 <= n => n \in S
  <2> HIDE DEF S
  <2> QED BY <1>1, <1>2, Climb
<1>4. ASSUME NEW i \in 0..Len(Files) PROVE Good(After(m)[i])
  <2>1. i \in Nat /\ 0 <= i /\ i <= Len(Files)
    BY FilesFacts
  <2>2. i \in S
    BY <1>3, <2>1
  <2> QED BY <2>1, <2>2
<1> QED BY <1>4

LEMMA LoadedReg ==
  ASSUME NEW m \in Dir, NEW st, st = Torn \/ Settings(st)
  PROVE  IsReg(LoadedOf(m, st)) /\ Range(Builtin) \subseteq DOMAIN LoadedOf(m, st)
<1>1. PICK g : g = After(m)[Len(Files)]
  OBVIOUS
<1>2. IsReg(g) /\ Range(Builtin) \subseteq DOMAIN g
  BY <1>1, AfterReg, FilesFacts
<1>3. PICK names : names = IF AllLoad(m) /\ st # Torn THEN DOMAIN st ELSE {}
  OBVIOUS
<1>4. \A n \in names : st[n] \in BOOLEAN
  BY <1>3 DEF Settings
<1>5. LoadedOf(m, st) = Set(g, st, names)
  BY <1>1, <1>3 DEF LoadedOf
<1> QED BY <1>2, <1>4, <1>5, SetReg

\* Nothing changes between two files that are there.
LEMMA AfterSame ==
  ASSUME NEW m, NEW k \in 0..Len(Files), NEW j \in k..Len(Files),
         \A i \in PresentOf(m) : i <= k \/ j < i
  PROVE  After(m)[j] = After(m)[k]
<1> DEFINE S == {i \in Nat : i <= j => After(m)[i] = After(m)[k]}
<1>0. k \in Nat /\ j \in Nat /\ k <= j /\ j <= Len(Files)
  BY FilesFacts
<1>1. k \in S
  BY <1>0
<1>2. ASSUME NEW n \in Nat, k <= n /\ n \in S PROVE n + 1 \in S
  <2> SUFFICES ASSUME n + 1 <= j PROVE After(m)[n + 1] = After(m)[k]
    OBVIOUS
  <2>1. After(m)[n] = After(m)[k]
    BY <1>0, <1>2
  <2>2. n + 1 \in 1..Len(Files) /\ (n + 1) - 1 = n /\ n + 1 \notin PresentOf(m)
    BY <1>0, <1>2, FilesFacts
  <2>3. After(m)[n + 1] = Then(After(m)[n], m, n + 1)
    BY <2>2, AfterSteps
  <2> QED BY <2>1, <2>2, <2>3 DEF Then
<1>3. \A n \in Nat : k <= n => n \in S
  <2> HIDE DEF S
  <2> QED BY <1>0, <1>1, <1>2, Climb
<1>4. j \in S
  BY <1>0, <1>3
<1> QED BY <1>0, <1>4

-----------------------------------------------------------------------------
(***************************************************************************)
(* Administrators' calls                                                   *)
(***************************************************************************)

LEMMA OffAt == Off.at = "off"
BY DEF Off

LEMMA AdminFacts ==
  ASSUME NEW c, AdminOK(c)
  PROVE  /\ c.at = "off" => c = Off
         /\ c.at = "load" => c.name \in Names /\ c.on \in BOOLEAN
         /\ c.at = "setting" => Settings(c.set)
         /\ c.at = "manifest" => c.name \in Range(Files) /\ c.says \in Manifests
         /\ c.at = "builtin" => c.i \in 1..Len(Builtin)
         /\ c.at = "files" => c.todo \subseteq DOMAIN Files /\ c.failed \in BOOLEAN
         /\ c.at = "apply" => Settings(c.left)
<1>1. CASE c = Off
  BY <1>1, OffAt
<1>2. CASE c = [at |-> "load", name |-> c.name, on |-> c.on] /\ c.name \in Names /\ c.on \in BOOLEAN
  <2>1. c.at = "load"
    BY <1>2
  <2> QED BY <1>2, <2>1
<1>3. CASE c = [at |-> "setting", set |-> c.set] /\ Settings(c.set)
  <2>1. c.at = "setting"
    BY <1>3
  <2> QED BY <1>3, <2>1
<1>4. CASE c = [at |-> "manifest", name |-> c.name, says |-> c.says]
           /\ c.name \in Range(Files) /\ c.says \in Manifests
  <2>1. c.at = "manifest"
    BY <1>4
  <2> QED BY <1>4, <2>1
<1>5. CASE c \in {[at |-> "new"], [at |-> "dir"], [at |-> "settings"]}
  <2>1. c.at \in {"new", "dir", "settings"}
    BY <1>5
  <2> QED BY <2>1
<1>6. CASE c = [at |-> "builtin", i |-> c.i] /\ c.i \in 1..Len(Builtin)
  <2>1. c.at = "builtin"
    BY <1>6
  <2> QED BY <1>6, <2>1
<1>7. CASE c = [at |-> "files", todo |-> c.todo, failed |-> c.failed]
           /\ c.todo \subseteq DOMAIN Files /\ c.failed \in BOOLEAN
  <2>1. c.at = "files"
    BY <1>7
  <2> QED BY <1>7, <2>1
<1>8. CASE c = [at |-> "apply", left |-> c.left] /\ Settings(c.left)
  <2>1. c.at = "apply"
    BY <1>8
  <2> QED BY <1>8, <2>1
<1> QED BY <1>1, <1>2, <1>3, <1>4, <1>5, <1>6, <1>7, <1>8, Zenon DEF AdminOK

LEMMA GotoFacts ==
  ASSUME RInv, NEW a \in Admin, NEW c, Goto(a, c)
  PROVE  /\ admin' = [b \in Admin |-> admin'[b]] /\ admin'[a] = c
         /\ \A b \in Admin : b # a => admin'[b] = admin[b]
<1>1. DOMAIN admin = Admin
  BY DEF RInv, RegTypes
<1> QED BY <1>1 DEF Goto

\* What is to be shown of a call's step.
LEMMA AdminMoves ==
  ASSUME RInv, NEW a \in Admin, NEW c, Goto(a, c), AdminOK(c), IsReg(reg'), manifest' \in Dir,
         state' = Torn \/ Settings(state'), mixed' \in BOOLEAN, calls' \in 0..MaxCalls,
         ~mixed' => /\ \A b \in Admin : b # a => admin[b] = Off
                    /\ IF c = Off THEN reg' = LoadedOf(manifest', state') ELSE Phase(c)',
         Covered', Snapshot'
  PROVE  RInv'
<1>1. /\ admin' = [b \in Admin |-> admin'[b]] /\ admin'[a] = c
      /\ \A b \in Admin : b # a => admin'[b] = admin[b]
  BY GotoFacts
<1>2. \A b \in Admin : AdminOK(admin'[b])
  BY <1>1 DEF RInv, RegTypes
<1>3. RegTypes'
  BY <1>1, <1>2 DEF RegTypes
<1>4. ASSUME ~mixed' PROVE Alone'
  <2>1. \A b \in Admin : b # a => admin'[b] = Off
    BY <1>1, <1>4
  <2>2. ASSUME NEW b \in Admin, admin'[b] # Off PROVE Phase(admin[b])'
    <3>1. b = a /\ admin'[b] = c /\ c # Off
      BY <1>1, <2>1, <2>2
    <3>2. Phase(c)'
      BY <1>4, <3>1
    <3> QED BY <3>1, <3>2 DEF Phase, FilesDone
  <2>3. (OpenCalls = {})' => reg' = LoadedOf(manifest', state')
    BY <1>1, <1>4 DEF OpenCalls
  <2>4. LoadedOf(manifest, state)' = LoadedOf(manifest', state')
    OBVIOUS
  <2> QED BY <2>1, <2>2, <2>3, <2>4 DEF Alone
<1>5. Alone'
  BY <1>4 DEF Alone
<1> QED BY <1>3, <1>5 DEF RInv

\* The built-in skills that are missing, when a call does not register any.
LEMMA CoveredKept ==
  ASSUME RInv, NEW a \in Admin, NEW c, Goto(a, c), admin[a].at \notin {"new", "builtin"},
         NamesFree' => NamesFree,
         NamesFree' => \A n \in Range(Builtin) : n \in DOMAIN reg' <=> n \in DOMAIN reg
  PROVE  Covered'
<1> SUFFICES ASSUME NamesFree', NEW j \in DOMAIN Builtin, Missing(j)'
             PROVE  \E b \in Admin : Comes(admin[b], j)'
  BY DEF Covered
<1>1. \A l \in DOMAIN Builtin : Missing(l)' <=> Missing(l)
  BY FilesFacts DEF Missing
<1>2. PICK b \in Admin : Comes(admin[b], j)
  BY <1>1 DEF RInv, Covered
<1>3. b # a
  BY <1>2 DEF Comes
<1>4. admin'[b] = admin[b]
  BY <1>3, GotoFacts
<1>5. CASE admin[b].at = "new"
  BY <1>4, <1>5 DEF Comes
<1>6. CASE admin[b].at = "builtin" /\ admin[b].i <= j /\ \A l \in admin[b].i..j : Missing(l)
  <2>1. admin[b].i \in 1..Len(Builtin)
    BY <1>6, AdminFacts DEF RInv, RegTypes
  <2>2. \A l \in admin[b].i..j : l \in DOMAIN Builtin
    BY <2>1, FilesFacts
  <2>3. \A l \in admin[b].i..j : Missing(l)'
    BY <1>1, <1>6, <2>2
  <2> QED BY <1>4, <1>6, <2>3 DEF Comes
<1> QED BY <1>2, <1>5, <1>6 DEF Comes

LEMMA SnapshotKept ==
  ASSUME RInv, NEW a \in Admin, NEW c, Goto(a, c),
         \A n \in Range(Files) : manifest[n] # NoFile => manifest'[n] # NoFile,
         c.at = "files" => \A i \in c.todo : manifest'[Files[i]] # NoFile
  PROVE  Snapshot'
<1>1. admin'[a] = c /\ \A b \in Admin : b # a => admin'[b] = admin[b]
  BY GotoFacts
<1>2. ASSUME NEW b \in Admin, b # a, admin[b].at = "files", NEW i \in admin[b].todo
      PROVE  manifest'[Files[i]] # NoFile
  <2>1. i \in DOMAIN Files
    BY <1>2, AdminFacts DEF RInv, RegTypes
  <2>2. Files[i] \in Range(Files)
    BY <2>1, FilesFacts
  <2> QED BY <1>2, <2>2 DEF RInv, Snapshot
<1> QED BY <1>1, <1>2 DEF Snapshot

LEMMA NamesFreeKept ==
  ASSUME \A n \in Range(Files) : manifest[n] # NoFile => manifest'[n] # NoFile
  PROVE  NamesFree' => NamesFree
BY DEF NamesFree

LEMMA RegNow ==
  ASSUME RInv
  PROVE  /\ IsReg(reg) /\ manifest \in Dir /\ (state = Torn \/ Settings(state))
         /\ mixed \in BOOLEAN /\ calls \in 0..MaxCalls /\ \A a \in Admin : AdminOK(admin[a])
BY DEF RInv, RegTypes

LEMMA PhaseNow ==
  ASSUME RInv, NEW a \in Admin, admin[a].at # "off", ~mixed
  PROVE  Phase(admin[a]) /\ \A b \in Admin : b # a => admin[b] = Off
BY OffAt DEF RInv, Alone

LEMMA BeginStep ==
  ASSUME RInv, NEW a \in Admin, NEW c, Begin(a, c), AdminOK(c), c.at \in {"load", "manifest", "new"}
  PROVE  RInv'
<1>1. /\ admin[a] = Off /\ Goto(a, c) /\ UNCHANGED <<reg, manifest, state>>
      /\ mixed' = (mixed \/ OpenCalls # {})
      /\ calls' = calls + (IF OpenCalls = {} THEN 1 ELSE 2) /\ calls' <= MaxCalls
  BY DEF Begin
<1>2. mixed' \in BOOLEAN /\ calls' \in 0..MaxCalls
  <2>1. mixed' \in BOOLEAN
    BY <1>1
  <2>2. calls \in Nat
    BY RegNow, RegistryAssumption
  <2> QED BY <1>1, <2>1, <2>2, RegistryAssumption
<1>3. ASSUME ~mixed' PROVE (\A b \in Admin : b # a => admin[b] = Off) /\ Phase(c)'
  <2>1. ~mixed /\ OpenCalls = {}
    BY <1>1, <1>3
  <2>2. reg' = LoadedOf(manifest', state')
    BY <1>1, <2>1 DEF RInv, Alone
  <2>3. LoadedOf(manifest, state)' = LoadedOf(manifest', state')
    OBVIOUS
  <2> QED BY <2>1, <2>2, <2>3 DEF OpenCalls, Phase
<1>4. c # Off
  BY OffAt
<1>5. Covered'
  BY <1>1, CoveredKept, OffAt DEF NamesFree
<1>6. Snapshot'
  BY <1>1, SnapshotKept
<1> QED BY <1>1, <1>2, <1>3, <1>4, <1>5, <1>6, AdminMoves, RegNow

LEMMA AdminCallStep ==
  ASSUME RInv, NEW a \in Admin, AdminCall(a)
  PROVE  RInv'
<1>1. CASE \E s \in Toggles : SetSkillEnabled(a, s[1], s[2])
  <2>1. PICK s \in Toggles : SetSkillEnabled(a, s[1], s[2])
    BY <1>1
  <2>2. PICK c : c = [at |-> "load", name |-> s[1], on |-> s[2]]
    OBVIOUS
  <2>3. s[1] \in Names /\ s[2] \in BOOLEAN
    BY <2>1, RegNow, RegistryAssumption DEF SetSkillEnabled, Resolves, IsReg
  <2>4. c.at = "load" /\ c.name = s[1] /\ c.on = s[2]
    BY <2>2
  <2>5. AdminOK(c)
    BY <2>2, <2>3, <2>4 DEF AdminOK
  <2>6. Begin(a, c)
    BY <2>1, <2>2, Zenon DEF SetSkillEnabled
  <2> QED BY <2>4, <2>5, <2>6, BeginStep
<1>2. CASE \E n \in Range(Files), m \in Manifests : SaveManifest(a, n, m)
  <2>1. PICK n \in Range(Files), m \in Manifests : SaveManifest(a, n, m)
    BY <1>2
  <2>2. PICK c : c = [at |-> "manifest", name |-> n, says |-> m]
    OBVIOUS
  <2>3. c.at = "manifest" /\ c.name = n /\ c.says = m
    BY <2>2
  <2>4. AdminOK(c)
    BY <2>2, <2>3 DEF AdminOK
  <2>5. Begin(a, c)
    BY <2>1, <2>2, Zenon DEF SaveManifest
  <2> QED BY <2>3, <2>4, <2>5, BeginStep
<1>3. CASE ReloadSkills(a)
  <2>1. PICK c : c = [at |-> "new"]
    OBVIOUS
  <2>2. c.at = "new" /\ AdminOK(c)
    BY <2>1 DEF AdminOK
  <2>3. Begin(a, c)
    BY <1>3, <2>1, Zenon DEF ReloadSkills
  <2> QED BY <2>2, <2>3, BeginStep
<1> QED BY <1>1, <1>2, <1>3, Zenon DEF AdminCall

\* A call's step that leaves the registry and the manifests alone.
LEMMA QuietStep ==
  ASSUME RInv, NEW a \in Admin, NEW c, Goto(a, c), AdminOK(c),
         admin[a].at \notin {"off", "new", "builtin"}, c.at # "files",
         UNCHANGED <<reg, manifest, calls>>, mixed' \in BOOLEAN, state' = Torn \/ Settings(state'),
         ~mixed' => /\ ~mixed
                    /\ IF c = Off THEN reg = LoadedOf(manifest, state') ELSE Phase(c)'
  PROVE  RInv'
<1>1. Covered'
  BY CoveredKept DEF NamesFree
<1>2. Snapshot'
  BY SnapshotKept
<1>3. ~mixed' => \A b \in Admin : b # a => admin[b] = Off
  BY PhaseNow
<1>4. IsReg(reg') /\ manifest' \in Dir /\ calls' \in 0..MaxCalls
  BY RegNow
<1> QED BY <1>1, <1>2, <1>3, <1>4, AdminMoves

LEMMA OffOK == AdminOK(Off)
BY DEF AdminOK

LEMMA LoadStateStep ==
  ASSUME RInv, NEW a \in Admin, loadSkillState(a)
  PROVE  RInv'
<1>1. PICK d : d = admin[a]
  OBVIOUS
<1>2. d.at = "load" /\ UNCHANGED <<reg, manifest, state, mixed, calls>>
  BY <1>1 DEF loadSkillState
<1>3. d.name \in Names /\ d.on \in BOOLEAN
  BY <1>1, <1>2, RegNow, AdminFacts
<1>4. ~mixed' => ~mixed /\ reg = LoadedOf(manifest, state)
  BY <1>1, <1>2, PhaseNow DEF Phase
<1>5. mixed' \in BOOLEAN /\ (state' = Torn \/ Settings(state'))
  BY <1>2, RegNow
<1>6. CASE state = Torn
  <2>1. Goto(a, Off)
    BY <1>6 DEF loadSkillState, Return
  <2> QED BY <1>1, <1>2, <1>4, <1>5, <2>1, OffOK, OffAt, QuietStep
<1>7. CASE state # Torn
  <2>1. PICK s : s = [n \in DOMAIN state \cup {d.name} |-> IF n = d.name THEN d.on ELSE state[n]]
    OBVIOUS
  <2>2. PICK c : c = [at |-> "setting", set |-> s]
    OBVIOUS
  <2>3. Settings(s)
    BY <1>3, <1>7, <2>1, RegNow DEF Settings
  <2>4. c.at = "setting" /\ c.set = s
    BY <2>2
  <2>5. AdminOK(c)
    BY <2>2, <2>3, <2>4 DEF AdminOK
  <2>6. Goto(a, c)
    BY <1>1, <1>7, <2>1, <2>2, Zenon DEF loadSkillState
  <2>7. ~mixed' => Phase(c)'
    <3>1. LoadedOf(manifest, state)' = LoadedOf(manifest', state')
      OBVIOUS
    <3> QED BY <1>2, <1>4, <2>4, <3>1 DEF Phase
  <2>8. c # Off
    BY <2>4, OffAt
  <2> QED BY <1>1, <1>2, <1>4, <1>5, <2>4, <2>5, <2>6, <2>7, <2>8, QuietStep
<1> QED BY <1>6, <1>7

LEMMA NewAt == \A c : c = [at |-> "new"] => c.at = "new" /\ AdminOK(c) /\ c # Off
BY DEF AdminOK, Off

LEMMA SaveStateStep ==
  ASSUME RInv, NEW a \in Admin, saveSkillState(a)
  PROVE  RInv'
<1>1. PICK d : d = admin[a]
  OBVIOUS
<1>2. PICK c : c = [at |-> "new"]
  OBVIOUS
<1>3. d.at = "setting" /\ state' = d.set /\ Goto(a, c) /\ UNCHANGED <<reg, manifest, mixed, calls>>
  BY <1>1, <1>2, Zenon DEF saveSkillState
<1>4. Settings(state')
  BY <1>1, <1>3, RegNow, AdminFacts
<1>5. Phase(c)'
  BY <1>2, NewAt DEF Phase
<1>6. mixed' \in BOOLEAN
  BY <1>3, RegNow
<1> QED BY <1>1, <1>2, <1>3, <1>4, <1>5, <1>6, NewAt, QuietStep

\* A manifest is written, whole or not.
LEMMA ManifestWritten ==
  ASSUME RInv, NEW a \in Admin, NEW n \in Range(Files), NEW x \in Manifests \cup {Undecodable},
         manifest' = [manifest EXCEPT ![n] = x]
  PROVE  manifest' \in Dir /\ \A y \in Range(Files) : manifest[y] # NoFile => manifest'[y] # NoFile
<1>1. manifest \in Dir
  BY RegNow
<1>2. x # NoFile
  <2>1. NoFile \notin Manifests
    BY RegistryAssumption
  <2>2. Undecodable.uses # NoFile.uses
    BY DEF NoFile, Undecodable
  <2> QED BY <2>1, <2>2
<1> QED BY <1>1, <1>2 DEF Dir

LEMMA WriteManifestStep ==
  ASSUME RInv, NEW a \in Admin, WriteManifest(a)
  PROVE  RInv'
<1>1. PICK d : d = admin[a]
  OBVIOUS
<1>2. PICK c : c = [at |-> "new"]
  OBVIOUS
<1>3. /\ d.at = "manifest" /\ manifest' = [manifest EXCEPT ![d.name] = d.says] /\ Goto(a, c)
      /\ UNCHANGED <<reg, state, mixed, calls>>
  BY <1>1, <1>2, Zenon DEF WriteManifest
<1>4. d.name \in Range(Files) /\ d.says \in Manifests
  BY <1>1, <1>3, RegNow, AdminFacts
<1>5. manifest' \in Dir /\ \A n \in Range(Files) : manifest[n] # NoFile => manifest'[n] # NoFile
  BY <1>3, <1>4, ManifestWritten
<1>6. Covered'
  <2>1. NamesFree' => NamesFree
    BY <1>5, NamesFreeKept
  <2> QED BY <1>1, <1>3, <2>1, CoveredKept
<1>7. Snapshot'
  BY <1>2, <1>3, <1>5, NewAt, SnapshotKept
<1>8. Phase(c)'
  BY <1>2, NewAt DEF Phase
<1>9. ~mixed' => \A b \in Admin : b # a => admin[b] = Off
  BY <1>1, <1>3, PhaseNow
<1>10. IsReg(reg') /\ (state' = Torn \/ Settings(state')) /\ mixed' \in BOOLEAN /\ calls' \in 0..MaxCalls
  BY <1>3, RegNow
<1> QED BY <1>2, <1>3, <1>5, <1>6, <1>7, <1>8, <1>9, <1>10, NewAt, AdminMoves

LEMMA AdminWriteFailsStep ==
  ASSUME RInv, NEW a \in Admin, AdminWriteFails(a)
  PROVE  RInv'
<1>1. PICK d : d = admin[a]
  OBVIOUS
<1>2. mixed' = TRUE /\ Goto(a, Off) /\ UNCHANGED <<reg, calls>>
  BY DEF AdminWriteFails, Return
<1>3. \/ d.at = "setting" /\ state' = Torn /\ UNCHANGED manifest
      \/ d.at = "manifest" /\ manifest' = [manifest EXCEPT ![d.name] = Undecodable] /\ UNCHANGED state
  BY <1>1, Zenon DEF AdminWriteFails
<1>4. manifest' \in Dir /\ \A n \in Range(Files) : manifest[n] # NoFile => manifest'[n] # NoFile
  <2>1. CASE d.at = "setting" /\ UNCHANGED manifest
    BY <2>1, RegNow
  <2>2. CASE d.at = "manifest" /\ manifest' = [manifest EXCEPT ![d.name] = Undecodable]
    <3>1. d.name \in Range(Files)
      BY <1>1, <2>2, RegNow, AdminFacts
    <3> QED BY <2>2, <3>1, ManifestWritten
  <2> QED BY <1>3, <2>1, <2>2
<1>5. Covered'
  <2>1. NamesFree' => NamesFree
    BY <1>4, NamesFreeKept
  <2>2. d.at \notin {"new", "builtin"}
    BY <1>3
  <2> QED BY <1>1, <1>2, <2>1, <2>2, CoveredKept
<1>6. Snapshot'
  BY <1>2, <1>4, OffAt, SnapshotKept
<1>7. IsReg(reg') /\ (state' = Torn \/ Settings(state')) /\ calls' \in 0..MaxCalls
  BY <1>2, <1>3, RegNow
<1> QED BY <1>2, <1>4, <1>5, <1>6, <1>7, OffOK, AdminMoves

LEMMA BuiltinOK ==
  ASSUME NEW c, NEW i \in 1..Len(Builtin), c = [at |-> "builtin", i |-> i]
  PROVE  c.at = "builtin" /\ c.i = i /\ AdminOK(c) /\ c # Off
BY DEF AdminOK, Off

LEMMA NewRegistryStep ==
  ASSUME RInv, NEW a \in Admin, NewRegistry(a)
  PROVE  RInv'
<1>1. PICK c : c = [at |-> "builtin", i |-> 1]
  OBVIOUS
<1>2. /\ reg' = <<>> /\ mixed' = (OpenCalls # {a}) /\ Goto(a, c)
      /\ UNCHANGED <<manifest, state, calls>>
  BY <1>1, Zenon DEF NewRegistry
<1>3. 1 \in 1..Len(Builtin)
  BY FilesFacts, RegistryAssumption
<1>4. c.at = "builtin" /\ c.i = 1 /\ AdminOK(c) /\ c # Off
  BY <1>1, <1>3, BuiltinOK
<1>5. DOMAIN reg' = {} /\ IsReg(reg')
  <2>1. DOMAIN reg' = {} /\ reg' = [n \in DOMAIN reg' |-> reg'[n]]
    BY <1>2
  <2> QED BY <2>1 DEF IsReg
<1>6. Covered'
  <2>1. admin'[a] = c
    BY <1>2, GotoFacts
  <2>2. \A j \in DOMAIN Builtin : Comes(admin[a], j)'
    BY <1>4, <1>5, <2>1, FilesFacts DEF Comes, Missing
  <2> QED BY <2>2 DEF Covered
<1>7. Snapshot'
  BY <1>2, <1>4, SnapshotKept
<1>8. ASSUME ~mixed' PROVE (\A b \in Admin : b # a => admin[b] = Off) /\ Phase(c)'
  <2>1. \A b \in Admin : b # a => admin[b] = Off
    BY <1>2, <1>8 DEF OpenCalls
  <2>2. {Builtin[j] : j \in 1..(c.i - 1)} = {}
    BY <1>4
  <2>3. PICK S : S = {Builtin[j] : j \in 1..(c.i - 1)}
    OBVIOUS
  <2>4. reg' = [n \in S |-> Def(n, TRUE)]
    <3>1. reg' = [n \in DOMAIN reg' |-> reg'[n]]
      BY <1>5 DEF IsReg
    <3> QED BY <1>5, <2>2, <2>3, <3>1
  <2>5. reg' = [n \in {Builtin[j] : j \in 1..(c.i - 1)} |-> Def(n, TRUE)]
    BY <2>3, <2>4, Zenon
  <2> QED BY <1>4, <2>1, <2>5 DEF Phase
<1>9. manifest' \in Dir /\ (state' = Torn \/ Settings(state')) /\ mixed' \in BOOLEAN /\ calls' \in 0..MaxCalls
  BY <1>2, RegNow
<1> QED BY <1>2, <1>4, <1>5, <1>6, <1>7, <1>8, <1>9, AdminMoves

LEMMA DirOK == \A c : c = [at |-> "dir"] => c.at = "dir" /\ AdminOK(c) /\ c # Off
BY DEF AdminOK, Off

\* registerBuiltins, of a name that is taken and of one that is free.
LEMMA TakenStep ==
  ASSUME RInv, NEW a \in Admin, admin[a].at = "builtin", Resolves(reg, Builtin[admin[a].i]),
         Goto(a, Off), UNCHANGED <<reg, manifest, state, mixed, calls>>
  PROVE  RInv'
<1>1. PICK i : i = admin[a].i
  OBVIOUS
<1>2. i \in 1..Len(Builtin)
  BY <1>1, RegNow, AdminFacts
<1>3. ASSUME ~mixed PROVE FALSE
  <2>1. Phase(admin[a])
    BY <1>3, PhaseNow
  <2>2. DOMAIN reg = {Builtin[j] : j \in 1..(i - 1)}
    BY <1>1, <2>1 DEF Phase
  <2>3. PICK j \in 1..(i - 1) : Builtin[i] = Builtin[j]
    BY <1>1, <2>2 DEF Resolves
  <2> QED BY <1>2, <2>3, FilesFacts
<1>4. Covered'
  <2> SUFFICES ASSUME NamesFree', NEW j \in DOMAIN Builtin, Missing(j)'
               PROVE  \E b \in Admin : Comes(admin[b], j)'
    BY DEF Covered
  <2>1. NamesFree /\ Missing(j)
    BY DEF NamesFree, Missing
  <2>2. PICK b \in Admin : Comes(admin[b], j)
    BY <2>1 DEF RInv, Covered
  <2>3. ASSUME b = a PROVE FALSE
    <3>1. i <= j /\ \A l \in i..j : Missing(l)
      BY <1>1, <2>2, <2>3 DEF Comes
    <3>2. i \in i..j
      BY <1>2, <3>1, FilesFacts
    <3>3. Missing(i)
      BY <3>1, <3>2
    <3> QED BY <1>1, <3>3 DEF Missing, Resolves
  <2>4. admin'[b] = admin[b]
    BY <2>3, GotoFacts
  <2>5. \A l : Missing(l)' <=> Missing(l)
    BY DEF Missing
  <2> QED BY <2>2, <2>4, <2>5 DEF Comes
<1>5. Snapshot'
  BY OffAt, SnapshotKept
<1>6. IsReg(reg') /\ manifest' \in Dir /\ (state' = Torn \/ Settings(state'))
      /\ mixed' \in BOOLEAN /\ calls' \in 0..MaxCalls
  BY RegNow
<1> QED BY <1>3, <1>4, <1>5, <1>6, OffOK, AdminMoves

LEMMA FreeStep ==
  ASSUME RInv, NEW a \in Admin, admin[a].at = "builtin",
         NEW i, i = admin[a].i, NEW n, n = Builtin[i], ~Resolves(reg, n),
         reg' = Register(reg, n, Def(n, TRUE)), NEW c, Goto(a, c), 
         IF i < Len(Builtin) THEN c = [at |-> "builtin", i |-> i + 1] ELSE c = [at |-> "dir"],
         UNCHANGED <<manifest, state, mixed, calls>>
  PROVE  RInv'
<1>1. i \in 1..Len(Builtin) /\ n \in Range(Builtin)
  BY RegNow, AdminFacts, FilesFacts
<1>2. /\ AdminOK(c) /\ c # Off
      /\ i < Len(Builtin) => c.at = "builtin" /\ c.i = i + 1
      /\ ~(i < Len(Builtin)) => c.at = "dir"
  <2>1. CASE i < Len(Builtin)
    <3>1. i + 1 \in 1..Len(Builtin)
      BY <1>1, <2>1, FilesFacts
    <3> QED BY <2>1, <3>1, BuiltinOK
  <2>2. CASE ~(i < Len(Builtin))
    BY <2>2, DirOK
  <2> QED BY <2>1, <2>2
<1>3. IsReg(reg') /\ DOMAIN reg' = DOMAIN reg \cup {n}
  <2>1. PICK d : d = Def(n, TRUE)
    OBVIOUS
  <2>2. d.handler = n /\ d.enabled = TRUE
    BY <2>1 DEF Def
  <2>3. IsDef(d)
    BY <1>1, <2>1, <2>2 DEF IsDef
  <2>4. n \in Names
    BY <1>1 DEF Names
  <2> QED BY <2>1, <2>3, <2>4, RegNow, RegisterReg
<1>4. Covered'
  <2> SUFFICES ASSUME NamesFree', NEW j \in DOMAIN Builtin, Missing(j)'
               PROVE  \E b \in Admin : Comes(admin[b], j)'
    BY DEF Covered
  <2>1. NamesFree /\ Missing(j) /\ j # i
    BY <1>3 DEF NamesFree, Missing
  <2>2. PICK b \in Admin : Comes(admin[b], j)
    BY <2>1 DEF RInv, Covered
  <2>3. \A l \in DOMAIN Builtin : l # i /\ Missing(l) => Missing(l)'
    BY <1>1, <1>3, FilesFacts DEF Missing
  <2>4. CASE admin[b].at = "new"
    <3>1. b # a
      BY <2>4
    <3>2. admin'[b] = admin[b]
      BY <3>1, GotoFacts
    <3> QED BY <2>4, <3>2 DEF Comes
  <2>5. CASE admin[b].at = "builtin" /\ admin[b].i <= j /\ \A l \in admin[b].i..j : Missing(l)
    <3>1. PICK p : p = admin[b].i
      OBVIOUS
    <3>2. p \in 1..Len(Builtin) /\ j \in 1..Len(Builtin)
      BY <2>5, <3>1, RegNow, AdminFacts, FilesFacts
    <3>3. \A l \in p..j : l \in DOMAIN Builtin /\ Missing(l)
      BY <2>5, <3>1, <3>2, FilesFacts
    <3>4. CASE i \in p..j
      <4>1. i < j /\ i < Len(Builtin)
        BY <1>1, <2>1, <3>2, <3>4, FilesFacts
      <4>2. \A l \in (i + 1)..j : l \in p..j /\ l # i
        BY <1>1, <3>2, <3>4
      <4>3. \A l \in (i + 1)..j : Missing(l)'
        BY <2>3, <3>3, <4>2
      <4>4. admin'[a] = c /\ c.at = "builtin" /\ c.i = i + 1 /\ i + 1 <= j
        BY <1>1, <1>2, <3>2, <4>1, GotoFacts
      <4> QED BY <4>3, <4>4 DEF Comes
    <3>5. CASE i \notin p..j
      <4>1. b # a
        BY <1>1, <2>5, <3>1, <3>2, <3>5
      <4>2. admin'[b] = admin[b]
        BY <4>1, GotoFacts
      <4>3. \A l \in p..j : Missing(l)'
        BY <2>3, <3>3, <3>5
      <4> QED BY <2>5, <3>1, <4>2, <4>3 DEF Comes
    <3> QED BY <3>4, <3>5
  <2> QED BY <2>2, <2>4, <2>5 DEF Comes
<1>5. Snapshot'
  BY <1>2, SnapshotKept
<1>6. ASSUME ~mixed' PROVE (\A b \in Admin : b # a => admin[b] = Off) /\ Phase(c)'
  <2>1. Phase(admin[a]) /\ \A b \in Admin : b # a => admin[b] = Off
    BY <1>6, PhaseNow
  <2>2. reg = [m \in {Builtin[j] : j \in 1..(i - 1)} |-> Def(m, TRUE)]
    BY <2>1 DEF Phase
  <2>3. reg' = [m \in DOMAIN reg \cup {n} |-> IF m = n THEN Def(n, TRUE) ELSE reg[m]]
    BY DEF Register
  <2>4. DOMAIN reg \cup {n} = {Builtin[j] : j \in 1..i}
    BY <1>1, <2>2, FilesFacts
  <2>5. reg' = [m \in {Builtin[j] : j \in 1..i} |-> Def(m, TRUE)]
    BY <2>2, <2>3, <2>4
  <2>6. CASE i < Len(Builtin)
    <3>1. c.i - 1 = i
      BY <1>1, <1>2, <2>6
    <3> QED BY <1>2, <2>1, <2>5, <2>6, <3>1 DEF Phase
  <2>7. CASE ~(i < Len(Builtin))
    <3>1. {Builtin[j] : j \in 1..i} = Range(Builtin)
      BY <1>1, <2>7, FilesFacts DEF Range
    <3>2. reg' = [m \in Range(Builtin) |-> Def(m, TRUE)]
      BY <2>5, <3>1
    <3>3. reg' = Builtins
      BY <3>2 DEF Builtins, Def
    <3> QED BY <1>2, <2>1, <2>7, <3>3 DEF Phase, Builtins
  <2> QED BY <2>6, <2>7
<1>7. manifest' \in Dir /\ (state' = Torn \/ Settings(state'))
      /\ mixed' \in BOOLEAN /\ calls' \in 0..MaxCalls
  BY RegNow
<1> QED BY <1>2, <1>3, <1>4, <1>5, <1>6, <1>7, AdminMoves

LEMMA BuiltinsStep ==
  ASSUME RInv, NEW a \in Admin, registerBuiltins(a)
  PROVE  RInv'
<1>1. PICK i : i = admin[a].i
  OBVIOUS
<1>2. PICK n : n = Builtin[i]
  OBVIOUS
<1>3. admin[a].at = "builtin" /\ UNCHANGED <<manifest, state, mixed, calls>>
  BY DEF registerBuiltins
<1>4. CASE Resolves(reg, n)
  <2>1. Goto(a, Off) /\ UNCHANGED reg
    BY <1>1, <1>2, <1>4 DEF registerBuiltins, Return
  <2> QED BY <1>1, <1>2, <1>3, <1>4, <2>1, TakenStep
<1>5. CASE ~Resolves(reg, n)
  <2>1. PICK c : c = IF i < Len(Builtin) THEN [at |-> "builtin", i |-> i + 1] ELSE [at |-> "dir"]
    OBVIOUS
  <2>2. Goto(a, c) /\ reg' = Register(reg, n, Def(n, TRUE))
    BY <1>1, <1>2, <1>5, <2>1, Zenon DEF registerBuiltins, Def
  <2>3. IF i < Len(Builtin) THEN c = [at |-> "builtin", i |-> i + 1] ELSE c = [at |-> "dir"]
    BY <2>1
  <2> QED BY <1>1, <1>2, <1>3, <1>5, <2>2, <2>3, FreeStep
<1> QED BY <1>4, <1>5

LEMMA SetNothing ==
  ASSUME NEW g, IsReg(g), NEW st
  PROVE  Set(g, st, {}) = g
<1>1. g = [n \in DOMAIN g |-> g[n]]
  BY DEF IsReg
<1>2. Set(g, st, {}) = [n \in DOMAIN g |-> g[n]]
  BY DEF Set
<1> QED BY <1>1, <1>2

LEMMA LeastIs ==
  ASSUME NEW T, T \subseteq Nat, T # {}
  PROVE  Min(T) \in T /\ \A y \in T : Min(T) <= y
<1>1. \E x \in T : \A y \in T : x <= y
  BY Least
<1>2. Min(T) = CHOOSE x \in T : \A y \in T : x <= y
  BY Zenon DEF Min
<1> QED BY <1>1, <1>2, Zenon

LEMMA FilesOK ==
  ASSUME NEW c, NEW todo, todo \subseteq DOMAIN Files, NEW failed \in BOOLEAN,
         c = [at |-> "files", todo |-> todo, failed |-> failed]
  PROVE  c.at = "files" /\ c.todo = todo /\ c.failed = failed /\ AdminOK(c) /\ c # Off
<1>1. c.at = "files" /\ c.todo = todo /\ c.failed = failed
  OBVIOUS
<1> QED BY <1>1 DEF AdminOK, Off

LEMMA ReadDirStep ==
  ASSUME RInv, NEW a \in Admin, ReadDir(a)
  PROVE  RInv'
<1>1. PICK c : c = [at |-> "files", todo |-> PresentOf(manifest), failed |-> FALSE]
  OBVIOUS
<1>2. Goto(a, c) /\ admin[a].at = "dir" /\ UNCHANGED <<reg, manifest, state, mixed, calls>>
  BY <1>1, Zenon DEF ReadDir, Present, PresentOf
<1>3. PresentOf(manifest) \subseteq DOMAIN Files
  BY DEF PresentOf
<1>4. c.at = "files" /\ c.todo = PresentOf(manifest) /\ c.failed = FALSE /\ AdminOK(c) /\ c # Off
  BY <1>1, <1>3, FilesOK
<1>5. Covered'
  BY <1>2, CoveredKept DEF NamesFree
<1>6. Snapshot'
  <2>1. \A i \in c.todo : manifest'[Files[i]] # NoFile
    BY <1>2, <1>4 DEF PresentOf
  <2> QED BY <1>2, <2>1, SnapshotKept
<1>7. ASSUME ~mixed' PROVE (\A b \in Admin : b # a => admin[b] = Off) /\ Phase(c)'
  <2>1. Phase(admin[a]) /\ \A b \in Admin : b # a => admin[b] = Off
    BY <1>2, <1>7, PhaseNow
  <2>2. reg = After(manifest)[0]
    BY <1>2, <2>1, AfterSteps DEF Phase
  <2>3. 0 \in 0..Len(Files) /\ \A i \in PresentOf(manifest) : i > 0 /\ ~(i <= 0)
    BY <1>3, FilesFacts
  <2>4. PresentOf(manifest) = {i \in PresentOf(manifest) : i > 0}
    BY <2>3
  <2>5. FilesDone(0, c)'
    BY <1>2, <1>4, <2>2, <2>3, <2>4 DEF FilesDone
  <2> QED BY <1>4, <2>1, <2>3, <2>5 DEF Phase
<1>8. IsReg(reg') /\ manifest' \in Dir /\ (state' = Torn \/ Settings(state'))
      /\ mixed' \in BOOLEAN /\ calls' \in 0..MaxCalls
  BY <1>2, RegNow
<1> QED BY <1>2, <1>4, <1>5, <1>6, <1>7, <1>8, AdminMoves

\* The last file was read.
LEMMA FilesEnd ==
  ASSUME NEW k \in 0..Len(Files), NEW c, FilesDone(k, c), c.todo = {}, c.failed \in BOOLEAN
  PROVE  reg = After(manifest)[Len(Files)] /\ (c.failed <=> ~AllLoad(manifest))
<1>1. \A i \in PresentOf(manifest) : i \in Nat
  BY FilesFacts DEF PresentOf
<1>2. \A i \in PresentOf(manifest) : i <= k
  BY <1>1, FilesFacts DEF FilesDone
<1>3. Len(Files) \in k..Len(Files)
  BY FilesFacts
<1>4. After(manifest)[Len(Files)] = After(manifest)[k]
  BY <1>2, <1>3, AfterSame
<1>5. c.failed <=> ~AllLoad(manifest)
  BY <1>2 DEF FilesDone, AllLoad
<1> QED BY <1>4, <1>5 DEF FilesDone

\* The next file is read.
LEMMA FilesOn ==
  ASSUME NEW k \in 0..Len(Files), NEW c, FilesDone(k, c), c.todo # {}, c.failed \in BOOLEAN,
         NEW i, i = Min(c.todo), NEW d, d.todo = c.todo \ {i},
         d.failed = (c.failed \/ ~LoadsOf(reg, manifest, Files[i])),
         reg' = LoadOf(reg, manifest, Files[i]), manifest' = manifest
  PROVE  i \in 0..Len(Files) /\ FilesDone(i, d)'
<1>1. c.todo = {j \in PresentOf(manifest) : j > k}
  BY DEF FilesDone
<1>2. c.todo \subseteq 1..Len(Files) /\ PresentOf(manifest) \subseteq 1..Len(Files)
  BY <1>1, FilesFacts DEF PresentOf
<1>3. i \in c.todo /\ \A j \in c.todo : i <= j
  <2>1. c.todo \subseteq Nat
    BY <1>2, FilesFacts
  <2> QED BY <2>1, LeastIs
<1>4. i \in PresentOf(manifest) /\ i > k /\ i \in 1..Len(Files) /\ i - 1 \in k..Len(Files)
  BY <1>1, <1>2, <1>3, FilesFacts
<1> DEFINE P == PresentOf(manifest)
<1>0. k \in Nat /\ i \in Nat /\ P \subseteq Nat
  BY <1>2, <1>4, FilesFacts
<1>10. i \in P /\ i > k /\ \A j \in P : j > k => i <= j
  BY <1>1, <1>3, <1>4
<1> HIDE DEF P
<1>11. \A j \in P : (j <= k \/ i - 1 < j) /\ (j <= i <=> (j <= k \/ j = i)) /\ (j > i <=> j > k /\ j # i)
  BY <1>0, <1>10
<1>5. \A j \in PresentOf(manifest) : j <= k \/ i - 1 < j
  BY <1>11 DEF P
<1>6. After(manifest)[i - 1] = reg
  BY <1>4, <1>5, AfterSame DEF FilesDone
<1>7. After(manifest)[i] = LoadOf(reg, manifest, Files[i])
  BY <1>4, <1>6, AfterSteps DEF Then
<1>8. d.todo = {j \in PresentOf(manifest) : j > i}
  <2>1. \A j \in PresentOf(manifest) : j \in d.todo <=> j > i
    BY <1>1, <1>11 DEF P
  <2> QED BY <1>1, <2>1
<1>9. d.failed <=> \E j \in PresentOf(manifest) :
                      j <= i /\ ~LoadsOf(After(manifest)[j - 1], manifest, Files[j])
  <2>1. \A j \in PresentOf(manifest) : j <= i <=> (j <= k \/ j = i)
    BY <1>11 DEF P
  <2>2. c.failed <=> \E j \in PresentOf(manifest) :
                        j <= k /\ ~LoadsOf(After(manifest)[j - 1], manifest, Files[j])
    BY DEF FilesDone
  <2>3. LoadsOf(reg, manifest, Files[i]) <=> LoadsOf(After(manifest)[i - 1], manifest, Files[i])
    BY <1>6
  <2> QED BY <1>4, <2>1, <2>2, <2>3
<1> QED BY <1>4, <1>7, <1>8, <1>9, FilesFacts DEF FilesDone

LEMMA SettingsOK == \A c : c = [at |-> "settings"] => c.at = "settings" /\ AdminOK(c) /\ c # Off
BY DEF AdminOK, Off

\* What is left when the settings are not read.
LEMMA NotSet ==
  ASSUME RInv, ~AllLoad(manifest) \/ state = Torn
  PROVE  LoadedOf(manifest, state) = After(manifest)[Len(Files)]
<1>1. IsReg(After(manifest)[Len(Files)])
  BY RegNow, AfterReg, FilesFacts
<1> QED BY <1>1, SetNothing DEF LoadedOf

LEMMA FilesStep ==
  ASSUME RInv, NEW a \in Admin, LoadSkillManifests(a)
  PROVE  RInv'
<1>1. PICK d : d = admin[a]
  OBVIOUS
<1>2. d.at = "files" /\ UNCHANGED <<manifest, state, mixed, calls>>
  BY <1>1 DEF LoadSkillManifests
<1>3. d.todo \subseteq DOMAIN Files /\ d.failed \in BOOLEAN
  BY <1>1, <1>2, RegNow, AdminFacts
<1>4. ASSUME ~mixed
      PROVE  /\ \A b \in Admin : b # a => admin[b] = Off
             /\ \E k \in 0..Len(Files) : FilesDone(k, d)
  BY <1>1, <1>2, <1>4, PhaseNow DEF Phase
<1>5. CASE d.todo = {} /\ d.failed
  <2>1. Goto(a, Off) /\ UNCHANGED reg
    BY <1>1, <1>5 DEF LoadSkillManifests, Return
  <2>2. ~mixed' => ~mixed /\ reg = LoadedOf(manifest, state')
    BY <1>2, <1>3, <1>4, <1>5, FilesEnd, NotSet
  <2>3. mixed' \in BOOLEAN /\ (state' = Torn \/ Settings(state'))
    BY <1>2, RegNow
  <2> QED BY <1>1, <1>2, <2>1, <2>2, <2>3, OffOK, OffAt, QuietStep
<1>6. CASE d.todo = {} /\ ~d.failed
  <2>1. PICK c : c = [at |-> "settings"]
    OBVIOUS
  <2>2. Goto(a, c) /\ UNCHANGED reg
    BY <1>1, <1>6, <2>1, Zenon DEF LoadSkillManifests
  <2>3. c.at = "settings" /\ AdminOK(c) /\ c # Off
    BY <2>1, SettingsOK
  <2>4. ASSUME ~mixed PROVE Phase(c)'
    <3>1. AllLoad(manifest) /\ reg = After(manifest)[Len(Files)]
      BY <1>3, <1>4, <1>6, <2>4, FilesEnd
    <3>2. AllLoad(manifest)' /\ After(manifest)' = After(manifest)
      BY <1>2, <3>1 DEF AllLoad
    <3> QED BY <2>2, <2>3, <3>1, <3>2 DEF Phase
  <2>5. mixed' \in BOOLEAN /\ (state' = Torn \/ Settings(state'))
    BY <1>2, RegNow
  <2> QED BY <1>1, <1>2, <2>2, <2>3, <2>4, <2>5, QuietStep
<1>7. CASE d.todo # {}
  <2>1. PICK i : i = Min(d.todo)
    OBVIOUS
  <2>2. i \in d.todo /\ i \in 1..Len(Files)
    <3>1. d.todo \subseteq Nat
      BY <1>3, FilesFacts
    <3> QED BY <1>3, <1>7, <2>1, <3>1, LeastIs, FilesFacts
  <2>3. PICK n : n = Files[i]
    OBVIOUS
  <2>4. PICK failed : failed = (d.failed \/ ~LoadsOf(reg, manifest, n))
    OBVIOUS
  <2>5. PICK c : c = [at |-> "files", todo |-> d.todo \ {i}, failed |-> failed]
    OBVIOUS
  <2>6. Goto(a, c) /\ reg' = LoadOf(reg, manifest, n)
    BY <1>1, <1>7, <2>1, <2>3, <2>4, <2>5, Zenon
    DEF LoadSkillManifests, loadSkillManifest, Loads, LoadOf, LoadsOf
  <2>7. failed \in BOOLEAN /\ d.todo \ {i} \subseteq DOMAIN Files
    BY <1>3, <2>4
  <2>8. c.at = "files" /\ c.todo = d.todo \ {i} /\ c.failed = failed /\ AdminOK(c) /\ c # Off
    BY <2>5, <2>7, FilesOK
  <2>9. n \in Range(Files) /\ manifest[n] # NoFile
    BY <1>1, <1>2, <2>2, <2>3, FilesFacts DEF RInv, Snapshot
  <2>10. IsReg(reg') /\ DOMAIN reg \subseteq DOMAIN reg' /\ DOMAIN reg' \subseteq DOMAIN reg \cup {n}
    BY <2>6, <2>9, RegNow, LoadReg
  <2>11. Covered'
    <3>1. NamesFree' => NamesFree /\ n \notin Range(Builtin)
      BY <1>2, <2>9 DEF NamesFree
    <3> QED BY <1>1, <1>2, <2>6, <2>10, <3>1, CoveredKept
  <2>12. Snapshot'
    <3>1. \A j \in c.todo : manifest'[Files[j]] # NoFile
      BY <1>1, <1>2, <2>8 DEF RInv, Snapshot
    <3> QED BY <1>2, <2>6, <3>1, SnapshotKept
  <2>13. ASSUME ~mixed PROVE Phase(c)'
    <3>1. PICK k \in 0..Len(Files) : FilesDone(k, d)
      BY <1>4, <2>13
    <3>2. i \in 0..Len(Files) /\ FilesDone(i, c)'
      BY <1>2, <1>3, <1>7, <2>1, <2>3, <2>4, <2>6, <2>8, <3>1, FilesOn
    <3> QED BY <2>8, <3>2 DEF Phase
  <2>14. manifest' \in Dir /\ (state' = Torn \/ Settings(state'))
         /\ mixed' \in BOOLEAN /\ calls' \in 0..MaxCalls
    BY <1>2, RegNow
  <2> QED BY <1>2, <1>4, <2>6, <2>8, <2>10, <2>11, <2>12, <2>13, <2>14, AdminMoves
<1> QED BY <1>5, <1>6, <1>7

LEMMA ApplyOK ==
  ASSUME NEW c, NEW left, Settings(left), c = [at |-> "apply", left |-> left]
  PROVE  c.at = "apply" /\ c.left = left /\ AdminOK(c) /\ c # Off
<1>1. c.at = "apply" /\ c.left = left
  OBVIOUS
<1> QED BY <1>1 DEF AdminOK, Off

LEMMA ReadSettingsStep ==
  ASSUME RInv, NEW a \in Admin, ReadSettings(a)
  PROVE  RInv'
<1>1. PICK d : d = admin[a]
  OBVIOUS
<1>2. d.at = "settings" /\ UNCHANGED <<reg, manifest, state, mixed, calls>>
  BY <1>1 DEF ReadSettings
<1>3. ~mixed => AllLoad(manifest) /\ reg = After(manifest)[Len(Files)]
  BY <1>1, <1>2, PhaseNow DEF Phase
<1>4. mixed' \in BOOLEAN /\ (state' = Torn \/ Settings(state'))
  BY <1>2, RegNow
<1>5. CASE state = Torn
  <2>1. Goto(a, Off)
    BY <1>5 DEF ReadSettings, Return
  <2>2. ~mixed' => ~mixed /\ reg = LoadedOf(manifest, state')
    BY <1>2, <1>3, <1>5, NotSet
  <2> QED BY <1>1, <1>2, <1>4, <2>1, <2>2, OffOK, OffAt, QuietStep
<1>6. CASE state # Torn
  <2>1. PICK c : c = [at |-> "apply", left |-> state]
    OBVIOUS
  <2>2. Goto(a, c)
    BY <1>6, <2>1, Zenon DEF ReadSettings
  <2>3. c.at = "apply" /\ c.left = state /\ AdminOK(c) /\ c # Off
    BY <1>6, <2>1, RegNow, ApplyOK
  <2>4. ASSUME ~mixed PROVE Phase(c)'
    <3>1. IsReg(reg)
      BY RegNow
    <3>2. DOMAIN state \ DOMAIN c.left = {}
      BY <2>3
    <3>3. reg = Set(After(manifest)[Len(Files)], state, DOMAIN state \ DOMAIN c.left)
      BY <1>3, <2>4, <3>1, <3>2, SetNothing
    <3>4. /\ AllLoad(manifest)' /\ After(manifest)' = After(manifest) /\ Len(Files)' = Len(Files)
          /\ c' = c
      BY <1>2, <1>3, <2>4 DEF AllLoad
    <3>5. (reg = Set(After(manifest)[Len(Files)], state, DOMAIN state \ DOMAIN c.left))'
      BY <1>2, <3>3, <3>4
    <3> QED BY <1>2, <1>6, <2>3, <3>4, <3>5 DEF Phase
  <2> QED BY <1>1, <1>2, <1>4, <2>2, <2>3, <2>4, QuietStep
<1> QED BY <1>5, <1>6

LEMMA SetEnabledReg ==
  ASSUME NEW g, IsReg(g), NEW n, NEW on \in BOOLEAN
  PROVE  IsReg(SetEnabled(g, n, on)) /\ DOMAIN SetEnabled(g, n, on) = DOMAIN g
<1>1. CASE n \in DOMAIN g
  <2>1. PICK st : st = [x \in {n} |-> on]
    OBVIOUS
  <2>2. SetEnabled(g, n, on) = [g EXCEPT ![n].enabled = on]
    BY <1>1 DEF SetEnabled, Resolves
  <2>3. g = [x \in DOMAIN g |-> g[x]]
    BY DEF IsReg
  <2>4. [g EXCEPT ![n].enabled = on]
          = [x \in DOMAIN g |-> IF x = n THEN [g[n] EXCEPT !.enabled = on] ELSE g[x]]
    BY <1>1, <2>3
  <2>5. Set(g, st, {n}) = [x \in DOMAIN g |-> IF x = n THEN [g[n] EXCEPT !.enabled = on] ELSE g[x]]
    BY <1>1, <2>1 DEF Set
  <2>6. SetEnabled(g, n, on) = Set(g, st, {n})
    BY <2>2, <2>4, <2>5
  <2>7. \A x \in {n} : st[x] \in BOOLEAN
    BY <2>1
  <2> QED BY <2>6, <2>7, SetReg
<1>2. CASE n \notin DOMAIN g
  BY <1>2 DEF SetEnabled, Resolves
<1> QED BY <1>1, <1>2

\* One more setting is applied.
LEMMA OneMore ==
  ASSUME NEW g, IsReg(g), NEW st, NEW left, DOMAIN left \subseteq DOMAIN st,
         NEW n \in DOMAIN left, left[n] = st[n]
  PROVE  SetEnabled(Set(g, st, DOMAIN st \ DOMAIN left), n, left[n])
           = Set(g, st, DOMAIN st \ (DOMAIN left \ {n}))
<1>1. PICK h : h = Set(g, st, DOMAIN st \ DOMAIN left)
  OBVIOUS
<1>2. PICK f : f = Set(g, st, DOMAIN st \ (DOMAIN left \ {n}))
  OBVIOUS
<1>3. /\ DOMAIN h = DOMAIN g /\ h = [x \in DOMAIN h |-> h[x]]
      /\ \A x \in DOMAIN g : h[x] = IF x \in DOMAIN st \ DOMAIN left
                                    THEN [g[x] EXCEPT !.enabled = st[x]] ELSE g[x]
  BY <1>1 DEF Set
<1>4. /\ DOMAIN f = DOMAIN g /\ f = [x \in DOMAIN f |-> f[x]]
      /\ \A x \in DOMAIN g : f[x] = IF x \in DOMAIN st \ (DOMAIN left \ {n})
                                    THEN [g[x] EXCEPT !.enabled = st[x]] ELSE g[x]
  BY <1>2 DEF Set
<1>5. \A x \in DOMAIN g : x # n => f[x] = h[x]
  BY <1>3, <1>4
<1>6. CASE n \in DOMAIN g
  <2>1. h[n] = g[n] /\ f[n] = [g[n] EXCEPT !.enabled = st[n]]
    BY <1>3, <1>4, <1>6
  <2>2. SetEnabled(h, n, left[n]) = [h EXCEPT ![n].enabled = left[n]]
    BY <1>3, <1>6 DEF SetEnabled, Resolves
  <2>3. [h EXCEPT ![n].enabled = left[n]]
          = [x \in DOMAIN g |-> IF x = n THEN [h[n] EXCEPT !.enabled = left[n]] ELSE h[x]]
    BY <1>3
  <2>4. \A x \in DOMAIN g : (IF x = n THEN [h[n] EXCEPT !.enabled = left[n]] ELSE h[x]) = f[x]
    BY <1>5, <2>1
  <2>5. f = [x \in DOMAIN g |-> IF x = n THEN [h[n] EXCEPT !.enabled = left[n]] ELSE h[x]]
    BY <1>4, <2>4
  <2> QED BY <1>1, <1>2, <2>2, <2>3, <2>5
<1>7. CASE n \notin DOMAIN g
  <2>1. SetEnabled(h, n, left[n]) = h
    BY <1>3, <1>7 DEF SetEnabled, Resolves
  <2>2. f = h
    BY <1>3, <1>4, <1>5, <1>7
  <2> QED BY <1>1, <1>2, <2>1, <2>2
<1> QED BY <1>6, <1>7

LEMMA ApplyStep ==
  ASSUME RInv, NEW a \in Admin, applySkillStateOverrides(a)
  PROVE  RInv'
<1>1. PICK d : d = admin[a]
  OBVIOUS
<1>2. PICK left : left = d.left
  OBVIOUS
<1>3. d.at = "apply" /\ UNCHANGED <<manifest, state, mixed, calls>>
  BY <1>1 DEF applySkillStateOverrides
<1>4. Settings(left)
  BY <1>1, <1>2, <1>3, RegNow, AdminFacts
<1>5. PICK g : g = After(manifest)[Len(Files)]
  OBVIOUS
<1>6. ~mixed => /\ AllLoad(manifest) /\ state # Torn /\ DOMAIN left \subseteq DOMAIN state
                /\ \A n \in DOMAIN left : left[n] = state[n]
                /\ reg = Set(g, state, DOMAIN state \ DOMAIN left)
                /\ \A b \in Admin : b # a => admin[b] = Off
  BY <1>1, <1>2, <1>3, <1>5, PhaseNow DEF Phase
<1>7. \/ DOMAIN left = {} /\ Goto(a, Off) /\ UNCHANGED reg
      \/ \E n \in DOMAIN left :
           /\ reg' = SetEnabled(reg, n, left[n])
           /\ Goto(a, [at |-> "apply", left |-> [m \in DOMAIN left \ {n} |-> left[m]]])
  BY <1>1, <1>2, Zenon DEF applySkillStateOverrides, Return
<1>8. CASE DOMAIN left = {} /\ Goto(a, Off) /\ UNCHANGED reg
  <2>1. ASSUME ~mixed PROVE reg = LoadedOf(manifest, state')
    <3>1. DOMAIN state \ DOMAIN left = DOMAIN state
      BY <1>8
    <3>2. reg = Set(g, state, DOMAIN state)
      BY <1>6, <2>1, <3>1
    <3> QED BY <1>3, <1>5, <1>6, <2>1, <3>2 DEF LoadedOf
  <2>2. mixed' \in BOOLEAN /\ (state' = Torn \/ Settings(state'))
    BY <1>3, RegNow
  <2> QED BY <1>1, <1>3, <1>8, <2>1, <2>2, OffOK, OffAt, QuietStep
<1>9. ASSUME NEW n \in DOMAIN left, reg' = SetEnabled(reg, n, left[n]),
             Goto(a, [at |-> "apply", left |-> [m \in DOMAIN left \ {n} |-> left[m]]])
      PROVE  RInv'
  <2>1. PICK rest : rest = [m \in DOMAIN left \ {n} |-> left[m]]
    OBVIOUS
  <2>2. PICK c : c = [at |-> "apply", left |-> rest]
    OBVIOUS
  <2>3. Goto(a, c)
    BY <1>9, <2>1, <2>2
  <2>4. Settings(rest) /\ DOMAIN rest = DOMAIN left \ {n} /\ \A m \in DOMAIN rest : rest[m] = left[m]
    BY <1>4, <2>1 DEF Settings
  <2>5. c.at = "apply" /\ c.left = rest /\ AdminOK(c) /\ c # Off
    BY <2>2, <2>4, ApplyOK
  <2>6. IsReg(reg') /\ DOMAIN reg' = DOMAIN reg
    <3>1. left[n] \in BOOLEAN
      BY <1>4 DEF Settings
    <3> QED BY <1>9, <3>1, RegNow, SetEnabledReg
  <2>7. Covered'
    BY <1>1, <1>3, <2>3, <2>6, CoveredKept DEF NamesFree
  <2>8. Snapshot'
    BY <1>3, <2>3, <2>5, SnapshotKept
  <2>9. ASSUME ~mixed PROVE Phase(c)'
    <3>1. IsReg(g)
      BY <1>5, RegNow, AfterReg, FilesFacts
    <3>2. reg' = Set(g, state, DOMAIN state \ (DOMAIN left \ {n}))
      BY <1>6, <1>9, <2>9, <3>1, OneMore
    <3>3. reg' = Set(g, state, DOMAIN state \ DOMAIN c.left)
      BY <2>4, <2>5, <3>2
    <3>4. AllLoad(manifest)' /\ After(manifest)' = After(manifest) /\ Len(Files)' = Len(Files)
      BY <1>3, <1>6, <2>9 DEF AllLoad
    <3>5. (reg = Set(After(manifest)[Len(Files)], state, DOMAIN state \ DOMAIN c.left))'
      BY <1>3, <1>5, <3>3, <3>4
    <3> QED BY <1>3, <1>6, <2>4, <2>5, <2>9, <3>4, <3>5 DEF Phase
  <2>10. manifest' \in Dir /\ (state' = Torn \/ Settings(state'))
         /\ mixed' \in BOOLEAN /\ calls' \in 0..MaxCalls
    BY <1>3, RegNow
  <2> QED BY <1>3, <1>6, <2>3, <2>5, <2>6, <2>7, <2>8, <2>9, <2>10, AdminMoves
<1> QED BY <1>7, <1>8, <1>9

LEMMA AdminStepStep ==
  ASSUME RInv, NEW a \in Admin, AdminStep(a)
  PROVE  RInv'
BY LoadStateStep, SaveStateStep, WriteManifestStep, AdminWriteFailsStep, NewRegistryStep,
   BuiltinsStep, ReadDirStep, FilesStep, ReadSettingsStep, ApplyStep DEF AdminStep

LEMMA LoadedNext == Loaded' = LoadedOf(manifest', state')
<1>1. Loaded' = [n \in DOMAIN After(manifest')[Len(Files)] |->
                   IF AllLoad(manifest') /\ state' # Torn /\ n \in DOMAIN state'
                   THEN [After(manifest')[Len(Files)][n] EXCEPT !.enabled = state'[n]]
                   ELSE After(manifest')[Len(Files)][n]]
  BY Zenon DEF Loaded, After, AllLoad, LoadsOf, LoadOf, Then, Loads, loadSkillManifest,
     Present, PresentOf
<1> QED BY <1>1 DEF LoadedOf, Set

\* The registry after a start.
LEMMA Fresh ==
  ASSUME manifest \in Dir, state = Torn \/ Settings(state), reg = LoadedOf(manifest, state),
         admin = [a \in Admin |-> Off], mixed = FALSE, calls \in 0..MaxCalls
  PROVE  RInv
<1>1. IsReg(reg) /\ Range(Builtin) \subseteq DOMAIN reg
  BY LoadedReg
<1>2. admin = [a \in Admin |-> admin[a]] /\ \A a \in Admin : admin[a] = Off
  OBVIOUS
<1>3. RegTypes
  BY <1>1, <1>2, OffOK DEF RegTypes
<1>4. Alone
  BY <1>2 DEF Alone
<1>5. Covered
  BY <1>1, FilesFacts DEF Covered, Missing
<1>6. Snapshot
  BY <1>2, OffAt DEF Snapshot
<1> QED BY <1>3, <1>4, <1>5, <1>6 DEF RInv

LEMMA RegistryStarts ==
  ASSUME RegistryInit
  PROVE  RInv
<1>1. manifest \in Dir
  <2>1. manifest \in [Range(Files) -> Manifests \cup {NoFile}]
    BY RegistryAssumption DEF RegistryInit
  <2> QED BY <2>1 DEF Dir
<1>2. Settings(state)
  <2>1. state = <<>>
    BY DEF RegistryInit
  <2>2. DOMAIN state = {} /\ state = [n \in DOMAIN state |-> state[n]]
    BY <2>1
  <2> QED BY <2>2 DEF Settings
<1>3. reg = LoadedOf(manifest, state)
  BY LoadedIs DEF RegistryInit
<1>4. admin = [a \in Admin |-> Off] /\ mixed = FALSE /\ calls = 0
  BY DEF RegistryInit
<1>5. calls \in 0..MaxCalls
  BY <1>4, RegistryAssumption
<1> QED BY <1>1, <1>2, <1>3, <1>4, <1>5, Fresh

LEMMA NewRunnerStep ==
  ASSUME RInv, NewRunner
  PROVE  RInv'
<1>1. manifest' \in Dir
  <2>1. CASE manifest' = manifest
    BY <2>1, RegNow
  <2>2. ASSUME NEW a \in Admin, admin[a].at = "manifest",
               manifest' = [manifest EXCEPT ![admin[a].name] = Undecodable]
        PROVE  manifest' \in Dir
    <3>1. admin[a].name \in Range(Files)
      BY <2>2, RegNow, AdminFacts
    <3> QED BY <2>2, <3>1, ManifestWritten
  <2> QED BY <2>1, <2>2 DEF NewRunner
<1>2. state' = Torn \/ Settings(state')
  BY RegNow DEF NewRunner
<1>3. reg' = LoadedOf(manifest', state')
  BY LoadedNext DEF NewRunner
<1>4. admin' = [a \in Admin |-> Off] /\ mixed' = FALSE /\ calls' \in 0..MaxCalls
  BY RegNow DEF NewRunner
<1>5. IsReg(reg') /\ Range(Builtin) \subseteq DOMAIN reg'
  BY <1>1, <1>2, <1>3, LoadedReg
<1>6. admin' = [a \in Admin |-> admin'[a]] /\ \A a \in Admin : admin'[a] = Off
  BY <1>4
<1>7. RegTypes'
  BY <1>1, <1>2, <1>4, <1>5, <1>6, OffOK DEF RegTypes
<1>8. Alone'
  <2>1. LoadedOf(manifest, state)' = LoadedOf(manifest', state')
    OBVIOUS
  <2> QED BY <1>3, <1>6, <2>1 DEF Alone
<1>9. Covered'
  BY <1>5, FilesFacts DEF Covered, Missing
<1>10. Snapshot'
  BY <1>6, OffAt DEF Snapshot
<1> QED BY <1>7, <1>8, <1>9, <1>10 DEF RInv

\* Steps that leave the registry, its files and its calls alone.
LEMMA RegistryStays ==
  ASSUME RInv, UNCHANGED <<reg, manifest, state, admin, mixed>>, calls' \in 0..MaxCalls
  PROVE  RInv'
<1>1. RegTypes'
  BY DEF RInv, RegTypes, AdminOK, IsReg, IsDef, Settings
<1>2. Alone'
  BY DEF RInv, Alone, OpenCalls, Phase, FilesDone
<1>3. Covered'
  BY DEF RInv, Covered, NamesFree, Missing, Comes
<1>4. Snapshot'
  BY DEF RInv, Snapshot
<1> QED BY <1>1, <1>2, <1>3, <1>4 DEF RInv

\* The runs' steps, those of handleRunTask apart.
LEMMA RunStepStays ==
  ASSUME RInv, NEW r \in Run, RunStep(r)
  PROVE  RInv' /\ UNCHANGED <<reg, manifest, state, admin, mixed, calls>>
<1>1. UNCHANGED <<reg, manifest, state, admin, mixed, calls>>
  <2>1. CASE generateTaskPlan(r) \/ Consolidates(r) \/ CheckInput(r) \/ Execute(r) \/ Connect(r)
    BY <2>1, Zenon DEF generateTaskPlan, Consolidates, CheckInput, Execute, Connect, Outside, regVars
  <2>2. CASE writeArtifact(r) \/ writeObservation(r) \/ upsertCard(r) \/ WriteFails(r)
    BY <2>2, Zenon DEF writeArtifact, writeObservation, upsertCard, WriteFails, regVars, ledgers
  <2>3. CASE resolveExternalPaths(r) \/ resolveRootApproval(r) \/ Consume(r) \/ Command(r)
    BY <2>3, Zenon DEF resolveExternalPaths, resolveRootApproval, Consume, Command, Outside, regVars, ledgers
  <2>4. CASE MoveTask(r)
    BY <2>4, Zenon DEF MoveTask, regVars
  <2> QED BY <2>1, <2>2, <2>3, <2>4, Zenon DEF RunStep
<1>2. calls' \in 0..MaxCalls
  BY <1>1, RegNow
<1> QED BY <1>1, <1>2, RegistryStays

\* A call on a task leaves the registry as it is.
LEMMA CallStays ==
  ASSUME RInv, NEW t \in Task, CallOn(t), UNCHANGED <<reg, manifest, state, admin, mixed>>
  PROVE  RInv'
<1>1. calls' = calls + (IF OpenCalls = {} /\ Busy(t) = {} THEN 1 ELSE 2) /\ calls' <= MaxCalls
  BY DEF CallOn
<1>2. calls \in Nat
  BY RegNow, RegistryAssumption
<1>3. calls' \in 0..MaxCalls
  BY <1>1, <1>2, RegistryAssumption
<1> QED BY <1>3, RegistryStays

LEMMA RegistryNext ==
  ASSUME RInv, [Next]_vars
  PROVE  RInv'
<1>1. ASSUME NEW a \in Admin, AdminCall(a) \/ AdminStep(a) PROVE RInv'
  BY <1>1, AdminCallStep, AdminStepStep
<1>2. ASSUME NEW r \in Run, NEW t \in Task, RunTask(r, t) PROVE RInv'
  <2>1. CallOn(t) /\ UNCHANGED <<reg, manifest, state, admin, mixed>>
    BY <1>2, Zenon DEF RunTask
  <2> QED BY <2>1, CallStays
<1>3. ASSUME NEW r \in Run, RunStep(r) PROVE RInv'
  BY <1>3, RunStepStays
<1>4. ASSUME NEW t \in Task, RunRefused(t) PROVE RInv'
  <2>1. UNCHANGED <<reg, manifest, state, admin, mixed>> /\ calls' = calls + 1 /\ calls < MaxCalls
    BY <1>4 DEF RunRefused
  <2>2. calls' \in 0..MaxCalls
    BY <2>1, RegNow, RegistryAssumption
  <2> QED BY <2>1, <2>2, RegistryStays
<1>5. ASSUME NEW t \in Task, ApproveTask(t) \/ DenyTask(t) PROVE RInv'
  <2>1. CallOn(t) /\ UNCHANGED <<reg, manifest, state, admin, mixed>>
    BY <1>5, Zenon DEF ApproveTask, DenyTask
  <2> QED BY <2>1, CallStays
<1>6. ASSUME NEW i \in 1..MaxCalls, Approve(i) \/ Deny(i) PROVE RInv'
  <2>1. UNCHANGED <<reg, manifest, state, admin, mixed, calls>>
    BY <1>6, Zenon DEF Approve, Deny, regVars
  <2>2. calls' \in 0..MaxCalls
    BY <2>1, RegNow
  <2> QED BY <2>1, <2>2, RegistryStays
<1>7. ASSUME Crash PROVE RInv'
  <2>1. NewRunner
    BY <1>7 DEF Crash
  <2> QED BY <2>1, NewRunnerStep
<1>8. ASSUME UNCHANGED vars PROVE RInv'
  <2>1. UNCHANGED <<reg, manifest, state, admin, mixed, calls>>
    BY <1>8 DEF vars, regVars
  <2>2. calls' \in 0..MaxCalls
    BY <2>1, RegNow
  <2> QED BY <2>1, <2>2, RegistryStays
<1> QED BY <1>1, <1>2, <1>3, <1>4, <1>5, <1>6, <1>7, <1>8, Zenon DEF Next

LEMMA RegistryHonestIs ==
  ASSUME RInv
  PROVE  RegistryHonest
<1>1. RegistryTypeOK
  <2>1. Range(state) \subseteq BOOLEAN \/ state = Torn
    BY RegNow DEF Settings, Range
  <2> QED BY <2>1, RegNow DEF RegistryTypeOK, IsReg, IsDef, Settings, Dir
<1>2. BuiltinsSurvive
  <2> SUFFICES ASSUME OpenCalls = {}, NamesFree, NEW n \in Range(Builtin)
               PROVE  n \in DOMAIN reg
    BY DEF BuiltinsSurvive, NamesFree
  <2>1. PICK j \in DOMAIN Builtin : Builtin[j] = n
    BY FilesFacts
  <2>2. ASSUME Missing(j) PROVE FALSE
    <3>1. PICK a \in Admin : Comes(admin[a], j)
      BY <2>2 DEF RInv, Covered
    <3>2. admin[a] = Off
      BY DEF OpenCalls
    <3> QED BY <3>1, <3>2, OffAt DEF Comes
  <2> QED BY <2>1, <2>2 DEF Missing
<1>3. ReloadHonest
  BY LoadedIs DEF RInv, Alone, ReloadHonest
<1> QED BY <1>1, <1>2, <1>3 DEF RegistryHonest

\* Whatever reloads, settings and manifest writes overlap, fail or are cut
\* short by a crash: when none is under way every built-in skill is
\* registered, if no manifest takes its name, and after a reload that ran
\* alone the registry is exactly what the files and the settings define
\* (ReloadSkills, registerBuiltins, LoadSkillManifests,
\* applySkillStateOverrides).
THEOREM RegistryHonestHolds == Spec => []RegistryHonest
<1>1. Init => RInv
  BY RegistryStarts DEF Init
<1>2. RInv /\ [Next]_vars => RInv'
  BY RegistryNext
<1>3. RInv => RegistryHonest
  BY RegistryHonestIs
<1> QED BY <1>1, <1>2, <1>3, PTL DEF Spec

-----------------------------------------------------------------------------
(***************************************************************************)
(* What is left of a run                                                   *)
(***************************************************************************)

Known == {"task-plan", "file-edit", "file-read", "shell-command", "web-search",
          "github-issue-search", "email-inbox", "memory-consolidate"}

LEMMA KnownFacts ==
  /\ Range(Builtin) \subseteq Known /\ External \notin Known
  /\ IsFiniteSet(Task) /\ IsFiniteSet(Run)
  /\ \A k \in Kinds : k.root \in BOOLEAN /\ k.given \in BOOLEAN
BY RunnerAssumption DEF Known

\* The first step and the others.
LEMMA RangeSteps ==
  ASSUME NEW X, NEW s \in Seq(X), s # <<>>
  PROVE  /\ Range(s) = {Head(s)} \cup Range(Tail(s)) /\ Head(s) \in X /\ Tail(s) \in Seq(X)
<1>1. Len(s) \in Nat \ {0} /\ DOMAIN s = 1..Len(s) /\ Head(s) = s[1] /\ s[1] \in X
  OBVIOUS
<1>2. Tail(s) \in Seq(X) /\ DOMAIN Tail(s) = 1..(Len(s) - 1)
      /\ \A i \in 1..(Len(s) - 1) : Tail(s)[i] = s[i + 1]
  BY <1>1
<1>3. ASSUME NEW x \in Range(s) PROVE x = Head(s) \/ x \in Range(Tail(s))
  <2>1. PICK i \in 1..Len(s) : x = s[i]
    BY <1>1, <1>3 DEF Range
  <2>2. CASE i = 1
    BY <1>1, <2>1, <2>2
  <2>3. CASE i # 1
    <3>1. i - 1 \in 1..(Len(s) - 1) /\ (i - 1) + 1 = i
      BY <1>1, <2>1, <2>3
    <3>2. Tail(s)[i - 1] = x
      BY <1>2, <2>1, <3>1
    <3> QED BY <1>2, <3>1, <3>2 DEF Range
  <2> QED BY <2>2, <2>3
<1>4. Head(s) \in Range(s)
  BY <1>1 DEF Range
<1>5. ASSUME NEW x \in Range(Tail(s)) PROVE x \in Range(s)
  <2>1. PICK i \in 1..(Len(s) - 1) : x = Tail(s)[i]
    BY <1>2, <1>5 DEF Range
  <2>2. x = s[i + 1] /\ i + 1 \in 1..Len(s)
    BY <1>1, <1>2, <2>1
  <2> QED BY <1>1, <2>2 DEF Range
<1> QED BY <1>1, <1>2, <1>3, <1>4, <1>5

LEMMA PlainSteps ==
  ASSUME NEW s \in Plain
  PROVE  /\ s \in Seq({"artifact", "observation"})
         /\ s # <<>> => Head(s) \in {"artifact", "observation"} /\ Tail(s) \in Plain
<1>1. CASE s = <<>>
  BY <1>1
<1>2. CASE s = <<"observation">>
  <2>1. Tail(s) = <<>>
    BY <1>2
  <2> QED BY <1>2, <2>1 DEF Plain
<1>3. CASE s = <<"artifact", "observation">>
  <2>1. Tail(s) = <<"observation">>
    BY <1>3
  <2> QED BY <1>3, <2>1 DEF Plain
<1> QED BY <1>1, <1>2, <1>3 DEF Plain

ActWords == {"input", "execute", "artifact", "observation"}
LEMMA ActsSteps ==
  ASSUME NEW s \in Acts
  PROVE  /\ s \in Seq(ActWords) /\ s # <<>> /\ Head(s) \in {"input", "execute"}
         /\ Head(s) = "input" => Tail(s) \in Acts
         /\ Head(s) = "execute" => Tail(s) \in Plain
<1>1. CASE s = <<"input", "execute", "observation">>
  <2>1. Tail(s) = <<"execute", "observation">>
    BY <1>1
  <2> QED BY <1>1, <2>1 DEF Acts, ActWords
<1>2. CASE s = <<"execute", "observation">>
  <2>1. Tail(s) = <<"observation">>
    BY <1>2
  <2> QED BY <1>2, <2>1 DEF Plain, ActWords
<1>3. CASE s = <<"input", "execute", "artifact", "observation">>
  <2>1. Tail(s) = <<"execute", "artifact", "observation">>
    BY <1>3
  <2> QED BY <1>3, <2>1 DEF Acts, ActWords
<1>4. CASE s = <<"execute", "artifact", "observation">>
  <2>1. Tail(s) = <<"artifact", "observation">>
    BY <1>4
  <2> QED BY <1>4, <2>1 DEF Plain, ActWords
<1> QED BY <1>1, <1>2, <1>3, <1>4 DEF Acts

CommandWords == {"paths", "approve", "consume", "command"}
LEMMA CommandsSteps ==
  ASSUME NEW s \in Commands
  PROVE  /\ s \in Seq(CommandWords) /\ s # <<>> /\ Head(s) \in CommandWords /\ "command" \in Range(s)
         /\ Head(s) = "paths" => Tail(s) = <<"approve", "consume", "command">>
         /\ Head(s) = "approve" => Tail(s) = <<"consume", "command">>
         /\ Head(s) = "consume" => s = <<"consume", "command">> /\ Tail(s) = <<"command">>
         /\ Head(s) = "command" => s = <<"command">>
<1>1. CASE s = <<"paths", "approve", "consume", "command">>
  <2>1. Tail(s) = <<"approve", "consume", "command">> /\ s[4] = "command" /\ 4 \in DOMAIN s
    BY <1>1
  <2> QED BY <1>1, <2>1 DEF CommandWords, Range
<1>2. CASE s = <<"approve", "consume", "command">>
  <2>1. Tail(s) = <<"consume", "command">> /\ s[3] = "command" /\ 3 \in DOMAIN s
    BY <1>2
  <2> QED BY <1>2, <2>1 DEF CommandWords, Range
<1>3. CASE s = <<"consume", "command">>
  <2>1. Tail(s) = <<"command">> /\ s[2] = "command" /\ 2 \in DOMAIN s
    BY <1>3
  <2> QED BY <1>3, <2>1 DEF CommandWords, Range
<1>4. CASE s = <<"command">>
  <2>1. s[1] = "command" /\ 1 \in DOMAIN s
    BY <1>4
  <2> QED BY <1>4, <2>1 DEF CommandWords, Range
<1> QED BY <1>1, <1>2, <1>3, <1>4 DEF Commands, externalHandler

LEMMA MemoryIs ==
  /\ MemoryOf("web-search") = {"root", "summary", "root-summary", "result", "root-result"}
  /\ MemoryOf("github-issue-search") = {"root", "summary", "root-summary", "issue", "root-issue"}
  /\ MemoryOf("email-inbox") = {"root", "summary", "root-summary", "thread", "root-thread",
                                "message", "root-message", "thread-message"}
  /\ \A h : h \notin Searching => MemoryOf(h) = {}
<1>1. MemoryOf("web-search") = Range(persistWebSearchMemory)
      /\ MemoryOf("github-issue-search") = Range(persistGitHubIssueMemory)
      /\ MemoryOf("email-inbox") = Range(persistEmailMemory)
      /\ \A h : h \notin Searching => MemoryOf(h) = {}
  BY DEF MemoryOf, Searching
<1>2. Range(persistWebSearchMemory) = {"root", "summary", "root-summary", "result", "root-result"}
  BY DEF persistWebSearchMemory, Range
<1>3. Range(persistGitHubIssueMemory) = {"root", "summary", "root-summary", "issue", "root-issue"}
  BY DEF persistGitHubIssueMemory, Range
<1>4. Range(persistEmailMemory) = {"root", "summary", "root-summary", "thread", "root-thread",
                                   "message", "root-message", "thread-message"}
  BY DEF persistEmailMemory, Range
<1> QED BY <1>1, <1>2, <1>3, <1>4

Cards == {"root", "summary", "root-summary", "result", "root-result", "issue", "root-issue",
          "thread", "root-thread", "message", "root-message", "thread-message"}
Steps == {"generate", "consolidate", "connect", "artifact", "observation"}
Risky == {"input", "execute"} \cup CommandWords

LEMMA Words ==
  /\ \A h : MemoryOf(h) \subseteq Cards /\ Harmless(h) = Steps \cup MemoryOf(h)
  /\ Cards \cap Steps = {} /\ (Cards \cup Steps) \cap Risky = {}
<1>1. \A h \in Searching : MemoryOf(h) \subseteq Cards
  BY MemoryIs DEF Searching, Cards
<1>2. \A h : MemoryOf(h) \subseteq Cards
  BY <1>1, MemoryIs
<1>3. \A h : Harmless(h) = Steps \cup MemoryOf(h)
  BY DEF Harmless, Steps
<1>4. Cards \cap Steps = {} /\ (Cards \cup Steps) \cap Risky = {}
  BY DEF Cards, Steps, Risky, CommandWords
<1> QED BY <1>2, <1>3, <1>4

\* A run that is past its action, or has none, and one that is before it.
LEMMA HarmlessOn ==
  ASSUME NEW h, NEW s \in Seq(Harmless(h))
  PROVE  /\ s \notin Acts \cup Commands
         /\ s # <<>> => /\ Head(s) \in Harmless(h) /\ Head(s) \notin Risky
                        /\ Tail(s) \in Seq(Harmless(h))
<1>1. s # <<>> => Head(s) \in Harmless(h) /\ Tail(s) \in Seq(Harmless(h))
  BY RangeSteps
<1>2. s # <<>> => Head(s) \notin Risky
  BY <1>1, Words
<1>3. s \in Acts \cup Commands => s # <<>> /\ Head(s) \in Risky
  BY ActsSteps, CommandsSteps DEF Risky, CommandWords
<1> QED BY <1>1, <1>2, <1>3

LEMMA PlainOn ==
  ASSUME NEW s \in Plain
  PROVE  /\ s \notin Acts \cup Commands
         /\ s # <<>> => Head(s) \in {"artifact", "observation"} /\ Tail(s) \in Plain
<1>1. s # <<>> => Head(s) \in {"artifact", "observation"} /\ Tail(s) \in Plain
  BY PlainSteps
<1>2. s \in Acts \cup Commands => s # <<>> /\ Head(s) \in Risky
  BY ActsSteps, CommandsSteps DEF Risky, CommandWords
<1> QED BY <1>1, <1>2 DEF Risky, CommandWords

LEMMA LeftFacts ==
  ASSUME NEW h, NEW s, Left(h, s)
  PROVE  /\ h \in Writing \cup Acting \cup {External}
         /\ s # <<>> =>
              /\ Range(s) = {Head(s)} \cup Range(Tail(s))
              /\ Bold(s) <=> Head(s) \in Risky
              /\ ~Bold(s) => Left(h, Tail(s)) /\ ~Bold(Tail(s)) /\ Head(s) \in Harmless(h)
              /\ Head(s) \in {"generate", "consolidate", "connect"} \cup MemoryOf(h) => h \in Writing
              /\ Head(s) \in {"input", "execute"} => h \in Acting /\ s \in Acts
              /\ Head(s) \in CommandWords => h = External /\ s \in Commands
         /\ s = <<>> => ~Bold(s) /\ Range(s) = {}
         /\ s \in Commands => "command" \in Range(s)
<1>0. s \in Commands => "command" \in Range(s)
  BY CommandsSteps
<1>1. CASE s = <<>>
  <2>1. Range(s) = {}
    BY <1>1 DEF Range
  <2>2. ~Bold(s)
    BY <1>1, ActsSteps, CommandsSteps DEF Bold
  <2> QED BY <1>0, <1>1, <2>1, <2>2 DEF Left
<1>2. CASE s # <<>> /\ h \in Writing /\ s \in Seq(Harmless(h))
  <2>1. Range(s) = {Head(s)} \cup Range(Tail(s))
    BY <1>2, RangeSteps
  <2>2. ~Bold(s) /\ Head(s) \in Harmless(h) /\ Head(s) \notin Risky /\ Tail(s) \in Seq(Harmless(h))
    BY <1>2, HarmlessOn DEF Bold
  <2>3. ~Bold(Tail(s)) /\ Left(h, Tail(s))
    BY <1>2, <2>2, HarmlessOn DEF Bold, Left
  <2> QED BY <1>0, <1>2, <2>1, <2>2, <2>3 DEF Risky
<1>3. CASE s # <<>> /\ h \in Acting \cup {External} /\ s \in Plain
  <2>1. Range(s) = {Head(s)} \cup Range(Tail(s))
    BY <1>3, PlainSteps, RangeSteps
  <2>2. ~Bold(s) /\ Head(s) \in {"artifact", "observation"} /\ Tail(s) \in Plain
    BY <1>3, PlainOn DEF Bold
  <2>3. ~Bold(Tail(s)) /\ Left(h, Tail(s))
    BY <1>3, <2>2, PlainOn DEF Bold, Left
  <2>4. Head(s) \in Steps /\ Head(s) \notin {"generate", "consolidate", "connect"}
    BY <2>2 DEF Steps
  <2>5. Head(s) \in Harmless(h) /\ Head(s) \notin Risky /\ Head(s) \notin MemoryOf(h)
    BY <2>4, Words
  <2> QED BY <1>0, <1>3, <2>1, <2>2, <2>3, <2>4, <2>5 DEF Risky
<1>4. CASE s # <<>> /\ h \in Acting /\ s \in Acts
  <2>1. Range(s) = {Head(s)} \cup Range(Tail(s))
    BY <1>4, ActsSteps, RangeSteps
  <2>2. Bold(s) /\ Head(s) \in {"input", "execute"} /\ Head(s) \in Risky
    BY <1>4, ActsSteps DEF Bold, Risky
  <2>3. Head(s) \notin {"generate", "consolidate", "connect"} \cup MemoryOf(h) /\ Head(s) \notin CommandWords
    <3>1. Head(s) \notin MemoryOf(h)
      BY <2>2, Words
    <3> QED BY <2>2, <3>1 DEF CommandWords
  <2> QED BY <1>0, <1>4, <2>1, <2>2, <2>3
<1>5. CASE s # <<>> /\ h = External /\ s \in Commands
  <2>1. Range(s) = {Head(s)} \cup Range(Tail(s))
    BY <1>5, CommandsSteps, RangeSteps
  <2>2. Bold(s) /\ Head(s) \in CommandWords /\ Head(s) \in Risky
    BY <1>5, CommandsSteps DEF Bold, Risky
  <2>3. Head(s) \notin {"generate", "consolidate", "connect"} \cup MemoryOf(h) /\ Head(s) \notin {"input", "execute"}
    <3>1. Head(s) \notin MemoryOf(h)
      BY <2>2, Words
    <3> QED BY <2>2, <3>1 DEF CommandWords
  <2> QED BY <1>0, <1>5, <2>1, <2>2, <2>3
<1> QED BY <1>1, <1>2, <1>3, <1>4, <1>5 DEF Left

\* A run at its start.
LEMMA Concat ==
  ASSUME NEW X, NEW s \in Seq(X), NEW t \in Seq(X)
  PROVE  s \o t \in Seq(X) /\ Range(s) \cup Range(t) \subseteq Range(s \o t)
<1>1. /\ s \o t \in Seq(X) /\ Len(s) \in Nat /\ Len(t) \in Nat /\ DOMAIN (s \o t) = 1..(Len(s) + Len(t))
      /\ DOMAIN s = 1..Len(s) /\ DOMAIN t = 1..Len(t)
  OBVIOUS
<1>2. ASSUME NEW x \in Range(s) PROVE x \in Range(s \o t)
  <2>1. PICK i \in 1..Len(s) : s[i] = x
    BY <1>1, <1>2 DEF Range
  <2>2. i \in 1..(Len(s) + Len(t)) /\ (s \o t)[i] = x
    BY <1>1, <2>1
  <2> QED BY <1>1, <2>2 DEF Range
<1>3. ASSUME NEW x \in Range(t) PROVE x \in Range(s \o t)
  <2>1. PICK i \in 1..Len(t) : t[i] = x
    BY <1>1, <1>3 DEF Range
  <2>2. Len(s) + i \in 1..(Len(s) + Len(t)) /\ (s \o t)[Len(s) + i] = x
    BY <1>1, <2>1
  <2> QED BY <1>1, <2>2 DEF Range
<1> QED BY <1>1, <1>2, <1>3

StartsWell(h) ==
  /\ Left(h, Handler(h))
  /\ "command" \notin Range(Handler(h)) =>
       /\ "observation" \in Range(Handler(h))
       /\ h \notin {"file-edit", External} => "artifact" \in Range(Handler(h))
       /\ MemoryOf(h) \subseteq Range(Handler(h))
  /\ Handler(h) # <<"command">> /\ Handler(h) # <<"consume", "command">> /\ Handler(h) # <<>>

LEMMA SearchStarts ==
  ASSUME NEW h \in Searching, NEW p \in Seq(Cards), MemoryOf(h) = Range(p),
         Handler(h) = <<"connect", "artifact", "observation">> \o p
  PROVE  StartsWell(h)
<1>1. PICK s : s = <<"connect", "artifact", "observation">>
  OBVIOUS
<1>2. MemoryOf(h) \subseteq Harmless(h) /\ Steps \subseteq Harmless(h)
  BY Words
<1>3. s \in Seq(Harmless(h)) /\ Range(s) = {"connect", "artifact", "observation"}
  BY <1>1, <1>2 DEF Steps, Range
<1>4. p \in Seq(Harmless(h))
  <2>1. Len(p) \in Nat /\ p \in [1..Len(p) -> Cards]
    OBVIOUS
  <2>2. \A i \in 1..Len(p) : p[i] \in Harmless(h)
    BY <1>2, <2>1 DEF Range
  <2> QED BY <2>1, <2>2
<1>5. Handler(h) \in Seq(Harmless(h)) /\ Range(s) \cup Range(p) \subseteq Range(Handler(h))
  <2>1. Handler(h) = s \o p
    BY <1>1, Zenon
  <2>2. s \o p \in Seq(Harmless(h)) /\ Range(s) \cup Range(p) \subseteq Range(s \o p)
    BY <1>3, <1>4, Concat
  <2> QED BY <2>1, <2>2, Zenon
<1>6. Left(h, Handler(h))
  BY <1>5 DEF Left, Writing
<1>7. Handler(h) \notin Commands
  BY <1>5, HarmlessOn
<1>8. Handler(h) # <<"command">> /\ Handler(h) # <<"consume", "command">>
  BY <1>7 DEF Commands
<1>9. Handler(h) # <<>>
  <2>1. Range(Handler(h)) # {}
    BY <1>3, <1>5
  <2> QED BY <2>1 DEF Range
<1> QED BY <1>3, <1>5, <1>6, <1>8, <1>9 DEF StartsWell

LEMMA HandlerStarts ==
  ASSUME NEW h \in Known \cup {External}
  PROVE  StartsWell(h)
<1>0. External \notin Known
  BY KnownFacts
<1>1. CASE h = "web-search"
  <2>1. Handler(h) = <<"connect", "artifact", "observation">> \o persistWebSearchMemory
    BY <1>0, <1>1 DEF Handler, runWebSearch, Known
  <2>2. persistWebSearchMemory \in Seq(Cards)
    BY DEF persistWebSearchMemory, Cards
  <2>3. MemoryOf(h) = Range(persistWebSearchMemory) /\ h \in Searching
    BY <1>1 DEF MemoryOf, Searching
  <2> QED BY <2>1, <2>2, <2>3, SearchStarts
<1>2. CASE h = "github-issue-search"
  <2>1. Handler(h) = <<"connect", "artifact", "observation">> \o persistGitHubIssueMemory
    BY <1>0, <1>2 DEF Handler, runGitHubIssueSearch, Known
  <2>2. persistGitHubIssueMemory \in Seq(Cards)
    BY DEF persistGitHubIssueMemory, Cards
  <2>3. MemoryOf(h) = Range(persistGitHubIssueMemory) /\ h \in Searching
    BY <1>2 DEF MemoryOf, Searching
  <2> QED BY <2>1, <2>2, <2>3, SearchStarts
<1>3. CASE h = "email-inbox"
  <2>1. Handler(h) = <<"connect", "artifact", "observation">> \o persistEmailMemory
    BY <1>0, <1>3 DEF Handler, runEmailInbox, Known
  <2>2. persistEmailMemory \in Seq(Cards)
    BY DEF persistEmailMemory, Cards
  <2>3. MemoryOf(h) = Range(persistEmailMemory) /\ h \in Searching
    BY <1>3 DEF MemoryOf, Searching
  <2> QED BY <2>1, <2>2, <2>3, SearchStarts
<1>4. CASE h \in {"task-plan", "memory-consolidate"}
  <2>1. Handler(h) \in {<<"generate", "artifact", "observation">>,
                        <<"consolidate", "artifact", "observation">>}
    BY <1>0, <1>4 DEF Handler, runTaskPlan, runMemoryConsolidate, Known
  <2>2. MemoryOf(h) = {}
    BY <1>4, MemoryIs DEF Searching
  <2>3. Handler(h) \in Seq(Harmless(h))
    <3>1. PICK X : X = Harmless(h)
      OBVIOUS
    <3>2. {"generate", "consolidate", "artifact", "observation"} \subseteq X
      BY <3>1, Words DEF Steps
    <3>3. "generate" \in X /\ "consolidate" \in X /\ "artifact" \in X /\ "observation" \in X
      BY <3>2
    <3>4. <<"generate", "artifact", "observation">> \in Seq(X)
          /\ <<"consolidate", "artifact", "observation">> \in Seq(X)
      BY <3>3
    <3> QED BY <2>1, <3>1, <3>4, Zenon
  <2>4. {"artifact", "observation"} \subseteq Range(Handler(h))
    BY <2>1 DEF Range
  <2>5. Handler(h) \notin Commands
    BY <2>3, HarmlessOn
  <2>6. Handler(h) # <<"command">> /\ Handler(h) # <<"consume", "command">> /\ Handler(h) # <<>>
    BY <2>1, <2>5 DEF Commands
  <2>7. Left(h, Handler(h))
    BY <1>4, <2>3 DEF Left, Writing
  <2> QED BY <2>2, <2>4, <2>6, <2>7 DEF StartsWell
<1>5. CASE h \in Acting
  <2>1. /\ Handler(h) \in {<<"input", "execute", "observation">>,
                           <<"input", "execute", "artifact", "observation">>}
        /\ h # "file-edit" => Handler(h) = <<"input", "execute", "artifact", "observation">>
    BY <1>0, <1>5 DEF Handler, runFileEdit, runFileRead, runShellCommand, Known, Acting
  <2>2. MemoryOf(h) = {}
    BY <1>5, MemoryIs DEF Searching, Acting
  <2>3. "observation" \in Range(Handler(h)) /\ (h # "file-edit" => "artifact" \in Range(Handler(h)))
    BY <2>1 DEF Range
  <2>4. Handler(h) # <<"command">> /\ Handler(h) # <<"consume", "command">> /\ Handler(h) # <<>>
    BY <2>1
  <2>5. Left(h, Handler(h))
    BY <1>5, <2>1 DEF Left, Acts
  <2> QED BY <2>2, <2>3, <2>4, <2>5 DEF StartsWell
<1>6. CASE h = External
  <2>1. Handler(h) = externalHandler
    BY <1>0, <1>6 DEF Handler, Known
  <2>2. externalHandler \in Commands
    BY DEF Commands
  <2>3. "command" \in Range(externalHandler)
    BY <2>2, CommandsSteps
  <2>4. Handler(h) # <<"command">> /\ Handler(h) # <<"consume", "command">> /\ Handler(h) # <<>>
    BY <2>1 DEF externalHandler
  <2> QED BY <1>6, <2>1, <2>2, <2>3, <2>4 DEF StartsWell, Left
<1> QED BY <1>1, <1>2, <1>3, <1>4, <1>5, <1>6 DEF Known, Acting

-----------------------------------------------------------------------------
(***************************************************************************)
(* A step of a run                                                         *)
(***************************************************************************)

LEMMA GoingFields ==
  ASSUME NEW t, NEW h, NEW l, NEW o, NEW i, NEW m, m = Going(t, h, l, o, i)
  PROVE  /\ m.at = "step" /\ m.task = t /\ m.handler = h /\ m.left = l /\ m.to = o /\ m.approval = i
         /\ m # Idle
<1>1. m.at = "step" /\ m.task = t /\ m.handler = h /\ m.left = l /\ m.to = o /\ m.approval = i
  BY DEF Going
<1> QED BY <1>1 DEF Idle

LEMMA IdleAt == Idle.at = "idle"
BY DEF Idle

LEMMA RunFacts ==
  ASSUME RunsOK, NEW r \in Run, run[r].at = "step" \/ run[r] # Idle
  PROVE  /\ run[r] = Going(run[r].task, run[r].handler, run[r].left, run[r].to, run[r].approval)
         /\ run[r] # Idle /\ run[r].at = "step"
         /\ run[r].task \in Task /\ Left(run[r].handler, run[r].left) /\ run[r].to \in Ends
         /\ run[r].approval \in 0..Len(grants)
         /\ run[r].to = "awaiting_approval" => run[r].left = <<>>
         /\ Bold(run[r].left) => run[r].to = "done"
         /\ run[r].left = <<"consume", "command">> => run[r].approval # 0
<1>1. run[r] # Idle
  BY IdleAt
<1>2. run[r] = Going(run[r].task, run[r].handler, run[r].left, run[r].to, run[r].approval)
  BY <1>1, Zenon DEF RunsOK, RunOK
<1>3. run[r].at = "step"
  BY <1>2, GoingFields
<1> QED BY <1>1, <1>2, <1>3 DEF RunsOK, RunOK

LEMMA BecomesFacts ==
  ASSUME RunsOK, NEW r \in Run, NEW n, Becomes(r, n)
  PROVE  /\ run' = [s \in Run |-> run'[s]] /\ run'[r] = n
         /\ \A s \in Run : s # r => run'[s] = run[s]
<1>1. DOMAIN run = Run
  BY DEF RunsOK
<1> QED BY <1>1 DEF Becomes

LEMMA LeftIs ==
  ASSUME RunsOK, NEW r \in Run, NEW m, m = run[r], m.at = "step", NEW x, Becomes(r, [run[r] EXCEPT !.left = x])
  PROVE  Becomes(r, Going(m.task, m.handler, x, m.to, m.approval))
<1>1. PICK t, h, l, o, i : m = Going(t, h, l, o, i)
  BY RunFacts
<1>2. m.task = t /\ m.handler = h /\ m.left = l /\ m.to = o /\ m.approval = i
  BY <1>1, GoingFields
<1>3. PICK n : n = [m EXCEPT !.left = x]
  OBVIOUS
<1>4. n = Going(m.task, m.handler, x, m.to, m.approval)
  BY <1>1, <1>2, <1>3 DEF Going
<1>5. Becomes(r, n)
  BY <1>3, Zenon DEF Becomes
<1> QED BY <1>4, <1>5

LEMMA DoneIs ==
  ASSUME RunsOK, NEW r \in Run, NEW m, m = run[r], m.at = "step", Done(r)
  PROVE  Becomes(r, Going(m.task, m.handler, Tail(m.left), m.to, m.approval))
<1>1. Becomes(r, [run[r] EXCEPT !.left = Tail(m.left)])
  BY DEF Done
<1> QED BY <1>1, LeftIs

LEMMA SkipIs ==
  ASSUME RunsOK, NEW r \in Run, NEW m, m = run[r], m.at = "step", NEW x, NEW y, Skip(r, x, y)
  PROVE  Becomes(r, Going(m.task, m.handler, y, x, m.approval))
<1>1. PICK t, h, l, o, i : m = Going(t, h, l, o, i)
  BY RunFacts
<1>2. m.task = t /\ m.handler = h /\ m.left = l /\ m.to = o /\ m.approval = i
  BY <1>1, GoingFields
<1>3. PICK n : n = [m EXCEPT !.to = x, !.left = y]
  OBVIOUS
<1>4. n = Going(m.task, m.handler, y, x, m.approval)
  BY <1>1, <1>2, <1>3 DEF Going
<1>5. Becomes(r, n)
  BY <1>3, Zenon DEF Becomes, Skip
<1> QED BY <1>4, <1>5

LEMMA AskIs ==
  ASSUME RunsOK, NEW r \in Run, NEW m, m = run[r], m.at = "step", NEW x, NEW y, NEW z, Becomes(r, [run[r] EXCEPT !.to = x, !.left = y, !.approval = z])
  PROVE  Becomes(r, Going(m.task, m.handler, y, x, z))
<1>1. PICK t, h, l, o, i : m = Going(t, h, l, o, i)
  BY RunFacts
<1>2. m.task = t /\ m.handler = h /\ m.left = l /\ m.to = o /\ m.approval = i
  BY <1>1, GoingFields
<1>3. PICK n : n = [m EXCEPT !.to = x, !.left = y, !.approval = z]
  OBVIOUS
<1>4. n = Going(m.task, m.handler, y, x, z)
  BY <1>1, <1>2, <1>3 DEF Going
<1>5. Becomes(r, n)
  BY <1>3, Zenon DEF Becomes
<1> QED BY <1>4, <1>5

LEMMA RunsMove ==
  ASSUME RunsOK, grants \in Seq(Grants), NEW r \in Run, NEW n, Becomes(r, n), RunOK(n)',
         grants' \in Seq(Grants), Len(grants) <= Len(grants')
  PROVE  RunsOK'
<1>1. /\ run' = [s \in Run |-> run'[s]] /\ run'[r] = n
      /\ \A s \in Run : s # r => run'[s] = run[s]
  BY BecomesFacts
<1>2. 0..Len(grants) \subseteq 0..Len(grants')
  <2>1. Len(grants) \in Nat /\ Len(grants') \in Nat
    OBVIOUS
  <2> QED BY <2>1
<1>3. ASSUME NEW m, RunOK(m) PROVE RunOK(m)'
  BY <1>2, <1>3 DEF RunOK
<1>4. ASSUME NEW s \in Run PROVE RunOK(run[s])'
  <2>1. CASE s = r
    BY <1>1, <2>1 DEF RunOK
  <2>2. CASE s # r
    <3>1. PICK m : m = run[s]
      OBVIOUS
    <3>2. run'[s] = m /\ RunOK(m)
      BY <1>1, <2>2, <3>1 DEF RunsOK
    <3>3. RunOK(m)'
      BY <1>3, <3>2
    <3> QED BY <3>2, <3>3 DEF RunOK
  <2> QED BY <2>1, <2>2
<1> QED BY <1>1, <1>4 DEF RunsOK

LEMMA GoingOK ==
  ASSUME NEW n, NEW t \in Task, NEW h, NEW l, NEW o \in Ends, NEW i \in 0..Len(grants'),
         n = Going(t, h, l, o, i), Left(h, l),
         o = "awaiting_approval" => l = <<>>, Bold(l) => o = "done", l = <<"consume", "command">> => i # 0
  PROVE  RunOK(n)'
<1>1. n.task = t /\ n.handler = h /\ n.left = l /\ n.to = o /\ n.approval = i
  BY GoingFields
<1> QED BY <1>1 DEF RunOK

LEMMA TasksStay ==
  ASSUME TasksOK, grants \in Seq(Grants), grants' \in Seq(Grants), Len(grants) <= Len(grants'),
         UNCHANGED task
  PROVE  TasksOK'
<1>1. 0..Len(grants) \subseteq 0..Len(grants')
  <2>1. Len(grants) \in Nat /\ Len(grants') \in Nat
    OBVIOUS
  <2> QED BY <2>1
<1> QED BY <1>1 DEF TasksOK, TaskOK

Untouched(t) ==
  /\ task'[t] = task[t] /\ artifact'[t] = artifact[t] /\ observation'[t] = observation[t]
  /\ memory'[t] = memory[t] /\ doneBy'[t] = doneBy[t]
  /\ effects'[t] = effects[t] /\ failures'[t] = failures[t] /\ Waiting(t)' = Waiting(t)

LEMMA CompleteKept ==
  ASSUME NEW t, Untouched(t), Complete(t)
  PROVE  Complete(t)'
BY DEF Untouched, Complete

\* The tasks that a step is not about.
LEMMA OthersKept ==
  ASSUME RunsOK, NEW t \in Task, Single(t), Backed(t), Untouched(t),
         Busy(t)' = Busy(t), \A s \in Busy(t) : run'[s] = run[s]
  PROVE  Single(t)' /\ Backed(t)'
<1>1. ASSUME NEW s \in Busy(t) PROVE Made1(run[s])'
  <2>1. Made1(run[s])
    BY DEF Single
  <2>2. run'[s] = run[s] /\ run[s].task = t
    BY DEF Busy
  <2> QED BY <2>1, <2>2 DEF Made1, Untouched
<1>2. Single(t)'
  BY <1>1, CompleteKept DEF Single, Untouched
<1>3. Acted(t)' <=> Acted(t)
  BY DEF Acted, Untouched
<1>4. Backed(t)'
  BY <1>3 DEF Backed, Untouched
<1> QED BY <1>2, <1>4

\* The task that a step of run r is about.
LEMMA OwnMoves ==
  ASSUME RunsOK, NEW r \in Run, NEW t \in Task, Busy(t) \subseteq {r}, NEW n, Becomes(r, n),
         n = Idle \/ n.task = t,
         n # Idle => task'[t].state # "done" /\ Made1(n)',
         task'[t].state = "done" => Complete(t)',
         effects'[t] + Cardinality(Waiting(t)')
           <= failures'[t] + (IF task'[t].state = "done" \/ (n # Idle /\ ~Bold(n.left)) THEN 1 ELSE 0)
  PROVE  Single(t)' /\ Backed(t)'
<1>1. run'[r] = n /\ \A s \in Run : s # r => run'[s] = run[s]
  BY BecomesFacts
<1>2. Busy(t)' = IF n = Idle THEN {} ELSE {r}
  BY <1>1 DEF Busy
<1>3. ASSUME NEW s \in Busy(t)' PROVE Made1(run[s])'
  <2>1. s = r /\ run'[s] = n /\ n # Idle
    BY <1>1, <1>2, <1>3
  <2> QED BY <2>1 DEF Made1
<1>4. Single(t)'
  BY <1>2, <1>3 DEF Single
<1>5. Acted(t)' <=> (task'[t].state = "done" \/ (n # Idle /\ ~Bold(n.left)))
  BY <1>1, <1>2 DEF Acted
<1>6. Backed(t)'
  BY <1>5 DEF Backed
<1> QED BY <1>4, <1>6

Slack(m) == IF Bold(m.left) THEN 0 ELSE 1

LEMMA OwnNow ==
  ASSUME TInv, NEW r \in Run, run[r] # Idle, run[r].task \notin overlap
  PROVE  /\ Busy(run[r].task) = {r} /\ task[run[r].task].state # "done" /\ Made1(run[r])
         /\ effects[run[r].task] + Cardinality(Waiting(run[r].task)) <= failures[run[r].task] + Slack(run[r])
<1>1. PICK t : t = run[r].task
  OBVIOUS
<1>2. t \in Task
  BY <1>1, RunFacts DEF TInv, Stores
<1>3. Single(t) /\ Backed(t)
  BY <1>1, <1>2 DEF TInv
<1>4. Busy(t) = {r}
  BY <1>1, <1>3 DEF Busy, Single
<1>5. task[t].state # "done" /\ Made1(run[r])
  BY <1>3, <1>4 DEF Single
<1>6. (IF Acted(t) THEN 1 ELSE 0) = Slack(run[r])
  BY <1>4, <1>5 DEF Acted, Slack
<1> QED BY <1>1, <1>3, <1>4, <1>5, <1>6 DEF Backed

LEMMA RunMoves ==
  ASSUME TInv, NEW r \in Run, run[r] # Idle, NEW t, t = run[r].task, NEW n, Becomes(r, n),
         n = Idle \/ n.task = t, Stores', overlap' = overlap, Spent',
         \A u \in Task : u # t => Untouched(u),
         t \notin overlap =>
           /\ n # Idle => task'[t].state # "done" /\ Made1(n)'
           /\ task'[t].state = "done" => Complete(t)'
           /\ effects'[t] + Cardinality(Waiting(t)')
                <= failures'[t] + (IF task'[t].state = "done" \/ (n # Idle /\ ~Bold(n.left)) THEN 1 ELSE 0)
  PROVE  TInv'
<1>1. RunsOK /\ t \in Task
  BY RunFacts DEF TInv, Stores
<1>2. run'[r] = n /\ \A s \in Run : s # r => run'[s] = run[s]
  BY <1>1, BecomesFacts
<1>3. ASSUME NEW u \in Task \ overlap PROVE Single(u)' /\ Backed(u)'
  <2>1. CASE u = t
    <3>1. Busy(t) \subseteq {r}
      BY <1>3, <2>1, OwnNow
    <3> QED BY <1>1, <1>3, <2>1, <3>1, OwnMoves
  <2>2. CASE u # t
    <3>1. Busy(u)' = Busy(u) /\ \A s \in Busy(u) : run'[s] = run[s]
      BY <1>2, <2>2 DEF Busy
    <3>2. Single(u) /\ Backed(u) /\ Untouched(u)
      BY <1>3, <2>2 DEF TInv
    <3> QED BY <1>1, <3>1, <3>2, OthersKept
  <2> QED BY <2>1, <2>2
<1> QED BY <1>3 DEF TInv

LEMMA Finite ==
  ASSUME grants \in Seq(Grants)
  PROVE  /\ \A t : IsFiniteSet(Waiting(t)) /\ Cardinality(Waiting(t)) \in Nat
         /\ IsFiniteSet(Consumed) /\ Cardinality(Consumed) \in Nat
         /\ IsFiniteSet(Holding) /\ Cardinality(Holding) \in Nat
<1>1. IsFiniteSet(1..Len(grants))
  <2>1. Len(grants) \in Int
    OBVIOUS
  <2> QED BY <2>1, FS_Interval
<1>2. \A t : Waiting(t) \in SUBSET (1..Len(grants))
  BY DEF Waiting
<1>3. Consumed \in SUBSET (1..Len(grants))
  BY DEF Consumed
<1>4. Holding \in SUBSET Run
  BY DEF Holding
<1>5. IsFiniteSet(Run)
  BY KnownFacts
<1>6. IsFiniteSet(Consumed) /\ IsFiniteSet(Holding) /\ \A t : IsFiniteSet(Waiting(t))
  BY <1>1, <1>2, <1>3, <1>4, <1>5, FS_Subset
<1> QED BY <1>6, FS_CardinalityType

\* A step that starts no command.
LEMMA SpentKept ==
  ASSUME TInv, NEW r \in Run, NEW n, Becomes(r, n),
         n = Idle \/ n.left # <<"command">> \/ (n.task \in Task /\ ~task[n.task].root),
         \A t \in Task : task'[t].root = task[t].root,
         Consumed' = Consumed, commands' = commands
  PROVE  Spent'
<1>1. run'[r] = n /\ \A s \in Run : s # r => run'[s] = run[s]
  BY BecomesFacts DEF TInv, Stores
<1>2. Holding' \subseteq Holding
  <2> SUFFICES ASSUME NEW s \in Holding' PROVE s \in Holding
    OBVIOUS
  <2>1. s \in Run /\ run'[s] # Idle /\ run'[s].left = <<"command">> /\ task'[run'[s].task].root
    BY DEF Holding
  <2>2. s # r /\ run'[s] = run[s]
    BY <1>1, <2>1
  <2>3. run[s].task \in Task
    BY <2>1, <2>2, RunFacts DEF TInv, Stores
  <2> QED BY <2>1, <2>2, <2>3 DEF Holding
<1>3. IsFiniteSet(Holding) /\ Cardinality(Holding) \in Nat /\ Cardinality(Consumed) \in Nat
  BY Finite DEF TInv, Stores
<1>4. Cardinality(Holding') <= Cardinality(Holding) /\ IsFiniteSet(Holding')
  BY <1>2, <1>3, FS_Subset
<1>5. Cardinality(Holding') \in Nat
  BY <1>4, FS_CardinalityType
<1>6. commands \in Nat
  BY DEF TInv, Stores, CountsOK
<1> QED BY <1>3, <1>4, <1>5, <1>6 DEF TInv, Spent

LEMMA StoresNow ==
  ASSUME TInv
  PROVE  TasksOK /\ RunsOK /\ grants \in Seq(Grants) /\ OutputOK /\ CountsOK
BY DEF TInv, Stores

\* What steps that leave the tasks, the approvals and the counts alone have in common.
LEMMA CalmStep ==
  ASSUME TInv, NEW r \in Run, run[r] # Idle, NEW t, t = run[r].task, NEW n, Becomes(r, n),
         n # Idle, n.task = t, RunOK(n)', n.left # <<"command">> \/ ~task[t].root, OutputOK',
         UNCHANGED <<task, grants, doneBy, overlap, effects, failures, commands>>,
         \A u \in Task : u # t => /\ artifact'[u] = artifact[u] /\ observation'[u] = observation[u]
                                  /\ memory'[u] = memory[u],
         Bold(n.left) => Bold(run[r].left),
         t \notin overlap => Made1(n)'
  PROVE  TInv'
<1>1. Len(grants) <= Len(grants') /\ grants' \in Seq(Grants)
  BY StoresNow
<1>2. RunsOK'
  BY <1>1, StoresNow, RunsMove
<1>3. TasksOK'
  BY <1>1, StoresNow, TasksStay
<1>4. CountsOK'
  BY StoresNow DEF CountsOK
<1>5. Stores'
  BY <1>1, <1>2, <1>3, <1>4 DEF Stores
<1>6. (\A u : Waiting(u)' = Waiting(u)) /\ Consumed' = Consumed
  BY DEF Waiting, Consumed
<1>7. Spent'
  <2>1. t \in Task
    BY StoresNow, RunFacts
  <2> QED BY <1>6, <2>1, SpentKept
<1>8. \A u \in Task : u # t => Untouched(u)
  BY <1>6 DEF Untouched
<1>9. ASSUME t \notin overlap
      PROVE  /\ task'[t].state # "done" /\ Made1(n)'
             /\ effects'[t] + Cardinality(Waiting(t)') <= failures'[t] + (IF ~Bold(n.left) THEN 1 ELSE 0)
  <2>1. task[t].state # "done"
        /\ effects[t] + Cardinality(Waiting(t)) <= failures[t] + Slack(run[r])
    BY <1>9, OwnNow
  <2>2. t \in Task
    BY StoresNow, RunFacts
  <2>3. effects[t] \in Nat /\ failures[t] \in Nat /\ Cardinality(Waiting(t)) \in Nat
    BY <2>2, StoresNow, Finite DEF CountsOK
  <2>4. Cardinality(Waiting(t)') = Cardinality(Waiting(t))
    BY <1>6
  <2> QED BY <1>9, <2>1, <2>3, <2>4 DEF Slack
<1> QED BY <1>5, <1>7, <1>8, <1>9, RunMoves

\* The next step of a handler, done.
LEMMA DoneStep ==
  ASSUME TInv, NEW r \in Run, NEW m, m = run[r], NEW x, At(r, x), Done(r),
         x # "command", OutputOK',
         UNCHANGED <<task, grants, doneBy, overlap, effects, failures, commands>>,
         Left(m.handler, Tail(m.left)), Tail(m.left) # <<"command">>,
         Tail(m.left) # <<"consume", "command">>, Bold(Tail(m.left)) => Bold(m.left),
         \A u \in Task : u # m.task => /\ artifact'[u] = artifact[u] /\ observation'[u] = observation[u]
                                       /\ memory'[u] = memory[u],
         observation'[m.task] = IF x = "observation" THEN m.to ELSE observation[m.task],
         artifact'[m.task] = IF x = "artifact" THEN "whole" ELSE artifact[m.task],
         memory'[m.task] = memory[m.task] \cup (IF x \in MemoryOf(m.handler) THEN {x} ELSE {})
  PROVE  TInv'
<1>1. m.at = "step" /\ m.left # <<>> /\ Head(m.left) = x
  BY DEF At
<1>2. /\ m = Going(m.task, m.handler, m.left, m.to, m.approval)
      /\ m # Idle /\ m.task \in Task /\ Left(m.handler, m.left) /\ m.to \in Ends
      /\ m.approval \in 0..Len(grants) /\ m.to # "awaiting_approval" /\ (Bold(m.left) => m.to = "done")
  BY <1>1, StoresNow, RunFacts
<1>3. PICK n : n = Going(m.task, m.handler, Tail(m.left), m.to, m.approval)
  OBVIOUS
<1>4. Becomes(r, n)
  BY <1>1, <1>3, StoresNow, DoneIs
<1>5. n # Idle /\ n.task = m.task /\ n.handler = m.handler /\ n.left = Tail(m.left) /\ n.to = m.to
  BY <1>3, GoingFields
<1>6. RunOK(n)'
  BY <1>2, <1>3, GoingOK
<1>7. ASSUME m.task \notin overlap PROVE Made1(n)'
  <2> SUFFICES ASSUME m.to = "done", "command" \notin Range(Tail(m.left))
               PROVE  /\ "observation" \notin Range(Tail(m.left)) => observation'[m.task] = "done"
                      /\ "artifact" \notin Range(Tail(m.left)) /\ m.handler \notin {"file-edit", External}
                           => artifact'[m.task] = "whole"
                      /\ MemoryOf(m.handler) \subseteq memory'[m.task] \cup Range(Tail(m.left))
    BY <1>5 DEF Made1
  <2>1. Range(m.left) = {x} \cup Range(Tail(m.left))
    BY <1>1, <1>2, LeftFacts
  <2>2. "command" \notin Range(m.left)
    BY <2>1
  <2>3. Made1(m)
    BY <1>2, <1>7, OwnNow
  <2>4. /\ "observation" \notin Range(m.left) => observation[m.task] = "done"
        /\ "artifact" \notin Range(m.left) /\ m.handler \notin {"file-edit", External}
             => artifact[m.task] = "whole"
        /\ MemoryOf(m.handler) \subseteq memory[m.task] \cup Range(m.left)
    BY <2>2, <2>3 DEF Made1
  <2> QED BY <2>1, <2>4
<1> QED BY <1>2, <1>4, <1>5, <1>6, <1>7, CalmStep

\* A handler that goes another way than to completion.
LEMMA SkipStep ==
  ASSUME TInv, NEW r \in Run, NEW m, m = run[r], m.at = "step", NEW to \in Ends, NEW left,
         Skip(r, to, left), to # "done", to = "awaiting_approval" => left = <<>>,
         Left(m.handler, left), ~Bold(left),
         UNCHANGED <<task, grants, doneBy, overlap, effects, failures, commands, artifact,
                     observation, memory>>
  PROVE  TInv'
<1>1. /\ m = Going(m.task, m.handler, m.left, m.to, m.approval)
      /\ m # Idle /\ m.task \in Task /\ m.approval \in 0..Len(grants)
  BY StoresNow, RunFacts
<1>2. PICK n : n = Going(m.task, m.handler, left, to, m.approval)
  OBVIOUS
<1>3. Becomes(r, n)
  BY <1>2, StoresNow, SkipIs
<1>4. n # Idle /\ n.task = m.task /\ n.left = left /\ n.to = to
  BY <1>2, GoingFields
<1>5. left # <<"command">> /\ left # <<"consume", "command">>
  BY DEF Bold, Commands
<1>6. RunOK(n)'
  BY <1>1, <1>2, <1>5, GoingOK
<1>7. Made1(n)'
  BY <1>4 DEF Made1
<1>8. OutputOK'
  BY StoresNow DEF OutputOK
<1> QED BY <1>1, <1>3, <1>4, <1>5, <1>6, <1>7, <1>8, CalmStep

\* A run that ends with an error.
LEMMA FailStep ==
  ASSUME TInv, NEW r \in Run, NEW m, m = run[r], m.at = "step", Fails(r), OutputOK', Spent',
         UNCHANGED <<task, grants, doneBy, overlap>>, commands' \in Nat,
         NEW d \in {0, 1}, d = 1 => Bold(m.left),
         effects' \in [Task -> Nat], effects'[m.task] = effects[m.task] + d,
         \A u \in Task : u # m.task => effects'[u] = effects[u],
         \A u \in Task : u # m.task => /\ artifact'[u] = artifact[u] /\ observation'[u] = observation[u]
                                       /\ memory'[u] = memory[u]
  PROVE  TInv'
<1>1. m # Idle /\ m.task \in Task
  BY StoresNow, RunFacts
<1>2. Becomes(r, Idle) /\ failures' = [failures EXCEPT ![m.task] = @ + 1]
  BY DEF Fails
<1>3. Len(grants) <= Len(grants') /\ grants' \in Seq(Grants)
  BY StoresNow
<1>4. RunOK(Idle)'
  BY DEF RunOK
<1>5. RunsOK'
  BY <1>2, <1>3, <1>4, StoresNow, RunsMove
<1>6. TasksOK'
  BY <1>3, StoresNow, TasksStay
<1>7. /\ effects \in [Task -> Nat] /\ failures \in [Task -> Nat]
      /\ effects'[m.task] = effects[m.task] + d /\ failures'[m.task] = failures[m.task] + 1
      /\ \A u \in Task : u # m.task => effects'[u] = effects[u] /\ failures'[u] = failures[u]
      /\ effects' \in [Task -> Nat] /\ failures' \in [Task -> Nat]
  BY <1>1, <1>2, StoresNow DEF CountsOK
<1>8. CountsOK'
  BY <1>7, StoresNow DEF CountsOK
<1>9. Stores'
  BY <1>3, <1>5, <1>6, <1>8 DEF Stores
<1>10. (\A u : Waiting(u)' = Waiting(u))
  BY DEF Waiting
<1>11. \A u \in Task : u # m.task => Untouched(u)
  BY <1>7, <1>10 DEF Untouched
<1>12. ASSUME m.task \notin overlap
       PROVE  /\ task'[m.task].state # "done"
              /\ effects'[m.task] + Cardinality(Waiting(m.task)') <= failures'[m.task]
  <2>1. task[m.task].state # "done"
        /\ effects[m.task] + Cardinality(Waiting(m.task)) <= failures[m.task] + Slack(m)
    BY <1>1, <1>12, OwnNow
  <2>2. effects[m.task] \in Nat /\ failures[m.task] \in Nat /\ Cardinality(Waiting(m.task)) \in Nat
    BY <1>1, <1>7, StoresNow, Finite
  <2>3. Cardinality(Waiting(m.task)') = Cardinality(Waiting(m.task))
    BY <1>10
  <2>4. d + Slack(m) <= 1
    BY DEF Slack
  <2>5. Slack(m) \in {0, 1}
    BY DEF Slack
  <2> QED BY <1>7, <2>1, <2>2, <2>3, <2>4, <2>5
<1>13. m.task \notin overlap =>
         effects'[m.task] + Cardinality(Waiting(m.task)')
           <= failures'[m.task] + (IF task'[m.task].state = "done" \/ (Idle # Idle /\ ~Bold(Idle.left)) THEN 1 ELSE 0)
  <2>1. effects'[m.task] + Cardinality(Waiting(m.task)') <= failures'[m.task]
          => effects'[m.task] + Cardinality(Waiting(m.task)') <= failures'[m.task] + 0
    BY <1>1, <1>7
  <2> QED BY <1>12, <2>1
<1> QED BY <1>1, <1>2, <1>9, <1>11, <1>12, <1>13, RunMoves

LEMMA AtFacts ==
  ASSUME TInv, NEW r \in Run, NEW m, m = run[r], NEW x, At(r, x)
  PROVE  /\ m.at = "step" /\ m.left # <<>> /\ Head(m.left) = x /\ m # Idle /\ m.task \in Task
         /\ Left(m.handler, m.left) /\ m.to \in Ends /\ m.to # "awaiting_approval"
         /\ m.approval \in 0..Len(grants) /\ (Bold(m.left) => m.to = "done")
<1>1. m.at = "step" /\ m.left # <<>> /\ Head(m.left) = x
  BY DEF At
<1> QED BY <1>1, StoresNow, RunFacts

LEMMA NotBold ==
  ASSUME NEW s, ~Bold(s)
  PROVE  s # <<"command">> /\ s # <<"consume", "command">>
BY DEF Bold, Commands

\* A step that is neither an action nor leads to one.
LEMMA SafeStep ==
  ASSUME TInv, NEW r \in Run, NEW m, m = run[r], NEW x, At(r, x), Done(r), x \notin Risky, OutputOK',
         UNCHANGED <<task, grants, doneBy, overlap, effects, failures, commands>>,
         \A u \in Task : u # m.task => /\ artifact'[u] = artifact[u] /\ observation'[u] = observation[u]
                                       /\ memory'[u] = memory[u],
         observation'[m.task] = IF x = "observation" THEN m.to ELSE observation[m.task],
         artifact'[m.task] = IF x = "artifact" THEN "whole" ELSE artifact[m.task],
         memory'[m.task] = memory[m.task] \cup (IF x \in MemoryOf(m.handler) THEN {x} ELSE {})
  PROVE  TInv'
<1>1. m.left # <<>> /\ Head(m.left) = x /\ Left(m.handler, m.left)
  BY AtFacts
<1>2. ~Bold(m.left) /\ Left(m.handler, Tail(m.left)) /\ ~Bold(Tail(m.left))
  BY <1>1, LeftFacts
<1>3. Tail(m.left) # <<"command">> /\ Tail(m.left) # <<"consume", "command">>
  BY <1>2, NotBold
<1>4. x # "command"
  BY DEF Risky, CommandWords
<1> QED BY <1>2, <1>3, <1>4, DoneStep

LEMMA IdleStep ==
  ASSUME TInv, NEW r \in Run, NEW x \in {"generate", "consolidate", "connect"}, At(r, x), Done(r),
         UNCHANGED <<task, grants, doneBy, overlap, effects, failures, commands, artifact,
                     observation, memory>>
  PROVE  TInv'
<1>1. PICK m : m = run[r]
  OBVIOUS
<1>2. x \notin Risky /\ x \in Steps /\ x # "artifact" /\ x # "observation"
  BY DEF Risky, CommandWords, Steps
<1>3. x \notin MemoryOf(m.handler)
  BY <1>2, Words
<1>4. OutputOK'
  BY StoresNow DEF OutputOK
<1> QED BY <1>1, <1>2, <1>3, <1>4, SafeStep

LEMMA GenerateStep ==
  ASSUME TInv, NEW r \in Run, generateTaskPlan(r)
  PROVE  TInv'
<1>1. /\ At(r, "generate") /\ Done(r)
      /\ UNCHANGED <<task, grants, doneBy, overlap, effects, failures, commands, artifact,
                     observation, memory>>
  BY Zenon DEF generateTaskPlan, Outside
<1> QED BY <1>1, IdleStep

\* A run that ends with an error before it changed anything.
LEMMA GiveUpStep ==
  ASSUME TInv, NEW r \in Run, NEW x, At(r, x), Fails(r), OutputOK',
         UNCHANGED <<task, grants, doneBy, overlap, commands, effects>>,
         \A u \in Task : u # run[r].task => /\ artifact'[u] = artifact[u] /\ observation'[u] = observation[u]
                                            /\ memory'[u] = memory[u]
  PROVE  TInv'
<1>1. PICK m : m = run[r]
  OBVIOUS
<1>2. m.at = "step" /\ m.task \in Task
  BY <1>1, AtFacts
<1>3. PICK d \in {0, 1} : d = 0
  OBVIOUS
<1>4. effects' \in [Task -> Nat] /\ effects'[m.task] = effects[m.task] + d /\ commands' \in Nat
  BY <1>2, <1>3, StoresNow DEF CountsOK
<1>5. Becomes(r, Idle)
  BY DEF Fails
<1>6. Consumed' = Consumed
  BY DEF Consumed
<1>7. Spent'
  BY <1>5, <1>6, SpentKept
<1> QED BY <1>1, <1>2, <1>3, <1>4, <1>7, FailStep

LEMMA ConsolidateStep ==
  ASSUME TInv, NEW r \in Run, Consolidates(r)
  PROVE  TInv'
<1>1. /\ At(r, "consolidate")
      /\ UNCHANGED <<task, grants, doneBy, overlap, effects, commands, artifact, observation, memory>>
  BY Zenon DEF Consolidates, Outside
<1>2. CASE Done(r) /\ UNCHANGED failures
  BY <1>1, <1>2, IdleStep
<1>3. CASE Fails(r)
  <2>1. OutputOK'
    BY <1>1, StoresNow DEF OutputOK
  <2> QED BY <1>1, <1>3, <2>1, GiveUpStep
<1> QED BY <1>2, <1>3, Zenon DEF Consolidates

LEMMA EmptyLeft ==
  ASSUME NEW h, NEW s, Left(h, s)
  PROVE  Left(h, <<>>) /\ ~Bold(<<>>) /\ (h = "web-search" => Left(h, <<"observation">>) /\ ~Bold(<<"observation">>))
<1>1. <<>> \in Plain /\ \A X : <<>> \in Seq(X)
  BY DEF Plain
<1>2. ~Bold(<<>>)
  BY <1>1, PlainOn DEF Bold
<1>3. Left(h, <<>>)
  BY <1>1 DEF Left
<1>4. ASSUME h = "web-search" PROVE Left(h, <<"observation">>)
  <2>1. PICK X : X = Harmless(h)
    OBVIOUS
  <2>2. "observation" \in X
    BY <2>1, Words DEF Steps
  <2>3. <<"observation">> \in Seq(X)
    BY <2>2
  <2> QED BY <1>4, <2>1, <2>3 DEF Left, Writing, Searching
<1>5. ~Bold(<<"observation">>)
  <2>1. <<"observation">> \in Plain
    BY DEF Plain
  <2> QED BY <2>1, PlainOn DEF Bold
<1> QED BY <1>2, <1>3, <1>4, <1>5

\* The ways out of a handler that write nothing more.
LEMMA OutStep ==
  ASSUME TInv, NEW r \in Run, NEW x, At(r, x), NEW to \in Ends \ {"done"}, Skip(r, to, <<>>),
         UNCHANGED <<task, grants, doneBy, overlap, effects, failures, commands, artifact,
                     observation, memory>>
  PROVE  TInv'
<1>1. PICK m : m = run[r]
  OBVIOUS
<1>2. m.at = "step" /\ Left(m.handler, m.left)
  BY <1>1, AtFacts
<1>3. Left(m.handler, <<>>) /\ ~Bold(<<>>)
  BY <1>2, EmptyLeft
<1> QED BY <1>1, <1>2, <1>3, SkipStep

LEMMA ConnectStep ==
  ASSUME TInv, NEW r \in Run, Connect(r)
  PROVE  TInv'
<1>1. /\ At(r, "connect")
      /\ UNCHANGED <<task, grants, doneBy, overlap, effects, failures, commands, artifact,
                     observation, memory>>
  BY Zenon DEF Connect, Outside
<1>2. CASE Done(r)
  BY <1>1, <1>2, IdleStep
<1>3. CASE Skip(r, "blocked", IF run[r].handler = "web-search" THEN <<"observation">> ELSE <<>>)
  <2>1. PICK m : m = run[r]
    OBVIOUS
  <2>2. m.at = "step" /\ Left(m.handler, m.left)
    BY <1>1, <2>1, AtFacts
  <2>3. PICK left : left = IF m.handler = "web-search" THEN <<"observation">> ELSE <<>>
    OBVIOUS
  <2>4. Left(m.handler, left) /\ ~Bold(left)
    BY <2>2, <2>3, EmptyLeft
  <2>5. Skip(r, "blocked", left)
    BY <1>3, <2>1, <2>3
  <2>6. "blocked" \in Ends
    BY DEF Ends
  <2> QED BY <1>1, <2>1, <2>2, <2>4, <2>5, <2>6, SkipStep
<1> QED BY <1>2, <1>3, Zenon DEF Connect

LEMMA ArtifactStep ==
  ASSUME TInv, NEW r \in Run, writeArtifact(r)
  PROVE  TInv'
<1>1. PICK m : m = run[r]
  OBVIOUS
<1>2. /\ At(r, "artifact") /\ Done(r) /\ artifact' = [artifact EXCEPT ![m.task] = "whole"]
      /\ UNCHANGED <<task, grants, doneBy, overlap, effects, failures, commands, observation, memory>>
  BY <1>1, Zenon DEF writeArtifact, ledgers
<1>3. m.task \in Task
  BY <1>1, <1>2, AtFacts
<1>4. "artifact" \notin Risky /\ "artifact" \in Steps
  BY DEF Risky, CommandWords, Steps
<1>5. "artifact" \notin MemoryOf(m.handler)
  BY <1>4, Words
<1>6. /\ OutputOK' /\ artifact'[m.task] = "whole"
      /\ \A u \in Task : u # m.task => artifact'[u] = artifact[u]
  BY <1>2, <1>3, StoresNow DEF OutputOK
<1> QED BY <1>1, <1>2, <1>4, <1>5, <1>6, SafeStep

LEMMA ObservationStep ==
  ASSUME TInv, NEW r \in Run, writeObservation(r)
  PROVE  TInv'
<1>1. PICK m : m = run[r]
  OBVIOUS
<1>2. /\ At(r, "observation") /\ Done(r) /\ observation' = [observation EXCEPT ![m.task] = m.to]
      /\ UNCHANGED <<task, grants, doneBy, overlap, effects, failures, commands, artifact, memory>>
  BY <1>1, Zenon DEF writeObservation, ledgers
<1>3. m.task \in Task /\ m.to \in {"done", "blocked", "failed"}
  BY <1>1, <1>2, AtFacts DEF Ends
<1>4. "observation" \notin Risky /\ "observation" \in Steps
  BY DEF Risky, CommandWords, Steps
<1>5. "observation" \notin MemoryOf(m.handler)
  BY <1>4, Words
<1>6. /\ OutputOK' /\ observation'[m.task] = m.to
      /\ \A u \in Task : u # m.task => observation'[u] = observation[u]
  BY <1>2, <1>3, StoresNow DEF OutputOK
<1> QED BY <1>1, <1>2, <1>4, <1>5, <1>6, SafeStep

LEMMA MemoryKnown ==
  ASSUME NEW h
  PROVE  MemoryOf(h) \subseteq MemoryOf("web-search") \cup MemoryOf("github-issue-search")
                               \cup MemoryOf("email-inbox")
BY MemoryIs DEF Searching

LEMMA CardStep ==
  ASSUME TInv, NEW r \in Run, upsertCard(r)
  PROVE  TInv'
<1>1. PICK m : m = run[r]
  OBVIOUS
<1>2. PICK x : x = Head(m.left)
  OBVIOUS
<1>3. /\ WritesMemory(r) /\ Done(r) /\ memory' = [memory EXCEPT ![m.task] = @ \cup {x}]
      /\ UNCHANGED <<task, grants, doneBy, overlap, effects, failures, commands, artifact, observation>>
  BY <1>1, <1>2, Zenon DEF upsertCard, ledgers
<1>4. At(r, x) /\ x \in MemoryOf(m.handler)
  BY <1>1, <1>2, <1>3 DEF WritesMemory, At
<1>5. m.task \in Task
  BY <1>1, <1>4, AtFacts
<1>6. x \notin Risky /\ x # "artifact" /\ x # "observation"
  BY <1>4, Words DEF Steps
<1>7. /\ OutputOK' /\ memory'[m.task] = memory[m.task] \cup {x}
      /\ \A u \in Task : u # m.task => memory'[u] = memory[u]
  BY <1>3, <1>4, <1>5, StoresNow, MemoryKnown DEF OutputOK
<1> QED BY <1>1, <1>3, <1>4, <1>6, <1>7, SafeStep

LEMMA WriteFailsStep ==
  ASSUME TInv, NEW r \in Run, WriteFails(r)
  PROVE  TInv'
<1>1. PICK m : m = run[r]
  OBVIOUS
<1>2. Fails(r) /\ UNCHANGED <<task, grants, doneBy, overlap, effects, commands, memory>>
  BY Zenon DEF WriteFails
<1>3. \/ At(r, "artifact") /\ artifact' = [artifact EXCEPT ![m.task] = "torn"] /\ UNCHANGED observation
      \/ At(r, "observation") /\ observation' = [observation EXCEPT ![m.task] = "torn"] /\ UNCHANGED artifact
      \/ WritesMemory(r) /\ UNCHANGED <<artifact, observation>>
  BY <1>1, Zenon DEF WriteFails
<1>4. PICK x : At(r, x)
  BY <1>3 DEF WritesMemory, At
<1>5. m.task \in Task
  BY <1>1, <1>4, AtFacts
<1>6. OutputOK' /\ \A u \in Task : u # m.task => artifact'[u] = artifact[u] /\ observation'[u] = observation[u]
  BY <1>2, <1>3, <1>5, StoresNow DEF OutputOK
<1> QED BY <1>1, <1>2, <1>4, <1>6, GiveUpStep

-----------------------------------------------------------------------------
(***************************************************************************)
(* Actions and commands                                                    *)
(***************************************************************************)

LEMMA InputStep ==
  ASSUME TInv, NEW r \in Run, CheckInput(r)
  PROVE  TInv'
<1>1. /\ At(r, "input") /\ (Done(r) \/ Skip(r, "blocked", <<>>))
      /\ UNCHANGED <<task, grants, doneBy, overlap, effects, failures, commands, artifact,
                     observation, memory>>
  BY Zenon DEF CheckInput, Outside
<1>2. CASE Skip(r, "blocked", <<>>)
  <2>1. "blocked" \in Ends \ {"done"}
    BY DEF Ends
  <2> QED BY <1>1, <1>2, <2>1, OutStep
<1>3. CASE Done(r)
  <2>1. PICK m : m = run[r]
    OBVIOUS
  <2>2. m.left # <<>> /\ Head(m.left) = "input" /\ Left(m.handler, m.left)
    BY <1>1, <2>1, AtFacts
  <2>3. m.handler \in Acting /\ m.left \in Acts
    BY <2>2, LeftFacts
  <2>4. Tail(m.left) \in Acts
    BY <2>2, <2>3, ActsSteps
  <2>5. Left(m.handler, Tail(m.left)) /\ (Bold(Tail(m.left)) => Bold(m.left))
    BY <2>3, <2>4 DEF Left, Bold
  <2>6. Tail(m.left) # <<"command">> /\ Tail(m.left) # <<"consume", "command">>
    BY <2>4 DEF Acts
  <2>7. "input" \notin MemoryOf(m.handler) /\ "input" # "command"
    BY Words DEF Risky
  <2>8. OutputOK'
    BY <1>1, StoresNow DEF OutputOK
  <2> QED BY <1>1, <1>3, <2>1, <2>5, <2>6, <2>7, <2>8, DoneStep
<1> QED BY <1>1, <1>2, <1>3

\* An action was carried out, or an approval asked for.
LEMMA ActStep ==
  ASSUME TInv, NEW r \in Run, NEW m, m = run[r], m # Idle, Bold(m.left),
         NEW l, NEW o \in Ends, NEW i \in 0..Len(grants'),
         Becomes(r, Going(m.task, m.handler, l, o, i)), Left(m.handler, l), ~Bold(l),
         o = "awaiting_approval" => l = <<>>,
         UNCHANGED <<task, doneBy, overlap, failures, artifact, observation, memory>>,
         effects' \in [Task -> Nat], commands' \in Nat, grants' \in Seq(Grants),
         Len(grants) <= Len(grants'), Spent',
         \A u \in Task : u # m.task => effects'[u] = effects[u] /\ Waiting(u)' = Waiting(u),
         effects'[m.task] + Cardinality(Waiting(m.task)')
           <= effects[m.task] + Cardinality(Waiting(m.task)) + 1,
         m.task \notin overlap /\ o = "done" =>
           /\ "observation" \notin Range(l) => observation[m.task] = "done"
           /\ "artifact" \notin Range(l) /\ m.handler \notin {"file-edit", External}
                => artifact[m.task] = "whole"
           /\ MemoryOf(m.handler) \subseteq memory[m.task] \cup Range(l)
  PROVE  TInv'
<1>1. m.task \in Task
  BY StoresNow, RunFacts
<1>2. PICK n : n = Going(m.task, m.handler, l, o, i)
  OBVIOUS
<1>3. n # Idle /\ n.task = m.task /\ n.handler = m.handler /\ n.left = l /\ n.to = o
  BY <1>2, GoingFields
<1>4. RunOK(n)'
  BY <1>1, <1>2, NotBold, GoingOK
<1>5. Becomes(r, n)
  BY <1>2
<1>6. RunsOK' /\ TasksOK'
  BY <1>4, <1>5, StoresNow, RunsMove, TasksStay
<1>7. OutputOK' /\ CountsOK'
  BY StoresNow DEF OutputOK, CountsOK
<1>8. Stores'
  BY <1>6, <1>7 DEF Stores
<1>9. \A u \in Task : u # m.task => Untouched(u)
  BY DEF Untouched
<1>10. ASSUME m.task \notin overlap
       PROVE  /\ task'[m.task].state # "done" /\ Made1(n)'
              /\ effects'[m.task] + Cardinality(Waiting(m.task)') <= failures'[m.task] + 1
  <2>1. task[m.task].state # "done"
        /\ effects[m.task] + Cardinality(Waiting(m.task)) <= failures[m.task] + Slack(m)
    BY <1>10, OwnNow
  <2>2. Slack(m) = 0
    BY DEF Slack
  <2>3. effects[m.task] \in Nat /\ failures[m.task] \in Nat /\ Cardinality(Waiting(m.task)) \in Nat
    BY <1>1, StoresNow, Finite DEF CountsOK
  <2>4. effects'[m.task] \in Nat /\ Cardinality(Waiting(m.task)') \in Nat
    <3>1. IsFiniteSet(Waiting(m.task)')
      <4>1. IsFiniteSet(1..Len(grants'))
        <5>1. Len(grants') \in Int
          OBVIOUS
        <5> QED BY <5>1, FS_Interval
      <4>2. Waiting(m.task)' \in SUBSET (1..Len(grants'))
        BY DEF Waiting
      <4> QED BY <4>1, <4>2, FS_Subset
    <3> QED BY <1>1, <3>1, FS_CardinalityType
  <2>5. Made1(n)'
    BY <1>3, <1>10 DEF Made1
  <2>6. effects'[m.task] + Cardinality(Waiting(m.task)') <= failures[m.task] + 1
    <3>1. PICK e, w, f, x, y : /\ e = effects[m.task] /\ w = Cardinality(Waiting(m.task)) /\ f = failures[m.task]
                               /\ x = effects'[m.task] /\ y = Cardinality(Waiting(m.task)')
      OBVIOUS
    <3>2. e \in Nat /\ w \in Nat /\ f \in Nat /\ x \in Nat /\ y \in Nat
      BY <2>3, <2>4, <3>1
    <3>3. e + w <= f + 0 /\ x + y <= e + w + 1
      BY <2>1, <2>2, <3>1
    <3>4. x + y <= f + 1
      BY <3>2, <3>3
    <3> QED BY <3>1, <3>4
  <2> QED BY <2>1, <2>5, <2>6
<1> QED BY <1>3, <1>5, <1>8, <1>9, <1>10, RunMoves

\* The task's counter of actions, one up.
LEMMA OneMoreEffect ==
  ASSUME TInv, NEW t \in Task, effects' = [effects EXCEPT ![t] = @ + 1]
  PROVE  /\ effects' \in [Task -> Nat] /\ effects'[t] = effects[t] + 1
         /\ \A u \in Task : u # t => effects'[u] = effects[u]
BY StoresNow DEF CountsOK

LEMMA ExecuteStep ==
  ASSUME TInv, NEW r \in Run, Execute(r)
  PROVE  TInv'
<1>1. PICK m : m = run[r]
  OBVIOUS
<1>2. /\ At(r, "execute")
      /\ UNCHANGED <<task, grants, doneBy, overlap, commands, artifact, observation, memory>>
  BY Zenon DEF Execute, Outside
<1>3. /\ m.at = "step" /\ m # Idle /\ m.task \in Task /\ m.left # <<>> /\ Head(m.left) = "execute"
      /\ Left(m.handler, m.left) /\ m.approval \in 0..Len(grants') /\ (Bold(m.left) => m.to = "done")
  BY <1>1, <1>2, AtFacts
<1>4. m.handler \in Acting /\ m.left \in Acts /\ Bold(m.left) /\ m.to = "done"
  BY <1>3, LeftFacts DEF Bold
<1>5. Tail(m.left) \in Plain
  BY <1>3, <1>4, ActsSteps
<1>6. Left(m.handler, Tail(m.left)) /\ ~Bold(Tail(m.left))
  BY <1>4, <1>5, PlainOn DEF Left, Bold
<1>7. grants' \in Seq(Grants) /\ Len(grants) <= Len(grants') /\ commands' \in Nat
  BY <1>2, StoresNow DEF CountsOK
<1>8. \A u : Waiting(u)' = Waiting(u)
  BY <1>2 DEF Waiting
<1>9. Consumed' = Consumed
  BY <1>2 DEF Consumed
<1>10. CASE /\ \E to \in {"done", "failed"} : Skip(r, to, Tail(m.left))
            /\ effects' = [effects EXCEPT ![m.task] = @ + 1] /\ UNCHANGED failures
  <2>1. PICK to \in {"done", "failed"} : Skip(r, to, Tail(m.left))
    BY <1>10
  <2>2. Becomes(r, Going(m.task, m.handler, Tail(m.left), to, m.approval))
    BY <1>1, <1>3, <2>1, StoresNow, SkipIs
  <2>3. /\ effects' \in [Task -> Nat] /\ effects'[m.task] = effects[m.task] + 1
        /\ \A u \in Task : u # m.task => effects'[u] = effects[u]
    BY <1>3, <1>10, OneMoreEffect
  <2>4. effects'[m.task] + Cardinality(Waiting(m.task)')
          <= effects[m.task] + Cardinality(Waiting(m.task)) + 1
    <3>1. effects[m.task] \in Nat /\ Cardinality(Waiting(m.task)) \in Nat
      BY <1>3, StoresNow, Finite DEF CountsOK
    <3>2. Cardinality(Waiting(m.task)') = Cardinality(Waiting(m.task))
      BY <1>8
    <3> QED BY <2>3, <3>1, <3>2
  <2>5. PICK n : n = Going(m.task, m.handler, Tail(m.left), to, m.approval)
    OBVIOUS
  <2>6. Spent'
    <3>1. n.left = Tail(m.left)
      BY <2>5, GoingFields
    <3>2. n.left # <<"command">>
      BY <1>6, <3>1, NotBold
    <3> QED BY <1>2, <1>9, <2>2, <2>5, <3>2, SpentKept
  <2>7. ASSUME m.task \notin overlap
        PROVE  /\ "observation" \notin Range(Tail(m.left)) => observation[m.task] = "done"
               /\ "artifact" \notin Range(Tail(m.left)) /\ m.handler \notin {"file-edit", External}
                    => artifact[m.task] = "whole"
               /\ MemoryOf(m.handler) \subseteq memory[m.task] \cup Range(Tail(m.left))
    <3>1. Range(m.left) = {"execute"} \cup Range(Tail(m.left))
      BY <1>3, LeftFacts
    <3>2. Range(Tail(m.left)) \subseteq {"artifact", "observation"}
      <4>1. Tail(m.left) \in Seq({"artifact", "observation"})
        BY <1>5, PlainSteps
      <4>2. PICK s : s = Tail(m.left)
        OBVIOUS
      <4>3. Range(s) \subseteq {"artifact", "observation"}
        BY <4>1, <4>2 DEF Range
      <4> QED BY <4>2, <4>3
    <3>3. "command" \notin Range(m.left)
      BY <3>1, <3>2
    <3>4. Made1(m)
      BY <1>1, <1>3, <2>7, OwnNow
    <3>5. MemoryOf(m.handler) = {}
      BY <1>4, MemoryIs DEF Acting, Searching
    <3> QED BY <1>4, <3>1, <3>3, <3>4, <3>5 DEF Made1
  <2>8. to \in Ends /\ to # "awaiting_approval"
    BY DEF Ends
  <2> QED BY <1>1, <1>2, <1>3, <1>4, <1>6, <1>7, <1>8, <1>10, <2>2, <2>3, <2>4, <2>6, <2>7, <2>8, ActStep
<1>11. CASE Fails(r) /\ (UNCHANGED effects \/ effects' = [effects EXCEPT ![m.task] = @ + 1])
  <2>1. OutputOK'
    BY <1>2, StoresNow DEF OutputOK
  <2>2. CASE UNCHANGED effects
    BY <1>1, <1>2, <1>11, <2>1, <2>2, GiveUpStep
  <2>3. CASE effects' = [effects EXCEPT ![m.task] = @ + 1]
    <3>1. /\ effects' \in [Task -> Nat] /\ effects'[m.task] = effects[m.task] + 1
          /\ \A u \in Task : u # m.task => effects'[u] = effects[u]
      BY <1>3, <2>3, OneMoreEffect
    <3>2. Becomes(r, Idle)
      BY <1>11 DEF Fails
    <3>3. Spent'
      BY <1>2, <1>9, <3>2, SpentKept
    <3>4. PICK d \in {0, 1} : d = 1
      OBVIOUS
    <3> QED BY <1>1, <1>2, <1>3, <1>4, <1>7, <1>11, <2>1, <3>1, <3>3, <3>4, FailStep
  <2> QED BY <1>11, <2>2, <2>3
<1> QED BY <1>1, <1>10, <1>11, Zenon DEF Execute

LEMMA PathsStep ==
  ASSUME TInv, NEW r \in Run, resolveExternalPaths(r)
  PROVE  TInv'
<1>1. /\ At(r, "paths") /\ (Done(r) \/ Skip(r, "failed", <<>>))
      /\ UNCHANGED <<task, grants, doneBy, overlap, effects, failures, commands, artifact,
                     observation, memory>>
  BY Zenon DEF resolveExternalPaths, Outside
<1>2. CASE Skip(r, "failed", <<>>)
  <2>1. "failed" \in Ends \ {"done"}
    BY DEF Ends
  <2> QED BY <1>1, <1>2, <2>1, OutStep
<1>3. CASE Done(r)
  <2>1. PICK m : m = run[r]
    OBVIOUS
  <2>2. m.left # <<>> /\ Head(m.left) = "paths" /\ Left(m.handler, m.left)
    BY <1>1, <2>1, AtFacts
  <2>3. m.handler = External /\ m.left \in Commands
    <3>1. "paths" \in CommandWords
      BY DEF CommandWords
    <3> QED BY <2>2, <3>1, LeftFacts, ZenonT(60)
  <2>4. Tail(m.left) = <<"approve", "consume", "command">>
    BY <2>2, <2>3, CommandsSteps
  <2>5. Tail(m.left) \in Commands
    BY <2>4 DEF Commands
  <2>6. Left(m.handler, Tail(m.left)) /\ (Bold(Tail(m.left)) => Bold(m.left))
    BY <2>3, <2>5 DEF Left, Bold
  <2>7. Tail(m.left) # <<"command">> /\ Tail(m.left) # <<"consume", "command">>
    BY <2>4
  <2>8. "paths" \notin MemoryOf(m.handler)
    BY Words DEF Risky, CommandWords
  <2>9. OutputOK'
    BY <1>1, StoresNow DEF OutputOK
  <2> QED BY <1>1, <1>3, <2>1, <2>6, <2>7, <2>8, <2>9, DoneStep
<1> QED BY <1>1, <1>2, <1>3

\* A request for approval is added.
LEMMA Asked ==
  ASSUME grants \in Seq(Grants), NEW t \in Task,
         grants' = Append(grants, [task |-> t, status |-> "pending"])
  PROVE  /\ grants' \in Seq(Grants) /\ Len(grants') = Len(grants) + 1
         /\ \A u \in Task : u # t => Waiting(u)' = Waiting(u)
         /\ Cardinality(Waiting(t)') = Cardinality(Waiting(t)) + 1
         /\ Consumed' = Consumed
<1>1. PICK g : g = [task |-> t, status |-> "pending"]
  OBVIOUS
<1>2. g \in Grants /\ g.task = t /\ g.status = "pending"
  BY <1>1 DEF Grants
<1>3. /\ grants' \in Seq(Grants) /\ Len(grants') = Len(grants) + 1 /\ Len(grants) \in Nat
      /\ \A i \in 1..Len(grants) : grants'[i] = grants[i]
      /\ grants'[Len(grants) + 1] = g
  BY <1>1, <1>2
<1>4. \A i \in 1..Len(grants') : i \in 1..Len(grants) \/ i = Len(grants) + 1
  BY <1>3
<1>5. \A i \in 1..Len(grants) : i \in 1..Len(grants')
  BY <1>3
<1>6. \A u \in Task : u # t => Waiting(u)' = Waiting(u)
  BY <1>2, <1>3, <1>4, <1>5 DEF Waiting
<1>7. Waiting(t)' = Waiting(t) \cup {Len(grants) + 1} /\ Len(grants) + 1 \notin Waiting(t)
  <2>1. Len(grants) + 1 \in 1..Len(grants') /\ Len(grants) + 1 \notin 1..Len(grants)
    BY <1>3
  <2> QED BY <1>2, <1>3, <1>4, <1>5, <2>1 DEF Waiting
<1>8. Cardinality(Waiting(t)') = Cardinality(Waiting(t)) + 1
  BY <1>7, Finite, FS_AddElement
<1>9. Consumed' = Consumed
  BY <1>2, <1>3, <1>4, <1>5 DEF Consumed
<1> QED BY <1>3, <1>6, <1>8, <1>9

LEMMA ApproveStepOK ==
  ASSUME TInv, NEW r \in Run, resolveRootApproval(r)
  PROVE  TInv'
<1>1. PICK m : m = run[r]
  OBVIOUS
<1>2. /\ At(r, "approve")
      /\ UNCHANGED <<task, doneBy, overlap, effects, failures, commands, artifact, observation, memory>>
  BY Zenon DEF resolveRootApproval, ledgers
<1>3. /\ m.at = "step" /\ m # Idle /\ m.task \in Task /\ m.left # <<>> /\ Head(m.left) = "approve"
      /\ Left(m.handler, m.left) /\ m.approval \in 0..Len(grants) /\ m.to \in Ends
      /\ (Bold(m.left) => m.to = "done")
  BY <1>1, <1>2, AtFacts
<1>4. m.handler = External /\ m.left \in Commands
  <2>1. "approve" \in CommandWords
    BY DEF CommandWords
  <2>2. m.left # <<>> /\ Head(m.left) \in CommandWords /\ Left(m.handler, m.left)
    BY <1>3, <2>1
  <2> QED BY <2>2, LeftFacts
<1>5. Bold(m.left) /\ m.to = "done" /\ Tail(m.left) = <<"consume", "command">>
  BY <1>3, <1>4, CommandsSteps DEF Bold
<1>6. Left(m.handler, <<>>) /\ ~Bold(<<>>)
  BY <1>3, EmptyLeft
<1>7. OutputOK'
  BY <1>2, StoresNow DEF OutputOK
<1>8. ASSUME NEW l \in {<<"command">>, <<"consume", "command">>}, UNCHANGED grants,
             Becomes(r, Going(m.task, m.handler, l, m.to, m.approval)),
             l = <<"command">> => ~task[m.task].root, l = <<"consume", "command">> => m.approval # 0
      PROVE  TInv'
  <2>1. PICK n : n = Going(m.task, m.handler, l, m.to, m.approval)
    OBVIOUS
  <2>2. n # Idle /\ n.task = m.task /\ n.left = l /\ n.to = m.to
    BY <2>1, GoingFields
  <2>3. l \in Commands
    BY <1>8 DEF Commands
  <2>4. Left(m.handler, l) /\ Bold(l) /\ "command" \in Range(l) /\ l # <<>>
    BY <1>4, <2>3, CommandsSteps DEF Left, Bold
  <2>5. m.to # "awaiting_approval"
    BY <1>5
  <2>6. RunOK(n)'
    BY <1>3, <1>5, <1>8, <2>1, <2>4, <2>5, GoingOK
  <2>7. Made1(n)'
    BY <2>2, <2>4 DEF Made1
  <2>8. Becomes(r, n)
    BY <1>8, <2>1
  <2> QED BY <1>1, <1>2, <1>3, <1>5, <1>7, <1>8, <2>2, <2>6, <2>7, <2>8, CalmStep
<1>9. CASE /\ ~task[m.task].root /\ UNCHANGED grants
           /\ Becomes(r, [run[r] EXCEPT !.left = << "command" >>])
  <2>1. Becomes(r, Going(m.task, m.handler, <<"command">>, m.to, m.approval))
    BY <1>1, <1>3, <1>9, StoresNow, LeftIs
  <2>2. PICK l : l = <<"command">>
    OBVIOUS
  <2>3. l # <<"consume", "command">>
    BY <2>2
  <2> QED BY <1>8, <1>9, <2>1, <2>2, <2>3
<1>10. CASE m.approval = 0 /\ grants' = Append(grants, [task |-> m.task, status |-> "pending"])
            /\ Becomes(r, [run[r] EXCEPT !.to = "awaiting_approval", !.left = <<>>,
                                         !.approval = Len(grants) + 1])
  <2>1. PICK i : i = Len(grants) + 1
    OBVIOUS
  <2>2. Becomes(r, Going(m.task, m.handler, <<>>, "awaiting_approval", i))
    BY <1>1, <1>3, <1>10, <2>1, StoresNow, AskIs
  <2>3. /\ grants' \in Seq(Grants) /\ Len(grants') = Len(grants) + 1
        /\ \A u \in Task : u # m.task => Waiting(u)' = Waiting(u)
        /\ Cardinality(Waiting(m.task)') = Cardinality(Waiting(m.task)) + 1
        /\ Consumed' = Consumed
    BY <1>3, <1>10, StoresNow, Asked
  <2>4. i \in 0..Len(grants') /\ Len(grants) <= Len(grants')
    <3>1. Len(grants) \in Nat
      BY StoresNow
    <3> QED BY <2>1, <2>3, <3>1
  <2>5. "awaiting_approval" \in Ends
    BY DEF Ends
  <2>6. Spent'
    <3>1. PICK n : n = Going(m.task, m.handler, <<>>, "awaiting_approval", i)
      OBVIOUS
    <3>2. n.left = <<>> /\ <<>> # <<"command">>
      BY <3>1, GoingFields
    <3> QED BY <1>2, <2>2, <2>3, <3>1, <3>2, SpentKept
  <2>7. effects' \in [Task -> Nat] /\ commands' \in Nat
    BY <1>2, StoresNow DEF CountsOK
  <2>8. effects'[m.task] + Cardinality(Waiting(m.task)')
          <= effects[m.task] + Cardinality(Waiting(m.task)) + 1
    <3>1. effects[m.task] \in Nat /\ Cardinality(Waiting(m.task)) \in Nat
      BY <1>3, StoresNow, Finite DEF CountsOK
    <3> QED BY <1>2, <2>3, <3>1
  <2> QED BY <1>1, <1>2, <1>3, <1>5, <1>6, <2>2, <2>3, <2>4, <2>5, <2>6, <2>7, <2>8, ActStep
<1>11. ASSUME NEW to \in Ends \ {"done"}, Skip(r, to, <<>>), UNCHANGED grants PROVE TInv'
  BY <1>2, <1>11, OutStep
<1>12. CASE m.approval # 0 /\ Done(r) /\ UNCHANGED grants
  <2>1. Becomes(r, Going(m.task, m.handler, <<"consume", "command">>, m.to, m.approval))
    BY <1>1, <1>3, <1>5, <1>12, StoresNow, DoneIs
  <2>2. PICK l : l = <<"consume", "command">>
    OBVIOUS
  <2>3. l # <<"command">>
    BY <2>2
  <2> QED BY <1>8, <1>12, <2>1, <2>2, <2>3
<1>13. "awaiting_approval" \in Ends \ {"done"} /\ "blocked" \in Ends \ {"done"}
  BY DEF Ends
<1>14. CASE m.approval # 0 /\ Skip(r, "awaiting_approval", <<>>) /\ UNCHANGED grants
  BY <1>11, <1>13, <1>14
<1>15. CASE m.approval # 0 /\ Skip(r, "blocked", <<>>) /\ UNCHANGED grants
  BY <1>11, <1>13, <1>15
<1> QED BY <1>1, <1>9, <1>10, <1>12, <1>14, <1>15 DEF resolveRootApproval

\* The status of one approval changes.
LEMMA Decided ==
  ASSUME grants \in Seq(Grants), NEW i \in 1..Len(grants),
         NEW x \in {"pending", "approved", "denied", "consumed"},
         grants' = [grants EXCEPT ![i].status = x]
  PROVE  /\ grants' \in Seq(Grants) /\ Len(grants') = Len(grants)
         /\ grants'[i].task = grants[i].task /\ grants'[i].status = x
         /\ \A j \in 1..Len(grants) : j # i => grants'[j] = grants[j]
<1>0. grants[i] \in Grants
  OBVIOUS
<1>1. PICK t, st : grants[i] = [task |-> t, status |-> st] /\ t \in Task
  BY <1>0 DEF Grants
<1>2. PICK g : g = [task |-> t, status |-> x]
  OBVIOUS
<1>3. g \in Grants /\ g.task = t /\ g.status = x /\ grants[i].task = t
  BY <1>1, <1>2 DEF Grants
<1>4. [grants[i] EXCEPT !.status = x] = g
  BY <1>1, <1>2
<1>5. grants' = [grants EXCEPT ![i] = g]
  BY <1>4
<1>6. /\ grants' \in Seq(Grants) /\ Len(grants') = Len(grants) /\ grants'[i] = g
      /\ \A j \in 1..Len(grants) : j # i => grants'[j] = grants[j]
  BY <1>3, <1>5
<1> QED BY <1>3, <1>6

LEMMA ConsumeStep ==
  ASSUME TInv, NEW r \in Run, Consume(r)
  PROVE  TInv'
<1>1. PICK m : m = run[r]
  OBVIOUS
<1>2. /\ At(r, "consume")
      /\ UNCHANGED <<task, doneBy, overlap, effects, failures, commands, artifact, observation, memory>>
  BY Zenon DEF Consume, ledgers
<1>3. /\ m.at = "step" /\ m # Idle /\ m.task \in Task /\ m.left # <<>> /\ Head(m.left) = "consume"
      /\ Left(m.handler, m.left) /\ m.approval \in 0..Len(grants) /\ m.to \in Ends
      /\ (Bold(m.left) => m.to = "done")
  BY <1>1, <1>2, AtFacts
<1>4. m.handler = External /\ m.left \in Commands
  <2>1. "consume" \in CommandWords
    BY DEF CommandWords
  <2>2. m.left # <<>> /\ Head(m.left) \in CommandWords /\ Left(m.handler, m.left)
    BY <1>3, <2>1
  <2> QED BY <2>2, LeftFacts
<1>5. Bold(m.left) /\ m.to = "done" /\ m.left = <<"consume", "command">> /\ Tail(m.left) = <<"command">>
  BY <1>3, <1>4, CommandsSteps DEF Bold
<1>6. PICK i : i = m.approval
  OBVIOUS
<1>7. i \in 1..Len(grants)
  <2>1. i # 0
    BY <1>1, <1>3, <1>5, <1>6, StoresNow, RunFacts
  <2>2. Len(grants) \in Nat
    BY StoresNow
  <2> QED BY <1>3, <1>6, <2>1, <2>2
<1>8. CASE grants[i].status # "approved"
  <2>1. Skip(r, "failed", <<>>) /\ UNCHANGED grants
    BY <1>1, <1>6, <1>8 DEF Consume
  <2>2. "failed" \in Ends \ {"done"}
    BY DEF Ends
  <2> QED BY <1>2, <2>1, <2>2, OutStep
<1>9. CASE grants[i].status = "approved"
  <2>1. grants' = [grants EXCEPT ![i].status = "consumed"] /\ Done(r)
    BY <1>1, <1>6, <1>9 DEF Consume
  <2>2. /\ grants' \in Seq(Grants) /\ Len(grants') = Len(grants)
        /\ grants'[i].task = grants[i].task /\ grants'[i].status = "consumed"
        /\ \A j \in 1..Len(grants) : j # i => grants'[j] = grants[j]
    BY <1>7, <2>1, StoresNow, Decided
  <2>3. \A u : Waiting(u)' = Waiting(u)
    BY <1>7, <1>9, <2>2 DEF Waiting
  <2>4. Consumed' = Consumed \cup {i} /\ i \notin Consumed
    BY <1>7, <1>9, <2>2 DEF Consumed
  <2>5. PICK n : n = Going(m.task, m.handler, <<"command">>, m.to, m.approval)
    OBVIOUS
  <2>6. Becomes(r, n)
    BY <1>1, <1>3, <1>5, <2>1, <2>5, StoresNow, DoneIs
  <2>7. n # Idle /\ n.task = m.task /\ n.left = <<"command">> /\ n.to = m.to
    BY <2>5, GoingFields
  <2>8. PICK l : l = <<"command">>
    OBVIOUS
  <2>9. l \in Commands /\ l # <<"consume", "command">>
    BY <2>8 DEF Commands
  <2>10. Left(m.handler, l) /\ Bold(l) /\ "command" \in Range(l)
    BY <1>4, <2>9, CommandsSteps DEF Left, Bold
  <2>11. RunOK(n)'
    BY <1>3, <1>5, <2>2, <2>5, <2>8, <2>9, <2>10, GoingOK
  <2>12. Stores'
    <3>1. Len(grants) <= Len(grants')
      BY <2>2, StoresNow
    <3>2. RunsOK' /\ TasksOK'
      BY <1>2, <2>2, <2>6, <2>11, <3>1, StoresNow, RunsMove, TasksStay
    <3>3. OutputOK' /\ CountsOK'
      BY <1>2, StoresNow DEF OutputOK, CountsOK
    <3> QED BY <2>2, <3>2, <3>3 DEF Stores
  <2>13. Spent'
    <3>1. run'[r] = n /\ \A s \in Run : s # r => run'[s] = run[s]
      BY <2>6, StoresNow, BecomesFacts
    <3>2. Holding' \subseteq Holding \cup {r}
      BY <1>2, <3>1 DEF Holding
    <3>3. IsFiniteSet(Holding) /\ Cardinality(Holding) \in Nat /\ Cardinality(Consumed) \in Nat
          /\ IsFiniteSet(Consumed)
      BY StoresNow, Finite
    <3>4. IsFiniteSet(Holding \cup {r}) /\ Cardinality(Holding \cup {r}) <= Cardinality(Holding) + 1
      <4>1. /\ IsFiniteSet(Holding \cup {r})
            /\ Cardinality(Holding \cup {r})
                 = IF r \in Holding THEN Cardinality(Holding) ELSE Cardinality(Holding) + 1
        BY <3>3, FS_AddElement
      <4> QED BY <3>3, <4>1
    <3>5. IsFiniteSet(Holding') /\ Cardinality(Holding') <= Cardinality(Holding \cup {r})
      BY <3>2, <3>4, FS_Subset
    <3>6. Cardinality(Holding') \in Nat /\ Cardinality(Holding \cup {r}) \in Nat
      BY <3>4, <3>5, FS_CardinalityType
    <3>7. Cardinality(Consumed') = Cardinality(Consumed) + 1
      BY <2>4, <3>3, FS_AddElement
    <3>8. commands \in Nat /\ commands + Cardinality(Holding) <= Cardinality(Consumed)
      BY StoresNow DEF CountsOK, TInv, Spent
    <3>9. commands + Cardinality(Holding') <= Cardinality(Consumed')
      BY <3>3, <3>4, <3>5, <3>6, <3>7, <3>8
    <3> QED BY <1>2, <3>9 DEF Spent
  <2>14. \A u \in Task : u # m.task => Untouched(u)
    BY <1>2, <2>3 DEF Untouched
  <2>15. ASSUME m.task \notin overlap
         PROVE  /\ task'[m.task].state # "done" /\ Made1(n)'
                /\ effects'[m.task] + Cardinality(Waiting(m.task)') <= failures'[m.task] + 0
    <3>1. task[m.task].state # "done"
          /\ effects[m.task] + Cardinality(Waiting(m.task)) <= failures[m.task] + Slack(m)
      BY <1>1, <1>3, <2>15, OwnNow
    <3>2. Slack(m) = 0
      BY <1>5 DEF Slack
    <3>3. Made1(n)'
      BY <2>7, <2>8, <2>10 DEF Made1
    <3> QED BY <1>2, <2>3, <3>1, <3>2, <3>3
  <2> QED BY <1>1, <1>2, <1>3, <2>6, <2>7, <2>8, <2>10, <2>12, <2>13, <2>14, <2>15, RunMoves
<1> QED BY <1>8, <1>9

LEMMA CommandSpent ==
  ASSUME TInv, NEW r \in Run, run[r] # Idle, run[r].left = <<"command">>, NEW n, Becomes(r, n),
         n = Idle \/ n.left # <<"command">>, UNCHANGED <<task, grants>>,
         commands' = IF task[run[r].task].root THEN commands + 1 ELSE commands
  PROVE  Spent' /\ commands' \in Nat
<1>0. commands \in Nat
  BY StoresNow DEF CountsOK
<1>1. Consumed' = Consumed
  BY DEF Consumed
<1>2. CASE ~task[run[r].task].root
  BY <1>0, <1>1, <1>2, SpentKept
<1>3. CASE task[run[r].task].root
  <2>1. run'[r] = n /\ \A s \in Run : s # r => run'[s] = run[s]
    BY StoresNow, BecomesFacts
  <2>2. r \in Holding /\ Holding' \subseteq Holding \ {r}
    BY <1>3, <2>1 DEF Holding
  <2>3. IsFiniteSet(Holding) /\ Cardinality(Holding) \in Nat /\ Cardinality(Consumed) \in Nat
    BY StoresNow, Finite
  <2>4. IsFiniteSet(Holding \ {r}) /\ Cardinality(Holding \ {r}) = Cardinality(Holding) - 1
    BY <2>2, <2>3, FS_RemoveElement
  <2>5. IsFiniteSet(Holding') /\ Cardinality(Holding') <= Cardinality(Holding \ {r})
    BY <2>2, <2>4, FS_Subset
  <2>6. Cardinality(Holding') \in Nat
    BY <2>5, FS_CardinalityType
  <2>7. commands + Cardinality(Holding) <= Cardinality(Consumed)
    BY DEF TInv, Spent
  <2>8. commands' + Cardinality(Holding') <= Cardinality(Consumed')
    BY <1>0, <1>1, <1>3, <2>3, <2>4, <2>5, <2>6, <2>7
  <2> QED BY <1>0, <1>3, <2>8 DEF Spent
<1> QED BY <1>2, <1>3

LEMMA CommandStep ==
  ASSUME TInv, NEW r \in Run, Command(r)
  PROVE  TInv'
<1>1. PICK m : m = run[r]
  OBVIOUS
<1>2. /\ At(r, "command")
      /\ UNCHANGED <<task, grants, doneBy, overlap, artifact, observation, memory>>
      /\ commands' = IF task[m.task].root THEN commands + 1 ELSE commands
      /\ effects' = [effects EXCEPT ![m.task] = @ + 1]
  BY <1>1, Zenon DEF Command, Outside
<1>3. /\ m.at = "step" /\ m # Idle /\ m.task \in Task /\ m.left # <<>> /\ Head(m.left) = "command"
      /\ Left(m.handler, m.left) /\ m.approval \in 0..Len(grants) /\ m.to \in Ends
  BY <1>1, <1>2, AtFacts
<1>4. m.handler = External /\ m.left \in Commands
  <2>1. "command" \in CommandWords
    BY DEF CommandWords
  <2>2. m.left # <<>> /\ Head(m.left) \in CommandWords /\ Left(m.handler, m.left)
    BY <1>3, <2>1
  <2> QED BY <2>2, LeftFacts
<1>5. Bold(m.left) /\ m.left = <<"command">>
  BY <1>3, <1>4, CommandsSteps DEF Bold
<1>6. /\ effects' \in [Task -> Nat] /\ effects'[m.task] = effects[m.task] + 1
      /\ \A u \in Task : u # m.task => effects'[u] = effects[u]
  BY <1>2, <1>3, OneMoreEffect
<1>7. \A u : Waiting(u)' = Waiting(u)
  BY <1>2 DEF Waiting
<1>8. MemoryOf(m.handler) = {}
  BY <1>4, KnownFacts, MemoryIs DEF Known, Searching
<1>9. ASSUME NEW to \in {"done", "blocked", "failed"}, NEW l \in Plain, Skip(r, to, l), UNCHANGED failures,
             to = "done" => "observation" \in Range(l)
      PROVE  TInv'
  <2>1. Becomes(r, Going(m.task, m.handler, l, to, m.approval))
    BY <1>1, <1>3, <1>9, StoresNow, SkipIs
  <2>2. PICK n : n = Going(m.task, m.handler, l, to, m.approval)
    OBVIOUS
  <2>3. n.left = l
    BY <2>2, GoingFields
  <2>4. Left(m.handler, l) /\ ~Bold(l)
    BY <1>4, <1>9, PlainOn DEF Left, Bold
  <2>5. Spent' /\ commands' \in Nat
    <3>1. l # <<"command">>
      BY <2>4, NotBold
    <3> QED BY <1>1, <1>2, <1>3, <1>5, <2>1, <2>2, <2>3, <3>1, CommandSpent
  <2>6. effects'[m.task] + Cardinality(Waiting(m.task)')
          <= effects[m.task] + Cardinality(Waiting(m.task)) + 1
    <3>1. effects[m.task] \in Nat /\ Cardinality(Waiting(m.task)) \in Nat
      BY <1>3, StoresNow, Finite DEF CountsOK
    <3>2. Cardinality(Waiting(m.task)') = Cardinality(Waiting(m.task))
      BY <1>7
    <3> QED BY <1>6, <3>1, <3>2
  <2>7. grants' \in Seq(Grants) /\ Len(grants) <= Len(grants')
    BY <1>2, StoresNow
  <2>8. to \in Ends /\ to # "awaiting_approval"
    BY <1>9 DEF Ends
  <2>9. m.approval \in 0..Len(grants')
    BY <1>2, <1>3
  <2> QED BY <1>1, <1>2, <1>3, <1>4, <1>5, <1>6, <1>7, <1>8, <1>9, <2>1, <2>4, <2>5, <2>6, <2>7, <2>8, <2>9, ActStep
<1>10. CASE /\ \E to \in {"done", "blocked", "failed"}, left \in {<<"artifact", "observation">>, <<"observation">>} :
                 Skip(r, to, left)
            /\ UNCHANGED failures
  <2>1. PICK to \in {"done", "blocked", "failed"}, l \in {<<"artifact", "observation">>, <<"observation">>} :
          Skip(r, to, l)
    BY <1>10
  <2>2. l \in Plain /\ "observation" \in Range(l)
    BY DEF Plain, Range
  <2> QED BY <1>9, <1>10, <2>1, <2>2
<1>11. CASE Skip(r, "failed", <<>>) /\ UNCHANGED failures
  <2>1. <<>> \in Plain
    BY DEF Plain
  <2> QED BY <1>9, <1>11, <2>1
<1>12. CASE Fails(r)
  <2>1. Becomes(r, Idle)
    BY <1>12 DEF Fails
  <2>2. Spent' /\ commands' \in Nat
    BY <1>1, <1>2, <1>3, <1>5, <2>1, CommandSpent
  <2>3. OutputOK'
    BY <1>2, StoresNow DEF OutputOK
  <2>4. PICK d \in {0, 1} : d = 1
    OBVIOUS
  <2> QED BY <1>1, <1>2, <1>3, <1>5, <1>6, <1>12, <2>2, <2>3, <2>4, FailStep
<1> QED BY <1>10, <1>11, <1>12, Zenon DEF Command

-----------------------------------------------------------------------------
(***************************************************************************)
(* The tasks                                                               *)
(***************************************************************************)

TaskSet(t, x, y) ==
  /\ task' = [u \in Task |-> task'[u]]
  /\ task'[t] = [skill |-> task[t].skill, root |-> task[t].root, given |-> task[t].given,
                 state |-> x, approval |-> y]
  /\ \A u \in Task : u # t => task'[u] = task[u]

LEMMA TaskSetIs ==
  ASSUME TasksOK, NEW t \in Task, NEW x, NEW y,
         task' = [task EXCEPT ![t].state = x, ![t].approval = y]
  PROVE  TaskSet(t, x, y)
<1>1. PICK k : k = task[t]
  OBVIOUS
<1>2. PICK a, b, c, d, e : k = [skill |-> a, root |-> b, given |-> c, state |-> d, approval |-> e]
  BY <1>1 DEF TasksOK, TaskOK
<1>3. k.skill = a /\ k.root = b /\ k.given = c
  BY <1>2
<1>4. DOMAIN task = Task
  BY DEF TasksOK
<1>5. PICK n : n = [k EXCEPT !.state = x, !.approval = y]
  OBVIOUS
<1>6. n = [skill |-> a, root |-> b, given |-> c, state |-> x, approval |-> y]
  BY <1>2, <1>5
<1>7. task'[t] = n /\ task' = [u \in Task |-> task'[u]] /\ \A u \in Task : u # t => task'[u] = task[u]
  BY <1>1, <1>4, <1>5
<1> QED BY <1>1, <1>3, <1>6, <1>7 DEF TaskSet

LEMMA TaskSetOne ==
  ASSUME TasksOK, NEW t \in Task, NEW x, task' = [task EXCEPT ![t].state = x]
  PROVE  TaskSet(t, x, task[t].approval)
<1>1. PICK k : k = task[t]
  OBVIOUS
<1>2. PICK a, b, c, d, e : k = [skill |-> a, root |-> b, given |-> c, state |-> d, approval |-> e]
  BY <1>1 DEF TasksOK, TaskOK
<1>3. k.skill = a /\ k.root = b /\ k.given = c /\ k.approval = e
  BY <1>2
<1>4. DOMAIN task = Task
  BY DEF TasksOK
<1>5. PICK n : n = [k EXCEPT !.state = x]
  OBVIOUS
<1>6. n = [skill |-> a, root |-> b, given |-> c, state |-> x, approval |-> e]
  BY <1>2, <1>5
<1>7. task'[t] = n /\ task' = [u \in Task |-> task'[u]] /\ \A u \in Task : u # t => task'[u] = task[u]
  BY <1>1, <1>4, <1>5
<1> QED BY <1>1, <1>3, <1>6, <1>7 DEF TaskSet

LEMMA TaskSetOK ==
  ASSUME TasksOK, NEW t \in Task, NEW x \in Ends \cup {"planned"}, NEW y \in 0..Len(grants'),
         TaskSet(t, x, y), grants \in Seq(Grants), grants' \in Seq(Grants), Len(grants) <= Len(grants')
  PROVE  /\ TasksOK' /\ task'[t].state = x
         /\ \A u \in Task : task'[u].root = task[u].root
<1>1. PICK k : k = task'[t]
  OBVIOUS
<1>2. k = [skill |-> task[t].skill, root |-> task[t].root, given |-> task[t].given,
           state |-> x, approval |-> y]
  BY <1>1 DEF TaskSet
<1>3. k.skill = task[t].skill /\ k.root = task[t].root /\ k.given = task[t].given /\ k.state = x /\ k.approval = y
  BY <1>2
<1>4. task[t].root \in BOOLEAN /\ task[t].given \in BOOLEAN
  BY DEF TasksOK, TaskOK
<1>5. TaskOK(k)'
  BY <1>2, <1>3, <1>4 DEF TaskOK
<1>6. 0..Len(grants) \subseteq 0..Len(grants')
  <2>1. Len(grants) \in Nat /\ Len(grants') \in Nat
    OBVIOUS
  <2> QED BY <2>1
<1>7. ASSUME NEW u \in Task PROVE TaskOK(task[u])'
  <2>1. CASE u = t
    BY <1>1, <1>5, <2>1 DEF TaskOK
  <2>2. CASE u # t
    <3>1. PICK j : j = task[u]
      OBVIOUS
    <3>2. task'[u] = j /\ TaskOK(j)
      BY <2>2, <3>1 DEF TaskSet, TasksOK
    <3>3. TaskOK(j)'
      BY <1>6, <3>2 DEF TaskOK
    <3> QED BY <3>2, <3>3 DEF TaskOK
  <2> QED BY <2>1, <2>2
<1>8. TasksOK'
  BY <1>7 DEF TasksOK, TaskSet
<1> QED BY <1>1, <1>3, <1>8 DEF TaskSet

LEMMA MoveTaskStep ==
  ASSUME TInv, NEW r \in Run, MoveTask(r)
  PROVE  TInv'
<1>1. PICK m : m = run[r]
  OBVIOUS
<1>2. PICK t : t = m.task
  OBVIOUS
<1>3. PICK y : y = IF m.to = "awaiting_approval" THEN m.approval ELSE task[t].approval
  OBVIOUS
<1>4. /\ m.at = "step" /\ m.left = <<>> /\ Becomes(r, Idle)
      /\ UNCHANGED <<grants, overlap, effects, commands, artifact, observation, memory>>
      /\ doneBy' = IF m.to = "done" THEN [doneBy EXCEPT ![t] = m.handler] ELSE doneBy
      /\ failures' = IF m.to = "done" THEN failures ELSE [failures EXCEPT ![t] = @ + 1]
  BY <1>1, <1>2 DEF MoveTask
<1>5. task' = [task EXCEPT ![t].state = m.to, ![t].approval = y]
  <2>1. task' = [task EXCEPT ![t].state = m.to,
                             ![t].approval = IF m.to = "awaiting_approval" THEN m.approval ELSE @]
    BY <1>1, <1>2, Zenon DEF MoveTask
  <2>2. CASE m.to = "awaiting_approval"
    BY <1>3, <2>1, <2>2
  <2>3. CASE m.to # "awaiting_approval"
    BY <1>2, <1>3, <2>1, <2>3, StoresNow DEF TasksOK, TaskOK
  <2> QED BY <2>2, <2>3
<1>6. m # Idle /\ t \in Task /\ Left(m.handler, m.left) /\ m.to \in Ends /\ m.approval \in 0..Len(grants)
  BY <1>1, <1>2, <1>4, StoresNow, RunFacts
<1>7. y \in 0..Len(grants')
  BY <1>3, <1>4, <1>6, StoresNow DEF TasksOK, TaskOK
<1>8. Len(grants) <= Len(grants') /\ grants' \in Seq(Grants)
  BY <1>4, StoresNow
<1>9. TaskSet(t, m.to, y)
  BY <1>5, <1>6, StoresNow, TaskSetIs
<1>10. TasksOK' /\ task'[t].state = m.to /\ \A u \in Task : task'[u].root = task[u].root
  BY <1>6, <1>7, <1>8, <1>9, StoresNow, TaskSetOK
<1>11. RunsOK'
  <2>1. RunOK(Idle)'
    BY DEF RunOK
  <2> QED BY <1>4, <1>8, <2>1, StoresNow, RunsMove
<1>12. OutputOK'
  BY <1>4, StoresNow DEF OutputOK
<1>13. /\ CountsOK' /\ (m.to = "done" => doneBy'[t] = m.handler)
       /\ failures'[t] = failures[t] + (IF m.to = "done" THEN 0 ELSE 1)
       /\ \A u \in Task : u # t => doneBy'[u] = doneBy[u] /\ failures'[u] = failures[u]
  <2>1. doneBy' = [u \in Task |-> doneBy'[u]] /\ (m.to = "done" => doneBy'[t] = m.handler)
        /\ \A u \in Task : u # t => doneBy'[u] = doneBy[u]
    BY <1>4, <1>6, StoresNow DEF CountsOK
  <2>2. /\ failures' \in [Task -> Nat]
        /\ failures'[t] = failures[t] + (IF m.to = "done" THEN 0 ELSE 1)
        /\ \A u \in Task : u # t => failures'[u] = failures[u]
    BY <1>4, <1>6, StoresNow DEF CountsOK
  <2> QED BY <1>4, <2>1, <2>2, StoresNow DEF CountsOK
<1>14. Stores'
  BY <1>8, <1>10, <1>11, <1>12, <1>13 DEF Stores
<1>15. (\A u : Waiting(u)' = Waiting(u)) /\ Consumed' = Consumed
  BY <1>4 DEF Waiting, Consumed
<1>16. Spent'
  BY <1>4, <1>10, <1>15, SpentKept
<1>17. \A u \in Task : u # t => Untouched(u)
  BY <1>4, <1>9, <1>13, <1>15 DEF Untouched, TaskSet
<1>18. ASSUME t \notin overlap
       PROVE  /\ task'[t].state = "done" => Complete(t)'
              /\ effects'[t] + Cardinality(Waiting(t)')
                   <= failures'[t] + (IF task'[t].state = "done" THEN 1 ELSE 0)
  <2>1. Made1(m) /\ effects[t] + Cardinality(Waiting(t)) <= failures[t] + Slack(m)
    BY <1>1, <1>2, <1>6, <1>18, OwnNow
  <2>2. Range(m.left) = {}
    BY <1>4, <1>6, LeftFacts
  <2>3. task'[t].state = "done" => Complete(t)'
    BY <1>2, <1>4, <1>10, <1>13, <2>1, <2>2 DEF Made1, Complete
  <2>4. effects[t] \in Nat /\ failures[t] \in Nat /\ Cardinality(Waiting(t)) \in Nat
    BY <1>6, StoresNow, Finite DEF CountsOK
  <2>5. Slack(m) \in {0, 1}
    BY DEF Slack
  <2>6. Cardinality(Waiting(t)') = Cardinality(Waiting(t)) /\ effects'[t] = effects[t]
    BY <1>4, <1>15
  <2>7. failures[t] + Slack(m) <= failures'[t] + (IF task'[t].state = "done" THEN 1 ELSE 0)
    BY <1>10, <1>13, <2>4, <2>5
  <2>8. failures'[t] \in Nat
    BY <1>13, <2>4
  <2> QED BY <2>1, <2>3, <2>4, <2>5, <2>6, <2>7, <2>8
<1> QED BY <1>1, <1>2, <1>4, <1>6, <1>14, <1>16, <1>17, <1>18, RunMoves

LEMMA RunsStay ==
  ASSUME RunsOK, grants \in Seq(Grants), grants' \in Seq(Grants), Len(grants) <= Len(grants'),
         UNCHANGED run
  PROVE  RunsOK'
<1>1. 0..Len(grants) \subseteq 0..Len(grants')
  <2>1. Len(grants) \in Nat /\ Len(grants') \in Nat
    OBVIOUS
  <2> QED BY <2>1
<1>2. ASSUME NEW m, RunOK(m) PROVE RunOK(m)'
  BY <1>1, <1>2 DEF RunOK
<1>3. ASSUME NEW s \in Run PROVE RunOK(run[s])'
  <2>1. PICK m : m = run[s]
    OBVIOUS
  <2>2. run'[s] = m /\ RunOK(m)
    BY <2>1 DEF RunsOK
  <2>3. RunOK(m)'
    BY <1>2, <2>2
  <2> QED BY <2>2, <2>3 DEF RunOK
<1> QED BY <1>3 DEF RunsOK

LEMMA HoldingStays ==
  ASSUME RunsOK, UNCHANGED run, \A u \in Task : task'[u].root = task[u].root
  PROVE  Holding' = Holding
<1>1. \A s \in Run : run[s] # Idle => run[s].task \in Task
  BY RunFacts
<1> QED BY <1>1 DEF Holding

\* A request is decided: its task may be moved, but not to done.
LEMMA DecideStep ==
  ASSUME TInv, NEW i \in 1..Len(grants), grants[i].status = "pending", NEW x \in {"approved", "denied"},
         grants' = [grants EXCEPT ![i].status = x], NEW t, t = grants[i].task,
         NEW s \in Ends \cup {"planned"}, NEW y \in 0..Len(grants'), TaskSet(t, s, y),
         s = "done" => task[t].state = "done",
         UNCHANGED <<artifact, observation, memory, run, doneBy, overlap, effects, failures, commands>>
  PROVE  TInv'
<1>1. /\ grants' \in Seq(Grants) /\ Len(grants') = Len(grants)
      /\ grants'[i].task = grants[i].task /\ grants'[i].status = x
      /\ \A j \in 1..Len(grants) : j # i => grants'[j] = grants[j]
  BY StoresNow, Decided
<1>2. t \in Task /\ Len(grants) <= Len(grants')
  <2>1. grants[i] \in Grants
    BY StoresNow
  <2>2. Len(grants) \in Nat
    BY StoresNow
  <2> QED BY <1>1, <2>1, <2>2 DEF Grants
<1>3. TasksOK' /\ task'[t].state = s /\ \A u \in Task : task'[u].root = task[u].root
  BY <1>1, <1>2, StoresNow, TaskSetOK
<1>4. Stores'
  <2>1. RunsOK'
    BY <1>1, <1>2, StoresNow, RunsStay
  <2>2. OutputOK' /\ CountsOK'
    BY StoresNow DEF OutputOK, CountsOK
  <2> QED BY <1>1, <1>3, <2>1, <2>2 DEF Stores
<1>5. Consumed' = Consumed
  BY <1>1 DEF Consumed
<1>6. Spent'
  BY <1>3, <1>5, StoresNow, HoldingStays DEF TInv, Spent
<1>7. \A u \in Task : u # t => Waiting(u)' = Waiting(u)
  BY <1>1 DEF Waiting
<1>8. Waiting(t)' = Waiting(t) \ {i} /\ i \in Waiting(t)
  BY <1>1 DEF Waiting
<1>9. Cardinality(Waiting(t)') = Cardinality(Waiting(t)) - 1
  BY <1>8, StoresNow, Finite, FS_RemoveElement
<1>10. \A u : Busy(u)' = Busy(u)
  BY DEF Busy
<1>11. ASSUME NEW u \in Task \ overlap PROVE Single(u)' /\ Backed(u)'
  <2>1. Single(u) /\ Backed(u)
    BY <1>11 DEF TInv
  <2>2. CASE u # t
    <3>1. Untouched(u)
      BY <1>7, <2>2 DEF Untouched, TaskSet
    <3> QED BY <1>10, <2>1, <3>1, StoresNow, OthersKept
  <2>3. CASE u = t
    <3>1. ASSUME NEW r \in Busy(t) PROVE Made1(run[r])'
      <4>1. Made1(run[r])
        BY <2>1, <2>3 DEF Single
      <4> QED BY <4>1 DEF Made1
    <3>2. Complete(t)' <=> Complete(t)
      BY DEF Complete
    <3>3. Single(t)'
      BY <1>3, <1>10, <2>1, <2>3, <3>1, <3>2 DEF Single
    <3>4. effects[t] \in Nat /\ failures[t] \in Nat /\ Cardinality(Waiting(t)) \in Nat
      BY <1>2, StoresNow, Finite DEF CountsOK
    <3>5. PICK a \in {0, 1} : a = IF Acted(t) THEN 1 ELSE 0
      OBVIOUS
    <3>6. effects[t] + Cardinality(Waiting(t)) <= failures[t] + a
      BY <2>1, <2>3, <3>5 DEF Backed
    <3>7. effects[t] + (Cardinality(Waiting(t)) - 1) <= failures[t] + (IF Acted(t)' THEN 1 ELSE 0)
      BY <3>4, <3>5, <3>6
    <3>8. Backed(t)'
      BY <1>9, <3>7 DEF Backed
    <3> QED BY <2>3, <3>3, <3>8
  <2> QED BY <2>2, <2>3
<1> QED BY <1>4, <1>6, <1>11 DEF TInv

LEMMA ApproveOrDenyStep ==
  ASSUME TInv, NEW i, Approve(i) \/ Deny(i)
  PROVE  TInv'
<1>1. /\ i \in DOMAIN grants /\ grants[i].status = "pending"
      /\ UNCHANGED <<artifact, observation, memory, run, doneBy, overlap, effects, failures, commands>>
  BY Zenon DEF Approve, Deny, ledgers
<1>2. PICK t : t = grants[i].task
  OBVIOUS
<1>3. i \in 1..Len(grants) /\ Len(grants) \in Nat
  BY <1>1, StoresNow
<1>4. t \in Task
  <2>1. grants[i] \in Grants
    BY <1>3, StoresNow
  <2> QED BY <1>2, <2>1 DEF Grants
<1>5. ASSUME NEW x \in {"approved", "denied"}, grants' = [grants EXCEPT ![i].status = x]
      PROVE  Len(grants') = Len(grants)
  BY <1>3, <1>5, StoresNow, Decided
<1>6. "planned" \in Ends \cup {"planned"} /\ "blocked" \in Ends \cup {"planned"}
  BY DEF Ends
<1>7. CASE Approve(i)
  <2>1. /\ grants' = [grants EXCEPT ![i].status = "approved"]
        /\ task' = IF task[t].state = "done" THEN task
                   ELSE [task EXCEPT ![t].state = "planned", ![t].approval = i]
    BY <1>2, <1>7, Zenon DEF Approve
  <2>2. Len(grants') = Len(grants)
    BY <1>5, <2>1
  <2>3. CASE task[t].state = "done"
    <3>1. TaskOK(task[t]) /\ task' = task /\ task = [u \in Task |-> task[u]]
      BY <1>4, <2>1, <2>3, StoresNow DEF TasksOK
    <3>2. TaskSet(t, task[t].state, task[t].approval)
      BY <3>1 DEF TaskSet, TaskOK
    <3>3. task[t].state \in Ends \cup {"planned"} /\ task[t].approval \in 0..Len(grants')
      BY <2>2, <3>1 DEF TaskOK
    <3> QED BY <1>1, <1>2, <1>3, <2>1, <3>2, <3>3, DecideStep
  <2>4. CASE task[t].state # "done"
    <3>1. TaskSet(t, "planned", i)
      BY <1>4, <2>1, <2>4, StoresNow, TaskSetIs
    <3>2. i \in 0..Len(grants')
      BY <1>3, <2>2
    <3> QED BY <1>1, <1>2, <1>3, <1>6, <2>1, <3>1, <3>2, DecideStep
  <2> QED BY <2>3, <2>4
<1>8. CASE Deny(i)
  <2>1. /\ grants' = [grants EXCEPT ![i].status = "denied"]
        /\ task' = [task EXCEPT ![t].state = "blocked", ![t].approval = i]
    BY <1>2, <1>8, Zenon DEF Deny
  <2>2. Len(grants') = Len(grants)
    BY <1>5, <2>1
  <2>3. TaskSet(t, "blocked", i)
    BY <1>4, <2>1, StoresNow, TaskSetIs
  <2>4. i \in 0..Len(grants')
    BY <1>3, <2>2
  <2> QED BY <1>1, <1>2, <1>3, <1>6, <2>1, <2>3, <2>4, DecideStep
<1> QED BY <1>7, <1>8

\* A call that only moves a task, not to done; one that was done counts then
\* as a run that failed.
LEMMA HandStep ==
  ASSUME TInv, NEW t \in Task, NEW x \in {"planned", "failed"},
         task' = [task EXCEPT ![t].state = x],
         failures' = IF task[t].state = "done" THEN [failures EXCEPT ![t] = @ + 1] ELSE failures,
         UNCHANGED <<artifact, observation, memory, grants, run, doneBy, overlap, effects, commands>>
  PROVE  TInv'
<1>1. x \in Ends \cup {"planned"} /\ x # "done"
  BY DEF Ends
<1>2. TaskSet(t, x, task[t].approval)
  BY StoresNow, TaskSetOne
<1>3. Len(grants) <= Len(grants') /\ grants' \in Seq(Grants) /\ task[t].approval \in 0..Len(grants')
  BY <1>1, StoresNow DEF TasksOK, TaskOK
<1>4. TasksOK' /\ task'[t].state = x /\ \A u \in Task : task'[u].root = task[u].root
  BY <1>1, <1>2, <1>3, StoresNow, TaskSetOK
<1>5. /\ effects \in [Task -> Nat] /\ failures \in [Task -> Nat] /\ commands \in Nat
      /\ doneBy = [u \in Task |-> doneBy[u]] /\ failures' \in [Task -> Nat]
      /\ \A u \in Task : u # t => failures'[u] = failures[u]
      /\ failures'[t] = failures[t] + (IF task[t].state = "done" THEN 1 ELSE 0)
  BY StoresNow DEF CountsOK
<1>6. Stores'
  <2>1. RunsOK'
    BY <1>1, <1>3, StoresNow, RunsStay
  <2>2. OutputOK'
    BY StoresNow DEF OutputOK
  <2>3. CountsOK'
    BY <1>5 DEF CountsOK
  <2> QED BY <1>3, <1>4, <2>1, <2>2, <2>3 DEF Stores
<1>7. (\A u : Waiting(u)' = Waiting(u) /\ Busy(u)' = Busy(u)) /\ Consumed' = Consumed
  BY <1>1 DEF Waiting, Consumed, Busy
<1>8. Spent'
  BY <1>1, <1>4, <1>7, StoresNow, HoldingStays DEF TInv, Spent
<1>9. ASSUME NEW u \in Task \ overlap PROVE Single(u)' /\ Backed(u)'
  <2>1. Single(u) /\ Backed(u)
    BY <1>9 DEF TInv
  <2>2. CASE u # t
    <3>1. Untouched(u)
      BY <1>1, <1>2, <1>7, <2>2 DEF Untouched, TaskSet
    <3> QED BY <1>1, <1>7, <2>1, <3>1, StoresNow, OthersKept
  <2>3. CASE u = t
    <3>1. ASSUME NEW r \in Busy(t) PROVE Made1(run[r])'
      <4>1. Made1(run[r])
        BY <2>1, <2>3 DEF Single
      <4> QED BY <1>1, <4>1 DEF Made1
    <3>2. Single(t)'
      BY <1>4, <1>7, <2>1, <2>3, <3>1 DEF Single
    <3>3. ASSUME task[t].state = "done" PROVE Backed(t)'
      <4>1. Busy(t) = {} /\ Acted(t) /\ ~Acted(t)'
        BY <1>1, <1>4, <1>7, <2>1, <2>3, <3>3 DEF Single, Acted
      <4>2. effects[t] + Cardinality(Waiting(t)) <= failures[t] + 1
        BY <2>1, <2>3, <4>1 DEF Backed
      <4>3. failures'[t] = failures[t] + 1 /\ failures[t] \in Nat /\ effects'[t] = effects[t]
            /\ Cardinality(Waiting(t)') = Cardinality(Waiting(t))
        BY <1>5, <1>7, <3>3
      <4>4. effects'[t] + Cardinality(Waiting(t)') <= failures'[t] + 0
        BY <4>2, <4>3
      <4>5. effects'[t] + Cardinality(Waiting(t)') <= failures'[t] + (IF Acted(t)' THEN 1 ELSE 0)
        BY <4>1, <4>4, Zenon
      <4> QED BY <4>5 DEF Backed
    <3>4. ASSUME task[t].state # "done" PROVE Backed(t)'
      <4>1. (Acted(t)' <=> Acted(t)) /\ failures'[t] = failures[t]
        BY <1>1, <1>4, <1>7, <1>5, <2>1, <2>3, <3>4, StoresNow DEF Acted, CountsOK
      <4>2. effects[t] + Cardinality(Waiting(t)) <= failures[t] + (IF Acted(t) THEN 1 ELSE 0)
        BY <2>1, <2>3 DEF Backed
      <4>3. effects'[t] + Cardinality(Waiting(t)') <= failures'[t] + (IF Acted(t)' THEN 1 ELSE 0)
        BY <1>7, <4>1, <4>2, Zenon
      <4> QED BY <4>3 DEF Backed
    <3> QED BY <2>3, <3>2, <3>3, <3>4
  <2> QED BY <2>2, <2>3
<1> QED BY <1>6, <1>8, <1>9 DEF TInv

LEMMA CallStep ==
  ASSUME TInv, NEW t \in Task, RunRefused(t) \/ ApproveTask(t) \/ DenyTask(t)
  PROVE  TInv'
<1>1. CASE RunRefused(t) \/ ApproveTask(t)
  <2>1. /\ task[t].state # "done" /\ task' = [task EXCEPT ![t].state = "planned"]
        /\ failures' = failures
        /\ UNCHANGED <<artifact, observation, memory, grants, run, doneBy, overlap, effects, commands>>
    BY <1>1 DEF RunRefused, ApproveTask, ledgers
  <2>2. failures' = IF task[t].state = "done" THEN [failures EXCEPT ![t] = @ + 1] ELSE failures
    BY <2>1
  <2> QED BY <2>1, <2>2, HandStep
<1>2. CASE DenyTask(t)
  <2>1. /\ task' = [task EXCEPT ![t].state = "failed"]
        /\ failures' = IF task[t].state = "done" THEN [failures EXCEPT ![t] = @ + 1] ELSE failures
        /\ UNCHANGED <<artifact, observation, memory, grants, run, doneBy, overlap, effects, commands>>
    BY <1>2, Zenon DEF DenyTask
  <2> QED BY <2>1, HandStep
<1> QED BY <1>1, <1>2

LEMMA ResolvedKnown ==
  ASSUME RInv, NEW s, NEW h \in Resolve(reg, s)
  PROVE  h \in Known \cup {External}
<1>1. PICK n : n \in DOMAIN reg /\ h = reg[n].handler
  BY DEF Resolve, Resolves
<1>2. h \in Range(Builtin) \cup {External}
  BY <1>1, RegNow DEF IsReg, IsDef
<1> QED BY <1>2, KnownFacts

LEMMA RunTaskStep ==
  ASSUME RInv, TInv, NEW r \in Run, NEW t \in Task, RunTask(r, t)
  PROVE  TInv'
<1>1. /\ run[r] = Idle /\ task[t].state \in {"planned", "blocked", "failed"}
      /\ task' = [task EXCEPT ![t].state = "planned"]
      /\ overlap' = IF Busy(t) = {} THEN overlap ELSE overlap \cup {t}
      /\ UNCHANGED <<artifact, observation, memory, grants, doneBy, effects, failures, commands>>
  BY DEF RunTask
<1>2. PICK h \in Resolve(reg, task[t].skill) :
        Becomes(r, [at |-> "step", task |-> t, handler |-> h, left |-> Handler(h),
                    to |-> "done", approval |-> task[t].approval])
  BY Zenon DEF RunTask
<1>3. StartsWell(h)
  BY ResolvedKnown, HandlerStarts
<1>4. PICK n : n = Going(t, h, Handler(h), "done", task[t].approval)
  OBVIOUS
<1>5. Becomes(r, n)
  BY <1>2, <1>4, Zenon DEF Going
<1>6. n # Idle /\ n.task = t /\ n.handler = h /\ n.left = Handler(h) /\ n.to = "done"
  BY <1>4, GoingFields
<1>7. TaskSet(t, "planned", task[t].approval)
  BY <1>1, StoresNow, TaskSetOne
<1>8. Len(grants) <= Len(grants') /\ grants' \in Seq(Grants) /\ task[t].approval \in 0..Len(grants')
  BY <1>1, StoresNow DEF TasksOK, TaskOK
<1>9. TasksOK' /\ task'[t].state = "planned" /\ \A u \in Task : task'[u].root = task[u].root
  BY <1>7, <1>8, StoresNow, TaskSetOK
<1>10. "done" \in Ends /\ "done" # "awaiting_approval"
  BY DEF Ends
<1>11. RunOK(n)'
  BY <1>3, <1>4, <1>8, <1>10, GoingOK DEF StartsWell
<1>12. Stores'
  <2>1. RunsOK'
    BY <1>5, <1>8, <1>11, StoresNow, RunsMove
  <2>2. OutputOK' /\ CountsOK'
    BY <1>1, StoresNow DEF OutputOK, CountsOK
  <2> QED BY <1>8, <1>9, <2>1, <2>2 DEF Stores
<1>13. (\A u : Waiting(u)' = Waiting(u)) /\ Consumed' = Consumed
  BY <1>1 DEF Waiting, Consumed
<1>14. Spent'
  BY <1>1, <1>3, <1>5, <1>6, <1>9, <1>13, SpentKept DEF StartsWell
<1>15. run'[r] = n /\ \A s \in Run : s # r => run'[s] = run[s]
  BY <1>5, StoresNow, BecomesFacts
<1>16. ASSUME NEW u \in Task \ overlap' PROVE Single(u)' /\ Backed(u)'
  <2>1. u \notin overlap /\ (u = t => Busy(t) = {})
    BY <1>1, <1>16
  <2>2. Single(u) /\ Backed(u)
    BY <1>16, <2>1 DEF TInv
  <2>3. CASE u # t
    <3>1. Untouched(u)
      BY <1>1, <1>7, <1>13, <2>3 DEF Untouched, TaskSet
    <3>2. Busy(u)' = Busy(u) /\ \A s \in Busy(u) : run'[s] = run[s]
      BY <1>1, <1>6, <1>15, <2>3 DEF Busy
    <3> QED BY <2>2, <3>1, <3>2, StoresNow, OthersKept
  <2>4. CASE u = t
    <3>1. Made1(n)'
      BY <1>3, <1>6 DEF Made1, StartsWell
    <3>2. ~Acted(t)
      BY <1>1, <2>1, <2>4 DEF Acted
    <3>3. effects[t] + Cardinality(Waiting(t)) <= failures[t] + 0
      BY <2>2, <2>4, <3>2 DEF Backed
    <3>4. effects[t] \in Nat /\ failures[t] \in Nat /\ Cardinality(Waiting(t)) \in Nat
      BY StoresNow, Finite DEF CountsOK
    <3>5. effects'[t] = effects[t] /\ failures'[t] = failures[t]
          /\ Cardinality(Waiting(t)') = Cardinality(Waiting(t))
      BY <1>1, <1>13
    <3>6. effects'[t] + Cardinality(Waiting(t)')
            <= failures'[t] + (IF task'[t].state = "done" \/ (n # Idle /\ ~Bold(n.left)) THEN 1 ELSE 0)
      BY <3>3, <3>4, <3>5
    <3> QED BY <1>5, <1>6, <1>9, <2>1, <2>4, <3>1, <3>6, StoresNow, OwnMoves
  <2> QED BY <2>3, <2>4
<1> QED BY <1>12, <1>14, <1>16 DEF TInv

\* Steps that leave the tasks and their runs alone.
LEMMA TasksUnchanged ==
  ASSUME TInv, UNCHANGED <<taskVars, ledgers>>
  PROVE  TInv'
<1>1. UNCHANGED <<task, artifact, observation, memory, grants, run, doneBy, overlap, effects, failures, commands>>
  BY Zenon DEF taskVars, ledgers
<1>2. Len(grants) <= Len(grants') /\ grants' \in Seq(Grants)
  BY <1>1, StoresNow
<1>3. Stores'
  <2>1. TasksOK' /\ RunsOK'
    BY <1>1, <1>2, StoresNow, TasksStay, RunsStay
  <2>2. OutputOK' /\ CountsOK'
    BY <1>1, StoresNow DEF OutputOK, CountsOK
  <2> QED BY <1>2, <2>1, <2>2 DEF Stores
<1>4. (\A u : Waiting(u)' = Waiting(u) /\ Busy(u)' = Busy(u)) /\ Consumed' = Consumed
  BY <1>1 DEF Waiting, Consumed, Busy
<1>5. Spent'
  BY <1>1, <1>4, StoresNow, HoldingStays DEF TInv, Spent
<1>6. ASSUME NEW u \in Task \ overlap PROVE Single(u)' /\ Backed(u)'
  <2>1. Single(u) /\ Backed(u) /\ Untouched(u)
    BY <1>1, <1>4, <1>6 DEF TInv, Untouched
  <2> QED BY <1>1, <1>4, <2>1, StoresNow, OthersKept
<1> QED BY <1>1, <1>3, <1>5, <1>6 DEF TInv

LEMMA RunStepStep ==
  ASSUME TInv, NEW r \in Run, RunStep(r)
  PROVE  TInv'
<1>1. CASE generateTaskPlan(r) \/ Consolidates(r) \/ CheckInput(r) \/ Execute(r) \/ Connect(r)
  BY <1>1, GenerateStep, ConsolidateStep, InputStep, ExecuteStep, ConnectStep
<1>2. CASE writeArtifact(r) \/ writeObservation(r) \/ upsertCard(r) \/ WriteFails(r)
  BY <1>2, ArtifactStep, ObservationStep, CardStep, WriteFailsStep
<1>3. CASE resolveExternalPaths(r) \/ resolveRootApproval(r) \/ Consume(r) \/ Command(r) \/ MoveTask(r)
  BY <1>3, PathsStep, ApproveStepOK, ConsumeStep, CommandStep, MoveTaskStep
<1> QED BY <1>1, <1>2, <1>3, Zenon DEF RunStep

\* Every run is lost, and counts as one that did not complete its task.
LEMMA CrashStep ==
  ASSUME TInv, Crash
  PROVE  TInv'
<1>1. /\ run' = [r \in Run |-> Idle]
      /\ failures' = [t \in Task |-> failures[t] + Cardinality(Busy(t))]
      /\ UNCHANGED <<task, memory, grants, doneBy, overlap, effects, commands>>
  BY DEF Crash
<1>2. PICK torn \in SUBSET {r \in Run : run[r] # Idle} :
        /\ artifact' = [t \in Task |-> IF \E r \in torn : run[r].task = t /\ At(r, "artifact")
                                       THEN "torn" ELSE artifact[t]]
        /\ observation' = [t \in Task |-> IF \E r \in torn : run[r].task = t /\ At(r, "observation")
                                          THEN "torn" ELSE observation[t]]
  BY Zenon DEF Crash
<1>3. \A t \in Task : Busy(t) = {} => artifact'[t] = artifact[t] /\ observation'[t] = observation[t]
  BY <1>2 DEF Busy
<1>4. OutputOK'
  <2>1. artifact' \in [Task -> {"none", "torn", "whole"}]
    BY <1>2, StoresNow DEF OutputOK
  <2>2. observation' \in [Task -> {"none", "torn", "done", "blocked", "failed"}]
    BY <1>2, StoresNow DEF OutputOK
  <2> QED BY <1>1, <2>1, <2>2, StoresNow DEF OutputOK
<1>5. ASSUME NEW t \in Task PROVE IsFiniteSet(Busy(t)) /\ Cardinality(Busy(t)) \in Nat
  <2>1. Busy(t) \in SUBSET Run
    BY DEF Busy
  <2>2. IsFiniteSet(Busy(t))
    BY <2>1, KnownFacts, FS_Subset
  <2> QED BY <2>2, FS_CardinalityType
<1>6. CountsOK'
  <2>1. failures' \in [Task -> Nat]
    BY <1>1, <1>5, StoresNow DEF CountsOK
  <2> QED BY <1>1, <2>1, StoresNow DEF CountsOK
<1>7. Len(grants) <= Len(grants') /\ grants' \in Seq(Grants)
  BY <1>1, StoresNow
<1>8. RunsOK'
  BY <1>1 DEF RunsOK, RunOK
<1>9. Stores'
  BY <1>1, <1>4, <1>6, <1>7, <1>8, StoresNow, TasksStay DEF Stores
<1>10. (\A u : Waiting(u)' = Waiting(u)) /\ Consumed' = Consumed
  BY <1>1 DEF Waiting, Consumed
<1>11. Spent'
  <2>1. Holding' = {}
    BY <1>1 DEF Holding
  <2>2. Cardinality(Holding') = 0
    BY <2>1, FS_EmptySet
  <2>3. commands \in Nat /\ Cardinality(Holding) \in Nat /\ Cardinality(Consumed) \in Nat
    BY StoresNow, Finite DEF CountsOK
  <2> QED BY <1>1, <1>10, <2>2, <2>3 DEF TInv, Spent
<1>12. ASSUME NEW t \in Task \ overlap PROVE Single(t)' /\ Backed(t)'
  <2>1. Single(t) /\ Backed(t)
    BY <1>12 DEF TInv
  <2>2. Busy(t)' = {}
    BY <1>1 DEF Busy
  <2>3. task[t].state = "done" => Complete(t)'
    BY <1>1, <1>3, <1>12, <2>1 DEF Single, Complete
  <2>4. Single(t)'
    BY <1>1, <2>2, <2>3 DEF Single
  <2>5. Acted(t)' <=> task[t].state = "done"
    BY <1>1, <2>2 DEF Acted
  <2>6. effects[t] \in Nat /\ failures[t] \in Nat /\ Cardinality(Waiting(t)) \in Nat
    BY <1>12, StoresNow, Finite DEF CountsOK
  <2>7. failures'[t] = failures[t] + Cardinality(Busy(t)) /\ Cardinality(Busy(t)) \in Nat
    BY <1>1, <1>5, <1>12
  <2>8. Cardinality(Busy(t)) = 0 => Busy(t) = {}
    BY <1>5, <1>12, FS_EmptySet
  <2>9. effects[t] + Cardinality(Waiting(t)) <= failures'[t] + (IF task[t].state = "done" THEN 1 ELSE 0)
    <3>1. CASE Busy(t) = {}
      <4>1. Acted(t) <=> task[t].state = "done"
        BY <3>1 DEF Acted
      <4>2. effects[t] + Cardinality(Waiting(t)) <= failures[t] + (IF task[t].state = "done" THEN 1 ELSE 0)
        BY <2>1, <4>1 DEF Backed
      <4> QED BY <2>6, <2>7, <4>2
    <3>2. CASE Busy(t) # {}
      <4>1. PICK a \in {0, 1} : a = IF Acted(t) THEN 1 ELSE 0
        OBVIOUS
      <4>2. effects[t] + Cardinality(Waiting(t)) <= failures[t] + a
        BY <2>1, <4>1 DEF Backed
      <4>3. Cardinality(Busy(t)) >= 1
        BY <2>7, <2>8, <3>2
      <4> QED BY <2>6, <2>7, <4>1, <4>2, <4>3
    <3> QED BY <3>1, <3>2
  <2>10. Backed(t)'
    BY <1>1, <1>10, <2>5, <2>9 DEF Backed
  <2> QED BY <2>4, <2>10
<1> QED BY <1>1, <1>9, <1>11, <1>12 DEF TInv

LEMMA TNext ==
  ASSUME RInv, TInv, [Next]_vars
  PROVE  TInv'
<1>1. ASSUME NEW a \in Admin, AdminCall(a) \/ AdminStep(a), UNCHANGED <<taskVars, ledgers>> PROVE TInv'
  BY <1>1, TasksUnchanged
<1>2. ASSUME NEW r \in Run, (\E t \in Task : RunTask(r, t)) \/ RunStep(r) PROVE TInv'
  BY <1>2, RunTaskStep, RunStepStep
<1>3. ASSUME NEW t \in Task, RunRefused(t) \/ ApproveTask(t) \/ DenyTask(t) PROVE TInv'
  BY <1>3, CallStep
<1>4. ASSUME NEW i \in 1..MaxCalls, Approve(i) \/ Deny(i) PROVE TInv'
  BY <1>4, ApproveOrDenyStep
<1>5. ASSUME Crash PROVE TInv'
  BY <1>5, CrashStep
<1>6. ASSUME UNCHANGED vars PROVE TInv'
  <2>1. UNCHANGED <<taskVars, ledgers>>
    BY <1>6, Zenon DEF vars
  <2> QED BY <2>1, TasksUnchanged
<1> QED BY <1>1, <1>2, <1>3, <1>4, <1>5, <1>6, Zenon DEF Next

-----------------------------------------------------------------------------
(***************************************************************************)
(* The start, and what the tasks' invariant gives                          *)
(***************************************************************************)

\* A finite set as a sequence: every element is there, and nothing else.
LEMMA AsSequence ==
  ASSUME NEW S, IsFiniteSet(S), NEW f, f = SetToSeq(S)
  PROVE  f \in Seq(S) /\ \A x \in S : \E i \in 1..Len(f) : f[i] = x
<1>1. PICK n \in Nat : n = Cardinality(S) /\ IsFiniteSet(S)
  BY FS_CardinalityType
<1>2. PICK g : g \in Bijection(1..n, S)
  BY <1>1, FS_CardinalityType DEF ExistsBijection
<1>3. g \in [1..n -> S] /\ IsInjective(g)
  BY <1>2 DEF Bijection, Injection, IsInjective
<1>4. f = CHOOSE h \in [1..n -> S] : IsInjective(h)
  BY <1>1, Zenon DEF SetToSeq
<1>5. f \in [1..n -> S] /\ IsInjective(f)
  BY <1>3, <1>4, Zenon
<1>6. f \in Injection(1..n, S)
  BY <1>5, Zenon DEF Injection
<1>7. Cardinality(1..n) = n
  BY FS_Interval
<1>8. f \in Surjection(1..n, S)
  BY <1>1, <1>6, <1>7, FS_Injection
<1>9. f \in Seq(S) /\ Len(f) = n
  BY <1>5
<1> QED BY <1>8, <1>9 DEF Surjection

LEMMA TasksStart ==
  ASSUME Init
  PROVE  TInv
<1>1. PICK kind \in [Task -> Kinds], waited \in BOOLEAN :
        LET first == IF waited THEN {t \in Task : kind[t].root} ELSE {}
        IN  /\ grants = SetToSeq({[task |-> t, status |-> "approved"] : t \in first})
            /\ task = [t \in Task |->
                         [skill |-> kind[t].skill, root |-> kind[t].root, given |-> kind[t].given,
                          state |-> "planned",
                          approval |-> IF t \in first
                                       THEN CHOOSE i \in DOMAIN grants : grants[i].task = t ELSE 0]]
  BY DEF Init
<1>2. PICK first : first = IF waited THEN {t \in Task : kind[t].root} ELSE {}
  OBVIOUS
<1>3. PICK S : S = {[task |-> t, status |-> "approved"] : t \in first}
  OBVIOUS
<1>4. grants = SetToSeq(S)
  BY <1>1, <1>2, <1>3, Zenon
<1>5. task = [t \in Task |->
                [skill |-> kind[t].skill, root |-> kind[t].root, given |-> kind[t].given,
                 state |-> "planned",
                 approval |-> IF t \in first THEN CHOOSE i \in DOMAIN grants : grants[i].task = t ELSE 0]]
  BY <1>1, <1>2, Zenon
<1>6. first \in SUBSET Task /\ IsFiniteSet(first)
  <2>1. first \in SUBSET Task
    BY <1>2
  <2> QED BY <2>1, KnownFacts, FS_Subset
<1>7. IsFiniteSet(S)
  <2>1. PICK f : f = [t \in first |-> [task |-> t, status |-> "approved"]]
    OBVIOUS
  <2>2. f \in Surjection(first, S)
    BY <1>3, <2>1 DEF Surjection
  <2> QED BY <1>6, <2>2, FS_Surjection
<1>8. grants \in Seq(S) /\ \A x \in S : \E i \in 1..Len(grants) : grants[i] = x
  BY <1>4, <1>7, AsSequence
<1>9. \A x \in S : x \in Grants /\ x.status = "approved"
  BY <1>3, <1>6 DEF Grants
<1>10. /\ grants \in Seq(Grants) /\ DOMAIN grants = 1..Len(grants) /\ Len(grants) \in Nat
       /\ \A i \in 1..Len(grants) : grants[i].status = "approved"
  BY <1>8, <1>9
<1>11. ASSUME NEW t \in Task PROVE TaskOK(task[t]) /\ task[t].state = "planned"
  <2>1. PICK a : a = IF t \in first THEN CHOOSE i \in DOMAIN grants : grants[i].task = t ELSE 0
    OBVIOUS
  <2>2. a \in 0..Len(grants)
    <3>1. CASE t \notin first
      BY <1>10, <2>1, <3>1
    <3>2. CASE t \in first
      <4>1. PICK x : x = [task |-> t, status |-> "approved"]
        OBVIOUS
      <4>2. x \in S /\ x.task = t
        BY <1>3, <3>2, <4>1
      <4>3. \E i \in DOMAIN grants : grants[i].task = t
        BY <1>8, <1>10, <4>2
      <4>4. a = CHOOSE i \in DOMAIN grants : grants[i].task = t
        BY <2>1, <3>2
      <4>5. a \in DOMAIN grants
        BY <4>3, <4>4, Zenon
      <4> QED BY <1>10, <4>5
    <3> QED BY <3>1, <3>2
  <2>3. PICK k : k = task[t]
    OBVIOUS
  <2>4. k = [skill |-> kind[t].skill, root |-> kind[t].root, given |-> kind[t].given,
             state |-> "planned", approval |-> a]
    BY <1>5, <2>1, <2>3, Zenon
  <2>5. kind[t].root \in BOOLEAN /\ kind[t].given \in BOOLEAN
    BY KnownFacts
  <2>6. k.skill = kind[t].skill /\ k.root = kind[t].root /\ k.given = kind[t].given
        /\ k.state = "planned" /\ k.approval = a
    BY <2>4
  <2>7. TaskOK(k)
    BY <2>2, <2>4, <2>5, <2>6 DEF TaskOK
  <2> QED BY <2>3, <2>6, <2>7
<1>12. TasksOK
  <2>1. task = [t \in Task |-> task[t]]
    BY <1>5
  <2> QED BY <1>11, <2>1 DEF TasksOK
<1>13. /\ run = [r \in Run |-> Idle] /\ overlap = {} /\ commands = 0
       /\ effects = [t \in Task |-> 0] /\ failures = [t \in Task |-> 0]
       /\ artifact = [t \in Task |-> "none"] /\ observation = [t \in Task |-> "none"]
       /\ memory = [t \in Task |-> {}] /\ doneBy = [t \in Task |-> "none"]
  BY DEF Init
<1>14. RunsOK
  BY <1>13 DEF RunsOK, RunOK
<1>15. OutputOK /\ CountsOK
  BY <1>13 DEF OutputOK, CountsOK
<1>16. Stores
  BY <1>10, <1>12, <1>14, <1>15 DEF Stores
<1>17. Holding = {} /\ \A t : Busy(t) = {}
  BY <1>13 DEF Holding, Busy
<1>18. \A t : Waiting(t) = {}
  BY <1>10 DEF Waiting
<1>19. Spent
  <2>1. Cardinality(Holding) = 0
    BY <1>17, FS_EmptySet
  <2>2. Cardinality(Consumed) \in Nat
    BY <1>10, Finite
  <2> QED BY <1>13, <2>1, <2>2 DEF Spent
<1>20. ASSUME NEW t \in Task PROVE Single(t) /\ Backed(t)
  <2>1. Single(t)
    BY <1>11, <1>17 DEF Single
  <2>2. Cardinality(Waiting(t)) = 0
    BY <1>18, FS_EmptySet
  <2>3. effects[t] = 0 /\ failures[t] = 0
    BY <1>13
  <2> QED BY <2>1, <2>2, <2>3 DEF Backed
<1> QED BY <1>16, <1>19, <1>20 DEF TInv

LEMMA DoneCompleteIs ==
  ASSUME TInv
  PROVE  DoneComplete
BY DEF TInv, Single, Complete, DoneComplete

LEMMA ActsBoundedIs ==
  ASSUME RInv, TInv
  PROVE  ActsBounded
<1>1. RegistryTypeOK
  BY RegistryHonestIs DEF RegistryHonest
<1>2. TypeOK
  <2>1. ASSUME NEW t \in Task
        PROVE  /\ task[t].state \in {"planned", "awaiting_approval", "blocked", "failed", "done"}
               /\ task[t].approval \in 0..Len(grants)
    BY StoresNow DEF TasksOK, TaskOK, Ends
  <2>2. ASSUME NEW t \in Task
        PROVE  /\ artifact[t] \in {"none", "torn", "whole"}
               /\ observation[t] \in {"none", "torn", "done", "blocked", "failed"}
               /\ memory[t] \subseteq MemoryOf("web-search") \cup MemoryOf("github-issue-search")
                                        \cup MemoryOf("email-inbox")
    BY StoresNow DEF OutputOK
  <2>3. ASSUME NEW r \in Run, run[r] # Idle
        PROVE  run[r].task \in Task /\ run[r].approval \in 0..Len(grants)
    BY <2>3, StoresNow, RunFacts
  <2> QED BY <1>1, <2>1, <2>2, <2>3 DEF TypeOK
<1>3. ActsOncePerRun
  <2> SUFFICES ASSUME NEW t \in Task \ overlap PROVE effects[t] <= failures[t] + 1
    BY DEF ActsOncePerRun
  <2>1. effects[t] \in Nat /\ failures[t] \in Nat /\ Cardinality(Waiting(t)) \in Nat
    BY StoresNow, Finite DEF CountsOK
  <2>2. effects[t] + Cardinality(Waiting(t)) <= failures[t] + (IF Acted(t) THEN 1 ELSE 0)
    BY DEF TInv, Backed
  <2> QED BY <2>1, <2>2
<1>4. OneCommandPerGrant
  <2>1. DOMAIN grants = 1..Len(grants)
    BY StoresNow
  <2>2. Consumed = {i \in DOMAIN grants : grants[i].status = "consumed"}
    BY <2>1 DEF Consumed
  <2>3. commands \in Nat /\ Cardinality(Holding) \in Nat /\ Cardinality(Consumed) \in Nat
    BY StoresNow, Finite DEF CountsOK
  <2>4. commands <= Cardinality(Consumed)
    BY <2>3 DEF TInv, Spent
  <2> QED BY <2>2, <2>4 DEF OneCommandPerGrant
<1> QED BY <1>2, <1>3, <1>4 DEF ActsBounded

\* A task that no two runs worked on at once and that is done has everything
\* its handler makes, whole, however many of its runs ended in a failed write
\* or a crash: writeArtifact, writeObservation and upsertCard come before the
\* move to done (finalizeSuccessfulTask), and a run that is repeated writes
\* everything again.
THEOREM DoneCompleteHolds == Spec => []DoneComplete
<1>1. Init => RInv /\ TInv
  BY RegistryStarts, TasksStart DEF Init
<1>2. RInv /\ TInv /\ [Next]_vars => RInv' /\ TInv'
  BY RegistryNext, TNext
<1>3. TInv => DoneComplete
  BY DoneCompleteIs
<1> QED BY <1>1, <1>2, <1>3, PTL DEF Spec

\* A task is acted for at most once more than its runs failed, unless two of
\* them overlapped, and the external commands of root tasks are never more
\* than the approvals consumed for them, whatever runs race for a token
\* (Execute, externalHandler with Consume before the command); all of it over
\* states of the right types.
THEOREM ActsBoundedHolds == Spec => []ActsBounded
<1>1. Init => RInv /\ TInv
  BY RegistryStarts, TasksStart DEF Init
<1>2. RInv /\ TInv /\ [Next]_vars => RInv' /\ TInv'
  BY RegistryNext, TNext
<1>3. RInv /\ TInv => ActsBounded
  BY ActsBoundedIs
<1> QED BY <1>1, <1>2, <1>3, PTL DEF Spec
=============================================================================
