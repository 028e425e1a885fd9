---------------------------- MODULE HarnessProofs ----------------------------
(***************************************************************************)
(* Proofs about the regression harness (HarnessBaseline), a part of        *)
(* Console: what a check and a rollup report is what the runs showed.      *)
(*                                                                         *)
(* The invariant HInv says where every file lies and what each report on   *)
(* disk, under way, about to be saved or saved holds.  It is enough for    *)
(* both reports: a check compares a run with the baseline of its slug,     *)
(* which keeps what the ledger says the saved run showed (Remembered), and *)
(* a rollup passes once over the runs in the order they started, which is  *)
(* that of the seconds they started in (RunsKept).                         *)
(***************************************************************************)
EXTENDS ConsoleProofs

\* Where the files of runs and of baselines are; a report that was located has
\* its paths below the directory once more when the root is relative.
RunFile(d, x) == d \o <<"runtime", x>>
BaseFile(g, x) == BaseDir(g) \o <<"artifacts", x>>
FilePath(d, x, deep) == IF deep THEN d \o RunFile(d, x) ELSE RunFile(d, x)
RunDirOf(d) == \E a \in ToSet(Seconds), b \in Range(slugify) : d = Root \o <<a, b>>

StepForm(st) == st = [id |-> st.id, outcome |-> st.outcome, files |-> st.files]
Fields(r, ss) ==
  [name |-> r.name, tags |-> r.tags, lane |-> r.lane, dir |-> r.dir, second |-> r.second,
   started |-> r.started, passed |-> r.passed, error |-> r.error, steps |-> ss,
   asserts |-> r.asserts]
ReportForm(r) ==
  /\ r = Fields(r, r.steps)
  /\ r.steps \in Seq(ToSet(r.steps)) /\ r.asserts \in Seq(ToSet(r.asserts))
  /\ \A i \in DOMAIN r.steps : StepForm(r.steps[i])
  /\ \A i \in DOMAIN r.asserts :
       r.asserts[i].passed \in BOOLEAN /\ r.asserts[i].root \in {<<>>, r.dir}

\* A report whose files are where they were written (deep: where a report
\* below a relative root is taken to say they are).
Report(r, deep) ==
  /\ ReportForm(r)
  /\ \E s \in ToSet(ScenarioList) : r.name = s.name
  /\ RunDirOf(r.dir)
  /\ r.started \in Nat /\ r.second \in Nat
  /\ r.passed \in BOOLEAN /\ r.error \in BOOLEAN
  /\ \A i \in DOMAIN r.steps :
       r.steps[i].files \in {<<>>, <<FilePath(r.dir, r.steps[i].id, deep)>>}
OnDisk(r, D) ==
  \A i \in DOMAIN r.steps : \A j \in DOMAIN r.steps[i].files : r.steps[i].files[j] \in D
Judged(r) == r.passed <=> ~r.error /\ \A i \in DOMAIN r.asserts : r.asserts[i].passed

\* Two reports of one run, apart from the paths.
SameRun(q, r) ==
  /\ q.name = r.name /\ q.passed = r.passed /\ q.asserts = r.asserts /\ q.dir = r.dir
  /\ DOMAIN q.steps = DOMAIN r.steps
  /\ \A i \in DOMAIN q.steps :
       /\ q.steps[i].id = r.steps[i].id /\ q.steps[i].outcome = r.steps[i].outcome
       /\ (q.steps[i].files = <<>>) <=> (r.steps[i].files = <<>>)

Counters ==
  /\ absolute \in BOOLEAN /\ second \in 1..Len(Seconds)
  /\ runCount \in 0..MaxRuns /\ harnessFaults \in 0..MaxHarnessFaults
  /\ queue \in Seq(ToSet(ScenarioList))
  /\ DOMAIN base \cup DOMAIN truth \cup doubtful \subseteq Range(slugify)

\* Below a relative root there are only files of runs.
PlacedIn(D) == \A p \in D : Len(p) = 5 /\ p[1] = "runs" /\ p[4] = "runtime"
FilesPlaced == ~absolute => PlacedIn(DOMAIN disk)

RunsKept ==
  /\ \A d \in DOMAIN dirs : RunDirOf(d)
  /\ \A d \in DOMAIN dirs : dirs[d] # NoReport =>
       /\ Report(dirs[d], FALSE) /\ dirs[d].dir = d /\ OnDisk(dirs[d], DOMAIN disk)
       /\ Judged(dirs[d]) /\ dirs[d].started \in 1..runCount /\ dirs[d].second \in 1..second
  /\ \A d, e \in DOMAIN dirs : dirs[d] # NoReport /\ dirs[e] # NoReport =>
       /\ dirs[d].started = dirs[e].started => d = e
       /\ dirs[d].started < dirs[e].started => dirs[d].second <= dirs[e].second

UnderWay ==
  running # NoReport =>
    /\ queue # <<>> /\ saving = <<>> /\ running.name = Head(queue).name
    /\ Report(running, FALSE) /\ OnDisk(running, DOMAIN disk) /\ running.dir \in DOMAIN dirs
    /\ running.started = runCount /\ runCount # 0 /\ running.second = second
    /\ running.passed = FALSE /\ running.error = FALSE /\ running.asserts = <<>>
    /\ \A d \in DOMAIN dirs : dirs[d] # NoReport => dirs[d].started < runCount

SavesKept ==
  /\ saving \in Seq(ToSet(saving))
  /\ saving # <<>> => queue = <<>> /\ running = NoReport
  /\ \A i \in DOMAIN saving :
       /\ Report(saving[i], ~absolute)
       /\ saving[i].dir \in DOMAIN dirs =>
            dirs[saving[i].dir] # NoReport /\ SameRun(dirs[saving[i].dir], saving[i])
  /\ copied # NoReport => /\ saving # <<>> /\ copied.name = Head(saving).name
                          /\ slugify[copied.name] \in DOMAIN truth \cup doubtful

\* The baseline b of slug g keeps what t says the saved run showed.
Held(st, ts, g, d) ==
  /\ ts = <<st.id, st.outcome, ts[3]>>
  /\ \/ st.files = <<>> /\ ts[3] = <<>>
     \/ /\ absolute /\ st.files = <<snapshotPath(st)>> /\ BaseFile(g, st.id) \in DOMAIN disk
        /\ ts[3] = <<normalizeArtifactContent(disk[BaseFile(g, st.id)])>>
     \/ /\ ~absolute /\ st.files = <<FilePath(d, st.id, TRUE)>> /\ ts[3] = <<ts[3][1]>>
Judgement(v) == <<v.kind, v.step, v.passed, v.details>>
Kept(b, g, t) ==
  /\ ReportForm(b) /\ RunDirOf(b.dir)
  /\ t = [name |-> b.name, passed |-> b.passed, steps |-> t.steps,
          asserts |-> [i \in DOMAIN b.asserts |-> Judgement(b.asserts[i])]]
  /\ t.steps = [i \in DOMAIN b.steps |-> t.steps[i]]
  /\ \A i \in DOMAIN b.steps : Held(b.steps[i], t.steps[i], g, b.dir)

Copying(g) == copied # NoReport /\ slugify[copied.name] = g
Remembered ==
  /\ \A g \in DOMAIN base : g \in DOMAIN truth \cup doubtful
  /\ \A g \in DOMAIN truth : g \notin doubtful =>
       /\ Copying(g) => Kept(copied, g, truth[g])
       /\ ~Copying(g) => g \in DOMAIN base /\ Kept(base[g], g, truth[g])

HInv == Counters /\ FilesPlaced /\ RunsKept /\ UnderWay /\ SavesKept /\ Remembered

Joins(s, t, u) ==
  /\ Len(u) = Len(s) + Len(t) /\ (\A i \in 1..Len(s) : u[i] = s[i])
  /\ \A i \in 1..Len(t) : u[Len(s) + i] = t[i]

LEMMA JoinIs ==
  ASSUME NEW X, NEW s \in Seq(X), NEW t \in Seq(X), NEW u \in Seq(X), Joins(s, t, u)
  PROVE  s \o t = u
<1>1. PICK v : v = s \o t
  OBVIOUS
<1>2. v \in Seq(X) /\ Len(v) = Len(s) + Len(t)
  BY <1>1
<1>3. ASSUME NEW i \in 1..Len(v) PROVE v[i] = u[i]
  <2>1. CASE i \in 1..Len(s)
    <3>1. v[i] = s[i]
      BY <1>1, <2>1
    <3> QED BY <2>1, <3>1 DEF Joins
  <2>2. CASE i \notin 1..Len(s)
    <3>1. PICK k \in 1..Len(t) : i = Len(s) + k
      <4>1. i - Len(s) \in 1..Len(t) /\ i = Len(s) + (i - Len(s))
        BY <1>2, <2>2
      <4> QED BY <4>1
    <3>2. v[i] = t[k]
      BY <1>1, <3>1
    <3> QED BY <3>1, <3>2 DEF Joins
  <2> QED BY <2>1, <2>2
<1>4. v = u
  <2>1. Len(v) = Len(u)
    BY <1>2 DEF Joins
  <2> QED BY <1>2, <1>3, <2>1, SeqEqual
<1> QED BY <1>1, <1>4

\* Paths of the lengths that occur, put together.
LEMMA JoinOne ==
  ASSUME NEW a, NEW c, NEW d
  PROVE  <<a>> \o <<c, d>> = <<a, c, d>>
<1>1. PICK X : X = {a, c, d}
  OBVIOUS
<1>2. PICK s : s = <<a>>
  OBVIOUS
<1>3. PICK t : t = <<c, d>>
  OBVIOUS
<1>4. PICK u : u = <<a, c, d>>
  OBVIOUS
<1>5. s \in Seq(X) /\ Len(s) = 1 /\ s[1] = a
  BY <1>1, <1>2
<1>6. t \in Seq(X) /\ Len(t) = 2 /\ t[1] = c /\ t[2] = d
  BY <1>1, <1>3
<1>7. u \in Seq(X) /\ Len(u) = 3 /\ u[1] = a /\ u[2] = c /\ u[3] = d
  BY <1>1, <1>4
<1>8. Joins(s, t, u)
  BY <1>5, <1>6, <1>7 DEF Joins
<1>9. s \in Seq(X) /\ t \in Seq(X) /\ u \in Seq(X)
  BY <1>5, <1>6, <1>7
<1>10. s \o t = u
  BY <1>8, <1>9, JoinIs
<1> QED BY <1>2, <1>3, <1>4, <1>10

LEMMA JoinTwo ==
  ASSUME NEW a, NEW b, NEW c, NEW d
  PROVE  <<a, b>> \o <<c, d>> = <<a, b, c, d>>
<1>1. PICK X : X = {a, b, c, d}
  OBVIOUS
<1>2. PICK s : s = <<a, b>>
  OBVIOUS
<1>3. PICK t : t = <<c, d>>
  OBVIOUS
<1>4. PICK u : u = <<a, b, c, d>>
  OBVIOUS
<1>5. s \in Seq(X) /\ Len(s) = 2 /\ s[1] = a /\ s[2] = b
  BY <1>1, <1>2
<1>6. t \in Seq(X) /\ Len(t) = 2 /\ t[1] = c /\ t[2] = d
  BY <1>1, <1>3
<1>7. u \in Seq(X) /\ Len(u) = 4 /\ u[1] = a /\ u[2] = b /\ u[3] = c /\ u[4] = d
  BY <1>1, <1>4
<1>8. Joins(s, t, u)
  BY <1>5, <1>6, <1>7 DEF Joins
<1>9. s \in Seq(X) /\ t \in Seq(X) /\ u \in Seq(X)
  BY <1>5, <1>6, <1>7
<1>10. s \o t = u
  BY <1>8, <1>9, JoinIs
<1> QED BY <1>2, <1>3, <1>4, <1>10

LEMMA JoinThree ==
  ASSUME NEW a, NEW b, NEW c, NEW e, NEW f
  PROVE  <<a, b, c>> \o <<e, f>> = <<a, b, c, e, f>>
<1>1. PICK X : X = {a, b, c, e, f}
  OBVIOUS
<1>2. PICK s : s = <<a, b, c>>
  OBVIOUS
<1>3. PICK t : t = <<e, f>>
  OBVIOUS
<1>4. PICK u : u = <<a, b, c, e, f>>
  OBVIOUS
<1>5. s \in Seq(X) /\ Len(s) = 3 /\ s[1] = a /\ s[2] = b /\ s[3] = c
  BY <1>1, <1>2
<1>6. t \in Seq(X) /\ Len(t) = 2 /\ t[1] = e /\ t[2] = f
  BY <1>1, <1>3
<1>7. u \in Seq(X) /\ Len(u) = 5 /\ u[1] = a /\ u[2] = b /\ u[3] = c /\ u[4] = e /\ u[5] = f
  BY <1>1, <1>4
<1>8. Joins(s, t, u)
  BY <1>5, <1>6, <1>7 DEF Joins
<1>9. s \in Seq(X) /\ t \in Seq(X) /\ u \in Seq(X)
  BY <1>5, <1>6, <1>7
<1>10. s \o t = u
  BY <1>8, <1>9, JoinIs
<1> QED BY <1>2, <1>3, <1>4, <1>10

LEMMA JoinFour ==
  ASSUME NEW a, NEW b, NEW c, NEW d, NEW e, NEW f
  PROVE  <<a, b, c, d>> \o <<e, f>> = <<a, b, c, d, e, f>>
<1>1. PICK X : X = {a, b, c, d, e, f}
  OBVIOUS
<1>2. PICK s : s = <<a, b, c, d>>
  OBVIOUS
<1>3. PICK t : t = <<e, f>>
  OBVIOUS
<1>4. PICK u : u = <<a, b, c, d, e, f>>
  OBVIOUS
<1>5. s \in Seq(X) /\ Len(s) = 4 /\ s[1] = a /\ s[2] = b /\ s[3] = c /\ s[4] = d
  BY <1>1, <1>2
<1>6. t \in Seq(X) /\ Len(t) = 2 /\ t[1] = e /\ t[2] = f
  BY <1>1, <1>3
<1>7. u \in Seq(X) /\ Len(u) = 6 /\ u[1] = a /\ u[2] = b /\ u[3] = c /\ u[4] = d /\ u[5] = e /\ u[6] = f
  BY <1>1, <1>4
<1>8. Joins(s, t, u)
  BY <1>5, <1>6, <1>7 DEF Joins
<1>9. s \in Seq(X) /\ t \in Seq(X) /\ u \in Seq(X)
  BY <1>5, <1>6, <1>7
<1>10. s \o t = u
  BY <1>8, <1>9, JoinIs
<1> QED BY <1>2, <1>3, <1>4, <1>10

LEMMA JoinDeep ==
  ASSUME NEW a, NEW b, NEW c, NEW e, NEW f
  PROVE  <<a, b, c>> \o <<a, b, c, e, f>> = <<a, b, c, a, b, c, e, f>>
<1>1. PICK X : X = {a, b, c, e, f}
  OBVIOUS
<1>2. PICK s : s = <<a, b, c>>
  OBVIOUS
<1>3. PICK t : t = <<a, b, c, e, f>>
  OBVIOUS
<1>4. PICK u : u = <<a, b, c, a, b, c, e, f>>
  OBVIOUS
<1>5. s \in Seq(X) /\ Len(s) = 3 /\ s[1] = a /\ s[2] = b /\ s[3] = c
  BY <1>1, <1>2
<1>6. t \in Seq(X) /\ Len(t) = 5 /\ t[1] = a /\ t[2] = b /\ t[3] = c /\ t[4] = e /\ t[5] = f
  BY <1>1, <1>3
<1>7. /\ u \in Seq(X) /\ Len(u) = 8
      /\ u[1] = a /\ u[2] = b /\ u[3] = c /\ u[4] = a /\ u[5] = b /\ u[6] = c /\ u[7] = e /\ u[8] = f
  BY <1>1, <1>4
<1>8. Joins(s, t, u)
  BY <1>5, <1>6, <1>7 DEF Joins
<1>9. s \in Seq(X) /\ t \in Seq(X) /\ u \in Seq(X)
  BY <1>5, <1>6, <1>7
<1>10. s \o t = u
  BY <1>8, <1>9, JoinIs
<1> QED BY <1>2, <1>3, <1>4, <1>10

LEMMA JoinUnder ==
  ASSUME NEW g, NEW h, NEW a, NEW b, NEW c, NEW d, NEW e, NEW f, NEW i, NEW j
  PROVE  <<g, h>> \o <<a, b, c, d, e, f, i, j>> = <<g, h, a, b, c, d, e, f, i, j>>
<1>1. PICK X : X = {g, h, a, b, c, d, e, f, i, j}
  OBVIOUS
<1>2. PICK s : s = <<g, h>>
  OBVIOUS
<1>3. PICK t : t = <<a, b, c, d, e, f, i, j>>
  OBVIOUS
<1>4. PICK u : u = <<g, h, a, b, c, d, e, f, i, j>>
  OBVIOUS
<1>5. s \in Seq(X) /\ Len(s) = 2 /\ s[1] = g /\ s[2] = h
  BY <1>1, <1>2
<1>6. /\ t \in Seq(X) /\ Len(t) = 8
      /\ t[1] = a /\ t[2] = b /\ t[3] = c /\ t[4] = d /\ t[5] = e /\ t[6] = f /\ t[7] = i /\ t[8] = j
  BY <1>1, <1>3
<1>7. /\ u \in Seq(X) /\ Len(u) = 10
      /\ u[1] = g /\ u[2] = h /\ u[3] = a /\ u[4] = b /\ u[5] = c /\ u[6] = d /\ u[7] = e /\ u[8] = f /\ u[9] = i /\ u[10] = j
  BY <1>1, <1>4
<1>8. Joins(s, t, u)
  BY <1>5, <1>6, <1>7 DEF Joins
<1>9. s \in Seq(X) /\ t \in Seq(X) /\ u \in Seq(X)
  BY <1>5, <1>6, <1>7
<1>10. s \o t = u
  BY <1>8, <1>9, JoinIs
<1> QED BY <1>2, <1>3, <1>4, <1>10

-----------------------------------------------------------------------------
LEMMA AbsDir ==
  ASSUME absolute, NEW d, RunDirOf(d)
  PROVE  \E a, b : d = <<"/", "runs", a, b>>
<1>1. PICK a, b : d = Root \o <<a, b>>
  BY Zenon DEF RunDirOf
<1>2. Root = <<"/", "runs">>
  BY DEF Root
<1>3. d = <<"/", "runs", a, b>>
  BY <1>1, <1>2, JoinTwo, Zenon
<1> QED BY <1>3, Zenon

LEMMA RelDir ==
  ASSUME ~absolute, NEW d, RunDirOf(d)
  PROVE  \E a, b : d = <<"runs", a, b>>
<1>1. PICK a, b : d = Root \o <<a, b>>
  BY Zenon DEF RunDirOf
<1>2. Root = <<"runs">>
  BY DEF Root
<1>3. d = <<"runs", a, b>>
  BY <1>1, <1>2, JoinOne, Zenon
<1> QED BY <1>3, Zenon

\* The shapes of the paths below an absolute root.
LEMMA AbsFile ==
  ASSUME NEW a, NEW b, NEW x, NEW d, d = <<"/", "runs", a, b>>
  PROVE  RunFile(d, x) = <<"/", "runs", a, b, "runtime", x>>
<1>1. <<"/", "runs", a, b>> \o <<"runtime", x>> = <<"/", "runs", a, b, "runtime", x>>
  BY JoinFour
<1> QED BY <1>1, Zenon DEF RunFile

LEMMA AbsBase ==
  ASSUME absolute, NEW g, NEW x
  PROVE  BaseFile(g, x) = <<"/", "baselines", g, "artifacts", x>>
<1>1. BaseDir(g) = <<"/", "baselines", g>>
  BY DEF BaseDir
<1>2. <<"/", "baselines", g>> \o <<"artifacts", x>> = <<"/", "baselines", g, "artifacts", x>>
  BY JoinThree
<1> QED BY <1>1, <1>2, Zenon DEF BaseFile

LEMMA AbsApart ==
  ASSUME absolute, NEW d, RunDirOf(d), NEW x, NEW g, NEW y
  PROVE  RunFile(d, x) # BaseFile(g, y)
<1>1. PICK a, b : d = <<"/", "runs", a, b>>
  BY AbsDir
<1>2. RunFile(d, x) = <<"/", "runs", a, b, "runtime", x>>
  BY <1>1, AbsFile
<1>3. BaseFile(g, y) = <<"/", "baselines", g, "artifacts", y>>
  BY AbsBase
<1> QED BY <1>2, <1>3

LEMMA BaseApart ==
  ASSUME absolute, NEW x, NEW g, NEW y, NEW h, BaseFile(g, x) = BaseFile(h, y)
  PROVE  g = h /\ x = y
<1>1. BaseFile(g, x) = <<"/", "baselines", g, "artifacts", x>>
  BY AbsBase
<1>2. BaseFile(h, y) = <<"/", "baselines", h, "artifacts", y>>
  BY AbsBase
<1>3. PICK p : p = <<"/", "baselines", g, "artifacts", x>> /\ p = <<"/", "baselines", h, "artifacts", y>>
  BY <1>1, <1>2, Zenon
<1>4. p[3] = g /\ p[5] = x
  BY <1>3
<1>5. p[3] = h /\ p[5] = y
  BY <1>3
<1> QED BY <1>4, <1>5

LEMMA BaseLast == ASSUME absolute, NEW g, NEW x PROVE Last(BaseFile(g, x)) = x
<1>1. PICK p : p = <<"/", "baselines", g, "artifacts", x>>
  OBVIOUS
<1>2. BaseFile(g, x) = p
  BY <1>1, AbsBase, Zenon
<1>3. Len(p) = 5 /\ p[5] = x
  BY <1>1
<1>4. Last(p) = x
  BY <1>3, Zenon DEF Last
<1> QED BY <1>2, <1>4, Zenon

\* A prefix of a path begins as the path does.
LEMMA PrefixAt ==
  ASSUME NEW X, NEW s \in Seq(X), NEW t \in Seq(X), IsPrefix(s, t)
  PROVE  Len(s) <= Len(t) /\ \A i \in 1..Len(s) : s[i] = t[i]
BY DEF IsPrefix

LEMMA PrefixSelf ==
  ASSUME NEW X, NEW s \in Seq(X), NEW t \in Seq(X), Len(s) <= Len(t), \A i \in 1..Len(s) : s[i] = t[i]
  PROVE  IsPrefix(s, t)
BY DEF IsPrefix

LEMMA AbsNotBelow ==
  ASSUME absolute, NEW d, RunDirOf(d), NEW g, NEW y
  PROVE  ~IsPrefix(d, BaseFile(g, y))
<1>1. PICK a, b : d = <<"/", "runs", a, b>>
  BY AbsDir
<1>2. PICK p : p = <<"/", "baselines", g, "artifacts", y>>
  OBVIOUS
<1>3. BaseFile(g, y) = p
  BY <1>2, AbsBase, Zenon
<1>4. PICK X : X = {"/", "runs", "baselines", "artifacts", a, b, g, y}
  OBVIOUS
<1>5. d \in Seq(X) /\ Len(d) = 4 /\ d[2] = "runs"
  BY <1>1, <1>4
<1>6. p \in Seq(X) /\ p[2] = "baselines"
  BY <1>2, <1>4
<1>7. ~IsPrefix(d, p)
  <2> SUFFICES ASSUME IsPrefix(d, p) PROVE FALSE
    OBVIOUS
  <2>1. \A i \in 1..Len(d) : d[i] = p[i]
    BY <1>5, <1>6, PrefixAt
  <2> QED BY <1>5, <1>6, <2>1
<1> QED BY <1>3, <1>7, Zenon

LEMMA BelowOwn ==
  ASSUME NEW d, RunDirOf(d), NEW e, RunDirOf(e), NEW x, IsPrefix(d, RunFile(e, x))
  PROVE  d = e
<1>1. CASE absolute
  <2>1. PICK a, b : d = <<"/", "runs", a, b>>
    BY <1>1, AbsDir
  <2>2. PICK a2, b2 : e = <<"/", "runs", a2, b2>>
    BY <1>1, AbsDir
  <2>3. PICK p : p = <<"/", "runs", a2, b2, "runtime", x>>
    OBVIOUS
  <2>4. RunFile(e, x) = p
    BY <2>2, <2>3, AbsFile, Zenon
  <2>5. PICK X : X = {"/", "runs", "runtime", a, b, a2, b2, x}
    OBVIOUS
  <2>6. d \in Seq(X) /\ Len(d) = 4 /\ d[3] = a /\ d[4] = b
    BY <2>1, <2>5
  <2>7. p \in Seq(X) /\ p[3] = a2 /\ p[4] = b2
    BY <2>3, <2>5
  <2>8. \A i \in 1..Len(d) : d[i] = p[i]
    BY <2>4, <2>6, <2>7, PrefixAt
  <2>9. a = a2 /\ b = b2
    BY <2>6, <2>7, <2>8
  <2> QED BY <2>1, <2>2, <2>9
<1>2. CASE ~absolute
  <2>1. PICK a, b : d = <<"runs", a, b>>
    BY <1>2, RelDir
  <2>2. PICK a2, b2 : e = <<"runs", a2, b2>>
    BY <1>2, RelDir
  <2>3. PICK p : p = <<"runs", a2, b2, "runtime", x>>
    OBVIOUS
  <2>4. RunFile(e, x) = p
    BY <2>2, <2>3, JoinThree, Zenon DEF RunFile
  <2>5. PICK X : X = {"runs", "runtime", a, b, a2, b2, x}
    OBVIOUS
  <2>6. d \in Seq(X) /\ Len(d) = 3 /\ d[2] = a /\ d[3] = b
    BY <2>1, <2>5
  <2>7. p \in Seq(X) /\ p[2] = a2 /\ p[3] = b2
    BY <2>3, <2>5
  <2>8. \A i \in 1..Len(d) : d[i] = p[i]
    BY <2>4, <2>6, <2>7, PrefixAt
  <2>9. a = a2 /\ b = b2
    BY <2>6, <2>7, <2>8
  <2> QED BY <2>1, <2>2, <2>9
<1> QED BY <1>1, <1>2

-----------------------------------------------------------------------------
\* The shapes of the paths below a relative root.
LEMMA RelFile ==
  ASSUME ~absolute, NEW d, RunDirOf(d), NEW x, NEW p, p = RunFile(d, x)
  PROVE  Len(p) = 5 /\ p[1] = "runs" /\ p[4] = "runtime" /\ ~IsAbs(p)
<1>1. PICK a, b : d = <<"runs", a, b>>
  BY RelDir
<1>2. p = <<"runs", a, b, "runtime", x>>
  BY <1>1, JoinThree, Zenon DEF RunFile
<1>3. Len(p) = 5 /\ p[1] = "runs" /\ p[4] = "runtime" /\ Head(p) = "runs"
  BY <1>2
<1> QED BY <1>3 DEF IsAbs

LEMMA RelDeep ==
  ASSUME ~absolute, NEW d, RunDirOf(d), NEW x, NEW D, PlacedIn(D), NEW p, p = FilePath(d, x, TRUE)
  PROVE  p \notin D /\ ~IsAbs(p) /\ \A g : BaseDir(g) \o p \notin D
<1>1. PICK a, b : d = <<"runs", a, b>>
  BY RelDir
<1>2. RunFile(d, x) = <<"runs", a, b, "runtime", x>>
  BY <1>1, JoinThree, Zenon DEF RunFile
<1>3. p = <<"runs", a, b, "runs", a, b, "runtime", x>>
  <2>1. p = d \o RunFile(d, x)
    BY Zenon DEF FilePath
  <2> QED BY <1>1, <1>2, <2>1, JoinDeep, Zenon
<1>4. p # <<>> /\ Head(p) = "runs" /\ p[4] = "runs"
  <2>1. PICK z : z = <<"runs", a, b, "runs", a, b, "runtime", x>>
    OBVIOUS
  <2>2. z[1] = "runs" /\ z[4] = "runs"
    BY <2>1
  <2>3. z # <<>> /\ Head(z) = z[1]
    BY <2>1
  <2> QED BY <1>3, <2>1, <2>2, <2>3, Zenon
<1>5. p \notin D
  <2>1. "runs" # "runtime"
    OBVIOUS
  <2> QED BY <1>4, <2>1, Zenon DEF PlacedIn
<1>6. ASSUME NEW g PROVE BaseDir(g) \o p \notin D
  <2>1. BaseDir(g) = <<"baselines", g>>
    BY DEF BaseDir
  <2>2. PICK q : q = BaseDir(g) \o p
    OBVIOUS
  <2>3. q = <<"baselines", g, "runs", a, b, "runs", a, b, "runtime", x>>
    <3>1. <<"baselines", g>> \o <<"runs", a, b, "runs", a, b, "runtime", x>>
          = <<"baselines", g, "runs", a, b, "runs", a, b, "runtime", x>>
      BY JoinUnder
    <3> QED BY <1>3, <2>1, <2>2, <3>1, Zenon
  <2>4. q[1] = "baselines"
    BY <2>3
  <2>5. q \notin D
    BY <2>4 DEF PlacedIn
  <2> QED BY <2>2, <2>5, Zenon
<1> QED BY <1>4, <1>5, <1>6 DEF IsAbs

LEMMA RelUnder ==
  ASSUME ~absolute, NEW d, RunDirOf(d), NEW y, NEW D, PlacedIn(D)
  PROVE  d \o <<"artifacts", y>> \notin D /\ \A g : BaseFile(g, y) \notin D
<1>1. PICK a, b : d = <<"runs", a, b>>
  BY RelDir
<1>2. PICK p : p = d \o <<"artifacts", y>>
  OBVIOUS
<1>3. p = <<"runs", a, b, "artifacts", y>>
  BY <1>1, <1>2, JoinThree, Zenon
<1>4. p[4] = "artifacts"
  BY <1>3
<1>5. p \notin D
  BY <1>4 DEF PlacedIn
<1>6. ASSUME NEW g PROVE BaseFile(g, y) \notin D
  <2>1. BaseDir(g) = <<"baselines", g>>
    BY DEF BaseDir
  <2>2. PICK q : q = BaseFile(g, y)
    OBVIOUS
  <2>3. q = <<"baselines", g, "artifacts", y>>
    BY <2>1, <2>2, JoinTwo, Zenon DEF BaseFile
  <2>4. q[1] = "baselines"
    BY <2>3
  <2>5. q \notin D
    BY <2>4 DEF PlacedIn
  <2> QED BY <2>2, <2>5, Zenon
<1> QED BY <1>2, <1>5, <1>6, Zenon

LEMMA AbsIs ==
  ASSUME absolute, NEW d, RunDirOf(d), NEW x
  PROVE  IsAbs(RunFile(d, x))
<1>1. PICK a, b : d = <<"/", "runs", a, b>>
  BY AbsDir
<1>2. PICK p : p = RunFile(d, x)
  OBVIOUS
<1>3. p = <<"/", "runs", a, b, "runtime", x>>
  BY <1>1, <1>2, AbsFile
<1>4. p # <<>> /\ Head(p) = "/"
  BY <1>3
<1> QED BY <1>2, <1>4, Zenon DEF IsAbs

LEMMA SnapshotRel == \A x : ~IsAbs(<<"artifacts", x>>)
<1>1. ASSUME NEW x PROVE Head(<<"artifacts", x>>) = "artifacts"
  OBVIOUS
<1>2. "artifacts" # "/"
  OBVIOUS
<1> QED BY <1>1, <1>2, Zenon DEF IsAbs

-----------------------------------------------------------------------------
(* Where the paths of a report lead. *)

LEMMA ResolveIs ==
  ASSUME NEW p, NEW d, NEW f, f = IF IsAbs(p) THEN p ELSE d \o p,
         f \in DOMAIN disk \/ d \o <<"artifacts", Last(p)>> \notin DOMAIN disk
  PROVE  resolveReportFilePath(p, d) = f
BY Zenon DEF resolveReportFilePath

LEMMA ResolveRun ==
  ASSUME absolute \in BOOLEAN, FilesPlaced, NEW d, RunDirOf(d), NEW x,
         absolute => RunFile(d, x) \in DOMAIN disk
  PROVE  resolveReportFilePath(RunFile(d, x), d) = FilePath(d, x, ~absolute)
<1>1. CASE absolute
  <2>1. IsAbs(RunFile(d, x))
    BY <1>1, AbsIs
  <2>2. FilePath(d, x, ~absolute) = RunFile(d, x)
    BY <1>1, Zenon DEF FilePath
  <2> QED BY <1>1, <2>1, <2>2, ResolveIs, Zenon
<1>2. CASE ~absolute
  <2>1. ~IsAbs(RunFile(d, x))
    BY <1>2, RelFile
  <2>2. FilePath(d, x, ~absolute) = d \o RunFile(d, x)
    BY <1>2, Zenon DEF FilePath
  <2>3. \A y : d \o <<"artifacts", y>> \notin DOMAIN disk
    <3>1. PlacedIn(DOMAIN disk)
      BY <1>2 DEF FilesPlaced
    <3> QED BY <1>2, <3>1, RelUnder
  <2> QED BY <2>1, <2>2, <2>3, ResolveIs, Zenon
<1> QED BY <1>1, <1>2

LEMMA ResolveBase ==
  ASSUME absolute, NEW g, NEW x, BaseFile(g, x) \in DOMAIN disk
  PROVE  resolveReportFilePath(<<"artifacts", x>>, BaseDir(g)) = BaseFile(g, x)
<1>1. ~IsAbs(<<"artifacts", x>>)
  BY SnapshotRel
<1>2. BaseFile(g, x) = BaseDir(g) \o <<"artifacts", x>>
  BY Zenon DEF BaseFile
<1> QED BY <1>1, <1>2, ResolveIs, Zenon

LEMMA ResolveGone ==
  ASSUME ~absolute, FilesPlaced, NEW d, RunDirOf(d), NEW x, NEW g, NEW p, p = FilePath(d, x, TRUE)
  PROVE  resolveReportFilePath(p, BaseDir(g)) \notin DOMAIN disk
<1>1. PlacedIn(DOMAIN disk)
  BY DEF FilesPlaced
<1>2. ~IsAbs(p) /\ BaseDir(g) \o p \notin DOMAIN disk
  BY <1>1, RelDeep
<1>3. \A y : BaseDir(g) \o <<"artifacts", y>> \notin DOMAIN disk
  BY <1>1, RelUnder, Zenon DEF BaseFile
<1> QED BY <1>2, <1>3, ResolveIs, Zenon

-----------------------------------------------------------------------------
(* Reports as records. *)

LEMMA FieldsOf ==
  ASSUME NEW r, NEW ss, NEW q, q = Fields(r, ss)
  PROVE  /\ q.name = r.name /\ q.tags = r.tags /\ q.lane = r.lane /\ q.dir = r.dir
         /\ q.second = r.second /\ q.started = r.started /\ q.passed = r.passed
         /\ q.error = r.error /\ q.steps = ss /\ q.asserts = r.asserts
         /\ q = Fields(q, q.steps)
BY DEF Fields

LEMMA WithSteps ==
  ASSUME NEW r, r = Fields(r, r.steps), NEW ss
  PROVE  [r EXCEPT !.steps = ss] = Fields(r, ss)
BY DEF Fields

LEMMA WithFiles ==
  ASSUME NEW st, StepForm(st), NEW fs
  PROVE  /\ [st EXCEPT !.files = fs] = [id |-> st.id, outcome |-> st.outcome, files |-> fs]
         /\ StepForm([st EXCEPT !.files = fs])
BY DEF StepForm

LEMMA NotNone == ASSUME NEW r, NEW ss PROVE Fields(r, ss) # NoReport
<1>1. "steps" \in DOMAIN Fields(r, ss)
  BY DEF Fields
<1>2. PICK e : NoReport = [name |-> e]
  BY Zenon DEF NoReport
<1>3. "steps" \notin DOMAIN NoReport
  BY <1>2
<1> QED BY <1>1, <1>3

LEMMA FormNotNone == ASSUME NEW r, ReportForm(r) PROVE r # NoReport
<1>1. r = Fields(r, r.steps)
  BY DEF ReportForm
<1>2. Fields(r, r.steps) # NoReport
  BY NotNone
<1> QED BY <1>1, <1>2, Zenon

\* Sequences, whatever they are of.
LEMMA SeqSelf == ASSUME NEW X, NEW s \in Seq(X) PROVE s \in Seq(ToSet(s)) /\ Range(s) = ToSet(s)
<1>1. \A i \in 1..Len(s) : s[i] \in ToSet(s)
  BY DEF ToSet
<1>2. s \in Seq(ToSet(s))
  BY <1>1
<1> QED BY <1>2 DEF ToSet, Range

LEMMA SeqFun ==
  ASSUME NEW n \in Nat, NEW s, s = [i \in 1..n |-> s[i]]
  PROVE  s \in Seq(ToSet(s)) /\ Len(s) = n /\ DOMAIN s = 1..n
<1>1. DOMAIN s = 1..n
  BY Zenon
<1>2. \A i \in 1..n : s[i] \in ToSet(s)
  BY <1>1 DEF ToSet
<1>3. s \in [1..n -> ToSet(s)]
  BY <1>2
<1> QED BY <1>1, <1>3

LEMMA SeqDom == ASSUME NEW X, NEW s \in Seq(X) PROVE Len(s) \in Nat /\ DOMAIN s = 1..Len(s)
OBVIOUS

-----------------------------------------------------------------------------
LEMMA OneFile ==
  ASSUME NEW p, NEW q, NEW d, q = resolveReportFilePath(p, d), NEW fs, fs = <<p>>
  PROVE  resolveReportFileList(fs, d) = <<q>>
<1>1. DOMAIN fs = {1} /\ fs[1] = p
  OBVIOUS
<1>2. resolveReportFileList(fs, d) = [j \in {1} |-> q]
  BY <1>1 DEF resolveReportFileList
<1>3. [j \in {1} |-> q] = <<q>>
  OBVIOUS
<1> QED BY <1>2, <1>3, Zenon

\* A run's report as it is read.
LEMMA ResolveReport ==
  ASSUME absolute \in BOOLEAN, FilesPlaced, NEW r, Report(r, FALSE), OnDisk(r, DOMAIN disk),
         NEW q, q = resolveReportPaths(r, r.dir)
  PROVE  /\ Report(q, ~absolute) /\ SameRun(r, q)
         /\ q.started = r.started /\ q.second = r.second /\ q.error = r.error
<1> DEFINE fsOf(i) == resolveReportFileList(r.steps[i].files, r.dir)
<1> DEFINE ss == [i \in DOMAIN r.steps |-> [r.steps[i] EXCEPT !.files = fsOf(i)]]
<1>1. ReportForm(r) /\ r = Fields(r, r.steps) /\ r.steps \in Seq(ToSet(r.steps)) /\ RunDirOf(r.dir)
  BY DEF Report, ReportForm
<1>2. q = [r EXCEPT !.steps = ss]
  BY Zenon DEF resolveReportPaths
<1>3. PICK n \in Nat : n = Len(r.steps) /\ DOMAIN r.steps = 1..n
  BY <1>1
<1>4. ASSUME NEW i \in 1..n
      PROVE  /\ StepForm(ss[i]) /\ ss[i].id = r.steps[i].id /\ ss[i].outcome = r.steps[i].outcome
             /\ ss[i].files \in {<<>>, <<FilePath(r.dir, ss[i].id, ~absolute)>>}
             /\ (r.steps[i].files = <<>>) <=> (ss[i].files = <<>>)
  <2>1. PICK st : st = r.steps[i]
    OBVIOUS
  <2>2. StepForm(st)
    BY <1>1, <1>3, <1>4, <2>1, Zenon DEF ReportForm
  <2>3. st.files \in {<<>>, <<FilePath(r.dir, st.id, FALSE)>>}
    BY <1>3, <1>4, <2>1, Zenon DEF Report
  <2>4. ss[i] = [st EXCEPT !.files = fsOf(i)]
    BY <1>3, <1>4, <2>1, Zenon
  <2>5. PICK fs : fs = fsOf(i)
    OBVIOUS
  <2>6. \/ fs = <<>> /\ st.files = <<>>
        \/ fs = <<FilePath(r.dir, st.id, ~absolute)>> /\ st.files # <<>>
    <3>1. CASE st.files = <<>>
      <4>1. fs = resolveReportFileList(st.files, r.dir)
        BY <2>1, <2>5, Zenon
      <4>2. fs = <<>>
        BY <3>1, <4>1 DEF resolveReportFileList
      <4> QED BY <3>1, <4>2, Zenon
    <3>2. CASE st.files = <<RunFile(r.dir, st.id)>>
      <4>1. RunFile(r.dir, st.id) \in DOMAIN disk
        <5>1. \A j \in DOMAIN st.files : st.files[j] \in DOMAIN disk
          BY <1>3, <1>4, <2>1, Zenon DEF OnDisk
        <5>2. 1 \in DOMAIN st.files /\ st.files[1] = RunFile(r.dir, st.id)
          BY <3>2
        <5> QED BY <5>1, <5>2, Zenon
      <4>2. resolveReportFilePath(RunFile(r.dir, st.id), r.dir) = FilePath(r.dir, st.id, ~absolute)
        BY <1>1, <4>1, ResolveRun
      <4>3. fs = <<FilePath(r.dir, st.id, ~absolute)>>
        <5>1. fs = resolveReportFileList(st.files, r.dir)
          BY <2>1, <2>5, Zenon
        <5>2. PICK x : x = FilePath(r.dir, st.id, ~absolute)
          OBVIOUS
        <5>3. x = resolveReportFilePath(RunFile(r.dir, st.id), r.dir)
          BY <4>2, <5>2, Zenon
        <5>4. resolveReportFileList(st.files, r.dir) = <<x>>
          BY <3>2, <5>3, OneFile
        <5> QED BY <5>1, <5>2, <5>4, Zenon
      <4>4. st.files # <<>>
        BY <3>2
      <4> QED BY <4>3, <4>4, Zenon
    <3>3. FilePath(r.dir, st.id, FALSE) = RunFile(r.dir, st.id)
      BY Zenon DEF FilePath
    <3> QED BY <2>3, <3>1, <3>2, <3>3, Zenon
  <2>7. <<FilePath(r.dir, st.id, ~absolute)>> # <<>>
    OBVIOUS
  <2>8. ss[i] = [id |-> st.id, outcome |-> st.outcome, files |-> fs] /\ StepForm(ss[i])
    BY <2>2, <2>4, <2>5, WithFiles
  <2>9. PICK su : su = ss[i]
    OBVIOUS
  <2>10. su.id = st.id /\ su.outcome = st.outcome /\ su.files = fs
    BY <2>8, <2>9
  <2> QED BY <2>1, <2>6, <2>7, <2>8, <2>9, <2>10, Zenon
<1>5. PICK su : su = ss
  OBVIOUS
<1>6. DOMAIN su = 1..n /\ su = [i \in 1..n |-> su[i]]
  BY <1>3, <1>5, Zenon
<1> HIDE DEF ss
<1>7. q = Fields(r, su)
  BY <1>1, <1>2, <1>5, WithSteps, Zenon
<1>8. /\ q.name = r.name /\ q.tags = r.tags /\ q.lane = r.lane /\ q.dir = r.dir
      /\ q.second = r.second /\ q.started = r.started /\ q.passed = r.passed
      /\ q.error = r.error /\ q.steps = su /\ q.asserts = r.asserts
      /\ q = Fields(q, q.steps)
  BY <1>7, FieldsOf
<1>9. q.steps \in Seq(ToSet(q.steps)) /\ DOMAIN q.steps = 1..n
  BY <1>6, <1>8, SeqFun
<1>10. ReportForm(q)
  <2>1. q.asserts \in Seq(ToSet(q.asserts))
    BY <1>1, <1>8, Zenon DEF ReportForm
  <2>2. \A i \in DOMAIN q.steps : StepForm(q.steps[i])
    BY <1>4, <1>5, <1>8, <1>9, Zenon
  <2>3. \A i \in DOMAIN q.asserts :
          q.asserts[i].passed \in BOOLEAN /\ q.asserts[i].root \in {<<>>, q.dir}
    BY <1>1, <1>8, Zenon DEF ReportForm
  <2> QED BY <1>8, <1>9, <2>1, <2>2, <2>3, Zenon DEF ReportForm
<1>11. Report(q, ~absolute)
  <2>1. \A i \in DOMAIN q.steps :
          q.steps[i].files \in {<<>>, <<FilePath(q.dir, q.steps[i].id, ~absolute)>>}
    BY <1>4, <1>5, <1>8, <1>9, ZenonT(40)
  <2>2. /\ \E s \in ToSet(ScenarioList) : q.name = s.name
        /\ RunDirOf(q.dir) /\ q.started \in Nat /\ q.second \in Nat
        /\ q.passed \in BOOLEAN /\ q.error \in BOOLEAN
    BY <1>8, Zenon DEF Report
  <2> QED BY <1>10, <2>1, <2>2, Zenon DEF Report
<1>12. SameRun(r, q)
  <2>1. ASSUME NEW i \in DOMAIN r.steps
        PROVE  /\ r.steps[i].id = q.steps[i].id /\ r.steps[i].outcome = q.steps[i].outcome
               /\ (r.steps[i].files = <<>>) <=> (q.steps[i].files = <<>>)
    <3>1. i \in 1..n /\ q.steps[i] = ss[i]
      BY <1>3, <1>5, <1>8, Zenon
    <3>2. /\ ss[i].id = r.steps[i].id /\ ss[i].outcome = r.steps[i].outcome
          /\ (r.steps[i].files = <<>>) <=> (ss[i].files = <<>>)
      BY <1>4, <3>1, Zenon
    <3> QED BY <3>1, <3>2
  <2> QED BY <1>3, <1>8, <1>9, <2>1, Zenon DEF SameRun
<1> QED BY <1>8, <1>11, <1>12

-----------------------------------------------------------------------------
(* The reports a command reads, in the order of their runs. *)

\* R lists the reports of the directories D, f saying which is whose.
Lists(f, R, D) ==
  /\ R \in Seq(ToSet(R))
  /\ \A i \in DOMAIN R : f[i] \in D /\ R[i] = resolveReportPaths(dirs[f[i]], f[i])
  /\ \A d \in D : \E i \in DOMAIN R : f[i] = d
  /\ \A i, k \in DOMAIN R : i < k => dirs[f[i]].started < dirs[f[k]].started

AtStart(D, n) == {d \in D : dirs[d].started = n}
FirstAt(D, n) == CHOOSE d \in AtStart(D, n) : TRUE

LEMMA StartedAtIs ==
  ASSUME NEW scope, NEW n, NEW D, D = InScope(scope)
  PROVE  StartedAt(scope, n) = IF AtStart(D, n) = {} THEN <<>>
                               ELSE <<resolveReportPaths(dirs[FirstAt(D, n)], FirstAt(D, n))>>
<1> DEFINE E == InScope(scope)
<1>1. StartedAt(scope, n) = IF AtStart(E, n) = {} THEN <<>>
                            ELSE <<resolveReportPaths(dirs[FirstAt(E, n)], FirstAt(E, n))>>
  BY DEF StartedAt, AtStart, FirstAt
<1> QED BY <1>1, Zenon

LEMMA FirstAtIn ==
  ASSUME NEW D, NEW n, AtStart(D, n) # {}
  PROVE  FirstAt(D, n) \in D /\ dirs[FirstAt(D, n)].started = n
<1>1. FirstAt(D, n) \in AtStart(D, n)
  BY Zenon DEF FirstAt
<1> QED BY <1>1, Zenon DEF AtStart

LEMMA Collected ==
  ASSUME HInv, Collectable, NEW scope, NEW R, R = CollectRunReports(scope)
  PROVE  \E f : Lists(f, R, InScope(scope))
<1> DEFINE Res(d) == resolveReportPaths(dirs[d], d)
<1>1. PICK D : D = InScope(scope)
  OBVIOUS
<1>2. PICK m \in Nat : m = runCount
  BY DEF HInv, Counters
<1>3. \A d \in D : d \in DOMAIN dirs /\ dirs[d] # NoReport /\ dirs[d].started \in 1..m
  <2>1. D \subseteq DOMAIN dirs
    BY <1>1, Zenon DEF InScope
  <2> QED BY <1>2, <2>1, Zenon DEF Collectable, HInv, RunsKept
<1>4. \A d, e \in D : dirs[d].started = dirs[e].started => d = e
  BY <1>3, Zenon DEF HInv, RunsKept
<1>5. PICK X : X = {Res(d) : d \in D}
  OBVIOUS
<1>6. PICK B : B = [n \in 1..m |-> StartedAt(scope, n)]
  OBVIOUS
<1>7. R = FlattenSeq(B)
  BY <1>2, <1>6, Zenon DEF CollectRunReports
<1>8. ASSUME NEW n \in 1..m
      PROVE  /\ AtStart(D, n) = {} => B[n] = <<>>
             /\ AtStart(D, n) # {} => B[n] = <<Res(FirstAt(D, n))>> /\ Res(FirstAt(D, n)) \in X
  <2>1. B[n] = StartedAt(scope, n)
    BY <1>6, <1>8, Zenon
  <2>2. AtStart(D, n) # {} => FirstAt(D, n) \in D
    BY FirstAtIn, Zenon
  <2> QED BY <1>1, <1>5, <2>1, <2>2, StartedAtIs, Zenon
<1>9. \A n \in 1..m : B[n] = <<>> \/ \E x \in X : B[n] = <<x>>
  BY <1>8, Zenon
<1>10. \A n \in 1..m : B[n] \in Seq(X)
  <2> SUFFICES ASSUME NEW n \in 1..m PROVE B[n] \in Seq(X)
    OBVIOUS
  <2>1. CASE B[n] = <<>>
    BY <2>1
  <2>2. CASE \E x \in X : B[n] = <<x>>
    <3>1. PICK x \in X : B[n] = <<x>>
      BY <2>2
    <3> QED BY <3>1
  <2> QED BY <1>9, <2>1, <2>2, Zenon
<1>11. DOMAIN B = 1..m
  BY <1>6, Zenon
<1>12. B \in Seq(Seq(X)) /\ Len(B) = m
  <2>1. B \in [1..m -> Seq(X)]
    BY <1>6, <1>10, <1>11
  <2> QED BY <2>1
<1>13. R \in Seq(X) /\ \E p : Spread(B, R, p)
  <2>1. \A i \in 1..Len(B) : B[i] = <<>> \/ \E x \in X : B[i] = <<x>>
    BY <1>9, <1>12, Zenon
  <2>2. FlattenSeq(B) \in Seq(X) /\ \E p : Spread(B, FlattenSeq(B), p)
    BY <1>12, <2>1, FlattenSpread
  <2> QED BY <1>7, <2>2, Zenon
<1>14. PICK p : Spread(B, R, p)
  BY <1>13
<1>15. PICK z \in Nat : z = Len(R) /\ DOMAIN R = 1..z
  BY <1>13
<1>16. \A j \in 1..z : p[j] \in 1..m /\ B[p[j]] = <<R[j]>>
  BY <1>12, <1>14, <1>15, Zenon DEF Spread
<1>17. \A n \in 1..m : B[n] # <<>> => \E h \in 1..z : p[h] = n
  BY <1>12, <1>14, <1>15, Zenon DEF Spread
<1>18. \A h, j \in 1..z : h < j => p[h] < p[j]
  BY <1>14, <1>15, Zenon DEF Spread
<1>19. PICK f : f = [j \in 1..z |-> FirstAt(D, p[j])]
  OBVIOUS
<1>20. ASSUME NEW j \in 1..z
       PROVE  f[j] \in D /\ dirs[f[j]].started = p[j] /\ R[j] = Res(f[j])
  <2>1. PICK n \in 1..m : n = p[j] /\ B[n] = <<R[j]>>
    BY <1>16, <1>20, Zenon
  <2>2. <<R[j]>> # <<>>
    OBVIOUS
  <2>3. AtStart(D, n) # {}
    BY <1>8, <2>1, <2>2, Zenon
  <2>4. f[j] = FirstAt(D, n)
    BY <1>19, <1>20, <2>1, Zenon
  <2>5. <<R[j]>> = <<Res(FirstAt(D, n))>>
    BY <1>8, <2>1, <2>3, Zenon
  <2>6. R[j] = Res(FirstAt(D, n))
    BY <2>5
  <2>7. FirstAt(D, n) \in D /\ dirs[FirstAt(D, n)].started = n
    BY <2>3, FirstAtIn, Zenon
  <2> QED BY <2>1, <2>4, <2>6, <2>7, Zenon
<1>21. ASSUME NEW d \in D PROVE \E j \in 1..z : f[j] = d
  <2>1. PICK n \in 1..m : n = dirs[d].started
    BY <1>3, <1>21, Zenon
  <2>2. AtStart(D, n) # {}
    BY <1>21, <2>1, Zenon DEF AtStart
  <2>3. B[n] # <<>>
    <3>1. B[n] = <<Res(FirstAt(D, n))>>
      BY <1>8, <2>2, Zenon
    <3> QED BY <3>1
  <2>4. PICK h \in 1..z : p[h] = n
    BY <1>17, <2>3, Zenon
  <2>5. f[h] \in D /\ dirs[f[h]].started = n
    BY <1>20, <2>4, Zenon
  <2> QED BY <1>4, <1>21, <2>1, <2>4, <2>5, Zenon
<1>22. R \in Seq(ToSet(R))
  BY <1>13, SeqSelf
<1>23. \A i, k \in DOMAIN R : i < k => dirs[f[i]].started < dirs[f[k]].started
  <2> SUFFICES ASSUME NEW i \in 1..z, NEW k \in 1..z, i < k
               PROVE  dirs[f[i]].started < dirs[f[k]].started
    BY <1>15, Zenon
  <2>1. p[i] < p[k]
    BY <1>18, Zenon
  <2>2. dirs[f[i]].started = p[i] /\ dirs[f[k]].started = p[k]
    BY <1>20, Zenon
  <2> QED BY <2>1, <2>2, Zenon
<1>24. Lists(f, R, D)
  BY <1>15, <1>20, <1>21, <1>22, <1>23, Zenon DEF Lists
<1> QED BY <1>1, <1>24, Zenon

-----------------------------------------------------------------------------
(* What a comparison tells. *)

Content(p) == <<disk[p].kind, disk[p].value>>
ShowStep(st) == <<st.id, st.outcome, [j \in DOMAIN st.files |-> Content(st.files[j])]>>
ShowSteps(ss) == [i \in DOMAIN ss |-> ShowStep(ss[i])]
Judgements(as) == [i \in DOMAIN as |-> Judgement(as[i])]

LEMMA ShowsIs ==
  ASSUME NEW r
  PROVE  Shows(r) = [name |-> r.name, passed |-> r.passed, steps |-> ShowSteps(r.steps),
                     asserts |-> Judgements(r.asserts)]
BY Zenon DEF Shows, ShowSteps, ShowStep, Judgements, Judgement, Content

LEMMA ShowNone == ASSUME NEW st, st.files = <<>> PROVE ShowStep(st) = <<st.id, st.outcome, <<>>>>
<1>1. [j \in DOMAIN st.files |-> Content(st.files[j])] = <<>>
  OBVIOUS
<1> QED BY <1>1, Zenon DEF ShowStep

LEMMA ShowOne ==
  ASSUME NEW st, NEW p, st.files = <<p>>
  PROVE  ShowStep(st) = <<st.id, st.outcome, <<Content(p)>>>>
<1>1. DOMAIN st.files = {1} /\ st.files[1] = p
  OBVIOUS
<1>2. [j \in DOMAIN st.files |-> Content(st.files[j])] = [j \in {1} |-> Content(p)]
  BY <1>1
<1>3. [j \in {1} |-> Content(p)] = <<Content(p)>>
  OBVIOUS
<1> QED BY <1>2, <1>3, Zenon DEF ShowStep

LEMMA CompareNone ==
  ASSUME NEW l, NEW r, l.files = <<>>, r.files = <<>>
  PROVE  ~compareArtifactContents(l, r)
BY DEF compareArtifactContents

LEMMA CompareLess ==
  ASSUME NEW l, NEW r, NEW p,
         (l.files = <<>> /\ r.files = <<p>>) \/ (l.files = <<p>> /\ r.files = <<>>)
  PROVE  compareArtifactContents(l, r)
<1>1. Len(<<p>>) = 1 /\ Len(<<>>) = 0
  OBVIOUS
<1>2. Len(l.files) # Len(r.files)
  BY <1>1
<1> QED BY <1>2, Zenon DEF compareArtifactContents

LEMMA CompareBoth ==
  ASSUME NEW l, NEW r, NEW p, NEW q, l.files = <<p>>, r.files = <<q>>
  PROVE  compareArtifactContents(l, r) <=>
           p \notin DOMAIN disk \/ q \notin DOMAIN disk \/ Content(p) # Content(q)
<1>1. Len(l.files) = Len(r.files) /\ DOMAIN l.files = {1} /\ l.files[1] = p /\ r.files[1] = q
  OBVIOUS
<1>2. compareArtifactContents(l, r) <=>
        \/ {p, q} \ DOMAIN disk # {}
        \/ normalizeArtifactContent(disk[p]) # normalizeArtifactContent(disk[q])
  BY <1>1 DEF compareArtifactContents
<1>3. normalizeArtifactContent(disk[p]) = Content(p) /\ normalizeArtifactContent(disk[q]) = Content(q)
  BY Zenon DEF normalizeArtifactContent, Content
<1>4. ({p, q} \ DOMAIN disk # {}) <=> (p \notin DOMAIN disk \/ q \notin DOMAIN disk)
  OBVIOUS
<1> QED BY <1>2, <1>3, <1>4, Zenon

\* One step of the baseline, as it is read (l), and one of a run (q, read as r).
SameStep(l, r) == l.id = r.id /\ l.outcome = r.outcome /\ ~compareArtifactContents(l, r)
Reads(b, l, g) ==
  /\ l.id = b.id /\ l.outcome = b.outcome
  /\ \/ b.files = <<>> /\ l.files = <<>>
     \/ absolute /\ l.files = <<BaseFile(g, b.id)>>
     \/ ~absolute /\ \E z : l.files = <<z>> /\ z \notin DOMAIN disk
  /\ (b.files = <<>>) <=> (l.files = <<>>)
Runs(q, r, d) ==
  /\ q.id = r.id /\ q.outcome = r.outcome
  /\ \/ q.files = <<>> /\ r.files = <<>>
     \/ /\ absolute /\ q.files = <<RunFile(d, q.id)>> /\ r.files = <<RunFile(d, q.id)>>
        /\ RunFile(d, q.id) \in DOMAIN disk
     \/ ~absolute /\ q.files # <<>> /\ \E z : r.files = <<z>>

LEMMA StepCompared ==
  ASSUME absolute \in BOOLEAN, NEW b, NEW l, NEW q, NEW r, NEW t, NEW g, NEW d, NEW e,
         Held(b, t, g, e), Reads(b, l, g), Runs(q, r, d)
  PROVE  SameStep(l, r) <=> (t = ShowStep(q) /\ (absolute \/ q.files = <<>>))
<1>1. PICK c : c = t[3]
  OBVIOUS
<1>2. t = <<b.id, b.outcome, c>>
  BY <1>1, Zenon DEF Held
<1>3. l.id = b.id /\ l.outcome = b.outcome /\ q.id = r.id /\ q.outcome = r.outcome
  BY DEF Reads, Runs
<1>5. \A x : <<x>> # <<>>
  OBVIOUS
<1>7. CASE b.files = <<>>
  <2>1. c = <<>> /\ l.files = <<>>
    BY <1>1, <1>5, <1>7, Zenon DEF Held, Reads
  <2>2. CASE q.files = <<>>
    <3>1. r.files = <<>>
      BY <1>5, <2>2, Zenon DEF Runs
    <3>2. ~compareArtifactContents(l, r)
      BY <2>1, <3>1, CompareNone
    <3>3. ShowStep(q) = <<q.id, q.outcome, <<>>>>
      BY <2>2, ShowNone
    <3>4. t = ShowStep(q) <=> b.id = q.id /\ b.outcome = q.outcome
      BY <1>2, <2>1, <3>3
    <3> QED BY <1>3, <2>2, <3>2, <3>4, Zenon DEF SameStep
  <2>3. CASE q.files # <<>>
    <3>1. PICK z : r.files = <<z>>
      BY <2>3, Zenon DEF Runs
    <3>2. compareArtifactContents(l, r)
      BY <2>1, <3>1, CompareLess
    <3>3. absolute => t # ShowStep(q)
      <4> SUFFICES ASSUME absolute PROVE t # ShowStep(q)
        OBVIOUS
      <4>1. PICK p : q.files = <<p>>
        BY <2>3, Zenon DEF Runs
      <4>2. ShowStep(q) = <<q.id, q.outcome, <<Content(p)>>>>
        BY <4>1, ShowOne
      <4> QED BY <1>2, <2>1, <4>2
    <3> QED BY <2>3, <3>2, <3>3, Zenon DEF SameStep
  <2> QED BY <2>2, <2>3, Zenon
<1>8. CASE b.files # <<>> /\ absolute
  <2>1. l.files = <<BaseFile(g, b.id)>> /\ BaseFile(g, b.id) \in DOMAIN disk /\ c = <<Content(BaseFile(g, b.id))>>
    <3>1. c = <<normalizeArtifactContent(disk[BaseFile(g, b.id)])>> /\ BaseFile(g, b.id) \in DOMAIN disk
      BY <1>1, <1>8, Zenon DEF Held
    <3>2. l.files = <<BaseFile(g, b.id)>>
      BY <1>8, Zenon DEF Reads
    <3> QED BY <3>1, <3>2, Zenon DEF normalizeArtifactContent, Content
  <2>2. CASE q.files = <<>>
    <3>1. r.files = <<>>
      BY <1>5, <2>2, Zenon DEF Runs
    <3>2. compareArtifactContents(l, r)
      BY <2>1, <3>1, CompareLess
    <3>3. ShowStep(q) = <<q.id, q.outcome, <<>>>>
      BY <2>2, ShowNone
    <3>4. t # ShowStep(q)
      BY <1>2, <2>1, <3>3
    <3> QED BY <3>2, <3>4, Zenon DEF SameStep
  <2>3. CASE q.files # <<>>
    <3>1. PICK p : p = RunFile(d, q.id)
      OBVIOUS
    <3>2. q.files = <<p>> /\ r.files = <<p>> /\ p \in DOMAIN disk
      BY <1>8, <2>3, <3>1, Zenon DEF Runs
    <3>3. compareArtifactContents(l, r) <=> Content(BaseFile(g, b.id)) # Content(p)
      BY <2>1, <3>2, CompareBoth
    <3>4. ShowStep(q) = <<q.id, q.outcome, <<Content(p)>>>>
      BY <3>2, ShowOne
    <3>5. t = ShowStep(q) <=> b.id = q.id /\ b.outcome = q.outcome /\ Content(BaseFile(g, b.id)) = Content(p)
      BY <1>2, <2>1, <3>4
    <3> QED BY <1>3, <1>8, <3>3, <3>5, Zenon DEF SameStep
  <2> QED BY <2>2, <2>3, Zenon
<1>9. CASE b.files # <<>> /\ ~absolute
  <2>1. PICK z : l.files = <<z>> /\ z \notin DOMAIN disk
    BY <1>9, Zenon DEF Reads
  <2>2. PICK x : c = <<x>>
    BY <1>1, <1>9, Zenon DEF Held
  <2>3. compareArtifactContents(l, r)
    <3>1. CASE q.files = <<>>
      <4>1. r.files = <<>>
        BY <1>5, <3>1, Zenon DEF Runs
      <4> QED BY <2>1, <4>1, CompareLess
    <3>2. CASE q.files # <<>>
      <4>1. PICK y : r.files = <<y>>
        BY <1>9, <3>2, Zenon DEF Runs
      <4> QED BY <2>1, <4>1, CompareBoth
    <3> QED BY <3>1, <3>2, Zenon
  <2>4. q.files = <<>> => t # ShowStep(q)
    <3> SUFFICES ASSUME q.files = <<>> PROVE t # ShowStep(q)
      OBVIOUS
    <3>1. ShowStep(q) = <<q.id, q.outcome, <<>>>>
      BY ShowNone
    <3> QED BY <1>2, <2>2, <3>1
  <2> QED BY <1>9, <2>3, <2>4, Zenon DEF SameStep
<1> QED BY <1>7, <1>8, <1>9, Zenon

-----------------------------------------------------------------------------
LEMMA BaseRead ==
  ASSUME absolute \in BOOLEAN, FilesPlaced, NEW b, NEW g, NEW t, Kept(b, g, t),
         NEW l, l = resolveReportPaths(b, BaseDir(g))
  PROVE  /\ l.name = b.name /\ l.passed = b.passed /\ l.asserts = b.asserts /\ l.dir = b.dir
         /\ l.steps \in Seq(ToSet(l.steps)) /\ Len(l.steps) = Len(b.steps)
         /\ \A i \in DOMAIN b.steps : Reads(b.steps[i], l.steps[i], g)
<1> DEFINE fsOf(i) == resolveReportFileList(b.steps[i].files, BaseDir(g))
<1> DEFINE ss == [i \in DOMAIN b.steps |-> [b.steps[i] EXCEPT !.files = fsOf(i)]]
<1>1. ReportForm(b) /\ b = Fields(b, b.steps) /\ b.steps \in Seq(ToSet(b.steps)) /\ RunDirOf(b.dir)
  BY DEF Kept, ReportForm
<1>2. l = [b EXCEPT !.steps = ss]
  BY Zenon DEF resolveReportPaths
<1>3. PICK n \in Nat : n = Len(b.steps) /\ DOMAIN b.steps = 1..n
  BY <1>1
<1>4. ASSUME NEW i \in 1..n PROVE Reads(b.steps[i], ss[i], g)
  <2>1. PICK st : st = b.steps[i]
    OBVIOUS
  <2>2. StepForm(st)
    BY <1>1, <1>3, <1>4, <2>1, Zenon DEF ReportForm
  <2>3. Held(st, t.steps[i], g, b.dir)
    BY <1>3, <1>4, <2>1, Zenon DEF Kept
  <2>4. PICK fs : fs = resolveReportFileList(st.files, BaseDir(g))
    OBVIOUS
  <2>5. PICK su : su = ss[i]
    OBVIOUS
  <2>6. su = [id |-> st.id, outcome |-> st.outcome, files |-> fs]
    <3>1. su = [st EXCEPT !.files = fs]
      BY <1>3, <1>4, <2>1, <2>4, <2>5, Zenon
    <3> QED BY <2>2, <3>1, WithFiles
  <2>7. su.id = st.id /\ su.outcome = st.outcome /\ su.files = fs
    BY <2>6
  <2>8. CASE st.files = <<>>
    <3>1. fs = <<>>
      BY <2>4, <2>8 DEF resolveReportFileList
    <3> QED BY <2>1, <2>5, <2>7, <2>8, <3>1, Zenon DEF Reads
  <2>9. CASE absolute /\ st.files = <<snapshotPath(st)>> /\ BaseFile(g, st.id) \in DOMAIN disk
    <3>1. resolveReportFilePath(<<"artifacts", st.id>>, BaseDir(g)) = BaseFile(g, st.id)
      BY <2>9, ResolveBase
    <3>2. st.files = <<<<"artifacts", st.id>>>>
      BY <2>9, Zenon DEF snapshotPath
    <3>3. PICK p : p = BaseFile(g, st.id)
      OBVIOUS
    <3>4. resolveReportFileList(st.files, BaseDir(g)) = <<p>>
      BY <3>1, <3>2, <3>3, OneFile
    <3>5. <<p>> # <<>> /\ st.files # <<>>
      BY <3>2
    <3> QED BY <2>1, <2>4, <2>5, <2>7, <2>9, <3>3, <3>4, <3>5, Zenon DEF Reads
  <2>10. CASE ~absolute /\ st.files = <<FilePath(b.dir, st.id, TRUE)>>
    <3>1. PICK p : p = FilePath(b.dir, st.id, TRUE)
      OBVIOUS
    <3>2. PICK z : z = resolveReportFilePath(p, BaseDir(g))
      OBVIOUS
    <3>3. z \notin DOMAIN disk
      BY <1>1, <2>10, <3>1, <3>2, ResolveGone
    <3>4. st.files = <<p>>
      BY <2>10, <3>1, Zenon
    <3>5. resolveReportFileList(st.files, BaseDir(g)) = <<z>>
      BY <3>2, <3>4, OneFile
    <3>6. <<z>> # <<>> /\ st.files # <<>>
      BY <3>4
    <3> QED BY <2>1, <2>4, <2>5, <2>7, <2>10, <3>3, <3>5, <3>6, Zenon DEF Reads
  <2> QED BY <2>3, <2>8, <2>9, <2>10, Zenon DEF Held
<1>5. PICK su : su = ss
  OBVIOUS
<1>6. DOMAIN su = 1..n /\ su = [i \in 1..n |-> su[i]]
  BY <1>3, <1>5, Zenon
<1> HIDE DEF ss
<1>7. l = Fields(b, su)
  BY <1>1, <1>2, <1>5, WithSteps, Zenon
<1>8. /\ l.name = b.name /\ l.dir = b.dir /\ l.passed = b.passed
      /\ l.steps = su /\ l.asserts = b.asserts
  BY <1>7, FieldsOf
<1>9. l.steps \in Seq(ToSet(l.steps)) /\ Len(l.steps) = n
  BY <1>6, <1>8, SeqFun
<1>10. \A i \in DOMAIN b.steps : Reads(b.steps[i], l.steps[i], g)
  BY <1>3, <1>4, <1>5, <1>8, Zenon
<1> QED BY <1>3, <1>8, <1>9, <1>10

LEMMA RunRead ==
  ASSUME absolute \in BOOLEAN, FilesPlaced, NEW q, Report(q, FALSE), OnDisk(q, DOMAIN disk),
         NEW r, r = resolveReportPaths(q, q.dir)
  PROVE  \A i \in DOMAIN q.steps : Runs(q.steps[i], r.steps[i], q.dir)
<1>1. Report(r, ~absolute) /\ SameRun(q, r)
  BY ResolveReport
<1> SUFFICES ASSUME NEW i \in DOMAIN q.steps PROVE Runs(q.steps[i], r.steps[i], q.dir)
  OBVIOUS
<1>2. PICK a : a = q.steps[i]
  OBVIOUS
<1>3. PICK c : c = r.steps[i]
  OBVIOUS
<1>4. a.id = c.id /\ a.outcome = c.outcome /\ ((a.files = <<>>) <=> (c.files = <<>>)) /\ q.dir = r.dir
  BY <1>1, <1>2, <1>3, Zenon DEF SameRun
<1>5. a.files = <<>> \/ a.files = <<FilePath(q.dir, a.id, FALSE)>>
  BY <1>2, Zenon DEF Report
<1>6. i \in DOMAIN r.steps
  BY <1>1, Zenon DEF SameRun
<1>7. c.files = <<>> \/ c.files = <<FilePath(q.dir, c.id, ~absolute)>>
  BY <1>1, <1>3, <1>4, <1>6, Zenon DEF Report
<1>8. FilePath(q.dir, a.id, FALSE) = RunFile(q.dir, a.id)
  BY Zenon DEF FilePath
<1>9. CASE a.files = <<>>
  BY <1>2, <1>3, <1>4, <1>9, Zenon DEF Runs
<1>10. CASE a.files # <<>> /\ absolute
  <2>1. FilePath(q.dir, c.id, ~absolute) = RunFile(q.dir, a.id)
    BY <1>4, <1>10, Zenon DEF FilePath
  <2>2. a.files = <<RunFile(q.dir, a.id)>> /\ c.files = <<RunFile(q.dir, a.id)>>
    BY <1>4, <1>5, <1>7, <1>8, <1>10, <2>1, Zenon
  <2>3. RunFile(q.dir, a.id) \in DOMAIN disk
    <3>1. \A j \in DOMAIN a.files : a.files[j] \in DOMAIN disk
      BY <1>2, Zenon DEF OnDisk
    <3>2. 1 \in DOMAIN a.files /\ a.files[1] = RunFile(q.dir, a.id)
      BY <2>2
    <3> QED BY <3>1, <3>2, Zenon
  <2> QED BY <1>2, <1>3, <1>4, <1>10, <2>2, <2>3, Zenon DEF Runs
<1>11. CASE a.files # <<>> /\ ~absolute
  <2>1. \E z : c.files = <<z>>
    BY <1>4, <1>7, <1>11, Zenon
  <2> QED BY <1>2, <1>3, <1>4, <1>11, <2>1, Zenon DEF Runs
<1> QED BY <1>9, <1>10, <1>11, Zenon

\* The verdicts of two reports, whose roots are those of the reports.
SameVerdict(l, u, r, v) ==
  /\ u.kind = v.kind /\ u.step = v.step /\ u.passed = v.passed
  /\ normalizeAssertionDetails(l, u) = normalizeAssertionDetails(r, v)

LEMMA VerdictCompared ==
  ASSUME NEW l, NEW r, NEW u, NEW v, u.root \in {<<>>, l.dir}, v.root \in {<<>>, r.dir}
  PROVE  SameVerdict(l, u, r, v) <=> Judgement(u) = Judgement(v)
<1>1. normalizeAssertionDetails(l, u) = <<u.details, <<>>>>
  BY Zenon DEF normalizeAssertionDetails
<1>2. normalizeAssertionDetails(r, v) = <<v.details, <<>>>>
  BY Zenon DEF normalizeAssertionDetails
<1>3. normalizeAssertionDetails(l, u) = normalizeAssertionDetails(r, v) <=> u.details = v.details
  BY <1>1, <1>2
<1>4. Judgement(u) = Judgement(v) <=>
        u.kind = v.kind /\ u.step = v.step /\ u.passed = v.passed /\ u.details = v.details
  BY DEF Judgement
<1> QED BY <1>3, <1>4, Zenon DEF SameVerdict

Rooted(r) == r.asserts \in Seq(ToSet(r.asserts)) /\ \A i \in DOMAIN r.asserts : r.asserts[i].root \in {<<>>, r.dir}

LEMMA AssertsCompared ==
  ASSUME NEW l, NEW r, Rooted(l), Rooted(r)
  PROVE  (Len(l.asserts) = Len(r.asserts) /\ \A i \in DOMAIN l.asserts : SameVerdict(l, l.asserts[i], r, r.asserts[i]))
         <=> Judgements(l.asserts) = Judgements(r.asserts)
<1>1. PICK n \in Nat : n = Len(l.asserts) /\ DOMAIN l.asserts = 1..n
  BY DEF Rooted
<1>2. PICK m \in Nat : m = Len(r.asserts) /\ DOMAIN r.asserts = 1..m
  BY DEF Rooted
<1>3. PICK J : J = Judgements(l.asserts) /\ J = [i \in 1..n |-> Judgement(l.asserts[i])]
  BY <1>1, Zenon DEF Judgements
<1>4. PICK K : K = Judgements(r.asserts) /\ K = [i \in 1..m |-> Judgement(r.asserts[i])]
  BY <1>2, Zenon DEF Judgements
<1>5. ASSUME n = m, NEW i \in 1..n
      PROVE  SameVerdict(l, l.asserts[i], r, r.asserts[i]) <=> J[i] = K[i]
  <2>1. J[i] = Judgement(l.asserts[i]) /\ K[i] = Judgement(r.asserts[i])
    BY <1>3, <1>4, <1>5, Zenon
  <2>2. l.asserts[i].root \in {<<>>, l.dir} /\ r.asserts[i].root \in {<<>>, r.dir}
    BY <1>1, <1>2, <1>5, Zenon DEF Rooted
  <2> QED BY <2>1, <2>2, VerdictCompared
<1>6. ASSUME n = m, \A i \in 1..n : J[i] = K[i] PROVE J = K
  BY <1>3, <1>4, <1>6
<1>7. ASSUME J = K PROVE n = m
  <2>1. DOMAIN J = 1..n /\ DOMAIN K = 1..m
    BY <1>3, <1>4, Zenon
  <2>2. 1..n = 1..m
    BY <1>7, <2>1, Zenon
  <2> QED BY <2>2
<1> QED BY <1>1, <1>2, <1>3, <1>4, <1>5, <1>6, <1>7, Zenon

-----------------------------------------------------------------------------
LEMMA DiffIs ==
  ASSUME NEW l, NEW r
  PROVE  ~DiffReports(l, r) <=>
           /\ l.name = r.name /\ l.passed = r.passed
           /\ Len(l.steps) = Len(r.steps)
           /\ \A i \in DOMAIN l.steps : SameStep(l.steps[i], r.steps[i])
           /\ Len(l.asserts) = Len(r.asserts)
           /\ \A i \in DOMAIN l.asserts : SameVerdict(l, l.asserts[i], r, r.asserts[i])
BY Zenon DEF DiffReports, SameStep, SameVerdict

LEMMA ReportsCompared ==
  ASSUME absolute \in BOOLEAN, FilesPlaced, NEW b, NEW g, NEW t, Kept(b, g, t),
         NEW q, Report(q, FALSE), OnDisk(q, DOMAIN disk)
  PROVE  ~DiffReports(resolveReportPaths(b, BaseDir(g)), resolveReportPaths(q, q.dir)) <=>
           (t = Shows(q) /\ (absolute \/ \A i \in DOMAIN q.steps : q.steps[i].files = <<>>))
<1>1. PICK l : l = resolveReportPaths(b, BaseDir(g))
  OBVIOUS
<1>2. PICK r : r = resolveReportPaths(q, q.dir)
  OBVIOUS
<1>3. /\ l.name = b.name /\ l.passed = b.passed /\ l.asserts = b.asserts /\ l.dir = b.dir
      /\ l.steps \in Seq(ToSet(l.steps)) /\ Len(l.steps) = Len(b.steps)
      /\ \A i \in DOMAIN b.steps : Reads(b.steps[i], l.steps[i], g)
  BY <1>1, BaseRead
<1>4. \A i \in DOMAIN q.steps : Runs(q.steps[i], r.steps[i], q.dir)
  BY <1>2, RunRead
<1>5. Report(r, ~absolute) /\ SameRun(q, r)
  BY <1>2, ResolveReport
<1>6. q.name = r.name /\ q.passed = r.passed /\ q.asserts = r.asserts /\ q.dir = r.dir
  BY <1>5, Zenon DEF SameRun
<1>7. PICK n \in Nat : n = Len(b.steps) /\ DOMAIN b.steps = 1..n /\ n = Len(l.steps) /\ DOMAIN l.steps = 1..n
  <2>1. b.steps \in Seq(ToSet(b.steps))
    BY DEF Kept, ReportForm
  <2> QED BY <1>3, <2>1
<1>8. PICK m \in Nat : m = Len(r.steps) /\ DOMAIN q.steps = 1..m
  <2>1. r.steps \in Seq(ToSet(r.steps)) /\ DOMAIN q.steps = DOMAIN r.steps
    BY <1>5 DEF Report, ReportForm, SameRun
  <2> QED BY <2>1
<1>9. Rooted(l) /\ Rooted(r)
  <2>1. Rooted(l)
    BY <1>3, Zenon DEF Kept, ReportForm, Rooted
  <2>2. Rooted(r)
    BY <1>5, Zenon DEF Report, ReportForm, Rooted
  <2> QED BY <2>1, <2>2
<1>10. (/\ Len(l.asserts) = Len(r.asserts)
        /\ \A i \in DOMAIN l.asserts : SameVerdict(l, l.asserts[i], r, r.asserts[i]))
       <=> Judgements(b.asserts) = Judgements(q.asserts)
  <2>1. (/\ Len(l.asserts) = Len(r.asserts)
         /\ \A i \in DOMAIN l.asserts : SameVerdict(l, l.asserts[i], r, r.asserts[i]))
        <=> Judgements(l.asserts) = Judgements(r.asserts)
    BY <1>9, AssertsCompared
  <2> QED BY <1>3, <1>6, <2>1, Zenon
<1>11. PICK T : T = t.steps /\ T = [i \in 1..n |-> T[i]]
  BY <1>7, Zenon DEF Kept
<1>12. PICK Q : Q = ShowSteps(q.steps) /\ Q = [i \in 1..m |-> ShowStep(q.steps[i])]
  BY <1>8, Zenon DEF ShowSteps
<1>13. ASSUME n = m, NEW i \in 1..n
       PROVE  SameStep(l.steps[i], r.steps[i]) <=>
                (T[i] = Q[i] /\ (absolute \/ q.steps[i].files = <<>>))
  <2>1. Q[i] = ShowStep(q.steps[i])
    BY <1>12, <1>13, Zenon
  <2>2. Held(b.steps[i], T[i], g, b.dir)
    BY <1>7, <1>11, <1>13, Zenon DEF Kept
  <2>3. Reads(b.steps[i], l.steps[i], g) /\ Runs(q.steps[i], r.steps[i], q.dir)
    BY <1>3, <1>4, <1>7, <1>8, <1>13, Zenon
  <2> QED BY <2>1, <2>2, <2>3, StepCompared
<1>14. ASSUME n = m, \A i \in 1..n : T[i] = Q[i] PROVE T = Q
  BY <1>11, <1>12, <1>14
<1>15. ASSUME T = Q PROVE n = m
  <2>1. DOMAIN T = 1..n /\ DOMAIN Q = 1..m
    BY <1>11, <1>12, Zenon
  <2>2. 1..n = 1..m
    BY <1>15, <2>1, Zenon
  <2> QED BY <2>2
<1>16. t = Shows(q) <=> b.name = q.name /\ b.passed = q.passed /\ T = Q
                        /\ Judgements(b.asserts) = Judgements(q.asserts)
  <2>1. t = [name |-> b.name, passed |-> b.passed, steps |-> T, asserts |-> Judgements(b.asserts)]
    BY <1>11, Zenon DEF Kept, Judgements
  <2>2. Shows(q) = [name |-> q.name, passed |-> q.passed, steps |-> Q, asserts |-> Judgements(q.asserts)]
    BY <1>12, ShowsIs, Zenon
  <2> QED BY <2>1, <2>2
<1>17. (n = m /\ \A i \in 1..n : SameStep(l.steps[i], r.steps[i])) <=>
         (T = Q /\ (absolute \/ \A i \in DOMAIN q.steps : q.steps[i].files = <<>>))
  BY <1>8, <1>13, <1>14, <1>15, Zenon
<1>18. ~DiffReports(l, r) <=>
           /\ b.name = q.name /\ b.passed = q.passed
           /\ n = m /\ \A i \in 1..n : SameStep(l.steps[i], r.steps[i])
           /\ Judgements(b.asserts) = Judgements(q.asserts)
  BY <1>3, <1>6, <1>7, <1>8, <1>10, DiffIs, Zenon
<1>19. ~DiffReports(l, r) <=>
           (t = Shows(q) /\ (absolute \/ \A i \in DOMAIN q.steps : q.steps[i].files = <<>>))
  BY <1>16, <1>17, <1>18, Zenon
<1> QED BY <1>1, <1>2, <1>19, Zenon

\* What a check says of one run.
Passes(d) ==
  LET r == resolveReportPaths(dirs[d], d)
      g == slugify[r.name]
  IN /\ g \in DOMAIN base /\ base[g] # NoReport
     /\ ~DiffReports(resolveReportPaths(base[g], BaseDir(g)), r)
Unchanged(d) ==
  /\ slugify[dirs[d].name] \in DOMAIN truth
  /\ truth[slugify[dirs[d].name]] = Shows(dirs[d])
  /\ absolute \/ \A i \in DOMAIN dirs[d].steps : dirs[d].steps[i].files = <<>>

LEMMA CheckedOne ==
  ASSUME HInv, HarnessIdle, NEW d \in DOMAIN dirs, dirs[d] # NoReport, slugify[dirs[d].name] \notin doubtful
  PROVE  Passes(d) <=> Unchanged(d)
<1>1. absolute \in BOOLEAN /\ FilesPlaced
  BY DEF HInv, Counters
<1>2. PICK q : q = dirs[d]
  OBVIOUS
<1>3. Report(q, FALSE) /\ OnDisk(q, DOMAIN disk) /\ q.dir = d
  BY <1>2, Zenon DEF HInv, RunsKept
<1>4. PICK r : r = resolveReportPaths(q, q.dir)
  OBVIOUS
<1>5. r.name = q.name
  <2>1. SameRun(q, r)
    BY <1>1, <1>3, <1>4, ResolveReport
  <2> QED BY <2>1, Zenon DEF SameRun
<1>6. PICK g : g = slugify[q.name]
  OBVIOUS
<1>7. copied = NoReport
  BY Zenon DEF HarnessIdle, HInv, SavesKept
<1>8. Passes(d) <=> /\ g \in DOMAIN base /\ base[g] # NoReport
                    /\ ~DiffReports(resolveReportPaths(base[g], BaseDir(g)), r)
  BY <1>2, <1>3, <1>4, <1>5, <1>6, Zenon DEF Passes
<1>9. Unchanged(d) <=> /\ g \in DOMAIN truth /\ truth[g] = Shows(q)
                       /\ absolute \/ \A i \in DOMAIN q.steps : q.steps[i].files = <<>>
  BY <1>2, <1>6, Zenon DEF Unchanged
<1>10. g \notin doubtful
  BY <1>2, <1>6, Zenon
<1>11. CASE g \notin DOMAIN truth
  <2>1. g \notin DOMAIN base
    BY <1>10, <1>11, Zenon DEF HInv, Remembered
  <2> QED BY <1>8, <1>9, <1>11, <2>1, Zenon
<1>12. CASE g \in DOMAIN truth
  <2>1. g \in DOMAIN base /\ Kept(base[g], g, truth[g])
    BY <1>7, <1>10, <1>12, Zenon DEF HInv, Remembered, Copying
  <2>2. base[g] # NoReport
    <3>1. ReportForm(base[g])
      BY <2>1, Zenon DEF Kept
    <3> QED BY <3>1, FormNotNone
  <2>3. ~DiffReports(resolveReportPaths(base[g], BaseDir(g)), resolveReportPaths(q, q.dir)) <=>
           (truth[g] = Shows(q) /\ (absolute \/ \A i \in DOMAIN q.steps : q.steps[i].files = <<>>))
    BY <1>1, <1>3, <2>1, ReportsCompared
  <2> QED BY <1>4, <1>8, <1>9, <1>12, <2>1, <2>2, <2>3, Zenon
<1> QED BY <1>11, <1>12

LEMMA CheckHonestNow == ASSUME HInv PROVE CheckHonest
<1> SUFFICES ASSUME HarnessIdle, Collectable, NEW scope \in Scopes,
                    \A d \in InScope(scope) : slugify[dirs[d].name] \notin doubtful
             PROVE  CheckBaseline(scope) <=> \A d \in InScope(scope) : Unchanged(d)
  BY Zenon DEF CheckHonest, Unchanged
<1>1. PICK R : R = CollectRunReports(scope)
  OBVIOUS
<1>2. PICK D : D = InScope(scope)
  OBVIOUS
<1>3. PICK f : Lists(f, R, D)
  BY <1>1, <1>2, Collected
<1>4. \A d \in D : Passes(d) <=> Unchanged(d)
  <2> SUFFICES ASSUME NEW d \in D PROVE Passes(d) <=> Unchanged(d)
    OBVIOUS
  <2>1. d \in DOMAIN dirs /\ dirs[d] # NoReport /\ slugify[dirs[d].name] \notin doubtful
    BY <1>2, Zenon DEF InScope, Collectable
  <2> QED BY <2>1, CheckedOne
<1>5. CheckBaseline(scope) <=> \A i \in DOMAIN R : Passes(f[i])
  <2>1. ASSUME NEW i \in DOMAIN R
        PROVE  Passes(f[i]) <=>
                 /\ slugify[R[i].name] \in DOMAIN base /\ base[slugify[R[i].name]] # NoReport
                 /\ ~DiffReports(resolveReportPaths(base[slugify[R[i].name]], BaseDir(slugify[R[i].name])), R[i])
    <3>1. R[i] = resolveReportPaths(dirs[f[i]], f[i])
      BY <1>3, <2>1, Zenon DEF Lists
    <3> QED BY <3>1, Zenon DEF Passes
  <2>2. CheckBaseline(scope) <=> \A i \in DOMAIN R :
          /\ slugify[R[i].name] \in DOMAIN base /\ base[slugify[R[i].name]] # NoReport
          /\ ~DiffReports(resolveReportPaths(base[slugify[R[i].name]], BaseDir(slugify[R[i].name])), R[i])
    BY <1>1, Zenon DEF CheckBaseline
  <2> QED BY <2>1, <2>2, Zenon
<1>6. (\A i \in DOMAIN R : Passes(f[i])) <=> (\A d \in D : Passes(d))
  BY <1>3, Zenon DEF Lists
<1> QED BY <1>2, <1>4, <1>5, <1>6, Zenon

-----------------------------------------------------------------------------
(* BuildRollup: what the pass over the first k reports has found. *)

RunsOf(R, k, n) == {i \in 1..k : R[i].name = n}
FailingOf(R, k, n) == {i \in 1..k : R[i].name = n /\ ~R[i].passed}
Tally(acc, n) == IF n \in DOMAIN acc THEN acc[n] ELSE NoStats
LatestIs(st, R, k, n, m) ==
  /\ m \in RunsOf(R, k, n) /\ \A i \in RunsOf(R, k, n) : i <= m
  /\ st.latest = R[m].dir /\ st.latestSecond = R[m].second /\ st.latestError = R[m].error
Tallies(st, R, k, n) ==
  /\ st.runs = Cardinality(RunsOf(R, k, n)) /\ st.failed = Cardinality(FailingOf(R, k, n))
  /\ st.passed \in Nat /\ st.passed + st.failed = st.runs
  /\ \/ RunsOf(R, k, n) = {} /\ st.latestSecond = 0
     \/ \E m : LatestIs(st, R, k, n, m)
SumsTo(acc, R, k) ==
  /\ DOMAIN acc = {R[i].name : i \in 1..k}
  /\ \A n : Tallies(Tally(acc, n), R, k, n)
Chronicle(R) ==
  /\ \A i \in DOMAIN R : R[i].passed \in BOOLEAN /\ R[i].second \in Nat
  /\ \A i, k \in DOMAIN R : i < k => R[i].second <= R[k].second

LEMMA RunsOfFinite ==
  ASSUME NEW R, NEW k \in Nat, NEW n
  PROVE  /\ IsFiniteSet(RunsOf(R, k, n)) /\ IsFiniteSet(FailingOf(R, k, n))
         /\ Cardinality(RunsOf(R, k, n)) \in Nat /\ Cardinality(FailingOf(R, k, n)) \in Nat
<1>1. IsFiniteSet(1..k)
  <2>1. 1 \in Int /\ k \in Int
    OBVIOUS
  <2> QED BY <2>1, FS_Interval
<1>2. RunsOf(R, k, n) \in SUBSET (1..k) /\ FailingOf(R, k, n) \in SUBSET (1..k)
  BY DEF RunsOf, FailingOf
<1>3. IsFiniteSet(RunsOf(R, k, n)) /\ IsFiniteSet(FailingOf(R, k, n))
  BY <1>1, <1>2, FS_Subset
<1> QED BY <1>3, FS_CardinalityType

LEMMA TallyOne ==
  ASSUME NEW X, NEW R \in Seq(X), Chronicle(R), NEW k \in Nat, k + 1 <= Len(R),
         NEW r, r = R[k + 1], NEW n, n = r.name, NEW st, Tallies(st, R, k, n),
         NEW su, su = RollupOne(st, r)
  PROVE  Tallies(su, R, k + 1, n)
<1>1. PICK N, F : N = RunsOf(R, k, n) /\ F = FailingOf(R, k, n)
  OBVIOUS
<1>2. k + 1 \notin N /\ k + 1 \notin F /\ \A i \in N : i < k + 1
  BY <1>1 DEF RunsOf, FailingOf
<1>3. RunsOf(R, k + 1, n) = N \cup {k + 1}
  BY <1>1 DEF RunsOf
<1>4. r.passed => FailingOf(R, k + 1, n) = F
  BY <1>1 DEF FailingOf
<1>5. ~r.passed => FailingOf(R, k + 1, n) = F \cup {k + 1}
  BY <1>1 DEF FailingOf
<1>6. IsFiniteSet(N) /\ IsFiniteSet(F) /\ Cardinality(N) \in Nat /\ Cardinality(F) \in Nat
  BY <1>1, RunsOfFinite
<1>7. Cardinality(N \cup {k + 1}) = Cardinality(N) + 1 /\ Cardinality(F \cup {k + 1}) = Cardinality(F) + 1
  BY <1>2, <1>6, FS_AddElement
<1>8. k + 1 \in DOMAIN R /\ r.passed \in BOOLEAN /\ r.second \in Nat
  BY DEF Chronicle
<1>9. r.second >= st.latestSecond
  <2>1. CASE st.latestSecond = 0
    BY <1>8, <2>1
  <2>2. CASE \E m : LatestIs(st, R, k, n, m)
    <3>1. PICK m : LatestIs(st, R, k, n, m)
      BY <2>2
    <3>2. m \in N /\ st.latestSecond = R[m].second
      BY <1>1, <3>1, Zenon DEF LatestIs
    <3>3. m \in DOMAIN R /\ m < k + 1
      BY <1>1, <3>2 DEF RunsOf
    <3>4. R[m].second <= R[k + 1].second /\ R[m].second \in Nat
      BY <1>8, <3>3, Zenon DEF Chronicle
    <3> QED BY <1>8, <3>2, <3>4
  <2> QED BY <2>1, <2>2, Zenon DEF Tallies
<1>10. /\ su.runs = st.runs + 1
       /\ su.passed = st.passed + IF r.passed THEN 1 ELSE 0
       /\ su.failed = st.failed + IF r.passed THEN 0 ELSE 1
       /\ su.latest = r.dir /\ su.latestSecond = r.second /\ su.latestError = r.error
  BY <1>9 DEF RollupOne, Newer
<1>11. st.runs = Cardinality(N) /\ st.failed = Cardinality(F) /\ st.passed \in Nat /\ st.passed + st.failed = st.runs
  BY <1>1, Zenon DEF Tallies
<1>12. LatestIs(su, R, k + 1, n, k + 1)
  <2>1. \A i \in N \cup {k + 1} : i <= k + 1
    BY <1>1 DEF RunsOf
  <2>2. k + 1 \in N \cup {k + 1}
    OBVIOUS
  <2> QED BY <1>3, <1>10, <2>1, <2>2, Zenon DEF LatestIs
<1>13. /\ su.runs = Cardinality(RunsOf(R, k + 1, n)) /\ su.failed = Cardinality(FailingOf(R, k + 1, n))
       /\ su.passed \in Nat /\ su.passed + su.failed = su.runs
  <2>0. PICK c \in Nat, e \in Nat : c = Cardinality(N) /\ e = Cardinality(F)
    BY <1>6
  <2>1. CASE r.passed
    <3>1. su.runs = c + 1 /\ su.passed = st.passed + 1 /\ su.failed = e + 0
      BY <1>10, <1>11, <2>0, <2>1, Zenon
    <3>2. st.passed \in Nat /\ st.passed + e = c
      BY <1>11, <2>0, Zenon
    <3>3. su.passed \in Nat /\ su.passed + su.failed = su.runs /\ su.failed = e
      BY <3>1, <3>2, SMTT(30)
    <3>4. Cardinality(RunsOf(R, k + 1, n)) = c + 1 /\ Cardinality(FailingOf(R, k + 1, n)) = e
      BY <1>3, <1>4, <1>7, <2>0, <2>1, Zenon
    <3> QED BY <3>1, <3>3, <3>4, Zenon
  <2>2. CASE ~r.passed
    <3>1. su.runs = c + 1 /\ su.passed = st.passed + 0 /\ su.failed = e + 1
      BY <1>10, <1>11, <2>0, <2>2, Zenon
    <3>2. st.passed \in Nat /\ st.passed + e = c
      BY <1>11, <2>0, Zenon
    <3>3. su.passed \in Nat /\ su.passed + su.failed = su.runs
      BY <3>1, <3>2
    <3>4. Cardinality(RunsOf(R, k + 1, n)) = c + 1 /\ Cardinality(FailingOf(R, k + 1, n)) = e + 1
      BY <1>3, <1>5, <1>7, <2>0, <2>2, Zenon
    <3> QED BY <3>1, <3>3, <3>4, Zenon
  <2> QED BY <2>1, <2>2
<1> QED BY <1>12, <1>13, Zenon DEF Tallies

LEMMA TallyAdds ==
  ASSUME NEW X, NEW R \in Seq(X), Chronicle(R), NEW k \in Nat, k + 1 <= Len(R),
         NEW acc, SumsTo(acc, R, k), NEW ac2, ac2 = RollupAdd(acc, R[k + 1])
  PROVE  SumsTo(ac2, R, k + 1)
<1>1. PICK r : r = R[k + 1]
  OBVIOUS
<1>2. PICK su : su = RollupOne(Tally(acc, r.name), r)
  OBVIOUS
<1>3. ac2 = [z \in DOMAIN acc \cup {r.name} |-> IF z = r.name THEN su ELSE acc[z]]
  BY <1>1, <1>2, Zenon DEF RollupAdd, Put, Tally
<1>4. DOMAIN ac2 = DOMAIN acc \cup {r.name}
  BY <1>3, Zenon
<1>5. DOMAIN ac2 = {R[i].name : i \in 1..(k + 1)}
  <2>1. DOMAIN acc = {R[i].name : i \in 1..k}
    BY DEF SumsTo
  <2> QED BY <1>1, <1>4, <2>1
<1>6. ASSUME NEW n PROVE Tallies(Tally(ac2, n), R, k + 1, n)
  <2>0. Tallies(Tally(acc, n), R, k, n)
    BY DEF SumsTo
  <2>1. CASE n = r.name
    <3>1. Tally(ac2, n) = su
      BY <1>3, <1>4, <2>1, Zenon DEF Tally
    <3>2. Tallies(su, R, k + 1, n)
      BY <1>1, <1>2, <2>0, <2>1, TallyOne
    <3> QED BY <3>1, <3>2, Zenon
  <2>2. CASE n # r.name
    <3>1. Tally(ac2, n) = Tally(acc, n)
      <4>1. n \in DOMAIN ac2 <=> n \in DOMAIN acc
        BY <1>4, <2>2, Zenon
      <4>2. n \in DOMAIN acc => ac2[n] = acc[n]
        BY <1>3, <2>2, Zenon
      <4> QED BY <4>1, <4>2, Zenon DEF Tally
    <3>2. RunsOf(R, k + 1, n) = RunsOf(R, k, n) /\ FailingOf(R, k + 1, n) = FailingOf(R, k, n)
      BY <1>1, <2>2 DEF RunsOf, FailingOf
    <3> QED BY <2>0, <3>1, <3>2, Zenon DEF Tallies, LatestIs
  <2> QED BY <2>1, <2>2
<1> QED BY <1>5, <1>6, Zenon DEF SumsTo

RollupSolves(f, R, n) == f = [k \in 0..n |-> IF k = 0 THEN <<>> ELSE RollupAdd(f[k - 1], R[k])]
RollupUpTo(R) ==
  LET upTo[k \in 0..Len(R)] == IF k = 0 THEN <<>> ELSE RollupAdd(upTo[k - 1], R[k])
  IN  upTo

LEMMA RollupExists ==
  ASSUME NEW R
  PROVE  \A n \in Nat : \E f : RollupSolves(f, R, n)
<1> DEFINE S == {n \in Nat : \E f : f = [k \in 0..n |-> IF k = 0 THEN <<>> ELSE RollupAdd(f[k - 1], R[k])]}
<1>1. 0 \in S
  <2>1. PICK f : f = [k \in 0..0 |-> <<>>]
    OBVIOUS
  <2>2. f = [k \in 0..0 |-> IF k = 0 THEN <<>> ELSE RollupAdd(f[k - 1], R[k])]
    BY <2>1
  <2> QED BY <2>2
<1>2. ASSUME NEW n \in Nat, n \in S PROVE n + 1 \in S
  <2>1. PICK g : g = [k \in 0..n |-> IF k = 0 THEN <<>> ELSE RollupAdd(g[k - 1], R[k])]
    BY <1>2
  <2>2. PICK h : h = [k \in 0..(n + 1) |-> IF k = n + 1 THEN RollupAdd(g[n], R[k]) ELSE g[k]]
    OBVIOUS
  <2>3. (\A k \in 0..n : h[k] = g[k]) /\ h[n + 1] = RollupAdd(g[n], R[n + 1])
    BY <2>2
  <2>4. ASSUME NEW k \in 0..n PROVE h[k] = IF k = 0 THEN <<>> ELSE RollupAdd(h[k - 1], R[k])
    <3>1. CASE k = 0
      BY <2>1, <2>3, <3>1
    <3>2. CASE k # 0
      <4>1. h[k - 1] = g[k - 1]
        BY <2>3, <3>2
      <4>2. h[k] = RollupAdd(g[k - 1], R[k])
        BY <2>1, <2>3, <3>2
      <4> QED BY <3>2, <4>1, <4>2
    <3> QED BY <3>1, <3>2
  <2>5. h[n + 1] = RollupAdd(h[(n + 1) - 1], R[n + 1])
    <3>1. h[(n + 1) - 1] = g[n]
      BY <2>3
    <3> QED BY <2>3, <3>1
  <2>6. \A k \in 0..(n + 1) : h[k] = IF k = 0 THEN <<>> ELSE RollupAdd(h[k - 1], R[k])
    BY <2>4, <2>5
  <2>7. h = [k \in 0..(n + 1) |-> IF k = 0 THEN <<>> ELSE RollupAdd(h[k - 1], R[k])]
    BY <2>2, <2>6
  <2> QED BY <2>7
<1>3. Nat \subseteq S
  <2> HIDE DEF S
  <2> QED BY <1>1, <1>2, Climb
<1> QED BY <1>3 DEF RollupSolves

LEMMA TallyStarts == ASSUME NEW R PROVE SumsTo(<<>>, R, 0)
<1>1. 1..0 = {} /\ DOMAIN <<>> = {}
  OBVIOUS
<1>2. ASSUME NEW n PROVE Tallies(Tally(<<>>, n), R, 0, n)
  <2>1. Tally(<<>>, n) = NoStats
    BY <1>1, Zenon DEF Tally
  <2>2. RunsOf(R, 0, n) = {} /\ FailingOf(R, 0, n) = {}
    BY <1>1, Zenon DEF RunsOf, FailingOf
  <2>3. Cardinality({}) = 0
    BY FS_EmptySet
  <2>4. NoStats.runs = 0 /\ NoStats.failed = 0 /\ NoStats.passed = 0 /\ NoStats.latestSecond = 0
    BY DEF NoStats
  <2>5. 0 \in Nat /\ 0 + 0 = 0
    OBVIOUS
  <2> QED BY <2>1, <2>2, <2>3, <2>4, <2>5, Zenon DEF Tallies
<1>3. DOMAIN <<>> = {R[i].name : i \in 1..0}
  BY <1>1
<1> QED BY <1>2, <1>3, Zenon DEF SumsTo

\* The whole pass.
LEMMA TallyAll ==
  ASSUME NEW X, NEW R \in Seq(X), Chronicle(R)
  PROVE  SumsTo(RollupAll(R), R, Len(R))
<1> DEFINE D == RollupUpTo(R)
<1>1. D = CHOOSE f : f = [k \in 0..Len(R) |-> IF k = 0 THEN <<>> ELSE RollupAdd(f[k - 1], R[k])]
  BY Zenon DEF RollupUpTo
<1>2. PICK n \in Nat : n = Len(R)
  OBVIOUS
<1>3. \E f : f = [k \in 0..Len(R) |-> IF k = 0 THEN <<>> ELSE RollupAdd(f[k - 1], R[k])]
  <2>1. \E f : RollupSolves(f, R, Len(R))
    BY <1>2, RollupExists
  <2> QED BY <2>1, Zenon DEF RollupSolves
<1>4. D = [k \in 0..Len(R) |-> IF k = 0 THEN <<>> ELSE RollupAdd(D[k - 1], R[k])]
  BY <1>1, <1>3, Zenon
<1>5. RollupAll(R) = D[Len(R)]
  BY Zenon DEF RollupAll, RollupUpTo
<1> HIDE DEF D
<1> DEFINE S == {k \in Nat : k <= n => SumsTo(D[k], R, k)}
<1>6. 0 \in S
  <2>1. D[0] = <<>>
    BY <1>2, <1>4
  <2> QED BY <2>1, TallyStarts
<1>7. ASSUME NEW k \in Nat, k \in S PROVE k + 1 \in S
  <2> SUFFICES ASSUME k + 1 <= n PROVE SumsTo(D[k + 1], R, k + 1)
    OBVIOUS
  <2>1. SumsTo(D[k], R, k)
    BY <1>7
  <2>2. D[k + 1] = RollupAdd(D[k], R[k + 1])
    <3>1. k + 1 \in 0..Len(R) /\ k + 1 # 0 /\ (k + 1) - 1 = k
      BY <1>2
    <3> QED BY <1>4, <3>1
  <2> QED BY <1>2, <2>1, <2>2, TallyAdds
<1>8. Nat \subseteq S
  <2> HIDE DEF S
  <2> QED BY <1>6, <1>7, Climb
<1>9. SumsTo(D[n], R, n)
  BY <1>8
<1> QED BY <1>2, <1>5, <1>9, Zenon

-----------------------------------------------------------------------------
LEMMA SameCount ==
  ASSUME NEW I, IsFiniteSet(I), NEW T, NEW f, \A i \in I : f[i] \in T,
         \A t \in T : \E i \in I : f[i] = t, \A i, k \in I : f[i] = f[k] => i = k
  PROVE  Cardinality(T) = Cardinality(I)
<1>1. PICK g : g = [i \in I |-> f[i]]
  OBVIOUS
<1>2. g \in [I -> T] /\ \A i \in I : g[i] = f[i]
  BY <1>1
<1>3. g \in Bijection(I, T)
  BY <1>2 DEF Bijection, Injection, Surjection, IsInjective
<1>4. ExistsBijection(I, T)
  BY <1>3, Zenon DEF ExistsBijection
<1> QED BY <1>4, FS_Bijection

OfName(D, n) == {d \in D : dirs[d].name = n}
FailedRun(d) == dirs[d].error \/ \E i \in DOMAIN dirs[d].asserts : ~dirs[d].asserts[i].passed
LastOf(S) == CHOOSE d \in S : \A e \in S : dirs[e].started <= dirs[d].started
Told(st, S) ==
  /\ st.runs = Cardinality(S) /\ st.failed = Cardinality({d \in S : FailedRun(d)})
  /\ st.passed + st.failed = st.runs
  /\ st.latest = LastOf(S) /\ st.latestError = dirs[LastOf(S)].error

\* A report of the list and the one in the directory it was read from.
Mirrors(r, d) ==
  /\ r.name = dirs[d].name /\ r.passed = dirs[d].passed
  /\ r.dir = d /\ r.second = dirs[d].second /\ r.error = dirs[d].error
  /\ r.passed \in BOOLEAN /\ r.second \in Nat /\ dirs[d].started \in Nat
  /\ (r.passed <=> ~FailedRun(d))

LEMMA ListedRuns ==
  ASSUME HInv, Collectable, NEW D, D \subseteq DOMAIN dirs, NEW R, NEW f, Lists(f, R, D),
         NEW i \in DOMAIN R
  PROVE  f[i] \in D /\ Mirrors(R[i], f[i])
<1>0. PICK d : d = f[i]
  OBVIOUS
<1>1. d \in D /\ R[i] = resolveReportPaths(dirs[d], d)
  BY <1>0, Zenon DEF Lists
<1>2. d \in DOMAIN dirs /\ dirs[d] # NoReport
  BY <1>1, Zenon DEF Collectable
<1>3. Report(dirs[d], FALSE) /\ dirs[d].dir = d /\ OnDisk(dirs[d], DOMAIN disk) /\ Judged(dirs[d])
  BY <1>2, Zenon DEF HInv, RunsKept
<1>4. R[i] = resolveReportPaths(dirs[d], dirs[d].dir)
  BY <1>1, <1>3, Zenon
<1>5. absolute \in BOOLEAN /\ FilesPlaced
  BY DEF HInv, Counters
<1>6. SameRun(dirs[d], R[i]) /\ R[i].second = dirs[d].second /\ R[i].error = dirs[d].error
  BY <1>3, <1>4, <1>5, ResolveReport
<1>7. R[i].name = dirs[d].name /\ R[i].passed = dirs[d].passed /\ R[i].dir = d
  BY <1>3, <1>6, Zenon DEF SameRun
<1>8. dirs[d].passed \in BOOLEAN /\ dirs[d].second \in Nat /\ dirs[d].started \in Nat
  BY <1>3, Zenon DEF Report
<1>9. dirs[d].passed <=> ~FailedRun(d)
  BY <1>3, Zenon DEF Judged, FailedRun
<1>10. Mirrors(R[i], d)
  BY <1>6, <1>7, <1>8, <1>9, Zenon DEF Mirrors
<1> QED BY <1>0, <1>1, <1>10, Zenon

LEMMA ToldOf ==
  ASSUME HInv, Collectable, NEW D, D \subseteq DOMAIN dirs, NEW R, NEW f, Lists(f, R, D),
         NEW n, NEW S, S = OfName(D, n), S # {}, NEW st, Tallies(st, R, Len(R), n)
  PROVE  Told(st, S)
<1>1. PICK z \in Nat : z = Len(R) /\ DOMAIN R = 1..z
  <2>1. R \in Seq(ToSet(R))
    BY DEF Lists
  <2> QED BY <2>1
<1>2. PICK I : I = RunsOf(R, z, n)
  OBVIOUS
<1>3. PICK J : J = FailingOf(R, z, n)
  OBVIOUS
<1>4. \A i \in 1..z : /\ f[i] \in D /\ R[i].name = dirs[f[i]].name /\ R[i].dir = f[i]
                      /\ R[i].error = dirs[f[i]].error /\ dirs[f[i]].started \in Nat
                      /\ (R[i].passed <=> ~FailedRun(f[i]))
  <2> SUFFICES ASSUME NEW i \in DOMAIN R
               PROVE  /\ f[i] \in D /\ R[i].name = dirs[f[i]].name /\ R[i].dir = f[i]
                      /\ R[i].error = dirs[f[i]].error /\ dirs[f[i]].started \in Nat
                      /\ (R[i].passed <=> ~FailedRun(f[i]))
    BY <1>1, Zenon
  <2>1. f[i] \in D /\ Mirrors(R[i], f[i])
    BY ListedRuns
  <2> QED BY <2>1, Zenon DEF Mirrors
<1>5. \A d \in D : \E i \in 1..z : f[i] = d
  BY <1>1, Zenon DEF Lists
<1>6. \A i, k \in 1..z : i < k => dirs[f[i]].started < dirs[f[k]].started
  BY <1>1, Zenon DEF Lists
<1>7. \A i, k \in 1..z : f[i] = f[k] => i = k
  <2> SUFFICES ASSUME NEW i \in 1..z, NEW k \in 1..z, f[i] = f[k], i # k PROVE FALSE
    OBVIOUS
  <2>1. CASE i < k
    <3>1. dirs[f[i]].started < dirs[f[k]].started
      BY <1>6, <2>1, Zenon
    <3>2. PICK x \in Nat : x = dirs[f[k]].started
      BY <1>4, Zenon
    <3>3. x < x
      BY <3>1, <3>2, Zenon
    <3> QED BY <3>3
  <2>2. CASE k < i
    <3>1. dirs[f[k]].started < dirs[f[i]].started
      BY <1>6, <2>2, Zenon
    <3>2. PICK x \in Nat : x = dirs[f[k]].started
      BY <1>4, Zenon
    <3>3. x < x
      BY <3>1, <3>2, Zenon
    <3> QED BY <3>3
  <2>3. i < k \/ k < i
    OBVIOUS
  <2> QED BY <2>1, <2>2, <2>3
<1>8. I \subseteq 1..z /\ J \subseteq 1..z /\ \A i \in 1..z : (i \in I <=> R[i].name = n) /\ (i \in J <=> R[i].name = n /\ ~R[i].passed)
  BY <1>2, <1>3, Zenon DEF RunsOf, FailingOf
<1>9. IsFiniteSet(I) /\ IsFiniteSet(J)
  BY <1>2, <1>3, RunsOfFinite
<1>10. (\A i \in I : f[i] \in S) /\ \A t \in S : \E i \in I : f[i] = t
  <2>1. ASSUME NEW i \in I PROVE f[i] \in S
    BY <1>4, <1>8, <2>1, Zenon DEF OfName
  <2>2. ASSUME NEW t \in S PROVE \E i \in I : f[i] = t
    <3>1. t \in D /\ dirs[t].name = n
      BY <2>2, Zenon DEF OfName
    <3>2. PICK i \in 1..z : f[i] = t
      BY <1>5, <3>1, Zenon
    <3>3. i \in I
      BY <1>4, <1>8, <3>1, <3>2, Zenon
    <3> QED BY <3>2, <3>3
  <2> QED BY <2>1, <2>2
<1>11. Cardinality(S) = Cardinality(I)
  <2>1. \A i, k \in I : f[i] = f[k] => i = k
    BY <1>7, <1>8, Zenon
  <2> QED BY <1>9, <1>10, <2>1, SameCount
<1>12. PICK U : U = {d \in S : FailedRun(d)}
  OBVIOUS
<1>13. Cardinality(U) = Cardinality(J)
  <2>1. \A i, k \in J : f[i] = f[k] => i = k
    BY <1>7, <1>8, Zenon
  <2>2. \A i \in J : f[i] \in U
    BY <1>4, <1>8, <1>12, Zenon DEF OfName
  <2>3. \A t \in U : \E i \in J : f[i] = t
    <3> SUFFICES ASSUME NEW t \in U PROVE \E i \in J : f[i] = t
      OBVIOUS
    <3>1. t \in D /\ dirs[t].name = n /\ FailedRun(t)
      BY <1>12, Zenon DEF OfName
    <3>2. PICK i \in 1..z : f[i] = t
      BY <1>5, <3>1, Zenon
    <3>3. i \in J
      BY <1>4, <1>8, <3>1, <3>2, Zenon
    <3> QED BY <3>2, <3>3
  <2> QED BY <1>9, <2>1, <2>2, <2>3, SameCount
<1>14. I # {}
  BY <1>10, Zenon
<1>15. PICK m : LatestIs(st, R, z, n, m)
  BY <1>1, <1>2, <1>14, Zenon DEF Tallies
<1>16. m \in I /\ m \in 1..z /\ (\A i \in I : i <= m) /\ st.latest = f[m] /\ st.latestError = dirs[f[m]].error
  BY <1>2, <1>4, <1>8, <1>15, Zenon DEF LatestIs
<1>17. ASSUME NEW i \in I PROVE dirs[f[i]].started <= dirs[f[m]].started /\ (i # m => dirs[f[i]].started < dirs[f[m]].started)
  <2>1. i \in 1..z /\ i <= m
    BY <1>8, <1>16, <1>17, Zenon
  <2>2. CASE i = m
    <3>1. PICK x \in Nat : x = dirs[f[m]].started
      BY <1>4, <1>16, Zenon
    <3>2. x <= x
      OBVIOUS
    <3> QED BY <2>2, <3>1, <3>2, Zenon
  <2>3. CASE i # m
    <3>1. i < m
      BY <1>16, <2>1, <2>3
    <3>2. dirs[f[i]].started < dirs[f[m]].started
      BY <1>6, <1>16, <2>1, <3>1, Zenon
    <3>3. dirs[f[i]].started \in Nat /\ dirs[f[m]].started \in Nat
      BY <1>4, <1>16, <2>1, Zenon
    <3>4. dirs[f[i]].started <= dirs[f[m]].started
      BY <3>2, <3>3
    <3> QED BY <3>2, <3>4
  <2> QED BY <2>2, <2>3
<1>18. LastOf(S) = f[m]
  <2>1. f[m] \in S /\ \A e \in S : dirs[e].started <= dirs[f[m]].started
    BY <1>10, <1>16, <1>17, Zenon
  <2>2. PICK d : d = LastOf(S)
    OBVIOUS
  <2>3. d \in S /\ \A e \in S : dirs[e].started <= dirs[d].started
    BY <2>1, <2>2, Zenon DEF LastOf
  <2>4. PICK i \in I : f[i] = d
    BY <1>10, <2>3, Zenon
  <2>5. i = m
    <3> SUFFICES ASSUME i # m PROVE FALSE
      OBVIOUS
    <3>1. dirs[f[i]].started < dirs[f[m]].started
      BY <1>17, Zenon
    <3>2. dirs[f[m]].started <= dirs[f[i]].started
      BY <2>1, <2>3, <2>4, Zenon
    <3>3. i \in 1..z
      BY <1>8, Zenon
    <3>4. PICK x \in Nat, y \in Nat : x = dirs[f[i]].started /\ y = dirs[f[m]].started
      BY <1>4, <1>16, <3>3, Zenon
    <3>5. x < y /\ y <= x
      BY <3>1, <3>2, <3>4, Zenon
    <3> QED BY <3>5
  <2> QED BY <2>2, <2>4, <2>5, Zenon
<1>19. st.runs = Cardinality(S) /\ st.failed = Cardinality(U) /\ st.passed + st.failed = st.runs
  BY <1>1, <1>2, <1>3, <1>11, <1>13, Zenon DEF Tallies
<1> QED BY <1>12, <1>16, <1>18, <1>19, Zenon DEF Told

LEMMA RollupHonestNow == ASSUME HInv PROVE RollupHonest
<1> SUFFICES ASSUME Collectable, NEW scope \in Scopes
             PROVE  /\ DOMAIN BuildRollup(scope) = {dirs[d].name : d \in InScope(scope)}
                    /\ \A n \in DOMAIN BuildRollup(scope) :
                         Told(BuildRollup(scope)[n], OfName(InScope(scope), n))
  BY Zenon DEF RollupHonest, Told, OfName, LastOf, FailedRun
<1>1. PICK R : R = CollectRunReports(scope)
  OBVIOUS
<1>2. PICK D : D = InScope(scope)
  OBVIOUS
<1>3. PICK f : Lists(f, R, D)
  BY <1>1, <1>2, Collected
<1>4. D \subseteq DOMAIN dirs
  BY <1>2, Zenon DEF InScope
<1>5. R \in Seq(ToSet(R))
  BY <1>3, Zenon DEF Lists
<1>6. PICK z \in Nat : z = Len(R) /\ DOMAIN R = 1..z
  BY <1>5
<1>7. \A i \in DOMAIN R : /\ f[i] \in D /\ R[i].name = dirs[f[i]].name
                          /\ R[i].second = dirs[f[i]].second
                          /\ R[i].passed \in BOOLEAN /\ R[i].second \in Nat
  <2> SUFFICES ASSUME NEW i \in DOMAIN R
               PROVE  /\ f[i] \in D /\ R[i].name = dirs[f[i]].name
                      /\ R[i].second = dirs[f[i]].second
                      /\ R[i].passed \in BOOLEAN /\ R[i].second \in Nat
    BY Zenon
  <2>1. f[i] \in D /\ Mirrors(R[i], f[i])
    BY <1>3, <1>4, ListedRuns
  <2> QED BY <2>1, Zenon DEF Mirrors
<1>8. Chronicle(R)
  <2>1. ASSUME NEW i \in DOMAIN R, NEW k \in DOMAIN R, i < k PROVE R[i].second <= R[k].second
    <3>1. dirs[f[i]].started < dirs[f[k]].started
      BY <1>3, <2>1, Zenon DEF Lists
    <3>2. f[i] \in DOMAIN dirs /\ f[k] \in DOMAIN dirs /\ dirs[f[i]] # NoReport /\ dirs[f[k]] # NoReport
      BY <1>4, <1>7, <2>1, Zenon DEF Collectable
    <3>3. dirs[f[i]].second <= dirs[f[k]].second
      BY <3>1, <3>2, Zenon DEF HInv, RunsKept
    <3> QED BY <1>7, <2>1, <3>3, Zenon
  <2> QED BY <1>7, <2>1, Zenon DEF Chronicle
<1>9. PICK acc : acc = RollupAll(R)
  OBVIOUS
<1>10. acc = BuildRollup(scope)
  BY <1>1, <1>9, Zenon DEF BuildRollup
<1>11. SumsTo(acc, R, Len(R))
  BY <1>5, <1>8, <1>9, TallyAll
<1>12. DOMAIN acc = {R[i].name : i \in 1..z}
  BY <1>6, <1>11, Zenon DEF SumsTo
<1>13. DOMAIN acc = {dirs[d].name : d \in D}
  <2>1. ASSUME NEW n \in DOMAIN acc PROVE n \in {dirs[d].name : d \in D}
    <3>1. PICK i \in DOMAIN R : n = R[i].name
      BY <1>6, <1>12, <2>1, Zenon
    <3> QED BY <1>7, <3>1, Zenon
  <2>2. ASSUME NEW d \in D PROVE dirs[d].name \in DOMAIN acc
    <3>1. PICK i \in DOMAIN R : f[i] = d
      BY <1>3, <2>2, Zenon DEF Lists
    <3>2. R[i].name = dirs[d].name
      BY <1>7, <3>1, Zenon
    <3> QED BY <1>6, <1>12, <3>1, <3>2, Zenon
  <2> QED BY <2>1, <2>2, Zenon
<1>14. ASSUME NEW n \in DOMAIN acc PROVE Told(acc[n], OfName(D, n))
  <2>1. PICK S : S = OfName(D, n)
    OBVIOUS
  <2>2. S # {}
    BY <1>13, <1>14, <2>1, Zenon DEF OfName
  <2>3. Tallies(acc[n], R, Len(R), n)
    <3>1. Tally(acc, n) = acc[n]
      BY <1>14, Zenon DEF Tally
    <3> QED BY <1>11, <3>1, Zenon DEF SumsTo
  <2>4. Told(acc[n], S)
    BY <1>3, <1>4, <2>1, <2>2, <2>3, ToldOf
  <2> QED BY <2>1, <2>4, Zenon
<1> QED BY <1>2, <1>10, <1>13, <1>14, Zenon

LEMMA HarnessTypesNow == ASSUME HInv PROVE HarnessTypeOK
<1>1. \A d \in DOMAIN dirs : dirs[d] = NoReport \/ dirs[d].dir = d
  BY Zenon DEF HInv, RunsKept
<1>2. ToSet(queue) \subseteq ToSet(ScenarioList)
  <2>1. queue \in Seq(ToSet(ScenarioList))
    BY DEF HInv, Counters
  <2> QED BY <2>1 DEF ToSet
<1>3. copied = NoReport \/ copied.name = Head(saving).name
  BY Zenon DEF HInv, SavesKept
<1> QED BY <1>1, <1>2, <1>3, Zenon DEF HInv, Counters, HarnessTypeOK

LEMMA ReportsHonestNow == ASSUME HInv PROVE ReportsHonest
BY CheckHonestNow, RollupHonestNow, HarnessTypesNow, Zenon DEF ReportsHonest

-----------------------------------------------------------------------------
(* Steps. *)

\* The root of a command does not change.
LEMMA SameRoot ==
  ASSUME absolute' = absolute
  PROVE  /\ \A d : RunDirOf(d)' <=> RunDirOf(d)
         /\ \A g : BaseDir(g)' = BaseDir(g)
         /\ \A g, x : BaseFile(g, x)' = BaseFile(g, x)
<1>1. Root' = Root
  BY Zenon DEF Root
<1>2. \A d : RunDirOf(d)' <=> RunDirOf(d)
  BY <1>1, Zenon DEF RunDirOf
<1>3. \A g : BaseDir(g)' = BaseDir(g)
  BY Zenon DEF BaseDir
<1>4. \A g, x : BaseFile(g, x)' = BaseFile(g, x)
  BY <1>3, Zenon DEF BaseFile
<1> QED BY <1>2, <1>3, <1>4

LEMMA SameReports ==
  ASSUME absolute' = absolute
  PROVE  \A r, deep : Report(r, deep)' <=> Report(r, deep)
<1>1. \A d : RunDirOf(d)' <=> RunDirOf(d)
  BY SameRoot
<1> QED BY <1>1, Zenon DEF Report

LEMMA RunsStay ==
  ASSUME RunsKept, UNCHANGED <<absolute, dirs, second, runCount>>, DOMAIN disk \subseteq DOMAIN disk'
  PROVE  RunsKept'
<1>1. \A d : RunDirOf(d)' <=> RunDirOf(d)
  BY SameRoot
<1>2. \A r : Report(r, FALSE)' <=> Report(r, FALSE)
  BY SameReports
<1>3. \A r : OnDisk(r, DOMAIN disk) => OnDisk(r, DOMAIN disk')
  BY Zenon DEF OnDisk
<1>4. dirs' = dirs /\ second' = second /\ runCount' = runCount
  BY Zenon
<1> QED BY <1>1, <1>2, <1>3, <1>4, Zenon DEF RunsKept

LEMMA SavesStay ==
  ASSUME SavesKept, UNCHANGED <<absolute, dirs, queue, running, saving, copied, truth, doubtful>>
  PROVE  SavesKept'
<1>1. \A r, deep : Report(r, deep)' <=> Report(r, deep)
  BY SameReports
<1>2. /\ absolute' = absolute /\ dirs' = dirs /\ queue' = queue /\ running' = running
      /\ saving' = saving /\ copied' = copied /\ truth' = truth /\ doubtful' = doubtful
  BY Zenon
<1>3. NoReport' = NoReport
  BY Zenon DEF NoReport
<1>4. (saving \in Seq(ToSet(saving)))' /\ (saving # <<>> => queue = <<>> /\ running = NoReport)'
  BY <1>2, <1>3, Zenon DEF SavesKept
<1>5. PICK deep : deep = ~absolute /\ deep = ~absolute'
  BY <1>2
<1>7. (\A i \in DOMAIN saving :
        /\ Report(saving[i], ~absolute)
        /\ saving[i].dir \in DOMAIN dirs =>
            dirs[saving[i].dir] # NoReport /\ SameRun(dirs[saving[i].dir], saving[i]))'
  BY <1>1, <1>2, <1>3, <1>5, Zenon DEF SavesKept
<1>6. (copied # NoReport => /\ saving # <<>> /\ copied.name = Head(saving).name
                           /\ slugify[copied.name] \in DOMAIN truth \cup doubtful)'
  BY <1>2, <1>3, Zenon DEF SavesKept
<1> QED BY <1>4, <1>6, <1>7, Zenon DEF SavesKept

\* Nothing is saved.
LEMMA NoSaves ==
  ASSUME SavesKept, saving = <<>>, UNCHANGED <<saving, copied>>
  PROVE  SavesKept' /\ copied = NoReport
<1>1. copied = NoReport
  BY Zenon DEF SavesKept
<1>2. saving' = <<>> /\ copied' = NoReport
  BY <1>1, Zenon
<1>3. DOMAIN <<>> = {} /\ <<>> \in Seq(ToSet(<<>>))
  OBVIOUS
<1>4. SavesKept'
  BY <1>2, <1>3, Zenon DEF SavesKept
<1> QED BY <1>1, <1>4

\* What the baselines hold stays where only files of runs are written.
LEMMA HeldStays ==
  ASSUME absolute' = absolute, NEW st, NEW ts, NEW g, NEW d, Held(st, ts, g, d),
         absolute => \A x : BaseFile(g, x) \in DOMAIN disk =>
                       BaseFile(g, x) \in DOMAIN disk' /\ disk'[BaseFile(g, x)] = disk[BaseFile(g, x)]
  PROVE  Held(st, ts, g, d)'
<1>1. BaseFile(g, st.id)' = BaseFile(g, st.id)
  BY SameRoot
<1>2. PICK p : p = BaseFile(g, st.id)
  OBVIOUS
<1>3. absolute /\ p \in DOMAIN disk => p \in DOMAIN disk' /\ disk'[p] = disk[p]
  BY <1>2, Zenon
<1>4. BaseFile(g, st.id)' = p
  BY <1>1, <1>2, Zenon
<1> QED BY <1>2, <1>3, <1>4, Zenon DEF Held

LEMMA KeptStays ==
  ASSUME absolute' = absolute, NEW b, NEW t, NEW g, Kept(b, g, t),
         absolute => \A x : BaseFile(g, x) \in DOMAIN disk =>
                       BaseFile(g, x) \in DOMAIN disk' /\ disk'[BaseFile(g, x)] = disk[BaseFile(g, x)]
  PROVE  Kept(b, g, t)'
<1>1. RunDirOf(b.dir)' <=> RunDirOf(b.dir)
  BY SameRoot
<1>2. \A i \in DOMAIN b.steps : Held(b.steps[i], t.steps[i], g, b.dir)'
  <2> SUFFICES ASSUME NEW i \in DOMAIN b.steps PROVE Held(b.steps[i], t.steps[i], g, b.dir)'
    OBVIOUS
  <2>1. PICK st, ts, d : st = b.steps[i] /\ ts = t.steps[i] /\ d = b.dir
    OBVIOUS
  <2>2. Held(st, ts, g, d)
    BY <2>1, Zenon DEF Kept
  <2>3. Held(st, ts, g, d)'
    BY <2>2, HeldStays
  <2> QED BY <2>1, <2>3, Zenon
<1> QED BY <1>1, <1>2, Zenon DEF Kept

BasesStill ==
  absolute => \A g, x : BaseFile(g, x) \in DOMAIN disk =>
    BaseFile(g, x) \in DOMAIN disk' /\ disk'[BaseFile(g, x)] = disk[BaseFile(g, x)]

LEMMA RememberedStays ==
  ASSUME Remembered, UNCHANGED <<absolute, base, truth, doubtful, copied>>, BasesStill
  PROVE  Remembered'
<1>1. base' = base /\ truth' = truth /\ doubtful' = doubtful /\ copied' = copied /\ absolute' = absolute
  BY Zenon
<1>2. \A g : Copying(g)' <=> Copying(g)
  BY <1>1, Zenon DEF Copying, NoReport
<1>3. \A b, g, t : Kept(b, g, t) => Kept(b, g, t)'
  <2> SUFFICES ASSUME NEW b, NEW g, NEW t, Kept(b, g, t) PROVE Kept(b, g, t)'
    OBVIOUS
  <2> QED BY <1>1, KeptStays DEF BasesStill
<1> QED BY <1>1, <1>2, <1>3, Zenon DEF Remembered

LEMMA HarnessStill ==
  ASSUME HInv, UNCHANGED harnessVars
  PROVE  HInv'
<1>1. /\ absolute' = absolute /\ second' = second /\ dirs' = dirs /\ disk' = disk /\ queue' = queue
      /\ running' = running /\ saving' = saving /\ copied' = copied /\ base' = base
      /\ runCount' = runCount /\ harnessFaults' = harnessFaults /\ truth' = truth /\ doubtful' = doubtful
  BY Zenon DEF harnessVars
<1>2. Counters'
  BY <1>1, Zenon DEF HInv, Counters
<1>3. FilesPlaced'
  BY <1>1, Zenon DEF HInv, FilesPlaced
<1>4. RunsKept'
  BY <1>1, RunsStay DEF HInv
<1>5. UnderWay'
  <2>1. \A r : Report(r, FALSE)' <=> Report(r, FALSE)
    BY <1>1, SameReports
  <2> QED BY <1>1, <2>1, Zenon DEF HInv, UnderWay, NoReport
<1>6. SavesKept'
  BY <1>1, SavesStay, Zenon DEF HInv
<1>7. BasesStill
  BY <1>1, Zenon DEF BasesStill
<1>8. Remembered'
  BY <1>1, <1>7, RememberedStays, Zenon DEF HInv
<1> QED BY <1>2, <1>3, <1>4, <1>5, <1>6, <1>8 DEF HInv

-----------------------------------------------------------------------------
\* A list out of which some are taken.
LEMMA Sifted ==
  ASSUME NEW X, NEW s \in Seq(X), NEW B, DOMAIN B = DOMAIN s,
         \A i \in DOMAIN s : B[i] = <<s[i]>> \/ B[i] = <<>>,
         B = [i \in DOMAIN s |-> B[i]]
  PROVE  FlattenSeq(B) \in Seq(X)
<1>1. PICK m \in Nat : m = Len(s) /\ DOMAIN s = 1..m
  OBVIOUS
<1>2. \A i \in 1..m : s[i] \in X
  BY <1>1
<1>3. ASSUME NEW i \in 1..m PROVE B[i] \in Seq(X) /\ (B[i] = <<>> \/ \E x \in X : B[i] = <<x>>)
  <2>1. CASE B[i] = <<s[i]>>
    <3>1. PICK x \in X : x = s[i]
      BY <1>2, <1>3
    <3>2. B[i] = <<x>>
      BY <2>1, <3>1, Zenon
    <3>3. <<x>> \in Seq(X)
      OBVIOUS
    <3> QED BY <3>2, <3>3, Zenon
  <2>2. CASE B[i] = <<>>
    <3>1. <<>> \in Seq(X)
      OBVIOUS
    <3> QED BY <2>2, <3>1, Zenon
  <2> QED BY <1>1, <2>1, <2>2, Zenon
<1>4. B \in [1..m -> Seq(X)]
  BY <1>1, <1>3
<1>5. B \in Seq(Seq(X)) /\ Len(B) = m
  BY <1>1, <1>4
<1>6. \A i \in 1..Len(B) : B[i] = <<>> \/ \E x \in X : B[i] = <<x>>
  BY <1>3, <1>5, Zenon
<1> QED BY <1>5, <1>6, FlattenSpread

LEMMA FilteredTags ==
  ASSUME NEW X, NEW s \in Seq(X), NEW tags
  PROVE  FilterScenarioPathsByTags(s, tags) \in Seq(X)
<1>1. PICK B : B = [i \in DOMAIN s |-> IF ScenarioMatchesTags(s[i], tags) THEN <<s[i]>> ELSE <<>>]
  OBVIOUS
<1>2. DOMAIN B = DOMAIN s /\ (\A i \in DOMAIN s : B[i] = <<s[i]>> \/ B[i] = <<>>)
      /\ B = [i \in DOMAIN s |-> B[i]]
  BY <1>1, Zenon
<1>3. FlattenSeq(B) \in Seq(X)
  BY <1>2, Sifted
<1> QED BY <1>1, <1>3, Zenon DEF FilterScenarioPathsByTags

LEMMA FilteredLane ==
  ASSUME NEW X, NEW s \in Seq(X), NEW lane
  PROVE  FilterScenarioPathsByLane(s, lane) \in Seq(X)
<1>1. PICK B : /\ DOMAIN B = DOMAIN s /\ (\A i \in DOMAIN s : B[i] = <<s[i]>> \/ B[i] = <<>>)
               /\ B = [i \in DOMAIN s |-> B[i]]
               /\ FilterScenarioPathsByLane(s, lane) = FlattenSeq(B)
  BY Zenon DEF FilterScenarioPathsByLane
<1>2. FlattenSeq(B) \in Seq(X)
  BY <1>1, Sifted
<1> QED BY <1>1, <1>2, Zenon

LEMMA RunScenariosKeeps ==
  ASSUME HInv, NEW scope, RunScenarios(scope)
  PROVE  HInv'
<1>1. /\ absolute' = absolute /\ second' = second /\ dirs' = dirs /\ disk' = disk
      /\ running' = running /\ saving' = saving /\ copied' = copied /\ base' = base
      /\ runCount' = runCount /\ harnessFaults' = harnessFaults /\ truth' = truth /\ doubtful' = doubtful
  BY Zenon DEF RunScenarios
<1>2. running = NoReport /\ saving = <<>>
  BY Zenon DEF RunScenarios, HarnessIdle
<1>3. queue' \in Seq(ToSet(ScenarioList))
  <2>1. PICK u : u = FilterScenarioPathsByTags(ScenarioList, scope.tags)
    OBVIOUS
  <2>2. ScenarioList \in Seq(ToSet(ScenarioList))
    BY HarnessAssumption
  <2>3. u \in Seq(ToSet(ScenarioList))
    BY <2>1, <2>2, FilteredTags
  <2>4. FilterScenarioPathsByLane(u, scope.lane) \in Seq(ToSet(ScenarioList))
    BY <2>3, FilteredLane
  <2> QED BY <2>1, <2>4, Zenon DEF RunScenarios
<1>4. Counters'
  BY <1>1, <1>3, Zenon DEF HInv, Counters
<1>5. FilesPlaced'
  BY <1>1, Zenon DEF HInv, FilesPlaced
<1>6. RunsKept'
  BY <1>1, RunsStay DEF HInv
<1>7. UnderWay'
  BY <1>1, <1>2, Zenon DEF UnderWay, NoReport
<1>8. SavesKept'
  BY <1>1, <1>2, NoSaves, Zenon DEF HInv
<1>9. BasesStill
  BY <1>1, Zenon DEF BasesStill
<1>10. Remembered'
  BY <1>1, <1>9, RememberedStays, Zenon DEF HInv
<1> QED BY <1>4, <1>5, <1>6, <1>7, <1>8, <1>10 DEF HInv

LEMMA SaveBaselineKeeps ==
  ASSUME HInv, NEW scope, SaveBaseline(scope)
  PROVE  HInv'
<1>1. /\ absolute' = absolute /\ second' = second /\ dirs' = dirs /\ disk' = disk /\ queue' = queue
      /\ running' = running /\ copied' = copied /\ base' = base
      /\ runCount' = runCount /\ harnessFaults' = harnessFaults /\ truth' = truth /\ doubtful' = doubtful
  BY Zenon DEF SaveBaseline
<1>2. queue = <<>> /\ running = NoReport /\ saving = <<>> /\ Collectable /\ saving' # <<>>
  BY Zenon DEF SaveBaseline, HarnessIdle
<1>3. copied = NoReport
  BY <1>2, Zenon DEF HInv, SavesKept
<1>4. PICK R : R = CollectRunReports(scope) /\ saving' = R
  BY Zenon DEF SaveBaseline
<1>5. PICK D : D = InScope(scope)
  OBVIOUS
<1>6. PICK f : Lists(f, R, D)
  BY <1>2, <1>4, <1>5, Collected
<1>7. Counters'
  BY <1>1, Zenon DEF HInv, Counters
<1>8. FilesPlaced'
  BY <1>1, Zenon DEF HInv, FilesPlaced
<1>9. RunsKept'
  BY <1>1, RunsStay DEF HInv
<1>10. UnderWay'
  BY <1>1, <1>2, Zenon DEF UnderWay, NoReport
<1>11. SavesKept'
  <2>1. PICK deep : deep = ~absolute /\ deep = ~absolute'
    BY <1>1
  <2>2. ASSUME NEW i \in DOMAIN R
        PROVE  /\ Report(R[i], deep) /\ R[i].dir \in DOMAIN dirs
               /\ dirs[R[i].dir] # NoReport /\ SameRun(dirs[R[i].dir], R[i])
    <3>1. PICK d : d = f[i] /\ d \in D /\ R[i] = resolveReportPaths(dirs[d], d)
      BY <1>6, <2>2, Zenon DEF Lists
    <3>2. d \in DOMAIN dirs /\ dirs[d] # NoReport
      BY <1>2, <1>5, <3>1, Zenon DEF Collectable, InScope
    <3>3. PICK q : q = dirs[d]
      OBVIOUS
    <3>4. Report(q, FALSE) /\ q.dir = d /\ OnDisk(q, DOMAIN disk)
      BY <3>2, <3>3, Zenon DEF HInv, RunsKept
    <3>5. absolute \in BOOLEAN /\ FilesPlaced
      BY DEF HInv, Counters
    <3>6. PICK r : r = R[i]
      OBVIOUS
    <3>7. r = resolveReportPaths(q, q.dir)
      BY <3>1, <3>3, <3>4, <3>6, Zenon
    <3>8. Report(r, ~absolute) /\ SameRun(q, r)
      BY <3>4, <3>5, <3>7, ResolveReport
    <3>9. r.dir = d
      BY <3>4, <3>8, Zenon DEF SameRun
    <3> QED BY <2>1, <3>2, <3>3, <3>6, <3>8, <3>9, Zenon
  <2>3. \A r : Report(r, deep)' <=> Report(r, deep)
    BY <1>1, SameReports
  <2>4. R \in Seq(ToSet(R))
    BY <1>6, Zenon DEF Lists
  <2>5. copied' = NoReport /\ queue' = <<>> /\ running' = NoReport
    BY <1>1, <1>2, <1>3, Zenon
  <2>6. NoReport' = NoReport
    BY Zenon DEF NoReport
  <2>7. (\A i \in DOMAIN saving :
        /\ Report(saving[i], ~absolute)
        /\ saving[i].dir \in DOMAIN dirs =>
            dirs[saving[i].dir] # NoReport /\ SameRun(dirs[saving[i].dir], saving[i]))'
    BY <1>1, <1>4, <2>1, <2>2, <2>3, <2>6, Zenon
  <2>8. (saving \in Seq(ToSet(saving)))'
    BY <1>4, <2>4, Zenon
  <2> QED BY <2>5, <2>6, <2>7, <2>8, Zenon DEF SavesKept
<1>12. BasesStill
  BY <1>1, Zenon DEF BasesStill
<1>13. Remembered'
  BY <1>1, <1>12, RememberedStays, Zenon DEF HInv
<1> QED BY <1>7, <1>8, <1>9, <1>10, <1>11, <1>13 DEF HInv

-----------------------------------------------------------------------------
\* The scenario that is run.
LEMMA HeadOf ==
  ASSUME Counters, queue # <<>>, NEW s, s = Head(queue)
  PROVE  /\ s \in ToSet(ScenarioList) /\ s.name \in DOMAIN slugify /\ slugify[s.name] \in Range(slugify)
         /\ s.steps \in Seq(ToSet(s.steps)) /\ s.asserts \in Seq(ToSet(s.asserts))
         /\ Tail(queue) \in Seq(ToSet(ScenarioList))
<1>1. queue \in Seq(ToSet(ScenarioList))
  BY DEF Counters
<1>2. s \in ToSet(ScenarioList) /\ Tail(queue) \in Seq(ToSet(ScenarioList))
  BY <1>1
<1>3. s.name \in DOMAIN slugify /\ s.steps \in Seq(ToSet(s.steps)) /\ s.asserts \in Seq(ToSet(s.asserts))
  BY <1>2, HarnessAssumption, Zenon
<1>4. slugify[s.name] \in Range(slugify)
  BY <1>3, Zenon DEF Range
<1> QED BY <1>2, <1>3, <1>4

FirstReport(s, d, now, n) ==
  [name |-> s.name, tags |-> s.tags, lane |-> s.lane, dir |-> d,
   second |-> now, started |-> n, passed |-> FALSE,
   error |-> FALSE, steps |-> <<>>, asserts |-> <<>>]

Begun(r, s, d, now, n) ==
  /\ Report(r, FALSE) /\ (\A D : OnDisk(r, D)) /\ r.name = s.name /\ r.dir = d
  /\ r.second = now /\ r.started = n /\ r.passed = FALSE /\ r.error = FALSE
  /\ r.asserts = <<>> /\ r # NoReport

LEMMA FirstReportOK ==
  ASSUME NEW s \in ToSet(ScenarioList), NEW d, RunDirOf(d), NEW now \in Nat, NEW n \in Nat,
         NEW r, r = FirstReport(s, d, now, n)
  PROVE  Begun(r, s, d, now, n)
<1>1. /\ r.name = s.name /\ r.dir = d /\ r.second = now /\ r.started = n /\ r.passed = FALSE
      /\ r.error = FALSE /\ r.steps = <<>> /\ r.asserts = <<>> /\ r = Fields(r, r.steps)
  BY DEF FirstReport, Fields
<1>2. <<>> \in Seq(ToSet(<<>>)) /\ DOMAIN <<>> = {}
  OBVIOUS
<1>3. ReportForm(r)
  BY <1>1, <1>2, Zenon DEF ReportForm
<1>4. r # NoReport
  BY <1>3, FormNotNone
<1>5. Report(r, FALSE)
  <2>1. r.passed \in BOOLEAN /\ r.error \in BOOLEAN /\ r.started \in Nat /\ r.second \in Nat
    BY <1>1
  <2> QED BY <1>1, <1>2, <1>3, <2>1, Zenon DEF Report
<1>6. \A D : OnDisk(r, D)
  BY <1>1, <1>2, Zenon DEF OnDisk
<1> QED BY <1>1, <1>4, <1>5, <1>6, Zenon DEF Begun

LEMMA StartRunKeeps ==
  ASSUME HInv, NEW now, StartRun(now)
  PROVE  HInv'
<1>1. /\ absolute' = absolute /\ disk' = disk /\ queue' = queue /\ saving' = saving
      /\ copied' = copied /\ base' = base /\ harnessFaults' = harnessFaults
      /\ truth' = truth /\ doubtful' = doubtful /\ second' = now /\ runCount' = runCount + 1
      /\ running = NoReport /\ queue # <<>> /\ runCount < MaxRuns /\ now \in second..Len(Seconds)
  BY Zenon DEF StartRun
<1>2. Counters
  BY DEF HInv
<1>3. second \in 1..Len(Seconds) /\ runCount \in 0..MaxRuns /\ Len(Seconds) \in Nat /\ MaxRuns \in Nat
  BY <1>2, HarnessAssumption DEF Counters
<1>4. /\ now \in 1..Len(Seconds) /\ now \in Nat /\ second <= now
      /\ runCount + 1 \in 0..MaxRuns /\ runCount + 1 \in Nat
  BY <1>1, <1>3
<1>5. PICK s : s = Head(queue)
  OBVIOUS
<1>6. s \in ToSet(ScenarioList) /\ slugify[s.name] \in Range(slugify)
  BY <1>1, <1>2, <1>5, HeadOf
<1>7. PICK d : d = Root \o <<Seconds[now], slugify[s.name]>>
  OBVIOUS
<1>8. RunDirOf(d)
  <2>1. Seconds[now] \in ToSet(Seconds)
    BY <1>4, HarnessAssumption DEF ToSet
  <2> QED BY <1>6, <1>7, <2>1, Zenon DEF RunDirOf
<1>9. PICK r : r = FirstReport(s, d, now, runCount + 1)
  OBVIOUS
<1>10. running' = r /\ dirs' = IF d \in DOMAIN dirs THEN dirs ELSE Put(dirs, d, NoReport)
  BY <1>5, <1>7, <1>9, Zenon DEF StartRun, FirstReport
<1>11. /\ Report(r, FALSE) /\ (\A D : OnDisk(r, D)) /\ r.name = s.name /\ r.dir = d
       /\ r.second = now /\ r.started = runCount + 1 /\ r.passed = FALSE /\ r.error = FALSE
       /\ r.asserts = <<>> /\ r # NoReport
  <2>1. PICK n \in Nat : n = runCount + 1
    BY <1>4
  <2>2. r = FirstReport(s, d, now, n)
    BY <1>9, <2>1, Zenon
  <2>3. Begun(r, s, d, now, n)
    BY <1>4, <1>6, <1>8, <2>2, FirstReportOK
  <2> QED BY <2>1, <2>3, Zenon DEF Begun
<1>12. /\ DOMAIN dirs' = DOMAIN dirs \cup {d}
       /\ \A e \in DOMAIN dirs' : dirs'[e] # NoReport => e \in DOMAIN dirs /\ dirs'[e] = dirs[e]
  <2>1. CASE d \in DOMAIN dirs
    BY <1>10, <2>1, Zenon
  <2>2. CASE d \notin DOMAIN dirs
    <3>1. dirs' = Put(dirs, d, NoReport)
      BY <1>10, <2>2, Zenon
    <3>2. /\ DOMAIN dirs' = DOMAIN dirs \cup {d} /\ dirs'[d] = NoReport
          /\ \A z \in DOMAIN dirs : z # d => dirs'[z] = dirs[z]
      BY <3>1, Zenon DEF Put
    <3> QED BY <3>2, Zenon
  <2> QED BY <2>1, <2>2
<1>13. saving = <<>>
  BY <1>1, Zenon DEF HInv, SavesKept
<1>14. Counters'
  BY <1>1, <1>4, Zenon DEF HInv, Counters
<1>15. FilesPlaced'
  BY <1>1, Zenon DEF HInv, FilesPlaced
<1>16. \A e : RunDirOf(e)' <=> RunDirOf(e)
  BY <1>1, SameRoot
<1>17. \A q : Report(q, FALSE)' <=> Report(q, FALSE)
  BY <1>1, SameReports
<1>18. NoReport' = NoReport
  BY Zenon DEF NoReport
<1>19. \A x \in 1..runCount : x \in 1..(runCount + 1) /\ x < runCount + 1
  BY <1>3
<1>20. \A x \in 1..second : x \in 1..now
  BY <1>3, <1>4
<1>21. RunsKept'
  <2>1. (\A e \in DOMAIN dirs : RunDirOf(e))'
    BY <1>8, <1>12, <1>16, Zenon DEF HInv, RunsKept
  <2>2. ASSUME NEW e \in DOMAIN dirs', dirs'[e] # NoReport
        PROVE  /\ Report(dirs'[e], FALSE) /\ dirs'[e].dir = e /\ OnDisk(dirs'[e], DOMAIN disk)
               /\ Judged(dirs'[e]) /\ dirs'[e].started \in 1..(runCount + 1) /\ dirs'[e].second \in 1..now
    <3>1. e \in DOMAIN dirs /\ dirs'[e] = dirs[e]
      BY <1>12, <2>2, Zenon
    <3>2. /\ Report(dirs[e], FALSE) /\ dirs[e].dir = e /\ OnDisk(dirs[e], DOMAIN disk)
          /\ Judged(dirs[e]) /\ dirs[e].started \in 1..runCount /\ dirs[e].second \in 1..second
      BY <2>2, <3>1, Zenon DEF HInv, RunsKept
    <3> QED BY <1>19, <1>20, <3>1, <3>2, Zenon
  <2>3. ASSUME NEW c \in DOMAIN dirs', NEW e \in DOMAIN dirs', dirs'[c] # NoReport, dirs'[e] # NoReport
        PROVE  /\ dirs'[c].started = dirs'[e].started => c = e
               /\ dirs'[c].started < dirs'[e].started => dirs'[c].second <= dirs'[e].second
    <3>1. c \in DOMAIN dirs /\ dirs'[c] = dirs[c] /\ e \in DOMAIN dirs /\ dirs'[e] = dirs[e]
      BY <1>12, <2>3, Zenon
    <3> QED BY <2>3, <3>1, Zenon DEF HInv, RunsKept
  <2> QED BY <1>1, <1>17, <1>18, <2>1, <2>2, <2>3, Zenon DEF RunsKept
<1>22. UnderWay'
  <2>1. ASSUME NEW e \in DOMAIN dirs', dirs'[e] # NoReport PROVE dirs'[e].started < runCount + 1
    <3>1. e \in DOMAIN dirs /\ dirs'[e] = dirs[e]
      BY <1>12, <2>1, Zenon
    <3>2. dirs[e].started \in 1..runCount
      BY <2>1, <3>1, Zenon DEF HInv, RunsKept
    <3> QED BY <1>19, <3>1, <3>2, Zenon
  <2>2. queue' # <<>> /\ saving' = <<>> /\ r.name = Head(queue').name
    BY <1>1, <1>5, <1>11, <1>13, Zenon
  <2>3. r.dir \in DOMAIN dirs'
    BY <1>11, <1>12, Zenon
  <2>4. runCount + 1 # 0
    BY <1>3
  <2> QED BY <1>1, <1>10, <1>11, <1>17, <1>18, <2>1, <2>2, <2>3, <2>4, Zenon DEF UnderWay
<1>23. SavesKept'
  BY <1>1, <1>13, NoSaves, Zenon DEF HInv
<1>24. BasesStill
  BY <1>1, Zenon DEF BasesStill
<1>25. Remembered'
  BY <1>1, <1>24, RememberedStays, Zenon DEF HInv
<1> QED BY <1>14, <1>15, <1>21, <1>22, <1>23, <1>25 DEF HInv

-----------------------------------------------------------------------------
\* A report that goes on: its steps, its verdict and its assertions.
Remade(r, ss, pass, err, vs) ==
  [name |-> r.name, tags |-> r.tags, lane |-> r.lane, dir |-> r.dir, second |-> r.second,
   started |-> r.started, passed |-> pass, error |-> err, steps |-> ss, asserts |-> vs]
StepsOK(ss, d) ==
  /\ ss \in Seq(ToSet(ss))
  /\ \A i \in DOMAIN ss : StepForm(ss[i]) /\ ss[i].files \in {<<>>, <<RunFile(d, ss[i].id)>>}
StepsOn(ss, D) == \A i \in DOMAIN ss : \A j \in DOMAIN ss[i].files : ss[i].files[j] \in D
AssertsOK(vs, d) ==
  /\ vs \in Seq(ToSet(vs))
  /\ \A i \in DOMAIN vs : vs[i].passed \in BOOLEAN /\ vs[i].root \in {<<>>, d}
GoesOn(q, r, ss, pass, err, vs) ==
  /\ q.name = r.name /\ q.dir = r.dir /\ q.second = r.second /\ q.started = r.started
  /\ q.passed = pass /\ q.error = err /\ q.steps = ss /\ q.asserts = vs

LEMMA PartsOf ==
  ASSUME NEW r, Report(r, FALSE)
  PROVE  StepsOK(r.steps, r.dir) /\ AssertsOK(r.asserts, r.dir)
<1>1. \A x : FilePath(r.dir, x, FALSE) = RunFile(r.dir, x)
  BY Zenon DEF FilePath
<1> QED BY <1>1, Zenon DEF Report, ReportForm, StepsOK, AssertsOK

LEMMA RemadeFields ==
  ASSUME NEW r, NEW ss, NEW pass, NEW err, NEW vs, NEW q, q = Remade(r, ss, pass, err, vs)
  PROVE  GoesOn(q, r, ss, pass, err, vs) /\ q = Fields(q, q.steps)
BY DEF Remade, GoesOn, Fields

LEMMA RemadeOK ==
  ASSUME NEW r, Report(r, FALSE), NEW ss, StepsOK(ss, r.dir), NEW vs, AssertsOK(vs, r.dir),
         NEW pass \in BOOLEAN, NEW err \in BOOLEAN, NEW q, q = Remade(r, ss, pass, err, vs)
  PROVE  Report(q, FALSE)
<1>1. GoesOn(q, r, ss, pass, err, vs) /\ q = Fields(q, q.steps)
  BY RemadeFields
<1>2. /\ q.name = r.name /\ q.dir = r.dir /\ q.second = r.second /\ q.started = r.started
      /\ q.passed \in BOOLEAN /\ q.error \in BOOLEAN /\ q.steps = ss /\ q.asserts = vs
  BY <1>1 DEF GoesOn
<1>3. ReportForm(q)
  BY <1>1, <1>2, Zenon DEF ReportForm, StepsOK, AssertsOK
<1>4. \A x : FilePath(r.dir, x, FALSE) = RunFile(r.dir, x)
  BY Zenon DEF FilePath
<1>5. \A i \in DOMAIN q.steps : q.steps[i].files \in {<<>>, <<FilePath(q.dir, q.steps[i].id, FALSE)>>}
  <2>1. \A i \in DOMAIN q.steps : q.steps[i].files \in {<<>>, <<RunFile(r.dir, q.steps[i].id)>>}
    BY <1>2, Zenon DEF StepsOK
  <2> QED BY <1>2, <1>4, <2>1, Zenon
<1> QED BY <1>2, <1>3, <1>5, Zenon DEF Report

LEMMA AppendedSteps ==
  ASSUME NEW ss, NEW d, StepsOK(ss, d), NEW st, StepForm(st),
         st.files \in {<<>>, <<RunFile(d, st.id)>>}, NEW su, su = Append(ss, st),
         NEW D, StepsOn(ss, D), \A j \in DOMAIN st.files : st.files[j] \in D
  PROVE  StepsOK(su, d) /\ StepsOn(su, D)
<1>1. ss \in Seq(ToSet(ss))
  BY DEF StepsOK
<1>2. PICK n \in Nat : n = Len(ss) /\ DOMAIN ss = 1..n
  BY <1>1
<1>3. PICK X : X = ToSet(ss) \cup {st}
  OBVIOUS
<1>4. ss \in Seq(X) /\ st \in X
  BY <1>1, <1>3
<1>5. su \in Seq(X) /\ DOMAIN su = 1..(n + 1) /\ (\A i \in 1..n : su[i] = ss[i]) /\ su[n + 1] = st
  BY <1>2, <1>4
<1>6. su \in Seq(ToSet(su))
  BY <1>5, SeqSelf
<1>7. \A i \in 1..(n + 1) : i \in 1..n \/ i = n + 1
  OBVIOUS
<1>8. \A i \in DOMAIN su : (i \in DOMAIN ss /\ su[i] = ss[i]) \/ su[i] = st
  BY <1>2, <1>5, <1>7, Zenon
<1> QED BY <1>6, <1>8, Zenon DEF StepsOK, StepsOn

\* What is written for the step that is done.
LEMMA StepDoneIs ==
  ASSUME HInv, NEW res, StepDone(res)
  PROVE  \E st : /\ StepForm(st) /\ st.files \in {<<>>, <<RunFile(running.dir, st.id)>>}
                 /\ st.files = <<>> => disk' = disk
                 /\ st.files # <<>> => disk' = Put(disk, RunFile(running.dir, st.id), res.content)
                 /\ running' = [running EXCEPT !.steps = Append(@, st)]
<1>1. PICK x, fs : /\ x = NextStep.id
                   /\ fs = IF NextStep.files = 0 THEN <<>> ELSE <<RunFile(running.dir, x)>>
  OBVIOUS
<1>2. PICK st : st = [id |-> x, outcome |-> res.outcome, files |-> fs]
  OBVIOUS
<1>3. StepForm(st) /\ st.id = x /\ st.files = fs
  BY <1>2 DEF StepForm
<1>4. running' = [running EXCEPT !.steps = Append(@, st)]
  BY <1>1, <1>2, Zenon DEF StepDone, RunFile
<1>5. disk' = IF fs = <<>> THEN disk ELSE Put(disk, RunFile(running.dir, x), res.content)
  BY <1>1, Zenon DEF StepDone, RunFile
<1> QED BY <1>1, <1>3, <1>4, <1>5, Zenon

LEMMA StepDoneKeeps ==
  ASSUME HInv, NEW res, StepDone(res)
  PROVE  HInv'
<1>1. /\ absolute' = absolute /\ second' = second /\ dirs' = dirs /\ queue' = queue
      /\ saving' = saving /\ copied' = copied /\ base' = base
      /\ runCount' = runCount /\ harnessFaults' = harnessFaults /\ truth' = truth /\ doubtful' = doubtful
      /\ running # NoReport
  BY Zenon DEF StepDone, StepsLeft
<1>2. /\ queue # <<>> /\ saving = <<>> /\ running.name = Head(queue).name
      /\ Report(running, FALSE) /\ OnDisk(running, DOMAIN disk) /\ running.dir \in DOMAIN dirs
      /\ running.started = runCount /\ runCount # 0 /\ running.second = second
      /\ running.passed = FALSE /\ running.error = FALSE /\ running.asserts = <<>>
      /\ \A d \in DOMAIN dirs : dirs[d] # NoReport => dirs[d].started < runCount
  BY <1>1, Zenon DEF HInv, UnderWay
<1>3. PICK st : /\ StepForm(st) /\ st.files \in {<<>>, <<RunFile(running.dir, st.id)>>}
                /\ st.files = <<>> => disk' = disk
                /\ st.files # <<>> => disk' = Put(disk, RunFile(running.dir, st.id), res.content)
                /\ running' = [running EXCEPT !.steps = Append(@, st)]
  BY StepDoneIs
<1>4. PICK r, d : r = running /\ d = running.dir
  OBVIOUS
<1>5. PICK p : p = RunFile(d, st.id)
  OBVIOUS
<1>6. RunDirOf(d)
  BY <1>2, <1>4, Zenon DEF Report
<1>7. /\ DOMAIN disk' = DOMAIN disk \/ DOMAIN disk' = DOMAIN disk \cup {p}
      /\ \A q \in DOMAIN disk : q # p => disk'[q] = disk[q]
      /\ DOMAIN disk \subseteq DOMAIN disk'
  <2>1. CASE st.files = <<>>
    BY <1>3, <2>1, Zenon
  <2>2. CASE st.files # <<>>
    <3>1. disk' = Put(disk, p, res.content)
      BY <1>3, <1>4, <1>5, <2>2, Zenon
    <3> QED BY <3>1, Zenon DEF Put
  <2> QED BY <2>1, <2>2
<1>8. \A j \in DOMAIN st.files : st.files[j] \in DOMAIN disk'
  <2>1. CASE st.files = <<>>
    <3>1. DOMAIN <<>> = {}
      OBVIOUS
    <3> QED BY <2>1, <3>1, Zenon
  <2>2. CASE st.files = <<p>>
    <3>1. \A j \in DOMAIN st.files : st.files[j] = p
      BY <2>2
    <3>2. st.files # <<>>
      BY <2>2
    <3>3. disk' = Put(disk, p, res.content)
      BY <1>3, <1>4, <1>5, <3>2, Zenon
    <3>4. p \in DOMAIN disk'
      BY <3>3, Zenon DEF Put
    <3> QED BY <3>1, <3>4, Zenon
  <2> QED BY <1>3, <1>4, <1>5, <2>1, <2>2, Zenon
<1>9. PICK su : su = Append(r.steps, st)
  OBVIOUS
<1>10. PICK r2 : r2 = Remade(r, su, FALSE, FALSE, r.asserts)
  OBVIOUS
<1>11. running' = r2
  <2>1. r = Fields(r, r.steps) /\ r.passed = FALSE /\ r.error = FALSE
    BY <1>2, <1>4 DEF Report, ReportForm
  <2>2. running' = [r EXCEPT !.steps = su]
    BY <1>3, <1>4, <1>9
  <2>3. running' = Fields(r, su)
    BY <2>1, <2>2, WithSteps
  <2>4. Fields(r, su) = r2
    BY <1>10, <2>1 DEF Fields, Remade
  <2> QED BY <2>3, <2>4, Zenon
<1>12. StepsOK(r.steps, d) /\ AssertsOK(r.asserts, d)
  BY <1>2, <1>4, PartsOf
<1>13. StepsOn(r.steps, DOMAIN disk')
  BY <1>2, <1>4, <1>7, Zenon DEF OnDisk, StepsOn
<1>14. StepsOK(su, d) /\ StepsOn(su, DOMAIN disk')
  <2>1. PICK D : D = DOMAIN disk'
    OBVIOUS
  <2>2. PICK ss : ss = r.steps
    OBVIOUS
  <2>3. StepsOK(ss, d) /\ StepsOn(ss, D) /\ su = Append(ss, st)
    BY <1>9, <1>12, <1>13, <2>1, <2>2, Zenon
  <2>4. StepForm(st) /\ st.files \in {<<>>, <<RunFile(d, st.id)>>} /\ \A j \in DOMAIN st.files : st.files[j] \in D
    BY <1>3, <1>4, <1>8, <2>1, Zenon
  <2>5. StepsOK(su, d) /\ StepsOn(su, D)
    BY <2>3, <2>4, AppendedSteps
  <2> QED BY <2>1, <2>5, Zenon
<1>15. Report(r2, FALSE)
  <2>1. Report(r, FALSE) /\ StepsOK(su, r.dir) /\ AssertsOK(r.asserts, r.dir)
    BY <1>2, <1>4, <1>12, <1>14, Zenon
  <2>2. FALSE \in BOOLEAN
    OBVIOUS
  <2> QED BY <1>10, <2>1, <2>2, RemadeOK
<1>16. GoesOn(r2, r, su, FALSE, FALSE, r.asserts)
  BY <1>10, RemadeFields
<1>17. OnDisk(r2, DOMAIN disk')
  BY <1>14, <1>16, Zenon DEF OnDisk, StepsOn, GoesOn
<1>18. NoReport' = NoReport
  BY Zenon DEF NoReport
<1>19. Counters'
  BY <1>1, Zenon DEF HInv, Counters
<1>20. FilesPlaced'
  <2>1. ASSUME ~absolute PROVE PlacedIn(DOMAIN disk')
    <3>1. PlacedIn(DOMAIN disk)
      BY <2>1, Zenon DEF HInv, FilesPlaced
    <3>2. Len(p) = 5 /\ p[1] = "runs" /\ p[4] = "runtime"
      BY <1>5, <1>6, <2>1, RelFile
    <3> QED BY <1>7, <3>1, <3>2, Zenon DEF PlacedIn
  <2> QED BY <1>1, <2>1, Zenon DEF FilesPlaced
<1>21. RunsKept'
  BY <1>1, <1>7, RunsStay DEF HInv
<1>22. UnderWay'
  <2>1. \A q : Report(q, FALSE)' <=> Report(q, FALSE)
    BY <1>1, SameReports
  <2>2. /\ r2.name = Head(queue).name /\ r2.dir \in DOMAIN dirs /\ r2.started = runCount
        /\ r2.second = second /\ r2.passed = FALSE /\ r2.error = FALSE /\ r2.asserts = <<>>
    BY <1>2, <1>4, <1>16, Zenon DEF GoesOn
  <2> QED BY <1>1, <1>2, <1>11, <1>15, <1>17, <1>18, <2>1, <2>2, Zenon DEF UnderWay
<1>23. SavesKept'
  BY <1>1, <1>2, NoSaves, Zenon DEF HInv
<1>24. BasesStill
  <2>1. absolute => \A g, x : BaseFile(g, x) # p
    BY <1>5, <1>6, AbsApart
  <2> QED BY <1>7, <2>1, Zenon DEF BasesStill
<1>25. Remembered'
  BY <1>1, <1>24, RememberedStays, Zenon DEF HInv
<1> QED BY <1>19, <1>20, <1>21, <1>22, <1>23, <1>25 DEF HInv

\* writeRunArtifacts: the report of the run that ends.
LEMMA WriteRunKeeps ==
  ASSUME HInv, running # NoReport, NEW r, Report(r, FALSE), OnDisk(r, DOMAIN disk), Judged(r),
         r.dir = running.dir, r.started = running.started, r.second = running.second,
         writeRunArtifacts(r)
  PROVE  HInv'
<1>1. /\ absolute' = absolute /\ second' = second /\ disk' = disk
      /\ saving' = saving /\ copied' = copied /\ base' = base
      /\ runCount' = runCount /\ harnessFaults' = harnessFaults /\ truth' = truth /\ doubtful' = doubtful
      /\ dirs' = Put(dirs, r.dir, r) /\ running' = NoReport /\ queue' = Tail(queue)
  BY Zenon DEF writeRunArtifacts
<1>2. /\ queue # <<>> /\ saving = <<>> /\ running.dir \in DOMAIN dirs
      /\ running.started = runCount /\ running.second = second
      /\ \A d \in DOMAIN dirs : dirs[d] # NoReport => dirs[d].started < runCount
  BY Zenon DEF HInv, UnderWay
<1>3. PICK d : d = r.dir
  OBVIOUS
<1>4. /\ DOMAIN dirs' = DOMAIN dirs /\ d \in DOMAIN dirs /\ dirs'[d] = r
      /\ \A e \in DOMAIN dirs : e # d => dirs'[e] = dirs[e]
  <2>1. dirs' = Put(dirs, d, r)
    BY <1>1, <1>3, Zenon
  <2>2. d \in DOMAIN dirs
    BY <1>2, <1>3, Zenon
  <2> QED BY <2>1, <2>2, Zenon DEF Put
<1>5. NoReport' = NoReport
  BY Zenon DEF NoReport
<1>6. Tail(queue) \in Seq(ToSet(ScenarioList))
  <2>1. Counters
    BY DEF HInv
  <2>2. PICK s : s = Head(queue)
    OBVIOUS
  <2> QED BY <1>2, <2>1, <2>2, HeadOf
<1>7. Counters'
  BY <1>1, <1>6, Zenon DEF HInv, Counters
<1>8. FilesPlaced'
  BY <1>1, Zenon DEF HInv, FilesPlaced
<1>9. runCount \in Nat /\ second \in 1..second /\ r.started = runCount /\ r.second = second /\ r.started \in Nat
  <2>1. runCount \in Nat /\ second \in 1..second
    <3>1. second \in 1..Len(Seconds) /\ runCount \in 0..MaxRuns /\ Len(Seconds) \in Nat /\ MaxRuns \in Nat
      BY HarnessAssumption DEF HInv, Counters
    <3> QED BY <3>1
  <2> QED BY <1>2, <2>1, Zenon
<1>10. UnderWay'
  BY <1>1, <1>5, Zenon DEF UnderWay
<1>11. runCount \in 1..runCount
  <2>1. runCount # 0
    BY Zenon DEF HInv, UnderWay
  <2> QED BY <1>9, <2>1
<1>12. RunsKept'
  <2>1. \A e : RunDirOf(e)' <=> RunDirOf(e)
    BY <1>1, SameRoot
  <2>2. \A q : Report(q, FALSE)' <=> Report(q, FALSE)
    BY <1>1, SameReports
  <2>3. (\A e \in DOMAIN dirs : RunDirOf(e))'
    BY <1>4, <2>1, Zenon DEF HInv, RunsKept
  <2>4. ASSUME NEW e \in DOMAIN dirs', dirs'[e] # NoReport
        PROVE  /\ Report(dirs'[e], FALSE) /\ dirs'[e].dir = e /\ OnDisk(dirs'[e], DOMAIN disk)
               /\ Judged(dirs'[e]) /\ dirs'[e].started \in 1..runCount /\ dirs'[e].second \in 1..second
    <3>1. CASE e = d
      BY <1>3, <1>4, <1>9, <1>11, <3>1, Zenon
    <3>2. CASE e # d
      <4>1. e \in DOMAIN dirs /\ dirs'[e] = dirs[e]
        BY <1>4, <2>4, <3>2, Zenon
      <4> QED BY <2>4, <4>1, Zenon DEF HInv, RunsKept
    <3> QED BY <3>1, <3>2
  <2>5. ASSUME NEW c \in DOMAIN dirs', NEW e \in DOMAIN dirs', dirs'[c] # NoReport, dirs'[e] # NoReport
        PROVE  /\ dirs'[c].started = dirs'[e].started => c = e
               /\ dirs'[c].started < dirs'[e].started => dirs'[c].second <= dirs'[e].second
    <3>1. PICK a, b \in Nat : a = dirs'[c].started /\ b = dirs'[e].started
      <4>1. Report(dirs'[c], FALSE) /\ Report(dirs'[e], FALSE)
        BY <2>4, <2>5, Zenon
      <4> QED BY <4>1, Zenon DEF Report
    <3>2. c \in DOMAIN dirs /\ e \in DOMAIN dirs
      BY <1>4, <2>5, Zenon
    <3>3. CASE c = d /\ e = d
      <4>1. ~(a < b)
        BY <3>1, <3>3
      <4> QED BY <3>1, <3>3, <4>1, Zenon
    <3>4. CASE c = d /\ e # d
      <4>1. dirs'[e] = dirs[e] /\ dirs'[c] = r
        BY <1>4, <3>2, <3>4, Zenon
      <4>2. dirs[e].started < runCount
        BY <1>2, <2>5, <3>2, <4>1, Zenon
      <4>3. a = runCount /\ b < runCount
        BY <1>9, <3>1, <4>1, <4>2, Zenon
      <4>4. a # b /\ ~(a < b)
        BY <1>9, <3>1, <4>3
      <4> QED BY <3>1, <4>4, Zenon
    <3>5. CASE c # d /\ e = d
      <4>1. dirs'[c] = dirs[c] /\ dirs'[e] = r
        BY <1>4, <3>2, <3>5, Zenon
      <4>2. dirs[c].started < runCount /\ dirs[c].second \in 1..second
        BY <1>2, <2>5, <3>2, <4>1, Zenon DEF HInv, RunsKept
      <4>3. b = runCount /\ a < runCount /\ dirs'[e].second = second
        BY <1>9, <3>1, <4>1, <4>2, Zenon
      <4>4. a # b
        BY <1>9, <3>1, <4>3
      <4>5. \A x \in 1..second : x <= second
        OBVIOUS
      <4> QED BY <3>1, <4>1, <4>2, <4>3, <4>4, <4>5, Zenon
    <3>6. CASE c # d /\ e # d
      <4>1. dirs'[c] = dirs[c] /\ dirs'[e] = dirs[e]
        BY <1>4, <3>2, <3>6, Zenon
      <4> QED BY <2>5, <3>2, <4>1, Zenon DEF HInv, RunsKept
    <3> QED BY <3>3, <3>4, <3>5, <3>6, Zenon
  <2> QED BY <1>1, <1>5, <2>2, <2>3, <2>4, <2>5, Zenon DEF RunsKept
<1>13. SavesKept'
  BY <1>1, <1>2, NoSaves, Zenon DEF HInv
<1>14. BasesStill
  BY <1>1, Zenon DEF BasesStill
<1>15. Remembered'
  BY <1>1, <1>14, RememberedStays, Zenon DEF HInv
<1> QED BY <1>7, <1>8, <1>10, <1>12, <1>13, <1>15 DEF HInv

\* A run under way ends with the report q.
LEMMA EndKeeps ==
  ASSUME HInv, running # NoReport, NEW ss, StepsOK(ss, running.dir), StepsOn(ss, DOMAIN disk),
         NEW vs, AssertsOK(vs, running.dir), NEW pass \in BOOLEAN, NEW err \in BOOLEAN,
         pass <=> ~err /\ \A i \in DOMAIN vs : vs[i].passed,
         NEW q, q = Remade(running, ss, pass, err, vs), writeRunArtifacts(q)
  PROVE  HInv'
<1>1. Report(running, FALSE)
  BY Zenon DEF HInv, UnderWay
<1>2. PICK r : r = running
  OBVIOUS
<1>3. Report(r, FALSE) /\ StepsOK(ss, r.dir) /\ AssertsOK(vs, r.dir) /\ q = Remade(r, ss, pass, err, vs)
  BY <1>1, <1>2, Zenon
<1>4. Report(q, FALSE)
  BY <1>3, RemadeOK
<1>5. GoesOn(q, r, ss, pass, err, vs)
  BY <1>3, RemadeFields
<1>6. /\ q.dir = running.dir /\ q.second = running.second /\ q.started = running.started
      /\ q.steps = ss /\ q.asserts = vs /\ q.passed = pass /\ q.error = err
  BY <1>2, <1>5, Zenon DEF GoesOn
<1>7. OnDisk(q, DOMAIN disk)
  BY <1>6, Zenon DEF OnDisk, StepsOn
<1>8. Judged(q)
  BY <1>6, Zenon DEF Judged
<1> QED BY <1>4, <1>6, <1>7, <1>8, WriteRunKeeps

LEMMA UnderWayIs ==
  ASSUME HInv, running # NoReport
  PROVE  /\ Report(running, FALSE) /\ running = Fields(running, running.steps)
         /\ StepsOK(running.steps, running.dir) /\ StepsOn(running.steps, DOMAIN disk)
         /\ running.passed = FALSE /\ running.error = FALSE /\ running.asserts = <<>>
         /\ AssertsOK(<<>>, running.dir) /\ queue # <<>> /\ running.name = Head(queue).name
<1>1. /\ Report(running, FALSE) /\ OnDisk(running, DOMAIN disk)
      /\ running.passed = FALSE /\ running.error = FALSE /\ running.asserts = <<>>
      /\ queue # <<>> /\ running.name = Head(queue).name
  BY Zenon DEF HInv, UnderWay
<1>2. running = Fields(running, running.steps)
  BY <1>1, Zenon DEF Report, ReportForm
<1>3. StepsOK(running.steps, running.dir)
  BY <1>1, PartsOf
<1>4. StepsOn(running.steps, DOMAIN disk)
  BY <1>1, Zenon DEF OnDisk, StepsOn
<1>5. <<>> \in Seq(ToSet(<<>>)) /\ DOMAIN <<>> = {}
  OBVIOUS
<1>6. AssertsOK(<<>>, running.dir)
  BY <1>5, Zenon DEF AssertsOK
<1> QED BY <1>1, <1>2, <1>3, <1>4, <1>6, Zenon

LEMMA WithError ==
  ASSUME NEW r, r = Fields(r, r.steps), NEW err
  PROVE  [r EXCEPT !.error = err] = Remade(r, r.steps, r.passed, err, r.asserts)
BY DEF Fields, Remade

LEMMA WithPassed ==
  ASSUME NEW r, r = Fields(r, r.steps), NEW pass
  PROVE  [r EXCEPT !.passed = pass] = Remade(r, r.steps, pass, r.error, r.asserts)
BY DEF Fields, Remade

\* A report of which one field more is set.
LEMMA ThenSteps ==
  ASSUME NEW r, NEW ss, NEW pass, NEW err, NEW vs, NEW q, q = Remade(r, ss, pass, err, vs), NEW su
  PROVE  [q EXCEPT !.steps = su] = Remade(r, su, pass, err, vs)
<1>1. q = Fields(q, q.steps)
  BY RemadeFields
<1>2. [q EXCEPT !.steps = su] = Fields(q, su)
  BY <1>1, WithSteps
<1>3. Fields(q, su) = Remade(r, su, pass, err, vs)
  BY DEF Fields, Remade
<1> QED BY <1>2, <1>3, Zenon

LEMMA ThenPassed ==
  ASSUME NEW r, NEW ss, NEW pass, NEW err, NEW vs, NEW q, q = Remade(r, ss, pass, err, vs), NEW now
  PROVE  [q EXCEPT !.passed = now] = Remade(r, ss, now, err, vs)
<1>1. q = Fields(q, q.steps)
  BY RemadeFields
<1>2. [q EXCEPT !.passed = now] = Remade(q, q.steps, now, q.error, q.asserts)
  BY <1>1, WithPassed
<1>3. Remade(q, q.steps, now, q.error, q.asserts) = Remade(r, ss, now, err, vs)
  BY DEF Remade
<1> QED BY <1>2, <1>3, Zenon

LEMMA WithAsserts ==
  ASSUME NEW r, r = Fields(r, r.steps), NEW vs
  PROVE  [r EXCEPT !.asserts = vs] = Remade(r, r.steps, r.passed, r.error, vs)
<1>1. PICK q : q = [r EXCEPT !.asserts = vs]
  OBVIOUS
<1>2. PICK t : t = Remade(r, r.steps, r.passed, r.error, vs)
  OBVIOUS
<1>3. DOMAIN q = {"name", "tags", "lane", "dir", "second", "started", "passed", "error", "steps", "asserts"}
  BY <1>1 DEF Fields
<1>4. /\ q.name = r.name /\ q.tags = r.tags /\ q.lane = r.lane /\ q.dir = r.dir
      /\ q.second = r.second /\ q.started = r.started /\ q.passed = r.passed
      /\ q.error = r.error /\ q.steps = r.steps /\ q.asserts = vs
  BY <1>1 DEF Fields
<1>5. q = [x \in DOMAIN q |-> q[x]]
  BY <1>1
<1>6. q = t
  BY <1>2, <1>3, <1>4, <1>5 DEF Remade
<1> QED BY <1>1, <1>2, <1>6, Zenon

LEMMA StepFailsKeeps == ASSUME HInv, StepFails PROVE HInv'
<1>1. running # NoReport
  BY Zenon DEF StepFails, StepsLeft
<1>2. /\ running = Fields(running, running.steps)
      /\ StepsOK(running.steps, running.dir) /\ StepsOn(running.steps, DOMAIN disk)
      /\ running.passed = FALSE /\ running.error = FALSE /\ running.asserts = <<>>
      /\ AssertsOK(<<>>, running.dir)
  BY <1>1, UnderWayIs, Zenon
<1>3. PICK x, e : writeRunArtifacts([running EXCEPT !.error = TRUE, !.steps =
                     Append(@, [id |-> x, outcome |-> e, files |-> <<>>])])
  BY Zenon DEF StepFails
<1>4. PICK st : st = [id |-> x, outcome |-> e, files |-> <<>>]
  OBVIOUS
<1>5. StepForm(st) /\ st.files = <<>> /\ DOMAIN st.files = {}
  BY <1>4 DEF StepForm
<1>6. PICK ss, D, d : ss = running.steps /\ D = DOMAIN disk /\ d = running.dir
  OBVIOUS
<1>7. PICK su : su = Append(ss, st)
  OBVIOUS
<1>8. StepsOK(su, d) /\ StepsOn(su, D)
  <2>1. StepsOK(ss, d) /\ StepsOn(ss, D)
    BY <1>2, <1>6, Zenon
  <2>2. st.files \in {<<>>, <<RunFile(d, st.id)>>} /\ \A j \in DOMAIN st.files : st.files[j] \in D
    BY <1>5, Zenon
  <2> QED BY <1>5, <1>7, <2>1, <2>2, AppendedSteps
<1>9. PICK q : q = Remade(running, su, FALSE, TRUE, <<>>)
  OBVIOUS
<1>10. [running EXCEPT !.error = TRUE, !.steps = Append(@, st)] = q
  <2>1. PICK r : r = running
    OBVIOUS
  <2>2. PICK q0 : q0 = [r EXCEPT !.error = TRUE]
    OBVIOUS
  <2>3. q0 = Remade(r, r.steps, r.passed, TRUE, r.asserts)
    BY <1>2, <2>1, <2>2, WithError
  <2>4. PICK ps, te, vs : ps = FALSE /\ te = TRUE /\ vs = <<>> /\ q0 = Remade(r, ss, ps, te, vs)
    BY <1>2, <1>6, <2>1, <2>3, Zenon
  <2>5. [q0 EXCEPT !.steps = su] = Remade(r, su, ps, te, vs)
    <3>1. q0 = Remade(r, ss, ps, te, vs)
      BY <2>4, Zenon
    <3> QED BY <3>1, ThenSteps
  <2>6. [running EXCEPT !.error = TRUE, !.steps = Append(@, st)] = [q0 EXCEPT !.steps = su]
    BY <1>6, <1>7, <2>1, <2>2, Zenon
  <2>7. Remade(r, su, ps, te, vs) = q
    BY <1>9, <2>1, <2>4, Zenon
  <2> QED BY <2>5, <2>6, <2>7, Zenon
<1>11. writeRunArtifacts(q)
  BY <1>3, <1>4, <1>10, Zenon
<1>12. DOMAIN <<>> = {} /\ TRUE \in BOOLEAN /\ FALSE \in BOOLEAN
  OBVIOUS
<1>13. FALSE <=> ~TRUE /\ \A i \in DOMAIN <<>> : <<>>[i].passed
  OBVIOUS
<1> QED BY <1>1, <1>2, <1>6, <1>8, <1>9, <1>11, <1>12, <1>13, EndKeeps

LEMMA EnvFailsKeeps == ASSUME HInv, EnvFails PROVE HInv'
<1>1. running # NoReport /\ writeRunArtifacts([running EXCEPT !.error = TRUE])
  BY Zenon DEF EnvFails
<1>2. /\ running = Fields(running, running.steps)
      /\ StepsOK(running.steps, running.dir) /\ StepsOn(running.steps, DOMAIN disk)
      /\ running.passed = FALSE /\ running.error = FALSE /\ running.asserts = <<>>
      /\ AssertsOK(<<>>, running.dir)
  BY <1>1, UnderWayIs, Zenon
<1>3. PICK ss : ss = running.steps
  OBVIOUS
<1>4. PICK q : q = Remade(running, ss, FALSE, TRUE, <<>>)
  OBVIOUS
<1>5. [running EXCEPT !.error = TRUE] = q
  <2>1. PICK r : r = running
    OBVIOUS
  <2>2. [r EXCEPT !.error = TRUE] = Remade(r, r.steps, r.passed, TRUE, r.asserts)
    BY <1>2, <2>1, WithError
  <2> QED BY <1>2, <1>3, <1>4, <2>1, <2>2, Zenon
<1>6. writeRunArtifacts(q)
  BY <1>1, <1>5, Zenon
<1>7. StepsOK(ss, running.dir) /\ StepsOn(ss, DOMAIN disk)
  BY <1>2, <1>3, Zenon
<1>8. TRUE \in BOOLEAN /\ FALSE \in BOOLEAN
  OBVIOUS
<1>9. FALSE <=> ~TRUE /\ \A i \in DOMAIN <<>> : <<>>[i].passed
  OBVIOUS
<1> QED BY <1>1, <1>2, <1>4, <1>6, <1>7, <1>8, <1>9, EndKeeps

LEMMA VerdictIs ==
  ASSUME NEW a, NEW pass \in BOOLEAN, NEW details, NEW root, NEW v, v = Verdict(a, pass, details, root)
  PROVE  v.passed \in BOOLEAN /\ v.root = root
BY DEF Verdict

VerdictOK(v, d) == v.passed \in BOOLEAN /\ v.root \in {<<>>, d}

LEMMA EvaluatedOne == ASSUME NEW a PROVE VerdictOK(evaluateAssertion(a), running.dir)
<1>1. PICK d : d = running.dir
  OBVIOUS
<1>2. \A pass \in BOOLEAN : \A dt : VerdictOK(Verdict(a, pass, dt, <<>>), d)
  BY VerdictIs DEF VerdictOK
<1>3. ASSUME NEW st PROVE VerdictOK(assertState(a, st), d)
  <2>1. PICK pass \in BOOLEAN : pass = (st.outcome = a.want)
    OBVIOUS
  <2>2. assertState(a, st) = Verdict(a, pass, st.outcome, <<>>)
    BY <2>1, Zenon DEF assertState
  <2> QED BY <1>2, <2>2, Zenon
<1>4. ASSUME NEW n PROVE VerdictOK(evaluateCountAssertion(a, n), d)
  <2>1. PICK pass \in BOOLEAN : pass = (n = a.want)
    OBVIOUS
  <2>2. evaluateCountAssertion(a, n) = Verdict(a, pass, n, <<>>)
    BY <2>1, Zenon DEF evaluateCountAssertion
  <2> QED BY <1>2, <2>2, Zenon
<1>5. ASSUME NEW st
      PROVE  \E pass \in BOOLEAN : assertContains(a, st) = Verdict(a, pass, pass, <<>>)
  <2>1. PICK pass \in BOOLEAN : pass = \E i \in DOMAIN st.files :
                 st.files[i] \in DOMAIN disk /\ disk[st.files[i]].value = a.want
    OBVIOUS
  <2>2. assertContains(a, st) = Verdict(a, pass, pass, <<>>)
    BY <2>1, Zenon DEF assertContains
  <2> QED BY <2>1, <2>2
<1>6. ASSUME NEW st PROVE VerdictOK(assertContains(a, st), d)
  BY <1>2, <1>5, Zenon
<1>7. ASSUME NEW st PROVE VerdictOK(assertFile(a, st), d)
  <2>1. PICK pass \in BOOLEAN : assertContains(a, st) = Verdict(a, pass, pass, <<>>)
    BY <1>5
  <2>2. PICK v : v = assertFile(a, st)
    OBVIOUS
  <2>3. v = [Verdict(a, pass, pass, <<>>) EXCEPT !.root = d]
    BY <1>1, <2>1, <2>2, Zenon DEF assertFile
  <2>4. v.passed = pass /\ v.root = d
    BY <2>3 DEF Verdict
  <2> QED BY <2>2, <2>4 DEF VerdictOK
<1>8. FALSE \in BOOLEAN
  OBVIOUS
<1>9. \A dt : VerdictOK(Verdict(a, FALSE, dt, <<>>), d)
  BY <1>2, <1>8, Zenon
<1>10. VerdictOK(evaluateAssertion(a), d)
  BY <1>3, <1>4, <1>6, <1>7, <1>9, Zenon DEF evaluateAssertion
<1> QED BY <1>1, <1>10, Zenon

LEMMA FinishRunKeeps == ASSUME HInv, FinishRun PROVE HInv'
<1>1. PICK vs, pass : /\ vs = evaluateAssertions
                      /\ pass = \A i \in DOMAIN vs : vs[i].passed
                      /\ writeRunArtifacts([running EXCEPT !.asserts = vs, !.passed = pass])
  BY Zenon DEF FinishRun
<1>2. running # NoReport
  BY Zenon DEF FinishRun
<1>3. /\ running = Fields(running, running.steps)
      /\ StepsOK(running.steps, running.dir) /\ StepsOn(running.steps, DOMAIN disk)
      /\ running.passed = FALSE /\ running.error = FALSE
      /\ queue # <<>>
  BY <1>2, UnderWayIs, Zenon
<1>4. PICK s : s = Head(queue)
  OBVIOUS
<1>5. s.asserts \in Seq(ToSet(s.asserts))
  <2>1. Counters
    BY DEF HInv
  <2> QED BY <1>3, <1>4, <2>1, HeadOf
<1>6. vs = [i \in DOMAIN s.asserts |-> evaluateAssertion(s.asserts[i])]
  BY <1>1, <1>4, Zenon DEF evaluateAssertions
<1>7. PICK n \in Nat : DOMAIN s.asserts = 1..n
  BY <1>5
<1>8. DOMAIN vs = 1..n /\ vs = [i \in 1..n |-> vs[i]] /\ \A i \in 1..n : vs[i] = evaluateAssertion(s.asserts[i])
  BY <1>6, <1>7, Zenon
<1>9. vs \in Seq(ToSet(vs))
  BY <1>8, SeqFun
<1>10. AssertsOK(vs, running.dir)
  <2>1. ASSUME NEW i \in 1..n PROVE VerdictOK(vs[i], running.dir)
    <3>1. VerdictOK(evaluateAssertion(s.asserts[i]), running.dir)
      BY EvaluatedOne
    <3> QED BY <1>8, <3>1, Zenon
  <2> QED BY <1>8, <1>9, <2>1, Zenon DEF AssertsOK, VerdictOK
<1>11. pass \in BOOLEAN
  BY <1>1
<1>12. PICK ss : ss = running.steps
  OBVIOUS
<1>13. PICK q : q = Remade(running, ss, pass, FALSE, vs)
  OBVIOUS
<1>14. [running EXCEPT !.asserts = vs, !.passed = pass] = q
  <2>1. PICK r : r = running
    OBVIOUS
  <2>2. PICK q0 : q0 = [r EXCEPT !.asserts = vs]
    OBVIOUS
  <2>3. q0 = Remade(r, r.steps, r.passed, r.error, vs)
    BY <1>3, <2>1, <2>2, WithAsserts
  <2>4. PICK ps, te : te = FALSE /\ q0 = Remade(r, ss, ps, te, vs)
    BY <1>3, <1>12, <2>1, <2>3, Zenon
  <2>5. [q0 EXCEPT !.passed = pass] = Remade(r, ss, pass, te, vs)
    BY <2>4, ThenPassed
  <2>6. [running EXCEPT !.asserts = vs, !.passed = pass] = [q0 EXCEPT !.passed = pass]
    BY <2>1, <2>2, Zenon
  <2>7. Remade(r, ss, pass, te, vs) = q
    BY <1>13, <2>1, <2>4, Zenon
  <2> QED BY <2>5, <2>6, <2>7, Zenon
<1>15. writeRunArtifacts(q)
  BY <1>1, <1>14, Zenon
<1>16. StepsOK(ss, running.dir) /\ StepsOn(ss, DOMAIN disk)
  BY <1>3, <1>12, Zenon
<1>17. FALSE \in BOOLEAN
  OBVIOUS
<1>18. pass <=> ~FALSE /\ \A i \in DOMAIN vs : vs[i].passed
  BY <1>1
<1> QED BY <1>2, <1>10, <1>11, <1>13, <1>15, <1>16, <1>17, <1>18, EndKeeps

-----------------------------------------------------------------------------
(* snapshotBaselineReport *)

Found(st) == \E j \in DOMAIN st.files : st.files[j] \in DOMAIN disk
FromOf(r) == {r.steps[i] : i \in {k \in DOMAIN r.steps : Found(r.steps[k])}}
DestOf(r, g) == {BaseDir(g) \o snapshotPath(s) : s \in FromOf(r)}
CopyOf(st) == [st EXCEPT !.files = snapshotStepFiles(st)]
CopiesOf(ss) == [i \in DOMAIN ss |-> CopyOf(ss[i])]
Origin(F, p) == (CHOOSE s \in F : s.id = Last(p)).files[1]

Snapshots(r, g, F, E) ==
  /\ saving # <<>> /\ copied = NoReport
  /\ copied' = [r EXCEPT !.steps = CopiesOf(r.steps)]
  /\ disk' = [p \in DOMAIN disk \cup E |-> IF p \in E THEN disk[Origin(F, p)] ELSE disk[p]]
  /\ r.dir \in DOMAIN dirs => truth' = Put(truth, g, Shows(dirs[r.dir])) /\ doubtful' = doubtful \ {g}
  /\ r.dir \notin DOMAIN dirs => doubtful' = doubtful \cup {g} /\ truth' = truth
  /\ absolute' = absolute /\ second' = second /\ dirs' = dirs /\ queue' = queue
  /\ running' = running /\ saving' = saving /\ base' = base /\ runCount' = runCount
  /\ harnessFaults' = harnessFaults

LEMMA SnapshotIs ==
  ASSUME snapshotBaselineReport, NEW r, r = Head(saving), NEW g, g = slugify[r.name],
         NEW F, F = FromOf(r), NEW E, E = DestOf(r, g)
  PROVE  Snapshots(r, g, F, E)
<1>1. saving # <<>> /\ copied = NoReport
  BY Zenon DEF snapshotBaselineReport
<1>2. copied' = [r EXCEPT !.steps = CopiesOf(r.steps)]
  BY Zenon DEF snapshotBaselineReport, CopiesOf, CopyOf
<1>3. disk' = [p \in DOMAIN disk \cup E |-> IF p \in E THEN disk[Origin(F, p)] ELSE disk[p]]
  <2> DEFINE q == Head(saving)
             D == DestOf(q, slugify[q.name])
  <2>1. disk' = [p \in DOMAIN disk \cup D |-> IF p \in D THEN disk[Origin(FromOf(q), p)] ELSE disk[p]]
    BY Zenon DEF snapshotBaselineReport, FromOf, DestOf, Origin, Found
  <2>2. D = E /\ FromOf(q) = F
    BY Zenon
  <2> QED BY <2>1, <2>2, Zenon
<1>4. r.dir \in DOMAIN dirs => truth' = Put(truth, g, Shows(dirs[r.dir])) /\ doubtful' = doubtful \ {g}
  BY Zenon DEF snapshotBaselineReport
<1>5. r.dir \notin DOMAIN dirs => doubtful' = doubtful \cup {g} /\ truth' = truth
  BY Zenon DEF snapshotBaselineReport
<1>6. /\ absolute' = absolute /\ second' = second /\ dirs' = dirs /\ queue' = queue
      /\ running' = running /\ saving' = saving /\ base' = base /\ runCount' = runCount
      /\ harnessFaults' = harnessFaults
  BY Zenon DEF snapshotBaselineReport
<1> QED BY <1>1, <1>2, <1>3, <1>4, <1>5, <1>6, Zenon DEF Snapshots

\* The copy of a step.
LEMMA CopyIs ==
  ASSUME NEW st, StepForm(st), NEW c, c = CopyOf(st)
  PROVE  /\ StepForm(c) /\ c.id = st.id /\ c.outcome = st.outcome /\ c.files = snapshotStepFiles(st)
<1>1. c = [id |-> st.id, outcome |-> st.outcome, files |-> snapshotStepFiles(st)]
  BY WithFiles, Zenon DEF CopyOf
<1>2. StepForm(c)
  BY WithFiles, Zenon DEF CopyOf
<1> QED BY <1>1, <1>2

LEMMA CopiedNone == ASSUME NEW st, st.files = <<>> PROVE snapshotStepFiles(st) = <<>> /\ ~Found(st)
<1>1. DOMAIN <<>> = {}
  OBVIOUS
<1>2. ~Found(st)
  BY <1>1, Zenon DEF Found
<1>3. snapshotStepFiles(st) = <<>>
  BY <1>1 DEF snapshotStepFiles
<1> QED BY <1>2, <1>3

LEMMA CopiedOne ==
  ASSUME NEW st, NEW p, st.files = <<p>>
  PROVE  /\ p \in DOMAIN disk => snapshotStepFiles(st) = <<snapshotPath(st)>> /\ Found(st)
         /\ p \notin DOMAIN disk => snapshotStepFiles(st) = <<p>> /\ ~Found(st)
<1>1. DOMAIN st.files = {1} /\ st.files[1] = p
  OBVIOUS
<1>2. Found(st) <=> p \in DOMAIN disk
  BY <1>1, Zenon DEF Found
<1>3. PICK y : y = IF p \in DOMAIN disk THEN snapshotPath(st) ELSE p
  OBVIOUS
<1>4. snapshotStepFiles(st) = [j \in {1} |-> y]
  BY <1>1, <1>3 DEF snapshotStepFiles
<1>5. [j \in {1} |-> y] = <<y>>
  OBVIOUS
<1>6. snapshotStepFiles(st) = <<y>>
  BY <1>4, <1>5, Zenon
<1> QED BY <1>2, <1>3, <1>6, Zenon

\* Below a relative root nothing is found, below an absolute one each file of
\* the run that is there.
LEMMA FoundRel ==
  ASSUME HInv, ~absolute, NEW d, RunDirOf(d), NEW st, NEW p, p = FilePath(d, st.id, TRUE),
         st.files = <<>> \/ st.files = <<p>>
  PROVE  ~Found(st) /\ snapshotStepFiles(st) = st.files
<1>1. PlacedIn(DOMAIN disk)
  BY DEF HInv, FilesPlaced
<1>3. p \notin DOMAIN disk
  BY <1>1, RelDeep
<1>4. CASE st.files = <<>>
  BY <1>4, CopiedNone, Zenon
<1>5. CASE st.files = <<p>>
  BY <1>3, <1>5, CopiedOne, Zenon
<1> QED BY <1>4, <1>5, Zenon

LEMMA DestIs ==
  ASSUME NEW r, NEW g
  PROVE  \A p : p \in DestOf(r, g) <=> \E s \in FromOf(r) : p = BaseFile(g, s.id)
BY Zenon DEF DestOf, BaseFile, snapshotPath

LEMMA FromIs ==
  ASSUME NEW r
  PROVE  \A s : s \in FromOf(r) <=> \E i \in DOMAIN r.steps : s = r.steps[i] /\ Found(s)
BY Zenon DEF FromOf

\* What the disk holds afterwards.
DiskAfter(r, g, F) ==
  /\ DOMAIN disk \subseteq DOMAIN disk'
  /\ ~absolute => DOMAIN disk' = DOMAIN disk
  /\ absolute => \A h, x : h # g /\ BaseFile(h, x) \in DOMAIN disk =>
                   BaseFile(h, x) \in DOMAIN disk' /\ disk'[BaseFile(h, x)] = disk[BaseFile(h, x)]
  /\ absolute => \A s \in F : BaseFile(g, s.id) \in DOMAIN disk' /\
                   disk'[BaseFile(g, s.id)] = disk[RunFile(r.dir, s.id)]

LEMMA SnapshotDisk ==
  ASSUME HInv, NEW r, Report(r, ~absolute), NEW g, NEW F, F = FromOf(r), NEW E, E = DestOf(r, g),
         disk' = [p \in DOMAIN disk \cup E |-> IF p \in E THEN disk[Origin(F, p)] ELSE disk[p]]
  PROVE  DiskAfter(r, g, F)
<1>1. DOMAIN disk' = DOMAIN disk \cup E
  BY Zenon
<1>2. RunDirOf(r.dir) /\ \A i \in DOMAIN r.steps :
        r.steps[i].files \in {<<>>, <<FilePath(r.dir, r.steps[i].id, ~absolute)>>}
  BY Zenon DEF Report
<1>3. \A p : p \in E <=> \E s \in F : p = BaseFile(g, s.id)
  <2>1. \A p : p \in DestOf(r, g) <=> \E s \in FromOf(r) : p = BaseFile(g, s.id)
    BY DestIs
  <2> QED BY <2>1, Zenon
<1>4. \A s : s \in F <=> \E i \in DOMAIN r.steps : s = r.steps[i] /\ Found(s)
  BY FromIs, Zenon
<1>5. ASSUME ~absolute PROVE DOMAIN disk' = DOMAIN disk
  <2>1. ASSUME NEW s \in F PROVE FALSE
    <3>1. PICK i \in DOMAIN r.steps : s = r.steps[i] /\ Found(s)
      BY <1>4, <2>1, Zenon
    <3>2. PICK deep : deep = ~absolute /\ deep = TRUE
      BY <1>5
    <3>3. s.files \in {<<>>, <<FilePath(r.dir, s.id, TRUE)>>}
      BY <1>2, <3>1, <3>2, Zenon
    <3>4. PICK d : d = r.dir
      OBVIOUS
    <3>5. PICK p : p = FilePath(d, s.id, TRUE)
      OBVIOUS
    <3>6. RunDirOf(d) /\ (s.files = <<>> \/ s.files = <<p>>)
      BY <1>2, <3>3, <3>4, <3>5, Zenon
    <3>7. ~Found(s)
      BY <1>5, <3>5, <3>6, FoundRel
    <3> QED BY <3>1, <3>7
  <2>2. E = {}
    BY <1>3, <2>1, Zenon
  <2> QED BY <1>1, <2>2, Zenon
<1>6. ASSUME absolute, NEW h, NEW x, h # g, BaseFile(h, x) \in DOMAIN disk
      PROVE  BaseFile(h, x) \in DOMAIN disk' /\ disk'[BaseFile(h, x)] = disk[BaseFile(h, x)]
  <2>1. PICK p : p = BaseFile(h, x)
    OBVIOUS
  <2>2. p \notin E
    <3> SUFFICES ASSUME p \in E PROVE FALSE
      OBVIOUS
    <3>1. PICK s \in F : p = BaseFile(g, s.id)
      BY <1>3, Zenon
    <3>2. PICK y : y = s.id
      OBVIOUS
    <3>3. BaseFile(h, x) = BaseFile(g, y)
      BY <2>1, <3>1, <3>2, Zenon
    <3>4. h = g
      BY <1>6, <3>3, BaseApart
    <3> QED BY <1>6, <3>4
  <2> QED BY <1>1, <1>6, <2>1, <2>2, Zenon
<1>7. ASSUME absolute, NEW s \in F
      PROVE  BaseFile(g, s.id) \in DOMAIN disk' /\ disk'[BaseFile(g, s.id)] = disk[RunFile(r.dir, s.id)]
  <2>1. PICK p : p = BaseFile(g, s.id)
    OBVIOUS
  <2>2. p \in E
    BY <1>3, <1>7, <2>1, Zenon
  <2>3. Last(p) = s.id
    BY <1>7, <2>1, BaseLast
  <2>4. PICK u : u = CHOOSE a \in F : a.id = Last(p)
    OBVIOUS
  <2>5. u \in F /\ u.id = s.id
    BY <1>7, <2>3, <2>4, Zenon
  <2>6. PICK i \in DOMAIN r.steps : u = r.steps[i] /\ Found(u)
    BY <1>4, <2>5, Zenon
  <2>7. u.files \in {<<>>, <<FilePath(r.dir, u.id, ~absolute)>>}
    BY <1>2, <2>6, Zenon
  <2>8. u.files # <<>>
    BY <2>6, CopiedNone, Zenon
  <2>9. FilePath(r.dir, u.id, ~absolute) = RunFile(r.dir, s.id)
    BY <1>7, <2>5, Zenon DEF FilePath
  <2>10. u.files = <<RunFile(r.dir, s.id)>>
    BY <2>7, <2>8, <2>9, Zenon
  <2>11. u.files[1] = RunFile(r.dir, s.id)
    BY <2>10
  <2>12. Origin(F, p) = RunFile(r.dir, s.id)
    BY <2>4, <2>11, Zenon DEF Origin
  <2> QED BY <1>1, <2>1, <2>2, <2>12, Zenon
<1> QED BY <1>1, <1>5, <1>6, <1>7, Zenon DEF DiskAfter

\* A step of the report that is saved (st) and of the one in the run's directory.
Twin(q, st, d) ==
  /\ StepForm(st) /\ q.id = st.id /\ q.outcome = st.outcome
  /\ st.files = <<>> \/ st.files = <<FilePath(d, st.id, ~absolute)>>
  /\ (q.files = <<>>) <=> (st.files = <<>>)
  /\ q.files = <<>> \/ (q.files = <<RunFile(d, st.id)>> /\ RunFile(d, st.id) \in DOMAIN disk)
Lands(st, g, d) ==
  absolute /\ Found(st) =>
    BaseFile(g, st.id) \in DOMAIN disk' /\ disk'[BaseFile(g, st.id)] = disk[RunFile(d, st.id)]

LEMMA HeldNow ==
  ASSUME HInv, absolute' = absolute, NEW g, NEW d, RunDirOf(d), NEW st, NEW q, Twin(q, st, d),
         Lands(st, g, d), NEW c, c = CopyOf(st), NEW ts, ts = ShowStep(q)
  PROVE  Held(c, ts, g, d)'
<1>1. c.id = st.id /\ c.outcome = st.outcome /\ c.files = snapshotStepFiles(st)
  <2>1. StepForm(st)
    BY DEF Twin
  <2> QED BY <2>1, CopyIs
<1>2. q.id = st.id /\ q.outcome = st.outcome
  BY DEF Twin
<1>3. BaseFile(g, st.id)' = BaseFile(g, st.id)
  BY SameRoot
<1>4. absolute \in BOOLEAN
  BY DEF HInv, Counters
<1>5. CASE st.files = <<>>
  <2>1. c.files = <<>>
    BY <1>1, <1>5, CopiedNone
  <2>2. q.files = <<>>
    BY <1>5, Zenon DEF Twin
  <2>3. ts = <<q.id, q.outcome, <<>>>>
    BY <2>2, ShowNone
  <2>4. ts = <<c.id, c.outcome, <<>>>>
    BY <1>1, <1>2, <2>3, Zenon
  <2>5. ts[3] = <<>>
    BY <2>4
  <2>6. ts = <<c.id, c.outcome, ts[3]>>
    BY <2>4, <2>5, Zenon
  <2> QED BY <2>1, <2>5, <2>6, Zenon DEF Held
<1>6. CASE st.files # <<>>
  <2>1. PICK p : p = RunFile(d, st.id)
    OBVIOUS
  <2>2. q.files = <<p>> /\ p \in DOMAIN disk
    BY <1>6, <2>1, Zenon DEF Twin
  <2>3. PICK x : x = Content(p)
    OBVIOUS
  <2>4. ts = <<q.id, q.outcome, <<x>>>>
    BY <2>2, <2>3, ShowOne
  <2>5. ts = <<c.id, c.outcome, <<x>>>>
    BY <1>1, <1>2, <2>4, Zenon
  <2>6. ts[3] = <<x>>
    BY <2>5
  <2>7. ts = <<c.id, c.outcome, ts[3]>>
    BY <2>5, <2>6, Zenon
  <2>8. CASE absolute
    <3>1. FilePath(d, st.id, ~absolute) = p
      BY <2>1, <2>8, Zenon DEF FilePath
    <3>2. st.files = <<p>>
      BY <1>6, <3>1, Zenon DEF Twin
    <3>3. snapshotStepFiles(st) = <<snapshotPath(st)>> /\ Found(st)
      BY <2>2, <3>2, CopiedOne
    <3>4. PICK b : b = BaseFile(g, st.id)
      OBVIOUS
    <3>5. b \in DOMAIN disk' /\ disk'[b] = disk[p]
      BY <2>1, <2>8, <3>3, <3>4, Zenon DEF Lands
    <3>6. BaseFile(g, c.id)' = b
      BY <1>1, <1>3, <3>4, Zenon
    <3>7. normalizeArtifactContent(disk'[b]) = x
      BY <2>3, <3>5, Zenon DEF normalizeArtifactContent, Content
    <3>8. c.files = <<snapshotPath(c)>>
      BY <1>1, <3>3, Zenon DEF snapshotPath
    <3>9. ts[3] = <<normalizeArtifactContent(disk'[b])>>
      BY <2>6, <3>7, Zenon
    <3>10. (BaseFile(g, c.id) \in DOMAIN disk)' /\ (ts[3] = <<normalizeArtifactContent(disk[BaseFile(g, c.id)])>>)'
      BY <3>5, <3>6, <3>9, Zenon
    <3>11. absolute'
      BY <2>8, Zenon
    <3> QED BY <2>7, <3>8, <3>10, <3>11, Zenon DEF Held
  <2>9. CASE ~absolute
    <3>1. PICK deep : deep = ~absolute /\ deep = TRUE
      BY <2>9
    <3>2. PICK z : z = FilePath(d, st.id, TRUE)
      OBVIOUS
    <3>3. st.files = <<z>>
      BY <1>6, <3>1, <3>2, Zenon DEF Twin
    <3>4. snapshotStepFiles(st) = st.files
      BY <2>9, <3>2, <3>3, FoundRel
    <3>5. c.files = <<z>>
      BY <1>1, <3>3, <3>4, Zenon
    <3>6. z = FilePath(d, c.id, TRUE)
      BY <1>1, <3>2, Zenon
    <3>7. ts[3][1] = x
      BY <2>6
    <3>8. ts[3] = <<ts[3][1]>>
      BY <2>6, <3>7, Zenon
    <3>9. ~absolute'
      BY <2>9, Zenon
    <3> QED BY <2>7, <3>5, <3>6, <3>8, <3>9, Zenon DEF Held
  <2> QED BY <1>4, <2>8, <2>9, Zenon
<1> QED BY <1>5, <1>6

\* The copy of a report.
LEMMA CopiedFields ==
  ASSUME NEW r, ReportForm(r), NEW c, c = Fields(r, CopiesOf(r.steps))
  PROVE  /\ ReportForm(c) /\ c.name = r.name /\ c.dir = r.dir /\ c.passed = r.passed
         /\ c.asserts = r.asserts /\ DOMAIN c.steps = DOMAIN r.steps
         /\ \A i \in DOMAIN r.steps : c.steps[i] = CopyOf(r.steps[i])
<1>1. r = Fields(r, r.steps) /\ r.steps \in Seq(ToSet(r.steps))
  BY DEF ReportForm
<1>2. PICK cs : cs = CopiesOf(r.steps)
  OBVIOUS
<1>3. c = Fields(r, cs)
  BY <1>2, Zenon
<1>4. /\ c.name = r.name /\ c.dir = r.dir /\ c.passed = r.passed /\ c.steps = cs
      /\ c.asserts = r.asserts /\ c = Fields(c, c.steps)
  <2>1. /\ c.name = r.name /\ c.tags = r.tags /\ c.lane = r.lane /\ c.dir = r.dir
        /\ c.second = r.second /\ c.started = r.started /\ c.passed = r.passed
        /\ c.error = r.error /\ c.steps = cs /\ c.asserts = r.asserts
        /\ c = Fields(c, c.steps)
    BY <1>3, FieldsOf
  <2> QED BY <2>1
<1>5. PICK n \in Nat : DOMAIN r.steps = 1..n
  BY <1>1
<1>6. DOMAIN cs = 1..n /\ cs = [i \in 1..n |-> cs[i]] /\ \A i \in 1..n : cs[i] = CopyOf(r.steps[i])
  BY <1>2, <1>5, Zenon DEF CopiesOf
<1>7. cs \in Seq(ToSet(cs))
  BY <1>6, SeqFun
<1>8. ASSUME NEW i \in 1..n PROVE StepForm(cs[i])
  <2>1. PICK st : st = r.steps[i]
    OBVIOUS
  <2>2. StepForm(st)
    BY <1>5, <2>1, Zenon DEF ReportForm
  <2>3. PICK d : d = CopyOf(st)
    OBVIOUS
  <2>4. StepForm(d)
    BY <2>2, <2>3, CopyIs
  <2> QED BY <1>6, <2>1, <2>3, <2>4, Zenon
<1>9. ReportForm(c)
  <2>1. c.steps \in Seq(ToSet(c.steps)) /\ c.asserts \in Seq(ToSet(c.asserts))
    BY <1>4, <1>7, Zenon DEF ReportForm
  <2>2. \A i \in DOMAIN c.steps : StepForm(c.steps[i])
    BY <1>4, <1>6, <1>8, Zenon
  <2>3. \A i \in DOMAIN c.asserts : c.asserts[i].passed \in BOOLEAN /\ c.asserts[i].root \in {<<>>, c.dir}
    BY <1>4, Zenon DEF ReportForm
  <2> QED BY <1>4, <2>1, <2>2, <2>3, Zenon DEF ReportForm
<1> QED BY <1>4, <1>5, <1>6, <1>9, Zenon

LEMMA CopiedForm ==
  ASSUME NEW r, ReportForm(r), NEW c, c = [r EXCEPT !.steps = CopiesOf(r.steps)]
  PROVE  /\ ReportForm(c) /\ c.name = r.name /\ c.dir = r.dir /\ c.passed = r.passed
         /\ c.asserts = r.asserts /\ DOMAIN c.steps = DOMAIN r.steps
         /\ \A i \in DOMAIN r.steps : c.steps[i] = CopyOf(r.steps[i])
<1>1. r = Fields(r, r.steps)
  BY DEF ReportForm
<1>2. PICK cs : cs = CopiesOf(r.steps)
  OBVIOUS
<1>3. [r EXCEPT !.steps = cs] = Fields(r, cs)
  BY <1>1, WithSteps
<1>4. c = Fields(r, CopiesOf(r.steps))
  BY <1>2, <1>3, Zenon
<1> QED BY <1>4, CopiedFields

LEMMA KeptNow ==
  ASSUME HInv, absolute' = absolute, NEW g, NEW r, Report(r, ~absolute),
         NEW q, Report(q, FALSE), OnDisk(q, DOMAIN disk), SameRun(q, r),
         \A i \in DOMAIN r.steps : Lands(r.steps[i], g, r.dir),
         NEW c, c = [r EXCEPT !.steps = CopiesOf(r.steps)], NEW t, t = Shows(q)
  PROVE  Kept(c, g, t)'
<1>1. ReportForm(r) /\ RunDirOf(r.dir)
  BY DEF Report
<1>2. /\ ReportForm(c) /\ c.name = r.name /\ c.dir = r.dir /\ c.passed = r.passed
      /\ c.asserts = r.asserts /\ DOMAIN c.steps = DOMAIN r.steps
      /\ \A i \in DOMAIN r.steps : c.steps[i] = CopyOf(r.steps[i])
  BY <1>1, CopiedForm
<1>3. q.name = r.name /\ q.passed = r.passed /\ q.asserts = r.asserts /\ q.dir = r.dir /\ DOMAIN q.steps = DOMAIN r.steps
  BY Zenon DEF SameRun
<1>4. PICK T : T = ShowSteps(q.steps)
  OBVIOUS
<1>5. PICK J : J = Judgements(q.asserts)
  OBVIOUS
<1>6. t = [name |-> q.name, passed |-> q.passed, steps |-> T, asserts |-> J]
  BY <1>4, <1>5, ShowsIs, Zenon
<1>7. t.steps = T
  BY <1>6
<1>8. J = [i \in DOMAIN c.asserts |-> Judgement(c.asserts[i])]
  BY <1>2, <1>3, <1>5, Zenon DEF Judgements
<1>9. t = [name |-> c.name, passed |-> c.passed, steps |-> t.steps,
           asserts |-> [i \in DOMAIN c.asserts |-> Judgement(c.asserts[i])]]
  BY <1>2, <1>3, <1>6, <1>7, <1>8, Zenon
<1>10. T = [i \in DOMAIN c.steps |-> T[i]] /\ \A i \in DOMAIN r.steps : T[i] = ShowStep(q.steps[i])
  BY <1>2, <1>3, <1>4, Zenon DEF ShowSteps
<1>11. ASSUME NEW i \in DOMAIN r.steps PROVE Held(c.steps[i], T[i], g, c.dir)'
  <2>1. PICK st, qs, d : st = r.steps[i] /\ qs = q.steps[i] /\ d = r.dir
    OBVIOUS
  <2>2. PICK cc, ts : cc = CopyOf(st) /\ ts = ShowStep(qs)
    OBVIOUS
  <2>3. Twin(qs, st, d)
    <3>1. StepForm(st)
      BY <1>1, <1>11, <2>1, Zenon DEF ReportForm
    <3>2. qs.id = st.id /\ qs.outcome = st.outcome /\ ((qs.files = <<>>) <=> (st.files = <<>>))
      BY <1>3, <1>11, <2>1, Zenon DEF SameRun
    <3>3. st.files = <<>> \/ st.files = <<FilePath(d, st.id, ~absolute)>>
      BY <1>11, <2>1, Zenon DEF Report
    <3>4. PICK p : p = RunFile(d, st.id)
      OBVIOUS
    <3>5. FilePath(q.dir, qs.id, FALSE) = p
      BY <1>3, <2>1, <3>2, <3>4, Zenon DEF FilePath
    <3>6. qs.files = <<>> \/ qs.files = <<p>>
      BY <1>3, <1>11, <2>1, <3>5, Zenon DEF Report
    <3>7. qs.files = <<p>> => p \in DOMAIN disk
      <4> SUFFICES ASSUME qs.files = <<p>> PROVE p \in DOMAIN disk
        OBVIOUS
      <4>1. 1 \in DOMAIN qs.files /\ qs.files[1] = p
        OBVIOUS
      <4> QED BY <1>3, <1>11, <2>1, <4>1, Zenon DEF OnDisk
    <3> QED BY <3>1, <3>2, <3>3, <3>4, <3>6, <3>7, Zenon DEF Twin
  <2>4. Lands(st, g, d) /\ RunDirOf(d)
    BY <1>1, <1>11, <2>1, Zenon
  <2>5. Held(cc, ts, g, d)'
    BY <2>2, <2>3, <2>4, HeldNow
  <2>6. cc = c.steps[i] /\ ts = T[i] /\ d = c.dir
    BY <1>2, <1>10, <1>11, <2>1, <2>2, Zenon
  <2> QED BY <2>5, <2>6, Zenon
<1>12. RunDirOf(c.dir)'
  BY <1>1, <1>2, SameRoot
<1> QED BY <1>2, <1>7, <1>9, <1>10, <1>11, <1>12, Zenon DEF Kept

LEMMA SavedFirst ==
  ASSUME HInv, saving # <<>>, NEW r, r = Head(saving)
  PROVE  /\ Report(r, ~absolute) /\ slugify[r.name] \in Range(slugify)
         /\ queue = <<>> /\ running = NoReport
         /\ r.dir \in DOMAIN dirs => dirs[r.dir] # NoReport /\ SameRun(dirs[r.dir], r)
<1>1. saving \in Seq(ToSet(saving))
  BY DEF HInv, SavesKept
<1>2. 1 \in DOMAIN saving /\ r = saving[1]
  BY <1>1
<1>3. /\ Report(r, ~absolute)
      /\ r.dir \in DOMAIN dirs => dirs[r.dir] # NoReport /\ SameRun(dirs[r.dir], r)
  BY <1>2, Zenon DEF HInv, SavesKept
<1>4. queue = <<>> /\ running = NoReport
  BY Zenon DEF HInv, SavesKept
<1>5. PICK s \in ToSet(ScenarioList) : r.name = s.name
  BY <1>3, Zenon DEF Report
<1>6. s.name \in DOMAIN slugify
  BY HarnessAssumption, Zenon
<1>7. slugify[r.name] \in Range(slugify)
  BY <1>5, <1>6, Zenon DEF Range
<1> QED BY <1>3, <1>4, <1>7

LEMMA SnapshotKeeps ==
  ASSUME HInv, snapshotBaselineReport
  PROVE  HInv'
<1>1. PICK r : r = Head(saving)
  OBVIOUS
<1>2. PICK g : g = slugify[r.name]
  OBVIOUS
<1>3. PICK F, E : F = FromOf(r) /\ E = DestOf(r, g)
  OBVIOUS
<1>4. /\ saving # <<>> /\ copied = NoReport
      /\ copied' = [r EXCEPT !.steps = CopiesOf(r.steps)]
      /\ disk' = [p \in DOMAIN disk \cup E |-> IF p \in E THEN disk[Origin(F, p)] ELSE disk[p]]
      /\ r.dir \in DOMAIN dirs => truth' = Put(truth, g, Shows(dirs[r.dir])) /\ doubtful' = doubtful \ {g}
      /\ r.dir \notin DOMAIN dirs => doubtful' = doubtful \cup {g} /\ truth' = truth
      /\ absolute' = absolute /\ second' = second /\ dirs' = dirs /\ queue' = queue
      /\ running' = running /\ saving' = saving /\ base' = base /\ runCount' = runCount
      /\ harnessFaults' = harnessFaults
  <2>1. Snapshots(r, g, F, E)
    BY <1>1, <1>2, <1>3, SnapshotIs
  <2> QED BY <2>1, Zenon DEF Snapshots
<1>5. /\ Report(r, ~absolute) /\ g \in Range(slugify) /\ queue = <<>> /\ running = NoReport
      /\ r.dir \in DOMAIN dirs => dirs[r.dir] # NoReport /\ SameRun(dirs[r.dir], r)
  BY <1>1, <1>2, <1>4, SavedFirst, Zenon
<1>6. PICK c : c = copied'
  OBVIOUS
<1>7. c = [r EXCEPT !.steps = CopiesOf(r.steps)] /\ ReportForm(r)
  BY <1>4, <1>5, <1>6, Zenon DEF Report
<1>8. c.name = r.name /\ ReportForm(c)
  BY <1>7, CopiedForm
<1>9. c # NoReport
  BY <1>8, FormNotNone
<1>10. /\ DOMAIN disk \subseteq DOMAIN disk'
       /\ ~absolute => DOMAIN disk' = DOMAIN disk
       /\ absolute => \A h, x : h # g /\ BaseFile(h, x) \in DOMAIN disk =>
                        BaseFile(h, x) \in DOMAIN disk' /\ disk'[BaseFile(h, x)] = disk[BaseFile(h, x)]
       /\ absolute => \A s \in F : BaseFile(g, s.id) \in DOMAIN disk' /\
                        disk'[BaseFile(g, s.id)] = disk[RunFile(r.dir, s.id)]
  <2>1. DiskAfter(r, g, F)
    BY <1>3, <1>4, <1>5, SnapshotDisk
  <2> QED BY <2>1, Zenon DEF DiskAfter
<1>11. /\ DOMAIN truth \subseteq DOMAIN truth' /\ DOMAIN truth' \subseteq DOMAIN truth \cup {g}
       /\ g \in DOMAIN truth' \cup doubtful'
       /\ \A h : h # g => (h \in doubtful' <=> h \in doubtful)
       /\ \A h \in DOMAIN truth : h # g => truth'[h] = truth[h]
       /\ g \in doubtful' \/ (r.dir \in DOMAIN dirs /\ truth'[g] = Shows(dirs[r.dir]))
  <2>1. CASE r.dir \in DOMAIN dirs
    <3>1. truth' = Put(truth, g, Shows(dirs[r.dir])) /\ doubtful' = doubtful \ {g}
      BY <1>4, <2>1, Zenon
    <3> QED BY <2>1, <3>1, Zenon DEF Put
  <2>2. CASE r.dir \notin DOMAIN dirs
    <3>1. doubtful' = doubtful \cup {g} /\ truth' = truth
      BY <1>4, <2>2, Zenon
    <3> QED BY <3>1, Zenon
  <2> QED BY <2>1, <2>2
<1>12. doubtful' \subseteq doubtful \cup {g}
  BY <1>4, Zenon
<1>13. Counters'
  <2>1. DOMAIN base' \cup DOMAIN truth' \cup doubtful' \subseteq Range(slugify)
    BY <1>4, <1>5, <1>11, <1>12, Zenon DEF HInv, Counters
  <2> QED BY <1>4, <2>1, Zenon DEF HInv, Counters
<1>14. FilesPlaced'
  <2>1. ~absolute => PlacedIn(DOMAIN disk')
    BY <1>10, Zenon DEF HInv, FilesPlaced
  <2> QED BY <1>4, <2>1, Zenon DEF FilesPlaced
<1>15. RunsKept'
  BY <1>4, <1>10, RunsStay DEF HInv
<1>16. NoReport' = NoReport
  BY Zenon DEF NoReport
<1>17. UnderWay'
  BY <1>4, <1>5, <1>16, Zenon DEF UnderWay
<1>18. SavesKept'
  <2>1. PICK deep : deep = ~absolute /\ deep = ~absolute'
    BY <1>4
  <2>2. \A q : Report(q, deep)' <=> Report(q, deep)
    BY <1>4, SameReports
  <2>3. (\A i \in DOMAIN saving :
        /\ Report(saving[i], ~absolute)
        /\ saving[i].dir \in DOMAIN dirs =>
            dirs[saving[i].dir] # NoReport /\ SameRun(dirs[saving[i].dir], saving[i]))'
    BY <1>4, <1>16, <2>1, <2>2, Zenon DEF HInv, SavesKept
  <2>4. (saving \in Seq(ToSet(saving)))' /\ (saving # <<>> => queue = <<>> /\ running = NoReport)'
    BY <1>4, <1>16, Zenon DEF HInv, SavesKept
  <2>5. c.name = Head(saving').name /\ slugify[c.name] \in DOMAIN truth' \cup doubtful' /\ saving' # <<>>
    BY <1>1, <1>2, <1>4, <1>8, <1>11, Zenon
  <2> QED BY <1>6, <2>3, <2>4, <2>5, Zenon DEF SavesKept
<1>19. Remembered'
  <2>1. ASSUME NEW h, h # g, absolute, NEW x, BaseFile(h, x) \in DOMAIN disk
        PROVE  BaseFile(h, x) \in DOMAIN disk' /\ disk'[BaseFile(h, x)] = disk[BaseFile(h, x)]
    BY <1>10, <2>1, Zenon
  <2>2. ASSUME NEW h \in DOMAIN truth', h \notin doubtful', h # g
        PROVE  h \in DOMAIN base /\ (Kept(base[h], h, truth[h]))'
    <3>1. h \in DOMAIN truth /\ h \notin doubtful /\ truth'[h] = truth[h]
      BY <1>11, <2>2, Zenon
    <3>2. h \in DOMAIN base /\ Kept(base[h], h, truth[h])
      BY <1>4, <3>1, Zenon DEF HInv, Remembered, Copying
    <3>3. PICK b, t : b = base[h] /\ t = truth[h]
      OBVIOUS
    <3>4. Kept(b, h, t)
      BY <3>2, <3>3, Zenon
    <3>5. Kept(b, h, t)'
      BY <1>4, <2>1, <2>2, <3>4, KeptStays
    <3>6. b = base'[h] /\ t = truth'[h]
      BY <1>4, <3>1, <3>3, Zenon
    <3> QED BY <3>2, <3>5, <3>6, Zenon
  <2>3. ASSUME g \notin doubtful' PROVE (Kept(copied, g, truth[g]))'
    <3>1. r.dir \in DOMAIN dirs /\ truth'[g] = Shows(dirs[r.dir])
      BY <1>11, <2>3, Zenon
    <3>2. PICK q : q = dirs[r.dir]
      OBVIOUS
    <3>3. Report(q, FALSE) /\ OnDisk(q, DOMAIN disk) /\ SameRun(q, r)
      BY <1>5, <3>1, <3>2, Zenon DEF HInv, RunsKept
    <3>4. PICK t : t = Shows(q)
      OBVIOUS
    <3>5. \A i \in DOMAIN r.steps : Lands(r.steps[i], g, r.dir)
      <4> SUFFICES ASSUME NEW i \in DOMAIN r.steps, absolute, Found(r.steps[i])
                   PROVE  /\ BaseFile(g, r.steps[i].id) \in DOMAIN disk'
                          /\ disk'[BaseFile(g, r.steps[i].id)] = disk[RunFile(r.dir, r.steps[i].id)]
        BY Zenon DEF Lands
      <4>1. r.steps[i] \in F
        BY <1>3, FromIs, Zenon
      <4> QED BY <1>10, <4>1, Zenon
    <3>6. Kept(c, g, t)'
      BY <1>4, <1>5, <1>7, <3>3, <3>4, <3>5, KeptNow
    <3>7. c = copied' /\ t = truth'[g]
      BY <1>6, <3>1, <3>2, <3>4, Zenon
    <3> QED BY <3>6, <3>7, Zenon
  <2>4. (\A h \in DOMAIN base : h \in DOMAIN truth \cup doubtful)'
    BY <1>4, <1>11, Zenon DEF HInv, Remembered
  <2>5. \A h : Copying(h)' <=> h = g
    BY <1>2, <1>6, <1>8, <1>9, <1>16, Zenon DEF Copying
  <2>6. base' = base
    BY <1>4, Zenon
  <2> QED BY <2>2, <2>3, <2>4, <2>5, <2>6, Zenon DEF Remembered
<1> QED BY <1>13, <1>14, <1>15, <1>17, <1>18, <1>19 DEF HInv

-----------------------------------------------------------------------------
LEMMA SameKept ==
  ASSUME UNCHANGED <<absolute, disk>>
  PROVE  \A b, g, t : Kept(b, g, t) => Kept(b, g, t)'
<1>1. disk' = disk /\ absolute' = absolute
  BY Zenon
<1>2. BasesStill
  BY <1>1, Zenon DEF BasesStill
<1> SUFFICES ASSUME NEW b, NEW g, NEW t, Kept(b, g, t) PROVE Kept(b, g, t)'
  OBVIOUS
<1> QED BY <1>1, <1>2, KeptStays DEF BasesStill

LEMMA WriteBaselineKeeps ==
  ASSUME HInv, WriteBaseline
  PROVE  HInv'
<1>1. /\ copied # NoReport /\ base' = Put(base, slugify[copied.name], copied)
      /\ saving' = Tail(saving) /\ copied' = NoReport
      /\ absolute' = absolute /\ second' = second /\ dirs' = dirs /\ disk' = disk /\ queue' = queue
      /\ running' = running /\ runCount' = runCount /\ harnessFaults' = harnessFaults
      /\ truth' = truth /\ doubtful' = doubtful
  BY Zenon DEF WriteBaseline
<1>2. PICK g : g = slugify[copied.name]
  OBVIOUS
<1>3. /\ saving # <<>> /\ g \in DOMAIN truth \cup doubtful /\ queue = <<>> /\ running = NoReport
      /\ saving \in Seq(ToSet(saving))
  BY <1>1, <1>2, Zenon DEF HInv, SavesKept
<1>4. NoReport' = NoReport
  BY Zenon DEF NoReport
<1>5. DOMAIN base' = DOMAIN base \cup {g} /\ base'[g] = copied /\ \A h \in DOMAIN base : h # g => base'[h] = base[h]
  <2>1. base' = Put(base, g, copied)
    BY <1>1, <1>2, Zenon
  <2> QED BY <2>1, Zenon DEF Put
<1>6. Counters'
  <2>1. DOMAIN base' \cup DOMAIN truth' \cup doubtful' \subseteq Range(slugify)
    BY <1>1, <1>3, <1>5, Zenon DEF HInv, Counters
  <2> QED BY <1>1, <2>1, Zenon DEF HInv, Counters
<1>7. FilesPlaced'
  BY <1>1, Zenon DEF HInv, FilesPlaced
<1>8. RunsKept'
  BY <1>1, RunsStay DEF HInv
<1>9. UnderWay'
  BY <1>1, <1>3, <1>4, Zenon DEF UnderWay
<1>10. SavesKept'
  <2>1. PICK s : s = Tail(saving) /\ s = saving'
    BY <1>1
  <2>2. s \in Seq(ToSet(saving)) /\ \A i \in DOMAIN s : i + 1 \in DOMAIN saving /\ s[i] = saving[i + 1]
    BY <1>3, <2>1
  <2>3. s \in Seq(ToSet(s))
    BY <2>2, SeqSelf
  <2>4. PICK deep : deep = ~absolute /\ deep = ~absolute'
    BY <1>1
  <2>5. \A q : Report(q, deep)' <=> Report(q, deep)
    BY <1>1, SameReports
  <2>6. \A i \in DOMAIN s : \E k \in DOMAIN saving : s[i] = saving[k]
    BY <2>2, Zenon
  <2>7. \A i \in DOMAIN s :
          /\ Report(s[i], deep)
          /\ s[i].dir \in DOMAIN dirs => dirs[s[i].dir] # NoReport /\ SameRun(dirs[s[i].dir], s[i])
    BY <2>4, <2>6, Zenon DEF HInv, SavesKept
  <2>8. (\A i \in DOMAIN saving :
        /\ Report(saving[i], ~absolute)
        /\ saving[i].dir \in DOMAIN dirs =>
            dirs[saving[i].dir] # NoReport /\ SameRun(dirs[saving[i].dir], saving[i]))'
    BY <1>1, <1>4, <2>1, <2>4, <2>5, <2>7, Zenon
  <2>9. (saving \in Seq(ToSet(saving)))'
    BY <2>1, <2>3, Zenon
  <2>10. queue' = <<>> /\ running' = NoReport
    BY <1>1, <1>3, Zenon
  <2> QED BY <1>1, <1>4, <2>8, <2>9, <2>10, Zenon DEF SavesKept
<1>11. Remembered'
  <2>1. \A b, h, t : Kept(b, h, t) => Kept(b, h, t)'
    BY <1>1, SameKept
  <2>2. \A h : Copying(h) <=> h = g
    BY <1>1, <1>2, Zenon DEF Copying
  <2>3. \A h : ~Copying(h)'
    BY <1>1, <1>4, Zenon DEF Copying
  <2>4. (\A h \in DOMAIN base : h \in DOMAIN truth \cup doubtful)'
    BY <1>1, <1>3, <1>5, Zenon DEF HInv, Remembered
  <2>5. ASSUME NEW h \in DOMAIN truth, h \notin doubtful
        PROVE  h \in DOMAIN base' /\ Kept(base'[h], h, truth[h])
    <3>1. CASE h = g
      <4>1. Kept(copied, g, truth[g])
        BY <2>2, <2>5, <3>1, Zenon DEF HInv, Remembered
      <4> QED BY <1>5, <3>1, <4>1, Zenon
    <3>2. CASE h # g
      <4>1. h \in DOMAIN base /\ Kept(base[h], h, truth[h])
        BY <2>2, <2>5, <3>2, Zenon DEF HInv, Remembered
      <4> QED BY <1>5, <3>2, <4>1, Zenon
    <3> QED BY <3>1, <3>2
  <2> QED BY <1>1, <2>1, <2>3, <2>4, <2>5, Zenon DEF Remembered
<1> QED BY <1>6, <1>7, <1>8, <1>9, <1>10, <1>11 DEF HInv

LEMMA FaultCounts ==
  ASSUME HInv, Fault
  PROVE  harnessFaults' \in 0..MaxHarnessFaults
BY HarnessAssumption DEF HInv, Counters, Fault

LEMMA KillKeeps ==
  ASSUME HInv, Kill
  PROVE  HInv'
<1>1. /\ queue' = <<>> /\ running' = NoReport /\ saving' = <<>> /\ copied' = NoReport
      /\ absolute' = absolute /\ second' = second /\ disk' = disk /\ runCount' = runCount
      /\ truth' = truth /\ Fault
  BY Zenon DEF Kill
<1>2. harnessFaults' \in 0..MaxHarnessFaults
  BY <1>1, FaultCounts
<1>3. NoReport' = NoReport
  BY Zenon DEF NoReport
<1>4. PICK g : g = slugify[copied.name]
  OBVIOUS
<1>5. /\ copied = NoReport => base' = base /\ doubtful' = doubtful
      /\ copied # NoReport => /\ base' = base \/ base' = Put(base, g, NoReport)
                              /\ doubtful' = doubtful \cup {g}
  BY <1>4, Zenon DEF Kill
<1>6. copied # NoReport => g \in DOMAIN truth \cup doubtful
  BY <1>4, Zenon DEF HInv, SavesKept
<1>7. /\ \A h : h # g \/ copied = NoReport => (h \in DOMAIN base' <=> h \in DOMAIN base)
      /\ \A h \in DOMAIN base : h # g \/ copied = NoReport => base'[h] = base[h]
      /\ DOMAIN base' \subseteq DOMAIN base \cup {g}
      /\ \A h : h \in doubtful' => h \in doubtful \/ (h = g /\ copied # NoReport)
      /\ \A h : h \in doubtful \/ (h = g /\ copied # NoReport) => h \in doubtful'
  <2>1. CASE copied = NoReport
    BY <1>5, <2>1, Zenon
  <2>2. CASE copied # NoReport /\ base' = base
    BY <1>5, <2>2, Zenon
  <2>3. CASE copied # NoReport /\ base' = Put(base, g, NoReport)
    <3>1. DOMAIN base' = DOMAIN base \cup {g} /\ \A h \in DOMAIN base : h # g => base'[h] = base[h]
      BY <2>3, Zenon DEF Put
    <3> QED BY <1>5, <2>3, <3>1, Zenon
  <2> QED BY <1>5, <2>1, <2>2, <2>3, Zenon
<1>8. copied = NoReport => DOMAIN base' = DOMAIN base
  BY <1>5, Zenon
<1>9. dirs' = dirs \/ (running # NoReport /\ dirs' = Put(dirs, running.dir, NoReport))
  BY Zenon DEF Kill
<1>10. /\ \A d \in DOMAIN dirs' : RunDirOf(d)
       /\ \A d \in DOMAIN dirs' : dirs'[d] # NoReport => d \in DOMAIN dirs /\ dirs'[d] = dirs[d]
  <2>1. CASE dirs' = dirs
    BY <2>1, Zenon DEF HInv, RunsKept
  <2>2. CASE running # NoReport /\ dirs' = Put(dirs, running.dir, NoReport)
    <3>1. running.dir \in DOMAIN dirs
      BY <2>2, Zenon DEF HInv, UnderWay
    <3>2. PICK d : d = running.dir
      OBVIOUS
    <3>3. DOMAIN dirs' = DOMAIN dirs \cup {d} /\ dirs'[d] = NoReport /\ \A e \in DOMAIN dirs : e # d => dirs'[e] = dirs[e]
      <4>1. dirs' = Put(dirs, d, NoReport)
        BY <2>2, <3>2, Zenon
      <4> QED BY <4>1, Zenon DEF Put
    <3> QED BY <3>1, <3>2, <3>3, Zenon DEF HInv, RunsKept
  <2> QED BY <1>9, <2>1, <2>2
<1>11. Counters'
  <2>1. DOMAIN base' \cup DOMAIN truth' \cup doubtful' \subseteq Range(slugify)
    BY <1>1, <1>6, <1>7, <1>8, Zenon DEF HInv, Counters
  <2>2. <<>> \in Seq(ToSet(ScenarioList))
    OBVIOUS
  <2> QED BY <1>1, <1>2, <2>1, <2>2, Zenon DEF HInv, Counters
<1>12. FilesPlaced'
  BY <1>1, Zenon DEF HInv, FilesPlaced
<1>13. RunsKept'
  <2>1. \A e : RunDirOf(e)' <=> RunDirOf(e)
    BY <1>1, SameRoot
  <2>2. \A q : Report(q, FALSE)' <=> Report(q, FALSE)
    BY <1>1, SameReports
  <2>3. ASSUME NEW e \in DOMAIN dirs', dirs'[e] # NoReport
        PROVE  /\ Report(dirs'[e], FALSE) /\ dirs'[e].dir = e /\ OnDisk(dirs'[e], DOMAIN disk)
               /\ Judged(dirs'[e]) /\ dirs'[e].started \in 1..runCount /\ dirs'[e].second \in 1..second
    <3>1. e \in DOMAIN dirs /\ dirs'[e] = dirs[e]
      BY <1>10, <2>3, Zenon
    <3> QED BY <2>3, <3>1, Zenon DEF HInv, RunsKept
  <2>4. ASSUME NEW c \in DOMAIN dirs', NEW e \in DOMAIN dirs', dirs'[c] # NoReport, dirs'[e] # NoReport
        PROVE  /\ dirs'[c].started = dirs'[e].started => c = e
               /\ dirs'[c].started < dirs'[e].started => dirs'[c].second <= dirs'[e].second
    <3>1. c \in DOMAIN dirs /\ dirs'[c] = dirs[c] /\ e \in DOMAIN dirs /\ dirs'[e] = dirs[e]
      BY <1>10, <2>4, Zenon
    <3> QED BY <2>4, <3>1, Zenon DEF HInv, RunsKept
  <2> QED BY <1>1, <1>3, <1>10, <2>1, <2>2, <2>3, <2>4, Zenon DEF RunsKept
<1>14. UnderWay'
  BY <1>1, <1>3, Zenon DEF UnderWay
<1>15. SavesKept'
  <2>1. DOMAIN <<>> = {} /\ <<>> \in Seq(ToSet(<<>>))
    OBVIOUS
  <2> QED BY <1>1, <1>3, <2>1, Zenon DEF SavesKept
<1>16. Remembered'
  <2>1. \A b, h, t : Kept(b, h, t) => Kept(b, h, t)'
    BY <1>1, SameKept
  <2>2. \A h : Copying(h) <=> h = g /\ copied # NoReport
    BY <1>4, Zenon DEF Copying
  <2>3. \A h : ~Copying(h)'
    BY <1>1, <1>3, Zenon DEF Copying
  <2>4. ASSUME NEW h \in DOMAIN base' PROVE h \in DOMAIN truth \cup doubtful'
    BY <1>7, <2>4, Zenon DEF HInv, Remembered
  <2>5. ASSUME NEW h \in DOMAIN truth, h \notin doubtful'
        PROVE  h \in DOMAIN base' /\ Kept(base'[h], h, truth[h])
    <3>1. h \notin doubtful /\ (h # g \/ copied = NoReport)
      BY <1>7, <2>5, Zenon
    <3>2. h \in DOMAIN base /\ Kept(base[h], h, truth[h])
      BY <2>2, <2>5, <3>1, Zenon DEF HInv, Remembered
    <3> QED BY <1>7, <3>1, <3>2, Zenon
  <2> QED BY <1>1, <2>1, <2>3, <2>4, <2>5, Zenon DEF Remembered
<1> QED BY <1>11, <1>12, <1>13, <1>14, <1>15, <1>16 DEF HInv

-----------------------------------------------------------------------------
LEMMA DeleteRunKeeps ==
  ASSUME HInv, NEW d \in DOMAIN dirs, DeleteRun(d)
  PROVE  HInv'
<1>1. /\ Fault /\ running = NoReport /\ running' = running
      /\ absolute' = absolute /\ second' = second /\ queue' = queue /\ saving' = saving
      /\ copied' = copied /\ base' = base /\ runCount' = runCount /\ truth' = truth
      /\ doubtful' = doubtful
  BY Zenon DEF DeleteRun
<1>2. harnessFaults' \in 0..MaxHarnessFaults
  BY <1>1, FaultCounts
<1>3. NoReport' = NoReport
  BY Zenon DEF NoReport
<1>4. /\ \A e : e \in DOMAIN dirs' <=> e \in DOMAIN dirs /\ e # d
      /\ \A e \in DOMAIN dirs' : dirs'[e] = dirs[e]
  <2>1. dirs' = [e \in DOMAIN dirs \ {d} |-> dirs[e]]
    BY Zenon DEF DeleteRun
  <2> QED BY <2>1, Zenon
<1>5. /\ \A p : p \in DOMAIN disk' <=> p \in DOMAIN disk /\ ~IsPrefix(d, p)
      /\ \A p \in DOMAIN disk' : disk'[p] = disk[p]
  <2>1. disk' = [p \in {q \in DOMAIN disk : ~IsPrefix(d, q)} |-> disk[p]]
    BY Zenon DEF DeleteRun
  <2> QED BY <2>1, Zenon
<1>6. RunDirOf(d)
  BY Zenon DEF HInv, RunsKept
<1>7. Counters'
  BY <1>1, <1>2, Zenon DEF HInv, Counters
<1>8. FilesPlaced'
  BY <1>1, <1>5, Zenon DEF HInv, FilesPlaced, PlacedIn
<1>9. RunsKept'
  <2>1. \A e : RunDirOf(e)' <=> RunDirOf(e)
    BY <1>1, SameRoot
  <2>2. \A q : Report(q, FALSE)' <=> Report(q, FALSE)
    BY <1>1, SameReports
  <2>3. ASSUME NEW e \in DOMAIN dirs', dirs'[e] # NoReport
        PROVE  /\ Report(dirs'[e], FALSE) /\ dirs'[e].dir = e /\ OnDisk(dirs'[e], DOMAIN disk')
               /\ Judged(dirs'[e]) /\ dirs'[e].started \in 1..runCount /\ dirs'[e].second \in 1..second
    <3>1. e \in DOMAIN dirs /\ e # d /\ dirs'[e] = dirs[e]
      BY <1>4, <2>3, Zenon
    <3>2. PICK r : r = dirs[e]
      OBVIOUS
    <3>3. /\ Report(r, FALSE) /\ r.dir = e /\ OnDisk(r, DOMAIN disk)
          /\ Judged(r) /\ r.started \in 1..runCount /\ r.second \in 1..second
      BY <2>3, <3>1, <3>2, Zenon DEF HInv, RunsKept
    <3>4. RunDirOf(e)
      BY <3>1, Zenon DEF HInv, RunsKept
    <3>5. ASSUME NEW i \in DOMAIN r.steps, NEW j \in DOMAIN r.steps[i].files
          PROVE  r.steps[i].files[j] \in DOMAIN disk'
      <4>1. PICK fs, x : fs = r.steps[i].files /\ x = r.steps[i].id
        OBVIOUS
      <4>2. fs \in {<<>>, <<RunFile(e, x)>>}
        BY <3>3, <4>1, Zenon DEF Report, FilePath
      <4>3. PICK p : p = RunFile(e, x)
        OBVIOUS
      <4>4. fs[j] = p
        <5>1. fs = <<>> \/ fs = <<p>>
          BY <4>2, <4>3, Zenon
        <5>2. j \in DOMAIN fs
          BY <3>5, <4>1, Zenon
        <5> QED BY <5>1, <5>2
      <4>5. p \in DOMAIN disk
        BY <3>3, <3>5, <4>1, <4>4, Zenon DEF OnDisk
      <4>6. ~IsPrefix(d, RunFile(e, x))
        BY <1>6, <3>1, <3>4, BelowOwn
      <4> QED BY <1>5, <4>1, <4>3, <4>4, <4>5, <4>6, Zenon
    <3> QED BY <3>1, <3>2, <3>3, <3>5, Zenon DEF OnDisk
  <2>4. ASSUME NEW c \in DOMAIN dirs', NEW e \in DOMAIN dirs', dirs'[c] # NoReport, dirs'[e] # NoReport
        PROVE  /\ dirs'[c].started = dirs'[e].started => c = e
               /\ dirs'[c].started < dirs'[e].started => dirs'[c].second <= dirs'[e].second
    <3>1. c \in DOMAIN dirs /\ dirs'[c] = dirs[c] /\ e \in DOMAIN dirs /\ dirs'[e] = dirs[e]
      BY <1>4, <2>4, Zenon
    <3> QED BY <2>4, <3>1, Zenon DEF HInv, RunsKept
  <2>5. \A e \in DOMAIN dirs' : RunDirOf(e)
    BY <1>4, Zenon DEF HInv, RunsKept
  <2> QED BY <1>1, <1>3, <2>1, <2>2, <2>3, <2>4, <2>5, Zenon DEF RunsKept
<1>10. UnderWay'
  BY <1>1, <1>3, Zenon DEF UnderWay
<1>11. SavesKept'
  <2>1. \A q, deep : Report(q, deep)' <=> Report(q, deep)
    BY <1>1, SameReports
  <2>2. PICK deep : deep = ~absolute /\ deep = ~absolute'
    BY <1>1
  <2>3. (saving \in Seq(ToSet(saving)))' /\ (saving # <<>> => queue = <<>> /\ running = NoReport)'
    BY <1>1, <1>3, Zenon DEF HInv, SavesKept
  <2>4. \A i \in DOMAIN saving :
          /\ Report(saving[i], deep)
          /\ saving[i].dir \in DOMAIN dirs' =>
               dirs'[saving[i].dir] # NoReport /\ SameRun(dirs'[saving[i].dir], saving[i])
    BY <1>4, <2>2, Zenon DEF HInv, SavesKept
  <2>5. (\A i \in DOMAIN saving :
          /\ Report(saving[i], ~absolute)
          /\ saving[i].dir \in DOMAIN dirs =>
               dirs[saving[i].dir] # NoReport /\ SameRun(dirs[saving[i].dir], saving[i]))'
    BY <1>1, <1>3, <2>1, <2>2, <2>4, Zenon
  <2>6. (copied # NoReport => /\ saving # <<>> /\ copied.name = Head(saving).name
                             /\ slugify[copied.name] \in DOMAIN truth \cup doubtful)'
    BY <1>1, <1>3, Zenon DEF HInv, SavesKept
  <2> QED BY <2>3, <2>5, <2>6, Zenon DEF SavesKept
<1>12. BasesStill
  <2> SUFFICES ASSUME absolute, NEW g, NEW x, BaseFile(g, x) \in DOMAIN disk
               PROVE  BaseFile(g, x) \in DOMAIN disk' /\ disk'[BaseFile(g, x)] = disk[BaseFile(g, x)]
    BY Zenon DEF BasesStill
  <2>1. ~IsPrefix(d, BaseFile(g, x))
    BY <1>6, AbsNotBelow
  <2> QED BY <1>5, <2>1, Zenon
<1>13. Remembered'
  BY <1>1, <1>12, RememberedStays, Zenon DEF HInv
<1> QED BY <1>7, <1>8, <1>9, <1>10, <1>11, <1>13 DEF HInv

LEMMA HarnessStarts == ASSUME HarnessInit PROVE HInv
<1>1. /\ absolute \in BOOLEAN
      /\ second = 1 /\ runCount = 0 /\ harnessFaults = 0
      /\ dirs = <<>> /\ disk = <<>> /\ base = <<>> /\ truth = <<>> /\ doubtful = {}
      /\ queue = <<>> /\ saving = <<>> /\ running = NoReport /\ copied = NoReport
  BY Zenon DEF HarnessInit
<1>2. DOMAIN <<>> = {} /\ \A S : <<>> \in Seq(S)
  OBVIOUS
<1>3. Counters
  <2>1. 1 \in 1..Len(Seconds) /\ 0 \in 0..MaxRuns /\ 0 \in 0..MaxHarnessFaults
    BY HarnessAssumption
  <2> QED BY <1>1, <1>2, <2>1, Zenon DEF Counters
<1>4. FilesPlaced /\ RunsKept /\ UnderWay
  BY <1>1, <1>2, Zenon DEF FilesPlaced, PlacedIn, RunsKept, UnderWay
<1>5. SavesKept /\ Remembered
  BY <1>1, <1>2, Zenon DEF SavesKept, Remembered
<1> QED BY <1>3, <1>4, <1>5 DEF HInv

LEMMA HarnessStepKeeps == HInv /\ [Next]_consoleVars => HInv'
<1> SUFFICES ASSUME HInv, [Next]_consoleVars PROVE HInv'
  OBVIOUS
<1>1. CASE HarnessNext
  <2>1. CASE \E scope \in Scopes : RunScenarios(scope) \/ SaveBaseline(scope)
    BY <2>1, RunScenariosKeeps, SaveBaselineKeeps
  <2>2. CASE \E now \in 1..Len(Seconds) : StartRun(now)
    BY <2>2, StartRunKeeps
  <2>3. CASE \E r \in StepResults : StepDone(r)
    BY <2>3, StepDoneKeeps
  <2>4. CASE StepFails \/ EnvFails \/ FinishRun
    BY <2>4, StepFailsKeeps, EnvFailsKeeps, FinishRunKeeps
  <2>5. CASE snapshotBaselineReport \/ WriteBaseline \/ Kill
    BY <2>5, SnapshotKeeps, WriteBaselineKeeps, KillKeeps
  <2>6. CASE \E d \in DOMAIN dirs : DeleteRun(d)
    BY <2>6, DeleteRunKeeps
  <2> QED BY <1>1, <2>1, <2>2, <2>3, <2>4, <2>5, <2>6, Zenon DEF HarnessNext
<1>2. CASE UNCHANGED harnessVars
  BY <1>2, HarnessStill
<1> QED BY <1>1, <1>2, Zenon DEF Next, consoleVars, DaemonStep, SettingsStep, TurnStep, StreamStep,
        HarnessStep

\* The harness reports what the runs showed: a check of a scope passes exactly
\* when each of its runs shows what the run saved last under its slug showed,
\* and the rollup counts every run of the scope once, those that failed among
\* them, and names the one that started last.  It holds for any scenarios,
\* scopes and number of runs, whatever the steps left, with an absolute root
\* or a relative one, commands killed and runs deleted (CheckBaselineWithScope,
\* SaveBaselineWithScope, BuildRollupWithScope and RunScenario).
THEOREM ReportsHonestHolds == Spec => []ReportsHonest
<1>1. Init => HInv
  BY HarnessStarts, Zenon DEF Init
<1>2. HInv => ReportsHonest
  BY ReportsHonestNow
<1> QED BY <1>1, <1>2, HarnessStepKeeps, PTL DEF Spec
=============================================================================
