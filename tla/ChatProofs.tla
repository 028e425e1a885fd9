----------------------------- MODULE ChatProofs -----------------------------
(***************************************************************************)
(* Proofs about the chat session, for any messages, marks, answers of the  *)
(* routing model, requests and faults.                                     *)
(*                                                                         *)
(* What a request is about to do depends on the copy of the session state  *)
(* it loaded long before, so the invariant says of every copy, and of the  *)
(* file, that the goals in it were shown on a card (StateOK), and of every *)
(* request what it knows at its step (Knows).  A reply is written by its   *)
(* own request only (Apart); its last write settles it, also against an    *)
(* older copy in the archive (Copies).  One turn at a time, the goal in    *)
(* the session state is that of the last card (Calm), and it is gone once  *)
(* it was answered (Shallow).                                              *)
(***************************************************************************)
EXTENDS Chat, SequenceTheorems, TLAPS

Ended == {"done", "error", "lost"}
Branches == {"followup", "focused", "direct"}
Upserting == {"talk", "active", "run", "summary", "compose", "close"}
Started == {"active", "run", "summary", "compose", "close", "finalize", "finsave"}
Tasked == {"queue", "start"} \cup Started
Steps == Ended \cup Branches \cup Upserting \cup Tasked
         \cup {"load", "user", "save", "answer", "forget", "complain", "card", "offer", "submit",
               "advance"}

Fields == {"pc", "text", "profile", "async", "source", "depth", "st", "route", "branch", "reply",
           "task", "n", "failed", "answers", "tagged", "goal", "seen", "calm"}
TaskFields == {"goal", "skill", "act", "profile", "tagged", "by", "state"}
Pendings == {None, "confirm", "summarize"}

\* A file of a session, when ids up to top have been given out.
FileOK(f, top) ==
  /\ f = [there |-> f.there, torn |-> f.torn, msgs |-> f.msgs]
  /\ f.there \in BOOLEAN /\ f.torn \in BOOLEAN
  /\ DOMAIN f.msgs \subseteq 1..top
  /\ ~f.there => DOMAIN f.msgs = {}

\* A session state, with n tasks: the goals in it were shown, and a card that
\* waits for an answer has its goal.
StateOK(s, n, goals) ==
  /\ s \in [focus: 0..n, question: BOOLEAN, pending: Pendings, refs: Seq(goals)]
  /\ s.pending = "confirm" => s.refs # <<>>

\* The types of a request.
ReqOK(q, n, goals, top) ==
  /\ DOMAIN q = Fields /\ q.pc \in Steps
  /\ q.text \in Text /\ q.async \in BOOLEAN /\ q.depth \in Nat
  /\ StateOK(q.st, n, goals)
  /\ q.reply \in 0..top /\ q.task \in 0..n

\* What a request knows, by the step it has come to.
Knows(q, goals, dead) ==
  /\ q.pc \in Branches => q.branch = q.pc
  /\ q.pc = "save" => q.branch \in Branches
  /\ q.pc \in Branches \cup {"talk", "save"} =>
       /\ q.branch = "followup" => q.st.pending = "summarize"
       /\ q.branch = "direct" => q.st.pending # "confirm"
  /\ q.pc = "answer" => q.st.pending = "confirm"
  /\ q.pc \in {"card", "offer"} => q.st.pending # "confirm"
  /\ q.pc = "offer" => q.text \in goals
  /\ q.source = "intent-confirmation" => q.text \in goals \/ q.tagged
  /\ q.pc = "submit" => \/ q.route.act \in FollowupActs \/ q.source = "intent-confirmation"
                        \/ q.profile # "user"
  /\ q.calm => q.pc \in Tasked \cup Ended \cup {"complain", "forget"}
  /\ q.calm /\ q.source = "intent-confirmation" /\ ~q.tagged => q.goal = q.answers
  /\ q.pc \in Upserting \cup {"start"} => q.reply # 0 /\ q.reply \notin dead
  /\ q.pc \in Tasked => q.task # 0

Green(t, goals) ==
  \/ t.by = "other" \/ t.goal \in goals \/ t.act \in FollowupActs
  \/ t.profile # "user" \/ t.tagged

TaskSeq(ts, goals) ==
  /\ \E X : ts \in Seq(X)
  /\ \A i \in 1..Len(ts) : DOMAIN ts[i] = TaskFields /\ Green(ts[i], goals)

TasksOK == TaskSeq(task, shown) /\ active \in 0..Len(task)

\* No step changes the goal of a task.
GoalsKept ==
  Len(task) <= Len(task') /\ \A i \in 1..Len(task) : task'[i].goal = task[i].goal

\* A request that waits for Advance has created a task for its message.
Owned ==
  \A r \in 1..Len(req) : req[r].pc = "advance" =>
    req[r].task \in 1..Len(task) /\ task[req[r].task].goal = req[r].text

CountsOK ==
  /\ ids \in Nat /\ inputs \in 0..MaxInputs /\ faults \in 0..MaxFaults
  /\ card \in Text \cup {None} /\ shown \subseteq Text /\ gone \subseteq 1..ids
  /\ overlap \in BOOLEAN /\ quiet \in BOOLEAN

FilesOK == FileOK(hist, ids) /\ FileOK(arch, ids) /\ gone \cap Stored = {}

ReqsOK ==
  /\ \E X : req \in Seq(X)
  /\ \A r \in 1..Len(req) : ReqOK(req[r], Len(task), shown, ids) /\ Knows(req[r], shown, gone)

\* No two requests write one reply.
Apart ==
  \A r, s \in 1..Len(req) : r # s /\ req[r].reply # 0 => req[r].reply # req[s].reply

\* A request that has written its reply for the last time.
Final(q) ==
  \/ q.pc \in {"save", "forget", "offer"}
  \/ q.pc \in {"finalize", "finsave"} /\ q.async
  \/ q.pc = "done" /\ (q.task = 0 \/ q.async)

\* Such a reply is settled, and an older copy in the archive comes back only
\* over the history.
Copies ==
  quiet => \A r \in 1..Len(req) : Final(req[r]) =>
    /\ req[r].reply \in DOMAIN hist.msgs => hist.msgs[req[r].reply] \in Settled
    /\ req[r].reply \in DOMAIN arch.msgs => arch.msgs[req[r].reply] \in Settled \/ hist.there

\* One turn at a time, with c on the last card and s in the file: a goal waits
\* for an answer and is that of the last card.
Kept(s, g) == s.refs # <<>> => s.pending = "confirm" /\ s.refs = <<g>>
InTurn(q, c, s) ==
  /\ c = IF q.pc = "offer" THEN q.text ELSE q.answers
  /\ q.source = "intent-confirmation" => q.text = q.answers \/ q.tagged
  /\ Kept(q.st, q.answers)
  /\ q.pc \in {"user", "card", "offer"} /\ s.refs # <<>> => q.st.refs # <<>>
  /\ q.pc \in Started => s.refs = <<>>
  /\ q.pc = "finsave" => q.st.refs = <<>>
Calm ==
  ~overlap /\ faults = 0 =>
    /\ Kept(sess, card)
    /\ \A r \in 1..Len(req) : req[r].pc \notin Ended => InTurn(req[r], card, sess)

\* Send calls itself for an answer to a card that is still in the file s.
Depth(q, f, s) ==
  /\ q.depth <= 1 + f
  /\ q.pc = "load" /\ s.pending = "confirm" => q.depth <= f
  /\ q.pc = "user" /\ q.st.pending = "confirm" => q.depth <= f
  /\ q.pc = "answer" => q.depth <= f
Shallow ==
  ~overlap => /\ \A r, s \in 1..Len(req) : req[r].pc \notin Ended /\ req[s].pc \notin Ended => r = s
              /\ \A r \in 1..Len(req) : Depth(req[r], faults, sess)

IInv ==
  /\ CountsOK /\ TasksOK /\ StateOK(sess, Len(task), shown) /\ FilesOK /\ ReqsOK
  /\ Apart /\ Copies /\ Calm /\ Shallow /\ Owned

-----------------------------------------------------------------------------
(***************************************************************************)
(* Operators                                                               *)
(***************************************************************************)

LEMMA NoneOther == None # "confirm" /\ None # "summarize"
BY Zenon DEF None

\* One element of a sequence is replaced, or one is added.
LEMMA Replaced ==
  ASSUME NEW s, NEW X, s \in Seq(X), NEW i \in 1..Len(s), NEW e, NEW t, t = [s EXCEPT ![i] = e]
  PROVE  /\ \E Y : t \in Seq(Y)
         /\ Len(t) = Len(s) /\ t[i] = e /\ \A j \in 1..Len(s) : j # i => t[j] = s[j]
<1>1. PICK Y : Y = X \cup {e}
  OBVIOUS
<1>2. s \in Seq(Y) /\ e \in Y
  <2>1. X \subseteq Y
    BY <1>1
  <2> QED BY <1>1, <2>1, SeqMonotonic
<1>3. /\ [s EXCEPT ![i] = e] \in Seq(Y) /\ Len([s EXCEPT ![i] = e]) = Len(s)
      /\ \A j \in 1..Len(s) : [s EXCEPT ![i] = e][j] = IF j = i THEN e ELSE s[j]
  BY <1>2, ExceptSeq
<1> QED BY <1>3

LEMMA Added ==
  ASSUME NEW s, NEW X, s \in Seq(X), NEW e, NEW t, t = Append(s, e)
  PROVE  /\ \E Y : t \in Seq(Y)
         /\ Len(s) \in Nat /\ Len(t) = Len(s) + 1 /\ t[Len(s) + 1] = e
         /\ \A j \in 1..Len(s) : t[j] = s[j]
<1>1. PICK Y : Y = X \cup {e}
  OBVIOUS
<1>2. s \in Seq(Y) /\ e \in Y
  <2>1. X \subseteq Y
    BY <1>1
  <2> QED BY <1>1, <2>1, SeqMonotonic
<1>3. t \in Seq(Y) /\ Len(t) = Len(s) + 1 /\ t[Len(s) + 1] = e /\ \A j \in 1..Len(s) : t[j] = s[j]
  BY <1>2
<1> QED BY <1>2, <1>3

\* A request with new values in some of its fields.
LEMMA WithFacts ==
  ASSUME NEW p, DOMAIN p = Fields, NEW f, NEW q, q = With(p, f)
  PROVE  /\ DOMAIN q = Fields
         /\ \A x \in Fields : x \in DOMAIN f => q[x] = f[x]
         /\ \A x \in Fields : x \notin DOMAIN f => q[x] = p[x]
BY DEF With

LEMMA FileFacts ==
  /\ \A m : /\ File(m).there = TRUE /\ File(m).torn = FALSE /\ File(m).msgs = m
            /\ File(m) = [there |-> TRUE, torn |-> FALSE, msgs |-> m]
  /\ Absent.there = FALSE /\ Absent.torn = FALSE /\ DOMAIN Absent.msgs = {}
  /\ Absent = [there |-> FALSE, torn |-> FALSE, msgs |-> <<>>]
  /\ Empty.there = TRUE /\ DOMAIN Empty.msgs = {} /\ Torn.there = TRUE /\ DOMAIN Torn.msgs = {}
BY DEF File, Absent, Empty, Torn

LEMMA FilesFine ==
  ASSUME NEW top \in Nat
  PROVE  /\ FileOK(Absent, top) /\ FileOK(Empty, top) /\ FileOK(Torn, top)
         /\ \A m : DOMAIN m \subseteq 1..top => FileOK(File(m), top)
<1>1. FileOK(Absent, top)
  BY DEF FileOK, Absent
<1>2. FileOK(Empty, top)
  BY DEF FileOK, Empty, File
<1>3. FileOK(Torn, top)
  <2>1. PICK m : m = <<>>
    OBVIOUS
  <2>2. Torn = [there |-> TRUE, torn |-> TRUE, msgs |-> m]
    <3>1. PICK e : e = Empty
      OBVIOUS
    <3>2. e = [there |-> TRUE, torn |-> FALSE, msgs |-> m]
      BY <2>1, <3>1, Zenon DEF Empty, File
    <3>3. Torn = [e EXCEPT !.torn = TRUE]
      BY <3>1, Zenon DEF Torn
    <3> QED BY <3>2, <3>3
  <2>3. DOMAIN m = {}
    BY <2>1
  <2> QED BY <2>2, <2>3 DEF FileOK
<1>4. ASSUME NEW m, DOMAIN m \subseteq 1..top PROVE FileOK(File(m), top)
  BY <1>4 DEF FileOK, File
<1> QED BY <1>1, <1>2, <1>3, <1>4

LEMMA StateGrows ==
  ASSUME NEW s, NEW n \in Nat, NEW k \in Nat, n <= k, NEW A, NEW B, A \subseteq B, StateOK(s, n, A)
  PROVE  StateOK(s, k, B)
<1>1. Seq(A) \subseteq Seq(B)
  BY SeqMonotonic
<1> QED BY <1>1 DEF StateOK

LEMMA BlankOK == \A n \in Nat : \A A : StateOK(Blank, n, A)
BY NoneOther DEF StateOK, Blank, Pendings

LEMMA BlankFacts == Blank.refs = <<>> /\ Blank.pending = None /\ Blank.question = FALSE /\ Blank.focus = 0
BY DEF Blank

-----------------------------------------------------------------------------
(***************************************************************************)
(* Steps of a request                                                      *)
(***************************************************************************)

LEMMA Now ==
  ASSUME IInv
  PROVE  /\ ids \in Nat /\ faults \in Nat /\ shown \subseteq Text /\ gone \subseteq 1..ids
         /\ overlap \in BOOLEAN /\ quiet \in BOOLEAN
         /\ Len(req) \in Nat /\ DOMAIN req = 1..Len(req)
         /\ Len(task) \in Nat /\ DOMAIN task = 1..Len(task)
         /\ StateOK(sess, Len(task), shown)
         /\ FileOK(hist, ids) /\ FileOK(arch, ids)
         /\ DOMAIN hist.msgs \cap gone = {} /\ DOMAIN arch.msgs \cap gone = {}
<1>1. CountsOK /\ StateOK(sess, Len(task), shown) /\ FilesOK
  BY DEF IInv
<1>2. \E X : req \in Seq(X)
  BY DEF IInv, ReqsOK
<1>3. \E X : task \in Seq(X)
  BY DEF IInv, TasksOK, TaskSeq
<1>4. Len(req) \in Nat /\ DOMAIN req = 1..Len(req)
  BY <1>2
<1>5. Len(task) \in Nat /\ DOMAIN task = 1..Len(task)
  BY <1>3
<1>6. faults \in Nat
  BY <1>1, ChatAssumption DEF CountsOK
<1>7. DOMAIN hist.msgs \cap gone = {} /\ DOMAIN arch.msgs \cap gone = {}
  BY <1>1 DEF FilesOK, Stored
<1> QED BY <1>1, <1>4, <1>5, <1>6, <1>7 DEF CountsOK, FilesOK

LEMMA OpenNow ==
  ASSUME IInv, NEW r \in Open
  PROVE  /\ r \in 1..Len(req) /\ req[r].pc \notin Ended
         /\ ReqOK(req[r], Len(task), shown, ids) /\ Knows(req[r], shown, gone)
<1>1. r \in 1..Len(req) /\ req[r].pc \notin Ended
  BY Now DEF Open, Ended
<1> QED BY <1>1 DEF IInv, ReqsOK

\* What a request knows is not lost when identifiers, tasks and goals are added.
LEMMA ReqGrows ==
  ASSUME NEW q, NEW n \in Nat, NEW k \in Nat, n <= k, NEW A, NEW B, A \subseteq B,
         NEW i \in Nat, NEW j \in Nat, i <= j, NEW dead,
         ReqOK(q, n, A, i), Knows(q, A, dead)
  PROVE  ReqOK(q, k, B, j) /\ Knows(q, B, dead)
<1>1. StateOK(q.st, k, B)
  BY StateGrows DEF ReqOK
<1>2. ReqOK(q, k, B, j)
  BY <1>1 DEF ReqOK
<1>3. Knows(q, B, dead)
  BY DEF Knows
<1> QED BY <1>2, <1>3

\* Request r goes on as q.
LEMMA RequestStep ==
  ASSUME IInv, NEW r \in Open, NEW q, req' = [req EXCEPT ![r] = q],
         ids <= ids', shown \subseteq shown', GoalsKept, faults <= faults',
         gone' = gone, overlap' = overlap,
         q.pc = "advance" => q.task \in 1..Len(task') /\ task'[q.task].goal = q.text,
         CountsOK', TasksOK', StateOK(sess', Len(task'), shown'), FilesOK', Copies',
         ReqOK(q, Len(task'), shown', ids'), Knows(q, shown', gone),
         q.reply = req[r].reply \/ q.reply = ids + 1,
         ~overlap => Depth(q, faults', sess'),
         ~overlap /\ faults' = 0 =>
           Kept(sess', card') /\ (q.pc \notin Ended => InTurn(q, card', sess'))
  PROVE  IInv'
<1>1. PICK X : req \in Seq(X)
  BY DEF IInv, ReqsOK
<1>2. r \in 1..Len(req) /\ req[r].pc \notin Ended
  BY OpenNow
<1>3. /\ \E Y : req' \in Seq(Y)
      /\ Len(req') = Len(req) /\ req'[r] = q /\ \A s \in 1..Len(req) : s # r => req'[s] = req[s]
  <2>1. PICK t : t = req'
    OBVIOUS
  <2>2. t = [req EXCEPT ![r] = q]
    BY <2>1
  <2>3. \E Y : t \in Seq(Y)
    BY <1>1, <1>2, <2>2, Replaced, Zenon
  <2>4. Len(t) = Len(req) /\ t[r] = q /\ \A s \in 1..Len(req) : s # r => t[s] = req[s]
    BY <1>1, <1>2, <2>2, Replaced
  <2> QED BY <2>1, <2>3, <2>4, Zenon
<1>4. ids \in Nat /\ ids' \in Nat /\ faults \in Nat /\ faults' \in Nat
  BY Now, ChatAssumption DEF CountsOK
<1>5. Len(task') \in Nat /\ Len(task) <= Len(task')
  <2>1. \E Y : task' \in Seq(Y)
    BY DEF TasksOK, TaskSeq
  <2> QED BY <2>1 DEF GoalsKept
<1>6. ReqsOK'
  <2>1. ASSUME NEW s \in 1..Len(req'), s # r
        PROVE  ReqOK(req'[s], Len(task'), shown', ids') /\ Knows(req'[s], shown', gone')
    <3>1. ReqOK(req[s], Len(task), shown, ids) /\ Knows(req[s], shown, gone)
      BY <1>3, <2>1 DEF IInv, ReqsOK
    <3>2. ReqOK(req[s], Len(task'), shown', ids') /\ Knows(req[s], shown', gone)
      BY <1>4, <1>5, <3>1, Now, ReqGrows
    <3> QED BY <1>3, <2>1, <3>2
  <2> QED BY <1>3, <2>1 DEF ReqsOK
<1>7. Apart'
  <2>1. \A s \in 1..Len(req) : req[s].reply \in 0..ids
    BY DEF IInv, ReqsOK, ReqOK
  <2>2. \A s \in 1..Len(req) : s # r /\ q.reply # 0 => q.reply # req[s].reply
    BY <1>2, <1>4, <2>1 DEF IInv, Apart
  <2>3. \A s \in 1..Len(req) : s # r /\ req[s].reply # 0 => q.reply # req[s].reply
    BY <1>2, <1>4, <2>1 DEF IInv, Apart
  <2> QED BY <1>3, <2>2, <2>3 DEF IInv, Apart
<1>8. ASSUME ~overlap PROVE \A s \in 1..Len(req) : s # r => req[s].pc \in Ended
  BY <1>2, <1>8 DEF IInv, Shallow
<1>9. Calm'
  BY <1>3, <1>8 DEF Calm
<1>10. Shallow'
  <2> SUFFICES ASSUME ~overlap
               PROVE  /\ \A s, t \in 1..Len(req') :
                           req'[s].pc \notin Ended /\ req'[t].pc \notin Ended => s = t
                      /\ \A s \in 1..Len(req') : Depth(req'[s], faults', sess')
    BY DEF Shallow
  <2>1. ASSUME NEW s \in 1..Len(req), s # r PROVE Depth(req'[s], faults', sess')
    <3>1. req[s].depth <= 1 + faults /\ req[s].depth \in Nat
      BY DEF IInv, Shallow, Depth, ReqsOK, ReqOK
    <3>2. req[s].pc \in Ended
      BY <1>8, <2>1
    <3> QED BY <1>3, <1>4, <2>1, <3>1, <3>2 DEF Depth, Ended
  <2>2. \A s \in 1..Len(req') : Depth(req'[s], faults', sess')
    BY <1>3, <2>1
  <2>3. \A s, t \in 1..Len(req') : req'[s].pc \notin Ended /\ req'[t].pc \notin Ended => s = t
    BY <1>3, <1>8
  <2> QED BY <2>2, <2>3
<1>11. Owned'
  <2> SUFFICES ASSUME NEW s \in 1..Len(req), req'[s].pc = "advance"
               PROVE  req'[s].task \in 1..Len(task') /\ task'[req'[s].task].goal = req'[s].text
    BY <1>3 DEF Owned
  <2>1. CASE s = r
    BY <1>3, <2>1
  <2>2. CASE s # r
    <3>1. req'[s] = req[s]
      BY <1>3, <2>2
    <3>2. req[s].task \in 1..Len(task) /\ task[req[s].task].goal = req[s].text
      BY <3>1 DEF IInv, Owned
    <3> QED BY <1>5, <3>1, <3>2, Now DEF GoalsKept
  <2> QED BY <2>1, <2>2
<1> QED BY <1>6, <1>7, <1>9, <1>10, <1>11 DEF IInv

\* The tasks stay as they are.
LEMMA TasksStay ==
  ASSUME IInv, task' = task, active' \in 0..Len(task), shown' = shown
  PROVE  TasksOK' /\ Len(task') = Len(task) /\ GoalsKept
<1>1. Len(task) \in Nat /\ TaskSeq(task, shown)
  BY Now DEF IInv, TasksOK
<1> QED BY <1>1 DEF TasksOK, GoalsKept

\* Steps that write neither history nor archive.
LEMMA SameFiles ==
  ASSUME IInv, NEW r \in Open, NEW q, req' = [req EXCEPT ![r] = q],
         UNCHANGED <<hist, arch, ids, gone, quiet>>,
         Final(q) => Final(req[r]), q.reply = req[r].reply
  PROVE  FilesOK' /\ Copies'
<1>1. PICK X : req \in Seq(X)
  BY DEF IInv, ReqsOK
<1>2. r \in 1..Len(req)
  BY OpenNow
<1>3. Len(req') = Len(req) /\ req'[r] = q /\ \A s \in 1..Len(req) : s # r => req'[s] = req[s]
  BY <1>1, <1>2, Replaced
<1>4. FilesOK'
  BY DEF IInv, FilesOK, Stored
<1>5. Copies'
  <2> SUFFICES ASSUME quiet, NEW s \in 1..Len(req), Final(req'[s])
               PROVE  /\ req'[s].reply \in DOMAIN hist.msgs => hist.msgs[req'[s].reply] \in Settled
                      /\ req'[s].reply \in DOMAIN arch.msgs =>
                           arch.msgs[req'[s].reply] \in Settled \/ hist.there
    BY <1>3, Zenon DEF Copies
  <2>1. Final(req[s]) /\ req'[s].reply = req[s].reply
    BY <1>3
  <2> QED BY <2>1 DEF IInv, Copies
<1> QED BY <1>4, <1>5

\* Request r writes message id, a new one or its reply.
LEMMA Written ==
  ASSUME IInv, NEW r \in Open, NEW q, req' = [req EXCEPT ![r] = q],
         NEW id, NEW stage, NEW ok \in BOOLEAN,
         (ok /\ hist' = File(Put(hist.msgs, id, stage))) \/ (~ok /\ hist' \in Broken(hist)),
         \/ id = ids + 1 /\ ids' = ids + 1
         \/ id = req[r].reply /\ id \in 1..ids /\ id \notin gone /\ ids' = ids,
         UNCHANGED <<arch, gone>>, quiet' => quiet /\ ok,
         quiet' /\ Final(q) => id = q.reply /\ stage \in Settled
  PROVE  FilesOK' /\ Copies'
<1>1. PICK X : req \in Seq(X)
  BY DEF IInv, ReqsOK
<1>2. r \in 1..Len(req) /\ ids \in Nat /\ ids' \in Nat /\ ids <= ids' /\ id \in 1..ids' /\ id \notin gone
  BY OpenNow, Now
<1>3. Len(req') = Len(req) /\ req'[r] = q /\ \A s \in 1..Len(req) : s # r => req'[s] = req[s]
  BY <1>1, <1>2, Replaced
<1>4. FileOK(hist, ids') /\ FileOK(arch, ids')
  BY <1>2, Now DEF FileOK
<1>5. CASE ok
  <2>1. hist' = File(Put(hist.msgs, id, stage))
    BY <1>5
  <2> DEFINE m == Put(hist.msgs, id, stage)
  <2>a. /\ DOMAIN m = DOMAIN hist.msgs \cup {id} /\ m[id] = stage
        /\ \A i \in DOMAIN hist.msgs : i # id => m[i] = hist.msgs[i]
    BY DEF Put
  <2>b. hist'.there = TRUE /\ hist'.msgs = m
    BY <2>1 DEF File
  <2> HIDE DEF m
  <2>2. /\ hist'.there = TRUE /\ DOMAIN hist'.msgs = DOMAIN hist.msgs \cup {id}
        /\ hist'.msgs[id] = stage
        /\ \A i \in DOMAIN hist.msgs : i # id => hist'.msgs[i] = hist.msgs[i]
    BY <2>a, <2>b
  <2>3. FileOK(hist', ids')
    <3>1. DOMAIN m \subseteq 1..ids'
      BY <1>2, <1>4, <2>a DEF FileOK
    <3>2. FileOK(File(m), ids')
      BY <1>2, <3>1, FilesFine
    <3> QED BY <2>1, <3>2 DEF m
  <2>4. FilesOK'
    BY <1>2, <1>4, <2>2, <2>3, Now DEF FilesOK, Stored
  <2>5. Copies'
    <3> SUFFICES ASSUME quiet', NEW s \in 1..Len(req), Final(req'[s]),
                        req'[s].reply \in DOMAIN hist'.msgs
                 PROVE  hist'.msgs[req'[s].reply] \in Settled
      BY <1>3, <1>5, <2>2, Zenon DEF Copies
    <3>1. CASE s = r
      BY <1>3, <1>5, <2>2, <3>1
    <3>2. CASE s # r
      <4>1. req'[s] = req[s] /\ Final(req[s])
        BY <1>3, <3>2
      <4>2. req[s].reply # id
        <5>1. req[s].reply \in 0..ids
          BY DEF IInv, ReqsOK, ReqOK
        <5>2. CASE id = ids + 1
          BY <1>2, <5>1, <5>2
        <5>3. CASE id = req[r].reply /\ id \in 1..ids
          BY <1>2, <3>2, <5>3 DEF IInv, Apart
        <5> QED BY <5>2, <5>3
      <4>3. req[s].reply \in DOMAIN hist.msgs
        BY <2>2, <4>1, <4>2
      <4> QED BY <2>2, <4>1, <4>2, <4>3 DEF IInv, Copies
    <3> QED BY <3>1, <3>2
  <2> QED BY <2>4, <2>5
<1>6. CASE ~ok
  <2>1. hist' \in {hist, Empty, Torn}
    BY <1>6 DEF Broken
  <2>2. FileOK(hist', ids') /\ DOMAIN hist'.msgs \subseteq DOMAIN hist.msgs
    BY <1>2, <1>4, <2>1, FilesFine, FileFacts
  <2>3. FilesOK'
    BY <1>2, <1>4, <2>2, Now DEF FilesOK, Stored
  <2>4. Copies'
    BY <1>6 DEF Copies
  <2> QED BY <2>3, <2>4
<1> QED BY <1>5, <1>6

\* What a request keeps on its way.
Keeps(q, p) ==
  /\ q.text = p.text /\ q.profile = p.profile /\ q.async = p.async /\ q.source = p.source
  /\ q.depth = p.depth /\ q.task = p.task /\ q.answers = p.answers
  /\ q.tagged = p.tagged /\ q.goal = p.goal /\ q.calm = p.calm

\* Request p has come to step c.
Moved(q, p, c) ==
  /\ DOMAIN q = Fields /\ q.pc = c /\ Keeps(q, p)
  /\ q.st = p.st /\ q.route = p.route

\* Request p is over.
Left(q, p, c) == DOMAIN q = Fields /\ q.pc = c /\ Keeps(q, p) /\ q.st = Blank

LEMMA GotoFacts ==
  ASSUME NEW p, DOMAIN p = Fields, NEW c, NEW q, q = With(p, Goto(c))
  PROVE  Moved(q, p, c) /\ q.branch = p.branch /\ q.reply = p.reply
BY DEF With, Goto, Moved, Keeps, Fields

LEMMA ReplyFacts ==
  ASSUME NEW p, DOMAIN p = Fields, NEW c, NEW i, NEW q, q = With(p, [pc |-> c, reply |-> i])
  PROVE  Moved(q, p, c) /\ q.branch = p.branch /\ q.reply = i
BY DEF With, Moved, Keeps, Fields

LEMMA CountFacts ==
  ASSUME NEW p, DOMAIN p = Fields, NEW k, NEW q, q = With(p, [n |-> k])
  PROVE  Moved(q, p, p.pc) /\ q.branch = p.branch /\ q.reply = p.reply
BY DEF With, Moved, Keeps, Fields

LEMMA OverFacts ==
  ASSUME NEW p, DOMAIN p = Fields, NEW c, NEW q, q = With(p, Over(c))
  PROVE  Left(q, p, c) /\ q.reply = p.reply
BY DEF With, Over, Left, Keeps, Fields

LEMMA OverWithFacts ==
  ASSUME NEW p, DOMAIN p = Fields, NEW i, NEW q, q = With(p, OverWith(i))
  PROVE  Left(q, p, "done") /\ q.reply = i
BY DEF With, OverWith, Left, Keeps, Fields

LEMMA FailsFacts ==
  ASSUME NEW r, DOMAIN req[r] = Fields, NEW q, q = With(req[r], Fails(r))
  PROVE  /\ Moved(q, req[r], "complain") \/ Left(q, req[r], "error")
         /\ q.reply = req[r].reply
<1>1. CASE req[r].depth > 0
  BY <1>1, GotoFacts DEF Fails
<1>2. CASE ~(req[r].depth > 0)
  BY <1>2, OverFacts DEF Fails
<1> QED BY <1>1, <1>2

\* Request r goes on as q without a change of the session state, while
\* tasks may change their states.
LEMMA TalkStep ==
  ASSUME IInv, NEW r \in Open, NEW q, req' = [req EXCEPT ![r] = q], FilesOK', Copies',
         ids' = ids \/ ids' = ids + 1,
         TasksOK', GoalsKept, Len(task') = Len(task),
         UNCHANGED <<sess, card, shown, gone, overlap>>, quiet' \in BOOLEAN,
         UNCHANGED <<inputs, faults>> \/ Fault,
         DOMAIN q = Fields, Keeps(q, req[r]), Knows(q, shown, gone),
         q.pc \in Steps \ {"load", "user", "offer", "finsave", "advance"},
         q.st = req[r].st \/ (q.pc \in Ended /\ q.st = Blank),
         q.reply = req[r].reply \/ (q.reply = ids + 1 /\ ids' = ids + 1),
         req[r].pc # "offer", q.pc \in {"card", "answer"} => req[r].pc = "user",
         q.pc \in Started => req[r].pc \in Started
  PROVE  IInv'
<1>1. /\ ids \in Nat /\ faults \in Nat /\ Len(task) \in Nat /\ ids' \in Nat /\ ids <= ids'
      /\ StateOK(sess, Len(task), shown)
  BY Now
<1>2. faults' \in Nat /\ faults <= faults'
  BY <1>1, ChatAssumption DEF Fault
<1>3. CountsOK'
  <2>1. inputs' \in 0..MaxInputs /\ faults' \in 0..MaxFaults
    BY <1>2, ChatAssumption DEF IInv, CountsOK, Fault, Input
  <2>2. gone' \subseteq 1..ids'
    BY <1>1, Now
  <2> QED BY <1>1, <2>1, <2>2 DEF IInv, CountsOK
<1>4. q.pc # "advance"
  OBVIOUS
<1>5. ReqOK(req[r], Len(task), shown, ids) /\ Knows(req[r], shown, gone)
  BY OpenNow
<1>6. ReqOK(q, Len(task), shown, ids')
  <2>1. StateOK(q.st, Len(task), shown)
    BY <1>1, <1>5, BlankOK DEF ReqOK
  <2>2. q.reply \in 0..ids'
    BY <1>1, <1>5 DEF ReqOK
  <2> QED BY <1>5, <2>1, <2>2 DEF ReqOK, Keeps
<1>7. ASSUME ~overlap PROVE Depth(q, faults', sess')
  <2>1. Depth(req[r], faults, sess) /\ req[r].depth \in Nat
    BY <1>5, <1>7, OpenNow DEF IInv, Shallow, ReqOK
  <2>2. q.pc = "answer" => req[r].st.pending = "confirm" /\ req[r].pc = "user"
    BY DEF Knows, Ended
  <2> QED BY <1>1, <1>2, <2>1, <2>2 DEF Depth, Keeps
<1>8. ASSUME ~overlap, faults' = 0
      PROVE  Kept(sess', card') /\ (q.pc \notin Ended => InTurn(q, card', sess'))
  <2>1. faults = 0
    BY <1>1, <1>2, <1>8
  <2>2. Kept(sess, card) /\ InTurn(req[r], card, sess)
    BY <1>8, <2>1, OpenNow DEF IInv, Calm
  <2> QED BY <2>2 DEF InTurn, Keeps
<1>9. /\ gone' = gone /\ overlap' = overlap /\ shown' = shown /\ card' = card
      /\ Len(task') = Len(task) /\ StateOK(sess', Len(task'), shown')
  BY <1>1
<1>10. /\ shown \subseteq shown'
       /\ ReqOK(q, Len(task'), shown', ids') /\ Knows(q, shown', gone)
       /\ q.reply = req[r].reply \/ q.reply = ids + 1
  BY <1>1, <1>6, <1>9
<1> QED BY <1>1, <1>2, <1>3, <1>4, <1>7, <1>8, <1>9, <1>10, RequestStep

\* Request r goes on as q without a change of the session state or the tasks.
LEMMA HistoryStep ==
  ASSUME IInv, NEW r \in Open, NEW q, req' = [req EXCEPT ![r] = q], FilesOK', Copies',
         ids' = ids \/ ids' = ids + 1,
         UNCHANGED <<sess, task, active, card, shown, gone, overlap>>, quiet' \in BOOLEAN,
         UNCHANGED <<inputs, faults>> \/ Fault,
         DOMAIN q = Fields, Keeps(q, req[r]), Knows(q, shown, gone),
         q.pc \in Steps \ {"load", "user", "offer", "finsave", "advance"},
         q.st = req[r].st \/ (q.pc \in Ended /\ q.st = Blank),
         q.reply = req[r].reply \/ (q.reply = ids + 1 /\ ids' = ids + 1),
         req[r].pc # "offer", q.pc \in {"card", "answer"} => req[r].pc = "user",
         q.pc \in Started => req[r].pc \in Started
  PROVE  IInv'
<1>1. TasksOK' /\ Len(task') = Len(task) /\ GoalsKept
  <2>1. active' \in 0..Len(task)
    BY DEF IInv, TasksOK
  <2> QED BY <2>1, TasksStay
<1>2. UNCHANGED <<sess, card, shown, gone, overlap>>
  OBVIOUS
<1> QED BY <1>1, <1>2, TalkStep

\* The same when it writes a new message or its reply.
LEMMA WriteStep ==
  ASSUME IInv, NEW r \in Open, NEW q, req' = [req EXCEPT ![r] = q],
         NEW id, NEW stage, NEW ok \in BOOLEAN, Rewrite(Put(hist.msgs, id, stage), ok),
         \/ id = ids + 1 /\ ids' = ids + 1
         \/ id = req[r].reply /\ req[r].pc \in Upserting /\ ids' = ids,
         UNCHANGED <<arch, sess, task, active, card, shown, gone, overlap>>,
         quiet' = FALSE \/ quiet' = (quiet /\ ok),
         quiet' /\ Final(q) => id = q.reply /\ stage \in Settled,
         DOMAIN q = Fields, Keeps(q, req[r]), Knows(q, shown, gone),
         q.pc \in Steps \ {"load", "user", "offer", "finsave", "advance"},
         q.st = req[r].st \/ (q.pc \in Ended /\ q.st = Blank),
         q.reply = req[r].reply \/ (q.reply = ids + 1 /\ ids' = ids + 1),
         req[r].pc # "offer", q.pc \in {"card", "answer"} => req[r].pc = "user",
         q.pc \in Started => req[r].pc \in Started
  PROVE  IInv'
<1>1. ReqOK(req[r], Len(task), shown, ids) /\ Knows(req[r], shown, gone) /\ ids \in Nat
  BY OpenNow, Now
<1>2. (ok /\ hist' = File(Put(hist.msgs, id, stage))) \/ (~ok /\ hist' \in Broken(hist))
  BY DEF Rewrite, Broken
<1>3. UNCHANGED <<inputs, faults>> \/ Fault
  BY DEF Rewrite
<1>4. \/ id = ids + 1 /\ ids' = ids + 1
      \/ id = req[r].reply /\ id \in 1..ids /\ id \notin gone /\ ids' = ids
  BY <1>1 DEF ReqOK, Knows
<1>5. quiet' \in BOOLEAN /\ (quiet' => quiet /\ ok)
  BY Now, Zenon
<1>6. UNCHANGED <<arch, gone>>
  OBVIOUS
<1>7. FilesOK' /\ Copies'
  BY <1>2, <1>4, <1>5, <1>6, Written
<1> QED BY <1>3, <1>4, <1>5, <1>7, HistoryStep

-----------------------------------------------------------------------------
(***************************************************************************)
(* Writes of the history                                                   *)
(***************************************************************************)

LEMMA Idle ==
  ASSUME NEW p, NEW goals, NEW dead, Knows(p, goals, dead), NEW q, Keeps(q, p),
         q.pc \in Ended \cup {"complain", "forget"}
  PROVE  Knows(q, goals, dead)
BY DEF Knows, Keeps, Ended, Branches, Upserting, Tasked, Started, Ended

\* Send gives up.
LEMMA Failed ==
  ASSUME IInv, NEW r \in Open, NEW q, q = With(req[r], Fails(r))
  PROVE  /\ DOMAIN q = Fields /\ Keeps(q, req[r]) /\ Knows(q, shown, gone)
         /\ q.pc \in {"complain", "error"} /\ ~Final(q)
         /\ q.st = req[r].st \/ (q.pc \in Ended /\ q.st = Blank)
         /\ q.reply = req[r].reply
<1>1. ReqOK(req[r], Len(task), shown, ids) /\ Knows(req[r], shown, gone)
  BY OpenNow
<1>2. /\ Moved(q, req[r], "complain") \/ Left(q, req[r], "error")
      /\ q.reply = req[r].reply
  BY <1>1, FailsFacts DEF ReqOK
<1>3. /\ DOMAIN q = Fields /\ Keeps(q, req[r]) /\ q.pc \in {"complain", "error"}
      /\ q.st = req[r].st \/ (q.pc \in Ended /\ q.st = Blank)
  BY <1>2 DEF Moved, Left, Ended
<1>4. Knows(q, shown, gone)
  BY <1>1, <1>3, Idle DEF Ended
<1>5. ~Final(q)
  BY <1>3 DEF Final
<1> QED BY <1>2, <1>3, <1>4, <1>5

LEMMA GiveUp ==
  ASSUME IInv, NEW r \in Open, NEW q, q = With(req[r], Fails(r)), req' = [req EXCEPT ![r] = q],
         NEW id, NEW stage, Rewrite(Put(hist.msgs, id, stage), FALSE),
         \/ id = ids + 1 /\ ids' = ids + 1
         \/ id = req[r].reply /\ req[r].pc \in Upserting /\ ids' = ids,
         UNCHANGED <<arch, sess, task, active, card, shown, gone, overlap>>, quiet' = FALSE,
         req[r].pc # "offer"
  PROVE  IInv'
<1>1. /\ DOMAIN q = Fields /\ Keeps(q, req[r]) /\ Knows(q, shown, gone)
      /\ q.pc \in {"complain", "error"} /\ ~Final(q)
      /\ q.st = req[r].st \/ (q.pc \in Ended /\ q.st = Blank)
      /\ q.reply = req[r].reply
  BY Failed
<1>2. /\ q.pc \in Steps \ {"load", "user", "offer", "finsave", "advance"}
      /\ q.pc \notin {"card", "answer"} /\ q.pc \notin Started
  BY <1>1 DEF Steps, Ended, Started
<1> QED BY <1>1, <1>2, WriteStep

LEMMA AppendUserKeeps ==
  ASSUME IInv, NEW r \in DOMAIN req, AppendUser(r)
  PROVE  IInv'
<1>1. r \in Open /\ req[r].pc = "user"
  BY DEF AppendUser, Open
<1>2. ReqOK(req[r], Len(task), shown, ids) /\ Knows(req[r], shown, gone)
  BY <1>1, OpenNow
<1>3. PICK ok \in BOOLEAN :
        /\ Rewrite(Put(hist.msgs, ids + 1, "user"), ok)
        /\ Step(r, IF ok THEN [pc |-> Branch(req[r]), branch |-> Branch(req[r])] ELSE Fails(r))
        /\ quiet' = (quiet /\ ok)
  BY DEF AppendUser, StoreAppend
<1>4. ids' = ids + 1 /\ UNCHANGED <<arch, sess, task, active, card, shown, gone, overlap>>
  BY DEF AppendUser
<1>5. CASE ~ok
  <2>1. req' = [req EXCEPT ![r] = With(req[r], Fails(r))] /\ quiet' = FALSE
    BY <1>3, <1>5 DEF Step
  <2>2. Rewrite(Put(hist.msgs, ids + 1, "user"), FALSE)
    BY <1>3, <1>5
  <2> QED BY <1>1, <1>4, <2>1, <2>2, GiveUp
<1>6. CASE ok
  <2>1. PICK b : b = Branch(req[r])
    OBVIOUS
  <2>2. PICK q : q = With(req[r], [pc |-> b, branch |-> b])
    OBVIOUS
  <2>3. req' = [req EXCEPT ![r] = q]
    BY <1>3, <1>6, <2>1, <2>2 DEF Step
  <2>4. Moved(q, req[r], b) /\ q.branch = b /\ q.reply = req[r].reply
    BY <1>2, <2>2 DEF With, Moved, Keeps, Fields, ReqOK
  <2>5. /\ b \in {"followup", "focused", "answer", "direct", "card", "submit"}
        /\ b = "followup" => req[r].st.pending = "summarize"
        /\ b = "answer" => req[r].st.pending = "confirm"
        /\ b \in {"direct", "card"} => req[r].st.pending # "confirm"
        /\ b = "submit" =>
             req[r].route.act \in FollowupActs \/ req[r].source = "intent-confirmation"
             \/ req[r].profile # "user"
    BY <2>1 DEF Branch, tryHandleSessionFollowup, shouldConfirmTaskIntent, isFollowupDialogueAct
  <2>6. q.pc = b /\ q.branch = b /\ Keeps(q, req[r]) /\ q.st = req[r].st /\ q.route = req[r].route
    BY <2>4 DEF Moved
  <2>7. Knows(q, shown, gone)
    <3>1. ~req[r].calm
      BY <1>1, <1>2 DEF Knows, Tasked, Started, Ended
    <3> QED BY <1>2, <2>5, <2>6, <3>1 DEF Knows, Keeps, Branches, Upserting, Tasked, Started, Ended
  <2>8. ~Final(q) /\ q.pc \in Steps \ {"load", "user", "offer", "finsave", "advance"} /\ q.pc \notin Started
    BY <2>5, <2>6 DEF Final, Steps, Branches, Started
  <2>9. DOMAIN q = Fields
    BY <2>4 DEF Moved
  <2>10. q.reply = req[r].reply \/ (q.reply = ids + 1 /\ ids' = ids + 1)
    BY <2>4
  <2> QED BY <1>1, <1>3, <1>4, <2>3, <2>6, <2>7, <2>8, <2>9, <2>10, WriteStep
<1> QED BY <1>5, <1>6

LEMMA PlaceholderKeeps ==
  ASSUME IInv, NEW r \in DOMAIN req, NEW branch \in Branches, Placeholder(r, branch)
  PROVE  IInv'
<1>1. r \in Open /\ req[r].pc = branch
  BY DEF Placeholder, Open, Branches
<1>2. ReqOK(req[r], Len(task), shown, ids) /\ Knows(req[r], shown, gone)
  BY <1>1, OpenNow
<1>3. PICK ok \in BOOLEAN :
        /\ Rewrite(Put(hist.msgs, ids + 1, "running"), ok)
        /\ Step(r, IF ok THEN [pc |-> "talk", reply |-> ids + 1] ELSE Fails(r))
        /\ quiet' = (quiet /\ ok)
  BY DEF Placeholder, StoreAppend
<1>4. ids' = ids + 1 /\ UNCHANGED <<arch, sess, task, active, card, shown, gone, overlap>>
  BY DEF Placeholder
<1>a. req[r].pc # "offer" /\ req[r].pc \notin Started
  BY <1>1 DEF Branches, Started
<1>5. CASE ~ok
  <2>1. req' = [req EXCEPT ![r] = With(req[r], Fails(r))] /\ quiet' = FALSE
    BY <1>3, <1>5 DEF Step
  <2>2. Rewrite(Put(hist.msgs, ids + 1, "running"), FALSE)
    BY <1>3, <1>5
  <2> QED BY <1>1, <1>4, <1>a, <2>1, <2>2, GiveUp
<1>6. CASE ok
  <2>2. PICK q : q = With(req[r], [pc |-> "talk", reply |-> ids + 1])
    OBVIOUS
  <2>3. req' = [req EXCEPT ![r] = q]
    BY <1>3, <1>6, <2>2 DEF Step
  <2>4. Moved(q, req[r], "talk") /\ q.branch = req[r].branch /\ q.reply = ids + 1
    BY <1>2, <2>2, ReplyFacts DEF ReqOK
  <2>5. /\ DOMAIN q = Fields /\ q.pc = "talk" /\ Keeps(q, req[r]) /\ q.st = req[r].st
        /\ q.route = req[r].route
    BY <2>4 DEF Moved
  <2>6. ids + 1 # 0 /\ ids + 1 \notin gone
    BY Now
  <2>7. Knows(q, shown, gone)
    BY <1>1, <1>2, <2>4, <2>5, <2>6 DEF Knows, Keeps, Branches, Upserting, Tasked, Started, Ended
  <2>8. ~Final(q) /\ q.pc \in Steps \ {"load", "user", "offer", "finsave", "advance"} /\ q.pc \notin Started
    BY <2>5 DEF Final, Steps, Upserting, Started
  <2> QED BY <1>1, <1>3, <1>4, <1>a, <2>3, <2>4, <2>5, <2>7, <2>8, WriteStep
<1> QED BY <1>5, <1>6

\* The steps a request takes between two writes of its reply.
Onward(q, p) ==
  /\ Moved(q, p, q.pc) /\ q.branch = p.branch /\ q.reply = p.reply
  /\ \/ p.pc = "talk" /\ q.pc = "talk"
     \/ p.pc = "talk" /\ q.pc = "save" /\ p.branch \in Branches
     \/ p.pc \in Started /\ q.pc \in Started \ {"finsave"}

LEMMA OnwardFacts ==
  ASSUME NEW p, NEW q, Onward(q, p), NEW goals, NEW dead, Knows(p, goals, dead), p.pc \in Upserting
  PROVE  /\ DOMAIN q = Fields /\ Keeps(q, p) /\ Knows(q, goals, dead)
         /\ q.pc \in Steps \ {"load", "user", "offer", "finsave", "advance"}
         /\ q.st = p.st /\ q.reply = p.reply
         /\ p.pc # "offer" /\ q.pc \notin {"card", "answer"}
         /\ q.pc \in Started => p.pc \in Started
<1>1. DOMAIN q = Fields /\ Keeps(q, p) /\ q.st = p.st /\ q.route = p.route /\ q.reply = p.reply
  BY DEF Onward, Moved
<1>2. /\ q.pc \in Steps \ {"load", "user", "offer", "finsave", "advance"}
      /\ p.pc # "offer" /\ q.pc \notin {"card", "answer"}
      /\ q.pc \in Started => p.pc \in Started
  BY DEF Onward, Steps, Upserting, Tasked, Started
<1>3. Knows(q, goals, dead)
  <2>1. CASE p.pc = "talk" /\ q.pc = "talk"
    BY <1>1, <2>1 DEF Onward, Knows, Keeps, Branches, Upserting, Tasked, Started, Ended
  <2>2. CASE p.pc = "talk" /\ q.pc = "save" /\ p.branch \in Branches
    BY <1>1, <2>2 DEF Onward, Knows, Keeps, Branches, Upserting, Tasked, Started, Ended
  <2>3. CASE p.pc \in Started /\ q.pc \in Started
    BY <1>1, <2>3 DEF Knows, Keeps, Branches, Upserting, Tasked, Started, Ended
  <2> QED BY <2>1, <2>2, <2>3 DEF Onward
<1> QED BY <1>1, <1>2, <1>3

LEMMA UpsertStep ==
  ASSUME IInv, NEW r \in Open, req[r].pc \in Upserting,
         NEW q, req' = [req EXCEPT ![r] = q], Onward(q, req[r]),
         NEW stage, NEW ok \in BOOLEAN, Rewrite(Put(hist.msgs, req[r].reply, stage), ok),
         UNCHANGED <<arch, sess, task, active, ids, card, shown, gone, overlap>>,
         quiet' = (quiet /\ ok), Final(q) => stage \in Settled
  PROVE  IInv'
<1>1. Knows(req[r], shown, gone)
  BY OpenNow
<1>2. /\ DOMAIN q = Fields /\ Keeps(q, req[r]) /\ Knows(q, shown, gone)
      /\ q.pc \in Steps \ {"load", "user", "offer", "finsave", "advance"}
      /\ q.st = req[r].st /\ q.reply = req[r].reply
      /\ req[r].pc # "offer" /\ q.pc \notin {"card", "answer"}
      /\ q.pc \in Started => req[r].pc \in Started
  BY <1>1, OnwardFacts
<1>3. ids' = ids /\ UNCHANGED <<arch, sess, task, active, card, shown, gone, overlap>>
  OBVIOUS
<1> QED BY <1>2, <1>3, WriteStep

LEMMA SilentStep ==
  ASSUME IInv, NEW r \in Open, req[r].pc \in Upserting,
         NEW q, req' = [req EXCEPT ![r] = q], Onward(q, req[r]), ~Final(q),
         UNCHANGED <<hist, arch, sess, task, active, ids, inputs, faults, card, shown, gone, overlap, quiet>>
  PROVE  IInv'
<1>1. Knows(req[r], shown, gone)
  BY OpenNow
<1>2. /\ DOMAIN q = Fields /\ Keeps(q, req[r]) /\ Knows(q, shown, gone)
      /\ q.pc \in Steps \ {"load", "user", "offer", "finsave", "advance"}
      /\ q.st = req[r].st /\ q.reply = req[r].reply
      /\ req[r].pc # "offer" /\ q.pc \notin {"card", "answer"}
      /\ q.pc \in Started => req[r].pc \in Started
  BY <1>1, OnwardFacts
<1>3. ids' = ids /\ UNCHANGED <<sess, task, active, card, shown, gone, overlap>> /\ UNCHANGED <<inputs, faults>>
  OBVIOUS
<1>4. UNCHANGED <<hist, arch, ids, gone, quiet>> /\ quiet' \in BOOLEAN
  BY Now
<1>5. FilesOK' /\ Copies'
  BY <1>2, <1>4, SameFiles
<1> QED BY <1>2, <1>3, <1>4, <1>5, HistoryStep

LEMMA ToolCallKeeps ==
  ASSUME IInv, NEW r \in DOMAIN req, ToolCall(r)
  PROVE  IInv'
<1>1. r \in Open /\ req[r].pc = "talk"
  BY DEF ToolCall, Open
<1>2. PICK ok \in BOOLEAN :
        Rewrite(Put(hist.msgs, req[r].reply, "tool_result"), ok) /\ quiet' = (quiet /\ ok)
  BY DEF ToolCall, StoreUpsert
<1>3. PICK q : q = With(req[r], [n |-> req[r].n + 1])
  OBVIOUS
<1>4. /\ req' = [req EXCEPT ![r] = q]
      /\ UNCHANGED <<arch, sess, task, active, ids, card, shown, gone, overlap>>
  BY <1>3 DEF ToolCall, Step
<1>5. Moved(q, req[r], req[r].pc) /\ q.branch = req[r].branch /\ q.reply = req[r].reply
  BY <1>1, <1>3, OpenNow, CountFacts DEF ReqOK
<1>6. Onward(q, req[r]) /\ ~Final(q) /\ req[r].pc \in Upserting
  BY <1>1, <1>5 DEF Onward, Moved, Final, Upserting
<1> QED BY <1>1, <1>2, <1>4, <1>6, UpsertStep

LEMMA StreamKeeps ==
  ASSUME IInv, NEW r \in DOMAIN req, req[r].pc = "talk", req[r].branch \in Branches,
         NEW ok \in BOOLEAN, StoreUpsert(req[r].reply, "responded", ok), quiet' = (quiet /\ ok),
         Step(r, Goto("save")), UNCHANGED <<arch, sess, task, active, ids, card, shown, gone, overlap>>
  PROVE  IInv'
<1>1. r \in Open
  BY DEF Open
<1>2. Rewrite(Put(hist.msgs, req[r].reply, "responded"), ok)
  BY DEF StoreUpsert
<1>3. PICK q : q = With(req[r], Goto("save"))
  OBVIOUS
<1>4. req' = [req EXCEPT ![r] = q]
  BY <1>3 DEF Step
<1>5. Moved(q, req[r], "save") /\ q.branch = req[r].branch /\ q.reply = req[r].reply
  BY <1>1, <1>3, OpenNow, GotoFacts DEF ReqOK
<1>6. Onward(q, req[r]) /\ req[r].pc \in Upserting
  BY <1>5 DEF Onward, Moved, Upserting
<1>7. "responded" \in Settled
  BY DEF Settled
<1> QED BY <1>1, <1>2, <1>4, <1>6, <1>7, UpsertStep

LEMMA ComposesKeep ==
  ASSUME IInv, NEW r \in DOMAIN req,
         composeFollowupArtifactReply(r) \/ composeAgentDirectReply(r) \/ composeDirectReply(r)
  PROVE  IInv'
<1>1. req[r].pc = "talk" /\ req[r].branch \in Branches
  BY DEF composeFollowupArtifactReply, composeAgentDirectReply, composeDirectReply, Branches
<1>2. PICK ok \in BOOLEAN : StoreUpsert(req[r].reply, "responded", ok) /\ quiet' = (quiet /\ ok)
  BY DEF composeFollowupArtifactReply, composeAgentDirectReply, composeDirectReply,
         streamConversationReply
<1>3. Step(r, Goto("save")) /\ UNCHANGED <<arch, sess, task, active, ids, card, shown, gone, overlap>>
  BY DEF composeFollowupArtifactReply, composeAgentDirectReply, composeDirectReply,
         streamConversationReply
<1> QED BY <1>1, <1>2, <1>3, StreamKeeps

LEMMA UpsertActiveKeeps ==
  ASSUME IInv, NEW r \in DOMAIN req, UpsertActive(r)
  PROVE  IInv'
<1>1. r \in Open /\ req[r].pc = "active"
  BY DEF UpsertActive, Open
<1>2. PICK c \in {"summary", "run"} : Step(r, Goto(c))
  BY DEF UpsertActive
<1>3. PICK q : q = With(req[r], Goto(c))
  OBVIOUS
<1>4. /\ req' = [req EXCEPT ![r] = q]
      /\ UNCHANGED <<arch, sess, task, active, ids, card, shown, gone, overlap>>
  BY <1>2, <1>3 DEF UpsertActive, Step
<1>5. Moved(q, req[r], c) /\ q.branch = req[r].branch /\ q.reply = req[r].reply
  BY <1>1, <1>3, OpenNow, GotoFacts DEF ReqOK
<1>6. Onward(q, req[r]) /\ ~Final(q) /\ req[r].pc \in Upserting
  BY <1>1, <1>5 DEF Onward, Moved, Final, Upserting, Started
<1>7. ASSUME NEW ok \in BOOLEAN, NEW stage, StoreUpsert(req[r].reply, stage, ok), quiet' = (quiet /\ ok)
      PROVE  IInv'
  BY <1>1, <1>4, <1>6, <1>7, UpsertStep DEF StoreUpsert
<1>8. CASE UNCHANGED <<hist, inputs, faults, quiet>>
  BY <1>1, <1>4, <1>6, <1>8, SilentStep
<1> QED BY <1>7, <1>8 DEF UpsertActive

LEMMA ReportProgressKeeps ==
  ASSUME IInv, NEW r \in DOMAIN req, ReportProgress(r)
  PROVE  IInv'
<1>1. r \in Open /\ req[r].pc = "run"
  BY DEF ReportProgress, Open
<1>2. PICK ok \in BOOLEAN, e \in Progress :
        /\ StoreUpsert(req[r].reply, normalizeProgressStage(task[req[r].task].skill, e), ok)
        /\ quiet' = (quiet /\ ok)
  BY DEF ReportProgress
<1>3. PICK q : q = With(req[r], [n |-> req[r].n + 1])
  OBVIOUS
<1>4. /\ req' = [req EXCEPT ![r] = q]
      /\ UNCHANGED <<arch, sess, task, active, ids, card, shown, gone, overlap>>
  BY <1>3 DEF ReportProgress, Step
<1>5. Moved(q, req[r], req[r].pc) /\ q.branch = req[r].branch /\ q.reply = req[r].reply
  BY <1>1, <1>3, OpenNow, CountFacts DEF ReqOK
<1>6. Onward(q, req[r]) /\ ~Final(q) /\ req[r].pc \in Upserting
  BY <1>1, <1>5 DEF Onward, Moved, Final, Upserting, Started
<1>7. PICK stage : Rewrite(Put(hist.msgs, req[r].reply, stage), ok)
  BY <1>2 DEF StoreUpsert
<1> QED BY <1>1, <1>2, <1>4, <1>6, <1>7, UpsertStep

LEMMA UpsertSummarizingKeeps ==
  ASSUME IInv, NEW r \in DOMAIN req, UpsertSummarizing(r)
  PROVE  IInv'
<1>1. r \in Open /\ req[r].pc = "summary"
  BY DEF UpsertSummarizing, Open
<1>2. PICK ok \in BOOLEAN :
        Rewrite(Put(hist.msgs, req[r].reply, "summarizing"), ok) /\ quiet' = (quiet /\ ok)
  BY DEF UpsertSummarizing, StoreUpsert
<1>3. PICK q : q = With(req[r], Goto("compose"))
  OBVIOUS
<1>4. /\ req' = [req EXCEPT ![r] = q]
      /\ UNCHANGED <<arch, sess, task, active, ids, card, shown, gone, overlap>>
  BY <1>3 DEF UpsertSummarizing, Step
<1>5. Moved(q, req[r], "compose") /\ q.branch = req[r].branch /\ q.reply = req[r].reply
  BY <1>1, <1>3, OpenNow, GotoFacts DEF ReqOK
<1>6. Onward(q, req[r]) /\ ~Final(q) /\ req[r].pc \in Upserting
  BY <1>1, <1>5 DEF Onward, Moved, Final, Upserting, Started
<1> QED BY <1>1, <1>2, <1>4, <1>6, UpsertStep

LEMMA ComposeKeeps ==
  ASSUME IInv, NEW r \in DOMAIN req, Compose(r)
  PROVE  IInv'
<1>1. r \in Open /\ req[r].pc = "compose"
  BY DEF Compose, Open
<1>3. PICK q : q = With(req[r], Goto("close"))
  OBVIOUS
<1>4. /\ req' = [req EXCEPT ![r] = q]
      /\ UNCHANGED <<arch, sess, task, active, ids, card, shown, gone, overlap>>
  BY <1>3 DEF Compose, Step
<1>5. Moved(q, req[r], "close") /\ q.branch = req[r].branch /\ q.reply = req[r].reply
  BY <1>1, <1>3, OpenNow, GotoFacts DEF ReqOK
<1>6. Onward(q, req[r]) /\ ~Final(q) /\ req[r].pc \in Upserting
  BY <1>1, <1>5 DEF Onward, Moved, Final, Upserting, Started
<1>7. ASSUME NEW ok \in BOOLEAN, StoreUpsert(req[r].reply, "running", ok), quiet' = (quiet /\ ok)
      PROVE  IInv'
  BY <1>1, <1>4, <1>6, <1>7, UpsertStep DEF StoreUpsert
<1>8. CASE UNCHANGED <<hist, inputs, faults, quiet>>
  BY <1>1, <1>4, <1>6, <1>8, SilentStep
<1> QED BY <1>7, <1>8 DEF Compose

LEMMA CloseKeeps ==
  ASSUME IInv, NEW r \in DOMAIN req, Close(r)
  PROVE  IInv'
<1>1. r \in Open /\ req[r].pc = "close"
  BY DEF Close, Open
<1>2. PICK ok, stage :
        /\ ok \in BOOLEAN
        /\ stage = IF req[r].failed THEN "failed"
                   ELSE IF req[r].async THEN finalStage(req[r].seen)
                   ELSE "summarizing"
        /\ StoreUpsert(req[r].reply, stage, ok)
        /\ Step(r, IF ok \/ req[r].async THEN Goto("finalize") ELSE Fails(r))
        /\ quiet' = (quiet /\ ok)
  BY DEF Close
<1>3. UNCHANGED <<arch, sess, task, active, ids, card, shown, gone, overlap>>
  BY DEF Close
<1>4. req[r].async \/ req[r].failed => stage \in Settled
  BY <1>2 DEF Settled, finalStage
<1>5. Rewrite(Put(hist.msgs, req[r].reply, stage), ok)
  BY <1>2 DEF StoreUpsert
<1>6. CASE ok \/ req[r].async
  <2>1. PICK q : q = With(req[r], Goto("finalize"))
    OBVIOUS
  <2>2. req' = [req EXCEPT ![r] = q]
    BY <1>2, <1>6, <2>1 DEF Step
  <2>3. Moved(q, req[r], "finalize") /\ q.branch = req[r].branch /\ q.reply = req[r].reply
    BY <1>1, <2>1, OpenNow, GotoFacts DEF ReqOK
  <2>4. Onward(q, req[r]) /\ req[r].pc \in Upserting
    BY <1>1, <2>3 DEF Onward, Moved, Upserting, Started
  <2>5. Final(q) => stage \in Settled
    BY <1>4, <2>3 DEF Final, Moved, Keeps
  <2> QED BY <1>1, <1>2, <1>3, <1>5, <2>2, <2>4, <2>5, UpsertStep
<1>7. CASE ~(ok \/ req[r].async)
  <2>1. req' = [req EXCEPT ![r] = With(req[r], Fails(r))] /\ quiet' = FALSE
    BY <1>2, <1>7 DEF Step
  <2>2. Rewrite(Put(hist.msgs, req[r].reply, stage), FALSE)
    <3>1. ok = FALSE
      BY <1>2, <1>7, Zenon
    <3> QED BY <1>5, <3>1
  <2>3. req[r].pc \in Upserting /\ req[r].pc # "offer" /\ ids' = ids
    BY <1>1, <1>3 DEF Upserting
  <2> QED BY <1>1, <1>3, <2>1, <2>2, <2>3, GiveUp
<1> QED BY <1>6, <1>7

LEMMA AnswerNoKeeps ==
  ASSUME IInv, NEW r \in DOMAIN req, AnswerNo(r)
  PROVE  IInv'
<1>1. r \in Open /\ req[r].pc = "answer"
  BY DEF AnswerNo, Open
<1>2. PICK ok \in BOOLEAN :
        Rewrite(Put(hist.msgs, ids + 1, "responded"), ok) /\ quiet' = (quiet /\ ok)
  BY DEF AnswerNo, StoreAppend
<1>3. PICK q : q = With(req[r], [pc |-> "forget", reply |-> ids + 1])
  OBVIOUS
<1>4. /\ req' = [req EXCEPT ![r] = q] /\ ids' = ids + 1
      /\ UNCHANGED <<arch, sess, task, active, card, shown, gone, overlap>>
  BY <1>3 DEF AnswerNo, Step
<1>5. Moved(q, req[r], "forget") /\ q.reply = ids + 1
  BY <1>1, <1>3, OpenNow, ReplyFacts DEF ReqOK
<1>6. DOMAIN q = Fields /\ Keeps(q, req[r]) /\ q.st = req[r].st /\ q.pc = "forget"
  BY <1>5 DEF Moved
<1>7. Knows(q, shown, gone)
  BY <1>1, <1>6, OpenNow, Idle
<1>8. q.pc \in Steps \ {"load", "user", "offer", "finsave", "advance"} /\ q.pc \notin Started
  BY <1>6 DEF Steps, Started
<1>9. "responded" \in Settled
  BY DEF Settled
<1> QED BY <1>1, <1>2, <1>4, <1>5, <1>6, <1>7, <1>8, <1>9, WriteStep

LEMMA ComplainKeeps ==
  ASSUME IInv, NEW r \in DOMAIN req, Complain(r)
  PROVE  IInv'
<1>1. r \in Open /\ req[r].pc = "complain"
  BY DEF Complain, Open
<1>2. PICK ok \in BOOLEAN : Rewrite(Put(hist.msgs, ids + 1, "failed"), ok)
  BY DEF Complain, StoreAppend
<1>3. PICK q : q = With(req[r], OverWith(ids + 1))
  OBVIOUS
<1>4. /\ req' = [req EXCEPT ![r] = q] /\ ids' = ids + 1 /\ quiet' = FALSE
      /\ UNCHANGED <<arch, sess, task, active, card, shown, gone, overlap>>
  BY <1>3 DEF Complain, Step
<1>5. Left(q, req[r], "done") /\ q.reply = ids + 1
  BY <1>1, <1>3, OpenNow, OverWithFacts DEF ReqOK
<1>6. DOMAIN q = Fields /\ Keeps(q, req[r]) /\ q.st = Blank /\ q.pc = "done" /\ q.pc \in Ended
  BY <1>5 DEF Left, Ended
<1>7. Knows(q, shown, gone)
  BY <1>1, <1>6, OpenNow, Idle
<1>8. q.pc \in Steps \ {"load", "user", "offer", "finsave", "advance"} /\ q.pc \notin Started
  BY <1>6 DEF Steps, Started, Ended
<1> QED BY <1>1, <1>2, <1>4, <1>5, <1>6, <1>7, <1>8, WriteStep

LEMMA AppendQueuedKeeps ==
  ASSUME IInv, NEW r \in DOMAIN req, AppendQueued(r)
  PROVE  IInv'
<1>1. r \in Open /\ req[r].pc = "queue"
  BY DEF AppendQueued, Open
<1>2. ReqOK(req[r], Len(task), shown, ids) /\ Knows(req[r], shown, gone)
  BY <1>1, OpenNow
<1>3. PICK ok \in BOOLEAN :
        /\ Rewrite(Put(hist.msgs, ids + 1, "queued"), ok)
        /\ Step(r, IF ok THEN [pc |-> "start", reply |-> ids + 1] ELSE Fails(r))
        /\ quiet' = (quiet /\ ok)
  BY DEF AppendQueued, StoreAppend
<1>4. ids' = ids + 1 /\ UNCHANGED <<arch, sess, task, active, card, shown, gone, overlap>>
  BY DEF AppendQueued
<1>5. CASE ~ok
  <2>1. req' = [req EXCEPT ![r] = With(req[r], Fails(r))] /\ quiet' = FALSE
    BY <1>3, <1>5 DEF Step
  <2>2. Rewrite(Put(hist.msgs, ids + 1, "queued"), FALSE)
    BY <1>3, <1>5
  <2> QED BY <1>1, <1>4, <2>1, <2>2, GiveUp
<1>6. CASE ok
  <2>2. PICK q : q = With(req[r], [pc |-> "start", reply |-> ids + 1])
    OBVIOUS
  <2>3. req' = [req EXCEPT ![r] = q]
    BY <1>3, <1>6, <2>2 DEF Step
  <2>4. Moved(q, req[r], "start") /\ q.reply = ids + 1
    BY <1>2, <2>2, ReplyFacts DEF ReqOK
  <2>5. DOMAIN q = Fields /\ q.pc = "start" /\ Keeps(q, req[r]) /\ q.st = req[r].st
    BY <2>4 DEF Moved
  <2>6. ids + 1 # 0 /\ ids + 1 \notin gone
    BY Now
  <2>7. Knows(q, shown, gone)
    BY <1>1, <1>2, <2>4, <2>5, <2>6 DEF Knows, Keeps, Branches, Upserting, Tasked, Started, Ended
  <2>8. ~Final(q) /\ q.pc \in Steps \ {"load", "user", "offer", "finsave", "advance"} /\ q.pc \notin Started
    BY <2>5 DEF Final, Steps, Tasked, Started
  <2> QED BY <1>1, <1>3, <1>4, <2>3, <2>4, <2>5, <2>7, <2>8, WriteStep
<1> QED BY <1>5, <1>6

\* A new card: no earlier goal waits.
LEMMA AppendCardKeeps ==
  ASSUME IInv, NEW r \in DOMAIN req, AppendCard(r)
  PROVE  IInv'
<1>1. r \in Open /\ req[r].pc = "card"
  BY DEF AppendCard, Open
<1>2. ReqOK(req[r], Len(task), shown, ids) /\ Knows(req[r], shown, gone)
  BY <1>1, OpenNow
<1>3. PICK ok \in BOOLEAN :
        /\ Rewrite(Put(hist.msgs, ids + 1, "awaiting_confirmation"), ok)
        /\ Step(r, IF ok THEN [pc |-> "offer", reply |-> ids + 1] ELSE Fails(r))
        /\ card' = IF ok THEN req[r].text ELSE card
        /\ shown' = IF ok THEN shown \cup {req[r].text} ELSE shown
        /\ quiet' = (quiet /\ ok)
  BY DEF AppendCard, StoreAppend
<1>4. ids' = ids + 1 /\ UNCHANGED <<arch, sess, task, active, gone, overlap>>
  BY DEF AppendCard
<1>5. CASE ~ok
  <2>1. req' = [req EXCEPT ![r] = With(req[r], Fails(r))] /\ quiet' = FALSE
    BY <1>3, <1>5 DEF Step
  <2>2. Rewrite(Put(hist.msgs, ids + 1, "awaiting_confirmation"), FALSE)
    BY <1>3, <1>5
  <2>3. UNCHANGED <<arch, sess, task, active, card, shown, gone, overlap>>
    BY <1>3, <1>4, <1>5
  <2> QED BY <1>1, <1>4, <2>1, <2>2, <2>3, GiveUp
<1>6. CASE ok
  <2>1. PICK q : q = With(req[r], [pc |-> "offer", reply |-> ids + 1])
    OBVIOUS
  <2>2. req' = [req EXCEPT ![r] = q]
    BY <1>3, <1>6, <2>1 DEF Step
  <2>3. Moved(q, req[r], "offer") /\ q.reply = ids + 1
    BY <1>2, <2>1, ReplyFacts DEF ReqOK
  <2>4. DOMAIN q = Fields /\ q.pc = "offer" /\ Keeps(q, req[r]) /\ q.st = req[r].st
    BY <2>3 DEF Moved
  <2>5. /\ card' = req[r].text /\ shown' = shown \cup {req[r].text} /\ quiet' = quiet
        /\ gone' = gone /\ overlap' = overlap /\ task' = task /\ active' = active /\ sess' = sess
        /\ UNCHANGED <<arch, gone>>
    BY <1>3, <1>4, <1>6, Now
  <2>6. hist' = File(Put(hist.msgs, ids + 1, "awaiting_confirmation")) /\ UNCHANGED <<inputs, faults>>
    BY <1>3, <1>6 DEF Rewrite
  <2>7. ids \in Nat /\ faults \in Nat /\ Len(task) \in Nat /\ ids <= ids' /\ faults' = faults
    BY <1>4, <2>6, Now
  <2>8. FilesOK' /\ Copies'
    <3>1. "awaiting_confirmation" \in Settled
      BY DEF Settled
    <3>2. (ok /\ hist' = File(Put(hist.msgs, ids + 1, "awaiting_confirmation"))) \/ (~ok /\ hist' \in Broken(hist))
      BY <1>6, <2>6
    <3>3. quiet' => quiet /\ ok
      BY <1>6, <2>5
    <3> QED BY <1>1, <1>4, <2>2, <2>3, <2>5, <3>1, <3>2, <3>3, Written
  <2>9. CountsOK'
    <3>1. req[r].text \in Text
      BY <1>2 DEF ReqOK
    <3>2. gone' \subseteq 1..ids'
      BY <1>4, <2>5, <2>7, Now
    <3> QED BY <1>4, <2>5, <2>6, <2>7, <3>1, <3>2 DEF IInv, CountsOK
  <2>10. TasksOK' /\ GoalsKept
    <3>1. TaskSeq(task, shown) /\ active \in 0..Len(task) /\ shown \subseteq shown'
      BY <2>5 DEF IInv, TasksOK
    <3>2. TaskSeq(task, shown')
      BY <3>1 DEF TaskSeq, Green
    <3> QED BY <2>5, <2>7, <3>1, <3>2 DEF TasksOK, GoalsKept
  <2>11. StateOK(sess', Len(task'), shown')
    BY <2>5, <2>7, Now, StateGrows
  <2>12. ReqOK(q, Len(task'), shown', ids')
    <3>1. StateOK(q.st, Len(task), shown')
      BY <1>2, <2>4, <2>5, <2>7, StateGrows DEF ReqOK
    <3>2. q.reply \in 0..ids' /\ q.pc \in Steps
      BY <1>4, <2>3, <2>4, <2>7 DEF Steps
    <3> QED BY <1>2, <2>4, <2>5, <3>1, <3>2 DEF ReqOK, Keeps
  <2>13. Knows(q, shown', gone)
    BY <1>1, <1>2, <2>4, <2>5 DEF Knows, Keeps, Branches, Upserting, Tasked, Started, Ended
  <2>14. ASSUME ~overlap PROVE Depth(q, faults', sess')
    <3>1. req[r].depth <= 1 + faults
      BY <1>1, <2>14, OpenNow DEF IInv, Shallow, Depth
    <3> QED BY <2>4, <2>7, <3>1 DEF Depth, Keeps
  <2>15. ASSUME ~overlap, faults' = 0
         PROVE  Kept(sess', card') /\ (q.pc \notin Ended => InTurn(q, card', sess'))
    <3>1. Kept(sess, card) /\ InTurn(req[r], card, sess)
      BY <1>1, <2>7, <2>15, OpenNow DEF IInv, Calm
    <3>2. req[r].st.refs = <<>> /\ sess.refs = <<>>
      BY <1>1, <1>2, <3>1 DEF InTurn, Kept, Knows
    <3>3. Kept(sess', card')
      BY <2>5, <3>2 DEF Kept
    <3>4. InTurn(q, card', sess')
      BY <2>4, <2>5, <3>1, <3>2 DEF InTurn, Keeps, Started
    <3> QED BY <3>3, <3>4
  <2>16. /\ shown \subseteq shown' /\ faults <= faults' /\ q.pc # "advance"
         /\ q.reply = req[r].reply \/ q.reply = ids + 1
    BY <2>3, <2>4, <2>5, <2>7
  <2> QED BY <1>1, <2>2, <2>5, <2>7, <2>8, <2>9, <2>10, <2>11, <2>12, <2>13, <2>14, <2>15,
             <2>16, RequestStep
<1> QED BY <1>5, <1>6

-----------------------------------------------------------------------------
(***************************************************************************)
(* Writes of the session state                                             *)
(***************************************************************************)

\* Request r saves st and goes on as q.
LEMMA SaveStep ==
  ASSUME IInv, NEW r \in Open, NEW q, req' = [req EXCEPT ![r] = q],
         NEW st, SaveSessionState(st), StateOK(st, Len(task), shown),
         UNCHANGED <<hist, arch, task, active, ids, card, shown, gone, overlap, quiet>>,
         ReqOK(q, Len(task), shown, ids), Knows(q, shown, gone), q.pc # "advance",
         Final(q) => Final(req[r]), q.reply = req[r].reply,
         ~overlap => Depth(q, faults', sess'),
         ~overlap /\ faults = 0 => Kept(st, card) /\ (q.pc \notin Ended => InTurn(q, card, st))
  PROVE  IInv'
<1>1. ids \in Nat /\ faults \in Nat /\ Len(task) \in Nat /\ StateOK(sess, Len(task), shown)
  BY Now
<1>2. \/ sess' = st /\ inputs' = inputs /\ faults' = faults
      \/ Fault /\ sess' \in {sess, Blank}
  BY DEF SaveSessionState
<1>3. faults' \in Nat /\ faults <= faults' /\ (faults' = 0 => faults = 0 /\ sess' = st)
  BY <1>1, <1>2 DEF Fault
<1>4. /\ ids' = ids /\ gone' = gone /\ overlap' = overlap /\ shown' = shown /\ card' = card
      /\ Len(task') = Len(task) /\ task' = task /\ quiet' = quiet
  OBVIOUS
<1>5. CountsOK'
  <2>1. inputs' \in 0..MaxInputs /\ faults' \in 0..MaxFaults
    BY <1>2, <1>3, ChatAssumption DEF IInv, CountsOK, Fault, Input
  <2> QED BY <1>4, <2>1 DEF IInv, CountsOK
<1>6. TasksOK' /\ GoalsKept
  <2>1. active' \in 0..Len(task) /\ task' = task /\ shown' = shown
    BY DEF IInv, TasksOK
  <2> QED BY <2>1, TasksStay
<1>7. StateOK(sess', Len(task'), shown')
  <2>1. StateOK(sess', Len(task), shown)
    BY <1>1, <1>2, BlankOK
  <2> QED BY <1>4, <2>1
<1>8. FilesOK' /\ Copies'
  <2>1. UNCHANGED <<hist, arch, ids, gone, quiet>>
    OBVIOUS
  <2> QED BY <2>1, SameFiles
<1>9. ASSUME ~overlap, faults' = 0
      PROVE  Kept(sess', card') /\ (q.pc \notin Ended => InTurn(q, card', sess'))
  <2>1. faults = 0 /\ sess' = st
    BY <1>3, <1>9
  <2> QED BY <1>4, <1>9, <2>1
<1>10. /\ shown \subseteq shown' /\ ids <= ids'
       /\ ReqOK(q, Len(task'), shown', ids') /\ Knows(q, shown', gone)
       /\ q.reply = req[r].reply \/ q.reply = ids + 1
  BY <1>1, <1>4
<1> QED BY <1>3, <1>4, <1>5, <1>6, <1>7, <1>8, <1>9, <1>10, RequestStep

\* The same when Send returns.
LEMMA SaveLast ==
  ASSUME IInv, NEW r \in Open, Step(r, Over("done")),
         NEW st, SaveSessionState(st), StateOK(st, Len(task), shown),
         UNCHANGED <<hist, arch, task, active, ids, ghosts>>,
         req[r].pc \in {"save", "forget", "offer", "finsave"},
         ~overlap /\ faults = 0 /\ InTurn(req[r], card, sess) => Kept(st, card)
  PROVE  IInv'
<1>1. ReqOK(req[r], Len(task), shown, ids) /\ Knows(req[r], shown, gone) /\ req[r].pc \notin Ended
      /\ r \in 1..Len(req)
  BY OpenNow
<1>2. PICK q : q = With(req[r], Over("done"))
  OBVIOUS
<1>3. req' = [req EXCEPT ![r] = q]
  BY <1>2 DEF Step
<1>4. Left(q, req[r], "done") /\ q.reply = req[r].reply
  BY <1>1, <1>2, OverFacts DEF ReqOK
<1>5. /\ DOMAIN q = Fields /\ Keeps(q, req[r]) /\ q.st = Blank /\ q.pc = "done" /\ q.pc \in Ended
      /\ q.pc # "advance"
  BY <1>4 DEF Left, Ended
<1>6. Knows(q, shown, gone)
  BY <1>1, <1>5, Idle
<1>7. ReqOK(q, Len(task), shown, ids)
  <2>1. StateOK(q.st, Len(task), shown)
    BY <1>5, Now, BlankOK
  <2> QED BY <1>1, <1>4, <1>5, <2>1 DEF ReqOK, Keeps, Steps
<1>8. Final(q) => Final(req[r])
  <2>1. CASE req[r].pc = "finsave"
    <3>1. req[r].task # 0
      BY <1>1, <2>1 DEF Knows, Tasked, Started
    <3> QED BY <1>5, <2>1, <3>1 DEF Final, Keeps
  <2>2. CASE req[r].pc # "finsave"
    BY <2>2 DEF Final
  <2> QED BY <2>1, <2>2
<1>9. ASSUME ~overlap PROVE Depth(q, faults', sess')
  <2>1. req[r].depth <= 1 + faults /\ req[r].depth \in Nat
    BY <1>1, <1>9 DEF IInv, Shallow, Depth, ReqOK
  <2>2. faults \in Nat /\ faults' \in Nat /\ faults <= faults'
    BY Now DEF SaveSessionState, Fault
  <2> QED BY <1>5, <2>1, <2>2 DEF Depth, Keeps
<1>10. ~overlap /\ faults = 0 => Kept(st, card)
  BY <1>1 DEF IInv, Calm
<1>11. UNCHANGED <<hist, arch, task, active, ids, card, shown, gone, overlap, quiet>>
  BY DEF ghosts
<1> QED BY <1>3, <1>4, <1>5, <1>6, <1>7, <1>8, <1>9, <1>10, <1>11, SaveStep

LEMMA ForgetFacts ==
  ASSUME NEW st, NEW n \in Nat, NEW A, StateOK(st, n, A)
  PROVE  StateOK(Forget(st), n, A) /\ Forget(st).refs = <<>> /\ Forget(st).pending = None
<1>1. PICK f \in 0..n, b \in BOOLEAN, p \in Pendings, x \in Seq(A) :
        st = [focus |-> f, question |-> b, pending |-> p, refs |-> x]
  BY DEF StateOK
<1>2. PICK y : y = <<>>
  OBVIOUS
<1>3. Forget(st) = [focus |-> f, question |-> FALSE, pending |-> None, refs |-> y]
  <2>1. PICK w : w = [st EXCEPT !.pending = None, !.question = FALSE, !.refs = y]
    OBVIOUS
  <2>2. w = Forget(st)
    BY <1>2, <2>1, Zenon DEF Forget
  <2>3. w = [focus |-> f, question |-> FALSE, pending |-> None, refs |-> y]
    BY <1>1, <2>1
  <2> QED BY <2>2, <2>3
<1>4. y \in Seq(A)
  BY <1>2
<1> QED BY <1>2, <1>3, <1>4, NoneOther DEF StateOK, Pendings

LEMMA OfferFacts ==
  ASSUME NEW st, NEW n \in Nat, NEW A, StateOK(st, n, A), NEW t \in A
  PROVE  /\ StateOK(Offer(st, t), n, A) /\ Offer(st, t).pending = "confirm"
         /\ st.refs = <<>> => Offer(st, t).refs = <<t>>
<1>1. PICK f \in 0..n, b \in BOOLEAN, p \in Pendings, x \in Seq(A) :
        st = [focus |-> f, question |-> b, pending |-> p, refs |-> x]
  BY DEF StateOK
<1>2. PICK y : y = Append(x, t)
  OBVIOUS
<1>3. Offer(st, t) = [focus |-> f, question |-> TRUE, pending |-> "confirm", refs |-> y]
  <2>1. PICK w : w = [st EXCEPT !.pending = "confirm", !.question = TRUE, !.refs = y]
    OBVIOUS
  <2>2. y = Append(st.refs, t)
    BY <1>1, <1>2
  <2>3. w = Offer(st, t)
    BY <2>1, <2>2, Zenon DEF Offer
  <2>4. w = [focus |-> f, question |-> TRUE, pending |-> "confirm", refs |-> y]
    BY <1>1, <2>1
  <2> QED BY <2>3, <2>4
<1>4. y \in Seq(A) /\ y # <<>>
  BY <1>2
<1>5. x = <<>> => y = <<t>>
  BY <1>2
<1>6. StateOK(Offer(st, t), n, A) /\ Offer(st, t).pending = "confirm"
  BY <1>3, <1>4 DEF StateOK, Pendings
<1> QED BY <1>1, <1>3, <1>5, <1>6

\* What a reply leaves of the session state, by its branch.
LEMMA RepliedFacts ==
  ASSUME NEW q, NEW n \in Nat, NEW A, StateOK(q.st, n, A), NEW question \in BOOLEAN,
         q.branch \in Branches, q.branch = "followup" => q.st.pending = "summarize",
         q.branch = "direct" => q.st.pending # "confirm"
  PROVE  /\ StateOK(Replied(q, question), n, A)
         /\ \A g : Kept(q.st, g) => Kept(Replied(q, question), g)
<1>1. PICK f \in 0..n, b \in BOOLEAN, p \in Pendings, x \in Seq(A) :
        q.st = [focus |-> f, question |-> b, pending |-> p, refs |-> x]
  BY DEF StateOK
<1>2. p = "confirm" => x # <<>>
  BY <1>1 DEF StateOK
<1>3. CASE q.branch = "followup"
  <2>1. Replied(q, question) = [focus |-> f, question |-> FALSE, pending |-> None, refs |-> x]
    <3>1. PICK st : st = q.st
      OBVIOUS
    <3>a. st = [focus |-> f, question |-> b, pending |-> p, refs |-> x]
      BY <1>1, <3>1, Zenon
    <3>2. PICK w : w = [st EXCEPT !.pending = None, !.question = FALSE]
      OBVIOUS
    <3>3. w = [focus |-> f, question |-> FALSE, pending |-> None, refs |-> x]
      BY <3>a, <3>2
    <3>4. Replied(q, question) = w
      BY <1>3, <3>1, <3>2 DEF Replied
    <3> QED BY <3>3, <3>4
  <2>2. p = "summarize"
    BY <1>1, <1>3
  <2>3. StateOK(Replied(q, question), n, A)
    BY <2>1, NoneOther DEF StateOK, Pendings
  <2>4. \A g : Kept(q.st, g) => Kept(Replied(q, question), g)
    BY <1>1, <2>1, <2>2 DEF Kept
  <2> QED BY <2>3, <2>4
<1>4. CASE q.branch = "focused" \/ (q.branch = "direct" /\ ~question)
  <2>1. Replied(q, question) = q.st
    BY <1>4 DEF Replied
  <2> QED BY <2>1
<1>5. CASE q.branch = "direct" /\ question
  <2>1. Replied(q, question) = [focus |-> 0, question |-> TRUE, pending |-> None, refs |-> x]
    <3>1. PICK st : st = q.st
      OBVIOUS
    <3>a. st = [focus |-> f, question |-> b, pending |-> p, refs |-> x]
      BY <1>1, <3>1, Zenon
    <3>2. PICK w : w = [st EXCEPT !.question = TRUE, !.focus = 0, !.pending = None]
      OBVIOUS
    <3>3. w = [focus |-> 0, question |-> TRUE, pending |-> None, refs |-> x]
      BY <3>a, <3>2
    <3>4. Replied(q, question) = w
      BY <1>5, <3>1, <3>2 DEF Replied
    <3> QED BY <3>3, <3>4
  <2>2. p # "confirm"
    BY <1>1, <1>5
  <2>3. StateOK(Replied(q, question), n, A)
    BY <2>1, NoneOther DEF StateOK, Pendings
  <2>4. \A g : Kept(q.st, g) => Kept(Replied(q, question), g)
    BY <1>1, <2>1, <2>2 DEF Kept
  <2> QED BY <2>3, <2>4
<1> QED BY <1>3, <1>4, <1>5 DEF Branches

LEMMA FinalizedFacts ==
  ASSUME NEW st, NEW n \in Nat, NEW A, StateOK(st, n, A), NEW i \in 0..n, NEW question \in BOOLEAN
  PROVE  /\ StateOK(Finalized(st, i, question), n, A)
         /\ Finalized(st, i, question).refs = st.refs
<1>1. PICK f \in 0..n, b \in BOOLEAN, p \in Pendings, x \in Seq(A) :
        st = [focus |-> f, question |-> b, pending |-> p, refs |-> x]
  BY DEF StateOK
<1>2. PICK w : w = inferPendingAction(task[i].skill, question)
  OBVIOUS
<1>3. w \in Pendings /\ w # "confirm"
  BY <1>2, NoneOther DEF inferPendingAction, Pendings
<1>4. Finalized(st, i, question) = [focus |-> i, question |-> question, pending |-> w, refs |-> x]
  <2>1. PICK e : e = [st EXCEPT !.focus = i, !.question = question, !.pending = w]
    OBVIOUS
  <2>2. e = Finalized(st, i, question)
    BY <1>2, <2>1, Zenon DEF Finalized
  <2>3. e = [focus |-> i, question |-> question, pending |-> w, refs |-> x]
    BY <1>1, <2>1
  <2> QED BY <2>2, <2>3
<1> QED BY <1>1, <1>3, <1>4 DEF StateOK

LEMMA TaskStartFacts ==
  ASSUME NEW st, NEW n \in Nat, NEW A, NEW i \in 0..n
  PROVE  StateOK(updateStateForTaskStart(st, i), n, A) /\ updateStateForTaskStart(st, i).refs = <<>>
<1>1. PICK y : y = <<>>
  OBVIOUS
<1>2. updateStateForTaskStart(st, i) = [focus |-> i, question |-> FALSE, pending |-> None, refs |-> y]
  BY <1>1, Zenon DEF updateStateForTaskStart
<1>3. y \in Seq(A)
  BY <1>1
<1> QED BY <1>1, <1>2, <1>3, NoneOther DEF StateOK, Pendings

LEMMA SaveRepliedKeeps ==
  ASSUME IInv, NEW r \in DOMAIN req, SaveReplied(r)
  PROVE  IInv'
<1>1. r \in Open /\ req[r].pc = "save"
  BY DEF SaveReplied, Open
<1>2. ReqOK(req[r], Len(task), shown, ids) /\ Knows(req[r], shown, gone) /\ Len(task) \in Nat
  BY <1>1, OpenNow, Now
<1>3. PICK question \in BOOLEAN : SaveSessionState(Replied(req[r], question))
  BY DEF SaveReplied
<1>4. PICK st : st = Replied(req[r], question)
  OBVIOUS
<1>5. /\ req[r].branch \in Branches
      /\ req[r].branch = "followup" => req[r].st.pending = "summarize"
      /\ req[r].branch = "direct" => req[r].st.pending # "confirm"
  BY <1>1, <1>2 DEF Knows
<1>6. StateOK(st, Len(task), shown) /\ \A g : Kept(req[r].st, g) => Kept(st, g)
  BY <1>2, <1>4, <1>5, RepliedFacts DEF ReqOK
<1>7. InTurn(req[r], card, sess) => Kept(st, card)
  BY <1>1, <1>6 DEF InTurn
<1>8. /\ Step(r, Over("done")) /\ SaveSessionState(st)
      /\ UNCHANGED <<hist, arch, task, active, ids, ghosts>>
  BY <1>3, <1>4 DEF SaveReplied
<1> QED BY <1>1, <1>6, <1>7, <1>8, SaveLast

LEMMA SaveForgottenKeeps ==
  ASSUME IInv, NEW r \in DOMAIN req, SaveForgotten(r)
  PROVE  IInv'
<1>1. r \in Open /\ req[r].pc = "forget"
  BY DEF SaveForgotten, Open
<1>2. ReqOK(req[r], Len(task), shown, ids) /\ Len(task) \in Nat
  BY <1>1, OpenNow, Now
<1>3. PICK st : st = Forget(req[r].st)
  OBVIOUS
<1>4. StateOK(st, Len(task), shown) /\ st.refs = <<>>
  BY <1>2, <1>3, ForgetFacts DEF ReqOK
<1>5. Kept(st, card)
  BY <1>4 DEF Kept
<1>6. /\ Step(r, Over("done")) /\ SaveSessionState(st)
      /\ UNCHANGED <<hist, arch, task, active, ids, ghosts>>
  BY <1>3 DEF SaveForgotten
<1> QED BY <1>1, <1>4, <1>5, <1>6, SaveLast

LEMMA SaveOfferKeeps ==
  ASSUME IInv, NEW r \in DOMAIN req, SaveOffer(r)
  PROVE  IInv'
<1>1. r \in Open /\ req[r].pc = "offer"
  BY DEF SaveOffer, Open
<1>2. ReqOK(req[r], Len(task), shown, ids) /\ Knows(req[r], shown, gone) /\ Len(task) \in Nat
  BY <1>1, OpenNow, Now
<1>3. PICK st : st = Offer(req[r].st, req[r].text)
  OBVIOUS
<1>4. req[r].text \in shown /\ req[r].st.pending # "confirm" /\ StateOK(req[r].st, Len(task), shown)
  BY <1>1, <1>2 DEF Knows, ReqOK
<1>5. /\ StateOK(st, Len(task), shown) /\ st.pending = "confirm"
      /\ req[r].st.refs = <<>> => st.refs = <<req[r].text>>
  BY <1>2, <1>3, <1>4, OfferFacts
<1>6. InTurn(req[r], card, sess) => Kept(st, card)
  BY <1>1, <1>4, <1>5 DEF InTurn, Kept
<1>7. /\ Step(r, Over("done")) /\ SaveSessionState(st)
      /\ UNCHANGED <<hist, arch, task, active, ids, ghosts>>
  BY <1>3 DEF SaveOffer
<1> QED BY <1>1, <1>5, <1>6, <1>7, SaveLast

LEMMA SaveFinalizedKeeps ==
  ASSUME IInv, NEW r \in DOMAIN req, SaveFinalized(r)
  PROVE  IInv'
<1>1. r \in Open /\ req[r].pc = "finsave"
  BY DEF SaveFinalized, Open
<1>2. PICK st : st = req[r].st
  OBVIOUS
<1>3. StateOK(st, Len(task), shown)
  BY <1>1, <1>2, OpenNow DEF ReqOK
<1>4. InTurn(req[r], card, sess) => Kept(st, card)
  BY <1>1, <1>2 DEF InTurn, Kept
<1>5. /\ Step(r, Over("done")) /\ SaveSessionState(st)
      /\ UNCHANGED <<hist, arch, task, active, ids, ghosts>>
  BY <1>2 DEF SaveFinalized
<1> QED BY <1>1, <1>3, <1>4, <1>5, SaveLast

LEMMA SaveTaskStartKeeps ==
  ASSUME IInv, NEW r \in DOMAIN req, SaveTaskStart(r)
  PROVE  IInv'
<1>1. r \in Open /\ req[r].pc = "start"
  BY DEF SaveTaskStart, Open
<1>2. /\ ReqOK(req[r], Len(task), shown, ids) /\ Knows(req[r], shown, gone)
      /\ Len(task) \in Nat /\ r \in 1..Len(req) /\ req[r].pc \notin Ended
  BY <1>1, OpenNow, Now
<1>3. PICK st : st = updateStateForTaskStart(req[r].st, req[r].task)
  OBVIOUS
<1>4. StateOK(st, Len(task), shown) /\ st.refs = <<>>
  BY <1>2, <1>3, TaskStartFacts DEF ReqOK
<1>5. PICK q : q = With(req[r], Goto("active"))
  OBVIOUS
<1>6. /\ req' = [req EXCEPT ![r] = q] /\ SaveSessionState(st)
      /\ UNCHANGED <<hist, arch, task, active, ids, card, shown, gone, overlap, quiet>>
  BY <1>3, <1>5 DEF SaveTaskStart, Step, ghosts
<1>7. Moved(q, req[r], "active") /\ q.branch = req[r].branch /\ q.reply = req[r].reply
  BY <1>2, <1>5, GotoFacts DEF ReqOK
<1>8. /\ DOMAIN q = Fields /\ q.pc = "active" /\ Keeps(q, req[r]) /\ q.st = req[r].st
      /\ q.pc # "advance"
  BY <1>7 DEF Moved
<1>9. ReqOK(q, Len(task), shown, ids)
  BY <1>2, <1>7, <1>8 DEF ReqOK, Keeps, Steps, Upserting
<1>10. Knows(q, shown, gone)
  BY <1>1, <1>2, <1>7, <1>8 DEF Knows, Keeps, Branches, Upserting, Tasked, Started, Ended
<1>11. ~Final(q)
  BY <1>8 DEF Final
<1>12. ASSUME ~overlap PROVE Depth(q, faults', sess')
  <2>1. req[r].depth <= 1 + faults /\ req[r].depth \in Nat
    BY <1>2, <1>12 DEF IInv, Shallow, Depth, ReqOK
  <2>2. faults \in Nat /\ faults' \in Nat /\ faults <= faults'
    BY <1>6, Now DEF SaveSessionState, Fault
  <2> QED BY <1>8, <2>1, <2>2 DEF Depth, Keeps
<1>13. ASSUME ~overlap, faults = 0 PROVE Kept(st, card) /\ InTurn(q, card, st)
  <2>1. InTurn(req[r], card, sess)
    BY <1>2, <1>13 DEF IInv, Calm
  <2> QED BY <1>1, <1>4, <1>8, <2>1 DEF InTurn, Keeps, Kept
<1> QED BY <1>1, <1>4, <1>6, <1>7, <1>8, <1>9, <1>10, <1>11, <1>12, <1>13, SaveStep

\* Send calls itself for an answer, with text as its message.
LEMMA AgainKeeps ==
  ASSUME IInv, NEW r \in Open, req[r].pc = "answer", SaveSessionState(Forget(req[r].st)),
         NEW q, req' = [req EXCEPT ![r] = q], DOMAIN q = Fields, q.pc = "load",
         q.depth = req[r].depth + 1, q.text \in Text,
         q.async = req[r].async, q.st = req[r].st, q.calm = req[r].calm,
         q.reply = req[r].reply, q.task = req[r].task, q.answers = req[r].answers,
         q.source = "intent-confirmation" => q.text \in shown \/ q.tagged,
         InTurn(req[r], card, sess) /\ q.source = "intent-confirmation" =>
           q.text = q.answers \/ q.tagged,
         UNCHANGED <<hist, arch, task, active, ids, ghosts>>
  PROVE  IInv'
<1>1. /\ ReqOK(req[r], Len(task), shown, ids) /\ Knows(req[r], shown, gone)
      /\ Len(task) \in Nat /\ r \in 1..Len(req) /\ req[r].pc \notin Ended
      /\ faults \in Nat
  BY OpenNow, Now
<1>2. PICK st : st = Forget(req[r].st)
  OBVIOUS
<1>3. StateOK(st, Len(task), shown) /\ st.refs = <<>> /\ st.pending = None
  BY <1>1, <1>2, ForgetFacts DEF ReqOK
<1>4. /\ SaveSessionState(st)
      /\ UNCHANGED <<hist, arch, task, active, ids, card, shown, gone, overlap, quiet>>
  BY <1>2 DEF ghosts
<1>5. ReqOK(q, Len(task), shown, ids)
  BY <1>1 DEF ReqOK, Steps
<1>6. Knows(q, shown, gone)
  <2>1. ~req[r].calm
    BY <1>1 DEF Knows, Tasked, Started, Ended
  <2> QED BY <2>1 DEF Knows, Branches, Upserting, Tasked, Started, Ended
<1>7. ~Final(q) /\ q.pc # "advance"
  BY DEF Final
<1>8. ASSUME ~overlap PROVE Depth(q, faults', sess')
  <2>1. req[r].depth <= faults /\ req[r].depth \in Nat
    BY <1>1, <1>8 DEF IInv, Shallow, Depth, ReqOK
  <2>2. CASE sess' = st /\ faults' = faults
    <3>1. sess'.pending # "confirm"
      BY <1>3, <2>2, NoneOther
    <3> QED BY <1>1, <2>1, <2>2, <3>1 DEF Depth
  <2>3. CASE faults' = faults + 1
    BY <1>1, <2>1, <2>3 DEF Depth
  <2> QED BY <1>4, <2>2, <2>3 DEF SaveSessionState, Fault
<1>9. ASSUME ~overlap, faults = 0 PROVE Kept(st, card) /\ InTurn(q, card, st)
  <2>1. InTurn(req[r], card, sess)
    BY <1>1, <1>9 DEF IInv, Calm
  <2> QED BY <1>3, <2>1 DEF InTurn, Kept, Started
<1> QED BY <1>3, <1>4, <1>5, <1>6, <1>7, <1>8, <1>9, SaveStep

LEMMA AnswerYesKeeps ==
  ASSUME IInv, NEW r \in DOMAIN req, AnswerYes(r)
  PROVE  IInv'
<1>1. r \in Open /\ req[r].pc = "answer"
  BY DEF AnswerYes, Open
<1>2. ReqOK(req[r], Len(task), shown, ids) /\ Knows(req[r], shown, gone) /\ shown \subseteq Text
  BY <1>1, OpenNow, Now
<1>3. PICK t : t = parseConfirmation(req[r].st, req[r].text)
  OBVIOUS
<1>4. PICK x : x = req[r].st.refs
  OBVIOUS
<1>5. x \in Seq(shown) /\ x # <<>>
  BY <1>1, <1>2, <1>4 DEF ReqOK, StateOK, Knows
<1>6. t = Head(x)
  BY <1>3, <1>4, <1>5 DEF parseConfirmation
<1>7. t \in shown
  BY <1>5, <1>6
<1>8. InTurn(req[r], card, sess) => t = req[r].answers
  <2>1. SUFFICES ASSUME InTurn(req[r], card, sess) PROVE t = req[r].answers
    OBVIOUS
  <2>2. x = <<req[r].answers>>
    BY <1>4, <1>5, <2>1 DEF InTurn, Kept
  <2> QED BY <1>6, <2>2
<1>9. PICK q : q = With(req[r], [pc |-> "load", depth |-> req[r].depth + 1,
                                 source |-> "intent-confirmation", text |-> t])
  OBVIOUS
<1>10. /\ req' = [req EXCEPT ![r] = q] /\ SaveSessionState(Forget(req[r].st))
       /\ UNCHANGED <<hist, arch, task, active, ids, ghosts>>
  BY <1>3, <1>9 DEF AnswerYes, Step
<1>11. /\ DOMAIN q = Fields /\ q.pc = "load" /\ q.depth = req[r].depth + 1 /\ q.text = t
       /\ q.calm = req[r].calm /\ q.async = req[r].async /\ q.st = req[r].st
       /\ q.reply = req[r].reply /\ q.task = req[r].task /\ q.answers = req[r].answers
  BY <1>2, <1>9 DEF With, Fields, ReqOK
<1> QED BY <1>1, <1>2, <1>7, <1>8, <1>10, <1>11, AgainKeeps

LEMMA AnswerOtherKeeps ==
  ASSUME IInv, NEW r \in DOMAIN req, AnswerOther(r)
  PROVE  IInv'
<1>1. r \in Open /\ req[r].pc = "answer"
  BY DEF AnswerOther, Open
<1>2. ReqOK(req[r], Len(task), shown, ids) /\ Knows(req[r], shown, gone)
  BY <1>1, OpenNow
<1>3. PICK q : q = With(req[r], [pc |-> "load", depth |-> req[r].depth + 1])
  OBVIOUS
<1>4. /\ req' = [req EXCEPT ![r] = q] /\ SaveSessionState(Forget(req[r].st))
      /\ UNCHANGED <<hist, arch, task, active, ids, ghosts>>
  BY <1>3 DEF AnswerOther, Step
<1>5. /\ DOMAIN q = Fields /\ q.pc = "load" /\ q.depth = req[r].depth + 1 /\ q.text = req[r].text
      /\ q.calm = req[r].calm /\ q.async = req[r].async /\ q.st = req[r].st
      /\ q.reply = req[r].reply /\ q.task = req[r].task /\ q.answers = req[r].answers
      /\ q.source = req[r].source /\ q.tagged = req[r].tagged
  BY <1>2, <1>3 DEF With, Fields, ReqOK
<1>6. /\ q.text \in Text /\ (q.source = "intent-confirmation" => q.text \in shown \/ q.tagged)
      /\ InTurn(req[r], card, sess) /\ q.source = "intent-confirmation" =>
           q.text = q.answers \/ q.tagged
  BY <1>2, <1>5 DEF ReqOK, Knows, InTurn
<1> QED BY <1>1, <1>4, <1>5, <1>6, AgainKeeps

-----------------------------------------------------------------------------
(***************************************************************************)
(* Steps that write no file of the session                                 *)
(***************************************************************************)

\* Request r takes the session state into its copy.
LEMMA ReadStep ==
  ASSUME IInv, NEW r \in Open, NEW q, req' = [req EXCEPT ![r] = q],
         UNCHANGED <<hist, arch, sess, task, active, ids, inputs, faults, ghosts>>,
         ReqOK(q, Len(task), shown, ids), Knows(q, shown, gone), q.pc \notin Ended,
         q.pc # "advance",
         Final(q) => Final(req[r]), q.reply = req[r].reply,
         ~overlap => Depth(q, faults, sess),
         ~overlap /\ faults = 0 => InTurn(q, card, sess)
  PROVE  IInv'
<1>1. /\ ids' = ids /\ gone' = gone /\ overlap' = overlap /\ shown' = shown /\ card' = card
      /\ Len(task') = Len(task) /\ task' = task /\ quiet' = quiet /\ faults' = faults
      /\ inputs' = inputs /\ sess' = sess
  BY DEF ghosts
<1>2. ids \in Nat /\ faults \in Nat /\ Len(task) \in Nat /\ StateOK(sess, Len(task), shown)
  BY Now
<1>3. UNCHANGED <<hist, arch, ids, gone, quiet>>
  BY <1>1
<1>4. FilesOK' /\ Copies'
  BY <1>3, SameFiles
<1>5. CountsOK'
  BY <1>1 DEF IInv, CountsOK
<1>6. TasksOK' /\ GoalsKept
  <2>1. active' \in 0..Len(task) /\ task' = task /\ shown' = shown
    BY <1>1 DEF IInv, TasksOK
  <2> QED BY <2>1, TasksStay
<1>7. ~overlap /\ faults = 0 => Kept(sess, card)
  BY DEF IInv, Calm
<1>8. /\ shown \subseteq shown' /\ ids <= ids' /\ faults <= faults'
      /\ ReqOK(q, Len(task'), shown', ids') /\ Knows(q, shown', gone)
      /\ StateOK(sess', Len(task'), shown')
  BY <1>1, <1>2
<1>9. /\ ~overlap => Depth(q, faults', sess')
      /\ ~overlap /\ faults' = 0 =>
           Kept(sess', card') /\ (q.pc \notin Ended => InTurn(q, card', sess'))
  BY <1>1, <1>7
<1> QED BY <1>1, <1>4, <1>5, <1>6, <1>8, <1>9, RequestStep

LEMMA LoadKeeps ==
  ASSUME IInv, NEW r \in DOMAIN req, Load(r)
  PROVE  IInv'
<1>1. r \in Open /\ req[r].pc = "load"
  <2>1. req[r].pc = "load"
    BY Zenon DEF Load
  <2> QED BY <2>1 DEF Open
<1>2. /\ ReqOK(req[r], Len(task), shown, ids) /\ Knows(req[r], shown, gone)
      /\ r \in 1..Len(req) /\ req[r].pc \notin Ended
      /\ StateOK(sess, Len(task), shown)
  BY <1>1, OpenNow, Now
<1>3. PICK route : Step(r, [pc |-> "user", st |-> sess, route |-> route])
  BY Zenon DEF Load
<1>4. PICK q : q = With(req[r], [pc |-> "user", st |-> sess, route |-> route])
  OBVIOUS
<1>5. req' = [req EXCEPT ![r] = q]
  BY <1>3, <1>4 DEF Step
<1>6. DOMAIN q = Fields /\ q.pc = "user" /\ Keeps(q, req[r]) /\ q.st = sess /\ q.reply = req[r].reply
  BY <1>2, <1>4 DEF With, Fields, ReqOK, Keeps
<1>7. ReqOK(q, Len(task), shown, ids)
  BY <1>2, <1>6 DEF ReqOK, Keeps, Steps
<1>8. Knows(q, shown, gone) /\ q.pc \notin Ended /\ ~Final(q) /\ q.pc # "advance"
  BY <1>1, <1>2, <1>6 DEF Knows, Keeps, Branches, Upserting, Tasked, Started, Ended, Final
<1>9. ~overlap => Depth(q, faults, sess)
  BY <1>1, <1>2, <1>6 DEF IInv, Shallow, Depth, Keeps
<1>10. ASSUME ~overlap, faults = 0 PROVE InTurn(q, card, sess)
  <2>1. InTurn(req[r], card, sess) /\ Kept(sess, card)
    BY <1>2, <1>10 DEF IInv, Calm
  <2> QED BY <1>1, <1>6, <2>1 DEF InTurn, Keeps, Started
<1>11. UNCHANGED <<hist, arch, sess, task, active, ids, inputs, faults, ghosts>>
  BY Zenon DEF Load
<1> QED BY <1>1, <1>5, <1>6, <1>7, <1>8, <1>9, <1>10, <1>11, ReadStep

LEMMA FinalizeKeeps ==
  ASSUME IInv, NEW r \in DOMAIN req, Finalize(r)
  PROVE  IInv'
<1>1. r \in Open /\ req[r].pc = "finalize"
  BY DEF Finalize, Open
<1>2. /\ ReqOK(req[r], Len(task), shown, ids) /\ Knows(req[r], shown, gone)
      /\ r \in 1..Len(req) /\ req[r].pc \notin Ended
      /\ StateOK(sess, Len(task), shown) /\ Len(task) \in Nat
  BY <1>1, OpenNow, Now
<1>3. PICK question, st :
        question \in BOOLEAN /\ st = Finalized(sess, req[r].task, question) /\ Step(r, [pc |-> "finsave", st |-> st])
  BY DEF Finalize
<1>4. StateOK(st, Len(task), shown) /\ st.refs = sess.refs
  BY <1>2, <1>3, FinalizedFacts DEF ReqOK
<1>5. PICK q : q = With(req[r], [pc |-> "finsave", st |-> st])
  OBVIOUS
<1>6. req' = [req EXCEPT ![r] = q]
  BY <1>3, <1>5 DEF Step
<1>7. DOMAIN q = Fields /\ q.pc = "finsave" /\ Keeps(q, req[r]) /\ q.st = st /\ q.reply = req[r].reply
  BY <1>2, <1>5 DEF With, Fields, ReqOK, Keeps
<1>8. ReqOK(q, Len(task), shown, ids)
  BY <1>2, <1>4, <1>7 DEF ReqOK, Keeps, Steps, Tasked, Started
<1>9. Knows(q, shown, gone) /\ q.pc \notin Ended /\ (Final(q) => Final(req[r])) /\ q.pc # "advance"
  BY <1>1, <1>2, <1>7 DEF Knows, Keeps, Branches, Upserting, Tasked, Started, Ended, Final
<1>10. ~overlap => Depth(q, faults, sess)
  BY <1>1, <1>2, <1>7 DEF IInv, Shallow, Depth, Keeps
<1>11. ASSUME ~overlap, faults = 0 PROVE InTurn(q, card, sess)
  <2>1. InTurn(req[r], card, sess)
    BY <1>2, <1>11 DEF IInv, Calm
  <2>2. sess.refs = <<>>
    BY <1>1, <2>1 DEF InTurn, Started
  <2> QED BY <1>1, <1>4, <1>7, <2>1, <2>2 DEF InTurn, Keeps, Kept
<1>12. UNCHANGED <<hist, arch, sess, task, active, ids, inputs, faults, ghosts>>
  BY DEF Finalize
<1> QED BY <1>1, <1>6, <1>7, <1>8, <1>9, <1>10, <1>11, <1>12, ReadStep

\* Request r goes on as q while the tasks change.
LEMMA TaskStep ==
  ASSUME IInv, NEW r \in Open, NEW q, req' = [req EXCEPT ![r] = q],
         UNCHANGED <<hist, arch, sess, ids, inputs, faults, ghosts>>,
         TasksOK', GoalsKept, q.pc \in {"advance", "queue", "summary", "close"},
         req[r].pc \in {"submit", "advance", "run"}, q.pc \in Started => req[r].pc \in Started,
         DOMAIN q = Fields, q.text = req[r].text, q.async = req[r].async,
         q.source = req[r].source, q.depth = req[r].depth, q.answers = req[r].answers,
         q.tagged = req[r].tagged, q.st = req[r].st, q.reply = req[r].reply,
         q.task \in 1..Len(task'), q.pc \in {"summary", "close"} => req[r].pc = "run",
         q.pc = "advance" => task'[q.task].goal = q.text /\ ~q.calm,
         q.calm /\ q.source = "intent-confirmation" /\ ~q.tagged => q.goal = q.answers
  PROVE  IInv'
<1>1. /\ ids' = ids /\ gone' = gone /\ overlap' = overlap /\ shown' = shown /\ card' = card
      /\ quiet' = quiet /\ faults' = faults /\ inputs' = inputs /\ sess' = sess
  BY DEF ghosts
<1>2. /\ ReqOK(req[r], Len(task), shown, ids) /\ Knows(req[r], shown, gone)
      /\ r \in 1..Len(req) /\ req[r].pc \notin Ended /\ Len(task) \in Nat
      /\ StateOK(sess, Len(task), shown) /\ ids \in Nat /\ faults \in Nat
  BY OpenNow, Now
<1>3. Len(task') \in Nat /\ Len(task) <= Len(task')
  <2>1. \E Y : task' \in Seq(Y)
    BY DEF TasksOK, TaskSeq
  <2> QED BY <2>1 DEF GoalsKept
<1>4. UNCHANGED <<hist, arch, ids, gone, quiet>> /\ ~Final(q)
  BY <1>1 DEF Final
<1>5. FilesOK' /\ Copies'
  BY <1>4, SameFiles
<1>6. CountsOK'
  BY <1>1 DEF IInv, CountsOK
<1>7. StateOK(sess', Len(task'), shown')
  BY <1>1, <1>2, <1>3, StateGrows
<1>8. ReqOK(q, Len(task'), shown', ids')
  <2>1. StateOK(q.st, Len(task'), shown)
    BY <1>2, <1>3, StateGrows DEF ReqOK
  <2>2. q.pc \in Steps
    BY DEF Steps, Tasked, Started
  <2> QED BY <1>1, <1>2, <1>3, <2>1, <2>2 DEF ReqOK
<1>9. Knows(q, shown', gone)
  <2>1. q.task # 0
    BY <1>3
  <2>2. q.source = "intent-confirmation" => q.text \in shown \/ q.tagged
    BY <1>2 DEF Knows
  <2>3. q.pc \in {"summary", "close"} => q.reply # 0 /\ q.reply \notin gone
    BY <1>2 DEF Knows, Upserting
  <2> QED BY <1>1, <2>1, <2>2, <2>3 DEF Knows, Branches, Upserting, Tasked, Started, Ended
<1>10. ASSUME ~overlap PROVE Depth(q, faults', sess')
  BY <1>1, <1>2, <1>10 DEF IInv, Shallow, Depth
<1>11. ASSUME ~overlap, faults' = 0
       PROVE  Kept(sess', card') /\ (q.pc \notin Ended => InTurn(q, card', sess'))
  <2>1. Kept(sess, card) /\ InTurn(req[r], card, sess)
    BY <1>1, <1>2, <1>11 DEF IInv, Calm
  <2>2. q.pc \notin {"user", "card", "offer", "finsave"}
    OBVIOUS
  <2> QED BY <1>1, <2>1, <2>2 DEF InTurn
<1>12. /\ shown \subseteq shown' /\ ids <= ids' /\ faults <= faults'
       /\ q.pc = "advance" => q.task \in 1..Len(task') /\ task'[q.task].goal = q.text
  BY <1>1, <1>2
<1> QED BY <1>1, <1>5, <1>6, <1>7, <1>8, <1>9, <1>10, <1>11, <1>12, RequestStep

\* Tasks u are ts with t at the end, or at place i, or with the goals of ts.
Adds(u, ts, t, G) ==
  /\ TaskSeq(u, G) /\ Len(ts) \in Nat /\ Len(u) = Len(ts) + 1 /\ u[Len(ts) + 1] = t
  /\ \A j \in 1..Len(ts) : u[j] = ts[j]
Replaces(u, ts, i, t, G) ==
  /\ TaskSeq(u, G) /\ Len(u) = Len(ts) /\ u[i] = t
  /\ \A j \in 1..Len(ts) : j # i => u[j] = ts[j]
Moves(u, ts, G) ==
  /\ TaskSeq(u, G) /\ Len(u) = Len(ts)
  /\ \A j \in 1..Len(ts) : u[j].goal = ts[j].goal

\* A task is added.
LEMMA SeqAdds ==
  ASSUME NEW ts, NEW G, TaskSeq(ts, G), NEW t, DOMAIN t = TaskFields, Green(t, G),
         NEW u, u = Append(ts, t)
  PROVE  Adds(u, ts, t, G)
<1>1. PICK X : ts \in Seq(X)
  BY DEF TaskSeq
<1>2. \E Y : u \in Seq(Y)
  BY <1>1, Added, Zenon
<1>3. /\ Len(ts) \in Nat /\ Len(u) = Len(ts) + 1 /\ u[Len(ts) + 1] = t
      /\ \A j \in 1..Len(ts) : u[j] = ts[j]
  BY <1>1, Added
<1>4. \A i \in 1..Len(u) : DOMAIN u[i] = TaskFields /\ Green(u[i], G)
  <2>1. ASSUME NEW i \in 1..Len(ts) PROVE DOMAIN u[i] = TaskFields /\ Green(u[i], G)
    BY <1>3 DEF TaskSeq
  <2> QED BY <1>3, <2>1
<1> QED BY <1>2, <1>3, <1>4 DEF TaskSeq, Adds

LEMMA SeqReplaces ==
  ASSUME NEW ts, NEW G, TaskSeq(ts, G), NEW i \in 1..Len(ts), NEW t, DOMAIN t = TaskFields, Green(t, G),
         NEW u, u = [ts EXCEPT ![i] = t]
  PROVE  Replaces(u, ts, i, t, G)
<1>1. PICK X : ts \in Seq(X)
  BY DEF TaskSeq
<1>2. \E Y : u \in Seq(Y)
  BY <1>1, Replaced, Zenon
<1>3. Len(u) = Len(ts) /\ u[i] = t /\ \A j \in 1..Len(ts) : j # i => u[j] = ts[j]
  BY <1>1, Replaced
<1>4. \A j \in 1..Len(u) : DOMAIN u[j] = TaskFields /\ Green(u[j], G)
  <2>1. ASSUME NEW j \in 1..Len(ts), j # i
        PROVE  DOMAIN u[j] = TaskFields /\ Green(u[j], G)
    BY <1>3, <2>1 DEF TaskSeq
  <2> QED BY <1>3, <2>1
<1> QED BY <1>2, <1>3, <1>4 DEF TaskSeq, Replaces

\* A task changes its state.
LEMMA SeqMoves ==
  ASSUME NEW ts, NEW G, TaskSeq(ts, G), NEW i \in 1..Len(ts), NEW out,
         NEW u, u = [ts EXCEPT ![i].state = out]
  PROVE  Moves(u, ts, G)
<1>1. PICK p : p = ts[i]
  OBVIOUS
<1>2. PICK t : t = [p EXCEPT !.state = out]
  OBVIOUS
<1>3. DOMAIN p = TaskFields /\ Green(p, G)
  BY <1>1 DEF TaskSeq
<1>4. /\ DOMAIN t = TaskFields /\ t.goal = p.goal /\ t.act = p.act /\ t.profile = p.profile
      /\ t.by = p.by /\ t.tagged = p.tagged
  BY <1>2, <1>3 DEF TaskFields
<1>5. DOMAIN t = TaskFields /\ Green(t, G)
  BY <1>3, <1>4 DEF Green
<1>6. u = [ts EXCEPT ![i] = t]
  BY <1>1, <1>2
<1>7. Replaces(u, ts, i, t, G)
  BY <1>5, <1>6, SeqReplaces
<1> QED BY <1>1, <1>4, <1>7 DEF Replaces, Moves

\* Advance changes the state of the task it hands back at most.
LEMMA AdvanceMoves ==
  ASSUME NEW ts, NEW G, TaskSeq(ts, G), active \in 0..Len(ts), NEW i \in 1..Len(ts), Advance(ts, i)
  PROVE  /\ TaskSeq(task', G) /\ Len(task') = Len(ts) /\ active' \in 0..Len(ts)
         /\ \A j \in 1..Len(ts) : task'[j].goal = ts[j].goal
<1>1. Len(ts) \in Nat
  BY DEF TaskSeq
<1>2. PICK u : u = task'
  OBVIOUS
<1>3. CASE Activates(ts, i)
  <2>1. u = [ts EXCEPT ![i].state = "active"] /\ active' = i
    BY <1>2, <1>3, Zenon DEF Advance
  <2>2. Moves(u, ts, G)
    BY <2>1, SeqMoves
  <2> QED BY <1>1, <1>2, <2>1, <2>2 DEF Moves
<1>4. CASE ~Activates(ts, i)
  <2>1. task' = ts /\ active' = (IF ActiveTask(ts) THEN active ELSE 0)
    BY <1>4, Zenon DEF Advance
  <2>2. active' \in 0..Len(ts)
    BY <1>1, <2>1
  <2> QED BY <1>1, <2>1, <2>2
<1> QED BY <1>3, <1>4

\* Steps that change the state of one task, or of none.
LEMMA TaskMoves ==
  ASSUME IInv, shown' = shown, active' \in 0..Len(task),
         \/ task' = task
         \/ \E i \in 1..Len(task) : \E out : task' = [task EXCEPT ![i].state = out]
  PROVE  TasksOK' /\ Len(task') = Len(task) /\ GoalsKept
<1>1. CASE task' = task
  BY <1>1, TasksStay
<1>2. ASSUME NEW i \in 1..Len(task), NEW out, task' = [task EXCEPT ![i].state = out]
      PROVE  TasksOK' /\ Len(task') = Len(task) /\ GoalsKept
  <2>1. TaskSeq(task, shown) /\ Len(task) \in Nat
    BY Now DEF IInv, TasksOK
  <2>2. PICK u : u = task'
    OBVIOUS
  <2>3. Moves(u, task, shown)
    <3>1. u = [task EXCEPT ![i].state = out]
      BY <1>2, <2>2, Zenon
    <3> QED BY <2>1, <3>1, SeqMoves
  <2> QED BY <2>1, <2>2, <2>3 DEF Moves, TasksOK, GoalsKept
<1> QED BY <1>1, <1>2

LEMMA HalfwayMoves ==
  ASSUME IInv, Halfway
  PROVE  \/ task' = task
         \/ \E i \in 1..Len(task) : \E out : task' = [task EXCEPT ![i].state = out]
BY Now, Zenon DEF Halfway

LEMMA StopsMoves ==
  ASSUME IInv, NEW i \in 1..Len(task), NEW out, Stops(i, out), shown' = shown
  PROVE  TasksOK' /\ Len(task') = Len(task) /\ GoalsKept
<1>1. \E j \in 1..Len(task) : \E o : task' = [task EXCEPT ![j].state = o]
  BY Zenon DEF Stops
<1>2. active' \in 0..Len(task)
  BY Now DEF Stops, IInv, TasksOK
<1> QED BY <1>1, <1>2, TaskMoves

LEMMA CreateTaskKeeps ==
  ASSUME IInv, NEW r \in DOMAIN req, CreateTask(r)
  PROVE  IInv'
<1>1. r \in Open /\ req[r].pc = "submit"
  BY DEF CreateTask, Open
<1>2. /\ ReqOK(req[r], Len(task), shown, ids) /\ Knows(req[r], shown, gone)
      /\ r \in 1..Len(req) /\ req[r].pc \notin Ended
  BY <1>1, OpenNow
<1>3. PICK skill, t : /\ t = [goal |-> req[r].text, skill |-> skill, act |-> req[r].route.act,
                              profile |-> req[r].profile, tagged |-> req[r].tagged,
                              by |-> "chat", state |-> "inbox"]
                      /\ task' = Append(task, t)
  BY Zenon DEF CreateTask
<1>4. UNCHANGED <<hist, arch, sess, ids, inputs, faults, ghosts>> /\ active' = active
  BY DEF CreateTask
<1>5. PICK u : u = task'
  OBVIOUS
<1>6. shown' = shown
  BY <1>4 DEF ghosts
<1>7. TaskSeq(task, shown) /\ active \in 0..Len(task)
  BY DEF IInv, TasksOK
<1>8. DOMAIN t = TaskFields /\ t.goal = req[r].text /\ Green(t, shown)
  <2>1. /\ DOMAIN t = TaskFields /\ t.goal = req[r].text /\ t.act = req[r].route.act
        /\ t.profile = req[r].profile /\ t.tagged = req[r].tagged
    BY <1>3 DEF TaskFields
  <2>2. Green(t, shown)
    BY <1>1, <1>2, <2>1 DEF Green, Knows
  <2> QED BY <2>1, <2>2
<1>9. /\ TaskSeq(u, shown) /\ Len(task) \in Nat /\ Len(u) = Len(task) + 1 /\ u[Len(task) + 1] = t
      /\ \A j \in 1..Len(task) : u[j] = task[j]
  <2>1. u = Append(task, t) /\ TaskSeq(task, shown) /\ DOMAIN t = TaskFields /\ Green(t, shown)
    BY <1>3, <1>5, <1>7, <1>8, Zenon
  <2>2. Adds(u, task, t, shown)
    BY <2>1, SeqAdds
  <2> QED BY <2>2 DEF Adds
<1>10. TasksOK' /\ GoalsKept
  BY <1>4, <1>5, <1>6, <1>7, <1>9 DEF TasksOK, GoalsKept
<1>11. PICK q : q = With(req[r], [pc |-> "advance", task |-> Len(task) + 1])
  OBVIOUS
<1>12. req' = [req EXCEPT ![r] = q]
  BY <1>11 DEF CreateTask, Step
<1>13. /\ DOMAIN q = Fields /\ q.text = req[r].text /\ q.async = req[r].async
       /\ q.source = req[r].source /\ q.depth = req[r].depth /\ q.answers = req[r].answers
       /\ q.tagged = req[r].tagged /\ q.calm = req[r].calm
       /\ q.st = req[r].st /\ q.reply = req[r].reply /\ q.pc = "advance" /\ q.task = Len(task) + 1
  BY <1>2, <1>11 DEF With, Fields, ReqOK
<1>14. q.task \in 1..Len(task') /\ task'[q.task].goal = q.text
  BY <1>5, <1>8, <1>9, <1>13
<1>15. ~q.calm /\ q.pc \notin Started
  BY <1>1, <1>2, <1>13 DEF Knows, Tasked, Started, Ended
<1> QED BY <1>1, <1>4, <1>10, <1>12, <1>13, <1>14, <1>15, TaskStep

\* Undisturbed, a request is handed the task it created, and answers the card.
LEMMA AdvanceTaskKeeps ==
  ASSUME IInv, NEW r \in DOMAIN req, AdvanceTask(r)
  PROVE  IInv'
<1>1. r \in Open /\ req[r].pc = "advance"
  BY DEF AdvanceTask, Open
<1>2. /\ ReqOK(req[r], Len(task), shown, ids) /\ Knows(req[r], shown, gone)
      /\ r \in 1..Len(req) /\ req[r].pc \notin Ended /\ Len(task) \in Nat
      /\ DOMAIN task = 1..Len(task)
  BY <1>1, OpenNow, Now
<1>3. PICK i \in 1..Len(task) :
        /\ Advance(task, i)
        /\ Step(r, [pc |-> "queue", task |-> i, goal |-> task[i].goal, seen |-> task'[i].state,
                    calm |-> Undisturbed(req[r].task)])
  BY <1>2, Zenon DEF AdvanceTask
<1>4. UNCHANGED <<hist, arch, sess, ids, inputs, faults, ghosts>> /\ shown' = shown
  BY DEF AdvanceTask, ghosts
<1>5. TaskSeq(task, shown) /\ active \in 0..Len(task)
  BY DEF IInv, TasksOK
<1>6. /\ TaskSeq(task', shown) /\ Len(task') = Len(task) /\ active' \in 0..Len(task)
      /\ \A j \in 1..Len(task) : task'[j].goal = task[j].goal
  BY <1>3, <1>5, AdvanceMoves
<1>7. TasksOK' /\ GoalsKept
  BY <1>2, <1>4, <1>6 DEF TasksOK, GoalsKept
<1>8. PICK own, c, g, s : own = req[r].task /\ c = Undisturbed(own) /\ g = task[i].goal /\ s = task'[i].state
  OBVIOUS
<1>9. PICK q : q = With(req[r], [pc |-> "queue", task |-> i, goal |-> g, seen |-> s, calm |-> c])
  OBVIOUS
<1>10. req' = [req EXCEPT ![r] = q]
  BY <1>3, <1>8, <1>9, Zenon DEF Step
<1>11. /\ DOMAIN q = Fields /\ q.text = req[r].text /\ q.async = req[r].async
       /\ q.source = req[r].source /\ q.depth = req[r].depth /\ q.answers = req[r].answers
       /\ q.tagged = req[r].tagged /\ q.calm = c /\ q.goal = g
       /\ q.st = req[r].st /\ q.reply = req[r].reply /\ q.pc = "queue" /\ q.task = i
  BY <1>2, <1>9 DEF With, Fields, ReqOK
<1>12. ASSUME c, q.source = "intent-confirmation", ~q.tagged PROVE q.goal = q.answers
  <2>1. /\ ~overlap /\ faults = 0 /\ ~ActiveTask(task) /\ own = Len(task)
        /\ task[own].state = "inbox"
    BY <1>8, <1>12 DEF Undisturbed
  <2>2. own \in 1..Len(task) /\ task[own].goal = req[r].text
    BY <1>1, <1>2, <1>8 DEF IInv, Owned
  <2>3. own \in Waiting(task)
    BY <1>2, <2>1, <2>2 DEF Waiting
  <2>4. own =< i
    BY <1>3, <2>1, <2>3 DEF Advance, Hands
  <2>5. i = own
    BY <1>2, <2>1, <2>2, <2>4
  <2>6. req[r].text = req[r].answers
    <3>1. InTurn(req[r], card, sess)
      BY <1>2, <2>1 DEF IInv, Calm
    <3> QED BY <1>11, <1>12, <3>1 DEF InTurn
  <2> QED BY <1>8, <1>11, <2>2, <2>5, <2>6
<1>13. q.task \in 1..Len(task') /\ q.pc \notin Started
  BY <1>6, <1>11 DEF Started
<1> QED BY <1>1, <1>4, <1>7, <1>10, <1>11, <1>12, <1>13, TaskStep

\* The request says that no task could be created.
LEMMA RefusedStep ==
  ASSUME IInv, NEW r \in Open, req[r].pc \in {"submit", "advance"}, Step(r, OverWith(ids + 1)),
         ids' = ids + 1, NEW ok \in BOOLEAN,
         (ok /\ hist' = File(Put(hist.msgs, ids + 1, None))) \/ (~ok /\ hist' \in Broken(hist)),
         UNCHANGED <<inputs, faults>> \/ Fault, quiet' \in BOOLEAN, quiet' => quiet /\ ok,
         TasksOK', GoalsKept, Len(task') = Len(task),
         UNCHANGED <<arch, sess, card, shown, gone, overlap>>
  PROVE  IInv'
<1>1. PICK q : q = With(req[r], OverWith(ids + 1))
  OBVIOUS
<1>2. req' = [req EXCEPT ![r] = q]
  BY <1>1 DEF Step
<1>3. Left(q, req[r], "done") /\ q.reply = ids + 1
  BY <1>1, OpenNow, OverWithFacts DEF ReqOK
<1>4. DOMAIN q = Fields /\ Keeps(q, req[r]) /\ q.st = Blank /\ q.pc = "done" /\ q.pc \in Ended
  BY <1>3 DEF Left, Ended
<1>5. Knows(q, shown, gone)
  BY <1>4, OpenNow, Idle
<1>6. q.pc \in Steps \ {"load", "user", "offer", "finsave", "advance"} /\ q.pc \notin Started
  BY <1>4 DEF Steps, Started, Ended
<1>7. None \in Settled
  BY Zenon DEF Settled
<1>8. UNCHANGED <<arch, gone>>
  OBVIOUS
<1>9. FilesOK' /\ Copies'
  BY <1>2, <1>3, <1>7, <1>8, Written
<1>10. UNCHANGED <<sess, card, shown, gone, overlap>> /\ req[r].pc # "offer" /\ q.pc \notin {"card", "answer"}
  BY <1>4
<1> QED BY <1>2, <1>3, <1>4, <1>5, <1>6, <1>9, <1>10, TalkStep

LEMMA AdvanceFindsNoneKeeps ==
  ASSUME IInv, NEW r \in DOMAIN req, AdvanceFindsNone(r)
  PROVE  IInv'
<1>1. r \in Open /\ req[r].pc \in {"submit", "advance"}
  BY DEF AdvanceFindsNone, Open
<1>2. PICK ok \in BOOLEAN : Refuse(r, ok)
  BY DEF AdvanceFindsNone
<1>3. /\ ids' = ids + 1 /\ Rewrite(Put(hist.msgs, ids + 1, None), ok) /\ Step(r, OverWith(ids + 1))
      /\ quiet' = (quiet /\ ok) /\ UNCHANGED <<arch, sess, card, shown, gone, overlap>>
  BY <1>2, Zenon DEF Refuse, StoreAppend
<1>4. (ok /\ hist' = File(Put(hist.msgs, ids + 1, None))) \/ (~ok /\ hist' \in Broken(hist))
  BY <1>3 DEF Rewrite, Broken
<1>5. UNCHANGED <<inputs, faults>> \/ Fault
  BY <1>3 DEF Rewrite
<1>6. quiet' \in BOOLEAN /\ (quiet' => quiet /\ ok)
  BY <1>3, Now, Zenon
<1>7. TasksOK' /\ GoalsKept /\ Len(task') = Len(task)
  <2>1. task' = task /\ active' = 0
    BY DEF AdvanceFindsNone
  <2>2. active' \in 0..Len(task) /\ shown' = shown
    BY <1>3, <2>1, Now
  <2> QED BY <2>1, <2>2, TasksStay
<1> QED BY <1>1, <1>3, <1>4, <1>5, <1>6, <1>7, RefusedStep

LEMMA SubmitFailsKeeps ==
  ASSUME IInv, NEW r \in DOMAIN req, SubmitFails(r)
  PROVE  IInv'
<1>1. r \in Open /\ req[r].pc \in {"submit", "advance"}
  BY DEF SubmitFails, Open
<1>2. PICK ok \in BOOLEAN :
        (ok /\ hist' = File(Put(hist.msgs, ids + 1, None))) \/ (~ok /\ hist' \in Broken(hist))
  <2>1. CASE hist.torn
    BY <2>1 DEF SubmitFails, Broken
  <2>2. CASE ~hist.torn
    BY <2>2 DEF SubmitFails
  <2> QED BY <2>1, <2>2
<1>3. /\ ids' = ids + 1 /\ Fault /\ Step(r, OverWith(ids + 1)) /\ quiet' = FALSE
      /\ UNCHANGED <<arch, sess, card, shown, gone, overlap>> /\ active' = active
  BY DEF SubmitFails
<1>4. quiet' \in BOOLEAN /\ (quiet' => quiet /\ ok)
  BY <1>3, Zenon
<1>5. TasksOK' /\ GoalsKept /\ Len(task') = Len(task)
  <2>1. \/ task' = task
        \/ \E i \in 1..Len(task) : \E out : task' = [task EXCEPT ![i].state = out]
    <3>1. Halfway \/ task' = task
      BY DEF SubmitFails
    <3> QED BY <3>1, HalfwayMoves
  <2>2. active' \in 0..Len(task) /\ shown' = shown
    BY <1>3 DEF IInv, TasksOK
  <2> QED BY <2>1, <2>2, TaskMoves
<1> QED BY <1>1, <1>2, <1>3, <1>4, <1>5, RefusedStep

LEMMA RunTaskKeeps ==
  ASSUME IInv, NEW r \in DOMAIN req, RunTask(r)
  PROVE  IInv'
<1>1. r \in Open /\ req[r].pc = "run"
  BY DEF RunTask, Open
<1>2. ReqOK(req[r], Len(task), shown, ids) /\ Knows(req[r], shown, gone) /\ Len(task) \in Nat
  BY <1>1, OpenNow, Now
<1>a. PICK ok \in BOOLEAN, moved \in BOOLEAN :
        /\ IF moved THEN \E out \in Ends(req[r].task) : Stops(req[r].task, out)
           ELSE UNCHANGED <<task, active>>
        /\ Step(r, [pc |-> IF ok \/ ~req[r].async THEN "summary" ELSE "close",
                    failed |-> ~ok /\ req[r].async, seen |-> task'[req[r].task].state])
  BY Zenon DEF RunTask
<1>b. PICK c, f, s : /\ c = IF ok \/ ~req[r].async THEN "summary" ELSE "close"
                     /\ f = (~ok /\ req[r].async) /\ s = task'[req[r].task].state
  OBVIOUS
<1>3. c \in {"summary", "close"} /\ Step(r, [pc |-> c, failed |-> f, seen |-> s])
  <2>1. c \in {"summary", "close"}
    BY <1>b
  <2>2. Step(r, [pc |-> c, failed |-> f, seen |-> s])
    BY <1>a, <1>b
  <2> QED BY <2>1, <2>2
<1>4. UNCHANGED <<hist, arch, sess, ids, inputs, faults, ghosts>> /\ shown' = shown
  BY DEF RunTask, ghosts
<1>5. req[r].task \in 1..Len(task)
  BY <1>1, <1>2 DEF ReqOK, Knows, Tasked, Started
<1>6. TasksOK' /\ Len(task') = Len(task) /\ GoalsKept
  <2>1. CASE moved
    BY <1>a, <1>4, <1>5, <2>1, StopsMoves
  <2>2. CASE ~moved
    <3>1. task' = task /\ active' \in 0..Len(task)
      BY <1>a, <2>2 DEF IInv, TasksOK
    <3> QED BY <1>4, <3>1, TasksStay
  <2> QED BY <2>1, <2>2
<1>7. PICK q : q = With(req[r], [pc |-> c, failed |-> f, seen |-> s])
  OBVIOUS
<1>8. req' = [req EXCEPT ![r] = q]
  BY <1>3, <1>7 DEF Step
<1>9. /\ DOMAIN q = Fields /\ q.text = req[r].text /\ q.async = req[r].async
      /\ q.source = req[r].source /\ q.depth = req[r].depth /\ q.answers = req[r].answers
      /\ q.tagged = req[r].tagged /\ q.calm = req[r].calm /\ q.goal = req[r].goal
      /\ q.st = req[r].st /\ q.reply = req[r].reply /\ q.pc = c /\ q.task = req[r].task
  BY <1>2, <1>7 DEF With, Fields, ReqOK
<1>10. /\ q.task \in 1..Len(task')
       /\ q.calm /\ q.source = "intent-confirmation" /\ ~q.tagged => q.goal = q.answers
  BY <1>2, <1>5, <1>6, <1>9 DEF Knows
<1>11. req[r].pc \in Started
  BY <1>1 DEF Started
<1> QED BY <1>1, <1>3, <1>4, <1>6, <1>8, <1>9, <1>10, <1>11, TaskStep

-----------------------------------------------------------------------------
(***************************************************************************)
(* New requests, buttons and crashes                                       *)
(***************************************************************************)

LEMMA BeginKeeps ==
  ASSUME IInv, NEW k \in Kinds, Begin(k)
  PROVE  IInv'
<1>a. PICK tg : tg = (k.source = "intent-confirmation")
  OBVIOUS
<1>1. PICK q : q = [pc |-> "load", text |-> k.text, profile |-> k.profile,
                    async |-> k.async, source |-> k.source, depth |-> 0,
                    st |-> Blank, route |-> NoAnswer, branch |-> None, reply |-> 0,
                    task |-> 0, n |-> 0, failed |-> FALSE, answers |-> card,
                    tagged |-> tg, goal |-> None, seen |-> None, calm |-> FALSE]
  OBVIOUS
<1>2. /\ DOMAIN q = Fields /\ q.pc = "load" /\ q.text = k.text /\ q.async = k.async
      /\ q.source = k.source /\ q.depth = 0 /\ q.st = Blank /\ q.reply = 0 /\ q.task = 0
      /\ q.answers = card /\ q.tagged = tg /\ q.calm = FALSE
  BY <1>1 DEF Fields
<1>b. q.source = "intent-confirmation" => q.tagged
  BY <1>a, <1>2
<1>3. /\ req' = Append(req, q) /\ overlap' = (overlap \/ Open # {})
      /\ UNCHANGED <<hist, arch, sess, task, active, ids, faults, card, shown, gone, quiet>>
  BY <1>a, <1>1, Zenon DEF Begin
<1>4. /\ ids' = ids /\ sess' = sess /\ task' = task /\ active' = active /\ faults' = faults /\ card' = card
      /\ shown' = shown /\ gone' = gone /\ quiet' = quiet /\ hist' = hist /\ arch' = arch
  BY <1>3
<1>5. inputs' \in 0..MaxInputs
  BY ChatAssumption DEF Begin, Input, IInv, CountsOK
<1>6. /\ ids \in Nat /\ faults \in Nat /\ Len(task) \in Nat /\ Len(req) \in Nat
      /\ DOMAIN req = 1..Len(req) /\ overlap \in BOOLEAN
  BY Now
<1>7. PICK X : req \in Seq(X)
  BY DEF IInv, ReqsOK
<1>8. PICK u : u = req'
  OBVIOUS
<1>9. u = Append(req, q)
  BY <1>3, <1>8
<1>10. \E Y : u \in Seq(Y)
  BY <1>7, <1>9, Added, Zenon
<1>11. Len(u) = Len(req) + 1 /\ u[Len(req) + 1] = q /\ \A j \in 1..Len(req) : u[j] = req[j]
  BY <1>7, <1>9, Added
<1>12. /\ ReqOK(q, Len(task), shown, ids) /\ Knows(q, shown, gone) /\ ~Final(q)
  <2>1. StateOK(q.st, Len(task), shown)
    BY <1>2, <1>6, BlankOK
  <2>2. k.text \in Text /\ k.async \in BOOLEAN
    BY ChatAssumption
  <2>3. ReqOK(q, Len(task), shown, ids)
    BY <1>2, <1>6, <2>1, <2>2 DEF ReqOK, Steps
  <2>4. Knows(q, shown, gone)
    BY <1>2, <1>b DEF Knows, Branches, Upserting, Tasked, Started, Ended
  <2>5. ~Final(q)
    BY <1>2 DEF Final
  <2> QED BY <2>3, <2>4, <2>5
<1>13. CountsOK'
  <2>1. overlap' \in BOOLEAN
    BY <1>3, <1>6
  <2> QED BY <1>4, <1>5, <2>1 DEF IInv, CountsOK
<1>14. TasksOK' /\ StateOK(sess', Len(task'), shown') /\ FilesOK'
  BY <1>4 DEF IInv, TasksOK, FilesOK, Stored
<1>15. ReqsOK'
  <2>1. \A r \in 1..Len(u) : ReqOK(u[r], Len(task), shown, ids) /\ Knows(u[r], shown, gone)
    <3>1. ASSUME NEW r \in 1..Len(req)
          PROVE  ReqOK(u[r], Len(task), shown, ids) /\ Knows(u[r], shown, gone)
      BY <1>11 DEF IInv, ReqsOK
    <3> QED BY <1>6, <1>11, <1>12, <3>1
  <2>2. (\E Y : req' \in Seq(Y)) /\ \A r \in 1..Len(req') :
          ReqOK(req'[r], Len(task'), shown', ids') /\ Knows(req'[r], shown', gone')
    BY <1>4, <1>8, <1>10, <2>1, Zenon
  <2> QED BY <2>2 DEF ReqsOK
<1>16. Apart'
  BY <1>2, <1>6, <1>8, <1>11 DEF IInv, Apart
<1>17. Copies'
  <2>1. ASSUME quiet, NEW r \in 1..Len(u), Final(u[r])
        PROVE  /\ u[r].reply \in DOMAIN hist.msgs => hist.msgs[u[r].reply] \in Settled
               /\ u[r].reply \in DOMAIN arch.msgs =>
                    arch.msgs[u[r].reply] \in Settled \/ hist.there
    <3>1. r \in 1..Len(req) /\ u[r] = req[r]
      BY <1>6, <1>11, <1>12, <2>1
    <3> QED BY <2>1, <3>1 DEF IInv, Copies
  <2> QED BY <1>4, <1>8, <2>1, Zenon DEF Copies
<1>18. ASSUME ~overlap' PROVE ~overlap /\ \A r \in 1..Len(req) : req[r].pc \in Ended
  BY <1>3, <1>6, <1>18 DEF Open, Ended
<1>19. Calm'
  <2> SUFFICES ASSUME ~overlap', faults' = 0
               PROVE  /\ Kept(sess', card')
                      /\ \A r \in 1..Len(req') : req'[r].pc \notin Ended => InTurn(req'[r], card', sess')
    BY DEF Calm
  <2>1. Kept(sess, card)
    BY <1>4, <1>18 DEF IInv, Calm
  <2>2. InTurn(q, card, sess)
    BY <1>2, <1>b, BlankFacts DEF InTurn, Kept, Started
  <2>3. \A r \in 1..Len(u) : u[r].pc \notin Ended => InTurn(u[r], card, sess)
    BY <1>6, <1>11, <1>18, <2>2
  <2> QED BY <1>4, <1>8, <2>1, <2>3, Zenon
<1>20. Shallow'
  <2> SUFFICES ASSUME ~overlap'
               PROVE  /\ \A r, s \in 1..Len(u) : u[r].pc \notin Ended /\ u[s].pc \notin Ended => r = s
                      /\ \A r \in 1..Len(u) : Depth(u[r], faults, sess)
    BY <1>4, <1>8, Zenon DEF Shallow
  <2>1. \A r, s \in 1..Len(u) : u[r].pc \notin Ended /\ u[s].pc \notin Ended => r = s
    BY <1>6, <1>11, <1>18
  <2>2. Depth(q, faults, sess)
    BY <1>2, <1>6 DEF Depth
  <2>3. ASSUME NEW r \in 1..Len(req) PROVE Depth(u[r], faults, sess)
    BY <1>11, <1>18 DEF IInv, Shallow
  <2> QED BY <1>6, <1>11, <2>1, <2>2, <2>3
<1>21. Owned'
  <2>1. \A r \in 1..Len(u) : u[r].pc = "advance" =>
          u[r].task \in 1..Len(task) /\ task[u[r].task].goal = u[r].text
    BY <1>2, <1>6, <1>11 DEF IInv, Owned
  <2> QED BY <1>4, <1>8, <2>1, Zenon DEF Owned
<1> QED BY <1>13, <1>14, <1>15, <1>16, <1>17, <1>19, <1>20, <1>21 DEF IInv

\* The tasks change, and no request does.
LEMMA OthersStep ==
  ASSUME IInv, TasksOK', GoalsKept, UNCHANGED <<hist, arch, sess, req, ids, faults, ghosts>>,
         inputs' \in 0..MaxInputs
  PROVE  IInv'
<1>1. /\ ids' = ids /\ sess' = sess /\ req' = req /\ faults' = faults /\ card' = card
      /\ shown' = shown /\ gone' = gone /\ quiet' = quiet /\ hist' = hist /\ arch' = arch
      /\ overlap' = overlap
  BY DEF ghosts
<1>2. Len(task) \in Nat /\ ids \in Nat /\ StateOK(sess, Len(task), shown)
  BY Now
<1>3. Len(task') \in Nat /\ Len(task) <= Len(task')
  <2>1. \E Y : task' \in Seq(Y)
    BY DEF TasksOK, TaskSeq
  <2> QED BY <2>1 DEF GoalsKept
<1>4. CountsOK'
  BY <1>1 DEF IInv, CountsOK
<1>5. StateOK(sess', Len(task'), shown')
  BY <1>1, <1>2, <1>3, StateGrows
<1>6. FilesOK'
  BY <1>1 DEF IInv, FilesOK, Stored
<1>7. ReqsOK'
  <2>1. ASSUME NEW r \in 1..Len(req)
        PROVE  ReqOK(req[r], Len(task'), shown, ids) /\ Knows(req[r], shown, gone)
    <3>1. ReqOK(req[r], Len(task), shown, ids) /\ Knows(req[r], shown, gone)
      BY DEF IInv, ReqsOK
    <3> QED BY <1>2, <1>3, <3>1, ReqGrows
  <2>2. \E X : req \in Seq(X)
    BY DEF IInv, ReqsOK
  <2> QED BY <1>1, <2>1, <2>2 DEF ReqsOK
<1>8. Apart' /\ Copies'
  BY <1>1 DEF IInv, Apart, Copies
<1>9. Calm' /\ Shallow'
  BY <1>1 DEF IInv, Calm, Shallow
<1>10. Owned'
  <2> SUFFICES ASSUME NEW r \in 1..Len(req), req[r].pc = "advance"
               PROVE  req[r].task \in 1..Len(task') /\ task'[req[r].task].goal = req[r].text
    BY <1>1 DEF Owned
  <2>1. req[r].task \in 1..Len(task) /\ task[req[r].task].goal = req[r].text
    BY DEF IInv, Owned
  <2> QED BY <1>2, <1>3, <2>1 DEF GoalsKept
<1> QED BY <1>4, <1>5, <1>6, <1>7, <1>8, <1>9, <1>10 DEF IInv

LEMMA TaskActionKeeps ==
  ASSUME IInv, TaskAction
  PROVE  IInv'
<1>1. PICK i \in 1..Len(task) : \E out : Stops(i, out)
  BY Now, Zenon DEF TaskAction
<1>2. inputs' \in 0..MaxInputs
  BY ChatAssumption DEF TaskAction, Input, IInv, CountsOK
<1>3. UNCHANGED <<hist, arch, sess, req, ids, faults, ghosts>> /\ shown' = shown
  BY DEF TaskAction, ghosts
<1>4. TasksOK' /\ GoalsKept
  BY <1>1, <1>3, StopsMoves
<1> QED BY <1>2, <1>3, <1>4, OthersStep

LEMMA OtherSubmitKeeps ==
  ASSUME IInv, OtherSubmit
  PROVE  IInv'
<1>1. PICK skill, t, ts :
        /\ t = [goal |-> None, skill |-> skill, act |-> None, profile |-> "user",
                tagged |-> FALSE, by |-> "other", state |-> "inbox"]
        /\ ts = Append(task, t)
        /\ \/ \E i \in DOMAIN ts : Advance(ts, i)
           \/ task' = ts /\ UNCHANGED active
  BY Zenon DEF OtherSubmit
<1>2. inputs' \in 0..MaxInputs
  BY ChatAssumption DEF OtherSubmit, Input, IInv, CountsOK
<1>3. UNCHANGED <<hist, arch, sess, req, ids, faults, ghosts>> /\ shown' = shown
  BY DEF OtherSubmit, ghosts
<1>4. TaskSeq(task, shown) /\ active \in 0..Len(task) /\ Len(task) \in Nat
  BY Now DEF IInv, TasksOK
<1>5. DOMAIN t = TaskFields /\ Green(t, shown)
  BY <1>1 DEF TaskFields, Green
<1>6. /\ TaskSeq(ts, shown) /\ Len(ts) = Len(task) + 1
      /\ \A j \in 1..Len(task) : ts[j] = task[j]
  <2>1. ts = Append(task, t)
    BY <1>1
  <2>2. Adds(ts, task, t, shown)
    BY <1>4, <1>5, <2>1, SeqAdds
  <2> QED BY <2>2 DEF Adds
<1>7. DOMAIN ts = 1..Len(ts) /\ active \in 0..Len(ts)
  BY <1>4, <1>6 DEF TaskSeq
<1>8. /\ TaskSeq(task', shown) /\ Len(task') = Len(ts) /\ active' \in 0..Len(ts)
      /\ \A j \in 1..Len(ts) : task'[j].goal = ts[j].goal
  <2>1. CASE task' = ts /\ UNCHANGED active
    BY <1>6, <1>7, <2>1
  <2>2. ASSUME NEW i \in 1..Len(ts), Advance(ts, i)
        PROVE  /\ TaskSeq(task', shown) /\ Len(task') = Len(ts) /\ active' \in 0..Len(ts)
               /\ \A j \in 1..Len(ts) : task'[j].goal = ts[j].goal
    BY <1>6, <1>7, <2>2, AdvanceMoves
  <2> QED BY <1>1, <1>7, <2>1, <2>2
<1>9. TasksOK' /\ GoalsKept
  BY <1>3, <1>4, <1>6, <1>8 DEF TasksOK, GoalsKept
<1> QED BY <1>2, <1>3, <1>9, OthersStep

LEMMA CrashKeeps ==
  ASSUME IInv, Crash
  PROVE  IInv'
<1>1. /\ ids' = ids /\ active' = 0 /\ card' = card /\ shown' = shown /\ gone' = gone
      /\ arch' = arch /\ overlap' = overlap /\ quiet' = FALSE /\ Fault
      /\ req' = [r \in DOMAIN req |-> IF r \in Open THEN With(req[r], Over("lost")) ELSE req[r]]
  BY DEF Crash
<1>2. /\ ids \in Nat /\ faults \in Nat /\ Len(task) \in Nat /\ Len(req) \in Nat
      /\ DOMAIN req = 1..Len(req) /\ overlap \in BOOLEAN
      /\ StateOK(sess, Len(task), shown) /\ FileOK(hist, ids) /\ FileOK(arch, ids)
  BY Now
<1>3. hist' \in {hist, Empty, Torn} /\ sess' \in {sess, Blank}
  BY DEF Crash, Broken
<1>4. /\ inputs' \in 0..MaxInputs /\ faults' \in 0..MaxFaults /\ faults' = faults + 1
  BY <1>1, <1>2, ChatAssumption DEF Fault, Input, IInv, CountsOK
<1>5. CountsOK'
  BY <1>1, <1>4 DEF IInv, CountsOK
<1>6. TasksOK' /\ Len(task') = Len(task) /\ StateOK(sess', Len(task'), shown')
  <2>1. StateOK(sess', Len(task), shown)
    BY <1>2, <1>3, BlankOK
  <2>2. \/ task' = task
        \/ \E i \in 1..Len(task) : \E out : task' = [task EXCEPT ![i].state = out]
    <3>1. CASE ActiveTask(task)
      <4>1. active \in 1..Len(task)
        BY <1>2, <3>1 DEF ActiveTask, IInv, TasksOK
      <4>2. task' = [task EXCEPT ![active].state = "planned"]
        BY <3>1 DEF Crash
      <4> QED BY <4>1, <4>2, Zenon
    <3>2. CASE ~ActiveTask(task)
      <4>1. Halfway \/ task' = task
        BY <3>2, Zenon DEF Crash
      <4> QED BY <4>1, HalfwayMoves
    <3> QED BY <3>1, <3>2
  <2>3. active' \in 0..Len(task)
    BY <1>1, <1>2
  <2>4. TasksOK' /\ Len(task') = Len(task)
    BY <1>1, <2>2, <2>3, TaskMoves
  <2> QED BY <1>1, <2>1, <2>4
<1>7. FilesOK'
  <2>1. FileOK(hist', ids) /\ DOMAIN hist'.msgs \subseteq DOMAIN hist.msgs
    BY <1>2, <1>3, FilesFine, FileFacts
  <2> QED BY <1>1, <1>2, <2>1, Now DEF FilesOK, Stored
<1>8. PICK u : u = req'
  OBVIOUS
<1>9. u = [r \in 1..Len(req) |-> IF r \in Open THEN With(req[r], Over("lost")) ELSE req[r]]
  BY <1>1, <1>2, <1>8
<1>10. DOMAIN u = 1..Len(req) /\ u \in Seq({u[r] : r \in 1..Len(req)}) /\ Len(u) = Len(req)
  BY <1>2, <1>9
<1>11. ASSUME NEW r \in 1..Len(req)
       PROVE  /\ u[r].pc \in Ended /\ u[r].reply = req[r].reply /\ u[r].depth = req[r].depth
              /\ ReqOK(u[r], Len(task), shown, ids) /\ Knows(u[r], shown, gone)
  <2>1. ReqOK(req[r], Len(task), shown, ids) /\ Knows(req[r], shown, gone)
    BY DEF IInv, ReqsOK
  <2>2. CASE r \in Open
    <3>1. u[r] = With(req[r], Over("lost"))
      BY <1>9, <2>2
    <3>2. Left(u[r], req[r], "lost") /\ u[r].reply = req[r].reply
      BY <2>1, <3>1, OverFacts DEF ReqOK
    <3>3. DOMAIN u[r] = Fields /\ Keeps(u[r], req[r]) /\ u[r].st = Blank /\ u[r].pc \in Ended
      BY <3>2 DEF Left, Ended
    <3>4. StateOK(u[r].st, Len(task), shown)
      BY <1>2, <3>3, BlankOK
    <3>5. ReqOK(u[r], Len(task), shown, ids)
      BY <2>1, <3>2, <3>3, <3>4 DEF ReqOK, Keeps, Steps
    <3>6. Knows(u[r], shown, gone)
      BY <2>1, <3>3, Idle
    <3> QED BY <3>2, <3>3, <3>5, <3>6 DEF Keeps
  <2>3. CASE r \notin Open
    <3>1. u[r] = req[r] /\ req[r].pc \in Ended
      BY <1>2, <1>9, <2>3 DEF Open, Ended
    <3> QED BY <2>1, <3>1
  <2> QED BY <2>2, <2>3
<1>12. ReqsOK'
  <2>1. \E Y : u \in Seq(Y)
    BY <1>10
  <2>2. \A r \in 1..Len(u) : ReqOK(u[r], Len(task), shown, ids) /\ Knows(u[r], shown, gone)
    BY <1>10, <1>11
  <2> QED BY <1>1, <1>6, <1>8, <2>1, <2>2, Zenon DEF ReqsOK
<1>13. Apart'
  <2>1. \A r, s \in 1..Len(u) : r # s /\ u[r].reply # 0 => u[r].reply # u[s].reply
    BY <1>10, <1>11 DEF IInv, Apart
  <2> QED BY <1>8, <2>1, Zenon DEF Apart
<1>14. Copies'
  BY <1>1 DEF Copies
<1>15. Calm'
  <2>1. faults' # 0
    BY <1>2, <1>4
  <2> QED BY <2>1 DEF Calm
<1>16. Shallow'
  <2> SUFFICES ASSUME ~overlap
               PROVE  /\ \A r, s \in 1..Len(u) : u[r].pc \notin Ended /\ u[s].pc \notin Ended => r = s
                      /\ \A r \in 1..Len(u) : Depth(u[r], faults', sess')
    BY <1>1, <1>8, Zenon DEF Shallow
  <2>1. ASSUME NEW r \in 1..Len(u) PROVE Depth(u[r], faults', sess')
    <3>1. req[r].depth <= 1 + faults /\ req[r].depth \in Nat
      BY <1>10, <2>1 DEF IInv, Shallow, Depth, ReqsOK, ReqOK
    <3>2. u[r].pc \in Ended /\ u[r].depth = req[r].depth
      BY <1>10, <1>11, <2>1
    <3> QED BY <1>2, <1>4, <3>1, <3>2 DEF Depth, Ended
  <2> QED BY <1>10, <1>11, <2>1
<1>17. Owned'
  <2>1. \A r \in 1..Len(u) : u[r].pc # "advance"
    BY <1>10, <1>11 DEF Ended
  <2> QED BY <1>8, <2>1, Zenon DEF Owned
<1> QED BY <1>5, <1>6, <1>7, <1>12, <1>13, <1>14, <1>15, <1>16, <1>17 DEF IInv

\* A session button changes the files only.
LEMMA ButtonStep ==
  ASSUME IInv, UNCHANGED <<task, active, req, ids, faults, card, shown, overlap>>, inputs' \in 0..MaxInputs,
         sess' \in {sess, Blank}, gone' = gone \/ (Open = {} /\ gone' = 1..ids),
         quiet' \in BOOLEAN, FilesOK', Copies'
  PROVE  IInv'
<1>1. /\ ids' = ids /\ task' = task /\ active' = active /\ card' = card /\ shown' = shown /\ req' = req
      /\ overlap' = overlap /\ faults' = faults
  OBVIOUS
<1>2. /\ Len(task) \in Nat /\ StateOK(sess, Len(task), shown) /\ DOMAIN req = 1..Len(req)
  BY Now
<1>3. CountsOK'
  BY <1>1 DEF IInv, CountsOK
<1>4. TasksOK' /\ StateOK(sess', Len(task'), shown')
  <2>1. StateOK(sess', Len(task), shown)
    BY <1>2, BlankOK
  <2> QED BY <1>1, <2>1 DEF IInv, TasksOK
<1>5. ReqsOK'
  <2>1. ASSUME NEW r \in 1..Len(req) PROVE Knows(req[r], shown, gone')
    <3>1. Knows(req[r], shown, gone)
      BY DEF IInv, ReqsOK
    <3>2. CASE Open = {}
      <4>1. req[r].pc \in Ended
        BY <1>2, <3>2 DEF Open, Ended
      <4> QED BY <3>1, <4>1 DEF Knows, Ended, Branches, Upserting, Tasked, Started, Ended
    <3>3. CASE gone' = gone
      BY <3>1, <3>3
    <3> QED BY <3>2, <3>3
  <2> QED BY <1>1, <2>1 DEF IInv, ReqsOK
<1>6. Apart'
  BY <1>1 DEF IInv, Apart
<1>7. Calm'
  <2>1. ASSUME NEW q, NEW c, InTurn(q, c, sess) PROVE InTurn(q, c, sess')
    BY <2>1, BlankFacts DEF InTurn
  <2>2. ASSUME NEW c, Kept(sess, c) PROVE Kept(sess', c)
    BY <2>2, BlankFacts DEF Kept
  <2> QED BY <1>1, <2>1, <2>2 DEF IInv, Calm
<1>8. Shallow'
  <2>1. ASSUME NEW q, Depth(q, faults, sess) PROVE Depth(q, faults, sess')
    BY <2>1, BlankFacts, NoneOther DEF Depth
  <2> QED BY <1>1, <2>1 DEF IInv, Shallow
<1>9. Owned'
  BY <1>1 DEF IInv, Owned
<1> QED BY <1>3, <1>4, <1>5, <1>6, <1>7, <1>8, <1>9 DEF IInv

\* The buttons, one by one, on the files.
LEMMA ButtonFiles ==
  ASSUME IInv, UNCHANGED <<req, ids>>,
         EnsureSession \/ RenameSession \/ ArchiveSession \/ RestoreSession \/ DeleteSession
  PROVE  FilesOK' /\ Copies' /\ quiet' \in BOOLEAN
<1>1. /\ ids \in Nat /\ FileOK(hist, ids) /\ FileOK(arch, ids) /\ quiet \in BOOLEAN
      /\ DOMAIN hist.msgs \cap gone = {} /\ DOMAIN arch.msgs \cap gone = {}
  BY Now
<1>2. DOMAIN hist.msgs \subseteq 1..ids /\ DOMAIN arch.msgs \subseteq 1..ids
  BY <1>1 DEF FileOK
<1>3. FileOK(File(hist.msgs), ids) /\ FileOK(File(arch.msgs), ids)
  BY <1>1, <1>2, FilesFine
<1>4. FileOK(Absent, ids) /\ FileOK(Empty, ids)
  BY <1>1, FilesFine
<1>5. ids' = ids /\ req' = req
  OBVIOUS
<1>6. CASE EnsureSession
  <2>1. ~hist.there /\ hist' = Empty /\ arch' = arch /\ gone' = gone /\ quiet' = quiet
    BY <1>6 DEF EnsureSession
  <2>2. FilesOK'
    BY <1>1, <1>4, <1>5, <2>1, FileFacts DEF FilesOK, Stored
  <2>3. Copies'
    BY <1>5, <2>1, FileFacts DEF Copies
  <2> QED BY <1>1, <2>1, <2>2, <2>3
<1>7. CASE RenameSession
  <2>1. hist.there /\ hist' = File(hist.msgs) /\ arch' = arch /\ gone' = gone /\ quiet' = quiet
    BY <1>7 DEF RenameSession
  <2>a. hist'.there /\ hist'.msgs = hist.msgs
    BY <2>1, FileFacts
  <2>2. FilesOK'
    BY <1>1, <1>3, <1>5, <2>1, <2>a DEF FilesOK, Stored
  <2>3. Copies'
    BY <1>5, <2>1, <2>a DEF IInv, Copies
  <2> QED BY <1>1, <2>1, <2>2, <2>3
<1>8. CASE ArchiveSession
  <2>1. /\ arch' = File(hist.msgs) /\ hist' = Absent /\ gone' = gone
        /\ quiet' = (quiet /\ ~arch.there)
    BY <1>8 DEF ArchiveSession
  <2>a. arch'.there /\ arch'.msgs = hist.msgs /\ DOMAIN hist'.msgs = {}
    BY <2>1, FileFacts
  <2>2. FilesOK'
    BY <1>1, <1>3, <1>4, <1>5, <2>1, <2>a DEF FilesOK, Stored
  <2>3. Copies'
    BY <1>5, <2>1, <2>a DEF IInv, Copies
  <2>4. quiet' \in BOOLEAN
    BY <2>1, Zenon
  <2> QED BY <2>2, <2>3, <2>4
<1>9. CASE RestoreSession
  <2>1. /\ hist' = File(arch.msgs) /\ arch' = Absent /\ gone' = gone
        /\ quiet' = (quiet /\ ~hist.there)
    BY <1>9 DEF RestoreSession
  <2>a. hist'.there /\ hist'.msgs = arch.msgs /\ DOMAIN arch'.msgs = {}
    BY <2>1, FileFacts
  <2>2. FilesOK'
    BY <1>1, <1>3, <1>4, <1>5, <2>1, <2>a DEF FilesOK, Stored
  <2>3. Copies'
    BY <1>5, <2>1, <2>a DEF IInv, Copies
  <2>4. quiet' \in BOOLEAN
    BY <2>1, Zenon
  <2> QED BY <2>2, <2>3, <2>4
<1>10. CASE DeleteSession
  <2>1. hist' = Absent /\ arch' = Absent /\ quiet' = quiet
    BY <1>10 DEF DeleteSession
  <2>a. DOMAIN hist'.msgs = {} /\ DOMAIN arch'.msgs = {}
    BY <2>1, FileFacts
  <2>2. FilesOK'
    BY <1>4, <1>5, <2>1, <2>a DEF FilesOK, Stored
  <2>3. Copies'
    BY <2>a DEF Copies
  <2> QED BY <1>1, <2>1, <2>2, <2>3
<1> QED BY <1>6, <1>7, <1>8, <1>9, <1>10

LEMMA SessionActionKeeps ==
  ASSUME IInv, SessionAction
  PROVE  IInv'
<1>1. /\ UNCHANGED <<task, active, req, ids, faults, card, shown, overlap>> /\ UNCHANGED <<req, ids>>
      /\ EnsureSession \/ RenameSession \/ ArchiveSession \/ RestoreSession \/ DeleteSession
  BY DEF SessionAction
<1>2. inputs' \in 0..MaxInputs
  BY ChatAssumption DEF SessionAction, Input, IInv, CountsOK
<1>3. sess' \in {sess, Blank} /\ (gone' = gone \/ (Open = {} /\ gone' = 1..ids))
  BY <1>1 DEF EnsureSession, RenameSession, ArchiveSession, RestoreSession, DeleteSession
<1>4. FilesOK' /\ Copies' /\ quiet' \in BOOLEAN
  BY <1>1, ButtonFiles
<1> QED BY <1>1, <1>2, <1>3, <1>4, ButtonStep

-----------------------------------------------------------------------------
(***************************************************************************)
(* The invariant                                                           *)
(***************************************************************************)

LEMMA InitKeeps == Init => IInv
<1> SUFFICES ASSUME Init PROVE IInv
  OBVIOUS
<1>1. /\ hist = Absent /\ arch = Absent /\ sess = Blank /\ task = <<>> /\ active = 0 /\ req = <<>> /\ ids = 0
      /\ inputs = 0 /\ faults = 0 /\ card = None /\ shown = {} /\ gone = {}
      /\ overlap = FALSE /\ quiet = TRUE
  BY DEF Init
<1>2. CountsOK
  <2>1. ids \in Nat /\ inputs \in 0..MaxInputs /\ faults \in 0..MaxFaults
    BY <1>1, ChatAssumption
  <2>2. card \in Text \cup {None} /\ shown \subseteq Text /\ gone \subseteq 1..ids
    BY <1>1
  <2>3. overlap \in BOOLEAN /\ quiet \in BOOLEAN
    BY <1>1, Zenon
  <2> QED BY <2>1, <2>2, <2>3 DEF CountsOK
<1>3. Len(task) = 0 /\ Len(req) = 0
  BY <1>1
<1>4. (\E X : task \in Seq(X)) /\ (\E X : req \in Seq(X))
  <2>1. <<>> \in Seq({})
    OBVIOUS
  <2> QED BY <1>1, <2>1
<1>5. TasksOK /\ ReqsOK /\ Owned
  BY <1>1, <1>3, <1>4 DEF TasksOK, TaskSeq, ReqsOK, Owned
<1>6. StateOK(sess, Len(task), shown)
  BY <1>1, <1>3, BlankOK
<1>7. FilesOK
  BY <1>1, FilesFine, FileFacts DEF FilesOK, Stored
<1>8. Apart /\ Copies
  BY <1>3 DEF Apart, Copies
<1>9. Calm /\ Shallow
  BY <1>1, <1>3, BlankFacts DEF Calm, Shallow, Kept
<1> QED BY <1>2, <1>5, <1>6, <1>7, <1>8, <1>9 DEF IInv

LEMMA StepKeeps == IInv /\ [Next]_vars => IInv'
<1> SUFFICES ASSUME IInv, [Next]_vars PROVE IInv'
  OBVIOUS
<1>1. ASSUME NEW k \in Kinds, Begin(k) PROVE IInv'
  BY <1>1, BeginKeeps
<1>2. ASSUME NEW r \in DOMAIN req, Proceed(r) PROVE IInv'
  <2>1. CASE Load(r)
    BY <2>1, LoadKeeps
  <2>2. CASE AppendUser(r)
    BY <2>2, AppendUserKeeps
  <2>3. CASE AppendFollowup(r) \/ AppendFocused(r) \/ AppendDirect(r)
    BY <2>3, PlaceholderKeeps DEF AppendFollowup, AppendFocused, AppendDirect, Branches
  <2>4. CASE ToolCall(r)
    BY <2>4, ToolCallKeeps
  <2>5. CASE composeFollowupArtifactReply(r) \/ composeAgentDirectReply(r) \/ composeDirectReply(r)
    BY <2>5, ComposesKeep
  <2>6. CASE SaveReplied(r)
    BY <2>6, SaveRepliedKeeps
  <2>7. CASE AnswerNo(r)
    BY <2>7, AnswerNoKeeps
  <2>8. CASE SaveForgotten(r)
    BY <2>8, SaveForgottenKeeps
  <2>9. CASE AnswerYes(r)
    BY <2>9, AnswerYesKeeps
  <2>10. CASE AnswerOther(r)
    BY <2>10, AnswerOtherKeeps
  <2>11. CASE Complain(r)
    BY <2>11, ComplainKeeps
  <2>12. CASE AppendCard(r)
    BY <2>12, AppendCardKeeps
  <2>13. CASE SaveOffer(r)
    BY <2>13, SaveOfferKeeps
  <2>14. CASE CreateTask(r)
    BY <2>14, CreateTaskKeeps
  <2>26. CASE AdvanceTask(r)
    BY <2>26, AdvanceTaskKeeps
  <2>27. CASE AdvanceFindsNone(r)
    BY <2>27, AdvanceFindsNoneKeeps
  <2>15. CASE SubmitFails(r)
    BY <2>15, SubmitFailsKeeps
  <2>16. CASE AppendQueued(r)
    BY <2>16, AppendQueuedKeeps
  <2>17. CASE SaveTaskStart(r)
    BY <2>17, SaveTaskStartKeeps
  <2>18. CASE UpsertActive(r)
    BY <2>18, UpsertActiveKeeps
  <2>19. CASE ReportProgress(r)
    BY <2>19, ReportProgressKeeps
  <2>20. CASE RunTask(r)
    BY <2>20, RunTaskKeeps
  <2>21. CASE UpsertSummarizing(r)
    BY <2>21, UpsertSummarizingKeeps
  <2>22. CASE Compose(r)
    BY <2>22, ComposeKeeps
  <2>23. CASE Close(r)
    BY <2>23, CloseKeeps
  <2>24. CASE Finalize(r)
    BY <2>24, FinalizeKeeps
  <2>25. CASE SaveFinalized(r)
    BY <2>25, SaveFinalizedKeeps
  <2> QED BY <1>2, <2>1, <2>2, <2>3, <2>4, <2>5, <2>6, <2>7, <2>8, <2>9, <2>10, <2>11, <2>12,
             <2>13, <2>14, <2>15, <2>16, <2>17, <2>18, <2>19, <2>20, <2>21, <2>22, <2>23, <2>24,
             <2>25, <2>26, <2>27, Zenon DEF Proceed
<1>3. CASE SessionAction
  BY <1>3, SessionActionKeeps
<1>4. CASE TaskAction
  BY <1>4, TaskActionKeeps
<1>5. CASE Crash
  BY <1>5, CrashKeeps
<1>7. CASE OtherSubmit
  BY <1>7, OtherSubmitKeeps
<1>6. CASE UNCHANGED vars
  <2>1. /\ hist' = hist /\ arch' = arch /\ sess' = sess /\ task' = task /\ req' = req
        /\ active' = active /\ ids' = ids /\ inputs' = inputs /\ faults' = faults /\ card' = card /\ shown' = shown
        /\ gone' = gone /\ overlap' = overlap /\ quiet' = quiet
    BY <1>6 DEF vars
  <2>2. CountsOK' /\ TasksOK' /\ StateOK(sess', Len(task'), shown') /\ FilesOK' /\ ReqsOK'
    BY <2>1 DEF IInv, CountsOK, TasksOK, FilesOK, Stored, ReqsOK
  <2>3. Apart' /\ Copies' /\ Calm' /\ Shallow' /\ Owned'
    BY <2>1 DEF IInv, Apart, Copies, Calm, Shallow, Owned
  <2> QED BY <2>2, <2>3 DEF IInv
<1> QED BY <1>1, <1>2, <1>3, <1>4, <1>5, <1>6, <1>7, Zenon DEF Next

LEMMA Always == Spec => []IInv
BY InitKeeps, StepKeeps, PTL DEF Spec

-----------------------------------------------------------------------------
(***************************************************************************)
(* Theorems                                                                *)
(***************************************************************************)

\* For every interleaving of requests, other clients' tasks, buttons, failed
\* writes and crashes, a message becomes a task only with the user's go-ahead:
\* its goal was shown on a card, or its turn was a follow-up, or the client asked
\* for root or named its own message a confirmation (service.go,
\* shouldConfirmTaskIntent).
THEOREM GreenLitHolds == Spec => []GreenLit
<1>1. IInv => GreenLit
  BY Now DEF IInv, TasksOK, TaskSeq, GreenLit, Green
<1> QED BY <1>1, Always, PTL

\* What a delete removed while no request was open never comes back, from the
\* archive or by a late write (store.go, DeleteSession).
THEOREM StaysGoneHolds == Spec => []StaysGone
<1>1. IInv => StaysGone
  BY DEF IInv, FilesOK, StaysGone
<1> QED BY <1>1, Always, PTL

\* Used one turn at a time, without a failed write and with nobody else's task in
\* the way, the task that a confirmation is answered with and runs has the goal of
\* the last card, not of an earlier one nor of an older task (service.go,
\* tryHandleIntentConfirmation; orchestrator.go, Advance).
THEOREM LatestGoalHolds == Spec => []LatestGoal
<1>1. IInv => LatestGoal
  BY Now DEF IInv, ReqsOK, Knows, LatestGoal
<1> QED BY <1>1, Always, PTL

\* Every request comes to an end that the user sees: its reply no longer shows
\* work in progress unless a write failed or a copy was overwritten, Send calls
\* itself at most once more than there were faults, and files and requests keep
\* their types (service.go, Send and completeTask; store.go).
THEOREM RequestsEndHolds == Spec => []RequestsEnd
<1>1. ASSUME IInv PROVE TypeOK
  <2>1. /\ FileOK(hist, ids) /\ FileOK(arch, ids) /\ DOMAIN req = 1..Len(req) /\ Len(task) \in Nat
        /\ StateOK(sess, Len(task), shown) /\ shown \subseteq Text
    BY <1>1, Now
  <2>2. \A f \in {hist, arch} : f.there \in BOOLEAN /\ f.torn \in BOOLEAN
                               /\ DOMAIN f.msgs \subseteq 1..ids
    BY <2>1 DEF FileOK
  <2>3. /\ sess.focus \in 0..Len(task) /\ sess.question \in BOOLEAN
        /\ sess.pending \in {None, "confirm", "summarize"}
    BY <2>1 DEF StateOK, Pendings
  <2>4. sess.refs \in Seq(Text)
    <3>1. sess.refs \in Seq(shown)
      BY <2>1 DEF StateOK
    <3> QED BY <2>1, <3>1, SeqMonotonic
  <2>5. \A r \in DOMAIN req : req[r].task \in 0..Len(task) /\ req[r].reply \in 0..ids
                             /\ req[r].text \in Text
    BY <1>1, <2>1 DEF IInv, ReqsOK, ReqOK
  <2> QED BY <1>1, <2>2, <2>3, <2>4, <2>5 DEF IInv, CountsOK, TasksOK, TypeOK
<1>2. ASSUME IInv PROVE RepliesSettle
  <2> SUFFICES ASSUME quiet, NEW r \in DOMAIN req, req[r].pc = "done",
                      req[r].task = 0 \/ req[r].async, req[r].reply \in DOMAIN hist.msgs
               PROVE  hist.msgs[req[r].reply] \in Settled
    BY DEF RepliesSettle
  <2>1. r \in 1..Len(req) /\ Final(req[r])
    BY <1>2, Now DEF Final
  <2> QED BY <1>2, <2>1 DEF IInv, Copies
<1>3. ASSUME IInv PROVE RecursionEnds
  BY <1>3, Now DEF IInv, Shallow, Depth, RecursionEnds
<1>4. IInv => RequestsEnd
  BY <1>1, <1>2, <1>3 DEF RequestsEnd
<1> QED BY <1>4, Always, PTL

\* A write that succeeds keeps what is stored.
LEMMA PutGrows ==
  ASSUME NEW id, NEW stage, hist' = File(Put(hist.msgs, id, stage)), arch' = arch
  PROVE  Stored \subseteq Stored'
<1>1. DOMAIN hist.msgs \subseteq DOMAIN hist'.msgs
  BY DEF File, Put
<1> QED BY <1>1 DEF Stored

LEMMA RewriteGrows ==
  ASSUME NEW id, NEW stage, NEW ok \in BOOLEAN, Rewrite(Put(hist.msgs, id, stage), ok),
         quiet' = (quiet /\ ok), quiet', arch' = arch
  PROVE  Stored \subseteq Stored'
<1>1. ok
  BY Zenon
<1>2. hist' = File(Put(hist.msgs, id, stage))
  BY <1>1 DEF Rewrite
<1> QED BY <1>2, PutGrows

LEMMA RequestGrows ==
  ASSUME NEW r, Proceed(r), quiet'
  PROVE  Stored \subseteq Stored'
<1>1. ASSUME UNCHANGED <<hist, arch>> PROVE Stored \subseteq Stored'
  BY <1>1 DEF Stored
<1>2. CASE Load(r) \/ SaveReplied(r) \/ SaveForgotten(r) \/ AnswerYes(r) \/ AnswerOther(r)
            \/ SaveOffer(r) \/ CreateTask(r) \/ AdvanceTask(r) \/ SaveTaskStart(r) \/ RunTask(r) \/ Finalize(r)
            \/ SaveFinalized(r)
  <2>1. UNCHANGED <<hist, arch>>
    BY <1>2, Zenon DEF Load, SaveReplied, SaveForgotten, AnswerYes, AnswerOther, SaveOffer, CreateTask, AdvanceTask,
               SaveTaskStart, RunTask, Finalize, SaveFinalized
  <2> QED BY <1>1, <2>1
<1>3. CASE Complain(r) \/ SubmitFails(r)
  BY <1>3, Zenon DEF Complain, SubmitFails
<1>20. CASE AdvanceFindsNone(r)
  <2>1. PICK ok \in BOOLEAN :
          Rewrite(Put(hist.msgs, ids + 1, None), ok) /\ quiet' = (quiet /\ ok) /\ arch' = arch
    BY <1>20, Zenon DEF AdvanceFindsNone, Refuse, StoreAppend
  <2> QED BY <2>1, RewriteGrows
<1>4. CASE AppendUser(r)
  <2>1. PICK ok \in BOOLEAN :
          Rewrite(Put(hist.msgs, ids + 1, "user"), ok) /\ quiet' = (quiet /\ ok)
    BY <1>4 DEF AppendUser, StoreAppend
  <2>2. arch' = arch
    BY <1>4 DEF AppendUser, StoreAppend
  <2> QED BY <2>1, <2>2, RewriteGrows
<1>5. CASE AppendFollowup(r)
  <2>1. PICK ok \in BOOLEAN :
          Rewrite(Put(hist.msgs, ids + 1, "running"), ok) /\ quiet' = (quiet /\ ok)
    BY <1>5 DEF AppendFollowup, Placeholder, StoreAppend
  <2>2. arch' = arch
    BY <1>5 DEF AppendFollowup, Placeholder, StoreAppend
  <2> QED BY <2>1, <2>2, RewriteGrows
<1>6. CASE AppendFocused(r)
  <2>1. PICK ok \in BOOLEAN :
          Rewrite(Put(hist.msgs, ids + 1, "running"), ok) /\ quiet' = (quiet /\ ok)
    BY <1>6 DEF AppendFocused, Placeholder, StoreAppend
  <2>2. arch' = arch
    BY <1>6 DEF AppendFocused, Placeholder, StoreAppend
  <2> QED BY <2>1, <2>2, RewriteGrows
<1>7. CASE AppendDirect(r)
  <2>1. PICK ok \in BOOLEAN :
          Rewrite(Put(hist.msgs, ids + 1, "running"), ok) /\ quiet' = (quiet /\ ok)
    BY <1>7 DEF AppendDirect, Placeholder, StoreAppend
  <2>2. arch' = arch
    BY <1>7 DEF AppendDirect, Placeholder, StoreAppend
  <2> QED BY <2>1, <2>2, RewriteGrows
<1>8. CASE AnswerNo(r)
  <2>1. PICK ok \in BOOLEAN :
          Rewrite(Put(hist.msgs, ids + 1, "responded"), ok) /\ quiet' = (quiet /\ ok)
    BY <1>8 DEF AnswerNo, StoreAppend
  <2>2. arch' = arch
    BY <1>8 DEF AnswerNo, StoreAppend
  <2> QED BY <2>1, <2>2, RewriteGrows
<1>9. CASE AppendCard(r)
  <2>1. PICK ok \in BOOLEAN :
          Rewrite(Put(hist.msgs, ids + 1, "awaiting_confirmation"), ok) /\ quiet' = (quiet /\ ok)
    BY <1>9 DEF AppendCard, StoreAppend
  <2>2. arch' = arch
    BY <1>9 DEF AppendCard, StoreAppend
  <2> QED BY <2>1, <2>2, RewriteGrows
<1>10. CASE AppendQueued(r)
  <2>1. PICK ok \in BOOLEAN :
          Rewrite(Put(hist.msgs, ids + 1, "queued"), ok) /\ quiet' = (quiet /\ ok)
    BY <1>10 DEF AppendQueued, StoreAppend
  <2>2. arch' = arch
    BY <1>10 DEF AppendQueued, StoreAppend
  <2> QED BY <2>1, <2>2, RewriteGrows
<1>11. CASE ToolCall(r)
  <2>1. PICK ok \in BOOLEAN :
          Rewrite(Put(hist.msgs, req[r].reply, "tool_result"), ok) /\ quiet' = (quiet /\ ok)
    BY <1>11 DEF ToolCall, StoreUpsert
  <2>2. arch' = arch
    BY <1>11 DEF ToolCall, StoreUpsert
  <2> QED BY <2>1, <2>2, RewriteGrows
<1>12. CASE composeFollowupArtifactReply(r)
  <2>1. PICK ok \in BOOLEAN :
          Rewrite(Put(hist.msgs, req[r].reply, "responded"), ok) /\ quiet' = (quiet /\ ok)
    BY <1>12 DEF composeFollowupArtifactReply, streamConversationReply, StoreUpsert
  <2>2. arch' = arch
    BY <1>12 DEF composeFollowupArtifactReply, streamConversationReply, StoreUpsert
  <2> QED BY <2>1, <2>2, RewriteGrows
<1>13. CASE composeAgentDirectReply(r)
  <2>1. PICK ok \in BOOLEAN :
          Rewrite(Put(hist.msgs, req[r].reply, "responded"), ok) /\ quiet' = (quiet /\ ok)
    BY <1>13 DEF composeAgentDirectReply, StoreUpsert
  <2>2. arch' = arch
    BY <1>13 DEF composeAgentDirectReply, StoreUpsert
  <2> QED BY <2>1, <2>2, RewriteGrows
<1>14. CASE composeDirectReply(r)
  <2>1. PICK ok \in BOOLEAN :
          Rewrite(Put(hist.msgs, req[r].reply, "responded"), ok) /\ quiet' = (quiet /\ ok)
    BY <1>14 DEF composeDirectReply, streamConversationReply, StoreUpsert
  <2>2. arch' = arch
    BY <1>14 DEF composeDirectReply, streamConversationReply, StoreUpsert
  <2> QED BY <2>1, <2>2, RewriteGrows
<1>15. CASE UpsertSummarizing(r)
  <2>1. PICK ok \in BOOLEAN :
          Rewrite(Put(hist.msgs, req[r].reply, "summarizing"), ok) /\ quiet' = (quiet /\ ok)
    BY <1>15 DEF UpsertSummarizing, StoreUpsert
  <2>2. arch' = arch
    BY <1>15 DEF UpsertSummarizing, StoreUpsert
  <2> QED BY <2>1, <2>2, RewriteGrows
<1>16. CASE ReportProgress(r)
  <2>1. PICK ok \in BOOLEAN, e \in Progress :
          /\ Rewrite(Put(hist.msgs, req[r].reply, normalizeProgressStage(task[req[r].task].skill, e)), ok)
          /\ quiet' = (quiet /\ ok)
    BY <1>16 DEF ReportProgress, StoreUpsert
  <2>2. arch' = arch
    BY <1>16 DEF ReportProgress
  <2> QED BY <2>1, <2>2, RewriteGrows
<1>17. CASE Close(r)
  <2>1. PICK ok, stage :
          ok \in BOOLEAN /\ Rewrite(Put(hist.msgs, req[r].reply, stage), ok) /\ quiet' = (quiet /\ ok)
    BY <1>17 DEF Close, StoreUpsert
  <2>2. arch' = arch
    BY <1>17 DEF Close
  <2> QED BY <2>1, <2>2, RewriteGrows
<1>18. CASE UpsertActive(r)
  <2>1. arch' = arch
    BY <1>18 DEF UpsertActive
  <2>2. CASE req[r].async \/ Starts(r)
    <3>1. PICK ok \in BOOLEAN :
            /\ Rewrite(Put(hist.msgs, req[r].reply, activeTaskStage(task[req[r].task].skill)), ok)
            /\ quiet' = (quiet /\ ok)
      BY <1>18, <2>2 DEF UpsertActive, StoreUpsert
    <3> QED BY <2>1, <3>1, RewriteGrows
  <2>3. CASE ~(req[r].async \/ Starts(r))
    BY <1>1, <1>18, <2>1, <2>3 DEF UpsertActive
  <2> QED BY <2>2, <2>3
<1>19. CASE Compose(r)
  <2>1. arch' = arch
    BY <1>19 DEF Compose
  <2>2. ASSUME NEW ok \in BOOLEAN, StoreUpsert(req[r].reply, "running", ok), quiet' = (quiet /\ ok)
        PROVE  Stored \subseteq Stored'
    BY <2>1, <2>2, RewriteGrows DEF StoreUpsert
  <2>3. ASSUME UNCHANGED <<hist, inputs, faults, quiet>> PROVE Stored \subseteq Stored'
    BY <1>1, <2>1, <2>3
  <2> QED BY <1>19, <2>2, <2>3 DEF Compose
<1> QED BY <1>2, <1>3, <1>4, <1>5, <1>6, <1>7, <1>8, <1>9, <1>10, <1>11,
           <1>12, <1>13, <1>14, <1>15, <1>16, <1>17, <1>18, <1>19, <1>20, Zenon DEF Proceed

\* A stored message leaves the session's files only by a delete, unless a write
\* failed or an archive or a restore met an older copy (store.go, ArchiveSession
\* and RestoreSession: the copy is written before the original is removed).
THEOREM NothingLostHolds == Spec => NothingLost
<1>1. ASSUME IInv, [Next]_vars PROVE [quiet' => (Stored \subseteq Stored' \/ DeleteSession)]_vars
  <2> SUFFICES ASSUME Next, quiet', ~DeleteSession PROVE Stored \subseteq Stored'
    BY <1>1
  <2>1. CASE \E k \in Kinds : Begin(k)
    BY <2>1 DEF Begin, Stored
  <2>2. CASE \E r \in Request : r \in DOMAIN req /\ Proceed(r)
    BY <2>2, RequestGrows
  <2>3. CASE SessionAction
    <3>1. FileOK(hist, ids) /\ FileOK(arch, ids)
      BY <1>1, Now
    <3>2. CASE EnsureSession \/ RenameSession
      BY <3>1, <3>2, FileFacts DEF EnsureSession, RenameSession, FileOK, Stored
    <3>3. CASE ArchiveSession
      <4>1. arch' = File(hist.msgs) /\ quiet' = (quiet /\ ~arch.there)
        BY <3>3 DEF ArchiveSession
      <4>2. DOMAIN arch.msgs = {}
        BY <3>1, <4>1 DEF FileOK
      <4> QED BY <4>1, <4>2, FileFacts DEF Stored
    <3>4. CASE RestoreSession
      <4>1. hist' = File(arch.msgs) /\ quiet' = (quiet /\ ~hist.there)
        BY <3>4 DEF RestoreSession
      <4>2. DOMAIN hist.msgs = {}
        BY <3>1, <4>1 DEF FileOK
      <4> QED BY <4>1, <4>2, FileFacts DEF Stored
    <3> QED BY <2>3, <3>2, <3>3, <3>4 DEF SessionAction
  <2>4. CASE TaskAction
    BY <2>4 DEF TaskAction, Stored
  <2>5. CASE Crash
    BY <2>5 DEF Crash
  <2>6. CASE OtherSubmit
    BY <2>6 DEF OtherSubmit, Stored
  <2> QED BY <2>1, <2>2, <2>3, <2>4, <2>5, <2>6 DEF Next
<1> QED BY <1>1, Always, PTL DEF Spec, NothingLost
=============================================================================
