----------------------------- MODULE MemoryLife -----------------------------
(***************************************************************************)
(* The life of a memory card (internal/memory governance.go, upgrade.go,   *)
(* conflict.go, consolidator.go, procedural.go, scheduler.go;              *)
(* internal/recall; internal/memoryorchestrator): how cards are created,   *)
(* promoted, superseded, used, decayed and archived by goroutines that     *)
(* share one memory store.                                                 *)
(*                                                                         *)
(* One call of the store is one step: it holds the store's mutex.  What a  *)
(* goroutine does between its calls it does on what it queried earlier:    *)
(*   - the governance loop decays cards, turns recurring events into facts *)
(*     and reports facts that contradict each other;                       *)
(*   - a consolidation (skill memory-consolidate) extracts procedures and  *)
(*     promotes the candidates it queried, one by one, oldest first;       *)
(*   - a chat turn recalls cards into a packet and rewards them once the   *)
(*     answer is there;                                                    *)
(*   - a search or an inbox check writes a card for each result;           *)
(*   - users create, edit and archive cards over HTTP.                     *)
(* How the store persists a write is the subject of MemoryStore.           *)
(***************************************************************************)
EXTENDS Integers, FiniteSets, Sequences
LOCAL INSTANCE FiniteSetsExt

CONSTANTS
  Card,            \* card ids
  NoCard,          \* not a card id
  CardType,        \* the type of each card
  Scope,           \* scopes
  ScopeOf,         \* the scope each card is made in
  Topic,           \* the topic (or task class) each card is about
  DecayPolicy,     \* the decay policy each card is created with
  FactOf,          \* factCardIDFromTopic: the fact card of each topic
  Confidence,      \* Provenance.Confidence of each event, in thousandths
  Text,            \* what a card may assert
  Says,            \* what each card asserts when it is made
  Task,            \* consolidations that may run at once
  Turn,            \* chat turns that may run at once
  Requests,        \* what the consolidations ask for; limit and archive are
                   \* set by the harness only (harness/runner.go)
  Usages,          \* task class and outcome of the answers given
  CreateRequests,  \* what users may ask for when they create each card over HTTP
  UpdateRequests,  \* and when they update it
  UpgradeScopes,   \* the scopes a governance tick upgrades, in order
  ConflictScopes,  \* the scopes it searches for conflicts, in order
  Worlds,          \* bound: sets of cards that come up together in a behaviour
  Interval,        \* hours between two readings of the clock
  MinRuns,         \* successful runs that make a procedure
  MaxAge,          \* bound: intervals a card may wait for its evaluation
  MaxEdits,        \* bound: edits by hand
  MaxTurns,        \* bound: packets built
  MaxFaults        \* bound: failed writes and crashes

Status == {"candidate", "active", "stale", "superseded", "archived"}

\* CreateCardRequest and UpdateCardRequest: "none", NoCard or {} stand for a
\* field that is not set.
HandRequest ==
  [status : Status \cup {"none"}, supersedes : Card \cup {NoCard}, scope : Scope \cup {"none"},
   content : Text \cup {"none"}, evidence : SUBSET Card]

ASSUME MemoryLifeAssumption ==
  /\ NoCard \notin Card /\ IsFiniteSet(Card)
  /\ ScopeOf \in [Card -> Scope]
  /\ \A c \in Card : CreateRequests[c] \subseteq HandRequest /\ UpdateRequests[c] \subseteq HandRequest
  /\ Says \in [Card -> Text]
  /\ \A t \in DOMAIN FactOf : FactOf[t] \in Card
  /\ Interval \in Nat \ {0} /\ MinRuns \in Nat \ {0} /\ MaxAge \in Nat \ {0}
  /\ MaxEdits \in Nat /\ MaxTurns \in Nat /\ MaxFaults \in Nat

VARIABLES
  status,    \* the status of each card's latest version, "none" before the first
  score,     \* Activation.Score, in thousandths
  age,       \* the time since LastEvaluatedAt (or CreatedAt), in intervals
  born,      \* the order in which cards were created (CreatedAt)
  text,      \* what the card asserts
  scope,     \* the scope it is in
  over,      \* the card it supersedes, or NoCard
  byhand,    \* ledger: the cards whose status, evidence or supersession a user set
  refs,      \* the cards that each card's EvidenceRefs name
  edges,     \* evidence edges, from an event to the fact it supports
  gov,       \* the governance loop
  pass,      \* the consolidation each task is in
  packet,    \* the packet each chat turn holds
  runs,      \* done tasks of each procedure, or of a class without steps
  log,       \* the conflicts reported so far
  world,     \* the cards that come up in this behaviour
  edits, turns, faults,   \* how much of each bound is used
  cut        \* ledger: the facts whose upgrade a fault ended

labels == <<scope, over, byhand>>
cards == <<status, score, age, born, text, labels>>
evidence == <<refs, edges, cut>>
counts == <<world, edits, turns, faults>>
lifeVars == <<cards, evidence, gov, pass, packet, runs, log, counts>>

-----------------------------------------------------------------------------
(***************************************************************************)
(* The store                                                               *)
(***************************************************************************)

Exists(c) == status[c] # "none"

clampUnit(x) == IF x < 0 THEN 0 ELSE IF x > 1000 THEN 1000 ELSE x

\* Query by type ("" is any), scope ("" is any) and status.
Query(type, where, st) ==
  {c \in Card : /\ status[c] = st
                /\ type \in {"", CardType[c]}
                /\ where \in {"", scope[c]}}

\* A first version of c; ErrAlreadyExists is the caller's to test.
CreateAs(c, st, sc, tx) ==
  /\ status' = [status EXCEPT ![c] = st]
  /\ score' = [score EXCEPT ![c] = clampUnit(sc)]
  /\ age' = [age EXCEPT ![c] = 0]
  /\ born' = [born EXCEPT ![c] = Cardinality({d \in Card : Exists(d)}) + 1]
  /\ text' = [text EXCEPT ![c] = tx]

\* The cards the program makes supersede nothing: of the requests to the store
\* only those that come over HTTP, and the harness's, set Supersedes.
CreateCard(c, st, sc, tx) == CreateAs(c, st, sc, tx) /\ UNCHANGED labels

\* A new version of c: the activation is the latest version's.
UpdateAs(c, st, tx) ==
  /\ status' = [status EXCEPT ![c] = st]
  /\ text' = [text EXCEPT ![c] = tx]
  /\ UNCHANGED <<score, age, born>>

\* A version with a new status alone.
UpdateCard(c, st) == UpdateAs(c, st, text[c]) /\ UNCHANGED labels

\* What a field of a request makes of a field of the card.
Given(new, zero, was) == IF new = zero THEN was ELSE new

\* Mutant: the recalled version, an active one, is written back.
MutTouchRecalled(c, delta) ==
  /\ score' = [score EXCEPT ![c] = clampUnit(@ + delta)]
  /\ status' = [status EXCEPT ![c] = "active"]
  /\ UNCHANGED <<age, born, text, labels>>

\* TouchCard works on the latest version, not on the one that was recalled.
TouchCard(c, delta) ==
  /\ score' = [score EXCEPT ![c] = clampUnit(@ + delta)]
  /\ UNCHANGED <<status, age, born, text, labels>>

\* The oldest of a set of cards: PromoteCandidates sorts by creation.
Oldest(S) == CHOOSE c \in S : \A d \in S : born[c] <= born[d]

\* LatestCards: newest first.
Newest(S) == CHOOSE c \in S : \A d \in S : born[d] <= born[c]

-----------------------------------------------------------------------------
(***************************************************************************)
(* Governance: decay                                                       *)
(***************************************************************************)

StaleThreshold == 500
ArchiveThreshold == 100
BaseDecayRate == 50

\* The score a card of this policy loses in an hour.
DecayRate(c) ==
  CASE DecayPolicy[c] = "session_use" -> BaseDecayRate * 5
    [] DecayPolicy[c] = "durable" -> BaseDecayRate \div 5
    [] DecayPolicy[c] = "never" -> 0
    [] OTHER -> BaseDecayRate

Decays(c) == DecayRate(c) > 0

NewScore(c) == clampUnit(score[c] - age[c] * Interval * DecayRate(c))

NewStatus(c) ==
  CASE NewScore(c) < ArchiveThreshold /\ status[c] = "stale" -> "archived"
    [] NewScore(c) < StaleThreshold /\ status[c] = "active" -> "stale"
    [] OTHER -> status[c]

\* Mutant: only active cards are looked at.
MutEvaluatedActive ==
  {c \in Card : /\ status[c] = "active"
                /\ age[c] > 0
                /\ NewScore(c) < score[c] \/ NewStatus(c) # status[c]}

\* The cards DecayAndCompact gives a new version.
Evaluated ==
  {c \in Card : /\ status[c] \in {"active", "stale"}
                /\ age[c] > 0
                /\ NewScore(c) < score[c] \/ NewStatus(c) # status[c]}

DecayAndCompact ==
  /\ status' = [c \in Card |-> IF c \in Evaluated THEN NewStatus(c) ELSE status[c]]
  /\ score' = [c \in Card |-> IF c \in Evaluated THEN NewScore(c) ELSE score[c]]
  /\ age' = [c \in Card |-> IF c \in Evaluated THEN 0 ELSE age[c]]
  /\ UNCHANGED <<born, text, labels>>

\* Time passes.  The bound: a live card is evaluated before it is MaxAge
\* intervals old, and the age of a card that is not evaluated stops there.
Clock ==
  /\ \A c \in Card : status[c] \in {"active", "stale"} /\ Decays(c) => age[c] < MaxAge
  /\ age' = [c \in Card |-> IF Exists(c) /\ Decays(c) /\ age[c] < MaxAge
                              THEN age[c] + 1 ELSE age[c]]
  /\ UNCHANGED <<status, score, born, text, labels, evidence, gov, pass, packet, runs, log, counts>>

\* The memory scheduler's EvaluateAndSchedule decays cards before it counts.
SchedulerDecay ==
  /\ Evaluated # {}
  /\ DecayAndCompact
  /\ UNCHANGED <<evidence, gov, pass, packet, runs, log, counts>>

-----------------------------------------------------------------------------
(***************************************************************************)
(* Governance: events become facts, and facts are compared                 *)
(***************************************************************************)

Idle == [at |-> "idle"]

\* A tick: decay first.
Tick ==
  /\ gov = Idle
  /\ DecayAndCompact
  /\ gov' = [at |-> "upgrade", i |-> 1]
  /\ UNCHANGED <<evidence, pass, packet, runs, log, counts>>

MinOccurrences == 2
MinConfidence == 500

\* The mean of the confidences that are set, 0.7 when none is.
averageConfidence(S) ==
  LET set == {c \in S : Confidence[c] > 0}
  IN  IF set = {} THEN 700
      ELSE MapThenSumSet(LAMBDA c : Confidence[c], set) \div Cardinality(set)

\* clusterEventCards over the active events of a scope, those clusters only
\* that are large and sure enough: for each topic the events and their texts.
Clusters(where) ==
  LET found == Query("event", where, "active")
      on(t) == {c \in found : Topic[c] = t}
  IN  [t \in {t \in {Topic[c] : c \in found} :
                 /\ Cardinality(on(t)) >= MinOccurrences
                 /\ averageConfidence(on(t)) >= MinConfidence} |->
         {<<c, text[c]>> : c \in on(t)}]

Without(f, t) == [u \in DOMAIN f \ {t} |-> f[u]]

\* What the loop does after the upgrade of the i-th scope.
AfterScope(i) ==
  IF i < Len(UpgradeScopes) THEN [at |-> "upgrade", i |-> i + 1] ELSE [at |-> "active", i |-> 1]

\* The next topic of this scope, or the next scope.
NextTopic(left) ==
  IF DOMAIN left = {} THEN AfterScope(gov.i) ELSE [at |-> "look", i |-> gov.i, left |-> left]

UpgradeQuery ==
  /\ gov.at = "upgrade"
  /\ gov' = NextTopic(Clusters(UpgradeScopes[gov.i]))
  /\ UNCHANGED <<cards, evidence, pass, packet, runs, log, counts>>

\* A topic that has its fact card already is passed over.
UpgradeLook(t) ==
  /\ gov.at = "look" /\ t \in DOMAIN gov.left
  /\ gov' = IF Exists(FactOf[t]) THEN NextTopic(Without(gov.left, t))
            ELSE [at |-> "create", i |-> gov.i, left |-> gov.left, topic |-> t]
  /\ UNCHANGED <<cards, evidence, pass, packet, runs, log, counts>>

\* The fact asserts what the first of its events asserts, in the order of a
\* map.  Made by someone else meanwhile, it ends the upgrade of the scope.
UpgradeCreate ==
  /\ gov.at = "create"
  /\ LET fact == FactOf[gov.topic]
         sources == gov.left[gov.topic]
     IN  \/ /\ Exists(fact)
            /\ gov' = AfterScope(gov.i)
            /\ UNCHANGED <<cards, evidence>>
         \/ /\ ~Exists(fact)
            /\ \E s \in sources : CreateCard(fact, "candidate", 1000, s[2])
            /\ refs' = [refs EXCEPT ![fact] = {s[1] : s \in sources}]
            /\ gov' = [at |-> "link", i |-> gov.i, left |-> Without(gov.left, gov.topic),
                       fact |-> fact, todo |-> {s[1] : s \in sources}]
            /\ UNCHANGED <<edges, cut>>
  /\ UNCHANGED <<pass, packet, runs, log, counts>>

\* One evidence edge; the last one ends the topic.
UpgradeLink(c) ==
  /\ gov.at = "link" /\ c \in gov.todo
  /\ edges' = edges \cup {<<c, gov.fact>>}
  /\ gov' = IF gov.todo = {c} THEN NextTopic(gov.left) ELSE [gov EXCEPT !.todo = @ \ {c}]
  /\ UNCHANGED <<cards, refs, cut, pass, packet, runs, log, counts>>

\* The write of the fact card fails after the map has it, or an edge's fails
\* and nobody looks at the error.
UpgradeFails ==
  /\ faults < MaxFaults
  /\ faults' = faults + 1
  /\ \/ /\ gov.at = "create" /\ ~Exists(FactOf[gov.topic])
        /\ \E s \in gov.left[gov.topic] : CreateCard(FactOf[gov.topic], "candidate", 1000, s[2])
        /\ refs' = [refs EXCEPT ![FactOf[gov.topic]] = {s[1] : s \in gov.left[gov.topic]}]
        /\ cut' = cut \cup {FactOf[gov.topic]}
        /\ gov' = AfterScope(gov.i)
     \/ /\ gov.at = "link"
        /\ \E c \in gov.todo :
             gov' = IF gov.todo = {c} THEN NextTopic(gov.left) ELSE [gov EXCEPT !.todo = @ \ {c}]
        /\ cut' = cut \cup {gov.fact}
        /\ UNCHANGED <<cards, refs>>
  /\ UNCHANGED <<edges, pass, packet, runs, log, world, edits, turns>>

\* DetectConflicts asks for the active facts, then for the candidates.
ConflictActive ==
  /\ gov.at = "active"
  /\ gov' = [at |-> "candidates", i |-> gov.i,
             seen |-> {<<c, text[c]>> : c \in Query("fact", ConflictScopes[gov.i], "active")}]
  /\ UNCHANGED <<cards, evidence, pass, packet, runs, log, counts>>

\* contentConflict: same topic, different assertions.
Contradict(a, b) == Topic[a[1]] = Topic[b[1]] /\ a[2] # b[2]

Pairs(all) ==
  {{q[1][1], q[2][1]} : q \in {q \in all \X all : q[1][1] # q[2][1] /\ Contradict(q[1], q[2])}}

\* Mutant: only the active facts are compared.
MutReportActive ==
  /\ gov.at = "candidates"
  /\ log' = log \cup Pairs(gov.seen)
  /\ gov' = IF gov.i < Len(ConflictScopes) THEN [at |-> "active", i |-> gov.i + 1] ELSE Idle
  /\ UNCHANGED <<cards, evidence, pass, packet, runs, counts>>

ConflictReport ==
  /\ gov.at = "candidates"
  /\ log' = log \cup Pairs(gov.seen \cup
                {<<c, text[c]>> : c \in Query("fact", ConflictScopes[gov.i], "candidate")})
  /\ gov' = IF gov.i < Len(ConflictScopes) THEN [at |-> "active", i |-> gov.i + 1] ELSE Idle
  /\ UNCHANGED <<cards, evidence, pass, packet, runs, counts>>

Govern ==
  \/ Tick
  \/ UpgradeQuery
  \/ \E t \in DOMAIN FactOf : UpgradeLook(t)
  \/ UpgradeCreate
  \/ \E c \in Card : UpgradeLink(c)
  \/ ConflictActive
  \/ ConflictReport

-----------------------------------------------------------------------------
(***************************************************************************)
(* Consolidation                                                           *)
(***************************************************************************)

Procedure == {c \in Card : CardType[c] = "procedure"}
Class == {Topic[c] : c \in Procedure}

\* A task is done: it carries the steps of a procedure, or only its class.
TaskDone(k) ==
  /\ world \cap Procedure # {} /\ runs[k] < MinRuns
  /\ runs' = [runs EXCEPT ![k] = @ + 1]
  /\ UNCHANGED <<cards, evidence, gov, pass, packet, log, counts>>

Ready(S) == {k \in S : runs[k] >= MinRuns}

\* runMemoryConsolidate: ListTasks, when procedures are to be extracted.
\* todo: the procedures to create; ask: the classes to ask the model about.
Consolidate(p, req) ==
  /\ pass[p] = Idle
  /\ pass' = [pass EXCEPT ![p] =
       [at |-> "extract", req |-> req, class |-> "none",
        todo |-> IF req.extract THEN Ready(Procedure) ELSE {},
        ask |-> IF req.smart THEN Ready(Class) ELSE {}]]
  /\ UNCHANGED <<cards, evidence, gov, packet, runs, log, counts>>

\* BuildProcedureCandidates: a procedure that is there already stays as it is.
ExtractProcedure(p, c) ==
  /\ pass[p].at = "extract" /\ c \in pass[p].todo
  /\ pass' = [pass EXCEPT ![p].todo = @ \ {c}]
  /\ IF Exists(c) THEN UNCHANGED cards
     ELSE CreateCard(c, "candidate", 1000, Says[c])
  /\ UNCHANGED <<evidence, gov, packet, runs, log, counts>>

\* A class with a procedure in force or waiting needs no other.
Covered(k) == \E c \in Procedure : Topic[c] = k /\ status[c] \in {"active", "candidate"}

\* extractSmartProcedureCandidates: one class at a time, a question to the
\* model for each class that is not covered.
SmartLook(p, k) ==
  /\ pass[p].at = "extract" /\ pass[p].todo = {} /\ k \in pass[p].ask
  /\ pass' = [pass EXCEPT ![p].ask = @ \ {k},
                          ![p].at = IF Covered(k) THEN @ ELSE "asked",
                          ![p].class = k]
  /\ UNCHANGED <<cards, evidence, gov, packet, runs, log, counts>>

\* The model's steps make a procedure of the class, or it gives none.
SmartAnswer(p) ==
  /\ pass[p].at = "asked"
  /\ pass' = [pass EXCEPT ![p].at = "extract"]
  /\ \/ UNCHANGED cards
     \/ \E c \in Procedure :
          Topic[c] = pass[p].class /\ ~Exists(c) /\ CreateCard(c, "candidate", 1000, Says[c])
  /\ UNCHANGED <<evidence, gov, packet, runs, log, counts>>

\* The n oldest cards of a set, all of them when n is 0.
FirstOf(S, n) ==
  {c \in S : n = 0 \/ Cardinality({d \in S : born[d] < born[c]}) < n}

\* Where a pass goes on: it is over when nothing is left of it.
Rest(r) == IF r.todo = {} /\ r.drop = {} /\ r.target = NoCard THEN Idle ELSE r

\* PromoteCandidates asks for the candidates once.  todo: those to promote;
\* drop: those to archive; was: the versions it read.
PromoteQuery(p) ==
  /\ pass[p].at = "extract" /\ pass[p].todo = {} /\ pass[p].ask = {}
  /\ LET req == pass[p].req
         found == Query(req.type, req.scope, "candidate")
         first == FirstOf(found, req.limit)
     IN  pass' = [pass EXCEPT ![p] = Rest(
           [at |-> "promote", todo |-> first, target |-> NoCard,
            drop |-> IF req.archive THEN found \ first ELSE {},
            was |-> [c \in found |-> [text |-> text[c], scope |-> scope[c], over |-> over[c],
                                      refs |-> refs[c]]]])]
  /\ UNCHANGED <<cards, evidence, gov, packet, runs, log, counts>>

\* A candidate becomes active as it was read: its scope, content and evidence
\* are written back.
PromoteCard(p, c) ==
  LET card == pass[p].was[c]
  IN  /\ UpdateAs(c, "active", card.text)
      /\ scope' = [scope EXCEPT ![c] = card.scope]
      /\ refs' = [refs EXCEPT ![c] = Given(card.refs, {}, refs[c])]
      /\ pass' = [pass EXCEPT ![p] =
           Rest([pass[p] EXCEPT !.todo = @ \ {c}, !.target = card.over])]
      /\ UNCHANGED <<over, byhand, edges, cut, gov, packet, runs, log, counts>>

\* Mutant: the candidates are promoted newest first.
MutPromoteNewest(p) ==
  /\ pass[p].at = "promote" /\ pass[p].todo # {} /\ pass[p].target = NoCard
  /\ PromoteCard(p, Newest(pass[p].todo))

Promote(p) ==
  /\ pass[p].at = "promote" /\ pass[p].todo # {} /\ pass[p].target = NoCard
  /\ PromoteCard(p, Oldest(pass[p].todo))

\* The card the promoted one replaces, when it exists.
Supersede(p) ==
  /\ pass[p].at = "promote" /\ pass[p].target # NoCard
  /\ IF Exists(pass[p].target) THEN UpdateCard(pass[p].target, "superseded")
     ELSE UNCHANGED cards
  /\ pass' = [pass EXCEPT ![p] = Rest([pass[p] EXCEPT !.target = NoCard])]
  /\ UNCHANGED <<evidence, gov, packet, runs, log, counts>>

ArchiveRemaining(p) ==
  /\ pass[p].at = "promote" /\ pass[p].todo = {} /\ pass[p].target = NoCard
  /\ pass[p].drop # {}
  /\ LET c == Oldest(pass[p].drop)
     IN  /\ UpdateCard(c, "archived")
         /\ pass' = [pass EXCEPT ![p] = Rest([pass[p] EXCEPT !.drop = @ \ {c}])]
  /\ UNCHANGED <<evidence, gov, packet, runs, log, counts>>

\* A write of the pass fails: it returns what it has done so far.
PassFails(p) ==
  /\ pass[p].at = "promote" /\ pass[p].target = NoCard
  /\ faults < MaxFaults
  /\ faults' = faults + 1
  /\ pass' = [pass EXCEPT ![p] = Idle]
  /\ UNCHANGED <<cards, evidence, gov, packet, runs, log, world, edits, turns>>

PassStep(p) ==
  \/ \E c \in Procedure : ExtractProcedure(p, c)
  \/ \E k \in Class : SmartLook(p, k)
  \/ SmartAnswer(p)
  \/ PromoteQuery(p)
  \/ Promote(p)
  \/ Supersede(p)
  \/ ArchiveRemaining(p)

-----------------------------------------------------------------------------
(***************************************************************************)
(* Recall and use                                                          *)
(***************************************************************************)

\* sourceForCardType; a card of another type is never recalled.
Source(c) ==
  CASE CardType[c] \in {"web_search", "search_summary", "web_result"} -> "web"
    [] CardType[c] \in {"email_inbox", "email_summary", "email_thread", "email_message"} -> "email"
    [] CardType[c] \in {"github_issue_search", "github_issue_summary", "github_issue"} -> "github"
    [] CardType[c] = "procedure" -> "procedure"
    [] OTHER -> "none"

\* baseWeight, in tenths.
baseWeight(c) ==
  CASE CardType[c] \in {"search_summary", "email_summary", "github_issue_summary"} -> 40
    [] CardType[c] = "email_thread" -> 35
    [] CardType[c] \in {"web_result", "email_message", "github_issue"} -> 30
    [] CardType[c] = "procedure" -> 38
    [] CardType[c] \in {"web_search", "email_inbox", "github_issue_search"} -> 20
    [] OTHER -> 10

\* A hit ranks before another by weight, then by age, newest first.
RankedBefore(a, b) ==
  baseWeight(a) > baseWeight(b) \/ (baseWeight(a) = baseWeight(b) /\ born[a] > born[b])

\* Recall: the first limit active cards of these sources about the topics cue.
Recall(cue, sources, limit) ==
  LET hits == {c \in Card : status[c] = "active" /\ Source(c) \in sources /\ Topic[c] \in cue}
  IN  {c \in hits : Cardinality({d \in hits : RankedBefore(d, c)}) < limit}

MaxProcedureHits == 1
MaxSemanticHits == 3
Semantic == {"web", "email", "github"}

\* sourcePolicyForSkill.
SourcesOf(skill) ==
  CASE skill = "web-search" -> {"web"}
    [] skill = "email-inbox" -> {"email"}
    [] skill = "github-issue-search" -> {"github"}
    [] OTHER -> Semantic

\* A turn keeps the packet it built until its answer is there.  Only the
\* procedure and semantic hits are rewarded; without any nothing is kept.
Hold(u, proc, sem) ==
  /\ packet[u] = Idle /\ turns < MaxTurns
  /\ proc \cup sem # {}
  /\ packet' = [packet EXCEPT ![u] = [at |-> "held", proc |-> proc, sem |-> sem]]
  /\ turns' = turns + 1
  /\ UNCHANGED <<cards, evidence, gov, pass, runs, log, world, edits, faults>>

BuildFastPacket(u, cue) ==
  Hold(u, Recall(cue, {"procedure"}, MaxProcedureHits), Recall(cue, Semantic, 2))

BuildTaskPacket(u, cue, skill) ==
  Hold(u, Recall(cue, {"procedure"}, MaxProcedureHits), Recall(cue, SourcesOf(skill), MaxSemanticHits))

\* outcomeFeedbackWeights, for the activation, in tenths.
outcomeWeight(outcome) ==
  CASE outcome \in {"awaiting_approval", "blocked"} -> 6
    [] outcome = "failed" -> 2
    [] OTHER -> 10

procedureFeedbackDelta(class, outcome) ==
  outcomeWeight(outcome) *
    (CASE class \in {"task-plan", "memory-consolidate"} -> 10
       [] class \in {"direct_reply", "followup_reply"} -> 6
       [] OTHER -> 8)

semanticFeedbackDelta(class, outcome) ==
  outcomeWeight(outcome) *
    (CASE class \in {"task-plan", "memory-consolidate"} -> 5
       [] class \in {"direct_reply", "followup_reply"} -> 3
       [] OTHER -> 4)

\* RecordPacketUse and ApplyFeedback: one delta for each card of the packet.
RecordPacketUse(u, class, outcome) ==
  /\ packet[u].at = "held"
  /\ packet' = [packet EXCEPT ![u] =
       [at |-> "touch",
        todo |-> [c \in packet[u].proc \cup packet[u].sem |->
                    IF c \in packet[u].proc THEN procedureFeedbackDelta(class, outcome)
                    ELSE semanticFeedbackDelta(class, outcome)]]]
  /\ UNCHANGED <<cards, evidence, gov, pass, runs, log, counts>>

ApplyFeedback(u, c) ==
  /\ packet[u].at = "touch" /\ c \in DOMAIN packet[u].todo
  /\ TouchCard(c, packet[u].todo[c])
  /\ packet' = [packet EXCEPT ![u] =
       IF DOMAIN packet[u].todo = {c} THEN Idle
       ELSE [at |-> "touch", todo |-> Without(packet[u].todo, c)]]
  /\ UNCHANGED <<evidence, gov, pass, runs, log, counts>>

-----------------------------------------------------------------------------
(***************************************************************************)
(* Users, chat events and crashes                                          *)
(***************************************************************************)

\* recordChatEvent.
RecordChatEvent(c) ==
  /\ c \in world /\ CardType[c] = "event" /\ ~Exists(c)
  /\ CreateCard(c, "active", 900, Says[c])
  /\ UNCHANGED <<evidence, gov, pass, packet, runs, log, counts>>

\* The cards of what a search or an inbox returned.
Found == {c \in Card : CardType[c] \in {"web_result", "github_issue", "email_thread", "email_message"}}

\* upsertCard: a result that is found again is a candidate again, whatever
\* has become of its card.
UpsertCard(c) ==
  /\ c \in world \cap Found
  /\ \/ ~Exists(c) /\ CreateCard(c, "candidate", 1000, Says[c]) /\ UNCHANGED edits
     \/ /\ Exists(c) /\ edits < MaxEdits
        /\ UpdateAs(c, "candidate", Says[c])
        /\ scope' = [scope EXCEPT ![c] = ScopeOf[c]]
        /\ edits' = edits + 1
        /\ UNCHANGED <<over, byhand>>
  /\ UNCHANGED <<evidence, gov, pass, packet, runs, log, world, turns, faults>>

\* The card as a request labels it.  The ledger takes the card unless the
\* request leaves to the program what the program keeps: ok.
Label(c, e, place, ok) ==
  /\ scope' = [scope EXCEPT ![c] = Given(e.scope, "none", place)]
  /\ over' = [over EXCEPT ![c] = Given(e.supersedes, NoCard, @)]
  /\ refs' = [refs EXCEPT ![c] = Given(e.evidence, {}, @)]
  /\ byhand' = IF ok /\ e.evidence = {} THEN byhand ELSE byhand \cup {c}
  /\ UNCHANGED <<edges, cut>>

\* handleCreateCard: a user creates a card with any status (active when none is
\* given), superseding any card, there or not.  To replace a card as the
\* consolidations do, the new one has to be made after it, as a candidate.
HandCreate(c, e) ==
  /\ c \in world /\ ~Exists(c)
  /\ CreateAs(c, Given(e.status, "none", "active"), 1000, Given(e.content, "none", Says[c]))
  /\ Label(c, e, ScopeOf[c],
           e.supersedes # NoCard => e.status = "candidate" /\ Exists(e.supersedes))
  /\ UNCHANGED <<gov, pass, packet, runs, log, counts>>

\* handleUpdateCard: a user sets any of the fields, the status to any status.
HandEdit(c, e) ==
  /\ Exists(c) /\ edits < MaxEdits
  /\ UpdateAs(c, Given(e.status, "none", status[c]), Given(e.content, "none", text[c]))
  /\ Label(c, e, scope[c],
           e.supersedes = NoCard /\ e.status \in {"none", "superseded", "archived"})
  /\ edits' = edits + 1
  /\ UNCHANGED <<gov, pass, packet, runs, log, world, turns, faults>>

\* The process dies: the cards stay, what was being done to them is lost.
LifeCrash ==
  /\ faults < MaxFaults
  /\ faults' = faults + 1
  /\ gov' = Idle
  /\ pass' = [p \in Task |-> Idle]
  /\ packet' = [u \in Turn |-> Idle]
  /\ cut' = IF gov.at = "link" THEN cut \cup {gov.fact} ELSE cut
  /\ UNCHANGED <<cards, refs, edges, runs, log, world, edits, turns>>

-----------------------------------------------------------------------------
LifeInit ==
  /\ status = [c \in Card |-> "none"]
  /\ score = [c \in Card |-> 0]
  /\ age = [c \in Card |-> 0]
  /\ born = [c \in Card |-> 0]
  /\ text = [c \in Card |-> "none"]
  /\ scope = ScopeOf
  /\ over = [c \in Card |-> NoCard]
  /\ byhand = {}
  /\ refs = [c \in Card |-> {}]
  /\ edges = {} /\ cut = {} /\ log = {}
  /\ gov = Idle
  /\ pass = [p \in Task |-> Idle]
  /\ packet = [u \in Turn |-> Idle]
  /\ runs = [k \in Procedure \cup Class |-> 0]
  /\ world \in Worlds
  /\ edits = 0 /\ turns = 0 /\ faults = 0

LifeNext ==
  \/ Clock
  \/ SchedulerDecay
  \/ Govern
  \/ UpgradeFails
  \/ \E k \in Procedure \cup Class : TaskDone(k)
  \/ \E p \in Task : \/ \E req \in Requests : Consolidate(p, req)
                      \/ PassStep(p)
                      \/ PassFails(p)
  \/ \E u \in Turn :
       \/ \E cue \in SUBSET {Topic[c] : c \in Card} :
            \/ BuildFastPacket(u, cue)
            \/ \E skill \in {"web-search", "task-plan"} : BuildTaskPacket(u, cue, skill)
       \/ \E use \in Usages : RecordPacketUse(u, use[1], use[2])
       \/ \E c \in Card : ApplyFeedback(u, c)
  \/ \E c \in Card :
       \/ RecordChatEvent(c)
       \/ UpsertCard(c)
       \/ \E e \in CreateRequests[c] : HandCreate(c, e)
       \/ \E e \in UpdateRequests[c] : HandEdit(c, e)
  \/ LifeCrash

\* The governance goroutine loops for as long as the process runs; a
\* consolidation and a turn that have begun are carried on; time passes.
Fairness ==
  /\ WF_lifeVars(Clock)
  /\ WF_lifeVars(Govern)
  /\ \A p \in Task : WF_lifeVars(PassStep(p))

LifeSpec == LifeInit /\ [][LifeNext]_lifeVars /\ Fairness

-----------------------------------------------------------------------------
(***************************************************************************)
(* Properties                                                              *)
(***************************************************************************)

\* The type invariant.
LifeTypeOK ==
  /\ status \in [Card -> Status \cup {"none"}]
  /\ score \in [Card -> 0..1000]
  /\ age \in [Card -> 0..MaxAge]
  /\ born \in [Card -> 0..Cardinality(Card)]
  /\ text \in [Card -> Text \cup {"none"}]
  /\ scope \in [Card -> Scope]
  /\ over \in [Card -> Card \cup {NoCard}]
  /\ byhand \subseteq Card
  /\ refs \in [Card -> SUBSET Card]
  /\ edges \subseteq Card \X Card
  /\ cut \subseteq Card
  /\ runs \in [Procedure \cup Class -> 0..MinRuns]
  /\ edits \in 0..MaxEdits /\ turns \in 0..MaxTurns /\ faults \in 0..MaxFaults
  /\ \A c \in Card : Exists(c) <=> born[c] > 0
  /\ \A c, d \in Card : Exists(c) /\ born[c] = born[d] => c = d

Gone == {"stale", "superseded", "archived"}

\* The cards a consolidation has queried and not yet promoted.
HeldBy(p) == IF pass[p].at = "promote" THEN pass[p].todo ELSE {}
HeldCards == UNION {HeldBy(p) : p \in Task}

\* A user gives the card another status (handleUpdateCard).
SetByHand(c) == \E e \in UpdateRequests[c] : e.status # "none" /\ HandEdit(c, e)

\* A card that has gone stale, was superseded or archived stays out of use,
\* and no later consolidation takes it up, unless a user gives this very card
\* another status: neither the feedback on a packet recalled while it was
\* active (TouchCard, ApplyFeedback) nor decay nor an upgrade brings it back.
\* Only a consolidation that had queried it as a candidate before may still
\* promote it (PromoteCandidates), and only what is found by a new search is a
\* candidate again (upsertCard).
NoRevival ==
  [][\A c \in Card : status[c] \in Gone /\ c \notin HeldCards =>
       /\ \/ status'[c] \in Gone
          \/ c \in Found /\ status'[c] = "candidate"
          \/ SetByHand(c)
       /\ c \notin HeldCards']_lifeVars

\* Between consolidations, as long as no write failed, a card that was
\* promoted to supersede another has put it out of use, though both may have
\* been candidates of one pass that had queried them before either was
\* written (PromoteCandidates: oldest first).  This is so of cards whose status
\* and supersession were left to the program: a user may make the one active
\* at once, or revive the other (handleCreateCard, handleUpdateCard).  A search
\* result may come back when it is found again.
SupersededOut ==
  (\A p \in Task : pass[p] = Idle) /\ faults = 0 =>
    \A c \in Card \ byhand : status[c] = "active" /\ over[c] \in Card \ (Found \cup byhand) =>
      status[over[c]] \in {"superseded", "archived"}

\* A fact made from events has an edge from every event its evidence names,
\* once the governance loop has gone on, unless a fault ended the upgrade or a
\* user named the evidence (UpgradeEventsToFacts; nothing repairs the edges
\* later).
EvidenceLinked ==
  \A f \in Card \ (cut \cup byhand) : \A e \in refs[f] :
    <<e, f>> \in edges \/ (gov.at = "link" /\ gov.fact = f /\ e \in gov.todo)

\* What cards say of each other is so, and they keep their types:
\* SupersededOut, EvidenceLinked and LifeTypeOK.
CardsConsistent == LifeTypeOK /\ SupersededOut /\ EvidenceLinked

\* The cards in use whose score decays.
Lively == {c \in Card : Decays(c) /\ status[c] \in {"active", "stale"}}

\* No card whose score decays stays in use for ever: once no more cards are
\* made (their number is bounded), all of them are archived or superseded in
\* the end, whatever use gave back to them (DecayAndCompact, the loop).
Forgotten == []<>(Lively = {})

Conflict(c, d) ==
  /\ CardType[c] = "fact" /\ CardType[d] = "fact"
  /\ scope[c] = scope[d] /\ Topic[c] = Topic[d] /\ text[c] # text[d]
  /\ \E i \in DOMAIN ConflictScopes : ConflictScopes[i] \in {"", scope[c]}
  /\ {status[c], status[d]} \subseteq {"active", "candidate"}

\* Two facts of one scope the loop searches that contradict each other are
\* reported, unless they stop doing so: although the loop asks for active facts
\* and for candidates one after the other and may miss a card that is promoted
\* in between (DetectConflicts), a later tick sees it.
ConflictReported == []<>(\A c, d \in Card : c # d /\ Conflict(c, d) => {c, d} \in log)
=============================================================================
