---------------------------- MODULE ChatRouting ----------------------------
(***************************************************************************)
(* How a chat turn is routed (internal/chat/route_agent.go, intent.go,     *)
(* dialogue_agent.go, skill_agent.go): which dialogue act it is, whether   *)
(* it is answered or becomes a task, and of which skill.                   *)
(*                                                                         *)
(* A message is the set of the marks the code looks for in its text; so is *)
(* the recent conversation.  Confidences are in hundredths.  The session   *)
(* state contributes its pending question and its focused task (0: none).  *)
(***************************************************************************)
EXTENDS Integers, Sequences, SequencesExt, FiniteSetsExt

FollowupActs == {"continue_task", "confirm", "answer_question"}
Acts == FollowupActs \cup {"chat", "new_task", "deny", "clarify", "switch_topic"}

Decision(value, confidence) == [value |-> value, confidence |-> confidence]
Undecided == Decision("", 0)

\* The first rule <<condition, decision>> whose condition holds.
FirstOf(rules) ==
  LET hold == {i \in DOMAIN rules : rules[i][1]}
  IN  IF hold = {} THEN Undecided ELSE rules[Min(hold)][2]

PicksListed(m, ctx) == "listchoice" \in m /\ "choice" \in ctx

heuristicDialogueDecision(m, ctx, st) ==
  FirstOf(<<
    << PicksListed(m, ctx), Decision("answer_question", 91) >>,
    << "affirmative" \in m /\ st.question, Decision("confirm", 92) >>,
    << "negative" \in m /\ st.question, Decision("deny", 90) >>,
    << "continue" \in m /\ st.focus # 0, Decision("continue_task", 90) >>,
    << "social" \in m, Decision("chat", 88) >>,
    << st.question /\ "short" \in m, Decision("answer_question", 75) >>,
    << ctx # {} /\ "switch" \in m, Decision("switch_topic", 80) >>,
    << "operational" \in m, Decision("new_task", 85) >> >>)

heuristicIntentDecision(m, ctx) ==
  LET command == "question" \notin m IN
  FirstOf(<<
    << "lookup" \in m, Decision("direct_reply", 93) >>,
    << PicksListed(m, ctx), Decision("direct_reply", 92) >>,
    << "affirmative" \in m /\ "continuation" \in ctx, Decision("direct_reply", 90) >>,
    << "greeting" \in m, Decision("direct_reply", 99) >>,
    << "ack" \in m, Decision("direct_reply", 95) >>,
    << "strong" \in m, Decision("task_request", 92) >>,
    << "verb" \in m /\ command, Decision("task_request", 88) >>,
    << "noun" \in m /\ command, Decision("task_request", 78) >>,
    << "path" \in m /\ command, Decision("task_request", 82) >>,
    << "tiny" \in m, Decision("direct_reply", 72) >>,
    << ~command, Decision("direct_reply", 85) >> >>)

Skills == {"task-plan", "web-search", "github-issue-search", "email-inbox",
           "memory-consolidate", "file-read", "file-edit", "shell-command"}

\* The skills in the order their marks are looked for; "mkdir" marks a
\* request to create a directory.
heuristicSkillDecision(m, ctx) ==
  FirstOf(<<
    << "affirmative" \in m /\ "research" \in ctx, Decision("web-search", 82) >>,
    << "web-search" \in m, Decision("web-search", 92) >>,
    << "github-issue-search" \in m, Decision("github-issue-search", 90) >>,
    << "email-inbox" \in m, Decision("email-inbox", 90) >>,
    << "memory-consolidate" \in m, Decision("memory-consolidate", 88) >>,
    << "mkdir" \in m, Decision("shell-command", 84) >>,
    << "file-edit" \in m, Decision("file-edit", 86) >>,
    << "file-read" \in m, Decision("file-read", 86) >>,
    << "shell-command" \in m, Decision("shell-command", 84) >> >>)

\* One skill is marked in the message or the conversation; memory-consolidate
\* has no mark here.
prefilterCandidateSkills(m, ctx, st) ==
  LET text == m \cup ctx
      focused == IF st.focus # 0 /\ "continue" \in text
                 THEN <<"web-search", "email-inbox", "github-issue-search", "task-plan">>
                 ELSE <<>>
      marked == FirstOf(
        [i \in 1..7 |->
           LET mark == <<"web-search", "github-issue-search", "email-inbox", "mkdir",
                         "file-edit", "file-read", "shell-command">>[i]
           IN  << mark \in text,
                  Decision(IF mark = "mkdir" THEN "shell-command" ELSE mark, 0) >>])
      add(s, skill) == IF skill = "" \/ Contains(s, skill) THEN s ELSE Append(s, skill)
  IN  add(add(focused, marked.value), "task-plan")

heuristicSkillDecisionWithCandidates(m, ctx, candidates) ==
  LET d == heuristicSkillDecision(m, ctx)
  IN  IF d = Undecided \/ Contains(candidates, d.value) THEN d
      ELSE Decision(candidates[1], 60)

inferTargetScope(act, kind, st) ==
  IF act \in FollowupActs /\ st.focus # 0 THEN "focused_task"
  ELSE IF kind = "direct_reply" THEN "session" ELSE "new_task"

heuristicRouteDecision(m, ctx, st) ==
  LET d0 == heuristicDialogueDecision(m, ctx, st)
      d  == IF d0 = Undecided THEN Decision("new_task", 55) ELSE d0
      i0 == heuristicIntentDecision(m, ctx)
      i  == IF i0 # Undecided THEN i0
            ELSE Decision(IF d.value \in FollowupActs \cup {"chat"}
                          THEN "direct_reply" ELSE "task_request", d.confidence)
      s0 == heuristicSkillDecisionWithCandidates(m, ctx, prefilterCandidateSkills(m, ctx, st))
      s  == IF i.value = "direct_reply" THEN Undecided
            ELSE IF s0 = Undecided THEN Decision("task-plan", 55) ELSE s0
  IN  [act |-> d.value, kind |-> i.value, skill |-> s.value,
       scope |-> inferTargetScope(d.value, i.value, st),
       confidence |-> Max({d.confidence, i.confidence, s.confidence})]

NoAnswer == [act |-> ""]

\* The model's routing, validated: NoAnswer stands for no model, an error, and
\* an answer that is not valid JSON or names an unknown act, kind or skill.
modelDecision(answer) ==
  IF answer = NoAnswer \/ answer.act \notin Acts
       \/ answer.kind \notin {"direct_reply", "task_request"}
       \/ answer.skill \notin Skills \cup {""}
  THEN NoAnswer ELSE answer

\* RouteAgent.Decide: the model's answer, unless the heuristic is sure of a
\* reply, holds on to the focused task, or sees a lookup or a list choice.
Decide(m, ctx, st, answer) ==
  LET h == heuristicRouteDecision(m, ctx, st)
      a == modelDecision(answer)
      overreach == h.kind = "direct_reply" /\ a.kind = "task_request"
      keepHeuristic ==
        \/ a = NoAnswer
        \/ overreach /\ h.confidence >= 85 /\ a.confidence < 85
        \/ h.scope = "focused_task" /\ h.act \in FollowupActs /\ a.scope # "focused_task"
        \/ overreach /\ ("lookup" \in m \/ PicksListed(m, ctx))
  IN  IF keepHeuristic THEN h ELSE a
=============================================================================
