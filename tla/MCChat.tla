------------------------------- MODULE MCChat -------------------------------
(***************************************************************************)
(* Bounded instances of Chat: "go" is a yes to a card, "stop" a no, and    *)
(* "search" and "edit" ask for work.                                       *)
(***************************************************************************)
EXTENDS Chat

MCText == {"go", "stop", "search", "edit"}

MCMarks ==
  [go |-> {"affirmative", "yes", "ack", "short", "tiny"},
   stop |-> {"negative", "no", "short", "tiny"},
   search |-> {"operational", "strong", "web-search"},
   edit |-> {"operational", "verb", "file-edit"}]

Kind(t, profile, async) ==
  [text |-> t, profile |-> profile, async |-> async, source |-> "web-chat"]

Tagged(t) ==
  [text |-> t, profile |-> "user", async |-> TRUE, source |-> "intent-confirmation"]

MCKinds ==
  {Kind("go", "user", TRUE), Kind("stop", "user", FALSE),
   Kind("search", "user", TRUE), Kind("edit", "user", FALSE),
   Kind("search", "root", FALSE), Tagged("edit")}

MCContexts == {{}}

MCAnswers ==
  {NoAnswer,
   [act |-> "confirm", kind |-> "task_request", skill |-> "web-search",
    scope |-> "focused_task", confidence |-> 90]}
=============================================================================
