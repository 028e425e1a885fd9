------------------------------ MODULE MCConsole ------------------------------
(***************************************************************************)
(* The instance of Console: two terminals, two browser tabs, a loop of two *)
(* rounds with two tools, a stream cut in three ways, one message sent from*)
(* the page and one from elsewhere, two scenarios run twice in the same or *)
(* in different seconds.                                                   *)
(***************************************************************************)
EXTENDS Console, TLC

\* Settings: one hosted provider, one that is configured by hand, and none.
PerProfile(a, b, c) == [conversation |-> a, routing |-> b, skills |-> c]
MCDefaultBase == "openai" :> "api"
MCDefaultModel == "openai" :> "mini"
MCForms == {
  [provider |-> "openai", base |-> "", key |-> "k1", model |-> PerProfile("", "small", ""),
   tokens |-> PerProfile(9000, NoValue, -1), temp |-> PerProfile(30, NoValue, 0)],
  [provider |-> "other", base |-> "own", key |-> "", model |-> PerProfile("big", "", ""),
   tokens |-> PerProfile(NoValue, 500, NoValue), temp |-> PerProfile(NoValue, NoValue, 5)],
  [provider |-> "none", base |-> "", key |-> "k1", model |-> PerProfile("", "", ""),
   tokens |-> PerProfile(NoValue, NoValue, NoValue),
   temp |-> PerProfile(NoValue, NoValue, NoValue)]}
NoVars == [provider |-> "", name |-> "", key |-> [p \in Providers |-> ""],
           base |-> [p \in Providers |-> ""]]
MCEnvs == {NoVars, [NoVars EXCEPT !.provider = "openai", !.name = "named", !.key["openai"] = "k2"]}
MCAsked == {[profile |-> "", tokens |-> 2048, temp |-> 2],
            [profile |-> "routing", tokens |-> 0, temp |-> 0]}

\* A turn: one tool that may fail and one that does not, calls that are good,
\* without arguments that parse, or of no tool; chunks with and without text,
\* with white space, halves of a mark and a list item, and with the second call
\* before the first.
MCTools == ("read" :> {"text", "error"}) @@ ("info" :> {"text"})
MCCalls == {[id |-> "1", name |-> "read", args |-> "ok"], [id |-> "", name |-> "info", args |-> "bad"],
            [id |-> "1", name |-> "", args |-> "ok"]}
Fragment(i, id, name, args) == [index |-> i, id |-> id, name |-> name, args |-> args]
MCChunks == {
  [text |-> <<"a">>, calls |-> <<>>], [text |-> <<" ">>, calls |-> <<>>],
  [text |-> <<"*">>, calls |-> <<>>], [text |-> <<>>, calls |-> <<>>],
  [text |-> <<>>, calls |-> <<Fragment(1, "x", "f", <<"p">>)>>],
  [text |-> <<"eol", "-", " ", "b">>,
   calls |-> <<Fragment(0, "y", "", <<>>), Fragment(1, "", "", <<"q">>)>>]}

\* The page: what is added to an answer has text and markup.
MCParts == {<<"a", "*">>}

\* The harness: a scenario with a file and one without, a file laid out in two
\* ways and another file; a scope that is everything (a blank tag) and one that
\* is the first scenario.
MCScenarioList == <<
  [name |-> "mail", tags |-> {"Chat"}, lane |-> "smoke", steps |-> <<[id |-> "a", files |-> 1]>>,
   asserts |-> <<[kind |-> "state", step |-> "a", want |-> "done"],
                 [kind |-> "file", step |-> "a", want |-> 1]>>],
  [name |-> "plan", tags |-> {}, lane |-> "soak", steps |-> <<[id |-> "b", files |-> 0]>>,
   asserts |-> <<[kind |-> "count", step |-> "b", want |-> 0]>>]>>
MCslugify == ("mail" :> "mail") @@ ("plan" :> "plan")
MCcanonical == ("Chat" :> "chat") @@ ("chat" :> "chat") @@ (" " :> "")
MCScopes == {[tags |-> {" "}, lane |-> ""], [tags |-> {"chat"}, lane |-> "smoke"]}
Ends(outcome, kind, value, layout) ==
  [outcome |-> outcome, content |-> [kind |-> kind, value |-> value, layout |-> layout]]
MCStepResults == {Ends("done", "json", 1, 1), Ends("done", "json", 1, 2), Ends("failed", "text", 2, 1)}
MCSeconds == <<"t1", "t2">>
=============================================================================
