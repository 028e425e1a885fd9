----------------------------- MODULE ChatStream -----------------------------
(***************************************************************************)
(* How the chat page of the console follows the stored messages.  The      *)
(* server compares the messages with those it last sent, every 300 ms, and *)
(* sends the difference as server-sent events (handleWebChatEvents of      *)
(* internal/api/web.go); the page applies them, shows a message that is    *)
(* being sent before it is stored, and fetches the whole list 300 and      *)
(* 1200 ms after each send and when the connection was lost (the script of *)
(* internal/api/web_templates.go).  Messages are also stored from other    *)
(* pages, and an answer changes until it settles, also after its session   *)
(* was deleted: it comes back then, after what was stored since.           *)
(*                                                                         *)
(* A text is the sequence of its pieces; the piece "*" is markup, which a  *)
(* rendered text does not show.  A send gives the ids of its two messages. *)
(***************************************************************************)
EXTENDS Integers, Sequences, FiniteSets, SequencesExt

CONSTANTS
  Here,         \* messages sent from this page
  Elsewhere,    \* messages sent from other pages
  Parts,        \* parts of answers: sequences of pieces
  Delays,       \* when the page fetches after a send ({300, 1200} in the code)
  ShownLimit,   \* messages a page shows (40 in the code)
  MaxEvents,    \* bound: events on their way
  MaxTurns      \* bound: changes of unsettled answers, deleted sessions, lost
                \* connections, failed fetches and sends

ASSUME ChatStreamAssumption ==
  /\ ShownLimit \in Nat \ {0} /\ Delays \subseteq Nat /\ Delays # {} /\ MaxTurns \in Nat
  /\ \A p \in Parts : p \in Seq(Range(p))

VARIABLES
  store,     \* the session's stored messages: [id, role, stage, text]
  sends,     \* how far Service.Send is with each send
  answers,   \* the answers that Service.Send is at: [stage, text], per send
  awaited,   \* sends whose post the page awaits the answer of
  link,      \* the page's event source: "up", "down" or "refetch"
  fresh,     \* handleWebChatEvents: lastPayload is empty
  last,      \* handleWebChatEvents: lastMessages
  events,    \* events on their way to the page
  view,      \* the nodes of the thread: [key, id, pend, text]
  raw,       \* rawContentMap of the event source
  fetches,   \* refreshMessages: [at, shot], per send and timer or reconnect
  behind,    \* ledger: the page shows an older list, or could not fetch one
  displaced, \* ledger: an answer came back to the end of the list that the
             \* server or the page may have in another place
  turns

streamVars == <<store, sends, answers, awaited, link, fresh, last, events, view, raw, fetches,
                behind, displaced, turns>>
server == <<fresh, last>>
page == <<awaited, view, raw, fetches, behind>>

Sends == Here \cup Elsewhere
Roles == {"user", "assistant"}
Stages == {"pending", "tool", "settled"}
Ids == Sends \X Roles
NoId == <<>>
Fetchers == (Here \X Delays) \cup {<<"reconnect">>}
NoFetch == [at |-> "none", shot |-> <<>>]

StreamInit ==
  /\ store = <<>> /\ sends = [s \in Sends |-> "idle"] /\ awaited = {}
  /\ answers = [s \in Sends |-> [stage |-> "none", text |-> <<>>]]
  /\ link = "up" /\ fresh = TRUE /\ last = <<>> /\ events = <<>>
  /\ view = <<>> /\ raw = [i \in Ids |-> <<>>] /\ fetches = [f \in Fetchers |-> NoFetch]
  /\ behind = FALSE /\ displaced = FALSE /\ turns = 0

-----------------------------------------------------------------------------
(***************************************************************************)
(* What a page shows                                                       *)
(***************************************************************************)

\* renderChatContentHTML and renderMd: markup does not appear as text.
Render(text) == FlattenSeq([i \in DOMAIN text |-> IF text[i] = "*" THEN <<>> ELSE <<text[i]>>])

\* loadChatMessages: the last messages of the session.
Window == SubSeq(store, IF Len(store) > ShownLimit THEN Len(store) - ShownLimit + 1 ELSE 1,
                 Len(store))

ChatMessage(m) == [key |-> NoId, id |-> m.id, pend |-> "none", text |-> Render(m.text)]
ChatMessages(w) == [i \in DOMAIN w |-> ChatMessage(w[i])]

\* optimisticRender: two nodes without an id, before anything is stored.
OptimisticRender(s) ==
  view \o <<[key |-> <<s, "user">>, id |-> NoId, pend |-> "user", text |-> <<"hello">>],
            [key |-> <<s, "assistant">>, id |-> NoId, pend |-> "assistant",
             text |-> <<"routing">>]>>

NodeOf(id) == SelectInSeq(view, LAMBDA n : n.id = id)

\* upsertMessageHTML: the node of the message, or the first node that waits
\* for one of its role, or a new node.
UpsertMessageHTML(m) ==
  LET node == NodeOf(m.id)
      pending == SelectInSeq(view, LAMBDA n : n.pend = m.role)
  IN  IF node # 0 THEN [view EXCEPT ![node].text = Render(m.text)]
      ELSE IF pending # 0
      THEN [view EXCEPT ![pending].id = m.id, ![pending].pend = "none",
                        ![pending].text = Render(m.text)]
      ELSE Append(view, ChatMessage(m))

-----------------------------------------------------------------------------
(***************************************************************************)
(* The server's side                                                       *)
(***************************************************************************)

\* Mutant: an answer may settle with a delta.
canEmitChatDeltaSettled(prev, m) ==
  m.role = "assistant" /\ prev.text # <<>> /\ m.text # <<>> /\ IsPrefix(prev.text, m.text)

\* A delta is for an answer that is still pending (isPendingChatStage, which
\* leaves out the stages of tool calls) and only grew.
canEmitChatDelta(prev, m) ==
  /\ m.role = "assistant" /\ prev.text # <<>> /\ m.text # <<>>
  /\ m.stage = "pending" /\ IsPrefix(prev.text, m.text)

Before(id) == SelectInSeq(last, LAMBDA m : m.id = id)

\* The event for one message: none, a delta or the rendered message.
Change(m) ==
  LET k == Before(m.id)
  IN  IF k # 0 /\ last[k] = m THEN <<>>
      ELSE IF k # 0 /\ canEmitChatDelta(last[k], m)
      THEN <<[kind |-> "delta", id |-> m.id,
              delta |-> SubSeq(m.text, Len(last[k].text) + 1, Len(m.text))]>>
      ELSE <<[kind |-> "patch", m |-> m]>>

\* No event and no fetched list is on its way to the page.
NothingComes == events = <<>> /\ \A f \in Fetchers : fetches[f].shot = <<>>

\* One turn of handleWebChatEvents that finds a difference.
Poll ==
  /\ link = "up" /\ Len(events) < MaxEvents /\ (fresh \/ Window # last)
  /\ LET whole == fresh \/ Len(Window) < Len(last) IN
     /\ events' = events \o IF whole THEN <<[kind |-> "full", shot |-> Window]>>
                            ELSE FlattenSeq([i \in DOMAIN Window |-> Change(Window[i])])
     /\ displaced' = (displaced /\ ~(whole /\ NothingComes))
  /\ last' = Window /\ fresh' = FALSE
  /\ UNCHANGED <<store, sends, answers, link, page, turns>>

\* Store.Append and Store.Upsert: the message takes the place of the one of its
\* id, or the end.
AppendMessage(m) == store' = Append(store, m)
InStore(id) == \E i \in DOMAIN store : store[i].id = id
Upsert(m) ==
  store' = IF InStore(m.id)
           THEN [i \in DOMAIN store |-> IF store[i].id = m.id THEN m ELSE store[i]]
           ELSE Append(store, m)

\* Some list or event that the server or the page goes by has the message.
Seen(id) ==
  \/ \E k \in DOMAIN last : last[k].id = id
  \/ \E n \in DOMAIN view : view[n].id = id
  \/ \E f \in Fetchers : \E k \in DOMAIN fetches[f].shot : fetches[f].shot[k].id = id
  \/ \E j \in DOMAIN events :
       \/ events[j].kind = "full" /\ \E k \in DOMAIN events[j].shot : events[j].shot[k].id = id
       \/ events[j].kind = "patch" /\ events[j].m.id = id

Sent(s, at) == sends' = [sends EXCEPT ![s] = at]
Writes(s, stage, text) == answers' = [answers EXCEPT ![s] = [stage |-> stage, text |-> text]]

\* Service.Send with Async stores the user's message ...
StoreUser(s) ==
  /\ sends[s] = "posted"
  /\ Sent(s, "user")
  /\ AppendMessage([id |-> <<s, "user">>, role |-> "user", stage |-> "settled",
                    text |-> <<"hello">>])
  /\ UNCHANGED <<answers, link, server, events, page, displaced, turns>>

\* ... and then the answer that is to come, and returns both.
StoreAssistant(s) ==
  /\ sends[s] = "user"
  /\ Sent(s, "done")
  /\ AppendMessage([id |-> <<s, "assistant">>, role |-> "assistant", stage |-> "pending",
                    text |-> <<"queued">>])
  /\ Writes(s, "pending", <<"queued">>)
  /\ UNCHANGED <<link, server, events, page, displaced, turns>>

\* The answer grows, is replaced, reports a tool, or settles.
UpdateAnswer(s, text, stage) ==
  LET id == <<s, "assistant">> IN
  /\ answers[s].stage \in {"pending", "tool"}
  /\ stage # "settled" => turns < MaxTurns
  /\ turns' = IF stage = "settled" THEN turns ELSE turns + 1
  /\ Writes(s, stage, text)
  /\ Upsert([id |-> id, role |-> "assistant", stage |-> stage, text |-> text])
  /\ displaced' = (displaced \/ (~InStore(id) /\ Seen(id)))
  /\ UNCHANGED <<sends, link, server, events, page>>

\* The session is deleted from another page.
DeleteSession ==
  /\ store # <<>> /\ turns < MaxTurns
  /\ store' = <<>> /\ turns' = turns + 1
  /\ UNCHANGED <<sends, answers, link, server, events, page, displaced>>

-----------------------------------------------------------------------------
(***************************************************************************)
(* The page's side                                                         *)
(***************************************************************************)

\* The page's form is submitted; Enter does so while a send is under way.
Submit(s) ==
  /\ sends[s] = "idle"
  /\ Sent(s, "posted") /\ awaited' = awaited \cup {s}
  /\ view' = OptimisticRender(s)
  /\ UNCHANGED <<store, answers, link, server, events, raw, fetches, behind, displaced, turns>>

SubmitElsewhere(s) ==
  /\ sends[s] = "idle"
  /\ Sent(s, "posted")
  /\ UNCHANGED <<store, answers, link, server, events, page, displaced, turns>>

\* The answer to the post: the send's nodes, if they are still in the thread,
\* get the ids and the assistant's the text of Send's return.
Accepted(s) ==
  /\ s \in awaited /\ sends[s] = "done"
  /\ awaited' = awaited \ {s}
  /\ view' = [i \in DOMAIN view |->
                IF view[i].key \notin {s} \X Roles THEN view[i]
                ELSE [view[i] EXCEPT !.key = NoId, !.pend = "none", !.id = view[i].key,
                                     !.text = IF view[i].key = <<s, "user">> THEN @
                                              ELSE <<"queued">>]]
  /\ fetches' = [f \in Fetchers |-> IF f \in {s} \X Delays
                                    THEN [NoFetch EXCEPT !.at = "timer"] ELSE fetches[f]]
  /\ UNCHANGED <<store, sends, answers, link, server, events, raw, behind, displaced, turns>>

\* The post fails, before anything is stored or after the first message: the
\* page is loaded anew.
SendFails(s) ==
  /\ s \in awaited /\ sends[s] \in {"posted", "user"} /\ turns < MaxTurns
  /\ turns' = turns + 1 /\ Sent(s, "done") /\ awaited' = {}
  /\ view' = ChatMessages(Window) /\ raw' = [i \in Ids |-> <<>>]
  /\ fetches' = [f \in Fetchers |-> NoFetch] /\ behind' = FALSE /\ displaced' = FALSE
  /\ link' = "up" /\ fresh' = TRUE /\ last' = <<>> /\ events' = <<>>
  /\ UNCHANGED <<store, answers>>

\* The next event: the whole list, a message, or text to append to the node
\* of a message, taking what the node shows for its text at first.
ReceiveEvent ==
  /\ link = "up" /\ events # <<>>
  /\ events' = Tail(events)
  /\ LET e == Head(events) IN
     CASE e.kind = "full" ->
            view' = ChatMessages(e.shot) /\ behind' = FALSE /\ raw' = raw
       [] e.kind = "patch" ->
            /\ view' = UpsertMessageHTML(e.m)
            /\ raw' = [raw EXCEPT ![e.m.id] = <<>>]
            /\ behind' = behind
       [] OTHER ->
            /\ LET node == NodeOf(e.id) IN
               IF node = 0 \/ e.delta = <<>> THEN UNCHANGED <<view, raw>>
               ELSE LET shown == IF raw[e.id] = <<>> THEN view[node].text ELSE raw[e.id]
                    IN  /\ raw' = [raw EXCEPT ![e.id] = shown \o e.delta]
                        /\ view' = [view EXCEPT ![node].text = Render(shown \o e.delta)]
            /\ behind' = behind
  /\ UNCHANGED <<store, sends, answers, awaited, link, server, fetches, displaced, turns>>

\* A timer fires, the shorter ones first, or the page is about to reconnect:
\* the list is requested and read.
FetchRead(f) ==
  /\ IF f = <<"reconnect">> THEN link = "down" ELSE fetches[f].at = "timer"
  /\ f # <<"reconnect">> =>
       \A d \in Delays : d < f[2] => fetches[<<f[1], d>>].at # "timer"
  /\ link' = IF f = <<"reconnect">> THEN "refetch" ELSE link
  /\ fetches' = [fetches EXCEPT ![f] = [at |-> "reply", shot |-> Window]]
  /\ UNCHANGED <<store, sends, answers, awaited, server, events, view, raw, behind, displaced,
                 turns>>

\* The event carries the message, in whatever state.
Carries(e, m) == e.kind = "patch" /\ e.m.id = m.id

\* A list that events have overtaken and nothing on its way will mend: it lacks
\* what was sent of a settled message, or a message altogether that will come
\* after later ones, if it comes.
Overtaken(shot) ==
  /\ \A i \in DOMAIN events : events[i].kind # "full"
  /\ \E k \in DOMAIN last : last[k].id \in {store[i].id : i \in DOMAIN store} /\
       \/ /\ last[k].stage = "settled" /\ last[k] \notin Range(shot)
          /\ \A i \in DOMAIN events : events[i].kind = "patch" => events[i].m # last[k]
       \/ /\ last[k].id \notin {shot[i].id : i \in DOMAIN shot}
          /\ \A i \in DOMAIN events : Carries(events[i], last[k]) =>
               \E h \in 1..(i - 1), n \in (k + 1)..Len(last) : Carries(events[h], last[n])

\* connectEvents, after the fetch of a reconnect.
Connect(f) ==
  IF f = <<"reconnect">>
  THEN /\ link' = "up" /\ fresh' = TRUE /\ last' = <<>> /\ events' = <<>>
       /\ raw' = [i \in Ids |-> <<>>]
  ELSE UNCHANGED <<link, fresh, last, events, raw>>

\* The list arrives and replaces the thread, whatever came before it.
FetchReplies(f) ==
  /\ fetches[f].at = "reply"
  /\ view' = ChatMessages(fetches[f].shot)
  /\ behind' = Overtaken(fetches[f].shot)
  /\ fetches' = [fetches EXCEPT ![f] = NoFetch]
  /\ Connect(f)
  /\ UNCHANGED <<store, sends, answers, awaited, displaced, turns>>

\* The fetch fails, which is ignored.
FetchFails(f) ==
  /\ fetches[f].at = "reply" /\ turns < MaxTurns
  /\ turns' = turns + 1 /\ behind' = TRUE
  /\ fetches' = [fetches EXCEPT ![f] = NoFetch]
  /\ Connect(f)
  /\ UNCHANGED <<store, sends, answers, awaited, view, displaced>>

\* The connection is lost, or the server could not load or render: events on
\* their way are gone.
LoseConnection ==
  /\ link = "up" /\ turns < MaxTurns
  /\ link' = "down" /\ events' = <<>> /\ turns' = turns + 1
  /\ UNCHANGED <<store, sends, answers, server, page, displaced>>

StreamNext ==
  \/ Poll \/ DeleteSession \/ ReceiveEvent \/ LoseConnection
  \/ \E s \in Here : Submit(s) \/ Accepted(s) \/ SendFails(s)
  \/ \E s \in Elsewhere : SubmitElsewhere(s)
  \/ \E s \in Sends :
       \/ StoreUser(s) \/ StoreAssistant(s)
       \/ \E p \in Parts, stage \in {"pending", "settled"} :
            UpdateAnswer(s, answers[s].text \o p, stage)
       \/ \E stage \in Stages : UpdateAnswer(s, <<"other">>, stage)
  \/ \E f \in Fetchers : FetchRead(f) \/ FetchReplies(f) \/ FetchFails(f)

-----------------------------------------------------------------------------
(***************************************************************************)
(* Properties                                                              *)
(***************************************************************************)

\* The types of messages, nodes and events.
StreamTypeOK ==
  /\ link \in {"up", "down", "refetch"}
  /\ \A i \in DOMAIN store :
       store[i].id \in Ids /\ store[i].stage \in Stages
  /\ \A s \in Sends : answers[s].stage \in Stages \cup {"none"}
  /\ \A i \in DOMAIN view : view[i].id \in Ids \cup {NoId} /\ view[i].pend \in Roles \cup {"none"}
  /\ \A f \in Fetchers : fetches[f].at \in {"none", "timer", "reply"}
  /\ turns \in 0..MaxTurns

\* Nothing is under way between the page and the server.
Quiet ==
  /\ link = "up" /\ events = <<>> /\ ~fresh /\ last = Window
  /\ \A f \in Fetchers : fetches[f] = NoFetch
  /\ awaited = {}

\* Once page and server are quiet, no placeholder of a send is left on the page
\* and no message is there twice, and it shows every settled message the server
\* would show it, as it is stored and in the stored order: whatever deltas were
\* doubled or dropped, whichever node a message took, and however late the post
\* was answered.  It is not so for a page that shows an older list (behind),
\* until the next one, nor, but for the placeholders and the doubles, when an
\* answer came back to the end of a list that had it elsewhere (displaced),
\* until the whole list is sent again.
ShownAsStored ==
  Quiet /\ ~behind =>
    /\ \A n \in DOMAIN view : view[n].pend = "none"
    /\ \A n, o \in DOMAIN view : view[n].id = view[o].id => n = o
    /\ ~displaced =>
         LET settled == {i \in DOMAIN Window : Window[i].stage = "settled"}
         IN  /\ \A i \in settled : \E n \in DOMAIN view :
                  view[n].id = Window[i].id /\ view[n].text = Render(Window[i].text)
             /\ \A i, k \in settled, n, o \in DOMAIN view :
                  view[n].id = Window[i].id /\ view[o].id = Window[k].id => (i < k <=> n < o)

\* The page follows the store: ShownAsStored, over states of the right types.
PageHonest == StreamTypeOK /\ ShownAsStored
=============================================================================
