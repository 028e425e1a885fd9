---------------------------- MODULE MCMemoryLife ----------------------------
(***************************************************************************)
(* Four small worlds: two events and the fact f they make; a fact f and    *)
(* the fact g a user writes to supersede it; a procedure (p); a search     *)
(* result (w).  The clock is read every ten hours: a score goes 1000, 500, *)
(* 0 unless use adds to it.                                                *)
(***************************************************************************)
EXTENDS MemoryLife, TLC

CONSTANTS e1, e2, f, g, p, w

MCCard == {e1, e2, f, g, p, w}
MCWorlds == {{e1, e2, f}, {f, g}, {p}, {w}}
MCSays == [c \in MCCard |-> IF c = g THEN "no" ELSE "yes"]
MCCardType == (e1 :> "event") @@ (e2 :> "event") @@ (f :> "fact") @@ (g :> "fact")
                @@ (p :> "procedure") @@ (w :> "web_result")
MCScopeOf == [c \in MCCard |-> "project"]
MCTopic == [c \in MCCard |-> IF c \in {p, w} THEN "class" ELSE "topic"]
MCDecayPolicy == [c \in MCCard |-> IF c \in {e1, e2} THEN "never" ELSE ""]
\* What users ask for.  g is to replace f, as a candidate or at once; anything
\* can be made or revived by hand.
MCPlain == [status |-> "none", supersedes |-> NoCard, scope |-> "none", content |-> "none",
            evidence |-> {}]
MCReplace == [MCPlain EXCEPT !.supersedes = f]
MCCreateRequests ==
  [c \in MCCard |->
     IF c = g THEN {[MCReplace EXCEPT !.status = "candidate"],
                    [MCReplace EXCEPT !.scope = "other", !.evidence = {e1}]}
     ELSE IF c = f THEN {[MCPlain EXCEPT !.status = "candidate"]}
     ELSE {}]
MCUpdateRequests ==
  [c \in MCCard |->
     IF c = g THEN {[MCReplace EXCEPT !.evidence = {f}], [MCPlain EXCEPT !.scope = "project"]}
     ELSE IF c = f THEN {[MCPlain EXCEPT !.status = st] : st \in {"candidate", "active"}}
                          \cup {[MCPlain EXCEPT !.content = "no"]}
     ELSE {[MCPlain EXCEPT !.status = "archived"]}]
MCFactOf == "topic" :> f
MCConfidence == [c \in MCCard |-> 700]
MCRequests == {[type |-> "", scope |-> "project", limit |-> 0, archive |-> FALSE,
                extract |-> TRUE, smart |-> TRUE],
               [type |-> "fact", scope |-> "", limit |-> 1, archive |-> TRUE,
                extract |-> FALSE, smart |-> FALSE]}
MCUsages == {<<"direct_reply", "responded">>, <<"task-plan", "failed">>}
MCUpgradeScopes == <<"project">>
MCConflictScopes == <<"project">>
=============================================================================
