--------------------------- MODULE MCSkillRunner ---------------------------
(***************************************************************************)
(* One task of any of the skills and two runs of it, with administrators'  *)
(* calls in between: three calls in all.  A manifest may name a command, a *)
(* copy of a built-in skill or one that does not exist, and may have the   *)
(* name of a built-in skill.                                               *)
(***************************************************************************)
EXTENDS SkillRunner

MCBuiltin == << "task-plan", "file-edit", "file-read", "shell-command", "web-search",
                "github-issue-search", "email-inbox", "memory-consolidate" >>
MCSkills == {"task-plan", "file-edit", "web-search", "email-inbox", "memory-consolidate", "notify"}
MCFiles == << "notify", "web-search" >>
MCToggles == {<<"web-search", FALSE>>, <<"web-search", TRUE>>, <<"notify", FALSE>>, <<"task-plan", FALSE>>}
MCKinds == {[skill |-> s, root |-> FALSE, given |-> TRUE] : s \in MCSkills}
             \cup {[skill |-> "file-edit", root |-> FALSE, given |-> FALSE],
                   [skill |-> "notify", root |-> TRUE, given |-> TRUE]}
MCManifests == {[uses |-> "external", enabled |-> TRUE],
                [uses |-> "file-edit", enabled |-> FALSE],
                [uses |-> "unknown", enabled |-> TRUE]}
MCNone == [n \in Range(MCFiles) |-> NoFile]
MCInstalled == {MCNone, [MCNone EXCEPT !["notify"] = [uses |-> "external", enabled |-> TRUE]]}
Symmetry == Permutations(Admin) \cup Permutations(Run)
=============================================================================
