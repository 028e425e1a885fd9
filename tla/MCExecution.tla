---------------------------- MODULE MCExecution ----------------------------
(***************************************************************************)
(* The instance of Execution for TLC: a command with an idempotency key    *)
(* that may be tried twice, the same key with other arguments and a count  *)
(* that starts beyond its maximum, and a file that is written without a    *)
(* key.                                                                    *)
(***************************************************************************)
EXTENDS Execution

Keyed == [kind |-> "shell", key |-> 1, print |-> 1, attempt |-> 0, max |-> 2]
Other == [kind |-> "shell", key |-> 1, print |-> 2, attempt |-> 3, max |-> 1]
Plain == [kind |-> "file-write", key |-> 0, print |-> 3, attempt |-> 1, max |-> 2]

MCRequest == {Keyed, Other, Plain}
=============================================================================
