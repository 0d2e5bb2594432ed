----------------------------- MODULE TestContext -----------------------------
(***************************************************************************)
(* Context and ovn_stats: the iterations of a test, the measurements that  *)
(* failed in them, and the verdict on each.  The verdict on an iteration   *)
(* is recorded when the next one begins, or when there is none left.       *)
(***************************************************************************)
EXTENDS Integers

VARIABLES
  context,   \* the active Context
  failures,  \* iterations that timed_functions has a failed measurement of
  totals     \* its entries "Iteration Total": <<iteration, failed>>

stats == <<context, failures, totals>>

Before == -1     \* Context.iteration before the first __next__

NewContext(name, max) ==
  [name |-> name, max |-> max, iteration |-> Before, started |-> FALSE,
   failed |-> FALSE]

ContextInit ==
  /\ context = NewContext("none", 0)
  /\ failures = {} /\ totals = {}

(* __enter__: the measurements of the context before this one are cleared. *)
EnterContext(name, max) ==
  /\ context' = NewContext(name, max)
  /\ failures' = {} /\ totals' = {}

(* Mutant: an iteration begins with the failure of the one before it.      *)
ConcludeMutant ==
  /\ totals' = IF context.started
               THEN totals \cup {<<context.iteration, context.failed>>}
               ELSE totals
  /\ context' = [context EXCEPT !.started = TRUE]
  /\ UNCHANGED failures

(* The first half of __next__, up to the external commands.                *)
Conclude ==
  /\ totals' = IF context.started
               THEN totals \cup {<<context.iteration, context.failed>>}
               ELSE totals
  /\ context' = [context EXCEPT !.started = TRUE, !.failed = FALSE]
  /\ UNCHANGED failures

MoreIterations == context.iteration < context.max - 1

(* The second half of __next__, if it returns.                             *)
NextIteration ==
  /\ MoreIterations
  /\ context' = [context EXCEPT !.iteration = @ + 1]
  /\ UNCHANGED <<failures, totals>>

(* Mutant: the entry is made, and the context does not fail.               *)
AddFailureMutant ==
  /\ failures' = failures \cup {context.iteration}
  /\ UNCHANGED <<context, totals>>

(* timeit caught an OvnTestException: add() fails the active context, and  *)
(* the entry is of its current iteration.                                  *)
AddFailure ==
  /\ context' = [context EXCEPT !.failed = TRUE]
  /\ failures' = failures \cup {context.iteration}
  /\ UNCHANGED totals

-----------------------------------------------------------------------------
ContextTypeOK ==
  /\ context.max \in Nat
  /\ context.iteration \in Before..(context.max - 1)
  /\ context.started \in BOOLEAN /\ context.failed \in BOOLEAN
  /\ failures \subseteq Before..(context.max - 1)
  /\ totals \subseteq (0..(context.max - 1)) \X BOOLEAN

(***************************************************************************)
(* An iteration is reported as failed exactly if a measurement made in it  *)
(* failed: no verdict on an iteration is of the one before it or after it. *)
(***************************************************************************)
VerdictsMatch == \A t \in totals : t[2] = (t[1] \in failures)

Passed(i) == <<i, FALSE>> \in totals

=============================================================================
