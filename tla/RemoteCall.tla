----------------------------- MODULE RemoteCall -----------------------------
(***************************************************************************)
(* What the callers of Sandbox.run() rely on.  One call is in progress at  *)
(* a time.  A call ends with the exit status of its own command, which has *)
(* run then, or with the status 42 of a time-out, after which the command  *)
(* may still run, or with an exception because it was never sent.          *)
(***************************************************************************)
CONSTANTS
  Cmds,      \* the calls of a run: one element per call, not per text
  Checked,   \* those made with raise_on_error=True
  Fails,     \* those whose command exits with a status other than 0
  Unterminated,  \* those whose output does not end in a newline
  NoCmd

VARIABLES
  asked,     \* the calls that have been made
  call,      \* the one in progress
  ran,       \* commands that have been executed
  late,      \* commands of abandoned shells that may still execute
  answer     \* how the last call ended

vars == <<asked, call, ran, late, answer>>

(* A status other than 0 raises an SSHError if the caller asked for it.    *)
Answer(c, status) ==
  [of |-> c, status |-> status, raised |-> status # "ok" /\ c \in Checked]
Unsent(c)     == [of |-> c, status |-> "unsent", raised |-> TRUE]
Unreadable(c) == [of |-> c, status |-> "unreadable", raised |-> TRUE]

(* The last line of an unterminated output spoils the status: no number,   *)
(* or another one.                                                         *)
OwnAnswers(c) ==
  IF c \in Unterminated THEN {Unreadable(c), Answer(c, "failed")}
  ELSE {Answer(c, IF c \in Fails THEN "failed" ELSE "ok")}

Init ==
  /\ asked = {} /\ call = NoCmd
  /\ ran = {} /\ late = {}
  /\ answer = [of |-> NoCmd, status |-> "ok", raised |-> FALSE]

Begin(c) ==
  /\ call = NoCmd /\ c \in Cmds \ asked
  /\ asked' = asked \cup {c}
  /\ \/ call' = c /\ UNCHANGED answer
     \/ call' = NoCmd /\ answer' = Unsent(c)
  /\ UNCHANGED <<ran, late>>

Execute ==
  /\ call # NoCmd
  /\ ran' = ran \cup {call}
  /\ UNCHANGED <<asked, call, late, answer>>

End ==
  /\ call # NoCmd
  /\ call' = NoCmd
  /\ \/ /\ call \in ran
        /\ answer' \in OwnAnswers(call)
        /\ UNCHANGED late
     \/ /\ answer' = Answer(call, "timeout")
        /\ late' \in {late, late \cup ({call} \ ran)}
     \/ /\ call \notin ran
        /\ answer' = Unsent(call)
        /\ UNCHANGED late
  /\ UNCHANGED <<asked, ran>>

ExecuteLate(c) ==
  /\ c \in late
  /\ late' = late \ {c}
  /\ ran' \in {ran, ran \cup {c}}
  /\ UNCHANGED <<asked, call, answer>>

Next == \/ Execute \/ End
        \/ \E c \in Cmds : Begin(c) \/ ExecuteLate(c)

Spec == Init /\ [][Next]_vars
=============================================================================
