--------------------------- MODULE SandboxChannel ---------------------------
(***************************************************************************)
(* The remote shell of one Sandbox: how run() finds the output and exit    *)
(* status of its own command in the byte stream of an interactive shell    *)
(* that other commands have used before.  The command is put between       *)
(* "echo ++++start" and "echo $?; echo ++++end", and the stream is read    *)
(* until the end marker appears.  The timeout is that of one recv() and    *)
(* not of the command; after one, the shell is closed and the next call    *)
(* opens another.                                                          *)
(*                                                                         *)
(* The stream is a sequence of lines, each with the command it is of.  The *)
(* code sees only what kind of line it is.  A line of text stands for all  *)
(* the text a command has printed; that more of it came is remembered      *)
(* apart, as its amount has no bound.                                      *)
(***************************************************************************)
EXTENDS Naturals, Sequences

CONSTANTS
  Cmds,          \* the calls of a run, one element each
  Checked,       \* those made with raise_on_error=True
  Fails,         \* those whose command exits with a status other than 0
  Unterminated,  \* those whose output does not end in a newline
  Trickling,     \* those that may print text again and again
  MaxShells,     \* bound on the shells: at least the number of calls
  NoCmd,
  Podman, Hello  \* the command lines ensure_channel types

ASSUME CmdsAssumption ==
  /\ Checked \subseteq Cmds /\ Fails \subseteq Cmds
  /\ Unterminated \subseteq Cmds /\ Trickling \subseteq Cmds \ Unterminated
  /\ NoCmd \notin Cmds \cup {Podman, Hello} /\ MaxShells \in Nat
  /\ {Podman, Hello} \cap Cmds = {} /\ Podman # Hello

VARIABLES
  asked,      \* history: the calls that have been made
  call,       \* the command of the call in progress
  reading,    \* the command line whose output is being read: call or Hello
  out,        \* the output read so far
  answer,     \* how the last call ended
  channel,    \* Sandbox.channel
  connected,  \* whether the remote end of the channel is still there
  opened,     \* how many shells have been opened, which numbers them
  todo,       \* per shell: the command lines typed and not finished
  step,       \* per shell: how many lines the first of them has printed
  bytes,      \* per shell: what was printed and not received
  more,       \* whether text the channel's command has added is among it
  ran         \* history: commands that have been executed

tester == <<asked, call, reading, out, answer>>
shells == <<opened, todo, step, bytes, more>>
vars   == <<tester, channel, connected, shells, ran>>

Shells  == 1..MaxShells
NoShell == 0

Lines  == Cmds \cup {Podman, Hello}
Kinds  == {"start", "text", "status", "fused", "end", "prompt"}
Tokens == [kind : Kinds, of : Lines]

(***************************************************************************)
(* What the shell prints for a command line.  Without a newline at the end *)
(* of its output, the exit status is on the last line of the output.       *)
(***************************************************************************)
Script(l) ==
  IF l = Podman THEN <<"prompt">>
  ELSE IF l \in Unterminated THEN <<"start", "fused", "end", "prompt">>
  ELSE <<"start", "text", "status", "end", "prompt">>

Init ==
  /\ asked = {} /\ call = NoCmd /\ reading = NoCmd /\ out = <<>>
  /\ answer = [of |-> NoCmd, status |-> "ok", raised |-> FALSE]
  /\ channel = NoShell /\ connected = FALSE /\ opened = 0
  /\ todo = [s \in Shells |-> <<>>]
  /\ step = [s \in Shells |-> 0]
  /\ bytes = [s \in Shells |-> <<>>]
  /\ more = FALSE
  /\ ran = {}

-----------------------------------------------------------------------------
(***************************************************************************)
(* The tester.                                                             *)
(***************************************************************************)
Ended(c, status, raised) ==
  answer' = [of |-> c, status |-> status, raised |-> raised]
Raises(c, status) == status # "ok" /\ c \in Checked

(* sendall(): the remote shell will execute the line after earlier ones.   *)
Type(s, ls) == todo' = [todo EXCEPT ![s] = @ \o ls]
Read(l)     == reading' = l /\ out' = <<>>

(* ensure_channel opens a shell, enters the container and calls run() for  *)
(* "echo Hello".                                                           *)
OpenShell(c) ==
  /\ channel = NoShell
  /\ opened < MaxShells
  /\ opened' = opened + 1 /\ channel' = opened + 1
  /\ Type(opened + 1, <<Podman, Hello>>)
  /\ connected' = TRUE
  /\ call' = c /\ Read(Hello)
  /\ UNCHANGED answer

SendCommand(c) ==
  /\ channel # NoShell /\ connected
  /\ Type(channel, <<c>>)
  /\ call' = c /\ Read(c)
  /\ UNCHANGED <<answer, channel, connected, opened>>

(* sendall() raises on a closed channel, which stays in self.channel.      *)
SendFails(c) ==
  /\ channel # NoShell /\ ~connected
  /\ Ended(c, "unsent", TRUE)
  /\ UNCHANGED <<call, reading, out, channel, connected, opened, todo>>

Begin(c) ==
  /\ call = NoCmd /\ c \notin asked
  /\ asked' = asked \cup {c}
  /\ OpenShell(c) \/ SendCommand(c) \/ SendFails(c)
  /\ UNCHANGED <<step, bytes, more, ran>>

Has(kind, ls)   == \E i \in 1..Len(ls) : ls[i].kind = kind
First(kind, ls) ==
  CHOOSE i \in 1..Len(ls) :
    ls[i].kind = kind /\ \A j \in 1..(i - 1) : ls[j].kind # kind

Arrived == bytes[channel] # <<>> \/ more

(* recv() returns what has been printed, in pieces of any size.  At the    *)
(* end of file it returns nothing, again and again: the loop makes no step.*)
Recv ==
  /\ call # NoCmd /\ ~Has("end", out)
  /\ Arrived
  /\ out' = out \o bytes[channel]
  /\ bytes' = [bytes EXCEPT ![channel] = <<>>] /\ more' = FALSE
  /\ UNCHANGED <<asked, call, reading, answer, channel, connected, opened, todo,
                 step, ran>>

(* The exit status is the line before the end marker.  int() raises a      *)
(* ValueError if that is no number; output that ends in a digit makes it   *)
(* another number.                                                         *)
Readings(line) ==
  IF line.kind # "status" THEN {"unreadable", "failed"}
  ELSE IF line.of \in Fails THEN {"failed"} ELSE {"ok"}

(* Mutant: the call ends without a trace, but what it was reading stays.   *)
ReturnMutant(status) ==
  /\ Ended(call, status, status = "unreadable" \/ Raises(call, status))
  /\ call' = NoCmd /\ UNCHANGED <<reading, out>>

(* An exception leaves the channel as it is: cleanup may go on using it.   *)
Return(status) ==
  /\ Ended(call, status, status = "unreadable" \/ Raises(call, status))
  /\ call' = NoCmd /\ Read(NoCmd)

(* After "echo Hello" run() goes on with the command of its own caller,    *)
(* after that command it returns.                                          *)
Parse ==
  /\ call # NoCmd /\ Has("end", out)
  /\ \E status \in Readings(out[First("end", out) - 1]) :
       \/ /\ reading = Hello /\ status = "ok"
          /\ connected
          /\ Type(channel, <<call>>)
          /\ Read(call)
          /\ UNCHANGED <<call, answer>>
       \/ /\ reading = Hello /\ (status # "ok" \/ ~connected)
          /\ Ended(call, "unsent", TRUE)
          /\ call' = NoCmd /\ Read(NoCmd)
          /\ UNCHANGED todo
       \/ /\ reading # Hello
          /\ Return(status)
          /\ UNCHANGED todo
  /\ UNCHANGED <<asked, channel, connected, opened, step, bytes, more, ran>>

Waiting == call # NoCmd /\ ~Has("end", out) /\ ~Arrived

(* Mutant: the output so far is returned as if it were complete.           *)
TimeoutAnswerMutant == Ended(call, "ok", FALSE)

(* The markers and the status 42 are made up.  An SSHError from "echo      *)
(* Hello" leaves the outer run() before it has sent anything.              *)
TimeoutAnswer ==
  IF reading = Hello THEN Ended(call, "unsent", TRUE)
  ELSE Ended(call, "timeout", Raises(call, "timeout"))

(* Mutant: the shell is kept after a timeout.                              *)
TimesOutMutant ==
  /\ Waiting /\ connected
  /\ TimeoutAnswer
  /\ call' = NoCmd /\ Read(NoCmd)
  /\ UNCHANGED <<asked, channel, connected, shells, ran>>

(* Mutant: no settimeout(), recv() blocks for as long as nothing comes.    *)
NoTimeoutMutant == FALSE /\ UNCHANGED vars

(* Nothing came for the length of the timeout: the shell is abandoned.     *)
TimesOut ==
  /\ Waiting /\ connected
  /\ TimeoutAnswer
  /\ call' = NoCmd /\ Read(NoCmd)
  /\ channel' = NoShell /\ connected' = FALSE
  /\ UNCHANGED <<asked, shells, ran>>

-----------------------------------------------------------------------------
(***************************************************************************)
(* The remote shells.                                                      *)
(***************************************************************************)
Listening(s) == s = channel /\ connected

Emit(s) ==
  /\ todo[s] # <<>>
  /\ LET l    == Head(todo[s])
         kind == Script(l)[step[s] + 1]
         last == step[s] + 1 = Len(Script(l))
     IN /\ bytes' = IF Listening(s)
                    THEN [bytes EXCEPT ![s] =
                            Append(@, [kind |-> kind, of |-> l])]
                    ELSE bytes
        /\ ran' = IF kind \in {"text", "fused"} /\ l \in Cmds
                  THEN ran \cup {l} ELSE ran
        /\ todo' = IF last THEN [todo EXCEPT ![s] = Tail(@)] ELSE todo
        /\ step' = [step EXCEPT ![s] = IF last THEN 0 ELSE @ + 1]
  /\ UNCHANGED <<tester, channel, connected, opened, more>>

(* A command that has printed text prints some more.                       *)
Trickle(s) ==
  /\ Listening(s) /\ todo[s] # <<>>
  /\ Head(todo[s]) \in Trickling /\ step[s] = 2
  /\ more' = TRUE
  /\ UNCHANGED <<tester, channel, connected, opened, todo, step, bytes, ran>>

(* A shell whose connection is gone may be killed by the hang-up.          *)
HangUp(s) ==
  /\ ~Listening(s) /\ todo[s] # <<>>
  /\ todo' = [todo EXCEPT ![s] = <<>>]
  /\ step' = [step EXCEPT ![s] = 0]
  /\ UNCHANGED <<tester, channel, connected, opened, bytes, more, ran>>

RemoteCloses ==
  /\ channel # NoShell /\ connected
  /\ connected' = FALSE
  /\ UNCHANGED <<tester, channel, shells, ran>>

Next ==
  \/ \E c \in Cmds : Begin(c)
  \/ Recv \/ Parse \/ TimesOut
  \/ \E s \in Shells : Emit(s) \/ Trickle(s) \/ HangUp(s)
  \/ RemoteCloses

(* The tester's thread is in the loop until run() returns.                 *)
Fairness == WF_vars(Recv \/ Parse \/ TimesOut)

Spec == Init /\ [][Next]_vars /\ Fairness

-----------------------------------------------------------------------------
TypeOK ==
  /\ asked \subseteq Cmds
  /\ call \in Cmds \cup {NoCmd}
  /\ reading \in {NoCmd, Hello, call}
  /\ out \in Seq(Tokens)
  /\ answer \in [of : Cmds \cup {NoCmd}, raised : BOOLEAN,
                 status : {"ok", "failed", "timeout", "unreadable", "unsent"}]
  /\ channel \in Shells \cup {NoShell}
  /\ connected \in BOOLEAN
  /\ opened \in 0..MaxShells
  /\ todo \in [Shells -> Seq(Lines)]
  /\ step \in [Shells -> 0..4]
  /\ bytes \in [Shells -> Seq(Tokens)] /\ more \in BOOLEAN
  /\ ran \subseteq Cmds

(* What run() takes for the output of its command, from the first start    *)
(* marker to the first end marker, was printed by that command, which has  *)
(* been executed: nothing is left over from an earlier call whose answer   *)
(* came late (ovn_sandbox.py:130).                                         *)
OutputIsOwn ==
  Has("end", out) =>
    /\ Has("start", out) /\ First("start", out) < First("end", out)
    /\ \A i \in First("start", out)..First("end", out) : out[i].of = reading
    /\ reading \in Cmds => reading \in ran

(* A call whose command prints only so much ends, whatever else happens,   *)
(* as long as the remote end of the channel is there; after an end of file *)
(* the loop at ovn_sandbox.py:124 has no exit.                             *)
CallEnds ==
  \A c \in Cmds \ Trickling : call = c ~> (call = NoCmd \/ ~connected)

(* "Fail if command didn't finish after 'timeout' seconds", says the       *)
(* comment at ovn_sandbox.py:107: so every call would end.  The timeout is *)
(* set on the channel and starts anew with each recv() of the loop, which  *)
(* a command that goes on printing keeps from timing out.                  *)
EveryCallEnds == call # NoCmd ~> (call = NoCmd \/ ~connected)

(* Callers can rely on RemoteCall: late is what abandoned shells may still *)
(* execute.                                                                *)
Pending(s) == {todo[s][i] : i \in 1..Len(todo[s])}
Late       == (UNION {Pending(s) : s \in Shells}) \cap (Cmds \ ({call} \cup ran))

Calls == INSTANCE RemoteCall WITH late <- Late
ImplementsRemoteCall == Calls!Spec
=============================================================================
