------------------------ MODULE SandboxChannelProofs ------------------------
(***************************************************************************)
(* Proofs about SandboxChannel for any calls and any number of shells.     *)
(***************************************************************************)
EXTENDS SandboxChannel, SequenceTheorems, TLAPS

-----------------------------------------------------------------------------
(***************************************************************************)
(* The inductive invariant.  First, the shells, whoever still listens: a   *)
(* shell has at most two lines before it, and the first of two has only    *)
(* its prompt left to print.  A command of a run is typed once.            *)
(***************************************************************************)
AtPrompt(s) == step[s] = Len(Script(Head(todo[s]))) - 1

ShellAgrees(s) ==
  /\ todo[s] = <<>> => step[s] = 0
  /\ todo[s] # <<>> =>
       /\ step[s] < Len(Script(Head(todo[s])))
       /\ Head(todo[s]) \in Cmds /\ step[s] >= 2 => Head(todo[s]) \in ran
  /\ Len(todo[s]) <= 2
  /\ Len(todo[s]) = 2 => AtPrompt(s)
  /\ Pending(s) \cap Cmds \subseteq asked
  /\ s > opened => todo[s] = <<>> /\ bytes[s] = <<>>

ShellsAgree == \A s \in Shells : ShellAgrees(s)

(* The tester's books.                                                     *)
CallAgrees ==
  /\ ran \subseteq asked /\ channel <= opened
  /\ connected => channel # NoShell
  /\ call = NoCmd => reading = NoCmd /\ out = <<>>
  /\ call # NoCmd =>
       channel # NoShell /\ call \in asked /\ reading \in {Hello, call}
  /\ reading = Hello =>
       call \notin ran /\ \A s \in Shells : call \notin Pending(s)

(***************************************************************************)
(* What has been received since the call began, or may still be: prompts   *)
(* that earlier lines left behind, then the first k lines of the script of *)
(* the line that is being read.                                            *)
(***************************************************************************)
Stream == out \o bytes[channel]

Prompts(ls)      == \A i \in 1..Len(ls) : ls[i].kind = "prompt"
Printed(l, i)    == [kind |-> Script(l)[i], of |-> l]
Reads(ls, l, k)  ==
  \E n \in 0..Len(ls) :
    /\ Len(ls) = n + k
    /\ \A i \in 1..n : ls[i].kind = "prompt"
    /\ \A i \in 1..k : ls[n + i] = Printed(l, i)

(* Where the shell is then, as long as somebody listens.                   *)
InStep(k) ==
  \/ k = 0 /\ Len(todo[channel]) = 2 /\ todo[channel][2] = reading
  \/ todo[channel] = <<reading>> /\ step[channel] = k
  \/ todo[channel] = <<>> /\ k = Len(Script(reading))

ReadingAgrees ==
  call # NoCmd =>
    \E k \in 0..Len(Script(reading)) :
      /\ Reads(Stream, reading, k)
      /\ k >= 2 /\ reading \in Cmds => reading \in ran
      /\ connected => InStep(k)

(* Between calls a shell that is connected owes nothing but a prompt.      *)
IdleAgrees ==
  call = NoCmd /\ connected =>
    /\ Prompts(bytes[channel])
    /\ Len(todo[channel]) <= 1
    /\ todo[channel] # <<>> => AtPrompt(channel)

StreamAgrees == ReadingAgrees /\ IdleAgrees

IInv == ShellsAgree /\ CallAgrees /\ StreamAgrees

-----------------------------------------------------------------------------
(***************************************************************************)
(* Scripts and markers.                                                    *)
(***************************************************************************)
LEMMA PodmanScript ==
  Len(Script(Podman)) = 1 /\ Script(Podman)[1] = "prompt"
  BY DEF Script

LEMMA CallScript ==
  ASSUME NEW l \in Cmds \cup {Hello}
  PROVE  LET e == Len(Script(l)) - 1 IN
         /\ e \in {3, 4} /\ e + 1 = Len(Script(l))
         /\ Script(l)[1] = "start" /\ Script(l)[e] = "end"
         /\ Script(l)[e + 1] = "prompt"
         /\ \A i \in 1..(e + 1) :
              /\ Script(l)[i] = "start" => i = 1
              /\ Script(l)[i] = "end" => i = e
              /\ Script(l)[i] \in {"text", "fused"} => i = 2
         /\ Script(l)[2] \in {"text", "fused"}
         /\ Script(l)[e - 1] = IF l \in Unterminated THEN "fused" ELSE "status"
<1>0. l # Podman
  BY CmdsAssumption
<1>1. CASE l \in Unterminated
  <2>1. Script(l) = <<"start", "fused", "end", "prompt">>
    BY <1>0, <1>1 DEF Script
  <2>2. QED
    BY <1>1, <2>1
<1>2. CASE l \notin Unterminated
  <2>1. Script(l) = <<"start", "text", "status", "end", "prompt">>
    BY <1>0, <1>2 DEF Script
  <2>2. QED
    BY <1>2, <2>1
<1>3. QED
  BY <1>1, <1>2

LEMMA ScriptType ==
  ASSUME NEW l \in Lines
  PROVE  /\ Len(Script(l)) \in {1, 4, 5} /\ 0 < Len(Script(l))
         /\ \A i \in 1..Len(Script(l)) : Script(l)[i] \in Kinds
         /\ Script(l)[Len(Script(l))] = "prompt"
<1>1. CASE l = Podman
  BY <1>1, PodmanScript DEF Kinds
<1>2. CASE l # Podman /\ l \in Unterminated
  <2>1. Script(l) = <<"start", "fused", "end", "prompt">>
    BY <1>2 DEF Script
  <2>2. QED
    BY <2>1 DEF Kinds
<1>3. CASE l # Podman /\ l \notin Unterminated
  <2>1. Script(l) = <<"start", "text", "status", "end", "prompt">>
    BY <1>3 DEF Script
  <2>2. QED
    BY <2>1 DEF Kinds
<1>4. QED
  BY <1>1, <1>2, <1>3

(* First finds a line if nothing before it is of the same kind.            *)
LEMMA FirstIs ==
  ASSUME NEW kind, NEW ls, NEW i \in 1..Len(ls), Len(ls) \in Nat,
         ls[i].kind = kind, \A j \in 1..(i - 1) : ls[j].kind # kind
  PROVE  First(kind, ls) = i
<1> DEFINE Is(j) == /\ ls[j].kind = kind
                    /\ \A m \in 1..(j - 1) : ls[m].kind # kind
<1>1. \A j \in 1..Len(ls) : Is(j) => j = i
  <2> SUFFICES ASSUME NEW j \in 1..Len(ls), Is(j), j # i
               PROVE  FALSE
    OBVIOUS
  <2>1. CASE j < i
    <3>1. j \in 1..(i - 1)
      BY <2>1
    <3>2. QED
      BY <3>1
  <2>2. CASE i < j
    <3>1. i \in 1..(j - 1)
      BY <2>2
    <3>2. QED
      BY <3>1
  <2>3. QED
    BY <2>1, <2>2
<1>2. Is(i)
  OBVIOUS
<1>3. First(kind, ls) = CHOOSE j \in 1..Len(ls) : Is(j)
  BY DEF First
<1> HIDE DEF Is
<1>4. QED
  BY <1>1, <1>2, <1>3

(***************************************************************************)
(* Sequences, as the stream and the shells use them.                       *)
(***************************************************************************)
LEMMA ConcatAppend ==
  ASSUME NEW S, NEW u \in Seq(S), NEW v \in Seq(S), NEW x \in S
  PROVE  /\ u \o Append(v, x) \in Seq(S)
         /\ Len(u \o Append(v, x)) = Len(u \o v) + 1
         /\ \A i \in 1..Len(u \o v) : (u \o Append(v, x))[i] = (u \o v)[i]
         /\ (u \o Append(v, x))[Len(u \o v) + 1] = x
<1>1. /\ Append(v, x) \in Seq(S) /\ Len(Append(v, x)) = Len(v) + 1
      /\ \A i \in 1..Len(v) : Append(v, x)[i] = v[i]
      /\ Append(v, x)[Len(v) + 1] = x
  BY AppendProperties
<1>2. Len(u) \in Nat /\ Len(v) \in Nat
  BY LenProperties
<1>3. /\ u \o v \in Seq(S) /\ Len(u \o v) = Len(u) + Len(v)
      /\ \A i \in 1..(Len(u) + Len(v)) :
           (u \o v)[i] = IF i <= Len(u) THEN u[i] ELSE v[i - Len(u)]
  BY ConcatProperties
<1> DEFINE w == Append(v, x)
<1>4. /\ u \o w \in Seq(S) /\ Len(u \o w) = Len(u) + Len(w)
      /\ \A i \in 1..(Len(u) + Len(w)) :
           (u \o w)[i] = IF i <= Len(u) THEN u[i] ELSE w[i - Len(u)]
  BY <1>1, ConcatProperties
<1> HIDE DEF w
<1>5. Len(w) = Len(v) + 1 /\ w[Len(v) + 1] = x
      /\ \A i \in 1..Len(v) : w[i] = v[i]
  BY <1>1 DEF w
<1>6. (u \o w)[Len(u \o v) + 1] = x
  BY <1>2, <1>3, <1>4, <1>5
<1>7. ASSUME NEW i \in 1..Len(u \o v)
      PROVE  (u \o w)[i] = (u \o v)[i]
  BY <1>2, <1>3, <1>4, <1>5
<1>8. QED
  BY <1>3, <1>4, <1>5, <1>6, <1>7 DEF w

(* A shell's lines, at most two.                                           *)
LEMMA TailOfTwo ==
  ASSUME NEW S, NEW s \in Seq(S), s # <<>>, Len(s) <= 2
  PROVE  /\ Head(s) \in S /\ Tail(s) \in Seq(S)
         /\ Head(s) = s[1] /\ s[1] \in {s[i] : i \in 1..Len(s)}
         /\ \/ Len(s) = 1 /\ Tail(s) = <<>> /\ s = <<s[1]>>
            \/ Len(s) = 2 /\ Tail(s) = <<s[2]>> /\ s[2] \in S
<1> DEFINE t == Tail(s)
<1>1. /\ Head(s) \in S /\ t \in Seq(S) /\ Len(t) = Len(s) - 1
      /\ \A i \in 1..Len(t) : t[i] = s[i + 1]
  BY HeadTailProperties
<1>2. Len(s) \in Nat \ {0} /\ Head(s) = s[1]
  BY EmptySeq
<1>3. s[1] \in {s[i] : i \in 1..Len(s)}
  BY <1>2
<1> HIDE DEF t
<1>4. CASE Len(s) = 1
  <2>1. t = <<>>
    BY <1>1, <1>4, EmptySeq
  <2>2. <<s[1]>> \in Seq(S) /\ Len(<<s[1]>>) = 1 /\ <<s[1]>>[1] = s[1]
    BY <1>1, <1>2
  <2>3. s = <<s[1]>>
    BY <1>4, <2>2, SeqEqual
  <2>4. QED
    BY <1>1, <1>2, <1>3, <1>4, <2>1, <2>3 DEF t
<1>5. CASE Len(s) = 2
  <2>1. s[2] \in S
    BY <1>5, ElementOfSeq, SMTT(20)
  <2>2. <<s[2]>> \in Seq(S) /\ Len(<<s[2]>>) = 1 /\ <<s[2]>>[1] = s[2]
    BY <2>1
  <2>3. Len(t) = 1 /\ t[1] = s[2]
    BY <1>1, <1>5
  <2>4. t = <<s[2]>>
    BY <1>1, <2>2, <2>3, SeqEqual
  <2>5. QED
    BY <1>1, <1>2, <1>3, <1>5, <2>1, <2>4 DEF t
<1>6. Len(s) = 1 \/ Len(s) = 2
  <2>1. \A n \in Nat \ {0} : n <= 2 => n = 1 \/ n = 2
    OBVIOUS
  <2>2. QED
    BY ONLY <1>2, <2>1, Len(s) <= 2
<1>7. QED
  BY ONLY <1>4, <1>5, <1>6

LEMMA AtMostOne ==
  ASSUME NEW s, NEW l, s = <<>> \/ s = <<l>>
  PROVE  Len(s) <= 1
<1>1. Len(<<>>) <= 1 /\ Len(<<l>>) <= 1
  OBVIOUS
<1>2. QED
  BY <1>1, Zenon

LEMMA TypedLines ==
  ASSUME NEW S, NEW s \in Seq(S), Len(s) <= 1, NEW l \in S
  PROVE  /\ s \o <<l>> \in Seq(S) /\ s \o <<l>> # <<>>
         /\ Len(s \o <<l>>) = Len(s) + 1 /\ Len(s) \in Nat
         /\ (s \o <<l>>)[Len(s) + 1] = l
         /\ s = <<>> => s \o <<l>> = <<l>> /\ Head(s \o <<l>>) = l
         /\ s # <<>> => /\ Head(s \o <<l>>) = Head(s)
                        /\ Len(s) = 1
         /\ {(s \o <<l>>)[i] : i \in 1..Len(s \o <<l>>)}
              = {s[i] : i \in 1..Len(s)} \cup {l}
<1>1. <<l>> \in Seq(S) /\ Len(<<l>>) = 1 /\ <<l>>[1] = l
  OBVIOUS
<1>2. Len(s) \in Nat /\ (s # <<>> => Len(s) # 0)
  BY EmptySeq, LenProperties
<1> DEFINE t == s \o <<l>>
<1>3. /\ t \in Seq(S) /\ Len(t) = Len(s) + 1
      /\ \A i \in 1..(Len(s) + 1) :
           t[i] = IF i <= Len(s) THEN s[i] ELSE <<l>>[i - Len(s)]
  BY <1>1, ConcatProperties
<1>4. s = <<>> => t = <<l>>
  BY <1>1, ConcatEmptySeq
<1> HIDE DEF t
<1>5. t[Len(s) + 1] = l /\ \A i \in 1..Len(s) : t[i] = s[i]
  BY <1>1, <1>2, <1>3
<1>6. t # <<>>
  BY <1>2, <1>3
<1>7. s # <<>> => Head(t) = Head(s)
  BY <1>2, <1>3, <1>5
<1>8. {t[i] : i \in 1..Len(t)} = {s[i] : i \in 1..Len(s)} \cup {l}
  BY <1>2, <1>3, <1>5
<1>9. QED
  BY <1>2, <1>3, <1>4, <1>5, <1>6, <1>7, <1>8 DEF t

-----------------------------------------------------------------------------
(***************************************************************************)
(* What a step of a shell does to it.                                      *)
(***************************************************************************)
LEMMA EmitEffect ==
  ASSUME TypeOK, ShellsAgree, NEW s \in Shells, Emit(s)
  PROVE  LET l == todo[s][1]
             k == step[s] + 1 IN
         /\ todo[s] # <<>> /\ l = Head(todo[s]) /\ l \in Lines /\ l \in Pending(s)
         /\ k \in 1..Len(Script(l))
         /\ k <= 5
         /\ \/ k = Len(Script(l)) /\ todo'[s] = Tail(todo[s]) /\ step'[s] = 0
            \/ k < Len(Script(l)) /\ todo'[s] = todo[s] /\ step'[s] = k
         /\ \A r \in Shells \ {s} : todo'[r] = todo[r] /\ step'[r] = step[r]
         /\ DOMAIN todo' = Shells /\ DOMAIN step' = Shells
         /\ bytes' = IF Listening(s)
                     THEN [bytes EXCEPT ![s] = Append(@, Printed(l, k))]
                     ELSE bytes
         /\ ran' = IF Script(l)[k] \in {"text", "fused"} /\ l \in Cmds
                   THEN ran \cup {l} ELSE ran
         /\ UNCHANGED <<asked, call, reading, out, answer, channel, connected,
                        opened, more>>
<1> DEFINE l == todo[s][1]
           k == step[s] + 1
           last == k = Len(Script(l))
<1>1. todo[s] # <<>> /\ todo[s] \in Seq(Lines) /\ step[s] \in 0..4
  BY DEF Emit, TypeOK
<1>2. /\ l = Head(todo[s]) /\ l \in Lines /\ l \in Pending(s)
  BY <1>1, TailOfTwo DEF ShellsAgree, ShellAgrees, Pending
<1>3. Len(Script(l)) \in {1, 4, 5}
  BY <1>2, ScriptType
<1>4. k \in 1..Len(Script(l)) /\ k <= 5
  BY <1>1, <1>2, <1>3 DEF ShellsAgree, ShellAgrees
<1>5. /\ todo' = IF last THEN [todo EXCEPT ![s] = Tail(@)] ELSE todo
      /\ step' = [step EXCEPT ![s] = IF last THEN 0 ELSE @ + 1]
      /\ bytes' = IF Listening(s)
                  THEN [bytes EXCEPT ![s] = Append(@, Printed(l, k))]
                  ELSE bytes
      /\ ran' = IF Script(l)[k] \in {"text", "fused"} /\ l \in Cmds
                THEN ran \cup {l} ELSE ran
      /\ UNCHANGED <<asked, call, reading, out, answer, channel, connected,
                     opened, more>>
  BY <1>2 DEF Emit, tester, Printed
<1>6. DOMAIN todo = Shells /\ DOMAIN step = Shells
  BY DEF TypeOK
<1> HIDE DEF l
<1>7. /\ DOMAIN todo' = Shells /\ DOMAIN step' = Shells
      /\ \A r \in Shells \ {s} : todo'[r] = todo[r] /\ step'[r] = step[r]
      /\ \/ k = Len(Script(l)) /\ todo'[s] = Tail(todo[s]) /\ step'[s] = 0
         \/ k < Len(Script(l)) /\ todo'[s] = todo[s] /\ step'[s] = k
  <2>1. CASE last
    BY <1>5, <1>6, <2>1
  <2>2. CASE ~last
    BY <1>3, <1>4, <1>5, <1>6, <2>2
  <2>3. QED
    BY <2>1, <2>2
<1>8. QED
  BY <1>1, <1>2, <1>4, <1>5, <1>7 DEF l

LEMMA HangUpEffect ==
  ASSUME TypeOK, NEW s \in Shells, HangUp(s)
  PROVE  /\ todo'[s] = <<>> /\ step'[s] = 0
         /\ \A r \in Shells \ {s} : todo'[r] = todo[r] /\ step'[r] = step[r]
         /\ todo' \in [Shells -> Seq(Lines)] /\ step' \in [Shells -> 0..4]
         /\ UNCHANGED <<asked, call, reading, out, answer, channel, connected,
                        opened, bytes, more, ran>>
  BY DEF HangUp, TypeOK, tester

(* More text of a command that has printed some is no new line.            *)
Quiet == UNCHANGED vars \/ \E s \in Shells : Trickle(s)

LEMMA QuietEffect ==
  ASSUME Quiet
  PROVE  UNCHANGED <<asked, call, reading, out, answer, channel, connected,
                     opened, todo, step, bytes, ran>>
<1>1. CASE UNCHANGED vars
  BY <1>1 DEF vars, tester, shells
<1>2. ASSUME NEW s \in Shells, Trickle(s)
      PROVE  UNCHANGED <<asked, call, reading, out, answer, channel, connected,
                         opened, todo, step, bytes, ran>>
  BY <1>2 DEF Trickle, tester
<1>3. QED
  BY <1>1, <1>2 DEF Quiet

(* Typing lines to a shell that has at most one line before it.            *)
LEMMA TypeEffect ==
  ASSUME TypeOK, NEW s \in Shells, NEW ls \in Seq(Lines), Type(s, ls)
  PROVE  /\ todo'[s] = todo[s] \o ls
         /\ \A r \in Shells \ {s} : todo'[r] = todo[r]
         /\ todo' \in [Shells -> Seq(Lines)]
<1>1. todo[s] \o ls \in Seq(Lines)
  BY ConcatProperties DEF TypeOK
<1>2. QED
  BY <1>1 DEF Type, TypeOK

-----------------------------------------------------------------------------
(***************************************************************************)
(* Type correctness.                                                       *)
(***************************************************************************)
LEMMA InitTypeOK == Init => TypeOK
<1> SUFFICES ASSUME Init
             PROVE  TypeOK
  OBVIOUS
<1>1. /\ <<>> \in Seq(Tokens) /\ todo \in [Shells -> Seq(Lines)]
      /\ bytes \in [Shells -> Seq(Tokens)] /\ step \in [Shells -> 0..4]
  BY EmptySeq DEF Init
<1>2. 0 \in 0..MaxShells
  BY CmdsAssumption
<1>3. QED
  BY <1>1, <1>2 DEF Init, TypeOK, NoShell

LEMMA AnswerType ==
  ASSUME NEW c \in Cmds, NEW status, NEW raised \in BOOLEAN,
         status \in {"ok", "failed", "timeout", "unreadable", "unsent"},
         Ended(c, status, raised)
  PROVE  answer' \in [of : Cmds \cup {NoCmd}, raised : BOOLEAN,
                      status : {"ok", "failed", "timeout", "unreadable", "unsent"}]
  BY DEF Ended

LEMMA StepTypeOK == TypeOK /\ IInv /\ [Next]_vars => TypeOK'
<1> SUFFICES ASSUME TypeOK, IInv, [Next]_vars
             PROVE  TypeOK'
  OBVIOUS
<1>0. ShellsAgree /\ CallAgrees
  BY DEF IInv
<1>1. ASSUME NEW c \in Cmds, Begin(c), OpenShell(c)
      PROVE  TypeOK'
  <2>1. opened + 1 \in Shells /\ opened' \in 0..MaxShells
    BY <1>1, CmdsAssumption DEF OpenShell, Shells, TypeOK
  <2>2. <<Podman, Hello>> \in Seq(Lines)
    BY DEF Lines
  <2>3. todo' \in [Shells -> Seq(Lines)]
    BY <1>1, <2>1, <2>2, TypeEffect DEF OpenShell
  <2>4. QED
    BY <1>1, <2>1, <2>3, EmptySeq DEF Begin, OpenShell, Read, TypeOK
<1>2. ASSUME NEW c \in Cmds, Begin(c), SendCommand(c)
      PROVE  TypeOK'
  <2>1. channel \in Shells /\ <<c>> \in Seq(Lines)
    BY <1>2 DEF SendCommand, TypeOK, Lines
  <2>2. todo' \in [Shells -> Seq(Lines)]
    BY <1>2, <2>1, TypeEffect DEF SendCommand
  <2>3. QED
    BY <1>2, <2>2, EmptySeq DEF Begin, SendCommand, Read, TypeOK
<1>3. ASSUME NEW c \in Cmds, Begin(c), SendFails(c)
      PROVE  TypeOK'
  BY <1>3, AnswerType DEF Begin, SendFails, TypeOK
<1>4. CASE Recv
  <2>1. bytes[channel] \in Seq(Tokens) /\ channel \in Shells
    BY <1>0, <1>4 DEF Recv, TypeOK, CallAgrees
  <2>2. out' \in Seq(Tokens)
    BY <1>4, <2>1, ConcatProperties DEF Recv, TypeOK
  <2>3. bytes' \in [Shells -> Seq(Tokens)]
    BY <1>4, <2>1, EmptySeq DEF Recv, TypeOK
  <2>4. QED
    BY <1>4, <2>2, <2>3 DEF Recv, TypeOK
<1>5. CASE Parse
  <2>1. PICK status \in Readings(out[First("end", out) - 1]) :
          \/ /\ reading = Hello /\ status = "ok"
             /\ connected
             /\ Type(channel, <<call>>)
             /\ Read(call)
             /\ UNCHANGED <<call, answer>>
          \/ /\ reading = Hello /\ (status # "ok" \/ ~connected)
             /\ Ended(call, "unsent", TRUE)
             /\ call' = NoCmd /\ Read(NoCmd)
             /\ UNCHANGED todo
          \/ /\ reading # Hello
             /\ Return(status)
             /\ UNCHANGED todo
    BY <1>5 DEF Parse
  <2>2. /\ call \in Cmds /\ channel \in Shells
        /\ status \in {"ok", "failed", "timeout", "unreadable", "unsent"}
        /\ UNCHANGED <<asked, channel, connected, opened, step, bytes, more,
                       ran>>
    BY <1>0, <1>5, <2>1 DEF Parse, CallAgrees, TypeOK, Readings
  <2>3. CASE /\ Type(channel, <<call>>)
             /\ Read(call)
             /\ UNCHANGED <<call, answer>>
    <3>1. <<call>> \in Seq(Lines)
      BY <2>2 DEF Lines
    <3>2. todo' \in [Shells -> Seq(Lines)]
      BY <2>2, <2>3, <3>1, TypeEffect
    <3>3. QED
      BY <2>2, <2>3, <3>2, EmptySeq DEF Read, TypeOK
  <2>4. CASE /\ Ended(call, "unsent", TRUE)
             /\ call' = NoCmd /\ Read(NoCmd)
             /\ UNCHANGED todo
    BY <2>2, <2>4, AnswerType, EmptySeq DEF Read, TypeOK
  <2>5. CASE Return(status) /\ UNCHANGED todo
    <3>1. (status = "unreadable" \/ Raises(call, status)) \in BOOLEAN
      OBVIOUS
    <3>2. answer' \in [of : Cmds \cup {NoCmd}, raised : BOOLEAN,
                       status : {"ok", "failed", "timeout", "unreadable", "unsent"}]
      BY <2>2, <2>5, <3>1, AnswerType DEF Return
    <3>3. QED
      BY <2>2, <2>5, <3>2, EmptySeq DEF Return, Read, TypeOK
  <2>6. QED
    BY <2>1, <2>3, <2>4, <2>5
<1>6. CASE TimesOut
  <2>1. call \in Cmds
    BY <1>6 DEF TimesOut, Waiting, TypeOK
  <2>2. Raises(call, "timeout") \in BOOLEAN
    BY DEF Raises
  <2>3. answer' \in [of : Cmds \cup {NoCmd}, raised : BOOLEAN,
                     status : {"ok", "failed", "timeout", "unreadable", "unsent"}]
    BY <1>6, <2>1, <2>2, AnswerType DEF TimesOut, TimeoutAnswer
  <2>4. QED
    BY <1>6, <2>3, EmptySeq DEF TimesOut, Read, shells, TypeOK
<1>7. ASSUME NEW s \in Shells, Emit(s)
      PROVE  TypeOK'
  <2> DEFINE l == todo[s][1]
             k == step[s] + 1
  <2>1. /\ todo[s] # <<>> /\ l \in Lines /\ k \in 1..Len(Script(l)) /\ k <= 5
        /\ \/ k = Len(Script(l)) /\ todo'[s] = Tail(todo[s]) /\ step'[s] = 0
           \/ k < Len(Script(l)) /\ todo'[s] = todo[s] /\ step'[s] = k
    BY <1>0, <1>7, EmitEffect
  <2>2. /\ \A r \in Shells \ {s} : todo'[r] = todo[r] /\ step'[r] = step[r]
        /\ bytes' = IF Listening(s)
                    THEN [bytes EXCEPT ![s] = Append(@, Printed(l, k))]
                    ELSE bytes
        /\ ran' \in {ran, ran \cup ({l} \cap Cmds)}
        /\ UNCHANGED <<asked, call, reading, out, answer, channel, connected,
                       opened, more>>
    BY <1>0, <1>7, EmitEffect
  <2>3. Printed(l, k) \in Tokens /\ Len(Script(l)) \in {1, 4, 5}
    BY <2>1, ScriptType DEF Printed, Tokens
  <2>4. Append(bytes[s], Printed(l, k)) \in Seq(Tokens)
    BY <2>3, AppendProperties DEF TypeOK
  <2>5. bytes' \in [Shells -> Seq(Tokens)]
    BY <2>2, <2>4 DEF TypeOK
  <2>6. Tail(todo[s]) \in Seq(Lines)
    BY <2>1, HeadTailProperties DEF TypeOK
  <2>7. DOMAIN todo' = Shells /\ DOMAIN step' = Shells
    BY <1>0, <1>7, EmitEffect
  <2>8. todo' = [r \in Shells |-> todo'[r]] /\ step' = [r \in Shells |-> step'[r]]
    <3>1. todo \in [Shells -> Seq(Lines)] /\ step \in [Shells -> 0..4]
      BY DEF TypeOK
    <3>2. QED
      BY <1>7, <3>1 DEF Emit
  <2>9. \A r \in Shells : todo'[r] \in Seq(Lines) /\ step'[r] \in 0..4
    <3>1. todo'[s] \in Seq(Lines) /\ todo[s] \in Seq(Lines)
      BY <2>1, <2>6 DEF TypeOK
    <3>2. step'[s] \in 0..4
      <4>1. \A n \in {1, 4, 5}, m \in 1..5 : m < n => m \in 0..4
        OBVIOUS
      <4>2. k \in 1..5
        BY <2>1
      <4>3. CASE step'[s] = 0
        BY <4>3
      <4>4. CASE k < Len(Script(l)) /\ step'[s] = k
        <5> HIDE DEF l, k
        <5>1. k \in 0..4
          BY ONLY <2>3, <4>1, <4>2, <4>4
        <5>2. QED
          BY <4>4, <5>1
      <4>5. QED
        BY <2>1, <4>3, <4>4
    <3>3. QED
      BY <2>2, <3>1, <3>2 DEF TypeOK
  <2>10. QED
    BY <2>2, <2>5, <2>8, <2>9 DEF TypeOK
<1>8. ASSUME NEW s \in Shells, HangUp(s)
      PROVE  TypeOK'
  BY <1>8, HangUpEffect DEF TypeOK
<1>9. CASE RemoteCloses
  BY <1>9 DEF RemoteCloses, tester, shells, TypeOK
<1>10. CASE Quiet
  <2>1. more' \in BOOLEAN
    <3>1. CASE UNCHANGED vars
      BY <3>1 DEF vars, shells, TypeOK
    <3>2. ASSUME NEW s \in Shells, Trickle(s)
          PROVE  more' \in BOOLEAN
      BY <3>2 DEF Trickle
    <3>3. QED
      BY <1>10, <3>1, <3>2 DEF Quiet
  <2>2. QED
    BY <1>10, <2>1, QuietEffect DEF TypeOK
<1>11. QED
  BY <1>1, <1>2, <1>3, <1>4, <1>5, <1>6, <1>7, <1>8, <1>9, <1>10
  DEF Next, Begin, Quiet

-----------------------------------------------------------------------------
(***************************************************************************)
(* How the stream grows.                                                   *)
(***************************************************************************)
LEMMA ReadsNothing ==
  ASSUME NEW S, NEW ls \in Seq(S), Prompts(ls), NEW l
  PROVE  Reads(ls, l, 0)
<1>1. Len(ls) \in Nat
  BY LenProperties
<1>2. QED
  BY <1>1 DEF Prompts, Reads

LEMMA ReadsPrompt ==
  ASSUME NEW ls, NEW t, NEW l, Len(ls) \in Nat, Len(t) = Len(ls) + 1,
         \A i \in 1..Len(ls) : t[i] = ls[i], t[Len(ls) + 1].kind = "prompt",
         Reads(ls, l, 0)
  PROVE  Reads(t, l, 0)
<1>1. \A i \in 1..Len(t) : t[i].kind = "prompt"
  BY DEF Reads
<1>2. Len(t) \in 0..Len(t) /\ Len(t) = Len(t) + 0
  OBVIOUS
<1>3. \A i \in 1..0 : t[Len(t) + i] = Printed(l, i)
  OBVIOUS
<1>4. QED
  BY <1>1, <1>2, <1>3 DEF Reads

LEMMA ReadsMore ==
  ASSUME NEW ls, NEW t, NEW l, NEW k \in Nat, Len(ls) \in Nat,
         Len(t) = Len(ls) + 1, \A i \in 1..Len(ls) : t[i] = ls[i],
         t[Len(ls) + 1] = Printed(l, k + 1), Reads(ls, l, k)
  PROVE  Reads(t, l, k + 1)
<1>1. PICK n \in 0..Len(ls) :
        /\ Len(ls) = n + k
        /\ \A i \in 1..n : ls[i].kind = "prompt"
        /\ \A i \in 1..k : ls[n + i] = Printed(l, i)
  BY DEF Reads
<1>2. n \in 0..Len(t) /\ Len(t) = n + (k + 1)
  BY <1>1
<1>3. \A i \in 1..n : t[i].kind = "prompt"
  BY <1>1
<1>4. ASSUME NEW i \in 1..(k + 1)
      PROVE  t[n + i] = Printed(l, i)
  <2>1. CASE i = k + 1
    <3>1. n + i = Len(ls) + 1
      BY <1>1, <2>1
    <3>2. QED
      BY <2>1, <3>1
  <2>2. CASE i # k + 1
    <3>1. i \in 1..k /\ n + i \in 1..Len(ls)
      BY <1>1, <2>2
    <3>2. QED
      BY <1>1, <3>1
  <2>3. QED
    BY <2>1, <2>2
<1>5. QED
  BY <1>2, <1>3, <1>4 DEF Reads

(***************************************************************************)
(* When the end marker has been received, everything from the start marker *)
(* to it is the script of the line that is being read; only its prompt can *)
(* still be to come.                                                       *)
(***************************************************************************)
LEMMA EndIsOwn ==
  ASSUME TypeOK, IInv, call # NoCmd, Has("end", out)
  PROVE  LET e == Len(Script(reading)) - 1 IN
         /\ \E n \in Nat :
              /\ First("start", out) = n + 1 /\ First("end", out) = n + e
              /\ n + e \in 1..Len(out)
              /\ \A i \in 1..e : out[n + i] = Printed(reading, i)
         /\ Prompts(bytes[channel])
         /\ reading \in Cmds => reading \in ran
         /\ connected => \/ todo[channel] = <<>>
                         \/ todo[channel] = <<reading>> /\ step[channel] = e
<1> DEFINE scr == Script(reading)
           e == Len(scr) - 1
           b == bytes[channel]
<1>1. /\ reading \in Cmds \cup {Hello} /\ channel \in Shells
      /\ out \in Seq(Tokens) /\ b \in Seq(Tokens)
  BY DEF IInv, CallAgrees, TypeOK
<1>2. PICK k \in 0..Len(scr) :
        /\ Reads(Stream, reading, k)
        /\ k >= 2 /\ reading \in Cmds => reading \in ran
        /\ connected => InStep(k)
  BY DEF IInv, StreamAgrees, ReadingAgrees
<1>3. PICK n \in 0..Len(Stream) :
        /\ Len(Stream) = n + k
        /\ \A i \in 1..n : Stream[i].kind = "prompt"
        /\ \A i \in 1..k : Stream[n + i] = Printed(reading, i)
  BY <1>2 DEF Reads
<1>4. /\ Len(out) \in Nat /\ Len(b) \in Nat /\ Len(Stream) = Len(out) + Len(b)
      /\ \A i \in 1..Len(out) : Stream[i] = out[i]
      /\ \A i \in 1..Len(b) : Stream[Len(out) + i] = b[i]
  BY <1>1, LenProperties, ConcatProperties DEF Stream
<1>5. /\ e \in {3, 4} /\ Len(scr) = e + 1
      /\ scr[1] = "start" /\ scr[e] = "end" /\ scr[e + 1] = "prompt"
      /\ \A i \in 1..(e + 1) : /\ scr[i] = "start" => i = 1
                               /\ scr[i] = "end" => i = e
  BY <1>1, CallScript
<1>6. \A i : Printed(reading, i).kind = scr[i]
  BY DEF Printed
<1> HIDE DEF scr, b, e
<1>7. k >= e /\ n + e <= Len(out)
  <2>1. PICK j \in 1..Len(out) : out[j].kind = "end"
    BY DEF Has
  <2>2. j \in 1..(n + k) /\ Stream[j].kind = "end"
    BY <1>3, <1>4, <2>1
  <2>3. j > n
    BY <1>3, <2>1, <2>2
  <2>4. j - n \in 1..k /\ j = n + (j - n)
    BY <2>2, <2>3
  <2>5. scr[j - n] = "end"
    BY <1>3, <1>6, <2>2, <2>4
  <2>6. j - n = e
    BY <1>2, <1>5, <2>4, <2>5
  <2>7. QED
    BY <1>2, <1>4, <2>1, <2>4, <2>6
<1>8. \A i \in 1..e : out[n + i] = Printed(reading, i)
  BY <1>3, <1>4, <1>5, <1>7
<1>9. \A i \in 1..n : out[i].kind = "prompt"
  BY <1>3, <1>4, <1>5, <1>7, SMTT(20)
<1>10. n + 1 \in 1..Len(out) /\ n + e \in 1..Len(out)
  BY <1>5, <1>7
<1>11. First("start", out) = n + 1
  <2>1. out[n + 1].kind = "start"
    BY <1>5, <1>6, <1>8
  <2>2. \A j \in 1..((n + 1) - 1) : out[j].kind # "start"
    BY <1>9
  <2>3. QED
    BY <1>4, <1>10, <2>1, <2>2, FirstIs
<1>12. First("end", out) = n + e
  <2>1. out[n + e].kind = "end"
    BY <1>5, <1>6, <1>8
  <2>2. ASSUME NEW j \in 1..((n + e) - 1)
        PROVE  out[j].kind # "end"
    <3>1. CASE j <= n
      BY <1>9, <3>1
    <3>2. CASE j > n
      <4>1. j - n \in 1..(e - 1) /\ j = n + (j - n)
        BY <1>5, <3>2
      <4>2. out[j] = Printed(reading, j - n)
        BY <1>5, <1>8, <4>1
      <4>3. scr[j - n] # "end"
        BY <1>5, <4>1
      <4>4. QED
        BY <1>6, <4>2, <4>3
    <3>3. QED
      BY <1>5, <3>1, <3>2
  <2>3. QED
    BY <1>4, <1>10, <2>1, <2>2, FirstIs
<1>13. Prompts(b)
  <2> SUFFICES ASSUME NEW i \in 1..Len(b)
               PROVE  b[i].kind = "prompt"
    BY DEF Prompts
  <2>1. k = e + 1 /\ Len(out) + i = n + (e + 1)
    BY <1>2, <1>3, <1>4, <1>5, <1>7
  <2>2. b[i] = Printed(reading, e + 1)
    BY <1>3, <1>4, <1>5, <2>1
  <2>3. QED
    BY <1>5, <1>6, <2>2
<1>14. reading \in Cmds => reading \in ran
  BY <1>2, <1>5, <1>7
<1>15. connected => \/ todo[channel] = <<>>
                    \/ todo[channel] = <<reading>> /\ step[channel] = e
  <2> SUFFICES ASSUME connected, InStep(k), todo[channel] # <<>>
               PROVE  todo[channel] = <<reading>> /\ step[channel] = e
    BY <1>2
  <2>1. todo[channel] = <<reading>> /\ step[channel] = k
    BY <1>5, <1>7 DEF InStep
  <2>2. Head(todo[channel]) = reading
    BY <2>1
  <2>3. step[channel] < Len(Script(Head(todo[channel])))
    BY <1>1 DEF IInv, ShellsAgree, ShellAgrees
  <2>4. k < Len(scr)
    BY <2>1, <2>2, <2>3 DEF scr
  <2>5. QED
    BY <1>2, <1>5, <1>7, <2>1, <2>4
<1>16. \E m \in Nat :
         /\ First("start", out) = m + 1 /\ First("end", out) = m + e
         /\ m + e \in 1..Len(out)
         /\ \A i \in 1..e : out[m + i] = Printed(reading, i)
  BY <1>3, <1>8, <1>10, <1>11, <1>12
<1>17. QED
  BY <1>13, <1>14, <1>15, <1>16, Zenon DEF b, scr, e

-----------------------------------------------------------------------------
(***************************************************************************)
(* The shells, step by step.                                               *)
(***************************************************************************)
LEMMA ShellTypes ==
  ASSUME TypeOK, NEW s \in Shells
  PROVE  /\ s \in Nat /\ opened \in Nat /\ step[s] \in Nat
         /\ todo[s] \in Seq(Lines) /\ bytes[s] \in Seq(Tokens)
         /\ Len(todo[s]) \in Nat /\ Len(bytes[s]) \in Nat
<1>1. /\ todo \in [Shells -> Seq(Lines)] /\ bytes \in [Shells -> Seq(Tokens)]
      /\ step \in [Shells -> 0..4] /\ opened \in 0..MaxShells
  BY DEF TypeOK
<1>2. step[s] \in 0..4 /\ todo[s] \in Seq(Lines) /\ bytes[s] \in Seq(Tokens)
  BY <1>1
<1>3. s \in Nat /\ opened \in Nat /\ step[s] \in Nat
  BY <1>1, <1>2, CmdsAssumption DEF Shells
<1>4. QED
  BY <1>2, <1>3, LenProperties

LEMMA SameShell ==
  ASSUME TypeOK, NEW r \in Shells, ShellAgrees(r),
         todo'[r] = todo[r], step'[r] = step[r],
         bytes'[r] = bytes[r] \/ r <= opened,
         ran \subseteq ran', asked \subseteq asked', opened' \in {opened, opened + 1}
  PROVE  ShellAgrees(r)'
<1>1. opened \in Nat /\ r \in Nat
  BY CmdsAssumption DEF TypeOK, Shells
<1>2. r > opened' => r > opened
  BY <1>1
<1>3. Pending(r)' = Pending(r)
  BY DEF Pending
<1>4. QED
  BY <1>1, <1>2, <1>3 DEF ShellAgrees, AtPrompt

(* A line is typed to a shell that has at most a prompt left to print.     *)
LEMMA TypedShell ==
  ASSUME TypeOK, NEW s \in Shells, ShellAgrees(s), NEW l \in Lines,
         Len(todo[s]) <= 1, todo[s] # <<>> => AtPrompt(s),
         todo'[s] = todo[s] \o <<l>>, step' = step, ran' = ran,
         s <= opened', asked \subseteq asked', l \in Cmds => l \in asked',
         opened' \in Nat
  PROVE  ShellAgrees(s)'
<1> DEFINE t == todo[s] \o <<l>>
<1>1. todo[s] \in Seq(Lines) /\ step[s] \in Nat /\ s \in Nat
  BY ShellTypes
<1>2. /\ t # <<>> /\ Len(t) = Len(todo[s]) + 1 /\ Len(todo[s]) \in Nat
      /\ todo[s] = <<>> => Head(t) = l /\ t = <<l>>
      /\ todo[s] # <<>> => Head(t) = Head(todo[s]) /\ Len(todo[s]) = 1
      /\ {t[i] : i \in 1..Len(t)} = {todo[s][i] : i \in 1..Len(todo[s])} \cup {l}
  <2> DEFINE u == todo[s]
  <2>1. u \in Seq(Lines) /\ Len(u) <= 1
    BY <1>1
  <2> HIDE DEF u
  <2>2. /\ u \o <<l>> # <<>>
        /\ Len(u \o <<l>>) = Len(u) + 1 /\ Len(u) \in Nat
        /\ u = <<>> => u \o <<l>> = <<l>> /\ Head(u \o <<l>>) = l
        /\ u # <<>> => /\ Head(u \o <<l>>) = Head(u)
                       /\ Len(u) = 1
        /\ {(u \o <<l>>)[i] : i \in 1..Len(u \o <<l>>)}
              = {u[i] : i \in 1..Len(u)} \cup {l}
    BY <2>1, TypedLines
  <2>3. QED
    BY <2>2, Zenon DEF u
<1>3. Pending(s)' = Pending(s) \cup {l}
  BY <1>2 DEF Pending
<1>4. todo'[s] = t
  OBVIOUS
<1> HIDE DEF t
<1>5. Pending(s)' \cap Cmds \subseteq asked'
  BY <1>3 DEF ShellAgrees
<1>6. ~(s > opened')
  BY <1>1
<1>7. CASE todo[s] = <<>>
  <2>1. step[s] = 0 /\ Head(t) = l /\ Len(t) = 1
    BY <1>2, <1>7 DEF ShellAgrees, t
  <2>2. 0 < Len(Script(l))
    BY ScriptType
  <2>3. QED
    BY <1>4, <1>5, <1>6, <2>1, <2>2 DEF ShellAgrees
<1>8. CASE todo[s] # <<>>
  <2>1. /\ Head(t) = Head(todo[s]) /\ Len(t) = 2
        /\ step[s] < Len(Script(Head(todo[s])))
        /\ Head(todo[s]) \in Cmds /\ step[s] >= 2 => Head(todo[s]) \in ran
    BY <1>2, <1>8 DEF ShellAgrees
  <2>2. AtPrompt(s)'
    BY <1>4, <1>8, <2>1 DEF AtPrompt
  <2>3. QED
    BY <1>2, <1>4, <1>5, <1>6, <2>1, <2>2 DEF ShellAgrees
<1>9. QED
  BY <1>7, <1>8

(* After a line has finished, the next one has printed nothing yet.        *)
LEMMA NextLine ==
  ASSUME NEW s \in Shells, step'[s] = 0, ~(s > opened'),
         Pending(s)' \cap Cmds \subseteq asked',
         todo'[s] = <<>> \/ \E m \in Lines : todo'[s] = <<m>>
  PROVE  ShellAgrees(s)'
<1>1. (todo[s] # <<>> =>
        /\ step[s] < Len(Script(Head(todo[s])))
        /\ Head(todo[s]) \in Cmds /\ step[s] >= 2 => Head(todo[s]) \in ran)'
  <2> SUFFICES ASSUME NEW m \in Lines, todo'[s] = <<m>>
               PROVE  0 < Len(Script(m))
    OBVIOUS
  <2>1. QED
    BY ScriptType
<1>2. (Len(todo[s]) <= 2)' /\ (Len(todo[s]) = 2 => AtPrompt(s))'
  <2>1. CASE todo'[s] = <<>>
    BY <2>1
  <2>2. ASSUME NEW m \in Lines, todo'[s] = <<m>>
        PROVE  (Len(todo[s]) <= 2)' /\ (Len(todo[s]) = 2 => AtPrompt(s))'
    <3>1. Len(<<m>>) = 1
      OBVIOUS
    <3>2. Len(todo'[s]) = 1
      BY <2>2, <3>1, Zenon
    <3>3. QED
      BY ONLY <3>2
  <2>3. QED
    BY <2>1, <2>2
<1>3. (Pending(s) \cap Cmds \subseteq asked)'
  OBVIOUS
<1>4. (s > opened => todo[s] = <<>> /\ bytes[s] = <<>>)'
  OBVIOUS
<1>5. QED
  BY <1>1, <1>2, <1>3, <1>4 DEF ShellAgrees

LEMMA EmittedShell ==
  ASSUME TypeOK, ShellsAgree, CallAgrees, NEW s \in Shells, Emit(s)
  PROVE  ShellAgrees(s)' /\ ran \subseteq ran' /\ s <= opened
<1> DEFINE l == todo[s][1]
           k == step[s] + 1
<1>1. /\ todo[s] # <<>> /\ l = Head(todo[s]) /\ l \in Lines /\ l \in Pending(s)
      /\ k \in 1..Len(Script(l)) /\ k <= 5
      /\ \/ k = Len(Script(l)) /\ todo'[s] = Tail(todo[s]) /\ step'[s] = 0
         \/ k < Len(Script(l)) /\ todo'[s] = todo[s] /\ step'[s] = k
      /\ ran' = IF Script(l)[k] \in {"text", "fused"} /\ l \in Cmds
                THEN ran \cup {l} ELSE ran
      /\ asked' = asked /\ opened' = opened
  BY EmitEffect
<1>2. /\ todo[s] \in Seq(Lines) /\ Len(todo[s]) <= 2 /\ s \in Nat /\ opened \in Nat
      /\ s <= opened /\ step[s] \in Nat
  BY <1>1, ShellTypes DEF ShellsAgree, ShellAgrees
<1>3. Pending(s) \cap Cmds \subseteq asked' /\ ~(s > opened') /\ ran \subseteq ran'
  BY <1>1, <1>2 DEF ShellsAgree, ShellAgrees
<1> HIDE DEF l
<1>4. ASSUME k = Len(Script(l)), todo'[s] = Tail(todo[s]), step'[s] = 0
      PROVE  ShellAgrees(s)'
  <2>1. CASE Len(todo[s]) = 1 /\ Tail(todo[s]) = <<>>
    <3>1. todo'[s] = <<>>
      BY <1>4, <2>1
    <3>2. Pending(s)' = {}
      BY <3>1 DEF Pending
    <3>3. QED
      BY <1>3, <1>4, <3>1, <3>2, NextLine
  <2>2. CASE Len(todo[s]) = 2 /\ Tail(todo[s]) = <<todo[s][2]>> /\ todo[s][2] \in Lines
    <3>1. todo'[s] = <<todo[s][2]>>
      BY <1>4, <2>2
    <3>2. Pending(s)' \subseteq Pending(s)
      BY <2>2, <3>1 DEF Pending
    <3>3. QED
      BY <1>3, <1>4, <2>2, <3>1, <3>2, NextLine
  <2>3. QED
    BY <1>1, <1>2, <2>1, <2>2, TailOfTwo
<1>5. ASSUME k < Len(Script(l)), todo'[s] = todo[s], step'[s] = k
      PROVE  ShellAgrees(s)'
  <2>1. Len(todo[s]) # 2
    <3>1. Len(Script(l)) \in {1, 4, 5}
      BY <1>1, ScriptType
    <3>2. QED
      BY <1>1, <1>2, <1>5, <3>1 DEF ShellsAgree, ShellAgrees, AtPrompt
  <2>2. Pending(s)' = Pending(s)
    BY <1>5 DEF Pending
  <2>3. l \in Cmds /\ k >= 2 => l \in ran'
    <3>1. CASE k = 2
      <4>1. l \in Cmds => Script(l)[2] \in {"text", "fused"}
        BY CallScript
      <4>2. QED
        BY <1>1, <3>1, <4>1
    <3>2. CASE k > 2
      BY <1>1, <1>2, <3>2 DEF ShellsAgree, ShellAgrees
    <3>3. QED
      BY <1>2, <3>1, <3>2
  <2>4. Head(todo'[s]) = l /\ todo'[s] # <<>>
    BY <1>1, <1>5
  <2>5. QED
    BY <1>1, <1>2, <1>3, <1>5, <2>1, <2>2, <2>3, <2>4 DEF ShellAgrees
<1>6. QED
  BY <1>1, <1>2, <1>3, <1>4, <1>5

(***************************************************************************)
(* What the tester's steps do to the shells: it types to one at most.      *)
(***************************************************************************)
LEMMA ParseCases ==
  ASSUME Parse
  PROVE  /\ call # NoCmd /\ Has("end", out)
         /\ UNCHANGED <<asked, channel, connected, opened, step, bytes, more,
                       ran>>
         /\ \/ /\ reading = Hello /\ connected /\ Type(channel, <<call>>)
               /\ reading' = call /\ out' = <<>> /\ UNCHANGED <<call, answer>>
            \/ /\ reading = Hello /\ call' = NoCmd /\ reading' = NoCmd
               /\ out' = <<>> /\ Ended(call, "unsent", TRUE) /\ UNCHANGED todo
            \/ /\ reading # Hello /\ call' = NoCmd /\ reading' = NoCmd
               /\ out' = <<>> /\ UNCHANGED todo
               /\ \E status \in Readings(out[First("end", out) - 1]) :
                    Ended(call, status,
                          status = "unreadable" \/ Raises(call, status))
  BY DEF Parse, Return, Read

(* Once a call has ended, a shell that is connected takes another line.    *)
LEMMA ReadyShell ==
  ASSUME TypeOK, IInv, connected, call = NoCmd \/ Has("end", out)
  PROVE  /\ channel \in Shells /\ Len(todo[channel]) <= 1
         /\ todo[channel] # <<>> => AtPrompt(channel)
         /\ Prompts(bytes[channel])
<1>1. CASE call = NoCmd
  BY <1>1 DEF IInv, CallAgrees, StreamAgrees, IdleAgrees, TypeOK
<1>2. CASE call # NoCmd /\ Has("end", out)
  <2>1. \/ todo[channel] = <<>>
        \/ /\ todo[channel] = <<reading>>
           /\ step[channel] = Len(Script(reading)) - 1
    BY <1>2, EndIsOwn
  <2>2. Len(todo[channel]) <= 1
    BY <2>1, AtMostOne
  <2>3. ASSUME todo[channel] # <<>>
        PROVE  AtPrompt(channel)
    <3>1. Head(<<reading>>) = reading
      OBVIOUS
    <3>2. QED
      BY <2>1, <2>3, <3>1, Zenon DEF AtPrompt
  <2>4. QED
    BY <1>2, <2>2, <2>3, EndIsOwn DEF IInv, CallAgrees, TypeOK
<1>3. QED
  BY <1>1, <1>2

LEMMA StepShells == TypeOK /\ IInv /\ [Next]_vars => ShellsAgree'
<1> SUFFICES ASSUME TypeOK, IInv, [Next]_vars, NEW r \in Shells
             PROVE  ShellAgrees(r)'
  BY DEF ShellsAgree
<1>0. /\ ShellsAgree /\ CallAgrees /\ StreamAgrees /\ ShellAgrees(r)
      /\ opened \in Nat /\ channel <= opened
  BY CmdsAssumption DEF IInv, ShellsAgree, CallAgrees, TypeOK
<1>1. ASSUME NEW c \in Cmds, Begin(c), OpenShell(c)
      PROVE  ShellAgrees(r)'
  <2> DEFINE s == opened + 1
  <2>1. /\ s \in Shells /\ opened' = opened + 1 /\ asked' = asked \cup {c}
        /\ Type(s, <<Podman, Hello>>)
        /\ UNCHANGED <<step, bytes, ran>>
    BY <1>1, CmdsAssumption DEF Begin, OpenShell, Shells, TypeOK
  <2>2. <<Podman, Hello>> \in Seq(Lines)
    BY DEF Lines
  <2>3. /\ \A q \in Shells \ {s} : todo'[q] = todo[q]
        /\ todo'[s] = todo[s] \o <<Podman, Hello>>
    BY <2>1, <2>2, TypeEffect
  <2>4. todo[s] = <<>> /\ step[s] = 0
    BY <1>0, <2>1 DEF ShellsAgree, ShellAgrees
  <2>5. todo'[s] = <<Podman, Hello>>
    BY <2>2, <2>3, <2>4, ConcatEmptySeq
  <2>6. CASE r = s
    <3>1. /\ Len(<<Podman, Hello>>) = 2 /\ Head(<<Podman, Hello>>) = Podman
          /\ <<Podman, Hello>> # <<>>
          /\ {<<Podman, Hello>>[i] : i \in 1..2} = {Podman, Hello}
      OBVIOUS
    <3>2. /\ Len(todo'[r]) = 2 /\ Head(todo'[r]) = Podman /\ todo'[r] # <<>>
      BY <2>5, <2>6, <3>1
    <3>3. Pending(r)' = {Podman, Hello}
      BY <2>5, <2>6, <3>1 DEF Pending
    <3>4. step'[r] = 0
      BY <2>1, <2>4, <2>6
    <3>5. ~(r > opened')
      BY <1>0, <2>1, <2>6
    <3>6. Podman \notin Cmds /\ Hello \notin Cmds
      BY CmdsAssumption
    <3>7. AtPrompt(r)'
      BY <3>2, <3>4, PodmanScript DEF AtPrompt
    <3>8. QED
      BY <3>2, <3>3, <3>4, <3>5, <3>6, <3>7, PodmanScript, SMTT(20)
         DEF ShellAgrees
  <2>7. CASE r # s
    BY <1>0, <2>1, <2>3, <2>7, SameShell
  <2>8. QED
    BY <2>6, <2>7
<1>2. ASSUME NEW c \in Cmds, Begin(c), SendCommand(c)
      PROVE  ShellAgrees(r)'
  <2>1. /\ channel \in Shells /\ Type(channel, <<c>>) /\ asked' = asked \cup {c}
        /\ call = NoCmd /\ connected
        /\ UNCHANGED <<opened, step, bytes, ran>>
    BY <1>2 DEF Begin, SendCommand, TypeOK
  <2>2. <<c>> \in Seq(Lines) /\ c \in Lines
    BY DEF Lines
  <2>3. /\ \A q \in Shells \ {channel} : todo'[q] = todo[q]
        /\ todo'[channel] = todo[channel] \o <<c>>
    BY <2>1, <2>2, TypeEffect
  <2>4. Len(todo[channel]) <= 1 /\ (todo[channel] # <<>> => AtPrompt(channel))
    BY <2>1, ReadyShell
  <2>5. CASE r = channel
    BY <1>0, <2>1, <2>2, <2>3, <2>4, <2>5, TypedShell
  <2>6. CASE r # channel
    BY <1>0, <2>1, <2>3, <2>6, SameShell
  <2>7. QED
    BY <2>5, <2>6
<1>3. ASSUME NEW c \in Cmds, Begin(c), SendFails(c)
      PROVE  ShellAgrees(r)'
  BY <1>0, <1>3, SameShell DEF Begin, SendFails
<1>4. CASE Recv
  <2>1. bytes'[r] = bytes[r] \/ r = channel
    BY <1>4 DEF Recv, TypeOK
  <2>2. QED
    BY <1>0, <1>4, <2>1, SameShell DEF Recv
<1>5. CASE Parse
  <2>1. CASE connected /\ Type(channel, <<call>>) /\ reading = Hello
    <3>1. /\ call # NoCmd /\ Has("end", out) /\ channel \in Shells
          /\ call \in Cmds /\ call \in asked
          /\ UNCHANGED <<asked, opened, step, bytes, ran>>
      BY <1>0, <1>5, ParseCases DEF CallAgrees, TypeOK
    <3>2. <<call>> \in Seq(Lines) /\ call \in Lines
      BY <3>1 DEF Lines
    <3>3. /\ \A q \in Shells \ {channel} : todo'[q] = todo[q]
          /\ todo'[channel] = todo[channel] \o <<call>>
      BY <2>1, <3>1, <3>2, TypeEffect
    <3>4. Len(todo[channel]) <= 1 /\ (todo[channel] # <<>> => AtPrompt(channel))
      BY <2>1, <3>1, ReadyShell
    <3>5. CASE r = channel
      BY <1>0, <3>1, <3>2, <3>3, <3>4, <3>5, TypedShell
    <3>6. CASE r # channel
      BY <1>0, <3>1, <3>3, <3>6, SameShell
    <3>7. QED
      BY <3>5, <3>6
  <2>2. CASE UNCHANGED todo
    BY <1>0, <1>5, <2>2, ParseCases, SameShell
  <2>3. QED
    BY <1>5, <2>1, <2>2, ParseCases
<1>6. CASE TimesOut
  BY <1>0, <1>6, SameShell DEF TimesOut, shells
<1>7. ASSUME NEW s \in Shells, Emit(s)
      PROVE  ShellAgrees(r)'
  <2>1. CASE r = s
    BY <1>0, <1>7, <2>1, EmittedShell
  <2>2. CASE r # s
    <3>1. /\ todo'[r] = todo[r] /\ step'[r] = step[r] /\ asked' = asked
          /\ opened' = opened
      BY <1>0, <1>7, <2>2, EmitEffect
    <3>2. bytes'[r] = bytes[r]
      BY <1>7, <2>2 DEF Emit, TypeOK
    <3>3. ran \subseteq ran'
      BY <1>0, <1>7, EmittedShell
    <3>4. QED
      BY <1>0, <3>1, <3>2, <3>3, SameShell
  <2>3. QED
    BY <2>1, <2>2
<1>8. ASSUME NEW s \in Shells, HangUp(s)
      PROVE  ShellAgrees(r)'
  <2>1. /\ todo'[s] = <<>> /\ step'[s] = 0
        /\ \A q \in Shells \ {s} : todo'[q] = todo[q] /\ step'[q] = step[q]
        /\ UNCHANGED <<asked, opened, bytes, ran>>
    BY <1>8, HangUpEffect
  <2>2. CASE r = s
    <3>1. Pending(r)' = {}
      BY <2>1, <2>2 DEF Pending
    <3>2. ~(r > opened')
      BY <1>0, <1>8, <2>1, <2>2, ShellTypes DEF HangUp, ShellAgrees
    <3>3. QED
      BY <2>1, <2>2, <3>1, <3>2, NextLine
  <2>3. CASE r # s
    BY <1>0, <2>1, <2>3, SameShell
  <2>4. QED
    BY <2>2, <2>3
<1>9. CASE RemoteCloses
  BY <1>0, <1>9, SameShell DEF RemoteCloses, tester, shells
<1>10. CASE Quiet
  BY <1>0, <1>10, SameShell, QuietEffect
<1>11. QED
  BY <1>1, <1>2, <1>3, <1>4, <1>5, <1>6, <1>7, <1>8, <1>9, <1>10
  DEF Next, Begin, Quiet

(* A shell only ever loses lines by itself.                                *)
LEMMA EmitPending ==
  ASSUME TypeOK, ShellsAgree, NEW s \in Shells, Emit(s)
  PROVE  /\ \A r \in Shells \ {s} : Pending(r)' = Pending(r)
         /\ \/ Pending(s)' = Pending(s)
            \/ Pending(s) = Pending(s)' \cup {todo[s][1]}
<1>1. /\ todo[s] # <<>>
      /\ todo'[s] = Tail(todo[s]) \/ todo'[s] = todo[s]
      /\ \A r \in Shells \ {s} : todo'[r] = todo[r]
  BY EmitEffect
<1>2. \A r \in Shells \ {s} : Pending(r)' = Pending(r)
  BY <1>1 DEF Pending
<1>3. CASE todo'[s] = todo[s]
  BY <1>2, <1>3 DEF Pending
<1>4. CASE todo'[s] = Tail(todo[s])
  <2> DEFINE u == todo[s]
             t == Tail(u)
  <2>1. u \in Seq(Lines)
    BY ShellTypes
  <2>2. /\ Len(t) = Len(u) - 1 /\ \A i \in 1..Len(t) : t[i] = u[i + 1]
    BY <1>1, <2>1, HeadTailProperties
  <2>3. Len(u) \in Nat \ {0}
    BY <1>1, <2>1, EmptySeq
  <2> HIDE DEF t, u
  <2>4. {u[i] : i \in 1..Len(u)} = {t[i] : i \in 1..Len(t)} \cup {u[1]}
    <3>1. ASSUME NEW i \in 1..Len(u)
          PROVE  u[i] \in {t[j] : j \in 1..Len(t)} \cup {u[1]}
      <4>1. CASE i # 1
        <5>1. i - 1 \in 1..Len(t) /\ u[i] = t[i - 1]
          BY <2>2, <2>3, <4>1
        <5>2. QED
          BY <5>1
      <4>2. QED
        BY <4>1
    <3>2. ASSUME NEW i \in 1..Len(t)
          PROVE  t[i] \in {u[j] : j \in 1..Len(u)}
      BY <2>2, <2>3
    <3>3. u[1] \in {u[j] : j \in 1..Len(u)}
      BY <2>3
    <3>4. QED
      BY <3>1, <3>2, <3>3
  <2>5. Pending(s) = Pending(s)' \cup {todo[s][1]}
    BY <1>4, <2>4 DEF Pending, t, u
  <2>6. QED
    BY <1>2, <2>5
<1>5. QED
  BY <1>1, <1>3, <1>4

LEMMA HangUpPending ==
  ASSUME TypeOK, NEW s \in Shells, HangUp(s)
  PROVE  Pending(s)' = {} /\ \A r \in Shells \ {s} : Pending(r)' = Pending(r)
  BY HangUpEffect DEF Pending

LEMMA TypedPending ==
  ASSUME TypeOK, NEW s \in Shells, Len(todo[s]) <= 1, NEW l \in Lines,
         Type(s, <<l>>)
  PROVE  /\ Pending(s)' = Pending(s) \cup {l}
         /\ \A r \in Shells \ {s} : Pending(r)' = Pending(r)
<1>1. <<l>> \in Seq(Lines) /\ todo[s] \in Seq(Lines)
  BY ShellTypes
<1>2. /\ \A r \in Shells \ {s} : todo'[r] = todo[r]
      /\ todo'[s] = todo[s] \o <<l>>
  BY <1>1, TypeEffect
<1>3. {(todo[s] \o <<l>>)[i] : i \in 1..Len(todo[s] \o <<l>>)}
        = {todo[s][i] : i \in 1..Len(todo[s])} \cup {l}
  BY <1>1, TypedLines
<1>4. QED
  BY <1>2, <1>3 DEF Pending

LEMMA OpenedPending ==
  ASSUME TypeOK, ShellsAgree, NEW c \in Cmds, OpenShell(c), NEW s, s = opened + 1
  PROVE  /\ s \in Shells /\ todo[s] = <<>> /\ todo'[s] = <<Podman, Hello>>
         /\ bytes[s] = <<>>
         /\ Pending(s) = {} /\ Pending(s)' = {Podman, Hello}
         /\ \A r \in Shells \ {s} : Pending(r)' = Pending(r)
<1>1. /\ s \in Shells /\ s > opened /\ Type(s, <<Podman, Hello>>)
  BY CmdsAssumption DEF OpenShell, Shells, TypeOK
<1>2. <<Podman, Hello>> \in Seq(Lines)
  BY DEF Lines
<1>3. /\ \A q \in Shells \ {s} : todo'[q] = todo[q]
      /\ todo'[s] = todo[s] \o <<Podman, Hello>>
  BY <1>1, <1>2, TypeEffect
<1>4. todo[s] = <<>> /\ bytes[s] = <<>>
  BY <1>1 DEF ShellsAgree, ShellAgrees
<1>5. todo'[s] = <<Podman, Hello>>
  BY <1>2, <1>3, <1>4, ConcatEmptySeq
<1>6. {<<Podman, Hello>>[i] : i \in 1..Len(<<Podman, Hello>>)} = {Podman, Hello}
  OBVIOUS
<1>7. Pending(s)' = {Podman, Hello}
  BY <1>5, <1>6, Zenon DEF Pending
<1>8. Pending(s) = {}
  BY <1>4 DEF Pending
<1>9. \A q \in Shells \ {s} : Pending(q)' = Pending(q)
  BY <1>3 DEF Pending
<1>10. QED
  BY <1>1, <1>4, <1>5, <1>7, <1>8, <1>9

-----------------------------------------------------------------------------
(***************************************************************************)
(* The tester's books, step by step.                                       *)
(***************************************************************************)
LEMMA StepCall == TypeOK /\ IInv /\ [Next]_vars => CallAgrees'
<1> SUFFICES ASSUME TypeOK, IInv, [Next]_vars
             PROVE  CallAgrees'
  OBVIOUS
<1>0. /\ ShellsAgree /\ CallAgrees /\ StreamAgrees
      /\ opened \in Nat /\ channel \in Nat
      /\ NoCmd \notin Cmds /\ NoCmd # Hello /\ Hello \notin Cmds
      /\ \A r \in Shells : Pending(r) \cap Cmds \subseteq asked
  BY CmdsAssumption DEF IInv, TypeOK, ShellsAgree, ShellAgrees, Shells, NoShell
<1>1. ASSUME NEW c \in Cmds, Begin(c), OpenShell(c)
      PROVE  CallAgrees'
  <2>1. /\ c \notin asked /\ asked' = asked \cup {c} /\ call' = c
        /\ channel' = opened + 1 /\ opened' = opened + 1 /\ reading' = Hello
        /\ ran' = ran
    BY <1>1 DEF Begin, OpenShell, Read
  <2>2. \A r \in Shells : c \notin Pending(r)'
    <3>1. c \notin {Podman, Hello}
      BY CmdsAssumption
    <3>2. \A r \in Shells : Pending(r)' = Pending(r) \/ Pending(r)' = {Podman, Hello}
      BY <1>0, <1>1, OpenedPending
    <3>3. \A r \in Shells : c \notin Pending(r)
      BY <1>0, <2>1
    <3>4. QED
      BY <3>1, <3>2, <3>3
  <2>3. QED
    BY <1>0, <2>1, <2>2 DEF CallAgrees, NoShell
<1>2. ASSUME NEW c \in Cmds, Begin(c), SendCommand(c)
      PROVE  CallAgrees'
  BY <1>0, <1>2 DEF CallAgrees, Begin, SendCommand, Read
<1>3. ASSUME NEW c \in Cmds, Begin(c), SendFails(c)
      PROVE  CallAgrees'
  BY <1>0, <1>3 DEF CallAgrees, Begin, SendFails
<1>4. CASE Recv
  BY <1>0, <1>4 DEF CallAgrees, Recv, Pending
<1>5. CASE Parse
  <2>1. /\ call # NoCmd
        /\ UNCHANGED <<asked, channel, connected, opened, ran>>
        /\ \/ call' = call /\ reading' = call
           \/ call' = NoCmd /\ reading' = NoCmd /\ out' = <<>>
    BY <1>5, ParseCases
  <2>2. call # Hello
    BY <1>0, <2>1 DEF TypeOK
  <2>3. QED
    BY <1>0, <2>1, <2>2 DEF CallAgrees
<1>6. CASE TimesOut
  BY <1>0, <1>6 DEF CallAgrees, TimesOut, Read, shells, NoShell, Waiting
<1>7. ASSUME NEW s \in Shells, Emit(s)
      PROVE  CallAgrees'
  <2>1. /\ todo[s][1] \in Pending(s)
        /\ ran' = ran \/ ran' = ran \cup ({todo[s][1]} \cap Cmds)
        /\ UNCHANGED <<asked, call, reading, out, channel, connected, opened>>
    BY <1>0, <1>7, EmitEffect
  <2>2. \A r \in Shells : Pending(r)' \subseteq Pending(r)
    BY <1>0, <1>7, EmitPending
  <2>3. QED
    BY <1>0, <2>1, <2>2 DEF CallAgrees
<1>8. ASSUME NEW s \in Shells, HangUp(s)
      PROVE  CallAgrees'
  <2>1. UNCHANGED <<asked, call, reading, out, channel, connected, opened, ran>>
    BY <1>8, HangUpEffect
  <2>2. \A r \in Shells : Pending(r)' \subseteq Pending(r)
    BY <1>8, HangUpPending
  <2>3. QED
    BY <1>0, <2>1, <2>2 DEF CallAgrees
<1>9. CASE RemoteCloses
  BY <1>0, <1>9 DEF CallAgrees, RemoteCloses, tester, shells, Pending
<1>10. CASE Quiet
  BY <1>0, <1>10, QuietEffect DEF CallAgrees, Pending
<1>11. QED
  BY <1>1, <1>2, <1>3, <1>4, <1>5, <1>6, <1>7, <1>8, <1>9, <1>10
  DEF Next, Begin, Quiet

-----------------------------------------------------------------------------
(***************************************************************************)
(* The stream, step by step.                                               *)
(***************************************************************************)
LEMMA NothingRead ==
  ASSUME bytes'[channel'] \in Seq(Tokens), Prompts(bytes'[channel']),
         out' = <<>>, connected' => InStep(0)'
  PROVE  ReadingAgrees'
<1>1. Stream' = bytes'[channel']
  <2>1. <<>> \o bytes'[channel'] = bytes'[channel']
    BY ConcatEmptySeq
  <2>2. QED
    BY <2>1 DEF Stream
<1>2. Reads(Stream', reading', 0)
  BY <1>1, ReadsNothing
<1>3. 0 \in 0..Len(Script(reading'))
  <2>1. Len(Script(reading')) \in Nat
    BY DEF Script
  <2>2. QED
    BY <2>1
<1>4. QED
  BY <1>2, <1>3 DEF ReadingAgrees

LEMMA TypedIsRead ==
  ASSUME TypeOK, ShellsAgree, channel \in Shells, Len(todo[channel]) <= 1,
         Prompts(bytes[channel]), NEW l \in Lines, Type(channel, <<l>>),
         reading' = l, out' = <<>>, UNCHANGED <<channel, step, bytes>>
  PROVE  ReadingAgrees'
<1> DEFINE u == todo[channel]
<1>1. /\ u \in Seq(Lines) /\ Len(u) <= 1 /\ Len(u) \in Nat
      /\ bytes[channel] \in Seq(Tokens)
  BY ShellTypes
<1>2. <<l>> \in Seq(Lines)
  OBVIOUS
<1>3. todo'[channel] = u \o <<l>>
  BY <1>2, TypeEffect
<1>4. u = <<>> => step[channel] = 0
  BY DEF ShellsAgree, ShellAgrees
<1> HIDE DEF u
<1>5. /\ Len(u \o <<l>>) = Len(u) + 1 /\ (u \o <<l>>)[Len(u) + 1] = l
      /\ u = <<>> => u \o <<l>> = <<l>>
      /\ u # <<>> => Len(u) = 1
  BY <1>1, TypedLines
<1>6. InStep(0)'
  <2>1. CASE u = <<>>
    BY <1>3, <1>4, <1>5, <2>1 DEF InStep
  <2>2. CASE u # <<>>
    <3>1. Len(u \o <<l>>) = 2 /\ (u \o <<l>>)[2] = l
      <4> DEFINE w == u \o <<l>>
      <4>1. Len(w) = Len(u) + 1 /\ w[Len(u) + 1] = l /\ Len(u) = 1
        BY <1>5, <2>2
      <4> HIDE DEF w
      <4>2. Len(w) = 2 /\ w[2] = l
        BY <4>1
      <4>3. QED
        BY <4>2 DEF w
    <3>2. Len(todo'[channel]) = 2 /\ todo'[channel][2] = reading'
      BY <1>3, <3>1
    <3>3. QED
      BY <3>2 DEF InStep
  <2>3. QED
    BY <2>1, <2>2
<1>7. QED
  BY <1>1, <1>6, NothingRead

(* Nothing but what the command's own output may say changes.              *)
LEMMA SameStream ==
  ASSUME TypeOK, StreamAgrees, UNCHANGED <<call, reading, channel>>,
         call # NoCmd => Stream' = Stream,
         call = NoCmd /\ connected' => bytes'[channel] = bytes[channel],
         ran \subseteq ran',
         connected' =>
           /\ connected
           /\ todo'[channel] = todo[channel] /\ step'[channel] = step[channel]
  PROVE  StreamAgrees'
<1>1. ASSUME call # NoCmd
      PROVE  ReadingAgrees'
  <2>1. PICK k \in 0..Len(Script(reading)) :
          /\ Reads(Stream, reading, k)
          /\ k >= 2 /\ reading \in Cmds => reading \in ran
          /\ connected => InStep(k)
    BY <1>1 DEF StreamAgrees, ReadingAgrees
  <2>2. Reads(Stream', reading', k)
    BY <1>1, <2>1
  <2>3. connected' => InStep(k)'
    BY <2>1 DEF InStep
  <2>4. QED
    BY <2>1, <2>2, <2>3 DEF ReadingAgrees
<1>2. IdleAgrees'
  BY DEF StreamAgrees, IdleAgrees, AtPrompt
<1>3. QED
  BY <1>1, <1>2 DEF StreamAgrees, ReadingAgrees

(***************************************************************************)
(* The shell that is listened to prints a line.                            *)
(***************************************************************************)
LEMMA HeardStream ==
  ASSUME TypeOK, IInv, NEW s \in Shells, Emit(s), s = channel, connected
  PROVE  StreamAgrees'
<1> DEFINE u   == todo[s]
           l   == u[1]
           k   == step[s] + 1
           tok == Printed(l, k)
           b   == bytes[s]
<1>1. /\ u # <<>> /\ l = Head(u) /\ l \in Lines /\ k \in 1..Len(Script(l))
      /\ \/ k = Len(Script(l)) /\ todo'[s] = Tail(u) /\ step'[s] = 0
         \/ k < Len(Script(l)) /\ todo'[s] = u /\ step'[s] = k
      /\ bytes' = [bytes EXCEPT ![s] = Append(@, tok)]
      /\ ran' = IF Script(l)[k] \in {"text", "fused"} /\ l \in Cmds
                THEN ran \cup {l} ELSE ran
      /\ UNCHANGED <<call, reading, out, channel, connected>>
  BY EmitEffect DEF IInv, Listening
<1>2. /\ u \in Seq(Lines) /\ b \in Seq(Tokens) /\ out \in Seq(Tokens)
      /\ step[s] \in Nat /\ Len(u) <= 2 /\ (Len(u) = 2 => AtPrompt(s))
      /\ bytes'[s] = Append(b, tok)
  BY <1>1, ShellTypes DEF IInv, ShellsAgree, ShellAgrees, TypeOK
<1>3. tok.kind = Script(l)[k]
  BY DEF Printed
<1>4. AtPrompt(s) => /\ tok.kind = "prompt" /\ todo'[s] = Tail(u)
                     /\ step'[s] = 0
  <2>1. AtPrompt(s) => step[s] = Len(Script(l)) - 1
    BY <1>1, Zenon DEF AtPrompt
  <2>2. Len(Script(l)) \in Nat /\ Script(l)[Len(Script(l))] = "prompt"
    BY <1>1, ScriptType
  <2>3. AtPrompt(s) => k = Len(Script(l))
    BY <1>2, <2>1, <2>2
  <2>4. ASSUME k = Len(Script(l))
        PROVE  todo'[s] = Tail(u) /\ step'[s] = 0
    <3> HIDE DEF u, l, k
    <3>1. ~(k < Len(Script(l)))
      BY <2>2, <2>4
    <3>2. QED
      BY <1>1, <3>1
  <2>5. QED
    BY <1>3, <2>2, <2>3, <2>4
<1>5. /\ Head(u) = u[1]
      /\ \/ Len(u) = 1 /\ Tail(u) = <<>> /\ u = <<u[1]>>
         \/ Len(u) = 2 /\ Tail(u) = <<u[2]>>
  BY <1>1, <1>2, TailOfTwo
<1>6. tok \in Tokens
  BY <1>1, ScriptType DEF Printed, Tokens
<1>7. CASE call = NoCmd
  <2>1. Prompts(b) /\ AtPrompt(s) /\ Len(u) <= 1
    BY <1>1, <1>7 DEF IInv, StreamAgrees, IdleAgrees
  <2>2. tok.kind = "prompt" /\ todo'[s] = Tail(u)
    BY <1>4, <2>1
  <2>3. /\ Len(Append(b, tok)) = Len(b) + 1 /\ Len(b) \in Nat
        /\ \A i \in 1..Len(b) : Append(b, tok)[i] = b[i]
        /\ Append(b, tok)[Len(b) + 1] = tok
    BY <1>2, <1>6, AppendProperties, LenProperties
  <2>4. Prompts(bytes'[s])
    <3> DEFINE w == Append(b, tok)
    <3>1. Len(w) = Len(b) + 1 /\ w[Len(b) + 1] = tok
          /\ \A i \in 1..Len(b) : w[i] = b[i]
      BY <2>3
    <3> HIDE DEF w, tok, b
    <3>2. ASSUME NEW i \in 1..Len(w)
          PROVE  w[i].kind = "prompt"
      BY <2>1, <2>2, <2>3, <3>1, <3>2 DEF Prompts
    <3>3. Prompts(w)
      BY <3>2 DEF Prompts
    <3>4. QED
      BY <1>2, <3>3 DEF w
  <2>5. todo'[s] = <<>>
    <3>1. Len(u) # 2
      BY <1>5, <2>1
    <3>2. QED
      BY <1>5, <2>2, <3>1
  <2>6. Len(<<>>) <= 1
    OBVIOUS
  <2>7. QED
    BY <1>1, <1>7, <2>4, <2>5, <2>6 DEF StreamAgrees, ReadingAgrees, IdleAgrees
<1>8. CASE call # NoCmd
  <2>1. PICK n \in 0..Len(Script(reading)) :
          /\ Reads(Stream, reading, n)
          /\ n >= 2 /\ reading \in Cmds => reading \in ran
          /\ InStep(n)
    BY <1>8 DEF IInv, StreamAgrees, ReadingAgrees
  <2>2. /\ Len(Stream) \in Nat /\ Len(Stream') = Len(Stream) + 1
        /\ \A i \in 1..Len(Stream) : Stream'[i] = Stream[i]
        /\ Stream'[Len(Stream) + 1] = tok
    <3>1. Stream' = out \o Append(b, tok) /\ Stream = out \o b
      BY <1>1, <1>2 DEF Stream
    <3>2. out \in Seq(Tokens) /\ b \in Seq(Tokens) /\ tok \in Tokens
      BY <1>2, <1>6
    <3> HIDE DEF b, tok
    <3>3. out \o b \in Seq(Tokens)
      BY ONLY <3>2, ConcatProperties
    <3>4. Len(out \o b) \in Nat
      BY ONLY <3>3, LenProperties
    <3>5. /\ Len(out \o Append(b, tok)) = Len(out \o b) + 1
          /\ \A i \in 1..Len(out \o b) :
               (out \o Append(b, tok))[i] = (out \o b)[i]
          /\ (out \o Append(b, tok))[Len(out \o b) + 1] = tok
      BY ONLY <3>2, ConcatAppend
    <3>6. QED
      BY <3>1, <3>4, <3>5, Zenon
  <2>3. reading \in Cmds \cup {Hello} /\ reading \in Lines
    BY <1>8 DEF IInv, CallAgrees, TypeOK, Lines
  <2>4. CASE n = 0 /\ Len(u) = 2 /\ u[2] = reading
    <3>1. tok.kind = "prompt" /\ todo'[s] = Tail(u) /\ step'[s] = 0
      BY <1>2, <1>4, <2>4
    <3>2. todo'[s] = <<reading>> /\ step'[s] = 0
      BY <1>5, <2>4, <3>1
    <3>3. Reads(Stream', reading, 0)
      BY <2>1, <2>2, <2>4, <3>1, ReadsPrompt
    <3>4. InStep(0)'
      BY <1>1, <3>2 DEF InStep
    <3>5. QED
      BY <1>1, <1>8, <2>1, <2>4, <3>3, <3>4 DEF StreamAgrees, ReadingAgrees,
         IdleAgrees
  <2>5. CASE u = <<reading>> /\ step[s] = n
    <3>1. l = reading /\ k = n + 1 /\ n \in Nat
      BY <1>2, <2>5
    <3>2. Reads(Stream', reading, n + 1)
      BY <2>1, <2>2, <3>1, ReadsMore
    <3>3. n + 1 >= 2 /\ reading \in Cmds => reading \in ran'
      <4>1. reading \in Cmds => Script(reading)[2] \in {"text", "fused"}
        BY <2>3, CallScript
      <4>2. CASE n + 1 = 2
        BY <1>1, <3>1, <4>1, <4>2
      <4>3. CASE n >= 2
        BY <1>1, <2>1, <4>3
      <4>4. QED
        BY <3>1, <4>2, <4>3
    <3>4. Tail(u) = <<>>
      <4>1. Len(<<reading>>) = 1
        OBVIOUS
      <4>2. Len(u) = 1
        BY <2>5, <4>1, Zenon
      <4>3. QED
        BY <1>5, <4>2
    <3>5. n + 1 \in 0..Len(Script(reading)) /\ InStep(n + 1)'
      BY <1>1, <2>5, <3>1, <3>4 DEF InStep
    <3>6. QED
      BY <1>1, <1>8, <3>2, <3>3, <3>5 DEF StreamAgrees, ReadingAgrees, IdleAgrees
  <2>6. QED
    BY <1>1, <2>1, <2>4, <2>5 DEF InStep
<1>9. QED
  BY <1>7, <1>8

LEMMA StepStream == TypeOK /\ IInv /\ [Next]_vars => StreamAgrees'
<1> SUFFICES ASSUME TypeOK, IInv, [Next]_vars
             PROVE  StreamAgrees'
  OBVIOUS
<1>0. /\ ShellsAgree /\ CallAgrees /\ StreamAgrees
      /\ NoCmd \notin Cmds /\ \A r \in Shells : bytes[r] \in Seq(Tokens)
  BY CmdsAssumption DEF IInv, TypeOK
<1>1. ASSUME NEW c \in Cmds, Begin(c), OpenShell(c), NEW s, s = opened + 1
      PROVE  StreamAgrees'
  <2>1. /\ channel' = s /\ call' = c /\ reading' = Hello /\ out' = <<>>
        /\ UNCHANGED <<step, bytes, ran>>
    BY <1>1 DEF Begin, OpenShell, Read
  <2>2. s \in Shells /\ todo'[s] = <<Podman, Hello>> /\ bytes[s] = <<>>
    BY <1>0, <1>1, OpenedPending
  <2>3. Len(<<Podman, Hello>>) = 2 /\ <<Podman, Hello>>[2] = Hello
    OBVIOUS
  <2>4. InStep(0)'
    BY <2>1, <2>2, <2>3 DEF InStep
  <2>5. Stream' = <<>> \o <<>> /\ <<>> \o <<>> = <<>>
    BY <2>1, <2>2 DEF Stream
  <2>6. Reads(<<>>, Hello, 0)
    <3>1. <<>> \in Seq(Tokens) /\ Prompts(<<>>)
      BY DEF Prompts
    <3>2. QED
      BY <3>1, ReadsNothing
  <2>7. 0 \in 0..Len(Script(Hello))
    BY ScriptType DEF Lines
  <2>8. QED
    BY <1>0, <1>1, <2>1, <2>4, <2>5, <2>6, <2>7
    DEF StreamAgrees, ReadingAgrees, IdleAgrees
<1>2. ASSUME NEW c \in Cmds, Begin(c), SendCommand(c)
      PROVE  StreamAgrees'
  <2>1. /\ call = NoCmd /\ connected /\ Type(channel, <<c>>) /\ call' = c
        /\ reading' = c /\ out' = <<>>
        /\ UNCHANGED <<channel, step, bytes>>
    BY <1>2 DEF Begin, SendCommand, Read
  <2>2. c \in Lines
    BY DEF Lines
  <2>3. ReadingAgrees'
    BY <1>0, <2>1, <2>2, ReadyShell, TypedIsRead
  <2>4. QED
    BY <1>0, <2>1, <2>3 DEF StreamAgrees, IdleAgrees
<1>3. ASSUME NEW c \in Cmds, Begin(c), SendFails(c)
      PROVE  StreamAgrees'
  BY <1>0, <1>3 DEF Begin, SendFails, StreamAgrees, ReadingAgrees, IdleAgrees
<1>4. CASE Recv
  <2>1. /\ call # NoCmd /\ channel \in Shells
        /\ out' = out \o bytes[channel]
        /\ bytes' = [bytes EXCEPT ![channel] = <<>>]
        /\ UNCHANGED <<call, reading, channel, connected, todo, step, ran>>
    BY <1>0, <1>4 DEF Recv, CallAgrees, TypeOK
  <2>2. bytes'[channel] = <<>>
    BY <2>1 DEF TypeOK
  <2>3. Stream \in Seq(Tokens)
    BY <1>0, <2>1, ConcatProperties DEF Stream, TypeOK
  <2>4. Stream' = Stream \o <<>>
    BY <2>1, <2>2 DEF Stream
  <2>5. Stream' = Stream
    BY <2>3, <2>4, ConcatEmptySeq
  <2>6. QED
    BY <1>0, <2>1, <2>5, SameStream
<1>5. CASE Parse
  <2>1. CASE call' = NoCmd /\ UNCHANGED todo
    <3>1. /\ Has("end", out)
          /\ UNCHANGED <<channel, connected, step, bytes>>
      BY <1>5, ParseCases
    <3>2. IdleAgrees'
      BY <2>1, <3>1, ReadyShell DEF IdleAgrees, AtPrompt
    <3>3. QED
      BY <2>1, <3>2 DEF StreamAgrees, ReadingAgrees
  <2>2. CASE /\ connected /\ Type(channel, <<call>>)
             /\ reading' = call /\ out' = <<>> /\ UNCHANGED call
    <3>1. /\ Has("end", out) /\ call # NoCmd
          /\ UNCHANGED <<channel, connected, step, bytes>>
      BY <1>5, ParseCases
    <3>2. call \in Lines
      BY <3>1 DEF TypeOK, Lines
    <3>3. ReadingAgrees'
      BY <1>0, <2>2, <3>1, <3>2, ReadyShell, TypedIsRead
    <3>4. QED
      BY <2>2, <3>1, <3>3 DEF StreamAgrees, IdleAgrees
  <2>3. QED
    BY <1>5, <2>1, <2>2, ParseCases
<1>6. CASE TimesOut
  BY <1>6 DEF TimesOut, StreamAgrees, ReadingAgrees, IdleAgrees
<1>7. ASSUME NEW s \in Shells, Emit(s)
      PROVE  StreamAgrees'
  <2>1. CASE s = channel /\ connected
    BY <1>7, <2>1, HeardStream
  <2>2. CASE ~(s = channel /\ connected)
    <3>1. /\ bytes' = bytes
          /\ \A r \in Shells \ {s} : todo'[r] = todo[r] /\ step'[r] = step[r]
          /\ UNCHANGED <<call, reading, out, channel, connected>>
      BY <1>0, <1>7, <2>2, EmitEffect DEF Listening
    <3>2. Stream' = Stream
      BY <3>1 DEF Stream
    <3>3. ran \subseteq ran'
      BY <1>0, <1>7, EmittedShell
    <3>4. connected => channel \in Shells \ {s}
      BY <1>0, <2>2 DEF CallAgrees, TypeOK
    <3>5. QED
      BY <1>0, <3>1, <3>2, <3>3, <3>4, SameStream
  <2>3. QED
    BY <2>1, <2>2
<1>8. ASSUME NEW s \in Shells, HangUp(s)
      PROVE  StreamAgrees'
  <2>1. /\ ~(s = channel /\ connected)
        /\ \A r \in Shells \ {s} : todo'[r] = todo[r] /\ step'[r] = step[r]
        /\ UNCHANGED <<call, reading, out, channel, connected, bytes, ran>>
    BY <1>8, HangUpEffect DEF HangUp, Listening
  <2>2. Stream' = Stream
    BY <2>1 DEF Stream
  <2>3. connected => channel \in Shells \ {s}
    BY <1>0, <2>1 DEF CallAgrees, TypeOK
  <2>4. QED
    BY <1>0, <2>1, <2>2, <2>3, SameStream
<1>9. CASE RemoteCloses
  <2>1. /\ ~connected' /\ UNCHANGED <<call, reading, out, channel, bytes, ran>>
    BY <1>9 DEF RemoteCloses, tester, shells
  <2>2. Stream' = Stream
    BY <2>1 DEF Stream
  <2>3. QED
    BY <1>0, <2>1, <2>2, SameStream
<1>10. CASE Quiet
  <2>1. /\ UNCHANGED <<call, reading, out, channel, connected, todo, step,
                       bytes, ran>>
    BY <1>10, QuietEffect
  <2>2. Stream' = Stream
    BY <2>1 DEF Stream
  <2>3. QED
    BY <1>0, <2>1, <2>2, SameStream
<1>11. QED
  BY <1>1, <1>2, <1>3, <1>4, <1>5, <1>6, <1>7, <1>8, <1>9, <1>10
  DEF Next, Begin, Quiet

-----------------------------------------------------------------------------
(***************************************************************************)
(* The inductive invariant, and what run() takes for its command's output. *)
(***************************************************************************)
LEMMA InitIInv == Init => IInv
<1> SUFFICES ASSUME Init
             PROVE  IInv
  OBVIOUS
<1>1. /\ \A s \in Shells : todo[s] = <<>> /\ step[s] = 0 /\ bytes[s] = <<>>
      /\ Len(<<>>) = 0
  BY DEF Init
<1>2. \A s \in Shells : Pending(s) = {}
  BY <1>1 DEF Pending
<1>3. ShellsAgree
  <2> SUFFICES ASSUME NEW s \in Shells
               PROVE  ShellAgrees(s)
    BY DEF ShellsAgree
  <2>1. Len(todo[s]) = 0
    BY <1>1
  <2>2. Len(todo[s]) <= 2 /\ Len(todo[s]) # 2
    BY ONLY <2>1
  <2>3. QED
    BY <1>1, <1>2, <2>2 DEF ShellAgrees
<1>4. CallAgrees
  BY CmdsAssumption DEF Init, CallAgrees, NoShell
<1>5. StreamAgrees
  BY DEF Init, StreamAgrees, ReadingAgrees, IdleAgrees
<1>6. QED
  BY <1>3, <1>4, <1>5 DEF IInv

LEMMA Invariance == Spec => [](TypeOK /\ IInv)
<1>1. TypeOK /\ IInv /\ [Next]_vars => (TypeOK /\ IInv)'
  BY StepTypeOK, StepShells, StepCall, StepStream DEF IInv
<1>2. QED
  BY <1>1, InitTypeOK, InitIInv, PTL DEF Spec

(***************************************************************************)
(* The shells, the streams and the tester's books keep their types.        *)
(***************************************************************************)
THEOREM TypeCorrect == Spec => []TypeOK
  BY Invariance, PTL

(***************************************************************************)
(* What run() takes for the output of its command was printed by it, from  *)
(* the first start marker to the first end marker, and the command has     *)
(* run: an answer to an earlier call is never taken for it.                *)
(***************************************************************************)
THEOREM OutputIsOfTheCommand == Spec => []OutputIsOwn
<1>1. TypeOK /\ IInv => OutputIsOwn
  <2> SUFFICES ASSUME TypeOK, IInv, Has("end", out)
               PROVE  /\ Has("start", out)
                      /\ First("start", out) < First("end", out)
                      /\ \A i \in First("start", out)..First("end", out) :
                           out[i].of = reading
                      /\ reading \in Cmds => reading \in ran
    BY DEF OutputIsOwn
  <2>1. call # NoCmd
    <3>1. call = NoCmd => out = <<>>
      BY DEF IInv, CallAgrees
    <3>2. Len(<<>>) = 0
      OBVIOUS
    <3>3. QED
      BY <3>1, <3>2 DEF Has
  <2> DEFINE e == Len(Script(reading)) - 1
  <2>2. e \in {3, 4}
    <3>1. reading \in Cmds \cup {Hello}
      BY <2>1 DEF IInv, CallAgrees, TypeOK
    <3>2. QED
      BY <3>1, CallScript
  <2>3. /\ reading \in Cmds => reading \in ran
        /\ \E n \in Nat :
             /\ First("start", out) = n + 1 /\ First("end", out) = n + e
             /\ n + e \in 1..Len(out)
             /\ \A i \in 1..e : out[n + i] = Printed(reading, i)
    BY <2>1, EndIsOwn
  <2> HIDE DEF e
  <2>4. PICK n \in Nat :
          /\ First("start", out) = n + 1 /\ First("end", out) = n + e
          /\ n + e \in 1..Len(out)
          /\ \A i \in 1..e : out[n + i] = Printed(reading, i)
    BY <2>3
  <2>5. Has("start", out)
    <3>1. n + 1 \in 1..Len(out) /\ out[n + 1] = Printed(reading, 1)
      <4>1. Len(out) \in Nat
        BY LenProperties DEF TypeOK
      <4>2. QED
        BY <2>2, <2>4, <4>1
    <3>2. Printed(reading, 1).kind = "start"
      <4>1. reading \in Cmds \cup {Hello}
        BY <2>1 DEF IInv, CallAgrees, TypeOK
      <4>2. QED
        BY <4>1, CallScript DEF Printed
    <3>3. QED
      BY <3>1, <3>2 DEF Has
  <2>6. ASSUME NEW i \in (n + 1)..(n + e)
        PROVE  out[i].of = reading
    <3>1. i - n \in 1..e /\ i = n + (i - n)
      BY <2>2
    <3>2. out[i] = Printed(reading, i - n)
      BY <2>4, <3>1
    <3>3. QED
      BY <3>2 DEF Printed
  <2>7. QED
    BY <2>2, <2>3, <2>4, <2>5, <2>6
<1>2. QED
  BY <1>1, Invariance, PTL

-----------------------------------------------------------------------------
(***************************************************************************)
(* Every step of the remote shell is a step of RemoteCall, or none.        *)
(***************************************************************************)
LEMMA LateIs ==
  /\ \A x : x \in Late <=> /\ x \in Cmds /\ x # call /\ x \notin ran
                           /\ \E s \in Shells : x \in Pending(s)
  /\ \A x : x \in Late' <=> /\ x \in Cmds /\ x # call' /\ x \notin ran'
                            /\ \E s \in Shells : x \in Pending(s)'
  BY DEF Late

(* Whether a command is late depends on nothing but these three.           *)
LEMMA SameLate ==
  ASSUME \A x \in Cmds :
           (/\ x # call' /\ x \notin ran'
            /\ \E s \in Shells : x \in Pending(s)')
             <=> (x # call /\ x \notin ran /\ \E s \in Shells : x \in Pending(s))
  PROVE  Late' = Late
<1>1. \A x : x \in Late' <=> x \in Late
  BY LateIs
<1>2. QED
  BY <1>1, Zenon

LEMMA CallStutters ==
  ASSUME UNCHANGED <<asked, call, ran, answer>>, Late' = Late
  PROVE  UNCHANGED Calls!vars
  BY DEF Calls!vars

LEMMA BeginImplements ==
  ASSUME TypeOK, IInv, NEW c \in Cmds, Begin(c)
  PROVE  Calls!Begin(c)
<1>1. /\ call = NoCmd /\ c \notin asked /\ asked' = asked \cup {c} /\ ran' = ran
      /\ ShellsAgree /\ NoCmd \notin Cmds /\ {Podman, Hello} \cap Cmds = {}
      /\ \A r \in Shells : Pending(r) \cap Cmds \subseteq asked
  BY CmdsAssumption DEF Begin, IInv, ShellsAgree, ShellAgrees
<1>2. \A r \in Shells : c \notin Pending(r)
  BY <1>1
<1>3. CASE OpenShell(c)
  <2>1. call' = c /\ answer' = answer
    BY <1>3 DEF OpenShell
  <2>2. \A r \in Shells, x \in Cmds : x \in Pending(r)' <=> x \in Pending(r)
    <3>1. \A r \in Shells :
            \/ Pending(r)' = Pending(r)
            \/ Pending(r) = {} /\ Pending(r)' = {Podman, Hello}
      BY <1>1, <1>3, OpenedPending
    <3>2. QED
      BY <1>1, <3>1
  <2>3. Late' = Late
    BY <1>1, <1>2, <2>1, <2>2, SameLate
  <2>4. QED
    BY <1>1, <2>1, <2>3 DEF Calls!Begin
<1>4. CASE SendCommand(c)
  <2>1. /\ call' = c /\ answer' = answer /\ connected
        /\ Type(channel, <<c>>) /\ c \in Lines
    BY <1>4 DEF SendCommand, Lines
  <2>2. channel \in Shells /\ Len(todo[channel]) <= 1
    BY <1>1, <2>1, ReadyShell
  <2>3. \A r \in Shells : \/ Pending(r)' = Pending(r)
                          \/ Pending(r)' = Pending(r) \cup {c}
    BY <2>1, <2>2, TypedPending
  <2>4. Late' = Late
    <3>1. ASSUME NEW x \in Cmds, x # c
          PROVE  \A r \in Shells : x \in Pending(r)' <=> x \in Pending(r)
      BY <2>3, <3>1
    <3>2. QED
      BY <1>1, <1>2, <2>1, <3>1, SameLate
  <2>5. QED
    BY <1>1, <2>1, <2>4 DEF Calls!Begin
<1>5. CASE SendFails(c)
  <2>1. /\ call' = NoCmd /\ answer' = Calls!Unsent(c) /\ UNCHANGED todo
    BY <1>1, <1>5 DEF SendFails, Ended, Calls!Unsent
  <2>2. \A r \in Shells : Pending(r)' = Pending(r)
    BY <2>1 DEF Pending
  <2>3. Late' = Late
    BY <1>1, <2>1, <2>2, SameLate
  <2>4. QED
    BY <1>1, <2>1, <2>3 DEF Calls!Begin
<1>6. QED
  BY <1>3, <1>4, <1>5 DEF Begin

(***************************************************************************)
(* The exit status that is read is that of the command, except when the    *)
(* last line of its output has swallowed it.                               *)
(***************************************************************************)
LEMMA AnswerIsOwn ==
  ASSUME TypeOK, IInv, call # NoCmd, reading = call, Has("end", out),
         NEW status \in Readings(out[First("end", out) - 1]),
         Ended(call, status, status = "unreadable" \/ Raises(call, status))
  PROVE  answer' \in Calls!OwnAnswers(call)
<1> DEFINE e == Len(Script(call)) - 1
           line == out[First("end", out) - 1]
<1>1. call \in Cmds
  BY DEF TypeOK
<1>2. /\ e \in {3, 4}
      /\ Script(call)[e - 1] = IF call \in Unterminated THEN "fused" ELSE "status"
  BY <1>1, CallScript
<1>3. \E n \in Nat : /\ First("end", out) = n + e
                     /\ \A i \in 1..e : out[n + i] = Printed(call, i)
  BY EndIsOwn
<1>4. line = Printed(call, e - 1)
  <2> HIDE DEF e
  <2>1. PICK n \in Nat : /\ First("end", out) = n + e
                         /\ \A i \in 1..e : out[n + i] = Printed(call, i)
    BY <1>3
  <2>2. First("end", out) - 1 = n + (e - 1) /\ e - 1 \in 1..e
    BY <1>2, <2>1
  <2>3. QED
    BY <2>1, <2>2
<1>5. line.kind = Script(call)[e - 1] /\ line.of = call
  BY <1>4 DEF Printed
<1>6. status \in Readings(line)
  OBVIOUS
<1> HIDE DEF line, e
<1>7. answer' = [of |-> call, status |-> status,
                 raised |-> status = "unreadable" \/ Raises(call, status)]
  BY DEF Ended
<1>8. CASE call \in Unterminated
  <2>1. status \in {"unreadable", "failed"}
    BY <1>2, <1>5, <1>6, <1>8 DEF Readings
  <2>2. CASE status = "unreadable"
    BY <1>7, <1>8, <2>2 DEF Calls!OwnAnswers, Calls!Unreadable
  <2>3. CASE status = "failed"
    BY <1>7, <1>8, <2>3 DEF Calls!OwnAnswers, Calls!Answer, Raises
  <2>4. QED
    BY <2>1, <2>2, <2>3
<1>9. CASE call \notin Unterminated
  <2>1. status = IF call \in Fails THEN "failed" ELSE "ok"
    BY <1>2, <1>5, <1>6, <1>9 DEF Readings
  <2>2. QED
    BY <1>7, <1>9, <2>1 DEF Calls!OwnAnswers, Calls!Answer, Raises
<1>10. QED
  BY <1>8, <1>9

(* A call that ends before its command was sent leaves nothing behind.     *)
LEMMA UnsentImplements ==
  ASSUME TypeOK, IInv, call # NoCmd, reading = Hello, call' = NoCmd,
         Ended(call, "unsent", TRUE), UNCHANGED <<asked, ran, todo>>
  PROVE  Calls!End
<1>1. call \notin ran /\ \A s \in Shells : call \notin Pending(s)
  BY DEF IInv, CallAgrees
<1>2. \A s \in Shells : Pending(s)' = Pending(s)
  BY DEF Pending
<1>3. Late' = Late
  BY <1>1, <1>2, CmdsAssumption, SameLate
<1>4. answer' = Calls!Unsent(call)
  BY DEF Ended, Calls!Unsent
<1>5. QED
  BY <1>1, <1>3, <1>4 DEF Calls!End

LEMMA ParseImplements ==
  ASSUME TypeOK, IInv, Parse
  PROVE  [Calls!Next]_Calls!vars
<1>1. /\ call # NoCmd /\ call \in Cmds /\ Has("end", out)
      /\ UNCHANGED <<asked, channel, connected, opened, step, bytes, more,
                       ran>>
      /\ reading \in {Hello, call} /\ call # Hello
  BY ParseCases, CmdsAssumption DEF IInv, CallAgrees, TypeOK
<1>2. CASE /\ reading = Hello /\ connected /\ Type(channel, <<call>>)
           /\ UNCHANGED <<call, answer>>
  <2>1. channel \in Shells /\ Len(todo[channel]) <= 1 /\ call \in Lines
    BY <1>1, <1>2, ReadyShell DEF Lines
  <2>2. \A r \in Shells : \/ Pending(r)' = Pending(r)
                          \/ Pending(r)' = Pending(r) \cup {call}
    BY <1>2, <2>1, TypedPending
  <2>3. Late' = Late
    <3>1. \A x : x \in Late' <=> x \in Late
      BY <1>1, <1>2, <2>2, LateIs
    <3>2. QED
      BY <3>1, Zenon
  <2>4. QED
    BY <1>1, <1>2, <2>3, CallStutters
<1>3. CASE /\ reading = Hello /\ call' = NoCmd
           /\ Ended(call, "unsent", TRUE) /\ UNCHANGED todo
  BY <1>1, <1>3, UnsentImplements DEF Calls!Next
<1>4. CASE /\ reading # Hello /\ call' = NoCmd /\ UNCHANGED todo
           /\ \E status \in Readings(out[First("end", out) - 1]) :
                Ended(call, status,
                      status = "unreadable" \/ Raises(call, status))
  <2>1. reading = call /\ call \in ran
    BY <1>1, <1>4, EndIsOwn
  <2>2. answer' \in Calls!OwnAnswers(call)
    BY <1>1, <1>4, <2>1, AnswerIsOwn
  <2>3. \A s \in Shells : Pending(s)' = Pending(s)
    BY <1>4 DEF Pending
  <2>4. Late' = Late
    <3>1. \A x : x \in Late' <=> x \in Late
      BY <1>1, <1>4, <2>1, <2>3, CmdsAssumption, LateIs
    <3>2. QED
      BY <3>1, Zenon
  <2>5. QED
    BY <1>1, <1>4, <2>1, <2>2, <2>4 DEF Calls!Next, Calls!End
<1>5. QED
  BY <1>2, <1>3, <1>4, ParseCases

(* After a time-out the command may still run, unless it has run.          *)
LEMMA TimesOutImplements ==
  ASSUME TypeOK, IInv, TimesOut
  PROVE  Calls!End
<1>1. /\ call # NoCmd /\ call' = NoCmd /\ TimeoutAnswer
      /\ UNCHANGED <<asked, ran, todo>>
      /\ call \in Cmds /\ NoCmd \notin Cmds
  BY CmdsAssumption DEF TimesOut, Waiting, shells, TypeOK
<1>2. CASE reading = Hello
  BY <1>1, <1>2, UnsentImplements DEF TimeoutAnswer
<1>3. CASE reading # Hello
  <2>1. answer' = Calls!Answer(call, "timeout")
    BY <1>1, <1>3 DEF TimeoutAnswer, Ended, Raises, Calls!Answer
  <2>2. \A s \in Shells : Pending(s)' = Pending(s)
    BY <1>1 DEF Pending
  <2>3. \A x : x \in Late' <=>
               \/ x \in Late
               \/ x = call /\ x \notin ran /\ \E s \in Shells : x \in Pending(s)
    BY <1>1, <2>2, LateIs
  <2>4. CASE \E s \in Shells : call \in Pending(s)
    <3>1. \A x : x \in Late' <=> x \in Late \cup ({call} \ ran)
      BY <2>3, <2>4
    <3>2. Late' = Late \cup ({call} \ ran)
      BY <3>1, Zenon
    <3>3. QED
      BY <1>1, <2>1, <3>2 DEF Calls!End
  <2>5. CASE ~\E s \in Shells : call \in Pending(s)
    <3>1. \A x : x \in Late' <=> x \in Late
      BY <2>3, <2>5
    <3>2. Late' = Late
      BY <3>1, Zenon
    <3>3. QED
      BY <1>1, <2>1, <3>2 DEF Calls!End
  <2>6. QED
    BY <2>4, <2>5
<1>4. QED
  BY <1>2, <1>3

(***************************************************************************)
(* The shells: a step that changes nothing of the late commands except     *)
(* that one is no longer among them executes it, or drops it.              *)
(***************************************************************************)
LEMMA DropsLate ==
  ASSUME NEW l, UNCHANGED <<asked, call, answer>>,
         l # call, ran' \in {ran, ran \cup {l}}, l \in Late, l \notin Late',
         \A x : x # l => (x \in Late' <=> x \in Late)
  PROVE  [Calls!Next]_Calls!vars
<1>1. \A x : x \in Late' <=> x \in Late \ {l}
  OBVIOUS
<1>2. Late' = Late \ {l}
  BY <1>1, Zenon
<1>3. l \in Cmds
  BY LateIs
<1>4. Calls!ExecuteLate(l)
  BY <1>2 DEF Calls!ExecuteLate
<1>5. QED
  BY <1>3, <1>4 DEF Calls!Next

LEMMA EmitImplements ==
  ASSUME TypeOK, IInv, NEW s \in Shells, Emit(s)
  PROVE  [Calls!Next]_Calls!vars
<1> DEFINE l == todo[s][1]
<1>1. /\ l \in Pending(s) /\ UNCHANGED <<asked, call, answer>>
      /\ ran' = ran \/ (l \in Cmds /\ ran' = ran \cup {l})
  BY EmitEffect DEF IInv
<1>2. /\ \A r \in Shells \ {s} : Pending(r)' = Pending(r)
      /\ \/ Pending(s)' = Pending(s)
         \/ Pending(s) = Pending(s)' \cup {l}
  BY EmitPending DEF IInv
<1> HIDE DEF l
<1>3. \A x : x # l => \A r \in Shells : x \in Pending(r)' <=> x \in Pending(r)
  BY <1>2
<1>4. \A x : x # l => (x \in Late' <=> x \in Late)
  BY <1>1, <1>3, LateIs
<1>5. CASE l \in Late /\ l \notin Late'
  <2>1. l # call
    BY <1>5, LateIs
  <2>2. QED
    BY <1>1, <1>4, <1>5, <2>1, DropsLate
<1>6. CASE ~(l \in Late /\ l \notin Late')
  <2>1. \A r \in Shells : Pending(r)' \subseteq Pending(r)
    BY <1>2
  <2>2. l \in Late' => l \in Late
    BY <1>1, <2>1, LateIs
  <2>3. \A x : x \in Late' <=> x \in Late
    BY <1>4, <1>6, <2>2
  <2>4. Late' = Late
    BY <2>3, Zenon
  <2>5. CASE ran' = ran
    BY <1>1, <2>4, <2>5, CallStutters
  <2>6. CASE l \in Cmds /\ ran' = ran \cup {l} /\ l \notin ran
    <3>1. l = call
      BY <1>1, <1>6, <2>6, LateIs
    <3>2. call # NoCmd
      BY <2>6, <3>1, CmdsAssumption
    <3>3. Calls!Execute
      BY <1>1, <2>4, <2>6, <3>1, <3>2 DEF Calls!Execute
    <3>4. QED
      BY <3>3 DEF Calls!Next
  <2>7. QED
    BY <1>1, <2>5, <2>6
<1>7. QED
  BY <1>5, <1>6

(* At most one command that a shell still has before it has not run.       *)
LEMMA OneOutstanding ==
  ASSUME TypeOK, IInv, NEW s \in Shells, todo[s] # <<>>
  PROVE  \E y : \A x \in Pending(s) \cap Cmds : x = y \/ x \in ran
<1> DEFINE u == todo[s]
<1>1. u \in Seq(Lines) /\ u # <<>> /\ Len(u) <= 2
  BY ShellTypes DEF IInv, ShellsAgree, ShellAgrees
<1>2. /\ Len(u) = 2 => AtPrompt(s)
      /\ Head(u) \in Cmds /\ step[s] >= 2 => Head(u) \in ran
      /\ AtPrompt(s) /\ Head(u) \in Cmds => step[s] >= 2
  BY CallScript DEF IInv, ShellsAgree, ShellAgrees, AtPrompt
<1>3. Pending(s) = {u[i] : i \in 1..Len(u)}
  BY DEF Pending
<1> HIDE DEF u
<1>4. Head(u) = u[1] /\ (Len(u) = 1 \/ Len(u) = 2)
  BY ONLY <1>1, TailOfTwo
<1>5. CASE Len(u) = 1
  BY <1>3, <1>5
<1>6. CASE Len(u) = 2
  <2>1. \A x \in Pending(s) : x = u[1] \/ x = u[2]
    BY <1>3, <1>6
  <2>2. u[1] \in Cmds => u[1] \in ran
    BY ONLY <1>2, <1>4, <1>6
  <2>3. QED
    BY <2>1, <2>2
<1>7. QED
  BY <1>4, <1>5, <1>6

LEMMA HangUpImplements ==
  ASSUME TypeOK, IInv, NEW s \in Shells, HangUp(s)
  PROVE  [Calls!Next]_Calls!vars
<1>1. UNCHANGED <<asked, call, answer, ran>>
  BY HangUpEffect
<1>2. \A r \in Shells : Pending(r)' = IF r = s THEN {} ELSE Pending(r)
  BY HangUpPending
<1>3. PICK y : \A x \in Pending(s) \cap Cmds : x = y \/ x \in ran
  BY OneOutstanding DEF HangUp
<1>4. \A x : x # y => (x \in Late' <=> x \in Late)
  BY <1>1, <1>2, <1>3, LateIs
<1>5. CASE y \in Late /\ y \notin Late'
  <2>1. y # call
    BY <1>5, LateIs
  <2>2. QED
    BY <1>1, <1>4, <1>5, <2>1, DropsLate
<1>6. CASE ~(y \in Late /\ y \notin Late')
  <2>1. y \in Late' => y \in Late
    BY <1>1, <1>2, LateIs
  <2>2. \A x : x \in Late' <=> x \in Late
    BY <1>4, <1>6, <2>1
  <2>3. Late' = Late
    BY <2>2, Zenon
  <2>4. QED
    BY <1>1, <2>3, CallStutters
<1>7. QED
  BY <1>5, <1>6

(* Nothing is late before the first call.                                  *)
LEMMA InitImplements == Init => Calls!Init
<1> SUFFICES ASSUME Init
             PROVE  Calls!Init
  OBVIOUS
<1>1. \A s \in Shells : Pending(s) = {}
  BY DEF Init, Pending
<1>2. Late = {}
  BY <1>1 DEF Late
<1>3. QED
  BY <1>2 DEF Init, Calls!Init

LEMMA StepImplements == TypeOK /\ IInv /\ [Next]_vars => [Calls!Next]_Calls!vars
<1> SUFFICES ASSUME TypeOK, IInv, [Next]_vars
             PROVE  [Calls!Next]_Calls!vars
  OBVIOUS
<1>1. ASSUME NEW c \in Cmds, Begin(c)
      PROVE  [Calls!Next]_Calls!vars
  BY <1>1, BeginImplements DEF Calls!Next
<1>2. CASE Parse
  BY <1>2, ParseImplements
<1>3. CASE TimesOut
  BY <1>3, TimesOutImplements DEF Calls!Next
<1>4. ASSUME NEW s \in Shells, Emit(s)
      PROVE  [Calls!Next]_Calls!vars
  BY <1>4, EmitImplements
<1>5. ASSUME NEW s \in Shells, HangUp(s)
      PROVE  [Calls!Next]_Calls!vars
  BY <1>5, HangUpImplements
<1>6. CASE Recv \/ RemoteCloses \/ Quiet
  <2>1. UNCHANGED <<asked, call, answer, ran, todo>>
    BY <1>6, QuietEffect DEF Recv, RemoteCloses, tester, shells
  <2>2. \A s \in Shells : Pending(s)' = Pending(s)
    BY <2>1 DEF Pending
  <2>3. Late' = Late
    BY <2>1, <2>2, SameLate
  <2>4. QED
    BY <2>1, <2>3, CallStutters
<1>7. QED
  BY <1>1, <1>2, <1>3, <1>4, <1>5, <1>6 DEF Next, Quiet

(***************************************************************************)
(* The byte stream of the shells, with its markers, time-outs and left-    *)
(* overs (ovn_sandbox.py:80-147), gives the callers of Sandbox.run() the   *)
(* remote call that RemoteCall describes.                                  *)
(***************************************************************************)
THEOREM ShellIsARemoteCall == Spec => ImplementsRemoteCall
<1>1. Spec => Calls!Init
  BY InitImplements DEF Spec
<1>2. Spec => [][Calls!Next]_Calls!vars
  BY Invariance, StepImplements, PTL DEF Spec
<1>3. QED
  BY <1>1, <1>2 DEF ImplementsRemoteCall, Calls!Spec

=============================================================================
