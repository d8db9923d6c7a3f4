------------------------------- MODULE GdbRsp -------------------------------
(***************************************************************************)
(* The GDB remote protocol client of backend/gdb_rsp.py, started the way   *)
(* QemuBackend.start does, and a stub at the other end of the socket.      *)
(* The client issues command 0 (qSupported) from connect(), then commands  *)
(* 1..Commands: the chunks of memory, the registers and the steps that     *)
(* QemuBackend asks for, in order, one at a time.                          *)
(*                                                                         *)
(* The stub is external and does what QEMU's does: acknowledge a packet    *)
(* and execute it, ask for a damaged one again, resend its last packet     *)
(* when asked.  A damaged packet has a payload its checksum does not fit.  *)
(***************************************************************************)
EXTENDS Integers, Sequences

CONSTANTS
  Commands,      \* how many commands the session issues after qSupported
  Steps,         \* those that are step(), whose reply nobody inspects
  Attempts,      \* connections that can time out before the 15 s deadline
  Noises         \* what may go wrong in one session, see Noise

ASSUME SessionAssumption ==
  /\ Commands \in Nat /\ Attempts \in Nat
  /\ Steps \subseteq 1..Commands

Command == 0..Commands
Tries == 3

\* How many unsolicited packets the stub sends, how many packets are damaged on
\* the way up (to the stub) and down, how many replies miss the socket timeout.
Noise == [console : Nat, up : Nat, down : Nat, slow : Nat]
ASSUME NoiseAssumption == Noises \subseteq Noise

None == -1
Intact(kind, c) == [kind |-> kind, id |-> c, good |-> TRUE, ok |-> TRUE]
Ack == Intact("+", None)
Nack == Intact("-", None)
Console == Intact("console", None)
Packet(c) == Intact("command", c)
Reply(c, ok) == [kind |-> "reply", id |-> c, good |-> TRUE, ok |-> ok]
Token == [kind : {"+", "-", "console", "command", "reply"},
          id : Command \cup {None}, good : BOOLEAN, ok : BOOLEAN]
Framed(t) == t.kind \notin {"+", "-"}

VARIABLES
  pc,            \* where the caller is in start(), _send and _recv
  next,          \* the command being issued
  tries,         \* passes left of the loop in _send
  attempt,       \* connections made by start()
  toStub, toClient,   \* the two directions of the socket, _buf included
  busy, last,    \* stub: the command it executes; its last packet, not
                 \* acknowledged yet
  budget,        \* noise that may still strike
  noise,         \* the noise of this session
  answers,       \* the reply each command was given
  executed       \* what the stub executed, qSupported left out

link == <<toStub, toClient>>
stub == <<busy, last, executed>>
client == <<pc, next, tries, attempt, answers>>
vars == <<client, link, stub, budget, noise>>

Init ==
  /\ pc = "starting" /\ next = 0 /\ tries = 0 /\ attempt = 0
  /\ toStub = <<>> /\ toClient = <<>>
  /\ busy = None /\ last = <<>>
  /\ noise \in Noises /\ budget = noise
  /\ answers = <<>> /\ executed = <<>>

(***************************************************************************)
(* The client.                                                             *)
(***************************************************************************)
\* start() without its deadline.
Bug_Connect ==
  /\ pc = "starting"
  /\ pc' = "sent" /\ tries' = Tries /\ attempt' = attempt + 1
  /\ toStub' = <<Packet(0)>> /\ toClient' = <<>>
  /\ busy' = None /\ last' = <<>>
  /\ UNCHANGED <<next, answers, executed, budget, noise>>

\* connect(): a new socket, then qSupported.  A refused connection is tried
\* again by start() and changes nothing.
Connect ==
  /\ pc = "starting" /\ attempt < Attempts
  /\ pc' = "sent" /\ tries' = Tries /\ attempt' = attempt + 1
  /\ toStub' = <<Packet(0)>> /\ toClient' = <<>>
  /\ busy' = None /\ last' = <<>>
  /\ UNCHANGED <<next, answers, executed, budget, noise>>

\* start(): the deadline passed or the process exited; either raises.
StartFails ==
  /\ pc = "starting"
  /\ pc' = "failed"
  /\ UNCHANGED <<next, tries, attempt, answers, link, stub, budget, noise>>

Send ==
  /\ pc = "idle" /\ next <= Commands
  /\ toStub' = Append(toStub, Packet(next))
  /\ pc' = "sent" /\ tries' = Tries
  /\ UNCHANGED <<next, attempt, answers, toClient, stub, budget, noise>>

\* The next token of the stream is t.
Reads(t) == toClient # <<>> /\ Head(toClient) = t
Consume == toClient' = Tail(toClient)

Acked ==
  /\ pc = "sent" /\ Reads(Ack) /\ Consume
  /\ pc' = "receiving"
  /\ UNCHANGED <<next, tries, attempt, answers, toStub, stub, budget, noise>>

\* A definition named Bug_... is a slip in the definition after it, no part of
\* the model.  This one forgets to send the packet again.
Bug_Nacked ==
  /\ pc = "sent" /\ Reads(Nack) /\ Consume
  /\ tries' = tries - 1
  /\ pc' = IF tries = 1 THEN "failed" ELSE "sent"
  /\ UNCHANGED <<next, attempt, answers, toStub, stub, budget, noise>>

\* The third nack resends too, and then raises.
Nacked ==
  /\ pc = "sent" /\ Reads(Nack) /\ Consume
  /\ toStub' = Append(toStub, Packet(next))
  /\ tries' = tries - 1
  /\ pc' = IF tries = 1 THEN "failed" ELSE "sent"
  /\ UNCHANGED <<next, attempt, answers, stub, budget, noise>>

\* The first byte of a frame is pushed back and _send returns.
OutOfBand ==
  /\ pc = "sent" /\ toClient # <<>> /\ Framed(Head(toClient))
  /\ pc' = "receiving"
  /\ UNCHANGED <<next, tries, attempt, answers, link, stub, budget, noise>>

\* _recv passes over whatever stands between two frames.
Stray ==
  /\ pc = "receiving" /\ (Reads(Ack) \/ Reads(Nack)) /\ Consume
  /\ UNCHANGED <<client, toStub, stub, budget, noise>>

Frame(good) ==
  /\ pc = "receiving"
  /\ toClient # <<>> /\ Framed(Head(toClient)) /\ Head(toClient).good = good

\* A client that issues its command again when the reply is damaged.
Bug_BadFrame ==
  /\ Frame(FALSE) /\ Consume
  /\ toStub' = Append(toStub, Packet(next))
  /\ UNCHANGED <<client, stub, budget, noise>>

BadFrame ==
  /\ Frame(FALSE) /\ Consume
  /\ toStub' = Append(toStub, Nack)
  /\ UNCHANGED <<client, stub, budget, noise>>

\* A client that takes console output for a reply.
Bug_IsConsole(t) == FALSE
IsConsole(t) == t.kind = "console"

ConsoleFrame ==
  /\ Frame(TRUE) /\ IsConsole(Head(toClient)) /\ Consume
  /\ toStub' = Append(toStub, Ack)
  /\ UNCHANGED <<client, stub, budget, noise>>

\* cmd() returns.  read_mem, write_mem, read_reg and write_reg raise on an
\* error reply; step() and connect() do not look at theirs.
ReplyFrame ==
  /\ Frame(TRUE) /\ ~IsConsole(Head(toClient)) /\ Consume
  /\ toStub' = Append(toStub, Ack)
  /\ answers' = Append(answers, Head(toClient))
  /\ next' = next + 1
  /\ pc' = IF Head(toClient).ok \/ next \in Steps \cup {0} THEN "idle" ELSE "failed"
  /\ UNCHANGED <<tries, attempt, stub, budget, noise>>

Waiting == pc \in {"sent", "receiving"} /\ toClient = <<>>

\* socket.timeout is an OSError: start() catches it and connects again, over
\* a command of the session it passes to the caller.
TimesOut ==
  /\ pc' = IF next = 0 THEN "starting" ELSE "failed"
  /\ UNCHANGED <<next, tries, attempt, answers, link, stub, noise>>

\* Nothing will ever come: the stub has nothing to read and nothing to do.
Quiet == toStub = <<>> /\ busy = None
\* A socket without settimeout().
Bug_Silence == FALSE /\ UNCHANGED vars
Silence == Waiting /\ Quiet /\ TimesOut /\ UNCHANGED budget
\* The stub is late.
Slow ==
  /\ Waiting /\ ~Quiet /\ budget.slow > 0
  /\ budget' = [budget EXCEPT !.slow = @ - 1]
  /\ TimesOut

\* QemuBackend.__exit__, when the session is over or an exception passes.
Close ==
  /\ pc = "failed" \/ (pc = "idle" /\ next > Commands)
  /\ pc' = "closed"
  /\ UNCHANGED <<next, tries, attempt, answers, link, stub, budget, noise>>

Client ==
  Connect \/ StartFails \/ Send \/ Acked \/ Nacked \/ OutOfBand \/ Stray
    \/ BadFrame \/ ConsoleFrame \/ ReplyFrame \/ Silence \/ Close

(***************************************************************************)
(* The stub and the line (external).                                       *)
(***************************************************************************)
StubReads ==
  /\ busy = None /\ toStub # <<>> /\ toStub' = Tail(toStub)
  /\ UNCHANGED <<client, executed, budget, noise>>

StubAccepts ==
  /\ StubReads /\ Head(toStub).kind = "command"
  /\ last' = <<>>
  /\ IF Head(toStub).good
       THEN busy' = Head(toStub).id /\ toClient' = Append(toClient, Ack)
       ELSE busy' = None /\ toClient' = Append(toClient, Nack)

StubHearsAck ==
  /\ StubReads /\ Head(toStub) = Ack
  /\ last' = <<>> /\ UNCHANGED <<busy, toClient>>

StubResends ==
  /\ StubReads /\ Head(toStub) = Nack
  /\ toClient' = toClient \o last /\ UNCHANGED <<busy, last>>

\* Reading or writing may fail; a step or qSupported does not.
StubReplies ==
  /\ busy # None
  /\ \E ok \in IF busy \in Steps \cup {0} THEN {TRUE} ELSE BOOLEAN :
       last' = <<Reply(busy, ok)>>
  /\ toClient' = toClient \o last'
  /\ executed' = IF busy = 0 THEN executed ELSE Append(executed, busy)
  /\ busy' = None
  /\ UNCHANGED <<client, toStub, budget, noise>>

StubPrints ==
  /\ pc \notin {"starting", "closed"} /\ budget.console > 0
  /\ budget' = [budget EXCEPT !.console = @ - 1]
  /\ last' = <<Console>> /\ toClient' = Append(toClient, Console)
  /\ UNCHANGED <<client, toStub, busy, executed, noise>>

Damage(queue, i) == [queue EXCEPT ![i].good = FALSE]
Damageable(queue) == {i \in DOMAIN queue : Framed(queue[i]) /\ queue[i].good}

DamageUp ==
  /\ budget.up > 0 /\ \E i \in Damageable(toStub) : toStub' = Damage(toStub, i)
  /\ budget' = [budget EXCEPT !.up = @ - 1]
  /\ UNCHANGED <<client, toClient, stub, noise>>

DamageDown ==
  /\ budget.down > 0 /\ \E i \in Damageable(toClient) : toClient' = Damage(toClient, i)
  /\ budget' = [budget EXCEPT !.down = @ - 1]
  /\ UNCHANGED <<client, toStub, stub, noise>>

Stub == StubAccepts \/ StubHearsAck \/ StubResends \/ StubReplies
Line == StubPrints \/ DamageUp \/ DamageDown \/ Slow

Next == Client \/ Stub \/ Line
Spec == Init /\ [][Next]_vars
FairSpec == Spec /\ WF_vars(Client) /\ WF_vars(Stub)

(***************************************************************************)
(* Properties.                                                             *)
(***************************************************************************)
\* The type of every variable.
TypeOK ==
  /\ pc \in {"starting", "sent", "receiving", "idle", "failed", "closed"}
  /\ next \in 0..(Commands + 1) /\ tries \in 0..Tries /\ attempt \in 0..Attempts
  /\ toStub \in Seq(Token) /\ toClient \in Seq(Token)
  /\ busy \in Command \cup {None} /\ last \in {<<>>} \cup {<<t>> : t \in Token}
  /\ budget \in Noise /\ noise \in Noises
  /\ answers \in Seq(Token) /\ executed \in Seq(Command)

\* Request and response stay aligned: what cmd() returns for its k-th command is
\* the reply to that command, whatever was retransmitted or arrived unsolicited.
AnswersMatch ==
  \A k \in 1..Len(answers) : answers[k].id = k - 1

\* A retransmission never makes the target execute a command again, and a command
\* that returned has been executed: QemuBackend._instr, which faults are triggered
\* by, counts the target's steps exactly.
ExecutedOnce ==
  /\ \A k \in 1..Len(executed) : executed[k] = k
  /\ Len(executed) >= next - 1
  /\ pc = "idle" => Len(executed) = next - 1

\* After start(), an exception has a cause that retransmission does not cure: a
\* packet refused three times, a late reply, an error reply to a command that
\* checks it, or a refusal that came after an unsolicited packet, for which _send
\* has stopped listening.
OnlyGivesUpWithCause ==
  pc = "failed" /\ next > 0 =>
    \/ noise.up >= Tries
    \/ noise.slow > 0
    \/ ~answers[next].ok /\ next - 1 \notin Steps
    \/ noise.console > 0 /\ noise.up > 0

\* Every session ends, with its commands answered or with an exception; the
\* socket timeout is what ends a wait for a packet that was lost.
SessionEnds == <>(pc = "closed")

(***************************************************************************)
(* The noise the client can bear.  A stub that prints and then is asked    *)
(* for a damaged packet again may resend the next reply instead, and       *)
(* request and response come apart for the rest of the session.            *)
(***************************************************************************)
Bearable == \A n \in Noises : n.console = 0 \/ n.down = 0

(***************************************************************************)
(* The inductive invariant: where the command being issued is.  A queue    *)
(* holds at most one token that obliges its reader to anything; the others *)
(* are acknowledgements on the way up, unsolicited packets on the way down *)
(* and, before the reply, acknowledgements there too.                      *)
(***************************************************************************)
Acks(q) == \A i \in 1..Len(q) : q[i].kind = "+"

Asks(q, c, good) ==
  \E i \in 1..Len(q) :
    /\ q[i].kind = "command" /\ q[i].id = c /\ q[i].good = good
    /\ \A j \in 1..Len(q) \ {i} : q[j].kind = "+"

AsksLast(q) == q[Len(q)].kind = "command"

Prints(q) == \A i \in 1..Len(q) : q[i].kind = "console"

Refuses(q) ==
  \E i \in 1..Len(q) :
    /\ q[i].kind = "-"
    /\ \A j \in 1..Len(q) \ {i} : q[j].kind = "console"

Accepts(q) == \A i \in 1..Len(q) : q[i].kind \in {"console", "+"}

Answers(q, c) ==
  \E i \in 1..Len(q) :
    /\ q[i].kind = "reply" /\ q[i].id = c
    /\ \A j \in 1..Len(q) \ {i} : q[j].kind = "console" \/ (j < i /\ q[j].kind = "+")

\* The stub has executed the command being issued, or not.
Done == Len(executed) = next
Undone == Len(executed) = IF next = 0 THEN 0 ELSE next - 1

\* What a stub whose packets are never displaced by unsolicited ones sends again.
Keeps == last # <<>> /\ last[1].kind = "reply" /\ last[1].id = next

Listening == pc \in {"sent", "receiving"}
Refusals == noise.up - budget.up

Settled == /\ pc \in {"idle", "failed", "closed"} /\ next > 0
           /\ Acks(toStub) /\ Prints(toClient) /\ busy = None /\ Undone

Asked(good) ==
  /\ Asks(toStub, next, good) /\ Prints(toClient) /\ busy = None /\ Undone
  /\ pc # "idle"
  /\ noise.console = 0 => AsksLast(toStub)
  /\ pc = "receiving" => noise.console > 0
  /\ Listening /\ ~good => Refusals > Tries - tries

Refused ==
  /\ Acks(toStub) /\ Refuses(toClient) /\ busy = None /\ Undone
  /\ pc # "idle"
  /\ pc = "receiving" => noise.console > 0
  /\ Listening => Refusals > Tries - tries

Working ==
  /\ Acks(toStub) /\ Accepts(toClient) /\ busy = next /\ Undone
  /\ pc # "idle"
  /\ noise.console = 0 => toStub = <<>>

Replied ==
  /\ Acks(toStub) /\ Answers(toClient, next) /\ busy = None /\ Done
  /\ pc # "idle"
  /\ noise.console = 0 => toStub = <<>> /\ Keeps

AskedAgain ==
  /\ noise.console = 0 /\ Len(toStub) = 1 /\ toStub[1].kind = "-"
  /\ toClient = <<>> /\ busy = None /\ Done
  /\ pc # "idle"
  /\ Keeps

Missed ==
  /\ Acks(toStub) /\ Prints(toClient) /\ busy = None /\ Undone
  /\ pc # "idle"
  /\ noise.console > 0 /\ noise.up > 0

Stage == \/ Settled \/ Asked(TRUE) \/ Asked(FALSE) \/ Refused
         \/ Working \/ Replied \/ AskedAgain \/ Missed

\* The socket of an attempt that start() gave up, or of none.
Abandoned ==
  /\ next = 0 /\ executed = <<>> /\ busy \in {None, 0}
  /\ \A i \in 1..Len(toStub) : toStub[i].kind = "command" => toStub[i].id = 0

\* Only a session with that noise sees a queue with an unsolicited packet, or a
\* damaged one.
Honest(q, n) ==
  \A i \in 1..Len(q) : /\ q[i].kind = "console" => n.console > 0
                       /\ n.down = 0 => q[i].good

NoiseInv ==
  /\ budget.up <= noise.up /\ budget.down <= noise.down
  /\ budget.console <= noise.console /\ budget.slow <= noise.slow
  /\ Honest(toClient, noise) /\ Honest(last, noise)

ClientInv ==
  /\ Len(answers) = next
  /\ Listening => next <= Commands /\ tries > 0 /\ Refusals >= Tries - tries
  /\ pc = "starting" => next = 0

Place == IF pc = "starting" THEN Abandoned
         ELSE Stage \/ (Abandoned /\ pc \in {"failed", "closed"})

IInv == /\ TypeOK
        /\ NoiseInv
        /\ ClientInv
        /\ AnswersMatch
        /\ \A k \in 1..Len(executed) : executed[k] = k
        /\ Place
        /\ OnlyGivesUpWithCause
=============================================================================
