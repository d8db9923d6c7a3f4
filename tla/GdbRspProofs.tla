---------------------------- MODULE GdbRspProofs ----------------------------
(***************************************************************************)
(* Proofs about the GDB remote protocol client, for every session length,  *)
(* number of connections and every noise that the client is built for.     *)
(***************************************************************************)
EXTENDS GdbRsp, TLAPS

(***************************************************************************)
(* Queues: what appending a token and consuming the first one do.          *)
(***************************************************************************)
LEMMA AppendAt ==
  ASSUME NEW q \in Seq(Token), NEW t \in Token
  PROVE  /\ Append(q, t) \in Seq(Token)
         /\ Len(Append(q, t)) = Len(q) + 1 /\ Len(q) \in Nat
         /\ \A i \in 1..Len(q) : Append(q, t)[i] = q[i] /\ i \in 1..(Len(q) + 1)
         /\ Append(q, t)[Len(q) + 1] = t /\ Len(q) + 1 \in 1..(Len(q) + 1)
         /\ \A i \in 1..(Len(q) + 1) : i \in 1..Len(q) \/ i = Len(q) + 1
  OBVIOUS

LEMMA TailAt ==
  ASSUME NEW q \in Seq(Token), q # <<>>
  PROVE  /\ Tail(q) \in Seq(Token) /\ Head(q) = q[1] /\ 1 \in 1..Len(q)
         /\ Len(Tail(q)) = Len(q) - 1 /\ Len(q) \in Nat /\ Head(q) \in Token
         /\ \A i \in 1..(Len(q) - 1) : Tail(q)[i] = q[i + 1] /\ i + 1 \in 1..Len(q)
         /\ \A i \in 1..Len(q) : i # 1 => /\ i - 1 \in 1..(Len(q) - 1)
                                         /\ Tail(q)[i - 1] = q[i]
  OBVIOUS

LEMMA KindOf ==
  /\ Ack.kind = "+" /\ Nack.kind = "-" /\ Console.kind = "console"
  /\ Ack.good /\ Nack.good /\ Console.good
  /\ Ack \in Token /\ Nack \in Token /\ Console \in Token
  /\ \A c \in Command : /\ Packet(c) \in Token /\ Packet(c).kind = "command"
                        /\ Packet(c).id = c /\ Packet(c).good = TRUE
  /\ \A c \in Command, ok \in BOOLEAN :
       /\ Reply(c, ok) \in Token /\ Reply(c, ok).kind = "reply"
       /\ Reply(c, ok).id = c /\ Reply(c, ok).good
<1>1. ASSUME NEW k, NEW c
      PROVE  /\ Intact(k, c).kind = k /\ Intact(k, c).id = c
             /\ Intact(k, c).good = TRUE /\ Intact(k, c).ok = TRUE
  BY DEF Intact
<1>2. ASSUME NEW k \in {"+", "-", "console", "command", "reply"},
             NEW c \in Command \cup {None}
      PROVE  Intact(k, c) \in Token
  BY DEF Intact, Token
<1>3. /\ Ack \in Token /\ Nack \in Token /\ Console \in Token
      /\ \A c \in Command : Packet(c) \in Token
  BY <1>2 DEF Ack, Nack, Console, Packet
<1>4. ASSUME NEW c \in Command, NEW ok \in BOOLEAN
      PROVE  /\ Reply(c, ok) \in Token /\ Reply(c, ok).kind = "reply"
             /\ Reply(c, ok).id = c /\ Reply(c, ok).good
  BY DEF Reply, Token
<1>5. /\ Ack.kind = "+" /\ Nack.kind = "-" /\ Console.kind = "console"
      /\ Ack.good = TRUE /\ Nack.good = TRUE /\ Console.good = TRUE
  BY <1>1 DEF Ack, Nack, Console
<1>6. \A c : Packet(c).kind = "command" /\ Packet(c).id = c /\ Packet(c).good = TRUE
  BY <1>1 DEF Packet
<1> QED BY <1>3, <1>4, <1>5, <1>6

LEMMA AcksKeep ==
  ASSUME NEW q \in Seq(Token), Acks(q)
  PROVE  /\ \A t \in Token : t.kind = "+" => Acks(Append(q, t))
         /\ q # <<>> => Acks(Tail(q)) /\ Head(q).kind = "+"
<1>1. ASSUME NEW t \in Token, t.kind = "+" PROVE Acks(Append(q, t))
  BY <1>1, AppendAt DEF Acks
<1>2. ASSUME q # <<>> PROVE Acks(Tail(q)) /\ Head(q).kind = "+"
  BY <1>2, TailAt DEF Acks
<1> QED BY <1>1, <1>2

LEMMA AsksKeep ==
  ASSUME NEW q \in Seq(Token), NEW c, NEW good, Asks(q, c, good)
  PROVE  /\ q # <<>>
         /\ \A t \in Token : t.kind = "+" => Asks(Append(q, t), c, good)
         /\ Head(q).kind = "+" => /\ Asks(Tail(q), c, good)
                                  /\ AsksLast(q) => AsksLast(Tail(q))
         /\ Head(q).kind # "+" =>
              /\ Head(q).kind = "command" /\ Head(q).id = c /\ Head(q).good = good
              /\ Acks(Tail(q))
              /\ AsksLast(q) => Tail(q) = <<>>
<1>1. PICK i \in 1..Len(q) :
        /\ q[i].kind = "command" /\ q[i].id = c /\ q[i].good = good
        /\ \A j \in 1..Len(q) \ {i} : q[j].kind = "+"
  BY DEF Asks
<1>2. q # <<>>
  BY <1>1
<1>3. ASSUME NEW t \in Token, t.kind = "+" PROVE Asks(Append(q, t), c, good)
  <2>1. i \in 1..Len(Append(q, t)) /\ Append(q, t)[i] = q[i]
    BY AppendAt
  <2>2. ASSUME NEW j \in 1..Len(Append(q, t)) \ {i} PROVE Append(q, t)[j].kind = "+"
    BY <1>1, <1>3, AppendAt
  <2> QED BY <1>1, <2>1, <2>2 DEF Asks
<1>6. ASSUME Head(q).kind = "+", AsksLast(q) PROVE AsksLast(Tail(q))
  <2>1. Len(q) # 1
    BY <1>2, <1>6, TailAt DEF AsksLast
  <2>2. Len(q) \in 1..Len(q) /\ Len(q) - 1 = Len(Tail(q))
    BY <1>2, TailAt
  <2>3. Tail(q)[Len(q) - 1] = q[Len(q)]
    BY <1>2, <2>1, <2>2, TailAt
  <2> QED BY <1>6, <2>2, <2>3 DEF AsksLast
<1>4. ASSUME Head(q).kind = "+" PROVE Asks(Tail(q), c, good)
  <2>1. i # 1
    BY <1>1, <1>2, <1>4, TailAt
  <2>2. i - 1 \in 1..Len(Tail(q)) /\ Tail(q)[i - 1] = q[i]
    BY <1>2, <2>1, TailAt
  <2>3. ASSUME NEW j \in 1..Len(Tail(q)) \ {i - 1} PROVE Tail(q)[j].kind = "+"
    <3>1. j + 1 \in 1..Len(q) \ {i} /\ Tail(q)[j] = q[j + 1]
      BY <1>2, <2>2, TailAt
    <3> QED BY <1>1, <3>1
  <2> QED BY <1>1, <2>2, <2>3 DEF Asks
<1>5. ASSUME Head(q).kind # "+"
      PROVE  /\ Head(q).kind = "command" /\ Head(q).id = c /\ Head(q).good = good
             /\ Acks(Tail(q))
             /\ AsksLast(q) => Tail(q) = <<>>
  <2>1. i = 1
    BY <1>1, <1>2, <1>5, TailAt
  <2>2. \A j \in 1..Len(Tail(q)) : Tail(q)[j].kind = "+"
    <3>1. ASSUME NEW j \in 1..Len(Tail(q)) PROVE Tail(q)[j].kind = "+"
      <4>1. j + 1 \in 1..Len(q) \ {i} /\ Tail(q)[j] = q[j + 1]
        BY <1>2, <2>1, TailAt
      <4> QED BY <1>1, <4>1
    <3> QED BY <3>1
  <2>3. AsksLast(q) => Tail(q) = <<>>
    <3> SUFFICES ASSUME AsksLast(q) PROVE Tail(q) = <<>>
      OBVIOUS
    <3>1. Len(q) \in 1..Len(q) /\ q[Len(q)].kind # "+"
      BY <1>2, TailAt DEF AsksLast
    <3>2. Len(q) = 1
      BY <1>1, <2>1, <3>1
    <3> QED BY <1>2, <3>2, TailAt
  <2> QED BY <1>1, <1>2, <2>1, <2>2, <2>3, TailAt DEF Acks
<1> QED BY <1>2, <1>3, <1>4, <1>5, <1>6

LEMMA PrintsKeep ==
  ASSUME NEW q \in Seq(Token), Prints(q)
  PROVE  /\ \A t \in Token : t.kind = "console" => Prints(Append(q, t))
         /\ q # <<>> => Prints(Tail(q)) /\ Head(q).kind = "console"
<1>1. ASSUME NEW t \in Token, t.kind = "console" PROVE Prints(Append(q, t))
  BY <1>1, AppendAt DEF Prints
<1>2. ASSUME q # <<>> PROVE Prints(Tail(q)) /\ Head(q).kind = "console"
  BY <1>2, TailAt DEF Prints
<1> QED BY <1>1, <1>2

LEMMA AcceptsKeep ==
  ASSUME NEW q \in Seq(Token), Accepts(q)
  PROVE  /\ \A t \in Token : t.kind \in {"console", "+"} => Accepts(Append(q, t))
         /\ q # <<>> => Accepts(Tail(q)) /\ Head(q).kind \in {"console", "+"}
<1>1. ASSUME NEW t \in Token, t.kind \in {"console", "+"} PROVE Accepts(Append(q, t))
  BY <1>1, AppendAt DEF Accepts
<1>2. ASSUME q # <<>> PROVE Accepts(Tail(q)) /\ Head(q).kind \in {"console", "+"}
  BY <1>2, TailAt DEF Accepts
<1> QED BY <1>1, <1>2

LEMMA RefusesKeep ==
  ASSUME NEW q \in Seq(Token), Refuses(q)
  PROVE  /\ q # <<>> /\ Head(q).kind \in {"console", "-"}
         /\ \A t \in Token : t.kind = "console" => Refuses(Append(q, t))
         /\ Head(q).kind = "console" => Refuses(Tail(q))
         /\ Head(q).kind = "-" => Prints(Tail(q))
<1>1. PICK i \in 1..Len(q) :
        /\ q[i].kind = "-"
        /\ \A j \in 1..Len(q) \ {i} : q[j].kind = "console"
  BY DEF Refuses
<1>2. q # <<>>
  BY <1>1
<1>3. Head(q).kind \in {"console", "-"}
  BY <1>1, <1>2, TailAt
<1>4. ASSUME NEW t \in Token, t.kind = "console" PROVE Refuses(Append(q, t))
  <2>1. i \in 1..Len(Append(q, t)) /\ Append(q, t)[i] = q[i]
    BY AppendAt
  <2>2. ASSUME NEW j \in 1..Len(Append(q, t)) \ {i} PROVE Append(q, t)[j].kind = "console"
    BY <1>1, <1>4, AppendAt
  <2> QED BY <1>1, <2>1, <2>2 DEF Refuses
<1>5. ASSUME Head(q).kind = "console" PROVE Refuses(Tail(q))
  <2>1. i # 1
    BY <1>1, <1>2, <1>5, TailAt
  <2>2. i - 1 \in 1..Len(Tail(q)) /\ Tail(q)[i - 1] = q[i]
    BY <1>2, <2>1, TailAt
  <2>3. ASSUME NEW j \in 1..Len(Tail(q)) \ {i - 1} PROVE Tail(q)[j].kind = "console"
    <3>1. j + 1 \in 1..Len(q) \ {i} /\ Tail(q)[j] = q[j + 1]
      BY <1>2, <2>2, TailAt
    <3> QED BY <1>1, <3>1
  <2> QED BY <1>1, <2>2, <2>3 DEF Refuses
<1>6. ASSUME Head(q).kind = "-" PROVE Prints(Tail(q))
  <2>1. i = 1
    BY <1>1, <1>2, <1>6, TailAt
  <2>2. ASSUME NEW j \in 1..Len(Tail(q)) PROVE Tail(q)[j].kind = "console"
    <3>1. j + 1 \in 1..Len(q) \ {i} /\ Tail(q)[j] = q[j + 1]
      BY <1>2, <2>1, TailAt
    <3> QED BY <1>1, <3>1
  <2> QED BY <2>2 DEF Prints
<1> QED BY <1>2, <1>3, <1>4, <1>5, <1>6

LEMMA AnswersKeep ==
  ASSUME NEW q \in Seq(Token), NEW c, Answers(q, c)
  PROVE  /\ q # <<>> /\ Head(q).kind \in {"console", "+", "reply"}
         /\ \A t \in Token : t.kind = "console" => Answers(Append(q, t), c)
         /\ Head(q).kind # "reply" => Answers(Tail(q), c)
         /\ Head(q).kind = "reply" =>
              /\ Head(q).id = c /\ Prints(Tail(q))
              /\ (\A j \in 1..Len(q) : q[j].kind # "console") => Tail(q) = <<>>
<1>1. PICK i \in 1..Len(q) :
        /\ q[i].kind = "reply" /\ q[i].id = c
        /\ \A j \in 1..Len(q) \ {i} : q[j].kind = "console" \/ (j < i /\ q[j].kind = "+")
  BY DEF Answers
<1>2. q # <<>>
  BY <1>1
<1>3. Head(q).kind \in {"console", "+", "reply"}
  BY <1>1, <1>2, TailAt
<1>4. ASSUME NEW t \in Token, t.kind = "console" PROVE Answers(Append(q, t), c)
  <2>1. i \in 1..Len(Append(q, t)) /\ Append(q, t)[i] = q[i]
    BY AppendAt
  <2>2. ASSUME NEW j \in 1..Len(Append(q, t)) \ {i}
        PROVE  \/ Append(q, t)[j].kind = "console"
               \/ j < i /\ Append(q, t)[j].kind = "+"
    BY <1>1, <1>4, AppendAt
  <2> QED BY <1>1, <2>1, <2>2 DEF Answers
<1>5. ASSUME Head(q).kind # "reply" PROVE Answers(Tail(q), c)
  <2>1. i # 1
    BY <1>1, <1>2, <1>5, TailAt
  <2>2. i - 1 \in 1..Len(Tail(q)) /\ Tail(q)[i - 1] = q[i]
    BY <1>2, <2>1, TailAt
  <2>3. ASSUME NEW j \in 1..Len(Tail(q)) \ {i - 1}
        PROVE  \/ Tail(q)[j].kind = "console"
               \/ j < i - 1 /\ Tail(q)[j].kind = "+"
    <3>1. j + 1 \in 1..Len(q) \ {i} /\ Tail(q)[j] = q[j + 1]
      BY <1>2, <2>2, TailAt
    <3> QED BY <1>1, <3>1
  <2> QED BY <1>1, <2>2, <2>3 DEF Answers
<1>6. ASSUME Head(q).kind = "reply"
      PROVE  /\ Head(q).id = c /\ Prints(Tail(q))
             /\ (\A j \in 1..Len(q) : q[j].kind # "console") => Tail(q) = <<>>
  <2>1. i = 1
    BY <1>1, <1>2, <1>6, TailAt
  <2>2. ASSUME NEW j \in 1..Len(Tail(q))
        PROVE  Tail(q)[j].kind = "console" /\ j + 1 \in 1..Len(q) /\ q[j + 1].kind = "console"
    <3>1. j + 1 \in 1..Len(q) \ {i} /\ Tail(q)[j] = q[j + 1] /\ ~(j + 1 < i)
      BY <1>2, <2>1, TailAt
    <3> QED BY <1>1, <3>1
  <2>3. ASSUME \A j \in 1..Len(q) : q[j].kind # "console" PROVE Tail(q) = <<>>
    <3>1. Tail(q) \in Seq(Token)
      BY <1>2, TailAt
    <3>2. ~ 1 \in 1..Len(Tail(q))
      BY <2>2, <2>3
    <3> QED BY <3>1, <3>2
  <2> QED BY <1>1, <1>2, <2>1, <2>2, <2>3, TailAt DEF Prints
<1> QED BY <1>2, <1>3, <1>4, <1>5, <1>6

(***************************************************************************)
(* A token that obliges, appended to a queue that obliges to nothing.      *)
(***************************************************************************)
LEMMA NowAsks ==
  ASSUME NEW q \in Seq(Token), Acks(q), NEW c \in Command
  PROVE  Asks(Append(q, Packet(c)), c, TRUE) /\ AsksLast(Append(q, Packet(c)))
<1>1. Packet(c) \in Token /\ Packet(c).kind = "command"
      /\ Packet(c).id = c /\ Packet(c).good = TRUE
  BY KindOf
<1> DEFINE r == Append(q, Packet(c))
           i == Len(q) + 1
<1>2. i \in 1..Len(r) /\ r[i] = Packet(c) /\ Len(r) = i
  BY <1>1, AppendAt
<1>3. ASSUME NEW j \in 1..Len(r) \ {i} PROVE r[j].kind = "+"
  BY <1>1, <1>3, AppendAt DEF Acks
<1> HIDE DEF r, i
<1>4. Asks(r, c, TRUE)
  BY <1>1, <1>2, <1>3 DEF Asks
<1> QED BY <1>1, <1>2, <1>4 DEF AsksLast, r

LEMMA NowRefuses ==
  ASSUME NEW q \in Seq(Token), Prints(q)
  PROVE  Refuses(Append(q, Nack))
<1> DEFINE r == Append(q, Nack)
           i == Len(q) + 1
<1>1. i \in 1..Len(r) /\ r[i] = Nack
  BY KindOf, AppendAt
<1>2. ASSUME NEW j \in 1..Len(r) \ {i} PROVE r[j].kind = "console"
  BY <1>2, KindOf, AppendAt DEF Prints
<1> HIDE DEF r, i
<1>3. Refuses(r)
  BY <1>1, <1>2, KindOf DEF Refuses
<1> QED BY <1>3 DEF r

LEMMA NowAccepts ==
  ASSUME NEW q \in Seq(Token), Prints(q)
  PROVE  Accepts(Append(q, Ack))
  BY KindOf, AppendAt DEF Prints, Accepts

LEMMA NowAnswers ==
  ASSUME NEW q \in Seq(Token), Accepts(q), NEW c,
         NEW t \in Token, t.kind = "reply", t.id = c
  PROVE  Answers(Append(q, t), c)
<1> DEFINE r == Append(q, t)
           i == Len(q) + 1
<1>1. i \in 1..Len(r) /\ r[i] = t
  BY AppendAt
<1>2. ASSUME NEW j \in 1..Len(r) \ {i}
      PROVE  r[j].kind = "console" \/ (j < i /\ r[j].kind = "+")
  BY <1>2, AppendAt DEF Accepts
<1> HIDE DEF r, i
<1>3. Answers(r, c)
  BY <1>1, <1>2 DEF Answers
<1> QED BY <1>3 DEF r

LEMMA DamageTyped ==
  ASSUME NEW q \in Seq(Token), NEW i \in Damageable(q)
  PROVE  /\ Damage(q, i) \in Seq(Token) /\ Len(Damage(q, i)) = Len(q)
         /\ i \in 1..Len(q) /\ q[i].kind \notin {"+", "-"}
<1>1. i \in 1..Len(q) /\ q[i].kind \notin {"+", "-"} /\ q[i].good
  BY DEF Damageable, Framed
<1>2. q[i] \in Token
  BY <1>1
<1> DEFINE t == [q[i] EXCEPT !.good = FALSE]
<1>3. t \in Token /\ t.kind = q[i].kind /\ t.id = q[i].id /\ t.good = FALSE
  BY <1>2 DEF Token
<1>4. Damage(q, i) = [q EXCEPT ![i] = t]
  BY DEF Damage
<1> HIDE DEF t
<1>5. /\ [q EXCEPT ![i] = t] \in Seq(Token) /\ Len([q EXCEPT ![i] = t]) = Len(q)
      /\ [q EXCEPT ![i] = t][i] = t
      /\ \A j \in 1..Len(q) : j # i => [q EXCEPT ![i] = t][j] = q[j]
  BY <1>1, <1>3
<1> QED BY <1>1, <1>4, <1>5

LEMMA DamageAt ==
  ASSUME NEW q \in Seq(Token), NEW i \in Damageable(q), NEW j \in 1..Len(q)
  PROVE  /\ Damage(q, i)[j].kind = q[j].kind /\ Damage(q, i)[j].id = q[j].id
         /\ Damage(q, i)[j].good = IF j = i THEN FALSE ELSE q[j].good
<1>1. i \in 1..Len(q) /\ q[i] \in Token /\ q[j] \in Token
  BY DEF Damageable
<1> DEFINE t == [q[i] EXCEPT !.good = FALSE]
<1>2. t.kind = q[i].kind /\ t.id = q[i].id /\ t.good = FALSE
  BY <1>1 DEF Token
<1>3. Damage(q, i) = [q EXCEPT ![i] = t]
  BY DEF Damage
<1> HIDE DEF t
<1>4. Damage(q, i)[j] = IF j = i THEN t ELSE q[j]
  BY <1>1, <1>3
<1>5. CASE j = i
  <2>1. Damage(q, i)[j] = t
    BY <1>4, <1>5
  <2> QED BY <1>2, <1>5, <2>1
<1>6. CASE j # i
  <2>1. Damage(q, i)[j] = q[j]
    BY <1>4, <1>6
  <2> QED BY <1>6, <2>1
<1> QED BY <1>5, <1>6

LEMMA NoiseFields ==
  ASSUME NEW b \in Noise
  PROVE  b.console \in Nat /\ b.up \in Nat /\ b.down \in Nat /\ b.slow \in Nat
  BY DEF Noise

LEMMA SpendTyped ==
  ASSUME NEW b \in Noise
  PROVE  /\ b.console \in Nat /\ b.up \in Nat /\ b.down \in Nat /\ b.slow \in Nat
         /\ b.console > 0 =>
              LET s == [b EXCEPT !.console = @ - 1]
              IN  /\ s \in Noise /\ s.console = b.console - 1
                  /\ s.up = b.up /\ s.down = b.down /\ s.slow = b.slow
         /\ b.up > 0 =>
              LET s == [b EXCEPT !.up = @ - 1]
              IN  /\ s \in Noise /\ s.up = b.up - 1
                  /\ s.console = b.console /\ s.down = b.down /\ s.slow = b.slow
         /\ b.down > 0 =>
              LET s == [b EXCEPT !.down = @ - 1]
              IN  /\ s \in Noise /\ s.down = b.down - 1
                  /\ s.console = b.console /\ s.up = b.up /\ s.slow = b.slow
         /\ b.slow > 0 =>
              LET s == [b EXCEPT !.slow = @ - 1]
              IN  /\ s \in Noise /\ s.slow = b.slow - 1
                  /\ s.console = b.console /\ s.up = b.up /\ s.down = b.down
  BY DEF Noise

LEMMA LastTyped ==
  ASSUME TypeOK
  PROVE  last \in Seq(Token) /\ (last # <<>> => last[1] \in Token /\ last = <<last[1]>>)
<1>1. CASE last = <<>>
  <2>1. <<>> \in Seq(Token)
    OBVIOUS
  <2> QED BY <1>1, <2>1
<1>2. CASE last # <<>>
  <2>1. PICK t \in Token : last = <<t>>
    BY <1>2 DEF TypeOK
  <2> QED BY <2>1
<1> QED BY <1>1, <1>2

-----------------------------------------------------------------------------
(***************************************************************************)
(* Type correctness.                                                       *)
(***************************************************************************)
LEMMA InitTyped == Init => TypeOK
  BY NoiseAssumption, SessionAssumption DEF Init, TypeOK, Tries, Command

LEMMA ClientTyped ==
  ASSUME TypeOK, ClientInv, Client \/ Slow
  PROVE  TypeOK'
<1>1. /\ toStub \in Seq(Token) /\ toClient \in Seq(Token) /\ answers \in Seq(Token)
      /\ next \in 0..(Commands + 1) /\ Commands \in Nat /\ Attempts \in Nat
  BY SessionAssumption DEF TypeOK
<1>2. toClient # <<>> => Tail(toClient) \in Seq(Token) /\ Head(toClient) \in Token
  BY <1>1, TailAt
<1>3. next \in Command => Append(toStub, Packet(next)) \in Seq(Token)
  BY <1>1, KindOf, AppendAt
<1>4. Append(toStub, Ack) \in Seq(Token) /\ Append(toStub, Nack) \in Seq(Token)
  BY <1>1, KindOf, AppendAt
<1>5. CASE Connect
  <2>1. <<Packet(0)>> \in Seq(Token) /\ <<>> \in Seq(Token)
    BY <1>1, KindOf DEF Command
  <2> QED BY <1>1, <1>5, <2>1 DEF Connect, TypeOK, Tries
<1>6. CASE StartFails \/ Close
  BY <1>6 DEF StartFails, Close, TypeOK, link, stub
<1>7. CASE Send
  <2>1. next \in Command
    BY <1>1, <1>7 DEF Send, Command
  <2> QED BY <1>3, <1>7, <2>1 DEF Send, TypeOK, stub, Tries
<1>8. CASE Nacked
  <2>1. next \in Command /\ tries - 1 \in 0..Tries
    BY <1>1, <1>8 DEF Nacked, Command, ClientInv, Listening, TypeOK, Tries
  <2> QED BY <1>2, <1>3, <1>8, <2>1 DEF Nacked, Reads, Consume, TypeOK, stub
<1>9. CASE Acked \/ OutOfBand \/ Stray
  BY <1>2, <1>9 DEF Acked, OutOfBand, Stray, Reads, Consume, TypeOK, stub, client, link
<1>10. CASE BadFrame \/ ConsoleFrame
  BY <1>2, <1>4, <1>10 DEF BadFrame, ConsoleFrame, Frame, Consume, TypeOK, stub, client
<1>11. CASE ReplyFrame
  <2>1. next' \in 0..(Commands + 1)
    BY <1>1, <1>11 DEF ReplyFrame, Frame, ClientInv, Listening
  <2>2. Append(answers, Head(toClient)) \in Seq(Token)
    BY <1>1, <1>2, <1>11, AppendAt DEF ReplyFrame, Frame
  <2> QED BY <1>2, <1>4, <1>11, <2>1, <2>2 DEF ReplyFrame, Frame, Consume, TypeOK, stub
<1>12. CASE Silence
  BY <1>12 DEF Silence, TimesOut, TypeOK, stub, link
<1>13. CASE Slow
  <2>1. budget' \in Noise
    BY <1>13, SpendTyped DEF Slow, TypeOK
  <2> QED BY <1>13, <2>1 DEF Slow, TimesOut, TypeOK, stub, link
<1> QED BY <1>5, <1>6, <1>7, <1>8, <1>9, <1>10, <1>11, <1>12, <1>13 DEF Client

LEMMA StubTyped ==
  ASSUME TypeOK, Stub \/ StubPrints \/ DamageUp \/ DamageDown
  PROVE  TypeOK'
<1>1. toStub \in Seq(Token) /\ toClient \in Seq(Token)
  BY DEF TypeOK
<1>2. toStub # <<>> => Tail(toStub) \in Seq(Token) /\ Head(toStub) \in Token
  BY <1>1, TailAt
<1>3. \A t \in Token : Append(toClient, t) \in Seq(Token)
  BY <1>1, AppendAt
<1>4. CASE StubAccepts
  <2>1. busy' \in Command \cup {None}
    BY <1>2, <1>4 DEF StubAccepts, StubReads, Token
  <2>2. toClient' \in Seq(Token)
    BY <1>3, <1>4, KindOf DEF StubAccepts
  <2> QED BY <1>2, <1>4, <2>1, <2>2 DEF StubAccepts, StubReads, TypeOK, client
<1>5. CASE StubHearsAck
  BY <1>2, <1>5 DEF StubHearsAck, StubReads, TypeOK, client
<1>6. CASE StubResends
  <2>1. last \in Seq(Token)
    BY LastTyped
  <2>2. toClient \o last \in Seq(Token)
    BY <1>1, <2>1
  <2> QED BY <1>2, <1>6, <2>2 DEF StubResends, StubReads, TypeOK, client
<1>7. CASE StubReplies
  <2>1. busy \in Command
    BY <1>7 DEF StubReplies, TypeOK
  <2>2. PICK ok \in BOOLEAN : last' = <<Reply(busy, ok)>>
    BY <1>7 DEF StubReplies
  <2>3. last' \in {<<t>> : t \in Token} /\ last' \in Seq(Token)
    BY <2>1, <2>2, KindOf
  <2>4. toClient' \in Seq(Token)
    BY <1>1, <1>7, <2>3 DEF StubReplies
  <2>5. executed' \in Seq(Command)
    BY <1>7, <2>1 DEF StubReplies, TypeOK
  <2> QED BY <1>7, <2>3, <2>4, <2>5 DEF StubReplies, TypeOK, client
<1>8. CASE StubPrints
  <2>1. last' \in {<<t>> : t \in Token}
    BY <1>8, KindOf DEF StubPrints
  <2>2. toClient' \in Seq(Token)
    BY <1>3, <1>8, KindOf DEF StubPrints
  <2>3. budget' \in Noise
    BY <1>8, SpendTyped DEF StubPrints, TypeOK
  <2> QED BY <1>8, <2>1, <2>2, <2>3 DEF StubPrints, TypeOK, client
<1>9. CASE DamageUp
  <2>1. toStub' \in Seq(Token)
    <3>1. PICK i \in Damageable(toStub) : toStub' = Damage(toStub, i)
      BY <1>9 DEF DamageUp
    <3> QED BY <1>1, <3>1, DamageTyped
  <2>2. budget' \in Noise
    BY <1>9, SpendTyped DEF DamageUp, TypeOK
  <2> QED BY <1>9, <2>1, <2>2 DEF DamageUp, TypeOK, client, stub
<1>10. CASE DamageDown
  <2>1. toClient' \in Seq(Token)
    <3>1. PICK i \in Damageable(toClient) : toClient' = Damage(toClient, i)
      BY <1>10 DEF DamageDown
    <3> QED BY <1>1, <3>1, DamageTyped
  <2>2. budget' \in Noise
    BY <1>10, SpendTyped DEF DamageDown, TypeOK
  <2> QED BY <1>10, <2>1, <2>2 DEF DamageDown, TypeOK, client, stub
<1> QED BY <1>4, <1>5, <1>6, <1>7, <1>8, <1>9, <1>10 DEF Stub

-----------------------------------------------------------------------------
(***************************************************************************)
(* The noise, and the client's counters.                                   *)
(***************************************************************************)
LEMMA JoinIsAppend ==
  ASSUME NEW q \in Seq(Token), NEW t \in Token
  PROVE  q \o <<t>> = Append(q, t)
  OBVIOUS

LEMMA HonestKeep ==
  ASSUME NEW q \in Seq(Token), NEW n \in Noise, Honest(q, n)
  PROVE  /\ q # <<>> => /\ Honest(Tail(q), n)
                        /\ Head(q).kind = "console" => n.console > 0
                        /\ n.down = 0 => Head(q).good
         /\ \A t \in Token :
              /\ t.kind = "console" => n.console > 0
              /\ n.down = 0 => t.good
              => Honest(Append(q, t), n)
<1>1. ASSUME q # <<>>
      PROVE  /\ Honest(Tail(q), n)
             /\ Head(q).kind = "console" => n.console > 0
             /\ n.down = 0 => Head(q).good
  BY <1>1, TailAt DEF Honest
<1>2. ASSUME NEW t \in Token, t.kind = "console" => n.console > 0, n.down = 0 => t.good
      PROVE  Honest(Append(q, t), n)
  BY <1>2, AppendAt DEF Honest
<1> QED BY <1>1, <1>2

LEMMA NoiseStep ==
  ASSUME TypeOK, NoiseInv, Next
  PROVE  NoiseInv'
<1>1. /\ toClient \in Seq(Token) /\ noise \in Noise /\ budget \in Noise
      /\ last \in Seq(Token) /\ Honest(toClient, noise) /\ Honest(last, noise)
      /\ budget.up <= noise.up /\ budget.down <= noise.down
      /\ budget.console <= noise.console /\ budget.slow <= noise.slow
  BY LastTyped, NoiseAssumption DEF TypeOK, NoiseInv
<1>2. noise.console \in Nat /\ noise.down \in Nat /\ noise.up \in Nat /\ noise.slow \in Nat
  BY <1>1, NoiseFields
<1>13. budget.console \in Nat /\ budget.down \in Nat /\ budget.up \in Nat /\ budget.slow \in Nat
  BY <1>1, NoiseFields
<1>3. Honest(<<>>, noise)
  BY DEF Honest
<1>4. ASSUME NEW t \in Token, t.kind = "console" => noise.console > 0, t.good
      PROVE  Honest(<<t>>, noise) /\ Honest(Append(toClient, t), noise)
  <2>1. Append(<<>>, t) = <<t>> /\ <<>> \in Seq(Token)
    OBVIOUS
  <2> QED BY <1>1, <1>3, <1>4, <2>1, HonestKeep
<1>5. toClient # <<>> => Honest(Tail(toClient), noise)
  BY <1>1, HonestKeep
<1>6. CASE Client
  <2>1. noise' = noise /\ budget' = budget
    BY <1>6 DEF Client, Connect, StartFails, Send, Acked, Nacked, OutOfBand, Stray,
                BadFrame, ConsoleFrame, ReplyFrame, Silence, TimesOut, Close
  <2>2. last' \in {last, <<>>}
    BY <1>6 DEF Client, Connect, StartFails, Send, Acked, Nacked, OutOfBand, Stray, stub,
                BadFrame, ConsoleFrame, ReplyFrame, Silence, TimesOut, Close
  <2>3. \/ toClient' \in {toClient, <<>>}
        \/ toClient # <<>> /\ toClient' = Tail(toClient)
    BY <1>6 DEF Client, Connect, StartFails, Send, Acked, Nacked, OutOfBand, Stray, stub,
                BadFrame, ConsoleFrame, ReplyFrame, Silence, TimesOut, Close, Consume,
                Reads, Frame, link
  <2> QED BY <1>1, <1>3, <1>5, <2>1, <2>2, <2>3 DEF NoiseInv
<1>7. CASE StubAccepts \/ StubHearsAck
  <2>1. noise' = noise /\ budget' = budget /\ last' = <<>>
    BY <1>7 DEF StubAccepts, StubHearsAck, StubReads
  <2>2. toClient' \in {toClient, Append(toClient, Ack), Append(toClient, Nack)}
    BY <1>7 DEF StubAccepts, StubHearsAck
  <2>3. Honest(toClient', noise)
    BY <1>1, <1>4, <2>2, KindOf
  <2> QED BY <1>1, <1>3, <2>1, <2>3 DEF NoiseInv
<1>8. CASE StubResends
  <2>1. noise' = noise /\ budget' = budget /\ last' = last /\ toClient' = toClient \o last
    BY <1>8 DEF StubResends, StubReads
  <2>2. CASE last = <<>>
    <3>1. toClient' = toClient
      BY <1>1, <2>1, <2>2
    <3> QED BY <1>1, <2>1, <3>1 DEF NoiseInv
  <2>3. CASE last # <<>>
    <3>1. last = <<last[1]>> /\ last[1] \in Token
      BY <2>3, LastTyped
    <3>2. last[1].kind = "console" => noise.console > 0
          /\ (noise.down = 0 => last[1].good)
      <4>1. Len(last) = 1 /\ 1 \in 1..Len(last)
        BY <3>1
      <4> QED BY <1>1, <4>1 DEF Honest
    <3>3. toClient' = Append(toClient, last[1])
      BY <1>1, <2>1, <3>1, JoinIsAppend
    <3> QED BY <1>1, <2>1, <3>1, <3>2, <3>3, HonestKeep DEF NoiseInv
  <2> QED BY <2>2, <2>3
<1>9. CASE StubReplies
  <2>1. noise' = noise /\ budget' = budget /\ toClient' = toClient \o last'
    BY <1>9 DEF StubReplies
  <2>2. busy \in Command
    BY <1>9 DEF StubReplies, TypeOK
  <2>3. PICK ok \in BOOLEAN : last' = <<Reply(busy, ok)>>
    BY <1>9 DEF StubReplies
  <2>4. Reply(busy, ok) \in Token /\ Reply(busy, ok).kind = "reply" /\ Reply(busy, ok).good
    BY <2>2, KindOf
  <2>5. toClient' = Append(toClient, Reply(busy, ok))
    BY <1>1, <2>1, <2>3, <2>4, JoinIsAppend
  <2>6. Honest(last', noise) /\ Honest(toClient', noise)
    BY <1>4, <2>3, <2>4, <2>5
  <2> QED BY <1>1, <2>1, <2>6 DEF NoiseInv
<1>10. CASE StubPrints
  <2>1. /\ noise' = noise /\ toClient' = Append(toClient, Console) /\ last' = <<Console>>
        /\ budget.console > 0
        /\ budget'.console = budget.console - 1 /\ budget'.up = budget.up
        /\ budget'.down = budget.down /\ budget'.slow = budget.slow
    BY <1>1, <1>10, SpendTyped DEF StubPrints
  <2>2. noise.console > 0
    BY <1>1, <1>2, <1>13, <2>1
  <2>3. Honest(last', noise) /\ Honest(toClient', noise)
    BY <1>4, <2>1, <2>2, KindOf
  <2>4. budget'.console <= noise.console
    BY <1>1, <1>2, <1>13, <2>1
  <2> QED BY <1>1, <2>1, <2>3, <2>4 DEF NoiseInv
<1>11. CASE Slow \/ DamageUp
  <2>1. noise' = noise /\ toClient' = toClient /\ last' = last
    BY <1>11 DEF Slow, TimesOut, DamageUp, stub, link
  <2>2. /\ budget'.up <= noise.up /\ budget'.down <= noise.down
        /\ budget'.console <= noise.console /\ budget'.slow <= noise.slow
    <3>1. CASE Slow
      <4>1. /\ budget'.slow = budget.slow - 1 /\ budget'.up = budget.up
            /\ budget'.down = budget.down /\ budget'.console = budget.console
        BY <1>1, <3>1, SpendTyped DEF Slow
      <4> QED BY <1>1, <1>2, <1>13, <4>1
    <3>2. CASE DamageUp
      <4>1. /\ budget'.up = budget.up - 1 /\ budget'.slow = budget.slow
            /\ budget'.down = budget.down /\ budget'.console = budget.console
        BY <1>1, <3>2, SpendTyped DEF DamageUp
      <4> QED BY <1>1, <1>2, <1>13, <4>1
    <3> QED BY <1>11, <3>1, <3>2
  <2> QED BY <1>1, <2>1, <2>2 DEF NoiseInv
<1>12. CASE DamageDown
  <2>1. noise' = noise /\ last' = last /\ budget.down > 0
    BY <1>12 DEF DamageDown, stub
  <2>2. /\ budget'.up <= noise.up /\ budget'.down <= noise.down
        /\ budget'.console <= noise.console /\ budget'.slow <= noise.slow
    <3>1. /\ budget'.down = budget.down - 1 /\ budget'.slow = budget.slow
          /\ budget'.up = budget.up /\ budget'.console = budget.console
      BY <1>1, <1>12, SpendTyped DEF DamageDown
    <3> QED BY <1>1, <1>2, <1>13, <3>1
  <2>3. PICK i \in Damageable(toClient) : toClient' = Damage(toClient, i)
    BY <1>12 DEF DamageDown
  <2>4. noise.down # 0
    BY <1>1, <1>2, <1>13, <2>1
  <2>5. Honest(toClient', noise)
    <3>1. ASSUME NEW j \in 1..Len(toClient')
          PROVE  toClient'[j].kind = "console" => noise.console > 0
      <4>1. j \in 1..Len(toClient) /\ toClient'[j].kind = toClient[j].kind
        <5>1. toClient \in Seq(Token) /\ Len(Damage(toClient, i)) = Len(toClient)
          BY <1>1, DamageTyped
        <5>2. j \in 1..Len(toClient)
          BY <2>3, <5>1
        <5>3. Damage(toClient, i)[j].kind = toClient[j].kind
          BY <5>1, <5>2, DamageAt
        <5> QED BY <2>3, <5>2, <5>3
      <4> QED BY <1>1, <4>1 DEF Honest
    <3> QED BY <2>4, <3>1 DEF Honest
  <2> QED BY <1>1, <2>1, <2>2, <2>5 DEF NoiseInv
<1> QED BY <1>6, <1>7, <1>8, <1>9, <1>10, <1>11, <1>12 DEF Next, Stub, Line

LEMMA ClientStep ==
  ASSUME TypeOK, NoiseInv, ClientInv, Next,
         Nacked => Refusals > Tries - tries
  PROVE  ClientInv'
<1>1. /\ answers \in Seq(Token) /\ next \in Nat /\ Commands \in Nat /\ tries \in Nat
      /\ noise \in Noise /\ budget \in Noise /\ next <= Commands + 1
      /\ toClient \in Seq(Token) /\ tries <= 3
  BY NoiseAssumption, SessionAssumption DEF TypeOK, Tries
<1>2. noise.up \in Nat /\ budget.up \in Nat /\ budget.up <= noise.up
  BY <1>1, NoiseFields DEF NoiseInv
<1>3. /\ Len(answers) = next
      /\ Listening => next <= Commands /\ tries > 0 /\ noise.up - budget.up >= 3 - tries
      /\ pc = "starting" => next = 0
  BY DEF ClientInv, Refusals, Tries
<1>4. CASE Connect
  BY <1>1, <1>2, <1>3, <1>4 DEF Connect, ClientInv, Listening, Refusals, Tries
<1>5. CASE StartFails \/ Close
  BY <1>3, <1>5 DEF StartFails, Close, ClientInv, Listening
<1>6. CASE Send
  BY <1>1, <1>2, <1>3, <1>6 DEF Send, ClientInv, Listening, Refusals, Tries
<1>7. CASE Acked \/ OutOfBand \/ Stray \/ BadFrame \/ ConsoleFrame
  <2>1. /\ pc \in {"sent", "receiving"} /\ pc' \in {"sent", "receiving"}
        /\ UNCHANGED <<next, tries, answers, budget, noise>>
    BY <1>7 DEF Acked, OutOfBand, Stray, BadFrame, ConsoleFrame, Frame, client
  <2> QED BY <1>3, <2>1 DEF ClientInv, Listening, Refusals, Tries
<1>8. CASE Silence \/ Slow
  <2>1. /\ pc' = IF next = 0 THEN "starting" ELSE "failed"
        /\ UNCHANGED <<next, answers>>
    BY <1>8 DEF Silence, Slow, TimesOut
  <2> QED BY <1>3, <2>1 DEF ClientInv, Listening
<1>9. CASE ReplyFrame
  <2>1. /\ answers' = Append(answers, Head(toClient)) /\ next' = next + 1
        /\ pc' \in {"idle", "failed"} /\ toClient # <<>>
    BY <1>9 DEF ReplyFrame, Frame
  <2>2. Len(answers') = next + 1
    BY <1>1, <1>3, <2>1, TailAt, AppendAt
  <2> QED BY <2>1, <2>2 DEF ClientInv, Listening
<1>10. CASE Stub \/ StubPrints \/ DamageDown
  <2>1. UNCHANGED <<pc, next, tries, answers, noise>> /\ budget'.up = budget.up
    <3>1. CASE Stub
      BY <3>1 DEF Stub, StubAccepts, StubHearsAck, StubResends, StubReplies, StubReads,
                  client
    <3>2. CASE StubPrints
      BY <1>1, <3>2, SpendTyped DEF StubPrints, client
    <3>3. CASE DamageDown
      BY <1>1, <3>3, SpendTyped DEF DamageDown, client
    <3> QED BY <1>10, <3>1, <3>2, <3>3
  <2> QED BY <1>3, <2>1 DEF ClientInv, Listening, Refusals, Tries
<1>11. CASE DamageUp
  <2>1. UNCHANGED <<pc, next, tries, answers, noise>> /\ budget'.up = budget.up - 1
    BY <1>1, <1>11, SpendTyped DEF DamageUp, client
  <2> QED BY <1>1, <1>2, <1>3, <2>1 DEF ClientInv, Listening, Refusals, Tries
<1>12. CASE Nacked
  BY <1>1, <1>2, <1>3, <1>12 DEF Nacked, ClientInv, Listening, Refusals, Tries
<1> QED BY <1>4, <1>5, <1>6, <1>7, <1>8, <1>9, <1>10, <1>11, <1>12 DEF Next, Client, Line

-----------------------------------------------------------------------------
(***************************************************************************)
(* Where the command being issued is, action by action.                    *)
(***************************************************************************)
Sound == /\ TypeOK /\ NoiseInv /\ ClientInv
         /\ noise.console = 0 \/ noise.down = 0

LEMMA SoundFacts ==
  ASSUME Sound
  PROVE  /\ toStub \in Seq(Token) /\ toClient \in Seq(Token)
         /\ next \in Nat /\ Commands \in Nat /\ tries \in Nat /\ tries <= 3
         /\ executed \in Seq(Command) /\ Len(executed) \in Nat
         /\ noise.console \in Nat /\ noise.up \in Nat /\ noise.down \in Nat
         /\ budget.up \in Nat /\ budget.up <= noise.up
         /\ toClient # <<>> =>
              /\ Head(toClient) \in Token /\ Tail(toClient) \in Seq(Token)
              /\ Head(toClient).kind = "console" => noise.console > 0
              /\ ~Head(toClient).good => noise.down # 0 /\ noise.console = 0
         /\ toStub # <<>> => Head(toStub) \in Token /\ Tail(toStub) \in Seq(Token)
         /\ Listening => next \in Command /\ tries > 0 /\ Refusals >= Tries - tries
<1>1. /\ toStub \in Seq(Token) /\ toClient \in Seq(Token)
      /\ next \in Nat /\ Commands \in Nat /\ tries \in Nat /\ tries <= 3
      /\ executed \in Seq(Command) /\ noise \in Noise /\ budget \in Noise
  BY NoiseAssumption, SessionAssumption DEF Sound, TypeOK, Tries
<1>2. /\ noise.console \in Nat /\ noise.up \in Nat /\ noise.down \in Nat
      /\ budget.up \in Nat /\ budget.up <= noise.up
  BY <1>1, NoiseFields DEF Sound, NoiseInv
<1>3. toStub # <<>> => Head(toStub) \in Token /\ Tail(toStub) \in Seq(Token)
  BY <1>1, TailAt
<1>4. ASSUME toClient # <<>>
      PROVE  /\ Head(toClient) \in Token /\ Tail(toClient) \in Seq(Token)
             /\ Head(toClient).kind = "console" => noise.console > 0
             /\ ~Head(toClient).good => noise.down # 0 /\ noise.console = 0
  <2>1. Head(toClient) \in Token /\ Tail(toClient) \in Seq(Token)
    BY <1>1, <1>4, TailAt
  <2>2. /\ Head(toClient).kind = "console" => noise.console > 0
        /\ noise.down = 0 => Head(toClient).good
    BY <1>1, <1>4, HonestKeep DEF Sound, NoiseInv
  <2> QED BY <2>1, <2>2 DEF Sound
<1>5. Listening => next \in Command /\ tries > 0 /\ Refusals >= Tries - tries
  BY <1>1 DEF Sound, ClientInv, Command
<1> QED BY <1>1, <1>2, <1>3, <1>4, <1>5

\* The stages a command can be in while the client waits for its reply.
LEMMA StageOf ==
  ASSUME Stage
  PROVE  /\ pc = "idle" => Settled
         /\ Listening => \/ Asked(TRUE) \/ Asked(FALSE) \/ Refused
                         \/ Working \/ Replied \/ AskedAgain \/ Missed
  BY DEF Stage, Settled, Asked, Refused, Working, Replied, AskedAgain, Missed, Listening

LEMMA ConnectPlace ==
  ASSUME Sound, Place, Connect
  PROVE  Place'
<1>1. /\ pc' = "sent" /\ toStub' = <<Packet(0)>> /\ toClient' = <<>> /\ busy' = None
      /\ next' = next /\ executed' = executed /\ Abandoned
  BY DEF Connect, Place
<1>2. Asks(<<Packet(0)>>, 0, TRUE) /\ AsksLast(<<Packet(0)>>)
  <2>1. 0 \in Command /\ Packet(0) \in Token
    BY SessionAssumption, KindOf DEF Command
  <2>2. <<>> \in Seq(Token) /\ Append(<<>>, Packet(0)) = <<Packet(0)>> /\ Acks(<<>>)
    BY DEF Acks
  <2> QED BY <2>1, <2>2, NowAsks
<1>3. Prints(<<>>) /\ next = 0 /\ Undone
  BY <1>1 DEF Prints, Abandoned, Undone
<1>4. Asked(TRUE)'
  BY <1>1, <1>2, <1>3 DEF Asked, Undone, Listening
<1> QED BY <1>1, <1>4 DEF Place, Stage

LEMMA ClosePlace ==
  ASSUME Sound, Place, Close
  PROVE  Place'
<1>1. /\ pc \in {"failed", "idle"} /\ pc' = "closed"
      /\ UNCHANGED <<next, toStub, toClient, busy, last, executed, noise, budget, tries>>
  BY DEF Close, link, stub
<1>2. CASE Abandoned /\ pc = "failed"
  BY <1>1, <1>2 DEF Place, Abandoned
<1>3. CASE Stage
  <2>1. Stage'
    BY <1>1, <1>3 DEF Stage, Settled, Asked, Refused, Working, Replied, AskedAgain, Missed,
       Listening, Done, Undone, Keeps
  <2> QED BY <1>1, <2>1 DEF Place
<1> QED BY <1>1, <1>2, <1>3 DEF Place

LEMMA SendPlace ==
  ASSUME Sound, Place, Send
  PROVE  Place'
<1>1. /\ pc = "idle" /\ pc' = "sent" /\ toStub' = Append(toStub, Packet(next))
      /\ UNCHANGED <<next, toClient, busy, executed, noise, budget>> /\ next <= Commands
  BY DEF Send, stub
<1>2. Settled
  BY <1>1, StageOf DEF Place
<1>3. next \in Command
  BY <1>1, SoundFacts DEF Command
<1>4. Asks(toStub', next, TRUE) /\ AsksLast(toStub')
  BY <1>1, <1>2, <1>3, NowAsks, SoundFacts DEF Settled
<1>5. Asked(TRUE)'
  BY <1>1, <1>2, <1>4 DEF Asked, Settled, Undone
<1> QED BY <1>1, <1>5 DEF Place, Stage

LEMMA AckedPlace ==
  ASSUME Sound, Place, Acked
  PROVE  Place'
<1>1. /\ pc = "sent" /\ pc' = "receiving" /\ toClient # <<>>
      /\ Head(toClient) = Ack /\ toClient' = Tail(toClient)
      /\ UNCHANGED <<next, toStub, busy, last, executed, noise, budget, tries>>
  BY DEF Acked, Reads, Consume, stub
<1>2. Head(toClient).kind = "+" /\ toClient \in Seq(Token)
  BY <1>1, KindOf, SoundFacts
<1>3. ~Prints(toClient) /\ ~Refuses(toClient)
  BY <1>1, <1>2, PrintsKeep, RefusesKeep
<1>4. CASE Working
  <2>1. Accepts(toClient')
    BY <1>1, <1>2, <1>4, AcceptsKeep DEF Working
  <2>2. Working'
    BY <1>1, <1>4, <2>1 DEF Working, Undone
  <2> QED BY <1>1, <2>2 DEF Place, Stage
<1>5. CASE Replied
  <2>1. Answers(toClient', next)
    BY <1>1, <1>2, <1>5, AnswersKeep DEF Replied
  <2>2. Replied'
    BY <1>1, <1>5, <2>1 DEF Replied, Done, Keeps
  <2> QED BY <1>1, <2>2 DEF Place, Stage
<1>6. Working \/ Replied
  <2>1. Stage /\ Listening
    BY <1>1 DEF Place, Listening
  <2> QED BY <1>1, <1>3, <2>1, StageOf DEF Asked, Refused, AskedAgain, Missed
<1> QED BY <1>4, <1>5, <1>6

\* A refusal the client hears is of the packet it sent last.
LEMMA NackedFacts ==
  ASSUME Sound, Place, toClient # <<>>, Head(toClient).kind = "-", Listening
  PROVE  Refused /\ Refusals > Tries - tries
<1>1. toClient \in Seq(Token)
  BY SoundFacts
<1>2. ~Prints(toClient) /\ ~Accepts(toClient) /\ ~Answers(toClient, next)
  BY <1>1, PrintsKeep, AcceptsKeep, AnswersKeep
<1>3. Stage
  BY DEF Place, Listening
<1>4. Refused
  BY <1>2, <1>3, StageOf DEF Asked, Working, Replied, AskedAgain, Missed
<1> QED BY <1>4 DEF Refused

LEMMA NackedPlace ==
  ASSUME Sound, Place, Nacked
  PROVE  Place'
<1>1. /\ pc = "sent" /\ pc' \in {"failed", "sent"} /\ toClient # <<>>
      /\ Head(toClient) = Nack /\ toClient' = Tail(toClient)
      /\ toStub' = Append(toStub, Packet(next))
      /\ UNCHANGED <<next, busy, executed, noise, budget>>
  BY DEF Nacked, Reads, Consume, stub
<1>2. Head(toClient).kind = "-"
  BY <1>1, KindOf
<1>3. Refused
  BY <1>1, <1>2, NackedFacts DEF Listening
<1>4. Prints(toClient')
  BY <1>1, <1>2, <1>3, RefusesKeep, SoundFacts DEF Refused
<1>5. Asks(toStub', next, TRUE) /\ AsksLast(toStub')
  BY <1>1, <1>3, NowAsks, SoundFacts DEF Refused, Listening
<1>6. Asked(TRUE)'
  BY <1>1, <1>3, <1>4, <1>5 DEF Asked, Refused, Undone
<1> QED BY <1>1, <1>6 DEF Place, Stage

LEMMA OutOfBandPlace ==
  ASSUME Sound, Place, OutOfBand
  PROVE  Place'
<1>1. /\ pc = "sent" /\ pc' = "receiving" /\ toClient # <<>>
      /\ Head(toClient).kind \notin {"+", "-"}
      /\ UNCHANGED <<next, toStub, toClient, busy, last, executed, noise, budget, tries>>
  BY DEF OutOfBand, link, stub, Framed
<1>2. Stage /\ Listening /\ Listening'
  BY <1>1 DEF Place, Listening
<1>3. Prints(toClient) \/ Refuses(toClient) => noise.console > 0
  BY <1>1, SoundFacts, PrintsKeep, RefusesKeep
<1>4. Stage'
  <2>1. CASE Asked(TRUE) \/ Asked(FALSE)
    BY <1>1, <1>2, <1>3, <2>1 DEF Stage, Asked, Undone, Refusals
  <2>2. CASE Refused
    BY <1>1, <1>2, <1>3, <2>2 DEF Stage, Refused, Undone, Refusals
  <2>3. CASE Working \/ Replied
    BY <1>1, <2>3 DEF Stage, Working, Replied, Done, Undone, Keeps
  <2>4. CASE AskedAgain \/ Missed
    BY <1>1, <2>4 DEF Stage, AskedAgain, Missed, Done, Undone, Keeps
  <2> QED BY <1>2, <2>1, <2>2, <2>3, <2>4, StageOf
<1> QED BY <1>1, <1>4 DEF Place

LEMMA StrayPlace ==
  ASSUME Sound, Place, Stray
  PROVE  Place'
<1>1. /\ pc = "receiving" /\ pc' = pc /\ toClient # <<>>
      /\ Head(toClient) \in {Ack, Nack} /\ toClient' = Tail(toClient)
      /\ UNCHANGED <<next, toStub, busy, last, executed, noise, budget, tries>>
  BY DEF Stray, Reads, Consume, stub, client
<1>2. Stage /\ Listening /\ toClient \in Seq(Token)
  BY <1>1, SoundFacts DEF Place, Listening
<1>3. CASE Head(toClient) = Nack
  <2>1. Head(toClient).kind = "-"
    BY <1>3, KindOf
  <2>2. Refused /\ Refusals > Tries - tries
    BY <1>1, <1>2, <2>1, NackedFacts
  <2>3. Prints(toClient')
    BY <1>1, <1>2, <2>1, <2>2, RefusesKeep DEF Refused
  <2>4. noise.up > 0
    BY <2>2, SoundFacts DEF Refusals, Tries
  <2>5. Missed'
    BY <1>1, <2>2, <2>3, <2>4 DEF Missed, Refused, Undone
  <2> QED BY <1>1, <2>5 DEF Place, Stage
<1>4. CASE Head(toClient) = Ack
  <2>1. Head(toClient).kind = "+"
    BY <1>4, KindOf
  <2>2. ~Prints(toClient) /\ ~Refuses(toClient)
    BY <1>1, <1>2, <2>1, PrintsKeep, RefusesKeep
  <2>3. CASE Working
    <3>1. Accepts(toClient')
      BY <1>1, <1>2, <2>3, AcceptsKeep DEF Working
    <3>2. Working'
      BY <1>1, <2>3, <3>1 DEF Working, Undone
    <3> QED BY <1>1, <3>2 DEF Place, Stage
  <2>4. CASE Replied
    <3>1. Answers(toClient', next)
      BY <1>1, <1>2, <2>1, <2>4, AnswersKeep DEF Replied
    <3>2. Replied'
      BY <1>1, <2>4, <3>1 DEF Replied, Done, Keeps
    <3> QED BY <1>1, <3>2 DEF Place, Stage
  <2> QED BY <1>1, <1>2, <2>2, <2>3, <2>4, StageOf DEF Asked, Refused, AskedAgain, Missed
<1> QED BY <1>1, <1>3, <1>4

LEMMA BadFramePlace ==
  ASSUME Sound, Place, BadFrame
  PROVE  Place'
<1>1. /\ pc = "receiving" /\ pc' = pc /\ toClient # <<>> /\ Head(toClient).good = FALSE
      /\ Head(toClient).kind \notin {"+", "-"}
      /\ toClient' = Tail(toClient) /\ toStub' = Append(toStub, Nack)
      /\ UNCHANGED <<next, busy, last, executed, noise, budget, tries>>
  BY DEF BadFrame, Frame, Consume, stub, client, Framed
<1>2. /\ Stage /\ Listening /\ toClient \in Seq(Token) /\ noise.console = 0
      /\ Head(toClient).kind # "console"
  BY <1>1, SoundFacts DEF Place, Listening
<1>3. ~Prints(toClient) /\ ~Refuses(toClient) /\ ~Accepts(toClient)
  BY <1>1, <1>2, PrintsKeep, RefusesKeep, AcceptsKeep
<1>4. Replied
  BY <1>2, <1>3, <1>1, StageOf DEF Asked, Refused, Working, AskedAgain, Missed
<1>5. toStub' = <<Nack>>
  <2>1. toStub = <<>>
    BY <1>2, <1>4 DEF Replied
  <2> QED BY <1>1, <2>1
<1>6. Len(toStub') = 1 /\ toStub'[1].kind = "-"
  BY <1>5, KindOf
<1>7. toClient' = <<>>
  <2>1. ASSUME NEW j \in 1..Len(toClient) PROVE toClient[j].kind # "console"
    BY <1>2, <2>1 DEF Sound, NoiseInv, Honest
  <2>2. Head(toClient).kind = "reply"
    BY <1>1, <1>2, <1>4, AnswersKeep DEF Replied
  <2> QED BY <1>1, <1>2, <1>4, <2>1, <2>2, AnswersKeep DEF Replied
<1>8. AskedAgain'
  BY <1>1, <1>2, <1>4, <1>6, <1>7 DEF AskedAgain, Replied, Done, Keeps
<1> QED BY <1>1, <1>8 DEF Place, Stage

LEMMA ConsoleFramePlace ==
  ASSUME Sound, Place, ConsoleFrame
  PROVE  Place'
<1>1. /\ pc = "receiving" /\ pc' = pc /\ toClient # <<>>
      /\ Head(toClient).kind = "console"
      /\ toClient' = Tail(toClient) /\ toStub' = Append(toStub, Ack)
      /\ UNCHANGED <<next, busy, last, executed, noise, budget, tries>>
  BY DEF ConsoleFrame, Frame, Consume, stub, client, IsConsole
<1>2. /\ Stage /\ Listening /\ toClient \in Seq(Token) /\ noise.console > 0
      /\ toStub \in Seq(Token) /\ noise.console # 0
  BY <1>1, SoundFacts DEF Place, Listening
<1>3. Listening' /\ Refusals' = Refusals /\ Undone' = Undone /\ Done' = Done
  BY <1>1 DEF Listening, Refusals, Undone, Done
<1>4. /\ Prints(toClient) => Prints(toClient')
      /\ Refuses(toClient) => Refuses(toClient')
      /\ Accepts(toClient) => Accepts(toClient')
      /\ Answers(toClient, next) => Answers(toClient', next)
  BY <1>1, <1>2, PrintsKeep, RefusesKeep, AcceptsKeep, AnswersKeep
<1>5. /\ Acks(toStub) => Acks(toStub')
      /\ \A g \in BOOLEAN : Asks(toStub, next, g) => Asks(toStub', next, g)
  BY <1>1, <1>2, KindOf, AcksKeep, AsksKeep
<1>6. Stage'
  <2>1. CASE Asked(TRUE) \/ Asked(FALSE)
    BY <1>1, <1>2, <1>3, <1>4, <1>5, <2>1 DEF Stage, Asked
  <2>2. CASE Refused
    BY <1>1, <1>2, <1>3, <1>4, <1>5, <2>2 DEF Stage, Refused
  <2>3. CASE Working
    BY <1>1, <1>2, <1>3, <1>4, <1>5, <2>3 DEF Stage, Working
  <2>4. CASE Replied
    BY <1>1, <1>2, <1>3, <1>4, <1>5, <2>4 DEF Stage, Replied
  <2>5. CASE Missed
    BY <1>1, <1>2, <1>3, <1>4, <1>5, <2>5 DEF Stage, Missed
  <2>6. ~AskedAgain
    BY <1>1 DEF AskedAgain
  <2> QED BY <1>2, <2>1, <2>2, <2>3, <2>4, <2>5, <2>6, StageOf
<1> QED BY <1>1, <1>6 DEF Place

\* The frame that cmd() returns is the reply to the command it sent.
LEMMA ReplyFacts ==
  ASSUME Sound, Place, ReplyFrame
  PROVE  Replied /\ Head(toClient).kind = "reply" /\ Head(toClient).id = next
<1>1. /\ pc = "receiving" /\ toClient # <<>> /\ Head(toClient).kind # "console"
      /\ Head(toClient).kind \notin {"+", "-"}
  BY DEF ReplyFrame, Frame, IsConsole, Framed
<1>2. Stage /\ Listening /\ toClient \in Seq(Token)
  BY <1>1, SoundFacts DEF Place, Listening
<1>3. ~Prints(toClient) /\ ~Refuses(toClient) /\ ~Accepts(toClient)
  BY <1>1, <1>2, PrintsKeep, RefusesKeep, AcceptsKeep
<1>4. Replied
  BY <1>1, <1>2, <1>3, StageOf DEF Asked, Refused, Working, AskedAgain, Missed
<1> QED BY <1>1, <1>2, <1>4, AnswersKeep DEF Replied

LEMMA ReplyFramePlace ==
  ASSUME Sound, Place, ReplyFrame
  PROVE  Place'
<1>1. /\ pc' \in {"idle", "failed"} /\ toClient # <<>> /\ next' = next + 1
      /\ toClient' = Tail(toClient) /\ toStub' = Append(toStub, Ack)
      /\ UNCHANGED <<busy, executed>>
  BY DEF ReplyFrame, Frame, Consume, stub
<1>2. Replied /\ Head(toClient).kind = "reply"
  BY ReplyFacts
<1>3. Prints(toClient')
  BY <1>1, <1>2, SoundFacts, AnswersKeep DEF Replied
<1>4. Acks(toStub')
  BY <1>1, <1>2, SoundFacts, KindOf, AcksKeep DEF Replied
<1>5. next' > 0 /\ Undone'
  <2>1. next \in Nat /\ Len(executed) = next
    BY <1>2, SoundFacts DEF Replied, Done
  <2> QED BY <1>1, <2>1 DEF Undone
<1>6. Settled'
  BY <1>1, <1>2, <1>3, <1>4, <1>5 DEF Settled, Replied
<1> QED BY <1>1, <1>6 DEF Place, Stage

\* An attempt that start() gives up can still reach the stub, but only with
\* qSupported.
LEMMA Forgotten ==
  ASSUME Sound, Stage, Listening, next = 0
  PROVE  Abandoned
<1>1. executed \in Seq(Command) /\ Len(executed) = 0
  BY SoundFacts, StageOf DEF Asked, Refused, Working, Replied, AskedAgain, Missed,
     Done, Undone
<1>2. executed = <<>>
  BY <1>1
<1>3. busy \in {None, 0}
  BY StageOf DEF Asked, Refused, Working, Replied, AskedAgain, Missed
<1>4. ASSUME NEW i \in 1..Len(toStub), toStub[i].kind = "command"
      PROVE  toStub[i].id = 0
  <2>1. CASE Asked(TRUE) \/ Asked(FALSE)
    <3>1. \E k \in 1..Len(toStub) :
            /\ toStub[k].id = 0
            /\ \A j \in 1..Len(toStub) \ {k} : toStub[j].kind = "+"
      BY <2>1 DEF Asked, Asks
    <3> QED BY <1>4, <3>1
  <2>2. CASE Acks(toStub)
    BY <1>4, <2>2 DEF Acks
  <2>3. CASE AskedAgain
    BY <1>4, <2>3 DEF AskedAgain
  <2> QED BY <2>1, <2>2, <2>3, StageOf DEF Refused, Working, Replied, Missed
<1> QED BY <1>2, <1>3, <1>4 DEF Abandoned

LEMMA TimeoutPlace ==
  ASSUME Sound, Place, Silence \/ Slow
  PROVE  Place'
<1>1. /\ pc \in {"sent", "receiving"}
      /\ pc' = IF next = 0 THEN "starting" ELSE "failed"
      /\ UNCHANGED <<next, toStub, toClient, busy, last, executed, noise>>
  BY DEF Silence, Slow, Waiting, TimesOut, stub, link
<1>2. Stage /\ Listening
  BY <1>1 DEF Place, Listening
<1>3. CASE next = 0
  <2>1. Abandoned
    BY <1>2, <1>3, Forgotten
  <2> QED BY <1>1, <1>3, <2>1 DEF Place, Abandoned
<1>4. CASE next # 0
  <2>1. pc' = "failed" /\ ~Listening'
    BY <1>1, <1>4 DEF Listening
  <2>2. Stage'
    <3>1. CASE Asked(TRUE) \/ Asked(FALSE)
      BY <1>1, <2>1, <3>1 DEF Stage, Asked, Undone
    <3>2. CASE Refused
      BY <1>1, <2>1, <3>2 DEF Stage, Refused, Undone
    <3>3. CASE Working \/ Replied
      BY <1>1, <2>1, <3>3 DEF Stage, Working, Replied, Done, Undone, Keeps
    <3>4. CASE AskedAgain \/ Missed
      BY <1>1, <2>1, <3>4 DEF Stage, AskedAgain, Missed, Done, Undone, Keeps
    <3> QED BY <1>2, <3>1, <3>2, <3>3, <3>4, StageOf
  <2> QED BY <2>1, <2>2 DEF Place
<1> QED BY <1>3, <1>4

\* When nothing can come, a refusal was passed over.
LEMMA SilenceFacts ==
  ASSUME Sound, Place, Silence
  PROVE  noise.console > 0 /\ noise.up > 0
<1>1. pc \in {"sent", "receiving"} /\ toClient = <<>> /\ toStub = <<>> /\ busy = None
  BY DEF Silence, Waiting, Quiet
<1>2. ~Refuses(toClient) /\ ~Answers(toClient, next)
      /\ \A g : ~Asks(toStub, next, g)
  BY <1>1 DEF Refuses, Answers, Asks
<1>3. Len(toStub) # 1 /\ busy # next
  BY <1>1, SoundFacts DEF None
<1> QED BY <1>1, <1>2, <1>3, StageOf
    DEF Place, Listening, Asked, Refused, Working, Replied, AskedAgain, Missed

LEMMA AcceptsPlace ==
  ASSUME Sound, Stage, pc # "starting", StubAccepts
  PROVE  Place'
<1> DEFINE t == Head(toStub)
<1>1. /\ busy = None /\ toStub # <<>> /\ toStub' = Tail(toStub) /\ t.kind = "command"
      /\ UNCHANGED <<pc, next, tries, executed, budget, noise>>
      /\ IF t.good THEN busy' = t.id /\ toClient' = Append(toClient, Ack)
                   ELSE busy' = None /\ toClient' = Append(toClient, Nack)
  BY DEF StubAccepts, StubReads, client
<1>2. toStub \in Seq(Token) /\ toClient \in Seq(Token)
  BY SoundFacts
<1>3. PICK g \in BOOLEAN : Asked(g)
  <2>1. ~Acks(toStub)
    BY <1>1, <1>2, AcksKeep
  <2>2. ~AskedAgain
    BY <1>1, <1>2, TailAt DEF AskedAgain
  <2> QED BY <2>1, <2>2 DEF Stage, Settled, Refused, Working, Replied, Missed
<1>4. /\ t.id = next /\ t.good = g /\ Acks(toStub')
      /\ AsksLast(toStub) => toStub' = <<>>
  BY <1>1, <1>2, <1>3, AsksKeep DEF Asked
<1>5. Listening' = Listening /\ Refusals' = Refusals /\ Undone' = Undone
  BY <1>1 DEF Listening, Refusals, Undone
<1> HIDE DEF t
<1>6. CASE g = TRUE
  <2>1. busy' = next /\ toClient' = Append(toClient, Ack)
    BY <1>1, <1>4, <1>6
  <2>2. Accepts(toClient')
    BY <1>2, <1>3, <2>1, NowAccepts DEF Asked
  <2>3. Working'
    BY <1>1, <1>3, <1>4, <1>5, <2>1, <2>2 DEF Working, Asked
  <2> QED BY <1>1, <2>3 DEF Place, Stage
<1>7. CASE g = FALSE
  <2>1. busy' = None /\ toClient' = Append(toClient, Nack)
    BY <1>1, <1>4, <1>7
  <2>2. Refuses(toClient')
    BY <1>2, <1>3, <2>1, NowRefuses DEF Asked
  <2>3. Refused'
    BY <1>1, <1>3, <1>4, <1>5, <1>7, <2>1, <2>2 DEF Refused, Asked
  <2> QED BY <1>1, <2>3 DEF Place, Stage
<1> QED BY <1>6, <1>7

LEMMA HearsAckPlace ==
  ASSUME Sound, Stage, pc # "starting", StubHearsAck
  PROVE  Place'
<1>1. /\ busy = None /\ toStub # <<>> /\ toStub' = Tail(toStub) /\ Head(toStub).kind = "+"
      /\ UNCHANGED <<pc, next, tries, executed, budget, noise, busy, toClient>>
  BY KindOf DEF StubHearsAck, StubReads, client
<1>2. toStub \in Seq(Token) /\ busy # next
  BY <1>1, SoundFacts DEF None
<1>3. Listening' = Listening /\ Refusals' = Refusals /\ Undone' = Undone /\ Done' = Done
  BY <1>1 DEF Listening, Refusals, Undone, Done
<1>4. Acks(toStub) => Acks(toStub')
  BY <1>1, <1>2, AcksKeep
<1>5. ASSUME NEW g \in BOOLEAN, Asked(g) PROVE Asked(g)'
  <2>1. Asks(toStub', next, g) /\ (AsksLast(toStub) => AsksLast(toStub'))
    BY <1>1, <1>2, <1>5, AsksKeep DEF Asked
  <2> QED BY <1>1, <1>3, <1>5, <2>1 DEF Asked
<1>6. CASE Settled
  BY <1>1, <1>3, <1>4, <1>6 DEF Settled, Stage, Place
<1>7. CASE Asked(TRUE) \/ Asked(FALSE)
  BY <1>1, <1>5, <1>7 DEF Stage, Place
<1>8. CASE Refused
  BY <1>1, <1>3, <1>4, <1>8 DEF Refused, Stage, Place
<1>9. CASE Replied
  BY <1>1, <1>3, <1>4, <1>9 DEF Replied, Stage, Place
<1>10. CASE Missed
  BY <1>1, <1>3, <1>4, <1>10 DEF Missed, Stage, Place
<1>11. ~Working /\ ~AskedAgain
  BY <1>1, <1>2, TailAt DEF Working, AskedAgain
<1> QED BY <1>6, <1>7, <1>8, <1>9, <1>10, <1>11 DEF Stage

LEMMA ResendsPlace ==
  ASSUME Sound, Stage, pc # "starting", StubResends
  PROVE  Place'
<1>1. /\ toStub # <<>> /\ toStub' = Tail(toStub) /\ Head(toStub).kind = "-"
      /\ toClient' = toClient \o last
      /\ UNCHANGED <<pc, next, tries, executed, budget, noise, busy, last>>
  BY KindOf DEF StubResends, StubReads, client
<1>2. toStub \in Seq(Token)
  BY SoundFacts
<1>3. AskedAgain
  <2>1. ~Acks(toStub) /\ \A g : ~Asks(toStub, next, g)
    BY <1>1, <1>2, AcksKeep, AsksKeep
  <2> QED BY <2>1 DEF Stage, Settled, Asked, Refused, Working, Replied, Missed
<1>4. toStub' = <<>>
  BY <1>1, <1>2, <1>3, TailAt DEF AskedAgain
<1>5. Answers(toClient', next)
  <2>1. last = <<last[1]>> /\ last[1] \in Token /\ last[1].kind = "reply" /\ last[1].id = next
    BY <1>3, LastTyped DEF AskedAgain, Keeps, Sound
  <2>2. <<>> \in Seq(Token) /\ Accepts(<<>>)
    BY DEF Accepts
  <2>3. toClient' = Append(<<>>, last[1])
    BY <1>1, <1>3, <2>1, <2>2, JoinIsAppend DEF AskedAgain
  <2> QED BY <2>1, <2>2, <2>3, NowAnswers
<1>6. Acks(toStub')
  BY <1>4 DEF Acks
<1>7. Replied'
  BY <1>1, <1>3, <1>4, <1>5, <1>6 DEF Replied, AskedAgain, Done, Keeps
<1> QED BY <1>1, <1>7 DEF Place, Stage

\* What the stub executes is the command being issued, and it has not been yet.
LEMMA RepliesFacts ==
  ASSUME Sound, Stage, busy # None
  PROVE  Working /\ busy = next /\ Undone
  BY DEF Stage, Settled, Asked, Refused, Working, Replied, AskedAgain, Missed

LEMMA RepliesPlace ==
  ASSUME Sound, Stage, pc # "starting", StubReplies
  PROVE  Place'
<1>1. /\ busy # None /\ busy' = None /\ toClient' = toClient \o last'
      /\ executed' = IF busy = 0 THEN executed ELSE Append(executed, busy)
      /\ UNCHANGED <<pc, next, tries, toStub, budget, noise>>
  BY DEF StubReplies, client
<1>2. Working /\ busy = next /\ Undone
  BY <1>1, RepliesFacts
<1>3. next \in Command /\ toClient \in Seq(Token) /\ executed \in Seq(Command)
  BY <1>1, <1>2, SoundFacts DEF Sound, TypeOK
<1>4. PICK ok \in BOOLEAN : last' = <<Reply(next, ok)>>
  BY <1>2 DEF StubReplies
<1>5. /\ Reply(next, ok) \in Token /\ Reply(next, ok).kind = "reply"
      /\ Reply(next, ok).id = next
  BY <1>3, KindOf
<1>6. toClient' = Append(toClient, Reply(next, ok))
  BY <1>1, <1>3, <1>4, <1>5, JoinIsAppend
<1>7. Answers(toClient', next)
  BY <1>2, <1>3, <1>5, <1>6, NowAnswers DEF Working
<1>8. Len(executed') = next
  <2>1. CASE next = 0
    BY <1>1, <1>2, <2>1 DEF Undone
  <2>2. CASE next # 0
    <3>1. Len(executed) = next - 1 /\ executed' = Append(executed, next) /\ next \in Nat
      BY <1>1, <1>2, <2>2, SoundFacts DEF Undone
    <3> QED BY <1>3, <3>1
  <2> QED BY <2>1, <2>2
<1>9. Keeps'
  <2>1. last' # <<>> /\ last'[1] = Reply(next, ok)
    BY <1>4
  <2> QED BY <1>1, <1>5, <2>1 DEF Keeps
<1>10. Replied'
  BY <1>1, <1>2, <1>7, <1>8, <1>9 DEF Replied, Working, Done
<1> QED BY <1>1, <1>10 DEF Place, Stage

LEMMA PrintsPlace ==
  ASSUME Sound, Stage, pc # "starting", StubPrints
  PROVE  Place'
<1>1. /\ toClient' = Append(toClient, Console) /\ budget'.up = budget.up
      /\ UNCHANGED <<pc, next, tries, toStub, busy, executed, noise>>
      /\ noise.console # 0 /\ noise.console > 0
  <2>1. budget \in Noise /\ budget.console <= noise.console /\ noise \in Noise
    BY NoiseAssumption DEF Sound, TypeOK, NoiseInv
  <2>2. /\ toClient' = Append(toClient, Console) /\ budget.console > 0
        /\ budget' = [budget EXCEPT !.console = @ - 1]
        /\ UNCHANGED <<pc, next, tries, toStub, busy, executed, noise>>
    BY DEF StubPrints, client
  <2>3. budget'.up = budget.up
    BY <2>1, <2>2, SpendTyped
  <2>4. budget.console \in Nat /\ noise.console \in Nat
    BY <2>1, NoiseFields
  <2> QED BY <2>1, <2>2, <2>3, <2>4
<1>2. toClient \in Seq(Token) /\ Console \in Token /\ Console.kind = "console"
  BY SoundFacts, KindOf
<1>3. Listening' = Listening /\ Refusals' = Refusals /\ Undone' = Undone /\ Done' = Done
  BY <1>1 DEF Listening, Refusals, Undone, Done
<1>4. /\ Prints(toClient) => Prints(toClient')
      /\ Refuses(toClient) => Refuses(toClient')
      /\ Accepts(toClient) => Accepts(toClient')
      /\ Answers(toClient, next) => Answers(toClient', next)
  BY <1>1, <1>2, PrintsKeep, RefusesKeep, AcceptsKeep, AnswersKeep
<1>5. CASE Settled
  BY <1>1, <1>3, <1>4, <1>5 DEF Settled, Stage, Place
<1>6. CASE Asked(TRUE) \/ Asked(FALSE)
  BY <1>1, <1>3, <1>4, <1>6 DEF Asked, Stage, Place
<1>7. CASE Refused
  BY <1>1, <1>3, <1>4, <1>7 DEF Refused, Stage, Place
<1>8. CASE Working
  BY <1>1, <1>3, <1>4, <1>8 DEF Working, Stage, Place
<1>9. CASE Replied
  BY <1>1, <1>3, <1>4, <1>9 DEF Replied, Stage, Place
<1>10. CASE Missed
  BY <1>1, <1>3, <1>4, <1>10 DEF Missed, Stage, Place
<1>11. ~AskedAgain
  BY <1>1 DEF AskedAgain
<1> QED BY <1>5, <1>6, <1>7, <1>8, <1>9, <1>10, <1>11 DEF Stage

LEMMA DamageUpPlace ==
  ASSUME Sound, Stage, pc # "starting", DamageUp
  PROVE  Place'
<1>1. PICK i \in Damageable(toStub) : toStub' = Damage(toStub, i)
  BY DEF DamageUp
<1>2. /\ UNCHANGED <<pc, next, tries, toClient, busy, last, executed, noise>>
      /\ budget'.up = budget.up - 1
  BY SpendTyped DEF DamageUp, client, stub, Sound, TypeOK
<1>3. /\ toStub \in Seq(Token) /\ i \in 1..Len(toStub)
      /\ toStub[i].kind \notin {"+", "-"} /\ Len(toStub') = Len(toStub)
  BY <1>1, SoundFacts, DamageTyped
<1>4. ~Acks(toStub) /\ ~AskedAgain
  BY <1>3 DEF Acks, AskedAgain
<1>5. PICK g \in BOOLEAN : Asked(g)
  BY <1>4 DEF Stage, Settled, Refused, Working, Replied, Missed
<1>6. PICK k \in 1..Len(toStub) :
        /\ toStub[k].kind = "command" /\ toStub[k].id = next /\ toStub[k].good = g
        /\ \A j \in 1..Len(toStub) \ {k} : toStub[j].kind = "+"
  BY <1>5 DEF Asked, Asks
<1>7. k = i /\ Len(toStub) \in Nat
  BY <1>3, <1>6
<1>8. \A j \in 1..Len(toStub) :
        /\ toStub'[j].kind = toStub[j].kind /\ toStub'[j].id = toStub[j].id
        /\ toStub'[j].good = IF j = i THEN FALSE ELSE toStub[j].good
  BY <1>1, <1>3, DamageAt
<1>9. Asks(toStub', next, FALSE)
  <2>1. toStub'[i].kind = "command" /\ toStub'[i].id = next /\ toStub'[i].good = FALSE
    BY <1>6, <1>7, <1>8
  <2>2. \A j \in 1..Len(toStub') \ {i} : toStub'[j].kind = "+"
    BY <1>3, <1>6, <1>7, <1>8
  <2> QED BY <1>3, <2>1, <2>2 DEF Asks
<1>10. AsksLast(toStub) => AsksLast(toStub')
  <2>1. Len(toStub) \in 1..Len(toStub)
    BY <1>3, <1>7
  <2> QED BY <1>3, <1>8, <2>1 DEF AsksLast
<1>11. Listening => Refusals' > Tries - tries
  <2>1. Refusals' = Refusals + 1
    BY <1>2, SoundFacts DEF Refusals
  <2>2. Refusals \in Int /\ Tries - tries \in Int
    BY SoundFacts DEF Refusals, Tries
  <2> QED BY <2>1, <2>2, SoundFacts
<1>12. Asked(FALSE)'
  BY <1>2, <1>5, <1>9, <1>10, <1>11 DEF Asked, Undone, Listening
<1> QED BY <1>2, <1>12 DEF Place, Stage

LEMMA DamageDownPlace ==
  ASSUME Sound, Stage, pc # "starting", DamageDown
  PROVE  Place'
<1>1. PICK i \in Damageable(toClient) : toClient' = Damage(toClient, i)
  BY DEF DamageDown
<1>2. /\ UNCHANGED <<pc, next, tries, toStub, busy, last, executed, noise>>
      /\ noise.down # 0
  <2>1. budget.down > 0 /\ budget \in Noise /\ noise \in Noise /\ budget.down <= noise.down
    BY NoiseAssumption DEF DamageDown, Sound, TypeOK, NoiseInv
  <2>2. budget.down \in Nat /\ noise.down \in Nat
    BY <2>1, NoiseFields
  <2> QED BY <2>1, <2>2 DEF DamageDown, client, stub
<1>3. /\ toClient \in Seq(Token) /\ i \in 1..Len(toClient)
      /\ toClient[i].kind \notin {"+", "-"} /\ Len(toClient') = Len(toClient)
  BY <1>1, SoundFacts, DamageTyped
<1>4. toClient[i].kind # "console"
  <2>1. ~(noise.console > 0)
    BY <1>2, SoundFacts DEF Sound
  <2> QED BY <1>3, <2>1 DEF Sound, NoiseInv, Honest
<1>5. ~Prints(toClient) /\ ~Refuses(toClient) /\ ~Accepts(toClient) /\ ~AskedAgain
  BY <1>3, <1>4 DEF Prints, Refuses, Accepts, AskedAgain
<1>6. Replied
  BY <1>5 DEF Stage, Settled, Asked, Refused, Working, Missed
<1>7. \A j \in 1..Len(toClient) :
        toClient'[j].kind = toClient[j].kind /\ toClient'[j].id = toClient[j].id
  BY <1>1, <1>3, DamageAt
<1>8. Answers(toClient', next)
  BY <1>3, <1>6, <1>7 DEF Replied, Answers
<1>9. Replied'
  BY <1>2, <1>6, <1>8 DEF Replied, Done, Keeps
<1> QED BY <1>2, <1>9 DEF Place, Stage

LEMMA AbandonedPlace ==
  ASSUME Sound, Abandoned, pc \in {"starting", "failed", "closed"},
         Stub \/ StubPrints \/ DamageUp \/ DamageDown \/ StartFails
  PROVE  Place'
<1>1. /\ toStub \in Seq(Token) /\ busy \in {None, 0} /\ executed = <<>>
      /\ \A i \in 1..Len(toStub) : toStub[i].kind = "command" => toStub[i].id = 0
  BY SoundFacts DEF Abandoned
<1>2. next' = next /\ pc' \in {pc, "failed"} /\ (pc' = "failed" \/ pc' = pc)
  BY DEF Stub, StubAccepts, StubHearsAck, StubResends, StubReplies, StubReads, StubPrints,
         DamageUp, DamageDown, StartFails, client
<1>3. ASSUME toStub # <<>>, toStub' = Tail(toStub)
      PROVE  /\ \A i \in 1..Len(toStub') : toStub'[i].kind = "command" => toStub'[i].id = 0
             /\ Head(toStub).kind = "command" => Head(toStub).id = 0
  BY <1>1, <1>3, TailAt
<1>4. Abandoned'
  <2>1. CASE StubAccepts \/ StubHearsAck \/ StubResends
    <3>1. /\ toStub # <<>> /\ toStub' = Tail(toStub) /\ executed' = executed
          /\ busy' \in {busy, None} \/ (Head(toStub).kind = "command" /\ busy' = Head(toStub).id)
      BY <2>1 DEF StubAccepts, StubHearsAck, StubResends, StubReads
    <3> QED BY <1>1, <1>2, <1>3, <3>1 DEF Abandoned
  <2>2. CASE StubReplies
    <3>1. busy = 0 /\ busy' = None /\ executed' = executed /\ toStub' = toStub
      BY <1>1, <2>2 DEF StubReplies
    <3> QED BY <1>1, <1>2, <3>1 DEF Abandoned
  <2>3. CASE StubPrints \/ DamageDown \/ StartFails
    BY <1>2, <2>3 DEF StubPrints, DamageDown, StartFails, link, stub, Abandoned
  <2>4. CASE DamageUp
    <3>1. PICK i \in Damageable(toStub) : toStub' = Damage(toStub, i)
      BY <2>4 DEF DamageUp
    <3>2. Len(toStub') = Len(toStub)
      BY <1>1, <3>1, DamageTyped
    <3>3. \A j \in 1..Len(toStub) :
            toStub'[j].kind = toStub[j].kind /\ toStub'[j].id = toStub[j].id
      BY <1>1, <3>1, DamageAt
    <3>4. busy' = busy /\ executed' = executed
      BY <2>4 DEF DamageUp, stub
    <3> QED BY <1>1, <1>2, <3>2, <3>3, <3>4 DEF Abandoned
  <2> QED BY <2>1, <2>2, <2>3, <2>4 DEF Stub
<1> QED BY <1>2, <1>4 DEF Place

LEMMA PlaceStep ==
  ASSUME Sound, Place, Next
  PROVE  Place'
<1>1. CASE Client \/ Slow
  <2>1. StartFails => pc = "starting" /\ Abandoned
    BY DEF StartFails, Place
  <2> QED BY <1>1, <2>1, ConnectPlace, AbandonedPlace, SendPlace, AckedPlace, NackedPlace,
             OutOfBandPlace, StrayPlace, BadFramePlace, ConsoleFramePlace,
             ReplyFramePlace, TimeoutPlace, ClosePlace DEF Client
<1>2. CASE Stub \/ StubPrints \/ DamageUp \/ DamageDown
  <2>1. \/ Abandoned /\ pc \in {"starting", "failed", "closed"}
        \/ Stage /\ pc # "starting"
    BY DEF Place
  <2> QED BY <1>2, <2>1, AbandonedPlace, AcceptsPlace, HearsAckPlace, ResendsPlace,
             RepliesPlace, PrintsPlace, DamageUpPlace, DamageDownPlace DEF Stub
<1> QED BY <1>1, <1>2 DEF Next, Line

-----------------------------------------------------------------------------
(***************************************************************************)
(* What was answered and executed, and why a session is given up.          *)
(***************************************************************************)
Counted == \A k \in 1..Len(executed) : executed[k] = k

LEMMA AnswersStep ==
  ASSUME Sound, Place, AnswersMatch, Next
  PROVE  AnswersMatch'
<1>1. CASE ReplyFrame
  <2>1. Head(toClient).id = next /\ answers' = Append(answers, Head(toClient))
    BY <1>1, ReplyFacts DEF ReplyFrame
  <2>2. answers \in Seq(Token) /\ Len(answers) = next /\ Head(toClient) \in Token
    BY <1>1, SoundFacts DEF Sound, TypeOK, ClientInv, ReplyFrame, Frame
  <2>3. ASSUME NEW k \in 1..Len(answers') PROVE answers'[k].id = k - 1
    <3>1. \/ k \in 1..Len(answers) /\ answers'[k] = answers[k]
          \/ k = next + 1 /\ answers'[k] = Head(toClient)
      BY <2>1, <2>2, <2>3, AppendAt
    <3>2. next \in Nat
      BY SoundFacts
    <3> QED BY <2>1, <3>1, <3>2 DEF AnswersMatch
  <2> QED BY <2>3 DEF AnswersMatch
<1>2. CASE ~ReplyFrame
  <2>1. answers' = answers
    BY <1>2 DEF Next, Client, Connect, StartFails, Send, Acked, Nacked, OutOfBand, Stray,
       BadFrame, ConsoleFrame, Silence, Slow, TimesOut, Close, Stub, StubAccepts,
       StubHearsAck, StubResends, StubReplies, StubReads, StubPrints, Line, DamageUp,
       DamageDown, client
  <2> QED BY <2>1 DEF AnswersMatch
<1> QED BY <1>1, <1>2

LEMMA CountedStep ==
  ASSUME Sound, Place, Counted, Next
  PROVE  Counted'
<1>1. CASE StubReplies /\ busy # 0
  <2>1. busy # None /\ executed' = Append(executed, busy)
    BY <1>1 DEF StubReplies
  <2>2. Stage
    BY <1>1, <2>1 DEF Place, Abandoned
  <2>3. busy = next /\ Undone
    BY <2>1, <2>2, RepliesFacts
  <2>4. /\ executed \in Seq(Command) /\ next \in Nat /\ Len(executed) = next - 1
        /\ Len(executed) \in Nat
    BY <1>1, <2>3, SoundFacts DEF Undone
  <2>5. executed' = Append(executed, Len(executed) + 1)
    BY <2>1, <2>3, <2>4
  <2> QED BY <2>4, <2>5 DEF Counted
<1>2. CASE ~(StubReplies /\ busy # 0)
  <2>1. executed' = executed
    BY <1>2 DEF Next, Client, Connect, StartFails, Send, Acked, Nacked, OutOfBand, Stray,
       BadFrame, ConsoleFrame, ReplyFrame, Silence, Slow, TimesOut, Close, Stub, StubAccepts,
       StubHearsAck, StubResends, StubReplies, StubReads, StubPrints, Line, DamageUp,
       DamageDown, stub
  <2> QED BY <2>1 DEF Counted
<1> QED BY <1>1, <1>2

LEMMA CauseStep ==
  ASSUME Sound, Place, OnlyGivesUpWithCause, Next
  PROVE  OnlyGivesUpWithCause'
<1>1. noise' = noise
  BY DEF Next, Client, Connect, StartFails, Send, Acked, Nacked, OutOfBand, Stray,
     BadFrame, ConsoleFrame, ReplyFrame, Silence, Slow, TimesOut, Close, Stub, StubAccepts,
     StubHearsAck, StubResends, StubReplies, StubReads, StubPrints, Line, DamageUp,
     DamageDown
<1>2. CASE Nacked
  <2> SUFFICES ASSUME pc' = "failed" PROVE noise.up >= Tries
    BY <1>1 DEF OnlyGivesUpWithCause
  <2>1. toClient # <<>> /\ Head(toClient).kind = "-" /\ Listening
    BY <1>2, KindOf DEF Nacked, Reads, Listening
  <2>2. tries = 1 /\ Refusals > Tries - tries
    BY <1>2, <2>1, NackedFacts DEF Nacked
  <2> QED BY <2>2, SoundFacts DEF Refusals, Tries
<1>3. CASE ReplyFrame
  <2> SUFFICES ASSUME pc' = "failed"
               PROVE  ~answers'[next'].ok /\ next' - 1 \notin Steps
    BY DEF OnlyGivesUpWithCause
  <2>1. /\ ~Head(toClient).ok /\ next \notin Steps /\ next' = next + 1
        /\ answers' = Append(answers, Head(toClient))
    BY <1>3 DEF ReplyFrame
  <2>2. answers \in Seq(Token) /\ Len(answers) = next /\ Head(toClient) \in Token
    BY <1>3, SoundFacts DEF Sound, TypeOK, ClientInv, ReplyFrame, Frame
  <2>3. answers'[next + 1] = Head(toClient)
    BY <2>1, <2>2, AppendAt
  <2>4. next' - 1 = next
    BY <2>1, SoundFacts
  <2> QED BY <2>1, <2>3, <2>4
<1>4. CASE Silence
  <2>1. noise.console > 0 /\ noise.up > 0
    BY <1>4, SilenceFacts
  <2> QED BY <1>1, <2>1 DEF OnlyGivesUpWithCause
<1>5. CASE Slow
  <2>1. budget.slow > 0 /\ budget.slow <= noise.slow /\ budget \in Noise /\ noise \in Noise
    BY <1>5, NoiseAssumption DEF Slow, Sound, TypeOK, NoiseInv
  <2>2. noise.slow > 0
    BY <2>1, NoiseFields
  <2> QED BY <1>1, <2>2 DEF OnlyGivesUpWithCause
<1>6. CASE StartFails
  <2>1. next' = 0
    BY <1>6 DEF StartFails, Sound, ClientInv
  <2> QED BY <2>1 DEF OnlyGivesUpWithCause
<1>7. CASE \/ Connect \/ Send \/ Acked \/ OutOfBand \/ Stray \/ BadFrame \/ ConsoleFrame
           \/ Close
  <2>1. pc' # "failed"
    BY <1>7 DEF Connect, Send, Acked, OutOfBand, Stray, BadFrame, ConsoleFrame, Close,
       Frame, client
  <2> QED BY <2>1 DEF OnlyGivesUpWithCause
<1>8. CASE Stub \/ StubPrints \/ DamageUp \/ DamageDown
  <2>1. UNCHANGED <<pc, next, answers>>
    BY <1>8 DEF Stub, StubAccepts, StubHearsAck, StubResends, StubReplies, StubReads,
       StubPrints, DamageUp, DamageDown, client
  <2> QED BY <1>1, <2>1 DEF OnlyGivesUpWithCause
<1> QED BY <1>2, <1>3, <1>4, <1>5, <1>6, <1>7, <1>8 DEF Next, Client, Line

-----------------------------------------------------------------------------
LEMMA InvStep ==
  ASSUME Bearable, IInv, Next
  PROVE  IInv'
<1>1. Sound /\ Place /\ AnswersMatch /\ Counted /\ OnlyGivesUpWithCause
  BY DEF IInv, Sound, Counted, TypeOK, Bearable
<1>2. Nacked => Refusals > Tries - tries
  <2> SUFFICES ASSUME Nacked PROVE Refusals > Tries - tries
    OBVIOUS
  <2>1. toClient # <<>> /\ Head(toClient).kind = "-" /\ Listening
    BY KindOf DEF Nacked, Reads, Listening
  <2> QED BY <1>1, <2>1, NackedFacts
<1>3. TypeOK'
  BY <1>1, ClientTyped, StubTyped DEF Sound, Next, Line
<1>4. NoiseInv' /\ ClientInv'
  BY <1>1, <1>2, NoiseStep, ClientStep DEF Sound
<1>5. Place' /\ AnswersMatch' /\ Counted' /\ OnlyGivesUpWithCause'
  BY <1>1, PlaceStep, AnswersStep, CountedStep, CauseStep
<1> QED BY <1>3, <1>4, <1>5 DEF IInv, Counted

LEMMA InitInv == Init => IInv
<1> SUFFICES ASSUME Init PROVE IInv
  OBVIOUS
<1>1. TypeOK
  BY InitTyped
<1>2. NoiseInv
  <2>1. noise \in Noise /\ budget = noise
    BY NoiseAssumption DEF Init
  <2>2. noise.console \in Nat /\ noise.up \in Nat /\ noise.down \in Nat /\ noise.slow \in Nat
    BY <2>1, NoiseFields
  <2> QED BY <2>1, <2>2 DEF Init, NoiseInv, Honest
<1>3. ClientInv /\ AnswersMatch /\ OnlyGivesUpWithCause
  BY DEF Init, ClientInv, Listening, AnswersMatch, OnlyGivesUpWithCause
<1>4. \A k \in 1..Len(executed) : executed[k] = k
  BY DEF Init
<1>5. Place
  BY DEF Init, Place, Abandoned
<1> QED BY <1>1, <1>2, <1>3, <1>4, <1>5 DEF IInv

LEMMA Inductive == ASSUME Bearable PROVE Spec => []IInv
<1>1. IInv /\ [Next]_vars => IInv'
  <2>1. CASE Next
    BY <2>1, InvStep
  <2>2. CASE UNCHANGED vars
    <3>1. /\ UNCHANGED <<pc, next, tries, attempt, answers, toStub, toClient>>
          /\ UNCHANGED <<busy, last, executed, budget, noise>>
      BY <2>2 DEF vars, client, link, stub
    <3>2. TypeOK' = TypeOK /\ NoiseInv' = NoiseInv /\ ClientInv' = ClientInv
      BY <3>1 DEF TypeOK, NoiseInv, ClientInv, Listening, Refusals
    <3>3. AnswersMatch' = AnswersMatch /\ OnlyGivesUpWithCause' = OnlyGivesUpWithCause
      BY <3>1 DEF AnswersMatch, OnlyGivesUpWithCause
    <3>4. Stage' = Stage /\ Abandoned' = Abandoned
      BY <3>1 DEF Stage, Settled, Asked, Refused, Working, Replied, AskedAgain, Missed,
         Abandoned, Listening, Refusals, Done, Undone, Keeps
    <3> QED BY <3>1, <3>2, <3>3, <3>4 DEF IInv, Place
  <2> QED BY <2>1, <2>2
<1> QED BY <1>1, InitInv, PTL DEF Spec

(***************************************************************************)
(* The types of the client's state, the socket and the stub.               *)
(***************************************************************************)
THEOREM TypeCorrect == ASSUME Bearable PROVE Spec => []TypeOK
<1>1. IInv => TypeOK
  BY DEF IInv
<1> QED BY <1>1, Inductive, PTL

(***************************************************************************)
(* Request and response stay aligned through any number of damaged or      *)
(* unsolicited packets, late replies and reconnections, in sessions of any *)
(* length: cmd() returns the reply to its own command.                     *)
(***************************************************************************)
THEOREM Aligned == ASSUME Bearable PROVE Spec => []AnswersMatch
<1>1. IInv => AnswersMatch
  BY DEF IInv
<1> QED BY <1>1, Inductive, PTL

(***************************************************************************)
(* The target executes every command of the session exactly once, and has  *)
(* done so when cmd() returns: the instruction count of the QEMU backend   *)
(* is exact.                                                               *)
(***************************************************************************)
THEOREM ExactlyOnce == ASSUME Bearable PROVE Spec => []ExecutedOnce
<1>1. IInv => ExecutedOnce
  <2> SUFFICES ASSUME IInv PROVE ExecutedOnce
    OBVIOUS
  <2>1. next \in Nat /\ executed \in Seq(Command) /\ Len(executed) \in Nat
    BY SessionAssumption DEF IInv, TypeOK
  <2>2. Stage \/ Abandoned
    BY DEF IInv, Place
  <2>3. CASE Abandoned
    <3>1. executed = <<>> /\ next = 0
      BY <2>3 DEF Abandoned
    <3>2. pc # "idle"
      <4>1. Stage /\ pc = "idle" => next > 0
        BY StageOf DEF Settled
      <4> QED BY <2>1, <2>3, <4>1 DEF IInv, Place, Abandoned
    <3> QED BY <3>1, <3>2 DEF ExecutedOnce
  <2>4. CASE Stage
    <3>1. Undone \/ Done
      BY <2>4 DEF Stage, Settled, Asked, Refused, Working, Replied, AskedAgain, Missed
    <3>2. pc = "idle" => next > 0 /\ Undone
      BY <2>4, StageOf DEF Settled
    <3>3. Len(executed) >= next - 1
      BY <2>1, <3>1 DEF Undone, Done
    <3>4. pc = "idle" => Len(executed) = next - 1
      BY <2>1, <3>2 DEF Undone
    <3> QED BY <3>3, <3>4 DEF IInv, ExecutedOnce
  <2> QED BY <2>2, <2>3, <2>4
<1> QED BY <1>1, Inductive, PTL

(***************************************************************************)
(* Once connected, the client raises only for a reason that retransmission *)
(* does not cure.                                                          *)
(***************************************************************************)
THEOREM RaisesWithCause == ASSUME Bearable PROVE Spec => []OnlyGivesUpWithCause
<1>1. IInv => OnlyGivesUpWithCause
  BY DEF IInv
<1> QED BY <1>1, Inductive, PTL
=============================================================================
