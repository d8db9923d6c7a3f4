-------------------------- MODULE SecureBootProofs --------------------------
(***************************************************************************)
(* Proofs about SecureBoot for every image, every number of skips of       *)
(* every width, and both builds.                                           *)
(***************************************************************************)
EXTENDS SecureBoot, TLAPS

(***************************************************************************)
(* The verdict word says accepted only after the ACCEPT store; corrupted   *)
(* marks touch neither (oracle_mark() writes the marks word alone).        *)
(***************************************************************************)
VerdictInv == /\ "verdict" \in DOMAIN oracle
              /\ oracle.verdict = "BOOT_ACCEPT" => accepted

LEMMA OtherField ==
  ASSUME NEW x, NEW v, "verdict" \in DOMAIN oracle, x \in {"marks", "image_version"},
         oracle' = [oracle EXCEPT ![x] = v]
  PROVE  "verdict" \in DOMAIN oracle' /\ oracle'.verdict = oracle.verdict
  OBVIOUS

LEMMA VerdictStep ==
  ASSUME VerdictInv, [Next]_vars PROVE VerdictInv'
<1>1. CASE UNCHANGED <<oracle, accepted>>
  BY <1>1 DEF VerdictInv
<1>2. CASE Mark
  <2>1. PICK v : oracle' = [oracle EXCEPT !.marks = v]
    BY <1>2 DEF Mark
  <2> QED BY <1>2, <2>1, OtherField DEF Mark, VerdictInv
<1>3. CASE ImageVersion
  <2>1. PICK v : oracle' = [oracle EXCEPT !.image_version = v]
    BY <1>3 DEF ImageVersion
  <2> QED BY <1>3, <2>1, OtherField DEF ImageVersion, VerdictInv
<1>4. CASE Verdict
  BY <1>4 DEF Verdict, VerdictInv
<1> QED BY <1>1, <1>2, <1>3, <1>4
        DEF Next, Execute, Skip, If_, Local, Call, Ret, Stop, vars

-----------------------------------------------------------------------------
(***************************************************************************)
(* The units of the program text and what each may carry.                  *)
(***************************************************************************)
Tests == {"magic", "length", "version", "cmp_a", "cmp_b", "cmp_a # cmp_b", "d1 # d2",
          "cfi", "r1", "r2", "r1 # r2", "r", "token", "r0"}

Words == CfiExpected \cup {"none", "marks", "ORACLE_MARK", "ORACLE_HALT", "PASS", "FAIL", "0", "1"}

Units ==
  [op : {"if"}, arg : Tests, len : Nat]
  \cup [op : {"verdict"}, arg : ValidVerdicts]
  \cup [op : {"ormark"}, arg : Marks]
  \cup [op : {"let"}, arg : [var : {"r1", "r2", "cfi", "r"}, value : {"PASS", "FAIL", {}}]]
  \cup [op : {"copy"}, arg : [var : {"r", "token"}, from : {"r0", "r"}]]
  \cup [op : {"hash"}, arg : {"d1", "d2"}]
  \cup [op : {"compare"}, arg : [cmp : {"cmp_a", "cmp_b"}, digest : {"d1", "d2"}]]
  \cup [op : {"cfi", "build", "load", "image_version", "mmio", "spin", "call",
              "ret", "trap"}, arg : Words]

(***************************************************************************)
(* A piece of text whose bodies end inside it; one that cannot be left at  *)
(* its end; one with a call at a place.                                    *)
(***************************************************************************)
Enclosed(s) ==
  /\ s \in Seq(Units)
  /\ \A i \in 1..Len(s) : s[i].op = "if" => i + s[i].len <= Len(s)

Closed(s) ==
  /\ s \in Seq(Units) /\ Len(s) > 0 /\ s[Len(s)].op = "trap"
  /\ \A i \in 1..Len(s) : s[i].op = "if" => i + s[i].len < Len(s)

CallsAt(s, i) == s \in Seq(Units) /\ i \in 1..Len(s) /\ s[i].op = "call"

LEMMA UnitFacts ==
  ASSUME NEW u \in Units
  PROVE  /\ u.op = "if" => u.len \in Nat
         /\ u.op = "verdict" => u.arg \in ValidVerdicts
         /\ u.op = "ormark" => u.arg \in Marks
         /\ u.op \in {"let", "copy"} => u.arg.var # "reg"
         /\ u.op = "hash" => u.arg # "reg"
         /\ u.op = "compare" => u.arg.cmp # "reg"
  BY DEF Units

(***************************************************************************)
(* How the predicates pass to a concatenation.                             *)
(***************************************************************************)
LEMMA Joined ==
  ASSUME NEW s \in Seq(Units), NEW t \in Seq(Units)
  PROVE  /\ s \o t \in Seq(Units) /\ Len(s \o t) = Len(s) + Len(t)
         /\ Len(s) \in Nat /\ Len(t) \in Nat
         /\ \A i \in 1..Len(s) : (s \o t)[i] = s[i]
         /\ \A i \in 1..Len(t) : (s \o t)[Len(s) + i] = t[i]
         /\ \A i \in 1..(Len(s) + Len(t)) :
              i \in 1..Len(s) \/ (i - Len(s) \in 1..Len(t) /\ (s \o t)[i] = t[i - Len(s)])
<1>1. /\ s \o t \in Seq(Units) /\ Len(s \o t) = Len(s) + Len(t)
      /\ Len(s) \in Nat /\ Len(t) \in Nat
  OBVIOUS
<1>2. \A i \in 1..Len(s) : (s \o t)[i] = s[i]
  OBVIOUS
<1>3. ASSUME NEW i \in 1..(Len(s) + Len(t))
      PROVE  i \in 1..Len(s) \/ (i - Len(s) \in 1..Len(t) /\ (s \o t)[i] = t[i - Len(s)])
  OBVIOUS
<1>4. ASSUME NEW i \in 1..Len(t) PROVE (s \o t)[Len(s) + i] = t[i]
  <2>1. Len(s) + i \in 1..(Len(s) + Len(t)) /\ Len(s) + i - Len(s) = i
        /\ Len(s) + i \notin 1..Len(s)
    BY <1>1
  <2> QED BY <1>3, <2>1
<1> QED BY <1>1, <1>2, <1>3, <1>4

LEMMA Enclosing ==
  ASSUME NEW s, Enclosed(s), NEW t, Enclosed(t)
  PROVE  Enclosed(s \o t)
<1>1. s \in Seq(Units) /\ t \in Seq(Units)
  BY DEF Enclosed
<1>2. ASSUME NEW i \in 1..Len(s \o t), (s \o t)[i].op = "if"
      PROVE  i + (s \o t)[i].len <= Len(s \o t)
  <2>1. CASE i \in 1..Len(s)
    <3>1. (s \o t)[i] = s[i] /\ i + s[i].len <= Len(s) /\ s[i].len \in Nat
      BY <1>1, <1>2, <2>1, Joined, UnitFacts DEF Enclosed
    <3> QED BY <1>1, <3>1, Joined
  <2>2. CASE i \notin 1..Len(s)
    <3>1. i - Len(s) \in 1..Len(t) /\ (s \o t)[i] = t[i - Len(s)]
      BY <1>1, <2>2, Joined
    <3>2. t[i - Len(s)].len \in Nat /\ i - Len(s) + t[i - Len(s)].len <= Len(t)
      BY <1>1, <1>2, <3>1, UnitFacts DEF Enclosed
    <3> QED BY <1>1, <3>1, <3>2, Joined
  <2> QED BY <2>1, <2>2
<1> QED BY <1>1, <1>2, Joined DEF Enclosed

LEMMA Closing ==
  ASSUME NEW s, Enclosed(s), NEW t, Closed(t)
  PROVE  Closed(s \o t)
<1>1. s \in Seq(Units) /\ t \in Seq(Units) /\ Len(s) \in Nat /\ Len(t) \in Nat /\ Len(t) > 0
  BY DEF Enclosed, Closed
<1>2. ASSUME NEW i \in 1..Len(s \o t), (s \o t)[i].op = "if"
      PROVE  i + (s \o t)[i].len < Len(s \o t)
  <2>1. CASE i \in 1..Len(s)
    <3>1. (s \o t)[i] = s[i] /\ i + s[i].len <= Len(s) /\ s[i].len \in Nat
      BY <1>1, <1>2, <2>1, Joined, UnitFacts DEF Enclosed
    <3> QED BY <1>1, <3>1, Joined
  <2>2. CASE i \notin 1..Len(s)
    <3>1. i - Len(s) \in 1..Len(t) /\ (s \o t)[i] = t[i - Len(s)]
      BY <1>1, <2>2, Joined
    <3>2. t[i - Len(s)].len \in Nat /\ i - Len(s) + t[i - Len(s)].len < Len(t)
      BY <1>1, <1>2, <3>1, UnitFacts DEF Closed
    <3> QED BY <1>1, <3>1, <3>2, Joined
  <2> QED BY <2>1, <2>2
<1>3. (s \o t)[Len(s \o t)] = t[Len(t)]
  BY <1>1, Joined
<1> QED BY <1>1, <1>2, <1>3, Joined DEF Closed

LEMMA Calling ==
  ASSUME NEW s, NEW t \in Seq(Units)
  PROVE  /\ \A i : CallsAt(s, i) => CallsAt(s \o t, i)
         /\ \A i : CallsAt(t, i) /\ s \in Seq(Units) => CallsAt(s \o t, Len(s) + i)
<1>1. ASSUME NEW i, CallsAt(s, i) PROVE CallsAt(s \o t, i)
  <2>1. s \in Seq(Units) /\ i \in 1..Len(s) /\ s[i].op = "call"
    BY <1>1 DEF CallsAt
  <2> QED BY <2>1, Joined DEF CallsAt
<1>2. ASSUME NEW i, CallsAt(t, i), s \in Seq(Units) PROVE CallsAt(s \o t, Len(s) + i)
  <2>1. i \in 1..Len(t) /\ t[i].op = "call"
    BY <1>2 DEF CallsAt
  <2>2. (s \o t)[Len(s) + i] = t[i] /\ Len(s) + i \in 1..Len(s \o t) /\ s \o t \in Seq(Units)
    BY <1>2, <2>1, Joined
  <2> QED BY <2>1, <2>2 DEF CallsAt
<1> QED BY <1>1, <1>2

(***************************************************************************)
(* Single units and an `if` around a body.                                 *)
(***************************************************************************)
LEMMA OneUnit ==
  ASSUME NEW u \in Units, u.op # "if"
  PROVE  /\ Enclosed(<<u>>) /\ <<u>> \in Seq(Units) /\ Len(<<u>>) = 1
         /\ u.op = "trap" => Closed(<<u>>)
         /\ u.op = "call" => CallsAt(<<u>>, 1)
  BY DEF Enclosed, Closed, CallsAt

LEMMA Body ==
  ASSUME NEW test \in Tests, NEW body, Enclosed(body)
  PROVE  Enclosed(If(test, body))
<1> DEFINE u == [op |-> "if", arg |-> test, len |-> Len(body)]
<1>1. body \in Seq(Units) /\ Len(body) \in Nat
  BY DEF Enclosed
<1>2. u \in Units /\ u.op = "if" /\ u.len = Len(body)
  BY <1>1 DEF Units
<1>3. If(test, body) = <<u>> \o body
  BY DEF If
<1> HIDE DEF u
<1>4. <<u>> \in Seq(Units) /\ Len(<<u>>) = 1 /\ <<u>>[1] = u
  BY <1>2
<1>5. /\ If(test, body) \in Seq(Units) /\ Len(If(test, body)) = 1 + Len(body)
      /\ If(test, body)[1] = u
      /\ \A i \in 1..(1 + Len(body)) :
           i = 1 \/ (i - 1 \in 1..Len(body) /\ If(test, body)[i] = body[i - 1])
  <2>1. 1 \in 1..1
    OBVIOUS
  <2> QED BY <1>1, <1>3, <1>4, <2>1, Joined
<1>6. ASSUME NEW i \in 1..Len(If(test, body)), If(test, body)[i].op = "if"
      PROVE  i + If(test, body)[i].len <= Len(If(test, body))
  <2>1. CASE i = 1
    BY <1>1, <1>2, <1>5, <2>1
  <2>2. CASE i # 1
    <3>1. i - 1 \in 1..Len(body) /\ If(test, body)[i] = body[i - 1]
      BY <1>5, <2>2
    <3>2. body[i - 1].len \in Nat /\ i - 1 + body[i - 1].len <= Len(body)
      BY <1>1, <1>6, <3>1, UnitFacts DEF Enclosed
    <3> QED BY <1>1, <1>5, <3>1, <3>2
  <2> QED BY <2>1, <2>2
<1> QED BY <1>5, <1>6 DEF Enclosed

(***************************************************************************)
(* The pieces of the two programs.                                         *)
(***************************************************************************)
LEMMA Pieces ==
  /\ \A op \in {"cfi", "build", "load", "image_version", "mmio", "spin", "call", "ret"},
        a \in Words : Enclosed(U(op, a))
  /\ \A v \in ValidVerdicts : Enclosed(U("verdict", v))
  /\ \A m \in Marks : Enclosed(U("ormark", m))
  /\ \A x \in {"r1", "r2", "cfi", "r"}, v \in {"PASS", "FAIL", {}} : Enclosed(Let(x, v))
  /\ \A x \in {"r", "token"}, y \in {"r0", "r"} : Enclosed(Copy(x, y))
  /\ \A d \in {"d1", "d2"} : Enclosed(U("hash", d))
  /\ \A c \in {"cmp_a", "cmp_b"}, d \in {"d1", "d2"} :
        Enclosed(U("compare", [cmp |-> c, digest |-> d]))
<1>1. ASSUME NEW op, NEW a, [op |-> op, arg |-> a] \in Units, op # "if"
      PROVE  Enclosed(U(op, a))
  BY <1>1, OneUnit DEF U
<1>2. \A op \in {"cfi", "build", "load", "image_version", "mmio", "spin", "call", "ret"},
        a \in Words : [op |-> op, arg |-> a] \in Units /\ op # "if"
  BY DEF Units
<1>3. /\ \A v \in ValidVerdicts : [op |-> "verdict", arg |-> v] \in Units
      /\ \A m \in Marks : [op |-> "ormark", arg |-> m] \in Units
      /\ \A d \in {"d1", "d2"} : [op |-> "hash", arg |-> d] \in Units
  BY DEF Units
<1>4. /\ \A x \in {"r1", "r2", "cfi", "r"}, v \in {"PASS", "FAIL", {}} :
           [op |-> "let", arg |-> [var |-> x, value |-> v]] \in Units
      /\ \A x \in {"r", "token"}, y \in {"r0", "r"} :
           [op |-> "copy", arg |-> [var |-> x, from |-> y]] \in Units
      /\ \A c \in {"cmp_a", "cmp_b"}, d \in {"d1", "d2"} :
           [op |-> "compare", arg |-> [cmp |-> c, digest |-> d]] \in Units
  BY DEF Units
<1>5. \A op \in {"cfi", "build", "load", "image_version", "mmio", "spin", "call", "ret"},
        a \in Words : Enclosed(U(op, a))
  BY <1>1, <1>2
<1>6. /\ \A v \in ValidVerdicts : Enclosed(U("verdict", v))
      /\ \A m \in Marks : Enclosed(U("ormark", m))
      /\ \A d \in {"d1", "d2"} : Enclosed(U("hash", d))
  BY <1>1, <1>3
<1>7. /\ \A x \in {"r1", "r2", "cfi", "r"}, v \in {"PASS", "FAIL", {}} : Enclosed(Let(x, v))
      /\ \A x \in {"r", "token"}, y \in {"r0", "r"} : Enclosed(Copy(x, y))
      /\ \A c \in {"cmp_a", "cmp_b"}, d \in {"d1", "d2"} :
           Enclosed(U("compare", [cmp |-> c, digest |-> d]))
  BY <1>1, <1>4 DEF Let, Copy
<1> QED BY <1>5, <1>6, <1>7

-----------------------------------------------------------------------------
LEMMA Phrases ==
  /\ \A m \in Marks : Enclosed(OracleMark(m))
  /\ \A v \in ValidVerdicts : Enclosed(OracleHalt(v))
  /\ \A t \in Tests : /\ Enclosed(Reject(t)) /\ Enclosed(Fail(t))
                       /\ Enclosed(FailTwice(t)) /\ Enclosed(FailBaseline(t))
  /\ \A d \in {"d1", "d2"}, c \in {"cmp_a", "cmp_b"} : Enclosed(HashAndCompare(d, c))
<1>1. ASSUME NEW m \in Marks PROVE Enclosed(OracleMark(m))
  <2>1. /\ Enclosed(U("load", "marks")) /\ Enclosed(U("ormark", m))
        /\ Enclosed(U("mmio", "ORACLE_MARK"))
    BY Pieces DEF Words, CfiExpected
  <2> QED BY <2>1, Enclosing DEF OracleMark
<1>2. ASSUME NEW v \in ValidVerdicts PROVE Enclosed(OracleHalt(v))
  <2>1. /\ Enclosed(U("verdict", v)) /\ Enclosed(U("mmio", "ORACLE_HALT"))
        /\ Enclosed(U("spin", "none"))
    BY Pieces DEF Words, CfiExpected
  <2> QED BY <2>1, Enclosing DEF OracleHalt
<1>3. ASSUME NEW t \in Tests
      PROVE  /\ Enclosed(Reject(t)) /\ Enclosed(Fail(t))
             /\ Enclosed(FailTwice(t)) /\ Enclosed(FailBaseline(t))
  <2>1. Enclosed(OracleHalt("BOOT_REJECT"))
    BY <1>2 DEF ValidVerdicts
  <2>2. Enclosed(U("ret", "FAIL")) /\ Enclosed(U("ret", "0"))
    BY Pieces DEF Words, CfiExpected
  <2>3. Enclosed(Reject(t)) /\ Enclosed(Fail(t)) /\ Enclosed(FailBaseline(t))
    BY <2>1, <2>2, Body DEF Reject, Fail, FailBaseline
  <2> QED BY <2>3, Enclosing DEF FailTwice
<1>4. ASSUME NEW d \in {"d1", "d2"}, NEW c \in {"cmp_a", "cmp_b"}
      PROVE  Enclosed(HashAndCompare(d, c))
  <2>1. /\ Enclosed(U("build", "none")) /\ Enclosed(U("hash", d))
        /\ Enclosed(U("compare", [cmp |-> c, digest |-> d]))
    BY Pieces DEF Words, CfiExpected
  <2> QED BY <2>1, Enclosing DEF HashAndCompare
<1> QED BY <1>1, <1>2, <1>3, <1>4

LEMMA Trap ==
  /\ Closed(U("trap", "none")) /\ U("trap", "none") \in Seq(Units)
  /\ \A s : Enclosed(s) => s \in Seq(Units)
  /\ \A s : Closed(s) => s \in Seq(Units)
<1>1. [op |-> "trap", arg |-> "none"] \in Units /\ [op |-> "trap", arg |-> "none"].op = "trap"
  BY DEF Units, Words
<1>2. Closed(U("trap", "none")) /\ U("trap", "none") \in Seq(Units)
  BY <1>1, OneUnit DEF U
<1> QED BY <1>2 DEF Enclosed, Closed

(***************************************************************************)
(* verify() and main() of both builds.                                     *)
(***************************************************************************)
LEMMA VerifyEnds == Closed(VerifyHardened) /\ Closed(VerifyBaseline)
<1>m. {"BOOT_ENTER", "HDR_OK", "VERSION_OK", "SIG_OK"} \subseteq Marks
  BY DEF Marks
<1>1. /\ Enclosed(OracleMark("BOOT_ENTER")) /\ Enclosed(OracleMark("HDR_OK"))
      /\ Enclosed(OracleMark("VERSION_OK")) /\ Enclosed(OracleMark("SIG_OK"))
  BY <1>m, Phrases
<1>2. /\ Enclosed(FailTwice("magic")) /\ Enclosed(FailTwice("length"))
      /\ Enclosed(FailTwice("version"))
      /\ Enclosed(FailBaseline("magic")) /\ Enclosed(FailBaseline("length"))
      /\ Enclosed(FailBaseline("version")) /\ Enclosed(FailBaseline("cmp_a"))
      /\ Enclosed(HashAndCompare("d1", "cmp_a")) /\ Enclosed(HashAndCompare("d2", "cmp_b"))
  BY Phrases DEF Tests
<1>3. /\ Enclosed(Let("r1", "FAIL")) /\ Enclosed(Let("r2", "FAIL"))
      /\ Enclosed(Let("cfi", {}))
      /\ Enclosed(Let("r1", "PASS")) /\ Enclosed(Let("r2", "PASS"))
  BY Pieces DEF Words, CfiExpected
<1>4. /\ Enclosed(U("cfi", "ENTER")) /\ Enclosed(U("cfi", "HDR"))
      /\ Enclosed(U("cfi", "VERSION")) /\ Enclosed(U("cfi", "SIG"))
      /\ Enclosed(U("ret", "PASS")) /\ Enclosed(U("ret", "1"))
  BY Pieces DEF Words, CfiExpected
<1>5. Enclosed(CompareChecks)
  <2>1. /\ Enclosed(Fail("cmp_a")) /\ Enclosed(Fail("cmp_b"))
        /\ Enclosed(Fail("cmp_a # cmp_b")) /\ Enclosed(Fail("d1 # d2"))
    BY Phrases DEF Tests
  <2> QED BY <2>1, Enclosing DEF CompareChecks
<1>6. Enclosed(PostCondition)
  <2>1. /\ Enclosed(Fail("cfi")) /\ Enclosed(Fail("r1")) /\ Enclosed(Fail("r2"))
        /\ Enclosed(Fail("r1 # r2")) /\ Enclosed(Fail("version")) /\ Enclosed(Fail("magic"))
    BY Phrases DEF Tests
  <2> QED BY <2>1, Enclosing DEF PostCondition
<1> QED BY <1>1, <1>2, <1>3, <1>4, <1>5, <1>6, Trap, Enclosing, Closing
        DEF VerifyHardened, VerifyBaseline

LEMMA MainEnds ==
  /\ Closed(MainHardened) /\ CallsAt(MainHardened, 2)
  /\ Closed(MainBaseline) /\ CallsAt(MainBaseline, 1)
<1>v. "BOOT_ACCEPT" \in ValidVerdicts /\ "BOOT_REJECT" \in ValidVerdicts /\ "JUMP_TAKEN" \in Marks
  BY DEF ValidVerdicts, Marks
<1>1. /\ Enclosed(OracleHalt("BOOT_ACCEPT")) /\ Enclosed(OracleHalt("BOOT_REJECT"))
      /\ Enclosed(OracleMark("JUMP_TAKEN"))
  BY <1>v, Phrases
<1>2. /\ Enclosed(U("image_version", "none")) /\ Enclosed(U("call", "none"))
      /\ Enclosed(Let("r", "FAIL")) /\ Enclosed(Copy("r", "r0")) /\ Enclosed(Copy("token", "r"))
  BY Pieces DEF Words, CfiExpected
<1>3. Enclosed(JumpToApp)
  BY <1>1, <1>2, Enclosing DEF JumpToApp
<1>4. /\ Enclosed(Reject("token")) /\ Enclosed(Reject("magic"))
      /\ Enclosed(Reject("version")) /\ Enclosed(Reject("r"))
  BY Phrases DEF Tests
<1>5. Enclosed(JumpToAppChecks)
  BY <1>4, Enclosing DEF JumpToAppChecks
<1>6. Enclosed(If("r0", JumpToApp))
  BY <1>3, Body DEF Tests
<1>7. CallsAt(U("call", "none"), 1)
  <2>1. [op |-> "call", arg |-> "none"] \in Units
    BY DEF Units, Words
  <2> QED BY <2>1, OneUnit DEF U
<1>8. CallsAt(Let("r", "FAIL") \o U("call", "none"), 2)
  <2>1. \A s, t, k : CallsAt(t, 1) /\ s \in Seq(Units) /\ k = Len(s) + 1 => CallsAt(s \o t, k)
    BY Calling DEF CallsAt
  <2>2. Len(Let("r", "FAIL")) = 1
    BY DEF Let, U
  <2>3. \A n : n = 1 => 2 = n + 1
    OBVIOUS
  <2>4. 2 = Len(Let("r", "FAIL")) + 1
    BY <2>2, <2>3
  <2>5. Let("r", "FAIL") \in Seq(Units)
    BY <1>2, Trap
  <2> QED BY <1>7, <2>1, <2>4, <2>5
<1>9. Closed(MainHardened) /\ Closed(MainBaseline)
  BY <1>1, <1>2, <1>3, <1>4, <1>5, <1>6, Trap, Enclosing, Closing
     DEF MainHardened, MainBaseline
<1>10. CallsAt(MainHardened, 2)
  BY <1>1, <1>2, <1>3, <1>4, <1>5, <1>8, Trap, Calling DEF MainHardened
<1>11. CallsAt(MainBaseline, 1)
  BY <1>1, <1>6, <1>7, Trap, Calling DEF MainBaseline
<1> QED BY <1>9, <1>10, <1>11

(***************************************************************************)
(* Both programs end in a trap, their bodies end before it, and the place  *)
(* where verify() returns to is in them.                                   *)
(***************************************************************************)
LEMMA TextFacts ==
  ASSUME NEW b \in Builds
  PROVE  /\ Closed(Text[b]) /\ Start(b) \in 1..Len(Text[b])
         /\ ReturnTo[b] \in 1..Len(Text[b])
<1> DEFINE main == IF b = "hardened" THEN MainHardened ELSE MainBaseline
           v == Verify(b)
<1>1. Closed(v) /\ Closed(main) /\ v \in Seq(Units) /\ main \in Seq(Units)
  BY VerifyEnds, MainEnds, Trap DEF Verify
<1>2. PICK k \in 1..2 : CallsAt(main, k)
  BY MainEnds
<1>3. Text[b] = v \o main
  BY DEF Text
<1> HIDE DEF main, v
<1>4. Enclosed(v)
  <2>1. \A i \in 1..Len(v) : v[i].op = "if" => v[i].len \in Nat /\ i + v[i].len < Len(v)
    BY <1>1, UnitFacts DEF Closed
  <2> QED BY <1>1, <2>1 DEF Enclosed
<1>5. Closed(Text[b])
  BY <1>1, <1>3, <1>4, Closing
<1>6. CallsAt(Text[b], Len(v) + k)
  BY <1>1, <1>2, <1>3, Calling
<1>7. /\ Len(v) \in Nat /\ Len(main) \in Nat /\ Len(main) > 0
      /\ Len(Text[b]) = Len(v) + Len(main)
  BY <1>1, <1>3, Joined DEF Closed
<1>8. Start(b) = Len(v) + 1
  BY DEF Start, v
<1>9. \E i \in Start(b)..Len(Text[b]) : i > 1 /\ Text[b][i - 1].op = "call"
  <2> DEFINE i == Len(v) + k + 1
  <2>1. i - 1 = Len(v) + k /\ i > 1 /\ i >= Start(b) /\ i \in Int
    BY <1>2, <1>7, <1>8
  <2>2. Text[b][i - 1].op = "call" /\ i - 1 \in 1..Len(Text[b])
    BY <1>6, <2>1 DEF CallsAt
  <2>3. Text[b][Len(Text[b])].op = "trap"
    BY <1>5 DEF Closed
  <2>4. i - 1 # Len(Text[b])
    BY <2>2, <2>3
  <2>5. i \in Start(b)..Len(Text[b])
    BY <1>7, <1>8, <2>1, <2>2, <2>4
  <2> QED BY <2>1, <2>2, <2>5
<1>10. ReturnTo[b] \in Start(b)..Len(Text[b])
  BY <1>9 DEF ReturnTo
<1> QED BY <1>5, <1>7, <1>8, <1>10

-----------------------------------------------------------------------------
(***************************************************************************)
(* What stands at the pc, and where control may go from it.                *)
(***************************************************************************)
LEMMA AtPc ==
  ASSUME TypeOK
  PROVE  /\ Build \in Builds /\ DOMAIN Program = 1..Len(Program)
         /\ Len(Program) \in Nat /\ pc \in Nat /\ unit \in Units
         /\ 1 \in DOMAIN Program /\ ReturnTo[Build] \in DOMAIN Program
         /\ unit.op # "trap" => pc + 1 \in DOMAIN Program
         /\ unit.op = "if" => pc + 1 + unit.len \in DOMAIN Program
<1>1. Build \in Builds
  BY CampaignAssumption DEF TypeOK, Build
<1>2. Closed(Program) /\ ReturnTo[Build] \in 1..Len(Program)
  BY <1>1, TextFacts DEF Program
<1> DEFINE p == Program
<1>3. /\ p \in Seq(Units) /\ Len(p) > 0 /\ p[Len(p)].op = "trap"
      /\ \A i \in 1..Len(p) : p[i].op = "if" => i + p[i].len < Len(p)
  BY <1>2 DEF Closed
<1>4. pc \in DOMAIN p /\ unit = p[pc]
  BY DEF TypeOK, unit
<1> HIDE DEF p
<1>5. DOMAIN p = 1..Len(p) /\ Len(p) \in Nat
  BY <1>3
<1>6. pc \in 1..Len(p) /\ unit \in Units
  BY <1>3, <1>4, <1>5
<1>7. unit.op # "trap" => pc + 1 \in 1..Len(p)
  <2> SUFFICES ASSUME unit.op # "trap" PROVE pc + 1 \in 1..Len(p)
    OBVIOUS
  <2>1. pc # Len(p)
    BY <1>3, <1>4
  <2>2. \A n \in Nat : \A i \in 1..n : i # n => i + 1 \in 1..n
    OBVIOUS
  <2>3. Len(p) \in Nat
    BY <1>5
  <2> QED BY <1>6, <2>1, <2>2, <2>3
<1>8. unit.op = "if" => pc + 1 + unit.len \in 1..Len(p)
  <2> SUFFICES ASSUME unit.op = "if" PROVE pc + 1 + unit.len \in 1..Len(p)
    OBVIOUS
  <2>1. unit.len \in Nat /\ pc + unit.len < Len(p)
    BY <1>3, <1>4, <1>6, UnitFacts
  <2> QED BY <1>5, <1>6, <2>1
<1>9. 1 \in 1..Len(p)
  BY <1>3, <1>5
<1> QED BY <1>1, <1>2, <1>5, <1>6, <1>7, <1>8, <1>9 DEF p

(***************************************************************************)
(* The register that oracle_mark() ORs into holds marks the type allows.   *)
(***************************************************************************)
MarkSets == SUBSET (Marks \cup {"undefined"})

RegInv == "reg" \in DOMAIN mem /\ mem.reg \in MarkSets

OracleType == [valid : {TRUE}, verdict : ValidVerdicts, marks : MarkSets,
               image_version : Nat]

(***************************************************************************)
(* What a unit may write into g_oracle or a local keeps the types.         *)
(***************************************************************************)
LEMMA OracleStores ==
  ASSUME NEW o \in OracleType
  PROVE  /\ \A m \in MarkSets : [o EXCEPT !.marks = m] \in OracleType
         /\ \A v \in ValidVerdicts : [o EXCEPT !.verdict = v] \in OracleType
         /\ \A n \in Nat : [o EXCEPT !.image_version = n] \in OracleType
  BY DEF OracleType

LEMMA LocalStore ==
  ASSUME RegInv, NEW x, x # "reg", NEW v, Store(x, v)
  PROVE  RegInv'
  BY DEF RegInv, Store

LEMMA RegStore ==
  ASSUME RegInv, NEW v \in MarkSets, Store("reg", v)
  PROVE  RegInv'
  BY DEF RegInv, Store

(***************************************************************************)
(* Every unit, and every skip, leaves control inside the program.          *)
(***************************************************************************)
LEMMA TypeStep ==
  ASSUME TypeOK, RegInv, [Next]_vars
  PROVE  TypeOK' /\ RegInv'
<1>1. CASE UNCHANGED vars
  BY <1>1 DEF TypeOK, RegInv, Program, Build, vars
<1>2. SUFFICES ASSUME Next PROVE TypeOK' /\ RegInv'
  BY <1>1
<1>3. /\ campaign' = campaign /\ Program' = Program
      /\ campaign \in Campaigns /\ campaign.faults \in Nat
      /\ vec.version \in Nat /\ oracle \in OracleType /\ faults \in 0..campaign.faults
  BY <1>2, CampaignAssumption
     DEF Next, Execute, Skip, TypeOK, Program, Build, vec, OracleType, MarkSets
<1>0. blind' \in BOOLEAN
  BY <1>2 DEF Next, Execute, Skip, TypeOK
<1>4. SUFFICES /\ pc' \in DOMAIN Program /\ oracle' \in OracleType
               /\ halted' \in {"no", "ORACLE", "BUDGET", "CPUFAULT"}
               /\ faults' \in 0..campaign.faults /\ RegInv'
  BY <1>0, <1>3 DEF TypeOK, OracleType, MarkSets
<1>5. CASE \E k \in campaign.widths : Skip(k)
  <2>1. PICK k \in campaign.widths : Skip(k)
    BY <1>5
  <2>2. pc' \in DOMAIN Program
    BY <2>1 DEF Skip, Skipped, Goto
  <2>3. faults' \in 0..campaign.faults
    BY <1>3, <2>1 DEF Skip
  <2> QED BY <1>3, <2>1, <2>2, <2>3 DEF Skip, TypeOK, RegInv
<1>6. CASE Execute
  <2>1. /\ faults' = faults /\ halted \in {"no", "ORACLE", "BUDGET", "CPUFAULT"}
    BY <1>6 DEF Execute, TypeOK
  <2>2. /\ unit \in Units /\ pc \in DOMAIN Program
        /\ 1 \in DOMAIN Program /\ ReturnTo[Build] \in DOMAIN Program
        /\ unit.op # "trap" => pc + 1 \in DOMAIN Program
        /\ unit.op = "if" => pc + 1 + unit.len \in DOMAIN Program
    BY AtPc DEF TypeOK
  <2>3. CASE If_
    BY <1>3, <2>1, <2>2, <2>3 DEF If_, Goto, RegInv
  <2>4. CASE Local
    <3>1. unit.op # "trap"
      BY <2>4 DEF Local
    <3>2. RegInv'
      <4>1. CASE unit.op = "load"
        <5>1. Store("reg", oracle.marks) /\ oracle.marks \in MarkSets
          BY <1>3, <2>4, <4>1 DEF Local, OracleType
        <5> QED BY <5>1, RegStore
      <4>2. CASE unit.op # "load"
        <5>1. PICK x, v : x # "reg" /\ Store(x, v)
          BY <2>2, <2>4, <4>2, UnitFacts DEF Local
        <5> QED BY <5>1, LocalStore
      <4> QED BY <4>1, <4>2
    <3> QED BY <1>3, <2>1, <2>2, <2>4, <3>1, <3>2 DEF Local, Goto
  <2>5. CASE Call
    BY <1>3, <2>1, <2>2, <2>5 DEF Call, Goto, RegInv
  <2>6. CASE Ret
    <3>1. RegInv'
      BY <2>6, LocalStore DEF Ret
    <3> QED BY <1>3, <2>1, <2>2, <2>6, <3>1 DEF Ret, Goto
  <2>7. CASE Mark
    <3>1. mem.reg \cup {unit.arg} \in MarkSets
      BY <2>2, <2>7, UnitFacts DEF Mark, RegInv, MarkSets
    <3>2. oracle' \in OracleType
      BY <1>3, <2>7, <3>1, OracleStores DEF Mark
    <3>3. RegInv'
      <4>1. StaleMarks \subseteq MarkSets
        BY DEF StaleMarks, MarkSets, Marks
      <4> QED BY <2>7, <4>1, RegStore DEF Mark
    <3>4. unit.op = "ormark" /\ pc' = pc + 1 /\ halted' = halted
      BY <2>7 DEF Mark, Goto
    <3> QED BY <1>3, <2>1, <2>2, <3>2, <3>3, <3>4
  <2>8. CASE Verdict
    <3>1. oracle' \in OracleType
      BY <1>3, <2>2, <2>8, UnitFacts, OracleStores DEF Verdict
    <3>2. unit.op = "verdict" /\ pc' = pc + 1 /\ halted' = halted /\ mem' = mem
      BY <2>8 DEF Verdict, Goto
    <3> QED BY <1>3, <2>1, <2>2, <3>1, <3>2 DEF RegInv
  <2>9. CASE ImageVersion
    <3>1. oracle' \in OracleType
      BY <1>3, <2>9, OracleStores DEF ImageVersion
    <3>2. unit.op = "image_version" /\ pc' = pc + 1 /\ halted' = halted /\ mem' = mem
      BY <2>9 DEF ImageVersion, Goto
    <3> QED BY <1>3, <2>1, <2>2, <3>1, <3>2 DEF RegInv
  <2>10. CASE Stop
    BY <1>3, <2>1, <2>2, <2>10 DEF Stop, Goto, RegInv
  <2> QED BY <1>6, <2>3, <2>4, <2>5, <2>6, <2>7, <2>8, <2>9, <2>10 DEF Execute
<1> QED BY <1>2, <1>5, <1>6 DEF Next

(***************************************************************************)
(* However many units the skips remove, in either build, control stays in  *)
(* the program: no body reaches past the trap that ends it, verify()       *)
(* returns behind its call, and what the units store keeps its type.       *)
(***************************************************************************)
THEOREM TypeCorrect == Spec => []TypeOK
<1>1. Init => TypeOK /\ RegInv
  <2> SUFFICES ASSUME Init PROVE TypeOK /\ RegInv
    OBVIOUS
  <2>1. /\ campaign \in Campaigns /\ Build \in Builds /\ campaign.faults \in Nat
    BY CampaignAssumption DEF Init, Build
  <2>2. pc \in DOMAIN Program
    <3>1. Program \in Seq(Units) /\ Start(Build) \in 1..Len(Program)
      BY <2>1, TextFacts, Trap DEF Program
    <3>2. DOMAIN Program = 1..Len(Program)
      <4> HIDE DEF Program
      <4> QED BY <3>1
    <3> QED BY <3>1, <3>2 DEF Init
  <2>3. RegInv
    BY DEF Init, Unset, StaleMarks, RegInv, MarkSets, Marks
  <2>4. oracle \in [valid : {TRUE}, verdict : ValidVerdicts,
                    marks : SUBSET (Marks \cup {"undefined"}), image_version : Nat]
    BY DEF Init, ValidVerdicts
  <2>5. /\ halted \in {"no", "ORACLE", "BUDGET", "CPUFAULT"}
        /\ faults \in 0..campaign.faults /\ blind \in BOOLEAN
    <3>1. faults = 0 /\ halted = "no" /\ blind = FALSE
      BY DEF Init
    <3>2. faults \in 0..campaign.faults
      <4> HIDE DEF Init
      <4> QED BY <2>1, <3>1
    <3> QED BY <3>1, <3>2, Zenon
  <2> HIDE DEF Init
  <2> QED BY <2>1, <2>2, <2>3, <2>4, <2>5 DEF TypeOK
<1>2. (TypeOK /\ RegInv) /\ [Next]_vars => (TypeOK /\ RegInv)'
  BY TypeStep
<1> QED BY <1>1, <1>2, PTL DEF Spec

(***************************************************************************)
(* However many instructions are skipped, in whatever image: a bypass is   *)
(* reported only if the firmware executed its ACCEPT store, and of an      *)
(* image that deserved it only if its version is not in the oracle; and an *)
(* acceptance of a bad image is hidden by a later verdict or by damaged    *)
(* marks only (classify_boot()).                                           *)
(***************************************************************************)
THEOREM ReportedBypasses == Spec => []BypassIsAcceptance
<1>1. Init => VerdictInv
  BY DEF Init, VerdictInv
<1>2. TypeOK /\ VerdictInv => BypassIsAcceptance
  <2> SUFFICES ASSUME TypeOK, VerdictInv
               PROVE  /\ Outcome = "SEC_BYPASS" =>
                           accepted /\ (vec.should_accept => oracle.image_version # vec.version)
                      /\ ~vec.should_accept /\ Outcome # "SEC_BYPASS" =>
                           oracle.verdict # "BOOT_ACCEPT" \/ "undefined" \in oracle.marks
    BY DEF BypassIsAcceptance
  <2>1. ASSUME NEW o, NEW halt PROVE FailureMode(o, halt) # "SEC_BYPASS"
    BY DEF FailureMode, NoFailure
  <2>2. ~OracleTrustworthy(oracle) => Outcome = "CRASH"
    BY DEF Outcome, ClassifyBoot
  <2>3. OracleTrustworthy(oracle) => (Outcome = "SEC_BYPASS" <=> Bypass(oracle, vec))
    BY <2>1 DEF Outcome, ClassifyBoot
  <2>4. "undefined" \notin oracle.marks => OracleTrustworthy(oracle)
    BY DEF TypeOK, OracleTrustworthy
  <2>5. /\ vec.version \in Nat /\ vec.min_version \in Nat
        /\ vec.should_accept => vec.version >= vec.min_version
    BY CampaignAssumption, VectorAssumption DEF TypeOK, vec
  <2>6. vec.should_accept /\ Bypass(oracle, vec) => oracle.image_version # vec.version
    BY <2>5 DEF Bypass
  <2> QED BY <2>2, <2>3, <2>4, <2>6 DEF Bypass, VerdictInv
<1> QED BY <1>1, <1>2, VerdictStep, TypeCorrect, PTL DEF Spec

-----------------------------------------------------------------------------
(***************************************************************************)
(* What the unit at the pc does, by its kind.                              *)
(***************************************************************************)
Tested(fires, n) ==
  /\ pc' = IF fires THEN pc + 1 ELSE pc + 1 + n
  /\ UNCHANGED <<mem, oracle, halted, accepted>>

Stores(x, v) ==
  /\ pc' = pc + 1 /\ mem' = [mem EXCEPT ![x] = v]
  /\ UNCHANGED <<oracle, halted, accepted>>

Returns(v) ==
  /\ pc' = ReturnTo[Build] /\ mem' = [mem EXCEPT !["r0"] = v]
  /\ UNCHANGED <<oracle, halted, accepted>>

MarksAs(m) ==
  /\ pc' = pc + 1 /\ oracle' = [oracle EXCEPT !.marks = mem.reg \cup {m}]
  /\ \E s \in StaleMarks : mem' = [mem EXCEPT !["reg"] = s]
  /\ UNCHANGED <<halted, accepted>>

Decides(v) ==
  /\ pc' = pc + 1 /\ oracle' = [oracle EXCEPT !.verdict = v]
  /\ accepted' = (accepted \/ v = "BOOT_ACCEPT")
  /\ UNCHANGED <<mem, halted>>

Ends(why) ==
  /\ pc' = pc /\ halted' = why /\ UNCHANGED <<mem, oracle, accepted>>

Digest == IF mem.scratch = "image" THEN "digest" ELSE "other"

Publishes ==
  /\ pc' = pc + 1 /\ oracle' = [oracle EXCEPT !.image_version = vec.version]
  /\ UNCHANGED <<mem, halted, accepted>>

Moves(i) == pc' = i /\ UNCHANGED <<mem, oracle, halted, accepted>>

(***************************************************************************)
(* The kind of the unit decides which action executes it.                  *)
(***************************************************************************)
LEMMA UnitEffect ==
  ASSUME Execute
  PROVE  /\ unit.op = "if" => Tested(Holds(unit.arg), unit.len)
         /\ unit.op = "let" => Stores(unit.arg.var, unit.arg.value)
         /\ unit.op = "copy" => Stores(unit.arg.var, mem[unit.arg.from])
         /\ unit.op = "cfi" => Stores("cfi", Toggle(mem.cfi, unit.arg))
         /\ unit.op = "build" => Stores("scratch", "image")
         /\ unit.op = "hash" => Stores(unit.arg, Digest)
         /\ unit.op = "compare" => Stores(unit.arg.cmp, Compare(mem[unit.arg.digest]))
         /\ unit.op = "load" => Stores("reg", oracle.marks)
         /\ unit.op = "call" => Moves(1)
         /\ unit.op = "ret" => Returns(unit.arg)
         /\ unit.op = "ormark" => MarksAs(unit.arg)
         /\ unit.op = "verdict" => Decides(unit.arg)
         /\ unit.op = "image_version" => Publishes
         /\ unit.op = "mmio" /\ unit.arg = "ORACLE_HALT" => Ends("ORACLE")
         /\ unit.op = "mmio" /\ unit.arg = "ORACLE_MARK" => Moves(pc + 1)
         /\ unit.op = "spin" => Ends("BUDGET")
         /\ unit.op = "trap" => Ends("CPUFAULT")
<1> USE DEF Execute, Running, Goto, Store
<1>1. unit.op = "if" => If_
  BY DEF Local, Call, Ret, Mark, Verdict, ImageVersion, Stop
<1>2. unit.op \in {"let", "copy", "cfi", "build", "hash", "compare", "load"} => Local
  BY DEF If_, Call, Ret, Mark, Verdict, ImageVersion, Stop
<1>3. unit.op = "call" => Call
  BY DEF If_, Local, Ret, Mark, Verdict, ImageVersion, Stop
<1>4. unit.op = "ret" => Ret
  BY DEF If_, Local, Call, Mark, Verdict, ImageVersion, Stop
<1>5. unit.op = "ormark" => Mark
  BY DEF If_, Local, Call, Ret, Verdict, ImageVersion, Stop
<1>6. unit.op = "verdict" => Verdict
  BY DEF If_, Local, Call, Ret, Mark, ImageVersion, Stop
<1>7. unit.op \in {"mmio", "spin", "trap"} => Stop
  BY DEF If_, Local, Call, Ret, Mark, Verdict, ImageVersion
<1>8. /\ unit.op = "let" => Stores(unit.arg.var, unit.arg.value)
      /\ unit.op = "copy" => Stores(unit.arg.var, mem[unit.arg.from])
      /\ unit.op = "cfi" => Stores("cfi", Toggle(mem.cfi, unit.arg))
      /\ unit.op = "build" => Stores("scratch", "image")
  BY <1>2 DEF Local, Stores
<1>9. /\ unit.op = "hash" => Stores(unit.arg, Digest)
      /\ unit.op = "compare" => Stores(unit.arg.cmp, Compare(mem[unit.arg.digest]))
      /\ unit.op = "load" => Stores("reg", oracle.marks)
  BY <1>2 DEF Local, Stores, Digest
<1>10. unit.op = "if" => Tested(Holds(unit.arg), unit.len)
  BY <1>1 DEF If_, Tested
<1>11. /\ unit.op = "call" => Moves(1)
       /\ unit.op = "ret" => Returns(unit.arg)
       /\ unit.op = "ormark" => MarksAs(unit.arg)
       /\ unit.op = "verdict" => Decides(unit.arg)
  BY <1>3, <1>4, <1>5, <1>6 DEF Call, Ret, Mark, Verdict, Moves, Returns, MarksAs, Decides
<1>12. /\ unit.op = "mmio" /\ unit.arg = "ORACLE_HALT" => Ends("ORACLE")
       /\ unit.op = "mmio" /\ unit.arg = "ORACLE_MARK" => Moves(pc + 1)
       /\ unit.op = "spin" => Ends("BUDGET")
       /\ unit.op = "trap" => Ends("CPUFAULT")
  BY <1>7 DEF Stop, Ends, Moves
<1>13. unit.op = "image_version" => Publishes
  <2>1. unit.op = "image_version" => ImageVersion
    BY DEF If_, Local, Call, Ret, Mark, Verdict, Stop
  <2> QED BY <2>1 DEF ImageVersion, Publishes
<1> QED BY <1>8, <1>9, <1>10, <1>11, <1>12, <1>13

(***************************************************************************)
(* A unit as the listings below write it, and the i-th unit of each        *)
(* program.                                                                *)
(***************************************************************************)
Op(op, arg) == [op |-> op, arg |-> arg]
Check(test, n) == [op |-> "if", arg |-> test, len |-> n]
Hardened(i) == Text["hardened"][i]
Baseline(i) == Text["baseline"][i]

LEMMA Fields ==
  /\ \A o, a : Op(o, a).op = o /\ Op(o, a).arg = a
  /\ \A t, n : Check(t, n).op = "if" /\ Check(t, n).arg = t /\ Check(t, n).len = n
  /\ \A x, v : [var |-> x, value |-> v].var = x /\ [var |-> x, value |-> v].value = v
  /\ \A x, y : [var |-> x, from |-> y].var = x /\ [var |-> x, from |-> y].from = y
  /\ \A x, y : [cmp |-> x, digest |-> y].cmp = x /\ [cmp |-> x, digest |-> y].digest = y
  BY DEF Op, Check

(***************************************************************************)
(* Which condition each `if` branches on.                                  *)
(***************************************************************************)
LEMMA CheckEffect ==
  ASSUME Execute, NEW n
  PROVE  /\ unit = Check("magic", n) => Tested(~vec.magic, n)
         /\ unit = Check("length", n) => Tested(~vec.length, n)
         /\ unit = Check("version", n) => Tested(vec.version < vec.min_version, n)
         /\ unit = Check("cmp_a", n) => Tested(mem.cmp_a # 0, n)
         /\ unit = Check("cmp_b", n) => Tested(mem.cmp_b # 0, n)
         /\ unit = Check("cmp_a # cmp_b", n) => Tested(mem.cmp_a # mem.cmp_b, n)
         /\ unit = Check("d1 # d2", n) => Tested(mem.d1 # mem.d2, n)
         /\ unit = Check("cfi", n) => Tested(mem.cfi # CfiExpected, n)
         /\ unit = Check("r1", n) => Tested(mem.r1 # "PASS", n)
         /\ unit = Check("r2", n) => Tested(mem.r2 # "PASS", n)
         /\ unit = Check("r1 # r2", n) => Tested(mem.r1 # mem.r2, n)
         /\ unit = Check("r", n) => Tested(mem.r # "PASS", n)
         /\ unit = Check("token", n) => Tested(mem.token # "PASS", n)
         /\ unit = Check("r0", n) => Tested(mem.r0 # "0", n)
<1>1. \A t : unit = Check(t, n) => If_ /\ unit.arg = t /\ unit.len = n
  BY DEF Check, Execute, Local, Call, Ret, Mark, Verdict, ImageVersion, Stop
<1>2. ASSUME unit = Check("magic", n) PROVE Tested(~vec.magic, n)
  <2>1. Holds("magic") <=> ~vec.magic
    BY DEF Holds
  <2>2. pc' = IF Holds("magic") THEN pc + 1 ELSE pc + 1 + n
    BY <1>1, <1>2 DEF If_, Goto
  <2> QED BY <1>1, <1>2, <2>1, <2>2 DEF If_, Tested
<1>3. ASSUME unit = Check("length", n) PROVE Tested(~vec.length, n)
  <2>1. Holds("length") <=> ~vec.length
    BY DEF Holds
  <2>2. pc' = IF Holds("length") THEN pc + 1 ELSE pc + 1 + n
    BY <1>1, <1>3 DEF If_, Goto
  <2> QED BY <1>1, <1>3, <2>1, <2>2 DEF If_, Tested
<1>4. ASSUME unit = Check("version", n) PROVE Tested(vec.version < vec.min_version, n)
  <2>1. Holds("version") <=> vec.version < vec.min_version
    BY DEF Holds
  <2>2. pc' = IF Holds("version") THEN pc + 1 ELSE pc + 1 + n
    BY <1>1, <1>4 DEF If_, Goto
  <2> QED BY <1>1, <1>4, <2>1, <2>2 DEF If_, Tested
<1>5. ASSUME unit = Check("cmp_a", n) PROVE Tested(mem.cmp_a # 0, n)
  <2>1. Holds("cmp_a") <=> mem.cmp_a # 0
    BY DEF Holds
  <2>2. pc' = IF Holds("cmp_a") THEN pc + 1 ELSE pc + 1 + n
    BY <1>1, <1>5 DEF If_, Goto
  <2> QED BY <1>1, <1>5, <2>1, <2>2 DEF If_, Tested
<1>6. ASSUME unit = Check("cmp_b", n) PROVE Tested(mem.cmp_b # 0, n)
  <2>1. Holds("cmp_b") <=> mem.cmp_b # 0
    BY DEF Holds
  <2>2. pc' = IF Holds("cmp_b") THEN pc + 1 ELSE pc + 1 + n
    BY <1>1, <1>6 DEF If_, Goto
  <2> QED BY <1>1, <1>6, <2>1, <2>2 DEF If_, Tested
<1>7. ASSUME unit = Check("cmp_a # cmp_b", n) PROVE Tested(mem.cmp_a # mem.cmp_b, n)
  <2>1. Holds("cmp_a # cmp_b") <=> mem.cmp_a # mem.cmp_b
    BY DEF Holds
  <2>2. pc' = IF Holds("cmp_a # cmp_b") THEN pc + 1 ELSE pc + 1 + n
    BY <1>1, <1>7 DEF If_, Goto
  <2> QED BY <1>1, <1>7, <2>1, <2>2 DEF If_, Tested
<1>8. ASSUME unit = Check("d1 # d2", n) PROVE Tested(mem.d1 # mem.d2, n)
  <2>1. Holds("d1 # d2") <=> mem.d1 # mem.d2
    BY DEF Holds
  <2>2. pc' = IF Holds("d1 # d2") THEN pc + 1 ELSE pc + 1 + n
    BY <1>1, <1>8 DEF If_, Goto
  <2> QED BY <1>1, <1>8, <2>1, <2>2 DEF If_, Tested
<1>9. ASSUME unit = Check("cfi", n) PROVE Tested(mem.cfi # CfiExpected, n)
  <2>1. Holds("cfi") <=> mem.cfi # CfiExpected
    BY DEF Holds
  <2>2. pc' = IF Holds("cfi") THEN pc + 1 ELSE pc + 1 + n
    BY <1>1, <1>9 DEF If_, Goto
  <2> QED BY <1>1, <1>9, <2>1, <2>2 DEF If_, Tested
<1>10. ASSUME unit = Check("r1", n) PROVE Tested(mem.r1 # "PASS", n)
  <2>1. Holds("r1") <=> mem.r1 # "PASS"
    BY DEF Holds
  <2>2. pc' = IF Holds("r1") THEN pc + 1 ELSE pc + 1 + n
    BY <1>1, <1>10 DEF If_, Goto
  <2> QED BY <1>1, <1>10, <2>1, <2>2 DEF If_, Tested
<1>11. ASSUME unit = Check("r2", n) PROVE Tested(mem.r2 # "PASS", n)
  <2>1. Holds("r2") <=> mem.r2 # "PASS"
    BY DEF Holds
  <2>2. pc' = IF Holds("r2") THEN pc + 1 ELSE pc + 1 + n
    BY <1>1, <1>11 DEF If_, Goto
  <2> QED BY <1>1, <1>11, <2>1, <2>2 DEF If_, Tested
<1>12. ASSUME unit = Check("r1 # r2", n) PROVE Tested(mem.r1 # mem.r2, n)
  <2>1. Holds("r1 # r2") <=> mem.r1 # mem.r2
    BY DEF Holds
  <2>2. pc' = IF Holds("r1 # r2") THEN pc + 1 ELSE pc + 1 + n
    BY <1>1, <1>12 DEF If_, Goto
  <2> QED BY <1>1, <1>12, <2>1, <2>2 DEF If_, Tested
<1>13. ASSUME unit = Check("r", n) PROVE Tested(mem.r # "PASS", n)
  <2>1. Holds("r") <=> mem.r # "PASS"
    BY DEF Holds
  <2>2. pc' = IF Holds("r") THEN pc + 1 ELSE pc + 1 + n
    BY <1>1, <1>13 DEF If_, Goto
  <2> QED BY <1>1, <1>13, <2>1, <2>2 DEF If_, Tested
<1>14. ASSUME unit = Check("token", n) PROVE Tested(mem.token # "PASS", n)
  <2>1. Holds("token") <=> mem.token # "PASS"
    BY DEF Holds
  <2>2. pc' = IF Holds("token") THEN pc + 1 ELSE pc + 1 + n
    BY <1>1, <1>14 DEF If_, Goto
  <2> QED BY <1>1, <1>14, <2>1, <2>2 DEF If_, Tested
<1>15. ASSUME unit = Check("r0", n) PROVE Tested(mem.r0 # "0", n)
  <2>1. Holds("r0") <=> mem.r0 # "0"
    BY DEF Holds
  <2>2. pc' = IF Holds("r0") THEN pc + 1 ELSE pc + 1 + n
    BY <1>1, <1>15 DEF If_, Goto
  <2> QED BY <1>1, <1>15, <2>1, <2>2 DEF If_, Tested
<1> QED BY <1>2, <1>3, <1>4, <1>5, <1>6, <1>7, <1>8, <1>9, <1>10, <1>11, <1>12, <1>13, <1>14,
           <1>15

-----------------------------------------------------------------------------
(***************************************************************************)
(* The listing of the hardened program: verify() at 1..61, main() at       *)
(* 62..108, in memory order.                                               *)
(***************************************************************************)
LEMMA HardenedListing ==
  /\ Hardened(1) = Op("let", [var |-> "r1", value |-> "FAIL"])
  /\ Hardened(2) = Op("let", [var |-> "r2", value |-> "FAIL"])
  /\ Hardened(3) = Op("let", [var |-> "cfi", value |-> {}])
  /\ \A i \in {4, 17, 25, 43, 99} : Hardened(i) = Op("load", "marks")
  /\ Hardened(5) = Op("ormark", "BOOT_ENTER")
  /\ \A i \in {6, 19, 27, 45, 101} : Hardened(i) = Op("mmio", "ORACLE_MARK")
  /\ Hardened(7) = Op("cfi", "ENTER")
  /\ \A i \in {8, 10, 58} : Hardened(i) = Check("magic", 1)
  /\ \A i \in {9, 11, 13, 15, 21, 23, 35, 37,
               39, 41, 49, 51, 53, 55, 57, 59} :
       Hardened(i) = Op("ret", "FAIL")
  /\ \A i \in {12, 14} : Hardened(i) = Check("length", 1)
  /\ Hardened(16) = Op("cfi", "HDR")
  /\ Hardened(18) = Op("ormark", "HDR_OK")
  /\ \A i \in {20, 22, 56} : Hardened(i) = Check("version", 1)
  /\ Hardened(24) = Op("cfi", "VERSION")
  /\ Hardened(26) = Op("ormark", "VERSION_OK")
  /\ \A i \in {28, 31} : Hardened(i) = Op("build", "none")
  /\ Hardened(29) = Op("hash", "d1")
  /\ Hardened(30) = Op("compare", [cmp |-> "cmp_a", digest |-> "d1"])
  /\ Hardened(32) = Op("hash", "d2")
  /\ Hardened(33) = Op("compare", [cmp |-> "cmp_b", digest |-> "d2"])
  /\ Hardened(34) = Check("cmp_a", 1)
  /\ Hardened(36) = Check("cmp_b", 1)
  /\ Hardened(38) = Check("cmp_a # cmp_b", 1)
  /\ Hardened(40) = Check("d1 # d2", 1)
  /\ Hardened(42) = Op("cfi", "SIG")
  /\ Hardened(44) = Op("ormark", "SIG_OK")
  /\ Hardened(46) = Op("let", [var |-> "r1", value |-> "PASS"])
  /\ Hardened(47) = Op("let", [var |-> "r2", value |-> "PASS"])
  /\ Hardened(48) = Check("cfi", 1)
  /\ Hardened(50) = Check("r1", 1)
  /\ Hardened(52) = Check("r2", 1)
  /\ Hardened(54) = Check("r1 # r2", 1)
  /\ Hardened(60) = Op("ret", "PASS")
  /\ \A i \in {61, 108} : Hardened(i) = Op("trap", "none")
  /\ Hardened(62) = Op("let", [var |-> "r", value |-> "FAIL"])
  /\ Hardened(63) = Op("call", "none")
  /\ Hardened(64) = Op("copy", [var |-> "r", from |-> "r0"])
  /\ \A i \in {65, 69, 73} : Hardened(i) = Check("r", 3)
  /\ \A i \in {66, 70, 74, 79, 83, 87, 91, 95, 105} : Hardened(i) = Op("verdict", "BOOT_REJECT")
  /\ \A i \in {67, 71, 75, 80, 84, 88, 92, 96, 103, 106} : Hardened(i) = Op("mmio", "ORACLE_HALT")
  /\ \A i \in {68, 72, 76, 81, 85, 89, 93, 97, 104, 107} : Hardened(i) = Op("spin", "none")
  /\ Hardened(77) = Op("copy", [var |-> "token", from |-> "r"])
  /\ \A i \in {78, 82, 86} : Hardened(i) = Check("token", 3)
  /\ Hardened(90) = Check("magic", 3)
  /\ Hardened(94) = Check("version", 3)
  /\ Hardened(98) = Op("image_version", "none")
  /\ Hardened(100) = Op("ormark", "JUMP_TAKEN")
  /\ Hardened(102) = Op("verdict", "BOOT_ACCEPT")
<1> USE DEF Hardened, Text, Verify, Builds, Op, Check, MainHardened,
           VerifyHardened, OracleMark, FailTwice, PostCondition, CompareChecks, Fail, Let,
           HashAndCompare, If, U, Copy, Reject, OracleHalt, JumpToApp, JumpToAppChecks
<1>1. Hardened(1) = Op("let", [var |-> "r1", value |-> "FAIL"])
  OBVIOUS
<1>2. Hardened(2) = Op("let", [var |-> "r2", value |-> "FAIL"])
  OBVIOUS
<1>3. Hardened(3) = Op("let", [var |-> "cfi", value |-> {}])
  OBVIOUS
<1>4. \A i \in {4, 17, 25, 43, 99} : Hardened(i) = Op("load", "marks")
  <2>1. /\ Hardened(4) = Op("load", "marks") /\ Hardened(17) = Op("load", "marks")
        /\ Hardened(25) = Op("load", "marks") /\ Hardened(43) = Op("load", "marks")
        /\ Hardened(99) = Op("load", "marks")
    OBVIOUS
  <2> HIDE DEF Hardened, Op, Check
  <2> QED BY <2>1
<1>5. Hardened(5) = Op("ormark", "BOOT_ENTER")
  OBVIOUS
<1>6. \A i \in {6, 19, 27, 45, 101} : Hardened(i) = Op("mmio", "ORACLE_MARK")
  <2>1. /\ Hardened(6) = Op("mmio", "ORACLE_MARK")
        /\ Hardened(19) = Op("mmio", "ORACLE_MARK")
        /\ Hardened(27) = Op("mmio", "ORACLE_MARK")
        /\ Hardened(45) = Op("mmio", "ORACLE_MARK")
        /\ Hardened(101) = Op("mmio", "ORACLE_MARK")
    OBVIOUS
  <2> HIDE DEF Hardened, Op, Check
  <2> QED BY <2>1
<1>7. Hardened(7) = Op("cfi", "ENTER")
  OBVIOUS
<1>8. \A i \in {8, 10, 58} : Hardened(i) = Check("magic", 1)
  <2>1. /\ Hardened(8) = Check("magic", 1) /\ Hardened(10) = Check("magic", 1)
        /\ Hardened(58) = Check("magic", 1)
    OBVIOUS
  <2> HIDE DEF Hardened, Op, Check
  <2> QED BY <2>1
<1>9. \A i \in {9, 11, 13, 15, 21, 23, 35, 37,
                39, 41, 49, 51, 53, 55, 57, 59} :
        Hardened(i) = Op("ret", "FAIL")
  <2>1. /\ Hardened(9) = Op("ret", "FAIL") /\ Hardened(11) = Op("ret", "FAIL")
        /\ Hardened(13) = Op("ret", "FAIL") /\ Hardened(15) = Op("ret", "FAIL")
        /\ Hardened(21) = Op("ret", "FAIL") /\ Hardened(23) = Op("ret", "FAIL")
        /\ Hardened(35) = Op("ret", "FAIL") /\ Hardened(37) = Op("ret", "FAIL")
        /\ Hardened(39) = Op("ret", "FAIL") /\ Hardened(41) = Op("ret", "FAIL")
        /\ Hardened(49) = Op("ret", "FAIL") /\ Hardened(51) = Op("ret", "FAIL")
        /\ Hardened(53) = Op("ret", "FAIL") /\ Hardened(55) = Op("ret", "FAIL")
        /\ Hardened(57) = Op("ret", "FAIL") /\ Hardened(59) = Op("ret", "FAIL")
    OBVIOUS
  <2> HIDE DEF Hardened, Op, Check
  <2> QED BY <2>1
<1>10. \A i \in {12, 14} : Hardened(i) = Check("length", 1)
  <2>1. /\ Hardened(12) = Check("length", 1) /\ Hardened(14) = Check("length", 1)
    OBVIOUS
  <2> HIDE DEF Hardened, Op, Check
  <2> QED BY <2>1
<1>11. Hardened(16) = Op("cfi", "HDR")
  OBVIOUS
<1>12. Hardened(18) = Op("ormark", "HDR_OK")
  OBVIOUS
<1>13. \A i \in {20, 22, 56} : Hardened(i) = Check("version", 1)
  <2>1. /\ Hardened(20) = Check("version", 1) /\ Hardened(22) = Check("version", 1)
        /\ Hardened(56) = Check("version", 1)
    OBVIOUS
  <2> HIDE DEF Hardened, Op, Check
  <2> QED BY <2>1
<1>14. Hardened(24) = Op("cfi", "VERSION")
  OBVIOUS
<1>15. Hardened(26) = Op("ormark", "VERSION_OK")
  OBVIOUS
<1>16. \A i \in {28, 31} : Hardened(i) = Op("build", "none")
  <2>1. /\ Hardened(28) = Op("build", "none") /\ Hardened(31) = Op("build", "none")
    OBVIOUS
  <2> HIDE DEF Hardened, Op, Check
  <2> QED BY <2>1
<1>17. Hardened(29) = Op("hash", "d1")
  OBVIOUS
<1>18. Hardened(30) = Op("compare", [cmp |-> "cmp_a", digest |-> "d1"])
  OBVIOUS
<1>19. Hardened(32) = Op("hash", "d2")
  OBVIOUS
<1>20. Hardened(33) = Op("compare", [cmp |-> "cmp_b", digest |-> "d2"])
  OBVIOUS
<1>21. Hardened(34) = Check("cmp_a", 1)
  OBVIOUS
<1>22. Hardened(36) = Check("cmp_b", 1)
  OBVIOUS
<1>23. Hardened(38) = Check("cmp_a # cmp_b", 1)
  OBVIOUS
<1>24. Hardened(40) = Check("d1 # d2", 1)
  OBVIOUS
<1>25. Hardened(42) = Op("cfi", "SIG")
  OBVIOUS
<1>26. Hardened(44) = Op("ormark", "SIG_OK")
  OBVIOUS
<1>27. Hardened(46) = Op("let", [var |-> "r1", value |-> "PASS"])
  OBVIOUS
<1>28. Hardened(47) = Op("let", [var |-> "r2", value |-> "PASS"])
  OBVIOUS
<1>29. Hardened(48) = Check("cfi", 1)
  OBVIOUS
<1>30. Hardened(50) = Check("r1", 1)
  OBVIOUS
<1>31. Hardened(52) = Check("r2", 1)
  OBVIOUS
<1>32. Hardened(54) = Check("r1 # r2", 1)
  OBVIOUS
<1>33. Hardened(60) = Op("ret", "PASS")
  OBVIOUS
<1>34. \A i \in {61, 108} : Hardened(i) = Op("trap", "none")
  <2>1. /\ Hardened(61) = Op("trap", "none") /\ Hardened(108) = Op("trap", "none")
    OBVIOUS
  <2> HIDE DEF Hardened, Op, Check
  <2> QED BY <2>1
<1>35. Hardened(62) = Op("let", [var |-> "r", value |-> "FAIL"])
  OBVIOUS
<1>36. Hardened(63) = Op("call", "none")
  OBVIOUS
<1>37. Hardened(64) = Op("copy", [var |-> "r", from |-> "r0"])
  OBVIOUS
<1>38. \A i \in {65, 69, 73} : Hardened(i) = Check("r", 3)
  <2>1. /\ Hardened(65) = Check("r", 3) /\ Hardened(69) = Check("r", 3)
        /\ Hardened(73) = Check("r", 3)
    OBVIOUS
  <2> HIDE DEF Hardened, Op, Check
  <2> QED BY <2>1
<1>39. \A i \in {66, 70, 74, 79, 83, 87, 91, 95, 105} : Hardened(i) = Op("verdict", "BOOT_REJECT")
  <2>1. /\ Hardened(66) = Op("verdict", "BOOT_REJECT")
        /\ Hardened(70) = Op("verdict", "BOOT_REJECT")
        /\ Hardened(74) = Op("verdict", "BOOT_REJECT")
        /\ Hardened(79) = Op("verdict", "BOOT_REJECT")
        /\ Hardened(83) = Op("verdict", "BOOT_REJECT")
        /\ Hardened(87) = Op("verdict", "BOOT_REJECT")
        /\ Hardened(91) = Op("verdict", "BOOT_REJECT")
        /\ Hardened(95) = Op("verdict", "BOOT_REJECT")
        /\ Hardened(105) = Op("verdict", "BOOT_REJECT")
    OBVIOUS
  <2> HIDE DEF Hardened, Op, Check
  <2> QED BY <2>1
<1>40. \A i \in {67, 71, 75, 80, 84, 88, 92, 96, 103, 106} : Hardened(i) = Op("mmio", "ORACLE_HALT")
  <2>1. /\ Hardened(67) = Op("mmio", "ORACLE_HALT")
        /\ Hardened(71) = Op("mmio", "ORACLE_HALT")
        /\ Hardened(75) = Op("mmio", "ORACLE_HALT")
        /\ Hardened(80) = Op("mmio", "ORACLE_HALT")
        /\ Hardened(84) = Op("mmio", "ORACLE_HALT")
        /\ Hardened(88) = Op("mmio", "ORACLE_HALT")
        /\ Hardened(92) = Op("mmio", "ORACLE_HALT")
        /\ Hardened(96) = Op("mmio", "ORACLE_HALT")
        /\ Hardened(103) = Op("mmio", "ORACLE_HALT")
        /\ Hardened(106) = Op("mmio", "ORACLE_HALT")
    OBVIOUS
  <2> HIDE DEF Hardened, Op, Check
  <2> QED BY <2>1
<1>41. \A i \in {68, 72, 76, 81, 85, 89, 93, 97, 104, 107} : Hardened(i) = Op("spin", "none")
  <2>1. /\ Hardened(68) = Op("spin", "none") /\ Hardened(72) = Op("spin", "none")
        /\ Hardened(76) = Op("spin", "none") /\ Hardened(81) = Op("spin", "none")
        /\ Hardened(85) = Op("spin", "none") /\ Hardened(89) = Op("spin", "none")
        /\ Hardened(93) = Op("spin", "none") /\ Hardened(97) = Op("spin", "none")
        /\ Hardened(104) = Op("spin", "none") /\ Hardened(107) = Op("spin", "none")
    OBVIOUS
  <2> HIDE DEF Hardened, Op, Check
  <2> QED BY <2>1
<1>42. Hardened(77) = Op("copy", [var |-> "token", from |-> "r"])
  OBVIOUS
<1>43. \A i \in {78, 82, 86} : Hardened(i) = Check("token", 3)
  <2>1. /\ Hardened(78) = Check("token", 3) /\ Hardened(82) = Check("token", 3)
        /\ Hardened(86) = Check("token", 3)
    OBVIOUS
  <2> HIDE DEF Hardened, Op, Check
  <2> QED BY <2>1
<1>44. Hardened(90) = Check("magic", 3)
  OBVIOUS
<1>45. Hardened(94) = Check("version", 3)
  OBVIOUS
<1>46. Hardened(98) = Op("image_version", "none")
  OBVIOUS
<1>47. Hardened(100) = Op("ormark", "JUMP_TAKEN")
  OBVIOUS
<1>48. Hardened(102) = Op("verdict", "BOOT_ACCEPT")
  OBVIOUS
<1> HIDE DEF Hardened, Text, Verify, Builds, Op, Check, MainHardened,
           VerifyHardened, OracleMark, FailTwice, PostCondition, CompareChecks, Fail, Let,
           HashAndCompare, If, U, Copy, Reject, OracleHalt, JumpToApp, JumpToAppChecks
<1> QED BY <1>1, <1>2, <1>3, <1>4, <1>5, <1>6, <1>7, <1>8, <1>9, <1>10, <1>11, <1>12, <1>13,
           <1>14, <1>15, <1>16, <1>17, <1>18, <1>19, <1>20, <1>21, <1>22, <1>23, <1>24, <1>25,
           <1>26, <1>27, <1>28, <1>29, <1>30, <1>31, <1>32, <1>33, <1>34, <1>35, <1>36, <1>37,
           <1>38, <1>39, <1>40, <1>41, <1>42, <1>43, <1>44, <1>45, <1>46, <1>47, <1>48

(***************************************************************************)
(* What executing the hardened program does at each pc.                    *)
(***************************************************************************)
LEMMA HardenedStep ==
  ASSUME Build = "hardened", Execute
  PROVE  /\ pc = 1 => Stores("r1", "FAIL")
         /\ pc = 2 => Stores("r2", "FAIL")
         /\ pc = 3 => Stores("cfi", {})
         /\ pc \in {4, 17, 25, 43, 99} => Stores("reg", oracle.marks)
         /\ pc = 5 => MarksAs("BOOT_ENTER")
         /\ pc \in {6, 19, 27, 45, 101} => Moves(pc + 1)
         /\ pc = 7 => Stores("cfi", Toggle(mem.cfi, "ENTER"))
         /\ pc \in {8, 10, 58} => Tested(~vec.magic, 1)
         /\ pc \in {9, 11, 13, 15, 21, 23, 35, 37,
                     39, 41, 49, 51, 53, 55, 57, 59} => Returns("FAIL")
         /\ pc \in {12, 14} => Tested(~vec.length, 1)
         /\ pc = 16 => Stores("cfi", Toggle(mem.cfi, "HDR"))
         /\ pc = 18 => MarksAs("HDR_OK")
         /\ pc \in {20, 22, 56} => Tested(vec.version < vec.min_version, 1)
         /\ pc = 24 => Stores("cfi", Toggle(mem.cfi, "VERSION"))
         /\ pc = 26 => MarksAs("VERSION_OK")
         /\ pc \in {28, 31} => Stores("scratch", "image")
         /\ pc = 29 => Stores("d1", Digest)
         /\ pc = 30 => Stores("cmp_a", Compare(mem.d1))
         /\ pc = 32 => Stores("d2", Digest)
         /\ pc = 33 => Stores("cmp_b", Compare(mem.d2))
         /\ pc = 34 => Tested(mem.cmp_a # 0, 1)
         /\ pc = 36 => Tested(mem.cmp_b # 0, 1)
         /\ pc = 38 => Tested(mem.cmp_a # mem.cmp_b, 1)
         /\ pc = 40 => Tested(mem.d1 # mem.d2, 1)
         /\ pc = 42 => Stores("cfi", Toggle(mem.cfi, "SIG"))
         /\ pc = 44 => MarksAs("SIG_OK")
         /\ pc = 46 => Stores("r1", "PASS")
         /\ pc = 47 => Stores("r2", "PASS")
         /\ pc = 48 => Tested(mem.cfi # CfiExpected, 1)
         /\ pc = 50 => Tested(mem.r1 # "PASS", 1)
         /\ pc = 52 => Tested(mem.r2 # "PASS", 1)
         /\ pc = 54 => Tested(mem.r1 # mem.r2, 1)
         /\ pc = 60 => Returns("PASS")
         /\ pc \in {61, 108} => Ends("CPUFAULT")
         /\ pc = 62 => Stores("r", "FAIL")
         /\ pc = 63 => Moves(1)
         /\ pc = 64 => Stores("r", mem.r0)
         /\ pc \in {65, 69, 73} => Tested(mem.r # "PASS", 3)
         /\ pc \in {66, 70, 74, 79, 83, 87, 91, 95, 105} => Decides("BOOT_REJECT")
         /\ pc \in {67, 71, 75, 80, 84, 88, 92, 96, 103, 106} => Ends("ORACLE")
         /\ pc \in {68, 72, 76, 81, 85, 89, 93, 97, 104, 107} => Ends("BUDGET")
         /\ pc = 77 => Stores("token", mem.r)
         /\ pc \in {78, 82, 86} => Tested(mem.token # "PASS", 3)
         /\ pc = 90 => Tested(~vec.magic, 3)
         /\ pc = 94 => Tested(vec.version < vec.min_version, 3)
         /\ pc = 98 => Publishes
         /\ pc = 100 => MarksAs("JUMP_TAKEN")
         /\ pc = 102 => Decides("BOOT_ACCEPT")
<1>u. unit = Hardened(pc)
  BY DEF unit, Program, Hardened
<1>1. ASSUME pc = 1
      PROVE  Stores("r1", "FAIL")
  <2>1. unit = Op("let", [var |-> "r1", value |-> "FAIL"])
    BY <1>u, <1>1, HardenedListing
  <2> QED BY <2>1, UnitEffect, Fields
<1>2. ASSUME pc = 2
      PROVE  Stores("r2", "FAIL")
  <2>1. unit = Op("let", [var |-> "r2", value |-> "FAIL"])
    BY <1>u, <1>2, HardenedListing
  <2> QED BY <2>1, UnitEffect, Fields
<1>3. ASSUME pc = 3
      PROVE  Stores("cfi", {})
  <2>1. unit = Op("let", [var |-> "cfi", value |-> {}])
    BY <1>u, <1>3, HardenedListing
  <2>2. unit.op = "let" /\ unit.arg.var = "cfi" /\ unit.arg.value = {}
    BY <2>1 DEF Op
  <2> QED BY <2>1, <2>2, UnitEffect
<1>4. ASSUME pc \in {4, 17, 25, 43, 99}
      PROVE  Stores("reg", oracle.marks)
  <2>1. unit = Op("load", "marks")
    BY <1>u, <1>4, HardenedListing
  <2> QED BY <2>1, UnitEffect, Fields
<1>5. ASSUME pc = 5
      PROVE  MarksAs("BOOT_ENTER")
  <2>1. unit = Op("ormark", "BOOT_ENTER")
    BY <1>u, <1>5, HardenedListing
  <2> QED BY <2>1, UnitEffect, Fields
<1>6. ASSUME pc \in {6, 19, 27, 45, 101}
      PROVE  Moves(pc + 1)
  <2>1. unit = Op("mmio", "ORACLE_MARK")
    BY <1>u, <1>6, HardenedListing
  <2> QED BY <2>1, UnitEffect, Fields
<1>7. ASSUME pc = 7
      PROVE  Stores("cfi", Toggle(mem.cfi, "ENTER"))
  <2>1. unit = Op("cfi", "ENTER")
    BY <1>u, <1>7, HardenedListing
  <2> QED BY <2>1, UnitEffect, Fields
<1>8. ASSUME pc \in {8, 10, 58}
      PROVE  Tested(~vec.magic, 1)
  <2>1. unit = Check("magic", 1)
    BY <1>u, <1>8, HardenedListing
  <2> QED BY <2>1, CheckEffect
<1>9. ASSUME pc \in {9, 11, 13, 15, 21, 23, 35, 37,
                     39, 41, 49, 51, 53, 55, 57, 59}
      PROVE  Returns("FAIL")
  <2>1. unit = Op("ret", "FAIL")
    BY <1>u, <1>9, HardenedListing
  <2> QED BY <2>1, UnitEffect, Fields
<1>10. ASSUME pc \in {12, 14}
       PROVE  Tested(~vec.length, 1)
  <2>1. unit = Check("length", 1)
    BY <1>u, <1>10, HardenedListing
  <2> QED BY <2>1, CheckEffect
<1>11. ASSUME pc = 16
       PROVE  Stores("cfi", Toggle(mem.cfi, "HDR"))
  <2>1. unit = Op("cfi", "HDR")
    BY <1>u, <1>11, HardenedListing
  <2> QED BY <2>1, UnitEffect, Fields
<1>12. ASSUME pc = 18
       PROVE  MarksAs("HDR_OK")
  <2>1. unit = Op("ormark", "HDR_OK")
    BY <1>u, <1>12, HardenedListing
  <2> QED BY <2>1, UnitEffect, Fields
<1>13. ASSUME pc \in {20, 22, 56}
       PROVE  Tested(vec.version < vec.min_version, 1)
  <2>1. unit = Check("version", 1)
    BY <1>u, <1>13, HardenedListing
  <2> QED BY <2>1, CheckEffect
<1>14. ASSUME pc = 24
       PROVE  Stores("cfi", Toggle(mem.cfi, "VERSION"))
  <2>1. unit = Op("cfi", "VERSION")
    BY <1>u, <1>14, HardenedListing
  <2> QED BY <2>1, UnitEffect, Fields
<1>15. ASSUME pc = 26
       PROVE  MarksAs("VERSION_OK")
  <2>1. unit = Op("ormark", "VERSION_OK")
    BY <1>u, <1>15, HardenedListing
  <2> QED BY <2>1, UnitEffect, Fields
<1>16. ASSUME pc \in {28, 31}
       PROVE  Stores("scratch", "image")
  <2>1. unit = Op("build", "none")
    BY <1>u, <1>16, HardenedListing
  <2> QED BY <2>1, UnitEffect, Fields
<1>17. ASSUME pc = 29
       PROVE  Stores("d1", Digest)
  <2>1. unit = Op("hash", "d1")
    BY <1>u, <1>17, HardenedListing
  <2> QED BY <2>1, UnitEffect, Fields
<1>18. ASSUME pc = 30
       PROVE  Stores("cmp_a", Compare(mem.d1))
  <2>1. unit = Op("compare", [cmp |-> "cmp_a", digest |-> "d1"])
    BY <1>u, <1>18, HardenedListing
  <2> QED BY <2>1, UnitEffect, Fields
<1>19. ASSUME pc = 32
       PROVE  Stores("d2", Digest)
  <2>1. unit = Op("hash", "d2")
    BY <1>u, <1>19, HardenedListing
  <2> QED BY <2>1, UnitEffect, Fields
<1>20. ASSUME pc = 33
       PROVE  Stores("cmp_b", Compare(mem.d2))
  <2>1. unit = Op("compare", [cmp |-> "cmp_b", digest |-> "d2"])
    BY <1>u, <1>20, HardenedListing
  <2> QED BY <2>1, UnitEffect, Fields
<1>21. ASSUME pc = 34
       PROVE  Tested(mem.cmp_a # 0, 1)
  <2>1. unit = Check("cmp_a", 1)
    BY <1>u, <1>21, HardenedListing
  <2> QED BY <2>1, CheckEffect
<1>22. ASSUME pc = 36
       PROVE  Tested(mem.cmp_b # 0, 1)
  <2>1. unit = Check("cmp_b", 1)
    BY <1>u, <1>22, HardenedListing
  <2> QED BY <2>1, CheckEffect
<1>23. ASSUME pc = 38
       PROVE  Tested(mem.cmp_a # mem.cmp_b, 1)
  <2>1. unit = Check("cmp_a # cmp_b", 1)
    BY <1>u, <1>23, HardenedListing
  <2> QED BY <2>1, CheckEffect
<1>24. ASSUME pc = 40
       PROVE  Tested(mem.d1 # mem.d2, 1)
  <2>1. unit = Check("d1 # d2", 1)
    BY <1>u, <1>24, HardenedListing
  <2> QED BY <2>1, CheckEffect
<1>25. ASSUME pc = 42
       PROVE  Stores("cfi", Toggle(mem.cfi, "SIG"))
  <2>1. unit = Op("cfi", "SIG")
    BY <1>u, <1>25, HardenedListing
  <2> QED BY <2>1, UnitEffect, Fields
<1>26. ASSUME pc = 44
       PROVE  MarksAs("SIG_OK")
  <2>1. unit = Op("ormark", "SIG_OK")
    BY <1>u, <1>26, HardenedListing
  <2> QED BY <2>1, UnitEffect, Fields
<1>27. ASSUME pc = 46
       PROVE  Stores("r1", "PASS")
  <2>1. unit = Op("let", [var |-> "r1", value |-> "PASS"])
    BY <1>u, <1>27, HardenedListing
  <2> QED BY <2>1, UnitEffect, Fields
<1>28. ASSUME pc = 47
       PROVE  Stores("r2", "PASS")
  <2>1. unit = Op("let", [var |-> "r2", value |-> "PASS"])
    BY <1>u, <1>28, HardenedListing
  <2> QED BY <2>1, UnitEffect, Fields
<1>29. ASSUME pc = 48
       PROVE  Tested(mem.cfi # CfiExpected, 1)
  <2>1. unit = Check("cfi", 1)
    BY <1>u, <1>29, HardenedListing
  <2> QED BY <2>1, CheckEffect
<1>30. ASSUME pc = 50
       PROVE  Tested(mem.r1 # "PASS", 1)
  <2>1. unit = Check("r1", 1)
    BY <1>u, <1>30, HardenedListing
  <2> QED BY <2>1, CheckEffect
<1>31. ASSUME pc = 52
       PROVE  Tested(mem.r2 # "PASS", 1)
  <2>1. unit = Check("r2", 1)
    BY <1>u, <1>31, HardenedListing
  <2> QED BY <2>1, CheckEffect
<1>32. ASSUME pc = 54
       PROVE  Tested(mem.r1 # mem.r2, 1)
  <2>1. unit = Check("r1 # r2", 1)
    BY <1>u, <1>32, HardenedListing
  <2> QED BY <2>1, CheckEffect
<1>33. ASSUME pc = 60
       PROVE  Returns("PASS")
  <2>1. unit = Op("ret", "PASS")
    BY <1>u, <1>33, HardenedListing
  <2> QED BY <2>1, UnitEffect, Fields
<1>34. ASSUME pc \in {61, 108}
       PROVE  Ends("CPUFAULT")
  <2>1. unit = Op("trap", "none")
    BY <1>u, <1>34, HardenedListing
  <2> QED BY <2>1, UnitEffect, Fields
<1>35. ASSUME pc = 62
       PROVE  Stores("r", "FAIL")
  <2>1. unit = Op("let", [var |-> "r", value |-> "FAIL"])
    BY <1>u, <1>35, HardenedListing
  <2> QED BY <2>1, UnitEffect, Fields
<1>36. ASSUME pc = 63
       PROVE  Moves(1)
  <2>1. unit = Op("call", "none")
    BY <1>u, <1>36, HardenedListing
  <2> QED BY <2>1, UnitEffect, Fields
<1>37. ASSUME pc = 64
       PROVE  Stores("r", mem.r0)
  <2>1. unit = Op("copy", [var |-> "r", from |-> "r0"])
    BY <1>u, <1>37, HardenedListing
  <2> QED BY <2>1, UnitEffect, Fields
<1>38. ASSUME pc \in {65, 69, 73}
       PROVE  Tested(mem.r # "PASS", 3)
  <2>1. unit = Check("r", 3)
    BY <1>u, <1>38, HardenedListing
  <2> QED BY <2>1, CheckEffect
<1>39. ASSUME pc \in {66, 70, 74, 79, 83, 87, 91, 95, 105}
       PROVE  Decides("BOOT_REJECT")
  <2>1. unit = Op("verdict", "BOOT_REJECT")
    BY <1>u, <1>39, HardenedListing
  <2> QED BY <2>1, UnitEffect, Fields
<1>40. ASSUME pc \in {67, 71, 75, 80, 84, 88, 92, 96, 103, 106}
       PROVE  Ends("ORACLE")
  <2>1. unit = Op("mmio", "ORACLE_HALT")
    BY <1>u, <1>40, HardenedListing
  <2> QED BY <2>1, UnitEffect, Fields
<1>41. ASSUME pc \in {68, 72, 76, 81, 85, 89, 93, 97, 104, 107}
       PROVE  Ends("BUDGET")
  <2>1. unit = Op("spin", "none")
    BY <1>u, <1>41, HardenedListing
  <2> QED BY <2>1, UnitEffect, Fields
<1>42. ASSUME pc = 77
       PROVE  Stores("token", mem.r)
  <2>1. unit = Op("copy", [var |-> "token", from |-> "r"])
    BY <1>u, <1>42, HardenedListing
  <2> QED BY <2>1, UnitEffect, Fields
<1>43. ASSUME pc \in {78, 82, 86}
       PROVE  Tested(mem.token # "PASS", 3)
  <2>1. unit = Check("token", 3)
    BY <1>u, <1>43, HardenedListing
  <2> QED BY <2>1, CheckEffect
<1>44. ASSUME pc = 90
       PROVE  Tested(~vec.magic, 3)
  <2>1. unit = Check("magic", 3)
    BY <1>u, <1>44, HardenedListing
  <2> QED BY <2>1, CheckEffect
<1>45. ASSUME pc = 94
       PROVE  Tested(vec.version < vec.min_version, 3)
  <2>1. unit = Check("version", 3)
    BY <1>u, <1>45, HardenedListing
  <2> QED BY <2>1, CheckEffect
<1>46. ASSUME pc = 98
       PROVE  Publishes
  <2>1. unit = Op("image_version", "none")
    BY <1>u, <1>46, HardenedListing
  <2> QED BY <2>1, UnitEffect, Fields
<1>47. ASSUME pc = 100
       PROVE  MarksAs("JUMP_TAKEN")
  <2>1. unit = Op("ormark", "JUMP_TAKEN")
    BY <1>u, <1>47, HardenedListing
  <2> QED BY <2>1, UnitEffect, Fields
<1>48. ASSUME pc = 102
       PROVE  Decides("BOOT_ACCEPT")
  <2>1. unit = Op("verdict", "BOOT_ACCEPT")
    BY <1>u, <1>48, HardenedListing
  <2> QED BY <2>1, UnitEffect, Fields
<1> QED BY <1>1, <1>2, <1>3, <1>4, <1>5, <1>6, <1>7, <1>8, <1>9, <1>10, <1>11, <1>12, <1>13,
           <1>14, <1>15, <1>16, <1>17, <1>18, <1>19, <1>20, <1>21, <1>22, <1>23, <1>24, <1>25,
           <1>26, <1>27, <1>28, <1>29, <1>30, <1>31, <1>32, <1>33, <1>34, <1>35, <1>36, <1>37,
           <1>38, <1>39, <1>40, <1>41, <1>42, <1>43, <1>44, <1>45, <1>46, <1>47, <1>48

(***************************************************************************)
(* The listing of the baseline program: verify() at 1..25, main() at       *)
(* 26..38.                                                                 *)
(***************************************************************************)
LEMMA BaselineListing ==
  /\ \A i \in {1, 8, 13, 21, 29} : Baseline(i) = Op("load", "marks")
  /\ Baseline(2) = Op("ormark", "BOOT_ENTER")
  /\ \A i \in {3, 10, 15, 23, 31} : Baseline(i) = Op("mmio", "ORACLE_MARK")
  /\ Baseline(4) = Check("magic", 1)
  /\ \A i \in {5, 7, 12, 20} : Baseline(i) = Op("ret", "0")
  /\ Baseline(6) = Check("length", 1)
  /\ Baseline(9) = Op("ormark", "HDR_OK")
  /\ Baseline(11) = Check("version", 1)
  /\ Baseline(14) = Op("ormark", "VERSION_OK")
  /\ Baseline(16) = Op("build", "none")
  /\ Baseline(17) = Op("hash", "d1")
  /\ Baseline(18) = Op("compare", [cmp |-> "cmp_a", digest |-> "d1"])
  /\ Baseline(19) = Check("cmp_a", 1)
  /\ Baseline(22) = Op("ormark", "SIG_OK")
  /\ Baseline(24) = Op("ret", "1")
  /\ \A i \in {25, 38} : Baseline(i) = Op("trap", "none")
  /\ Baseline(26) = Op("call", "none")
  /\ Baseline(27) = Check("r0", 7)
  /\ Baseline(28) = Op("image_version", "none")
  /\ Baseline(30) = Op("ormark", "JUMP_TAKEN")
  /\ Baseline(32) = Op("verdict", "BOOT_ACCEPT")
  /\ \A i \in {33, 36} : Baseline(i) = Op("mmio", "ORACLE_HALT")
  /\ \A i \in {34, 37} : Baseline(i) = Op("spin", "none")
  /\ Baseline(35) = Op("verdict", "BOOT_REJECT")
<1> USE DEF Baseline, Text, Verify, Builds, Op, Check, MainBaseline,
           VerifyBaseline, OracleMark, FailBaseline, HashAndCompare, If, U, OracleHalt, JumpToApp
<1>1. \A i \in {1, 8, 13, 21, 29} : Baseline(i) = Op("load", "marks")
  <2>1. /\ Baseline(1) = Op("load", "marks") /\ Baseline(8) = Op("load", "marks")
        /\ Baseline(13) = Op("load", "marks") /\ Baseline(21) = Op("load", "marks")
        /\ Baseline(29) = Op("load", "marks")
    OBVIOUS
  <2> HIDE DEF Baseline, Op, Check
  <2> QED BY <2>1
<1>2. Baseline(2) = Op("ormark", "BOOT_ENTER")
  OBVIOUS
<1>3. \A i \in {3, 10, 15, 23, 31} : Baseline(i) = Op("mmio", "ORACLE_MARK")
  <2>1. /\ Baseline(3) = Op("mmio", "ORACLE_MARK")
        /\ Baseline(10) = Op("mmio", "ORACLE_MARK")
        /\ Baseline(15) = Op("mmio", "ORACLE_MARK")
        /\ Baseline(23) = Op("mmio", "ORACLE_MARK")
        /\ Baseline(31) = Op("mmio", "ORACLE_MARK")
    OBVIOUS
  <2> HIDE DEF Baseline, Op, Check
  <2> QED BY <2>1
<1>4. Baseline(4) = Check("magic", 1)
  OBVIOUS
<1>5. \A i \in {5, 7, 12, 20} : Baseline(i) = Op("ret", "0")
  <2>1. /\ Baseline(5) = Op("ret", "0") /\ Baseline(7) = Op("ret", "0")
        /\ Baseline(12) = Op("ret", "0") /\ Baseline(20) = Op("ret", "0")
    OBVIOUS
  <2> HIDE DEF Baseline, Op, Check
  <2> QED BY <2>1
<1>6. Baseline(6) = Check("length", 1)
  OBVIOUS
<1>7. Baseline(9) = Op("ormark", "HDR_OK")
  OBVIOUS
<1>8. Baseline(11) = Check("version", 1)
  OBVIOUS
<1>9. Baseline(14) = Op("ormark", "VERSION_OK")
  OBVIOUS
<1>10. Baseline(16) = Op("build", "none")
  OBVIOUS
<1>11. Baseline(17) = Op("hash", "d1")
  OBVIOUS
<1>12. Baseline(18) = Op("compare", [cmp |-> "cmp_a", digest |-> "d1"])
  OBVIOUS
<1>13. Baseline(19) = Check("cmp_a", 1)
  OBVIOUS
<1>14. Baseline(22) = Op("ormark", "SIG_OK")
  OBVIOUS
<1>15. Baseline(24) = Op("ret", "1")
  OBVIOUS
<1>16. \A i \in {25, 38} : Baseline(i) = Op("trap", "none")
  <2>1. /\ Baseline(25) = Op("trap", "none") /\ Baseline(38) = Op("trap", "none")
    OBVIOUS
  <2> HIDE DEF Baseline, Op, Check
  <2> QED BY <2>1
<1>17. Baseline(26) = Op("call", "none")
  OBVIOUS
<1>18. Baseline(27) = Check("r0", 7)
  OBVIOUS
<1>19. Baseline(28) = Op("image_version", "none")
  OBVIOUS
<1>20. Baseline(30) = Op("ormark", "JUMP_TAKEN")
  OBVIOUS
<1>21. Baseline(32) = Op("verdict", "BOOT_ACCEPT")
  OBVIOUS
<1>22. \A i \in {33, 36} : Baseline(i) = Op("mmio", "ORACLE_HALT")
  <2>1. /\ Baseline(33) = Op("mmio", "ORACLE_HALT")
        /\ Baseline(36) = Op("mmio", "ORACLE_HALT")
    OBVIOUS
  <2> HIDE DEF Baseline, Op, Check
  <2> QED BY <2>1
<1>23. \A i \in {34, 37} : Baseline(i) = Op("spin", "none")
  <2>1. /\ Baseline(34) = Op("spin", "none") /\ Baseline(37) = Op("spin", "none")
    OBVIOUS
  <2> HIDE DEF Baseline, Op, Check
  <2> QED BY <2>1
<1>24. Baseline(35) = Op("verdict", "BOOT_REJECT")
  OBVIOUS
<1> HIDE DEF Baseline, Text, Verify, Builds, Op, Check, MainBaseline,
           VerifyBaseline, OracleMark, FailBaseline, HashAndCompare, If, U, OracleHalt, JumpToApp
<1> QED BY <1>1, <1>2, <1>3, <1>4, <1>5, <1>6, <1>7, <1>8, <1>9, <1>10, <1>11, <1>12, <1>13,
           <1>14, <1>15, <1>16, <1>17, <1>18, <1>19, <1>20, <1>21, <1>22, <1>23, <1>24

(***************************************************************************)
(* What executing the baseline program does at each pc.                    *)
(***************************************************************************)
LEMMA BaselineStep ==
  ASSUME Build = "baseline", Execute
  PROVE  /\ pc \in {1, 8, 13, 21, 29} => Stores("reg", oracle.marks)
         /\ pc = 2 => MarksAs("BOOT_ENTER")
         /\ pc \in {3, 10, 15, 23, 31} => Moves(pc + 1)
         /\ pc = 4 => Tested(~vec.magic, 1)
         /\ pc \in {5, 7, 12, 20} => Returns("0")
         /\ pc = 6 => Tested(~vec.length, 1)
         /\ pc = 9 => MarksAs("HDR_OK")
         /\ pc = 11 => Tested(vec.version < vec.min_version, 1)
         /\ pc = 14 => MarksAs("VERSION_OK")
         /\ pc = 16 => Stores("scratch", "image")
         /\ pc = 17 => Stores("d1", Digest)
         /\ pc = 18 => Stores("cmp_a", Compare(mem.d1))
         /\ pc = 19 => Tested(mem.cmp_a # 0, 1)
         /\ pc = 22 => MarksAs("SIG_OK")
         /\ pc = 24 => Returns("1")
         /\ pc \in {25, 38} => Ends("CPUFAULT")
         /\ pc = 26 => Moves(1)
         /\ pc = 27 => Tested(mem.r0 # "0", 7)
         /\ pc = 28 => Publishes
         /\ pc = 30 => MarksAs("JUMP_TAKEN")
         /\ pc = 32 => Decides("BOOT_ACCEPT")
         /\ pc \in {33, 36} => Ends("ORACLE")
         /\ pc \in {34, 37} => Ends("BUDGET")
         /\ pc = 35 => Decides("BOOT_REJECT")
<1>u. unit = Baseline(pc)
  BY DEF unit, Program, Baseline
<1>1. ASSUME pc \in {1, 8, 13, 21, 29}
      PROVE  Stores("reg", oracle.marks)
  <2>1. unit = Op("load", "marks")
    BY <1>u, <1>1, BaselineListing
  <2> QED BY <2>1, UnitEffect, Fields
<1>2. ASSUME pc = 2
      PROVE  MarksAs("BOOT_ENTER")
  <2>1. unit = Op("ormark", "BOOT_ENTER")
    BY <1>u, <1>2, BaselineListing
  <2> QED BY <2>1, UnitEffect, Fields
<1>3. ASSUME pc \in {3, 10, 15, 23, 31}
      PROVE  Moves(pc + 1)
  <2>1. unit = Op("mmio", "ORACLE_MARK")
    BY <1>u, <1>3, BaselineListing
  <2> QED BY <2>1, UnitEffect, Fields
<1>4. ASSUME pc = 4
      PROVE  Tested(~vec.magic, 1)
  <2>1. unit = Check("magic", 1)
    BY <1>u, <1>4, BaselineListing
  <2> QED BY <2>1, CheckEffect
<1>5. ASSUME pc \in {5, 7, 12, 20}
      PROVE  Returns("0")
  <2>1. unit = Op("ret", "0")
    BY <1>u, <1>5, BaselineListing
  <2> QED BY <2>1, UnitEffect, Fields
<1>6. ASSUME pc = 6
      PROVE  Tested(~vec.length, 1)
  <2>1. unit = Check("length", 1)
    BY <1>u, <1>6, BaselineListing
  <2> QED BY <2>1, CheckEffect
<1>7. ASSUME pc = 9
      PROVE  MarksAs("HDR_OK")
  <2>1. unit = Op("ormark", "HDR_OK")
    BY <1>u, <1>7, BaselineListing
  <2> QED BY <2>1, UnitEffect, Fields
<1>8. ASSUME pc = 11
      PROVE  Tested(vec.version < vec.min_version, 1)
  <2>1. unit = Check("version", 1)
    BY <1>u, <1>8, BaselineListing
  <2> QED BY <2>1, CheckEffect
<1>9. ASSUME pc = 14
      PROVE  MarksAs("VERSION_OK")
  <2>1. unit = Op("ormark", "VERSION_OK")
    BY <1>u, <1>9, BaselineListing
  <2> QED BY <2>1, UnitEffect, Fields
<1>10. ASSUME pc = 16
       PROVE  Stores("scratch", "image")
  <2>1. unit = Op("build", "none")
    BY <1>u, <1>10, BaselineListing
  <2> QED BY <2>1, UnitEffect, Fields
<1>11. ASSUME pc = 17
       PROVE  Stores("d1", Digest)
  <2>1. unit = Op("hash", "d1")
    BY <1>u, <1>11, BaselineListing
  <2> QED BY <2>1, UnitEffect, Fields
<1>12. ASSUME pc = 18
       PROVE  Stores("cmp_a", Compare(mem.d1))
  <2>1. unit = Op("compare", [cmp |-> "cmp_a", digest |-> "d1"])
    BY <1>u, <1>12, BaselineListing
  <2> QED BY <2>1, UnitEffect, Fields
<1>13. ASSUME pc = 19
       PROVE  Tested(mem.cmp_a # 0, 1)
  <2>1. unit = Check("cmp_a", 1)
    BY <1>u, <1>13, BaselineListing
  <2> QED BY <2>1, CheckEffect
<1>14. ASSUME pc = 22
       PROVE  MarksAs("SIG_OK")
  <2>1. unit = Op("ormark", "SIG_OK")
    BY <1>u, <1>14, BaselineListing
  <2> QED BY <2>1, UnitEffect, Fields
<1>15. ASSUME pc = 24
       PROVE  Returns("1")
  <2>1. unit = Op("ret", "1")
    BY <1>u, <1>15, BaselineListing
  <2> QED BY <2>1, UnitEffect, Fields
<1>16. ASSUME pc \in {25, 38}
       PROVE  Ends("CPUFAULT")
  <2>1. unit = Op("trap", "none")
    BY <1>u, <1>16, BaselineListing
  <2> QED BY <2>1, UnitEffect, Fields
<1>17. ASSUME pc = 26
       PROVE  Moves(1)
  <2>1. unit = Op("call", "none")
    BY <1>u, <1>17, BaselineListing
  <2> QED BY <2>1, UnitEffect, Fields
<1>18. ASSUME pc = 27
       PROVE  Tested(mem.r0 # "0", 7)
  <2>1. unit = Check("r0", 7)
    BY <1>u, <1>18, BaselineListing
  <2> QED BY <2>1, CheckEffect
<1>19. ASSUME pc = 28
       PROVE  Publishes
  <2>1. unit = Op("image_version", "none")
    BY <1>u, <1>19, BaselineListing
  <2> QED BY <2>1, UnitEffect, Fields
<1>20. ASSUME pc = 30
       PROVE  MarksAs("JUMP_TAKEN")
  <2>1. unit = Op("ormark", "JUMP_TAKEN")
    BY <1>u, <1>20, BaselineListing
  <2> QED BY <2>1, UnitEffect, Fields
<1>21. ASSUME pc = 32
       PROVE  Decides("BOOT_ACCEPT")
  <2>1. unit = Op("verdict", "BOOT_ACCEPT")
    BY <1>u, <1>21, BaselineListing
  <2> QED BY <2>1, UnitEffect, Fields
<1>22. ASSUME pc \in {33, 36}
       PROVE  Ends("ORACLE")
  <2>1. unit = Op("mmio", "ORACLE_HALT")
    BY <1>u, <1>22, BaselineListing
  <2> QED BY <2>1, UnitEffect, Fields
<1>23. ASSUME pc \in {34, 37}
       PROVE  Ends("BUDGET")
  <2>1. unit = Op("spin", "none")
    BY <1>u, <1>23, BaselineListing
  <2> QED BY <2>1, UnitEffect, Fields
<1>24. ASSUME pc = 35
       PROVE  Decides("BOOT_REJECT")
  <2>1. unit = Op("verdict", "BOOT_REJECT")
    BY <1>u, <1>24, BaselineListing
  <2> QED BY <2>1, UnitEffect, Fields
<1> QED BY <1>1, <1>2, <1>3, <1>4, <1>5, <1>6, <1>7, <1>8, <1>9, <1>10, <1>11, <1>12, <1>13,
           <1>14, <1>15, <1>16, <1>17, <1>18, <1>19, <1>20, <1>21, <1>22, <1>23, <1>24

(***************************************************************************)
(* The checks whose body is one return and those whose body is an          *)
(* oracle_halt(): a unit that is not one of them, a trap or the call goes  *)
(* on to the next.                                                         *)
(***************************************************************************)
FailChecks == {8, 10, 12, 14, 20, 22, 34, 36, 38, 40, 48, 50, 52, 54, 56, 58}
RejectChecks == {65, 69, 73, 78, 82, 86, 90, 94}

LEMMA HardenedKinds ==
  /\ \A i \in FailChecks : Hardened(i).op = "if" /\ Hardened(i).len = 1
  /\ \A i \in RejectChecks : Hardened(i).op = "if" /\ Hardened(i).len = 3
  /\ \A i \in {61, 108} : Hardened(i).op = "trap"
  /\ Hardened(63).op = "call"
  /\ \A i \in (1..108) \ (FailChecks \cup RejectChecks \cup {61, 63, 108}) :
       Hardened(i).op \notin {"if", "trap", "call"}
<1>1. ASSUME NEW i \in FailChecks PROVE Hardened(i).op = "if" /\ Hardened(i).len = 1
  <2>1. \E t : Hardened(i) = Check(t, 1)
    <3>1. /\ \A j \in {8, 10, 58} : \E t : Hardened(j) = Check(t, 1)
          /\ \A j \in {12, 14} : \E t : Hardened(j) = Check(t, 1)
          /\ \A j \in {20, 22, 56} : \E t : Hardened(j) = Check(t, 1)
      BY HardenedListing
    <3>2. \A j \in {34, 36, 38, 40, 48, 50, 52, 54} : \E t : Hardened(j) = Check(t, 1)
      BY HardenedListing
    <3> QED BY <3>1, <3>2 DEF FailChecks
  <2> QED BY <2>1 DEF Check
<1>2. ASSUME NEW i \in RejectChecks PROVE Hardened(i).op = "if" /\ Hardened(i).len = 3
  <2>1. \E t : Hardened(i) = Check(t, 3)
    BY HardenedListing DEF RejectChecks
  <2> QED BY <2>1 DEF Check
<1>3. ASSUME NEW i \in {61, 108} PROVE Hardened(i).op = "trap"
  <2>1. Hardened(i) = Op("trap", "none")
    BY HardenedListing
  <2> QED BY <2>1 DEF Op
<1>4. Hardened(63).op = "call"
  <2>1. Hardened(63) = Op("call", "none")
    BY HardenedListing
  <2> QED BY <2>1 DEF Op
<1>5. ASSUME NEW i \in (1..108) \ (FailChecks \cup RejectChecks \cup {61, 63, 108})
      PROVE  Hardened(i).op \notin {"if", "trap", "call"}
  <2> DEFINE quiet(j) == Hardened(j).op \notin {"if", "trap", "call"}
  <2>1. ASSUME NEW j \in {1, 2, 3, 46, 47, 62} PROVE quiet(j)
    <3>1. \/ Hardened(j) = Op("let", [var |-> "r1", value |-> "FAIL"])
          \/ Hardened(j) = Op("let", [var |-> "r2", value |-> "FAIL"])
          \/ Hardened(j) = Op("let", [var |-> "cfi", value |-> {}])
          \/ Hardened(j) = Op("let", [var |-> "r1", value |-> "PASS"])
          \/ Hardened(j) = Op("let", [var |-> "r2", value |-> "PASS"])
          \/ Hardened(j) = Op("let", [var |-> "r", value |-> "FAIL"])
      BY HardenedListing
    <3> QED BY <3>1 DEF Op
  <2>2. \A j \in {4, 17, 25, 43, 99} : quiet(j)
    <3>1. \A j \in {4, 17, 25, 43, 99} : Hardened(j) = Op("load", "marks")
      BY HardenedListing
    <3> QED BY <3>1 DEF Op
  <2>3. ASSUME NEW j \in {5, 18, 26, 44, 100} PROVE quiet(j)
    <3>1. \/ Hardened(j) = Op("ormark", "BOOT_ENTER")
          \/ Hardened(j) = Op("ormark", "HDR_OK")
          \/ Hardened(j) = Op("ormark", "VERSION_OK")
          \/ Hardened(j) = Op("ormark", "SIG_OK")
          \/ Hardened(j) = Op("ormark", "JUMP_TAKEN")
      BY HardenedListing
    <3> QED BY <3>1 DEF Op
  <2>4. \A j \in {6, 19, 27, 45, 101, 67, 71, 75, 80, 84, 88, 92, 96, 103, 106} : quiet(j)
    <3>1. /\ \A j \in {6, 19, 27, 45, 101} : Hardened(j) = Op("mmio", "ORACLE_MARK")
          /\ \A j \in {67, 71, 75, 80, 84, 88, 92, 96, 103, 106} :
               Hardened(j) = Op("mmio", "ORACLE_HALT")
      BY HardenedListing
    <3> QED BY <3>1 DEF Op
  <2>5. ASSUME NEW j \in {7, 16, 24, 42} PROVE quiet(j)
    <3>1. \/ Hardened(j) = Op("cfi", "ENTER")
          \/ Hardened(j) = Op("cfi", "HDR")
          \/ Hardened(j) = Op("cfi", "VERSION")
          \/ Hardened(j) = Op("cfi", "SIG")
      BY HardenedListing
    <3> QED BY <3>1 DEF Op
  <2>6. \A j \in {9, 11, 13, 15, 21, 23, 35, 37, 39, 41, 49, 51, 53, 55, 57, 59, 60} : quiet(j)
    <3>1. /\ \A j \in {9, 11, 13, 15, 21, 23, 35, 37, 39, 41, 49, 51, 53, 55, 57, 59} :
               Hardened(j) = Op("ret", "FAIL")
          /\ Hardened(60) = Op("ret", "PASS")
      BY HardenedListing
    <3> QED BY <3>1 DEF Op
  <2>7. \A j \in {28, 31} : quiet(j)
    <3>1. \A j \in {28, 31} : Hardened(j) = Op("build", "none")
      BY HardenedListing
    <3> QED BY <3>1 DEF Op
  <2>8. ASSUME NEW j \in {29, 32} PROVE quiet(j)
    <3>1. \/ Hardened(j) = Op("hash", "d1")
          \/ Hardened(j) = Op("hash", "d2")
      BY HardenedListing
    <3> QED BY <3>1 DEF Op
  <2>9. ASSUME NEW j \in {30, 33} PROVE quiet(j)
    <3>1. \/ Hardened(j) = Op("compare", [cmp |-> "cmp_a", digest |-> "d1"])
          \/ Hardened(j) = Op("compare", [cmp |-> "cmp_b", digest |-> "d2"])
      BY HardenedListing
    <3> QED BY <3>1 DEF Op
  <2>10. ASSUME NEW j \in {64, 77} PROVE quiet(j)
    <3>1. \/ Hardened(j) = Op("copy", [var |-> "r", from |-> "r0"])
          \/ Hardened(j) = Op("copy", [var |-> "token", from |-> "r"])
      BY HardenedListing
    <3> QED BY <3>1 DEF Op
  <2>11. \A j \in {66, 70, 74, 79, 83, 87, 91, 95, 105, 102} : quiet(j)
    <3>1. /\ \A j \in {66, 70, 74, 79, 83, 87, 91, 95, 105} :
               Hardened(j) = Op("verdict", "BOOT_REJECT")
          /\ Hardened(102) = Op("verdict", "BOOT_ACCEPT")
      BY HardenedListing
    <3> QED BY <3>1 DEF Op
  <2>12. \A j \in {68, 72, 76, 81, 85, 89, 93, 97, 104, 107} : quiet(j)
    <3>1. \A j \in {68, 72, 76, 81, 85, 89, 93, 97, 104, 107} : Hardened(j) = Op("spin", "none")
      BY HardenedListing
    <3> QED BY <3>1 DEF Op
  <2>13. \A j \in {98} : quiet(j)
    <3>1. \A j \in {98} : Hardened(j) = Op("image_version", "none")
      BY HardenedListing
    <3> QED BY <3>1 DEF Op
  <2> HIDE DEF quiet
  <2>21. quiet(i)
    BY <1>5, <2>1, <2>2, <2>3, <2>4, <2>5, <2>6, <2>7, <2>8, <2>9, <2>10,
       <2>11, <2>12, <2>13 DEF FailChecks, RejectChecks
  <2> QED BY <2>21 DEF quiet
<1> QED BY <1>1, <1>2, <1>3, <1>4, <1>5

(***************************************************************************)
(* Where main() starts and where verify() returns to.                      *)
(***************************************************************************)
LEMMA HardenedPlaces ==
  /\ Len(Text["hardened"]) = 108 /\ DOMAIN Text["hardened"] = 1..108
  /\ Start("hardened") = 62 /\ ReturnTo["hardened"] = 64
<1>1. Len(Text["hardened"]) = 108 /\ Len(VerifyHardened) = 61
  BY DEF Text, Verify, Builds, MainHardened,
           VerifyHardened, OracleMark, FailTwice, PostCondition, CompareChecks, Fail, Let,
           HashAndCompare, If, U, Copy, Reject, OracleHalt, JumpToApp, JumpToAppChecks
<1>2. Start("hardened") = 62
  <2>1. Verify("hardened") = VerifyHardened
    BY DEF Verify
  <2>2. \A b, n : n = Len(Verify(b)) => Start(b) = n + 1
    BY DEF Start
  <2>3. Len(Verify("hardened")) = 61
    BY <1>1, <2>1
  <2>4. Start("hardened") = 61 + 1
    BY <2>2, <2>3
  <2> QED BY <2>4
<1>3. Text["hardened"] \in Seq(Units)
  BY TextFacts, Trap DEF Builds
<1>4. DOMAIN Text["hardened"] = 1..108
  <2> DEFINE p == Text["hardened"]
  <2>1. p \in Seq(Units) /\ Len(p) = 108
    BY <1>1, <1>3
  <2> HIDE DEF p
  <2>2. DOMAIN p = 1..108
    BY <2>1
  <2> QED BY <2>2 DEF p
<1>5. ReturnTo["hardened"] = CHOOSE i \in 62..108 : i > 1 /\ Hardened(i - 1).op = "call"
  BY <1>1, <1>2 DEF ReturnTo, Builds, Hardened
<1>6. ASSUME NEW i \in 62..108, Hardened(i - 1).op = "call" PROVE i = 64
  <2>1. PICK j \in 61..107 : j = i - 1
    BY <1>6
  <2>2. j = 63
    <3>1. Hardened(j).op = "call" /\ j \in 1..108
      BY <1>6, <2>1
    <3>2. j \notin FailChecks \cup RejectChecks \cup {61, 108}
      BY <3>1, HardenedKinds
    <3> QED BY <3>1, <3>2, HardenedKinds
  <2> QED BY <2>1, <2>2
<1>7. 64 \in 62..108 /\ 64 > 1 /\ Hardened(64 - 1).op = "call"
  BY HardenedKinds
<1>8. ReturnTo["hardened"] = 64
  BY <1>5, <1>6, <1>7
<1> QED BY <1>1, <1>2, <1>4, <1>8

(***************************************************************************)
(* Where a skip of one unit of the hardened program may land.              *)
(***************************************************************************)
LEMMA HardenedNext ==
  ASSUME Build = "hardened", NEW i \in 1..108, NEW j \in NextInMemory(i)
  PROVE  \/ j = i + 1 /\ i \notin {61, 108}
         \/ i \in FailChecks /\ j = i + 2
         \/ i \in RejectChecks /\ j = i + 4
         \/ i \in {61, 108} /\ j = i
<1>1. Program[i] = Hardened(i)
  BY DEF Program, Hardened
<1>2. CASE i \in FailChecks \cup RejectChecks
  <2>1. j \in {i + 1, i + 1 + Hardened(i).len}
    BY <1>1, <1>2, HardenedKinds DEF NextInMemory
  <2>2. i \notin {61, 108}
    BY <1>2 DEF FailChecks, RejectChecks
  <2> QED BY <1>2, <2>1, <2>2, HardenedKinds
<1>3. CASE i \in {61, 108}
  BY <1>1, <1>3, HardenedKinds DEF NextInMemory
<1>4. CASE i \notin FailChecks \cup RejectChecks \cup {61, 108}
  <2>1. Hardened(i).op \notin {"if", "trap"}
    BY <1>4, HardenedKinds
  <2>2. j = i + 1
    BY <1>1, <2>1 DEF NextInMemory
  <2> QED BY <1>4, <2>2
<1> QED BY <1>2, <1>3, <1>4

(***************************************************************************)
(* A skip of one or two units, step by step in memory.                     *)
(***************************************************************************)
LEMMA Skipping ==
  ASSUME TypeOK, NEW k \in {1, 2}, NEW i \in Skipped(pc, k)
  PROVE  /\ i \in DOMAIN Program
         /\ k = 1 => i \in NextInMemory(pc)
         /\ k = 2 => \E j \in NextInMemory(pc) \cap DOMAIN Program : i \in NextInMemory(j)
<1> DEFINE D == DOMAIN Program
           step(X) == UNION {NextInMemory(j) : j \in X \cap D}
           A0 == {pc}
           A1 == step(A0)
           A2 == step(A1)
           F(f) == f = [n \in 0..k |-> IF n = 0 THEN {pc} ELSE step(f[n - 1])]
<1>1. Skipped(pc, k) = (CHOOSE f : F(f))[k] \cap D
  BY DEF Skipped
<1>2. \E f : F(f)
  <2> DEFINE g == [n \in 0..k |-> IF n = 0 THEN A0 ELSE IF n = 1 THEN A1 ELSE A2]
  <2> HIDE DEF step
  <2>1. \A n \in 0..k : n = 0 \/ n = 1 \/ (n = 2 /\ k = 2)
    OBVIOUS
  <2>2. g[0] = {pc} /\ g[1] = step(g[0]) /\ (k = 2 => g[2] = step(g[1]))
    OBVIOUS
  <2>3. \A n \in 0..k : g[n] = IF n = 0 THEN {pc} ELSE step(g[n - 1])
    BY <2>1, <2>2
  <2>4. F(g)
    BY <2>3
  <2> QED BY <2>4
<1>3. PICK f : f = (CHOOSE x : F(x)) /\ F(f)
  BY <1>2
<1> HIDE DEF step
<1>4. f[0] = A0 /\ f[1] = step(A0) /\ (k = 2 => f[2] = step(f[1]))
  <2>1. \A n \in 0..k : f[n] = IF n = 0 THEN {pc} ELSE step(f[n - 1])
    BY <1>3
  <2>2. f[0] = A0
    BY <2>1
  <2>3. f[1] = step(f[0])
    BY <2>1
  <2>4. k = 2 => f[2] = step(f[1])
    BY <2>1
  <2> QED BY <2>2, <2>3, <2>4
<1>5. i \in f[k] /\ i \in D
  BY <1>1, <1>3
<1>6. pc \in D
  BY DEF TypeOK
<1>7. step(A0) = NextInMemory(pc)
  BY <1>6 DEF step
<1>8. k = 2 => \E j \in NextInMemory(pc) \cap D : i \in NextInMemory(j)
  BY <1>4, <1>5, <1>7 DEF step
<1> QED BY <1>4, <1>5, <1>7, <1>8

-----------------------------------------------------------------------------
(***************************************************************************)
(* Every store is to one of the locals, which exist from the start, and    *)
(* leaves the others alone; so is one to a word of g_oracle.               *)
(***************************************************************************)
Locals == {"r", "r0", "token", "r1", "r2", "cfi", "scratch", "d1", "d2", "cmp_a",
           "cmp_b", "reg"}

LocalsInv == DOMAIN mem = Locals

OnlyLocal(x) ==
  /\ x # "r" => mem'.r = mem.r
  /\ x # "r0" => mem'.r0 = mem.r0
  /\ x # "token" => mem'.token = mem.token
  /\ x # "r1" => mem'.r1 = mem.r1
  /\ x # "r2" => mem'.r2 = mem.r2
  /\ x # "cfi" => mem'.cfi = mem.cfi
  /\ x # "scratch" => mem'.scratch = mem.scratch
  /\ x # "d1" => mem'.d1 = mem.d1
  /\ x # "d2" => mem'.d2 = mem.d2
  /\ x # "cmp_a" => mem'.cmp_a = mem.cmp_a
  /\ x # "cmp_b" => mem'.cmp_b = mem.cmp_b
  /\ x # "reg" => mem'.reg = mem.reg

LEMMA Stored ==
  ASSUME LocalsInv, NEW x \in Locals, NEW v, mem' = [mem EXCEPT ![x] = v]
  PROVE  /\ OnlyLocal(x)
         /\ x = "r" => mem'.r = v
         /\ x = "r0" => mem'.r0 = v
         /\ x = "token" => mem'.token = v
         /\ x = "r1" => mem'.r1 = v
         /\ x = "r2" => mem'.r2 = v
         /\ x = "cfi" => mem'.cfi = v
         /\ x = "scratch" => mem'.scratch = v
         /\ x = "d1" => mem'.d1 = v
         /\ x = "d2" => mem'.d2 = v
         /\ x = "cmp_a" => mem'.cmp_a = v
         /\ x = "cmp_b" => mem'.cmp_b = v
         /\ x = "reg" => mem'.reg = v
<1>1. mem'[x] = v
  BY DEF LocalsInv
<1>2. \A y \in Locals : x # y => mem'[y] = mem[y]
  BY DEF LocalsInv
<1>3. OnlyLocal(x)
  BY <1>2 DEF Locals, OnlyLocal
<1> QED BY <1>1, <1>3

OnlyOracle(f) ==
  /\ f # "marks" => oracle'.marks = oracle.marks
  /\ f # "verdict" => oracle'.verdict = oracle.verdict
  /\ f # "image_version" => oracle'.image_version = oracle.image_version

LEMMA OracleStored ==
  ASSUME TypeOK, NEW v
  PROVE  /\ oracle' = [oracle EXCEPT !.marks = v] => OnlyOracle("marks") /\ oracle'.marks = v
         /\ oracle' = [oracle EXCEPT !.verdict = v] => OnlyOracle("verdict") /\ oracle'.verdict = v
         /\ oracle' = [oracle EXCEPT !.image_version = v] =>
              OnlyOracle("image_version") /\ oracle'.image_version = v
  BY DEF TypeOK, OnlyOracle

(***************************************************************************)
(* No step adds or removes a local.                                        *)
(***************************************************************************)
LEMMA LocalsStep ==
  ASSUME LocalsInv, [Next]_vars PROVE LocalsInv'
<1>1. CASE mem' = mem
  BY <1>1 DEF LocalsInv
<1>2. ASSUME NEW x, NEW v, Store(x, v) PROVE LocalsInv'
  BY <1>2 DEF Store, LocalsInv
<1> QED BY <1>1, <1>2
        DEF Next, Execute, Skip, If_, Local, Call, Ret, Mark, Verdict, ImageVersion, Stop, vars

(***************************************************************************)
(* What executing a unit of the hardened program leaves alone, and where   *)
(* it goes: the units that end the run or stay, the returns of FAIL, and   *)
(* the three units of each oracle_mark().                                  *)
(***************************************************************************)
Stops == {61, 67, 68, 71, 72, 75, 76, 80, 81, 84, 85, 88, 89, 92, 93, 96, 97, 103, 104, 106,
          107, 108}
FailReturns == {9, 11, 13, 15, 21, 23, 35, 37, 39, 41, 49, 51, 53, 55, 57, 59}

MarkLoads == {4, 17, 25, 43, 99}
MarkOrs == {5, 18, 26, 44, 100}
VerdictUnits == {66, 70, 74, 79, 83, 87, 91, 95, 102, 105}

HardenedFrame ==
  /\ pc \in Stops => pc' = pc
  /\ pc \in FailReturns => pc' = 64 /\ mem'.r0 = "FAIL"
  /\ pc = 60 => pc' = 64 /\ mem'.r0 = "PASS"
  /\ pc = 63 => pc' = 1
  /\ pc \notin Stops \cup FailReturns \cup {60, 63} =>
       \/ pc' = pc + 1
       \/ pc \in FailChecks /\ pc' = pc + 2
       \/ pc \in RejectChecks /\ pc' = pc + 4
  /\ pc \notin FailReturns \cup {60} => mem'.r0 = mem.r0
  /\ pc \notin {62, 64} => mem'.r = mem.r
  /\ pc \notin {3, 7, 16, 24, 42} => mem'.cfi = mem.cfi
  /\ pc # 30 => mem'.cmp_a = mem.cmp_a
  /\ pc # 33 => mem'.cmp_b = mem.cmp_b
  /\ pc # 102 => (accepted' <=> accepted)
  /\ pc \notin {1, 46} => mem'.r1 = mem.r1
  /\ pc \notin {2, 47} => mem'.r2 = mem.r2
  /\ pc \notin {28, 31} => mem'.scratch = mem.scratch
  /\ pc # 29 => mem'.d1 = mem.d1
  /\ pc # 32 => mem'.d2 = mem.d2
  /\ pc # 77 => mem'.token = mem.token
  /\ pc \notin MarkLoads \cup MarkOrs => mem'.reg = mem.reg
  /\ pc \notin MarkOrs => oracle'.marks = oracle.marks
  /\ pc # 98 => oracle'.image_version = oracle.image_version
  /\ pc \notin VerdictUnits => oracle'.verdict = oracle.verdict
  /\ pc \notin Stops => halted' = halted

LEMMA HardenedFraming ==
  ASSUME Build = "hardened", Execute, TypeOK, LocalsInv, pc \in 1..108
  PROVE  HardenedFrame
<1> USE
   DEF HardenedFrame, Stops, FailReturns, MarkLoads, MarkOrs, VerdictUnits, FailChecks,
            RejectChecks
<1>1. ASSUME pc = 1 PROVE HardenedFrame
  <2>1. PICK v : Stores("r1", v)
    BY <1>1, HardenedStep
  <2>2. OnlyLocal("r1")
    BY <2>1, Stored DEF Stores, Locals
  <2> QED BY <1>1, <2>1, <2>2 DEF Stores, OnlyLocal
<1>2. ASSUME pc = 2 PROVE HardenedFrame
  <2>1. PICK v : Stores("r2", v)
    BY <1>2, HardenedStep
  <2>2. OnlyLocal("r2")
    BY <2>1, Stored DEF Stores, Locals
  <2> QED BY <1>2, <2>1, <2>2 DEF Stores, OnlyLocal
<1>3. ASSUME pc = 3 PROVE HardenedFrame
  <2>1. PICK v : Stores("cfi", v)
    BY <1>3, HardenedStep
  <2>2. OnlyLocal("cfi")
    BY <2>1, Stored DEF Stores, Locals
  <2> QED BY <1>3, <2>1, <2>2 DEF Stores, OnlyLocal
<1>4. ASSUME pc \in {4, 17, 25, 43, 99} PROVE HardenedFrame
  <2>1. PICK v : Stores("reg", v)
    BY <1>4, HardenedStep
  <2>2. OnlyLocal("reg")
    BY <2>1, Stored DEF Stores, Locals
  <2> QED BY <1>4, <2>1, <2>2 DEF Stores, OnlyLocal
<1>5. ASSUME pc = 5 PROVE HardenedFrame
  <2>1. MarksAs("BOOT_ENTER")
    BY <1>5, HardenedStep
  <2>2. OnlyLocal("reg") /\ OnlyOracle("marks")
    BY <2>1, Stored, OracleStored DEF MarksAs, Locals
  <2> QED BY <1>5, <2>1, <2>2 DEF MarksAs, OnlyLocal, OnlyOracle
<1>6. ASSUME pc \in {6, 19, 27, 45, 101} PROVE HardenedFrame
  <2>1. Moves(pc + 1)
    BY <1>6, HardenedStep
  <2> QED BY <1>6, <2>1 DEF Moves
<1>7. ASSUME pc = 7 PROVE HardenedFrame
  <2>1. PICK v : Stores("cfi", v)
    BY <1>7, HardenedStep
  <2>2. OnlyLocal("cfi")
    BY <2>1, Stored DEF Stores, Locals
  <2> QED BY <1>7, <2>1, <2>2 DEF Stores, OnlyLocal
<1>8. ASSUME pc \in {8, 10, 58} PROVE HardenedFrame
  <2>1. Tested(~vec.magic, 1)
    BY <1>8, HardenedStep
  <2> QED BY <1>8, <2>1 DEF Tested
<1>9. ASSUME pc \in {9, 11, 13, 15, 21, 23, 35, 37,
                     39, 41, 49, 51, 53, 55, 57, 59} PROVE HardenedFrame
  <2>1. Returns("FAIL") /\ ReturnTo[Build] = 64
    BY <1>9, HardenedStep, HardenedPlaces
  <2>2. pc' = 64 /\ UNCHANGED <<oracle, halted, accepted>>
    BY <2>1 DEF Returns
  <2>3. OnlyLocal("r0") /\ mem'.r0 = "FAIL"
    BY <2>1, Stored DEF Returns, Locals
  <2> QED BY <1>9, <2>2, <2>3 DEF OnlyLocal
<1>10. ASSUME pc \in {12, 14} PROVE HardenedFrame
  <2>1. Tested(~vec.length, 1)
    BY <1>10, HardenedStep
  <2> QED BY <1>10, <2>1 DEF Tested
<1>11. ASSUME pc = 16 PROVE HardenedFrame
  <2>1. PICK v : Stores("cfi", v)
    BY <1>11, HardenedStep
  <2>2. OnlyLocal("cfi")
    BY <2>1, Stored DEF Stores, Locals
  <2> QED BY <1>11, <2>1, <2>2 DEF Stores, OnlyLocal
<1>12. ASSUME pc = 18 PROVE HardenedFrame
  <2>1. MarksAs("HDR_OK")
    BY <1>12, HardenedStep
  <2>2. OnlyLocal("reg") /\ OnlyOracle("marks")
    BY <2>1, Stored, OracleStored DEF MarksAs, Locals
  <2> QED BY <1>12, <2>1, <2>2 DEF MarksAs, OnlyLocal, OnlyOracle
<1>13. ASSUME pc \in {20, 22, 56} PROVE HardenedFrame
  <2>1. Tested(vec.version < vec.min_version, 1)
    BY <1>13, HardenedStep
  <2> QED BY <1>13, <2>1 DEF Tested
<1>14. ASSUME pc = 24 PROVE HardenedFrame
  <2>1. PICK v : Stores("cfi", v)
    BY <1>14, HardenedStep
  <2>2. OnlyLocal("cfi")
    BY <2>1, Stored DEF Stores, Locals
  <2> QED BY <1>14, <2>1, <2>2 DEF Stores, OnlyLocal
<1>15. ASSUME pc = 26 PROVE HardenedFrame
  <2>1. MarksAs("VERSION_OK")
    BY <1>15, HardenedStep
  <2>2. OnlyLocal("reg") /\ OnlyOracle("marks")
    BY <2>1, Stored, OracleStored DEF MarksAs, Locals
  <2> QED BY <1>15, <2>1, <2>2 DEF MarksAs, OnlyLocal, OnlyOracle
<1>16. ASSUME pc \in {28, 31} PROVE HardenedFrame
  <2>1. PICK v : Stores("scratch", v)
    BY <1>16, HardenedStep
  <2>2. OnlyLocal("scratch")
    BY <2>1, Stored DEF Stores, Locals
  <2> QED BY <1>16, <2>1, <2>2 DEF Stores, OnlyLocal
<1>17. ASSUME pc = 29 PROVE HardenedFrame
  <2>1. PICK v : Stores("d1", v)
    BY <1>17, HardenedStep
  <2>2. OnlyLocal("d1")
    BY <2>1, Stored DEF Stores, Locals
  <2> QED BY <1>17, <2>1, <2>2 DEF Stores, OnlyLocal
<1>18. ASSUME pc = 30 PROVE HardenedFrame
  <2>1. PICK v : Stores("cmp_a", v)
    BY <1>18, HardenedStep
  <2>2. OnlyLocal("cmp_a")
    BY <2>1, Stored DEF Stores, Locals
  <2> QED BY <1>18, <2>1, <2>2 DEF Stores, OnlyLocal
<1>19. ASSUME pc = 32 PROVE HardenedFrame
  <2>1. PICK v : Stores("d2", v)
    BY <1>19, HardenedStep
  <2>2. OnlyLocal("d2")
    BY <2>1, Stored DEF Stores, Locals
  <2> QED BY <1>19, <2>1, <2>2 DEF Stores, OnlyLocal
<1>20. ASSUME pc = 33 PROVE HardenedFrame
  <2>1. PICK v : Stores("cmp_b", v)
    BY <1>20, HardenedStep
  <2>2. OnlyLocal("cmp_b")
    BY <2>1, Stored DEF Stores, Locals
  <2> QED BY <1>20, <2>1, <2>2 DEF Stores, OnlyLocal
<1>21. ASSUME pc = 34 PROVE HardenedFrame
  <2>1. Tested(mem.cmp_a # 0, 1)
    BY <1>21, HardenedStep
  <2> QED BY <1>21, <2>1 DEF Tested
<1>22. ASSUME pc = 36 PROVE HardenedFrame
  <2>1. Tested(mem.cmp_b # 0, 1)
    BY <1>22, HardenedStep
  <2> QED BY <1>22, <2>1 DEF Tested
<1>23. ASSUME pc = 38 PROVE HardenedFrame
  <2>1. Tested(mem.cmp_a # mem.cmp_b, 1)
    BY <1>23, HardenedStep
  <2> QED BY <1>23, <2>1 DEF Tested
<1>24. ASSUME pc = 40 PROVE HardenedFrame
  <2>1. Tested(mem.d1 # mem.d2, 1)
    BY <1>24, HardenedStep
  <2> QED BY <1>24, <2>1 DEF Tested
<1>25. ASSUME pc = 42 PROVE HardenedFrame
  <2>1. PICK v : Stores("cfi", v)
    BY <1>25, HardenedStep
  <2>2. OnlyLocal("cfi")
    BY <2>1, Stored DEF Stores, Locals
  <2> QED BY <1>25, <2>1, <2>2 DEF Stores, OnlyLocal
<1>26. ASSUME pc = 44 PROVE HardenedFrame
  <2>1. MarksAs("SIG_OK")
    BY <1>26, HardenedStep
  <2>2. OnlyLocal("reg") /\ OnlyOracle("marks")
    BY <2>1, Stored, OracleStored DEF MarksAs, Locals
  <2> QED BY <1>26, <2>1, <2>2 DEF MarksAs, OnlyLocal, OnlyOracle
<1>27. ASSUME pc = 46 PROVE HardenedFrame
  <2>1. PICK v : Stores("r1", v)
    BY <1>27, HardenedStep
  <2>2. OnlyLocal("r1")
    BY <2>1, Stored DEF Stores, Locals
  <2> QED BY <1>27, <2>1, <2>2 DEF Stores, OnlyLocal
<1>28. ASSUME pc = 47 PROVE HardenedFrame
  <2>1. PICK v : Stores("r2", v)
    BY <1>28, HardenedStep
  <2>2. OnlyLocal("r2")
    BY <2>1, Stored DEF Stores, Locals
  <2> QED BY <1>28, <2>1, <2>2 DEF Stores, OnlyLocal
<1>29. ASSUME pc = 48 PROVE HardenedFrame
  <2>1. Tested(mem.cfi # CfiExpected, 1)
    BY <1>29, HardenedStep
  <2> QED BY <1>29, <2>1 DEF Tested
<1>30. ASSUME pc = 50 PROVE HardenedFrame
  <2>1. Tested(mem.r1 # "PASS", 1)
    BY <1>30, HardenedStep
  <2> QED BY <1>30, <2>1 DEF Tested
<1>31. ASSUME pc = 52 PROVE HardenedFrame
  <2>1. Tested(mem.r2 # "PASS", 1)
    BY <1>31, HardenedStep
  <2> QED BY <1>31, <2>1 DEF Tested
<1>32. ASSUME pc = 54 PROVE HardenedFrame
  <2>1. Tested(mem.r1 # mem.r2, 1)
    BY <1>32, HardenedStep
  <2> QED BY <1>32, <2>1 DEF Tested
<1>33. ASSUME pc = 60 PROVE HardenedFrame
  <2>1. Returns("PASS") /\ ReturnTo[Build] = 64
    BY <1>33, HardenedStep, HardenedPlaces
  <2>2. pc' = 64 /\ UNCHANGED <<oracle, halted, accepted>>
    BY <2>1 DEF Returns
  <2>3. OnlyLocal("r0") /\ mem'.r0 = "PASS"
    BY <2>1, Stored DEF Returns, Locals
  <2> QED BY <1>33, <2>2, <2>3 DEF OnlyLocal
<1>34. ASSUME pc \in {61, 108} PROVE HardenedFrame
  <2>1. Ends("CPUFAULT")
    BY <1>34, HardenedStep
  <2> QED BY <1>34, <2>1 DEF Ends
<1>35. ASSUME pc = 62 PROVE HardenedFrame
  <2>1. PICK v : Stores("r", v)
    BY <1>35, HardenedStep
  <2>2. OnlyLocal("r")
    BY <2>1, Stored DEF Stores, Locals
  <2> QED BY <1>35, <2>1, <2>2 DEF Stores, OnlyLocal
<1>36. ASSUME pc = 63 PROVE HardenedFrame
  <2>1. Moves(1)
    BY <1>36, HardenedStep
  <2> QED BY <1>36, <2>1 DEF Moves
<1>37. ASSUME pc = 64 PROVE HardenedFrame
  <2>1. PICK v : Stores("r", v)
    BY <1>37, HardenedStep
  <2>2. OnlyLocal("r")
    BY <2>1, Stored DEF Stores, Locals
  <2> QED BY <1>37, <2>1, <2>2 DEF Stores, OnlyLocal
<1>38. ASSUME pc \in {65, 69, 73} PROVE HardenedFrame
  <2>1. Tested(mem.r # "PASS", 3)
    BY <1>38, HardenedStep
  <2> QED BY <1>38, <2>1 DEF Tested
<1>39. ASSUME pc \in {66, 70, 74, 79, 83, 87, 91, 95, 105} PROVE HardenedFrame
  <2>1. Decides("BOOT_REJECT")
    BY <1>39, HardenedStep
  <2>2. OnlyOracle("verdict")
    BY <2>1, OracleStored DEF Decides
  <2>3. pc' = pc + 1 /\ UNCHANGED <<mem, halted>> /\ (accepted' <=> accepted)
    BY <2>1 DEF Decides
  <2> QED BY <1>39, <2>2, <2>3 DEF OnlyOracle
<1>40. ASSUME pc \in {67, 71, 75, 80, 84, 88, 92, 96, 103, 106} PROVE HardenedFrame
  <2>1. Ends("ORACLE")
    BY <1>40, HardenedStep
  <2> QED BY <1>40, <2>1 DEF Ends
<1>41. ASSUME pc \in {68, 72, 76, 81, 85, 89, 93, 97, 104, 107} PROVE HardenedFrame
  <2>1. Ends("BUDGET")
    BY <1>41, HardenedStep
  <2> QED BY <1>41, <2>1 DEF Ends
<1>42. ASSUME pc = 77 PROVE HardenedFrame
  <2>1. PICK v : Stores("token", v)
    BY <1>42, HardenedStep
  <2>2. OnlyLocal("token")
    BY <2>1, Stored DEF Stores, Locals
  <2> QED BY <1>42, <2>1, <2>2 DEF Stores, OnlyLocal
<1>43. ASSUME pc \in {78, 82, 86} PROVE HardenedFrame
  <2>1. Tested(mem.token # "PASS", 3)
    BY <1>43, HardenedStep
  <2> QED BY <1>43, <2>1 DEF Tested
<1>44. ASSUME pc = 90 PROVE HardenedFrame
  <2>1. Tested(~vec.magic, 3)
    BY <1>44, HardenedStep
  <2> QED BY <1>44, <2>1 DEF Tested
<1>45. ASSUME pc = 94 PROVE HardenedFrame
  <2>1. Tested(vec.version < vec.min_version, 3)
    BY <1>45, HardenedStep
  <2> QED BY <1>45, <2>1 DEF Tested
<1>46. ASSUME pc = 98 PROVE HardenedFrame
  <2>1. Publishes
    BY <1>46, HardenedStep
  <2>2. OnlyOracle("image_version")
    BY <2>1, OracleStored DEF Publishes
  <2>3. pc' = pc + 1 /\ UNCHANGED <<mem, halted>>
    BY <2>1 DEF Publishes
  <2> QED BY <1>46, <2>1, <2>2, <2>3 DEF OnlyOracle, Publishes
<1>47. ASSUME pc = 100 PROVE HardenedFrame
  <2>1. MarksAs("JUMP_TAKEN")
    BY <1>47, HardenedStep
  <2>2. OnlyLocal("reg") /\ OnlyOracle("marks")
    BY <2>1, Stored, OracleStored DEF MarksAs, Locals
  <2> QED BY <1>47, <2>1, <2>2 DEF MarksAs, OnlyLocal, OnlyOracle
<1>48. ASSUME pc = 102 PROVE HardenedFrame
  <2>1. Decides("BOOT_ACCEPT")
    BY <1>48, HardenedStep
  <2>2. OnlyOracle("verdict")
    BY <2>1, OracleStored DEF Decides
  <2>3. pc' = pc + 1 /\ UNCHANGED <<mem, halted>>
    BY <2>1 DEF Decides
  <2> QED BY <1>48, <2>2, <2>3 DEF OnlyOracle
<1>c. \/ pc = 1
      \/ pc = 2
      \/ pc = 3
      \/ pc \in {4, 17, 25, 43, 99}
      \/ pc = 5
      \/ pc \in {6, 19, 27, 45, 101}
      \/ pc = 7
      \/ pc \in {8, 10, 58}
      \/ pc \in {9, 11, 13, 15, 21, 23, 35, 37,
                   39, 41, 49, 51, 53, 55, 57, 59}
      \/ pc \in {12, 14}
      \/ pc = 16
      \/ pc = 18
      \/ pc \in {20, 22, 56}
      \/ pc = 24
      \/ pc = 26
      \/ pc \in {28, 31}
      \/ pc = 29
      \/ pc = 30
      \/ pc = 32
      \/ pc = 33
      \/ pc = 34
      \/ pc = 36
      \/ pc = 38
      \/ pc = 40
      \/ pc = 42
      \/ pc = 44
      \/ pc = 46
      \/ pc = 47
      \/ pc = 48
      \/ pc = 50
      \/ pc = 52
      \/ pc = 54
      \/ pc = 60
      \/ pc \in {61, 108}
      \/ pc = 62
      \/ pc = 63
      \/ pc = 64
      \/ pc \in {65, 69, 73}
      \/ pc \in {66, 70, 74, 79, 83, 87, 91, 95, 105}
      \/ pc \in {67, 71, 75, 80, 84, 88, 92, 96, 103, 106}
      \/ pc \in {68, 72, 76, 81, 85, 89, 93, 97, 104, 107}
      \/ pc = 77
      \/ pc \in {78, 82, 86}
      \/ pc = 90
      \/ pc = 94
      \/ pc = 98
      \/ pc = 100
      \/ pc = 102
  OBVIOUS
<1> QED BY <1>1, <1>2, <1>3, <1>4, <1>5, <1>6, <1>7, <1>8, <1>9, <1>10, <1>11, <1>12, <1>13,
           <1>14, <1>15, <1>16, <1>17, <1>18, <1>19, <1>20, <1>21, <1>22, <1>23, <1>24, <1>25,
           <1>26, <1>27, <1>28, <1>29, <1>30, <1>31, <1>32, <1>33, <1>34, <1>35, <1>36, <1>37,
           <1>38, <1>39, <1>40, <1>41, <1>42, <1>43, <1>44, <1>45, <1>46, <1>47, <1>48, <1>c

(***************************************************************************)
(* The same places of the baseline program.                                *)
(***************************************************************************)
LEMMA BaselinePlaces ==
  /\ DOMAIN Text["baseline"] = 1..38
  /\ Start("baseline") = 26 /\ ReturnTo["baseline"] = 27
<1>1. Len(Text["baseline"]) = 38 /\ Len(VerifyBaseline) = 25
  BY DEF Text, Verify, Builds, MainBaseline,
           VerifyBaseline, OracleMark, FailBaseline, HashAndCompare, If, U, OracleHalt, JumpToApp
<1>2. Start("baseline") = 26
  <2>1. Verify("baseline") = VerifyBaseline
    BY DEF Verify
  <2>2. \A b, n : n = Len(Verify(b)) => Start(b) = n + 1
    BY DEF Start
  <2>3. Len(Verify("baseline")) = 25
    BY <1>1, <2>1
  <2>4. Start("baseline") = 25 + 1
    BY <2>2, <2>3
  <2> QED BY <2>4
<1>3. Text["baseline"] \in Seq(Units)
  BY TextFacts, Trap DEF Builds
<1>4. DOMAIN Text["baseline"] = 1..38
  <2> DEFINE p == Text["baseline"]
  <2>1. p \in Seq(Units) /\ Len(p) = 38
    BY <1>1, <1>3
  <2> HIDE DEF p
  <2>2. DOMAIN p = 1..38
    BY <2>1
  <2> QED BY <2>2 DEF p
<1>5. ReturnTo["baseline"] = CHOOSE i \in 26..38 : i > 1 /\ Baseline(i - 1).op = "call"
  BY <1>1, <1>2 DEF ReturnTo, Builds, Baseline
<1>6. ASSUME NEW j \in 25..37 PROVE Baseline(j).op = "call" <=> j = 26
  <2>1. /\ Baseline(25) = Op("trap", "none") /\ Baseline(26) = Op("call", "none")
        /\ Baseline(27) = Check("r0", 7) /\ Baseline(28) = Op("image_version", "none")
        /\ Baseline(29) = Op("load", "marks") /\ Baseline(30) = Op("ormark", "JUMP_TAKEN")
        /\ Baseline(31) = Op("mmio", "ORACLE_MARK")
    BY BaselineListing
  <2>2. /\ Baseline(32) = Op("verdict", "BOOT_ACCEPT") /\ Baseline(33) = Op("mmio", "ORACLE_HALT")
        /\ Baseline(34) = Op("spin", "none") /\ Baseline(35) = Op("verdict", "BOOT_REJECT")
        /\ Baseline(36) = Op("mmio", "ORACLE_HALT") /\ Baseline(37) = Op("spin", "none")
    BY BaselineListing
  <2>3. /\ Baseline(25).op = "trap" /\ Baseline(26).op = "call" /\ Baseline(27).op = "if"
        /\ Baseline(28).op = "image_version" /\ Baseline(29).op = "load"
        /\ Baseline(30).op = "ormark" /\ Baseline(31).op = "mmio"
    BY <2>1 DEF Op, Check
  <2>4. /\ Baseline(32).op = "verdict" /\ Baseline(33).op = "mmio" /\ Baseline(34).op = "spin"
        /\ Baseline(35).op = "verdict" /\ Baseline(36).op = "mmio" /\ Baseline(37).op = "spin"
    BY <2>2 DEF Op
  <2> QED BY <2>3, <2>4
<1>7. ASSUME NEW i \in 26..38, Baseline(i - 1).op = "call" PROVE i = 27
  BY <1>6, <1>7
<1>8. 27 \in 26..38 /\ 27 > 1 /\ Baseline(27 - 1).op = "call"
  BY <1>6
<1>9. ReturnTo["baseline"] = 27
  BY <1>5, <1>7, <1>8
<1> QED BY <1>2, <1>4, <1>9

(***************************************************************************)
(* Control is at a unit of the program.                                    *)
(***************************************************************************)
LEMMA HardenedPc ==
  ASSUME TypeOK, Build = "hardened" PROVE pc \in 1..108
<1>1. DOMAIN Program = 1..108
  BY HardenedPlaces DEF Program
<1> QED BY <1>1 DEF TypeOK

LEMMA BaselinePc ==
  ASSUME TypeOK, Build = "baseline" PROVE pc \in 1..38
<1>1. DOMAIN Program = 1..38
  BY BaselinePlaces DEF Program
<1> QED BY <1>1 DEF TypeOK

(***************************************************************************)
(* What executing a unit of the baseline program leaves alone, and where   *)
(* it goes; verify() returns 0 or 1 and never PASS.                        *)
(***************************************************************************)
BaselineFrame ==
  /\ pc \in {25, 33, 34, 36, 37, 38} => pc' = pc
  /\ pc \in {5, 7, 12, 20} => pc' = 27 /\ mem'.r0 = "0"
  /\ pc = 24 => pc' = 27 /\ mem'.r0 = "1"
  /\ pc = 26 => pc' = 1
  /\ pc \notin {5, 7, 12, 20, 24, 25, 26, 33, 34, 36, 37, 38} =>
       \/ pc' = pc + 1
       \/ pc \in {4, 6, 11, 19} /\ pc' = pc + 2
       \/ pc = 27 /\ pc' = 35
  /\ pc \notin {5, 7, 12, 20, 24} => mem'.r0 = mem.r0
  /\ pc # 18 => mem'.cmp_a = mem.cmp_a
  /\ pc \notin {2, 9, 14, 22, 30} => oracle'.marks = oracle.marks
  /\ pc # 28 => oracle'.image_version = oracle.image_version
  /\ pc \notin {32, 35} => oracle'.verdict = oracle.verdict
  /\ pc # 32 => (accepted' <=> accepted)
  /\ pc \notin {25, 33, 34, 36, 37, 38} => halted' = halted

LEMMA BaselineFraming ==
  ASSUME Build = "baseline", Execute, TypeOK, LocalsInv, pc \in 1..38
  PROVE  BaselineFrame
<1> USE DEF BaselineFrame
<1>1. ASSUME pc \in {1, 8, 13, 21, 29} PROVE BaselineFrame
  <2>1. PICK v : Stores("reg", v)
    BY <1>1, BaselineStep
  <2>2. OnlyLocal("reg")
    BY <2>1, Stored DEF Stores, Locals
  <2> QED BY <1>1, <2>1, <2>2 DEF Stores, OnlyLocal
<1>2. ASSUME pc = 2 PROVE BaselineFrame
  <2>1. MarksAs("BOOT_ENTER")
    BY <1>2, BaselineStep
  <2>2. OnlyLocal("reg") /\ OnlyOracle("marks")
    BY <2>1, Stored, OracleStored DEF MarksAs, Locals
  <2> QED BY <1>2, <2>1, <2>2 DEF MarksAs, OnlyLocal, OnlyOracle
<1>3. ASSUME pc \in {3, 10, 15, 23, 31} PROVE BaselineFrame
  <2>1. Moves(pc + 1)
    BY <1>3, BaselineStep
  <2> QED BY <1>3, <2>1 DEF Moves
<1>4. ASSUME pc = 4 PROVE BaselineFrame
  <2>1. Tested(~vec.magic, 1)
    BY <1>4, BaselineStep
  <2> QED BY <1>4, <2>1 DEF Tested
<1>5. ASSUME pc \in {5, 7, 12, 20} PROVE BaselineFrame
  <2>1. Returns("0") /\ ReturnTo[Build] = 27
    BY <1>5, BaselineStep, BaselinePlaces
  <2>2. pc' = 27 /\ UNCHANGED <<oracle, halted, accepted>>
    BY <2>1 DEF Returns
  <2>3. OnlyLocal("r0") /\ mem'.r0 = "0"
    BY <2>1, Stored DEF Returns, Locals
  <2> QED BY <1>5, <2>2, <2>3 DEF OnlyLocal
<1>6. ASSUME pc = 6 PROVE BaselineFrame
  <2>1. Tested(~vec.length, 1)
    BY <1>6, BaselineStep
  <2> QED BY <1>6, <2>1 DEF Tested
<1>7. ASSUME pc = 9 PROVE BaselineFrame
  <2>1. MarksAs("HDR_OK")
    BY <1>7, BaselineStep
  <2>2. OnlyLocal("reg") /\ OnlyOracle("marks")
    BY <2>1, Stored, OracleStored DEF MarksAs, Locals
  <2> QED BY <1>7, <2>1, <2>2 DEF MarksAs, OnlyLocal, OnlyOracle
<1>8. ASSUME pc = 11 PROVE BaselineFrame
  <2>1. Tested(vec.version < vec.min_version, 1)
    BY <1>8, BaselineStep
  <2> QED BY <1>8, <2>1 DEF Tested
<1>9. ASSUME pc = 14 PROVE BaselineFrame
  <2>1. MarksAs("VERSION_OK")
    BY <1>9, BaselineStep
  <2>2. OnlyLocal("reg") /\ OnlyOracle("marks")
    BY <2>1, Stored, OracleStored DEF MarksAs, Locals
  <2> QED BY <1>9, <2>1, <2>2 DEF MarksAs, OnlyLocal, OnlyOracle
<1>10. ASSUME pc = 16 PROVE BaselineFrame
  <2>1. PICK v : Stores("scratch", v)
    BY <1>10, BaselineStep
  <2>2. OnlyLocal("scratch")
    BY <2>1, Stored DEF Stores, Locals
  <2> QED BY <1>10, <2>1, <2>2 DEF Stores, OnlyLocal
<1>11. ASSUME pc = 17 PROVE BaselineFrame
  <2>1. PICK v : Stores("d1", v)
    BY <1>11, BaselineStep
  <2>2. OnlyLocal("d1")
    BY <2>1, Stored DEF Stores, Locals
  <2> QED BY <1>11, <2>1, <2>2 DEF Stores, OnlyLocal
<1>12. ASSUME pc = 18 PROVE BaselineFrame
  <2>1. PICK v : Stores("cmp_a", v)
    BY <1>12, BaselineStep
  <2>2. OnlyLocal("cmp_a")
    BY <2>1, Stored DEF Stores, Locals
  <2> QED BY <1>12, <2>1, <2>2 DEF Stores, OnlyLocal
<1>13. ASSUME pc = 19 PROVE BaselineFrame
  <2>1. Tested(mem.cmp_a # 0, 1)
    BY <1>13, BaselineStep
  <2> QED BY <1>13, <2>1 DEF Tested
<1>14. ASSUME pc = 22 PROVE BaselineFrame
  <2>1. MarksAs("SIG_OK")
    BY <1>14, BaselineStep
  <2>2. OnlyLocal("reg") /\ OnlyOracle("marks")
    BY <2>1, Stored, OracleStored DEF MarksAs, Locals
  <2> QED BY <1>14, <2>1, <2>2 DEF MarksAs, OnlyLocal, OnlyOracle
<1>15. ASSUME pc = 24 PROVE BaselineFrame
  <2>1. Returns("1") /\ ReturnTo[Build] = 27
    BY <1>15, BaselineStep, BaselinePlaces
  <2>2. pc' = 27 /\ UNCHANGED <<oracle, halted, accepted>>
    BY <2>1 DEF Returns
  <2>3. OnlyLocal("r0") /\ mem'.r0 = "1"
    BY <2>1, Stored DEF Returns, Locals
  <2> QED BY <1>15, <2>2, <2>3 DEF OnlyLocal
<1>16. ASSUME pc \in {25, 38} PROVE BaselineFrame
  <2>1. Ends("CPUFAULT")
    BY <1>16, BaselineStep
  <2> QED BY <1>16, <2>1 DEF Ends
<1>17. ASSUME pc = 26 PROVE BaselineFrame
  <2>1. Moves(1)
    BY <1>17, BaselineStep
  <2> QED BY <1>17, <2>1 DEF Moves
<1>18. ASSUME pc = 27 PROVE BaselineFrame
  <2>1. Tested(mem.r0 # "0", 7)
    BY <1>18, BaselineStep
  <2> QED BY <1>18, <2>1 DEF Tested
<1>19. ASSUME pc = 28 PROVE BaselineFrame
  <2>1. Publishes
    BY <1>19, BaselineStep
  <2>2. OnlyOracle("image_version")
    BY <2>1, OracleStored DEF Publishes
  <2>3. pc' = pc + 1 /\ UNCHANGED <<mem, halted>>
    BY <2>1 DEF Publishes
  <2> QED BY <1>19, <2>1, <2>2, <2>3 DEF OnlyOracle, Publishes
<1>20. ASSUME pc = 30 PROVE BaselineFrame
  <2>1. MarksAs("JUMP_TAKEN")
    BY <1>20, BaselineStep
  <2>2. OnlyLocal("reg") /\ OnlyOracle("marks")
    BY <2>1, Stored, OracleStored DEF MarksAs, Locals
  <2> QED BY <1>20, <2>1, <2>2 DEF MarksAs, OnlyLocal, OnlyOracle
<1>21. ASSUME pc = 32 PROVE BaselineFrame
  <2>1. Decides("BOOT_ACCEPT")
    BY <1>21, BaselineStep
  <2>2. OnlyOracle("verdict")
    BY <2>1, OracleStored DEF Decides
  <2>3. pc' = pc + 1 /\ UNCHANGED <<mem, halted>>
    BY <2>1 DEF Decides
  <2> QED BY <1>21, <2>2, <2>3 DEF OnlyOracle
<1>22. ASSUME pc \in {33, 36} PROVE BaselineFrame
  <2>1. Ends("ORACLE")
    BY <1>22, BaselineStep
  <2> QED BY <1>22, <2>1 DEF Ends
<1>23. ASSUME pc \in {34, 37} PROVE BaselineFrame
  <2>1. Ends("BUDGET")
    BY <1>23, BaselineStep
  <2> QED BY <1>23, <2>1 DEF Ends
<1>24. ASSUME pc = 35 PROVE BaselineFrame
  <2>1. Decides("BOOT_REJECT")
    BY <1>24, BaselineStep
  <2>2. OnlyOracle("verdict")
    BY <2>1, OracleStored DEF Decides
  <2>3. pc' = pc + 1 /\ UNCHANGED <<mem, halted>> /\ (accepted' <=> accepted)
    BY <2>1 DEF Decides
  <2> QED BY <1>24, <2>2, <2>3 DEF OnlyOracle
<1>c. \/ pc \in {1, 8, 13, 21, 29}
      \/ pc = 2
      \/ pc \in {3, 10, 15, 23, 31}
      \/ pc = 4
      \/ pc \in {5, 7, 12, 20}
      \/ pc = 6
      \/ pc = 9
      \/ pc = 11
      \/ pc = 14
      \/ pc = 16
      \/ pc = 17
      \/ pc = 18
      \/ pc = 19
      \/ pc = 22
      \/ pc = 24
      \/ pc \in {25, 38}
      \/ pc = 26
      \/ pc = 27
      \/ pc = 28
      \/ pc = 30
      \/ pc = 32
      \/ pc \in {33, 36}
      \/ pc \in {34, 37}
      \/ pc = 35
  OBVIOUS
<1> QED BY <1>1, <1>2, <1>3, <1>4, <1>5, <1>6, <1>7, <1>8, <1>9, <1>10, <1>11, <1>12, <1>13,
           <1>14, <1>15, <1>16, <1>17, <1>18, <1>19, <1>20, <1>21, <1>22, <1>23, <1>24, <1>c

(***************************************************************************)
(* One unit on in memory, past a body or not, and where a skip of one or   *)
(* two units lands.                                                        *)
(***************************************************************************)
Follows(i, j) ==
  \/ j = i + 1 /\ i \notin {61, 108}
  \/ j = i + 2 /\ i \in FailChecks
  \/ j = i + 4 /\ i \in RejectChecks
  \/ j = i /\ i \in {61, 108}

LEMMA HardenedLanding ==
  ASSUME Build = "hardened", TypeOK, NEW k \in {1, 2}, Skip(k)
  PROVE  /\ pc \in 1..108 /\ pc' \in 1..108
         /\ \E j \in 1..108 : Follows(pc, j) /\ (pc' = j \/ (k = 2 /\ Follows(j, pc')))
<1>1. DOMAIN Program = 1..108
  BY HardenedPlaces DEF Program
<1>2. pc \in 1..108
  BY <1>1 DEF TypeOK
<1>3. PICK i \in Skipped(pc, k) : pc' = i
  BY DEF Skip, Goto
<1>4. i \in 1..108
  BY <1>1, <1>3, Skipping
<1>5. \A a \in 1..108 : \A b \in NextInMemory(a) : Follows(a, b)
  BY HardenedNext DEF Follows
<1>6. CASE k = 1
  <2>1. i \in NextInMemory(pc)
    BY <1>6, Skipping
  <2> QED BY <1>2, <1>3, <1>4, <1>5, <2>1
<1>7. CASE k = 2
  <2>1. PICK j \in NextInMemory(pc) \cap DOMAIN Program : i \in NextInMemory(j)
    BY <1>7, Skipping
  <2> QED BY <1>1, <1>2, <1>3, <1>4, <1>5, <1>7, <2>1
<1> QED BY <1>6, <1>7

-----------------------------------------------------------------------------
(***************************************************************************)
(* Unfaulted, the accumulator holds at each pc exactly the stages behind   *)
(* it (verify_hardened.c).                                                 *)
(***************************************************************************)
CfiExact ==
  /\ pc \in 4..7 => mem.cfi = {}
  /\ pc \in 8..16 => mem.cfi = {"ENTER"}
  /\ pc \in 17..24 => mem.cfi = {"ENTER", "HDR"}
  /\ pc \in 25..42 => mem.cfi = {"ENTER", "HDR", "VERSION"}
  /\ pc \in 43..61 => mem.cfi = CfiExpected

LEMMA Toggles ==
  /\ Toggle({}, "ENTER") = {"ENTER"}
  /\ Toggle({"ENTER"}, "HDR") = {"ENTER", "HDR"}
  /\ Toggle({"ENTER", "HDR"}, "VERSION") = {"ENTER", "HDR", "VERSION"}
  /\ Toggle({"ENTER", "HDR", "VERSION"}, "SIG") = CfiExpected
  BY DEF Toggle, CfiExpected

LEMMA CfiStep ==
  ASSUME Build = "hardened", TypeOK, LocalsInv, Execute, CfiExact
  PROVE  CfiExact'
<1>1. pc \in 1..108
  BY HardenedPc
<1>2. HardenedFrame
  BY <1>1, HardenedFraming
<1>3. pc = 3 => mem'.cfi = {}
  <2> SUFFICES ASSUME pc = 3 PROVE mem'.cfi = {}
    OBVIOUS
  <2>1. Stores("cfi", {})
    BY HardenedStep
  <2> QED BY <2>1, Stored DEF Stores, Locals
<1>4. ASSUME NEW x, Stores("cfi", Toggle(mem.cfi, x)) PROVE mem'.cfi = Toggle(mem.cfi, x)
  BY <1>4, Stored DEF Stores, Locals
<1>5. /\ pc = 7 => mem'.cfi = Toggle(mem.cfi, "ENTER")
      /\ pc = 16 => mem'.cfi = Toggle(mem.cfi, "HDR")
      /\ pc = 24 => mem'.cfi = Toggle(mem.cfi, "VERSION")
      /\ pc = 42 => mem'.cfi = Toggle(mem.cfi, "SIG")
  BY <1>4, HardenedStep
<1>6. /\ pc = 7 => mem'.cfi = {"ENTER"}
      /\ pc = 16 => mem'.cfi = {"ENTER", "HDR"}
      /\ pc = 24 => mem'.cfi = {"ENTER", "HDR", "VERSION"}
      /\ pc = 42 => mem'.cfi = CfiExpected
  BY <1>5, Toggles DEF CfiExact
<1>7. pc \notin {3, 7, 16, 24, 42} => mem'.cfi = mem.cfi
  BY <1>2 DEF HardenedFrame
<1>8. /\ pc' \in 4..7 => pc = 3 \/ pc \in 4..6
      /\ pc' \in 8..16 => pc = 7 \/ pc \in 8..15
      /\ pc' \in 17..24 => pc = 16 \/ pc \in 17..23
      /\ pc' \in 25..42 => pc = 24 \/ pc \in 25..41
      /\ pc' \in 43..61 => pc = 42 \/ pc \in 43..61
  BY <1>1, <1>2 DEF HardenedFrame, Stops, FailReturns, FailChecks, RejectChecks
<1> QED BY <1>3, <1>6, <1>7, <1>8 DEF CfiExact

(***************************************************************************)
(* Under one skip the accumulator is exact until the skip, and behind its  *)
(* check it is complete: verify() returns PASS from there alone.           *)
(***************************************************************************)
OneFault == campaign.faults <= 1 /\ campaign.widths \subseteq {1, 2}

StageInv ==
  /\ Build = "hardened" => /\ faults = 0 => CfiExact
                           /\ pc \in 50..61 => mem.cfi = CfiExpected
                           /\ pc \in 1..63 => mem.r0 # "PASS"
  /\ Build = "baseline" => mem.r0 # "PASS"
  /\ mem.r0 = "PASS" => mem.cfi = CfiExpected

LEMMA StageStep ==
  ASSUME TypeOK, LocalsInv, OneFault, StageInv, [Next]_vars
  PROVE  StageInv'
<1>1. CASE UNCHANGED vars
  BY <1>1 DEF StageInv, CfiExact, Build, vars
<1>2. CASE Execute /\ Build = "hardened"
  <2>1. pc \in 1..108
    BY <1>2, HardenedPc
  <2>2. HardenedFrame
    BY <1>2, <2>1, HardenedFraming
  <2>3. campaign' = campaign /\ faults' = faults /\ Build' = "hardened"
    BY <1>2 DEF Execute, Build
  <2>4. faults = 0 => CfiExact'
    BY <1>2, CfiStep DEF StageInv
  <2>5. pc = 48 => pc' = 49 \/ mem.cfi = CfiExpected
    BY <1>2, HardenedStep DEF Tested
  <2>6. pc' \in 50..61 => (pc = 48 /\ pc' = 50) \/ pc \in 50..61
    BY <2>1, <2>2, HardenedStep, <1>2
       DEF HardenedFrame, Stops, FailReturns, FailChecks, RejectChecks, StageInv
  <2>7. pc' \in 50..61 => mem'.cfi = CfiExpected
    <3>1. pc \in 48..61 => mem'.cfi = mem.cfi
      BY <2>2 DEF HardenedFrame
    <3> QED BY <1>2, <2>5, <2>6, <3>1 DEF StageInv
  <2>8. pc' \in 1..63 => mem'.r0 # "PASS"
    BY <1>2, <2>1, <2>2
       DEF HardenedFrame, Stops, FailReturns, FailChecks, RejectChecks,
       StageInv
  <2>9. mem'.r0 = "PASS" => mem'.cfi = CfiExpected
    BY <1>2, <2>1, <2>2
       DEF HardenedFrame, Stops, FailReturns, FailChecks, RejectChecks,
       StageInv
  <2> QED BY <2>3, <2>4, <2>7, <2>8, <2>9 DEF StageInv
<1>3. CASE Execute /\ Build = "baseline"
  <2>1. pc \in 1..38 /\ BaselineFrame
    BY <1>3, BaselinePc, BaselineFraming
  <2>2. Build' = "baseline"
    BY <1>3 DEF Execute, Build
  <2>3. mem'.r0 # "PASS"
    BY <1>3, <2>1 DEF BaselineFrame, StageInv
  <2> QED BY <2>2, <2>3 DEF StageInv
<1>4. ASSUME NEW k \in campaign.widths, Skip(k) PROVE StageInv'
  <2>1. /\ k \in {1, 2} /\ Build' = Build /\ mem' = mem /\ faults = 0 /\ faults' = 1
    <3>1. campaign \in Campaigns /\ campaign.faults \in Nat /\ faults \in Nat
      BY CampaignAssumption DEF TypeOK
    <3> QED BY <1>4, <3>1 DEF Skip, OneFault, Build
  <2>2. CASE Build = "hardened"
    <3>1. PICK j \in 1..108 : Follows(pc, j) /\ (pc' = j \/ (k = 2 /\ Follows(j, pc')))
      BY <1>4, <2>1, <2>2, HardenedLanding
    <3>2. pc \in 1..108 /\ pc' \in 1..108
      BY <1>4, <2>1, <2>2, HardenedLanding
    <3>3. (pc' \in 50..61 => pc \in 43..61) /\ (pc' \in 1..63 => pc \in 1..63)
      BY <3>1, <3>2 DEF Follows, FailChecks, RejectChecks
    <3> QED BY <2>1, <2>2, <3>3 DEF StageInv, CfiExact
  <2>3. CASE Build = "baseline"
    BY <2>1, <2>3 DEF StageInv
  <2> QED BY <2>1, <2>2, <2>3 DEF StageInv
<1>5. Build \in {"hardened", "baseline"}
  BY CampaignAssumption DEF TypeOK, Build, Builds
<1> QED BY <1>1, <1>2, <1>3, <1>4, <1>5 DEF Next

(***************************************************************************)
(* C3 (verify_hardened.c:7-8): under one skip, of one or two units, PASS   *)
(* comes back only with the accumulator of all four stages, for every      *)
(* image and in both builds.                                               *)
(***************************************************************************)
THEOREM CfiBindsEveryStage ==
  Spec => [](campaign.widths \subseteq {1, 2} => PassMeansEveryStage)
<1> DEFINE Inv == LocalsInv /\ (OneFault => StageInv)
<1>1. Init => Inv
  <2> SUFFICES ASSUME Init PROVE LocalsInv /\ StageInv
    OBVIOUS
  <2>1. LocalsInv /\ mem.r0 = "junk"
    BY DEF Init, Unset, LocalsInv, Locals
  <2>2. Build = "hardened" => pc = 62
    BY HardenedPlaces DEF Init
  <2> QED BY <2>1, <2>2 DEF StageInv, CfiExact
<1>2. TypeOK /\ Inv /\ [Next]_vars => Inv'
  <2> SUFFICES ASSUME TypeOK, Inv, [Next]_vars PROVE Inv'
    OBVIOUS
  <2>1. campaign' = campaign
    BY DEF Next, Execute, Skip, vars
  <2> QED BY <2>1, LocalsStep, StageStep DEF OneFault
<1>3. Inv => (campaign.widths \subseteq {1, 2} => PassMeansEveryStage)
  BY DEF OneFault, StageInv, PassMeansEveryStage
<1> QED BY <1>1, <1>2, <1>3, TypeCorrect, PTL DEF Spec

-----------------------------------------------------------------------------
(***************************************************************************)
(* An image that fails the magic or the version check is tested for it     *)
(* four times. One skip removes the pair in verify() and a second the      *)
(* repeated one behind the signature, or the two skips remove the three    *)
(* tests of r in main(): either way none is left for the tests in          *)
(* jump_to_app().                                                          *)
(***************************************************************************)
TwoSkips(c) == c.faults <= 2 /\ c.widths \subseteq {1, 2}

PassTakesTwo ==
  /\ ~vec.magic => /\ pc \in 10..61 => faults >= 1
                   /\ pc \in 60..61 => faults = 2
                   /\ pc <= 92
  /\ OldVersion => /\ pc \in 22..61 => faults >= 1
                   /\ pc \in 58..61 => faults = 2
  /\ pc >= 69 => faults >= 1
  /\ pc >= 76 => faults = 2
  /\ pc <= 96
  /\ mem.r0 = "PASS" => faults = 2
  /\ mem.r = "PASS" => faults = 2
  /\ ~accepted

(***************************************************************************)
(* Executing a unit keeps the count of skips it takes, and so does a skip. *)
(***************************************************************************)
LEMMA TwoSkipsExecute ==
  ASSUME TypeOK, LocalsInv, Build = "hardened", ~vec.magic \/ OldVersion, PassTakesTwo,
         Execute, faults \in 0..2
  PROVE  PassTakesTwo'
<1>1. pc \in 1..108
  BY HardenedPc
<1>2. HardenedFrame
  BY <1>1, HardenedFraming
<1>3. campaign' = campaign /\ faults' = faults /\ vec' = vec
      /\ (OldVersion' <=> OldVersion)
  BY DEF Execute, vec, OldVersion
<1>4. /\ ~vec.magic => /\ pc \in {8, 58} => pc' = pc + 1
                       /\ pc = 90 => pc' = 91
      /\ OldVersion => /\ pc \in {20, 56} => pc' = pc + 1
                       /\ pc = 94 => pc' = 95
  BY HardenedStep DEF Tested, OldVersion
<1>5. mem.r # "PASS" => /\ pc = 65 => pc' = 66
                        /\ pc = 69 => pc' = 70
                        /\ pc = 73 => pc' = 74
  BY HardenedStep DEF Tested
<1>6. ~vec.magic => /\ pc' \in 10..61 => faults >= 1
                    /\ pc' \in 60..61 => faults = 2
                    /\ pc' <= 92 /\ pc' <= 96
  BY <1>1, <1>2, <1>4
     DEF HardenedFrame, Stops, FailReturns, FailChecks, RejectChecks,
     PassTakesTwo
<1>7. OldVersion => /\ pc' \in 22..61 => faults >= 1
                    /\ pc' \in 58..61 => faults = 2
                    /\ pc' <= 96
  BY <1>1, <1>2, <1>4
     DEF HardenedFrame, Stops, FailReturns, FailChecks, RejectChecks,
     PassTakesTwo
<1>8. (pc' >= 69 => faults >= 1) /\ (pc' >= 76 => faults = 2)
  BY <1>1, <1>2, <1>5
     DEF HardenedFrame, Stops, FailReturns, FailChecks, RejectChecks,
     PassTakesTwo
<1>9. mem'.r0 = "PASS" => faults = 2
  BY <1>2 DEF HardenedFrame, FailReturns, PassTakesTwo
<1>10. mem'.r = "PASS" => faults = 2
  <2>1. pc = 62 => mem'.r = "FAIL"
    <3>1. pc = 62 => Stores("r", "FAIL")
      BY HardenedStep
    <3> QED BY <3>1, Stored DEF Stores, Locals
  <2>2. pc = 64 => mem'.r = mem.r0
    <3>1. pc = 64 => Stores("r", mem.r0)
      BY HardenedStep
    <3> QED BY <3>1, Stored DEF Stores, Locals
  <2> QED BY <1>2, <2>1, <2>2 DEF HardenedFrame, PassTakesTwo
<1>11. ~accepted'
  BY <1>2 DEF HardenedFrame, PassTakesTwo
<1> QED BY <1>3, <1>6, <1>7, <1>8, <1>9, <1>10, <1>11 DEF PassTakesTwo

LEMMA TwoSkipsSkip ==
  ASSUME TypeOK, Build = "hardened", ~vec.magic \/ OldVersion, PassTakesTwo,
         NEW k \in {1, 2}, Skip(k), faults \in 0..1
  PROVE  PassTakesTwo'
<1>1. PICK j \in 1..108 : Follows(pc, j) /\ (pc' = j \/ (k = 2 /\ Follows(j, pc')))
  BY HardenedLanding
<1>2. pc \in 1..108 /\ pc' \in 1..108
  BY HardenedLanding
<1>3. /\ vec' = vec /\ (OldVersion' <=> OldVersion) /\ mem' = mem /\ accepted' = accepted
      /\ faults' = faults + 1
  BY DEF Skip, vec, OldVersion
<1>4. faults = 0 => /\ ~vec.magic => pc' \notin 60..61
                    /\ OldVersion => pc' \notin 58..61
                    /\ pc' <= 75
  BY <1>1, <1>2 DEF Follows, FailChecks, RejectChecks, PassTakesTwo
<1>5. faults = 1 => pc' <= 92
  BY <1>1, <1>2 DEF Follows, FailChecks, RejectChecks, PassTakesTwo
<1> QED BY <1>2, <1>3, <1>4, <1>5 DEF PassTakesTwo

(***************************************************************************)
(* An image that fails the length or the signature check is tested for it  *)
(* twice, in verify() alone. One skip that does not pass both tests leaves *)
(* one of the two standing: of the two comparisons with the tag, the one   *)
(* it does not remove fires, or else their results differ.                 *)
(***************************************************************************)
OneSkip(c) == c.faults <= 1 /\ c.widths \subseteq {1, 2}

RejectStands ==
  /\ ~vec.length => (pc \in 14..15 => faults = 1) /\ pc \notin 16..61
  /\ ~vec.signed => /\ pc \in 31..35 => mem.cmp_a # 0 \/ faults = 1
                    /\ pc \in 34..35 => mem.cmp_b # 0 \/ faults = 1
                    /\ pc \in 34..36 => mem.cmp_a # 0 \/ mem.cmp_b # 0
                    /\ pc \in 36..39 => faults = 1
                    /\ pc \in 38..39 => mem.cmp_a # mem.cmp_b
                    /\ pc \notin 40..61
  /\ mem.r0 # "PASS" /\ mem.r # "PASS"
  /\ pc <= 75 /\ (pc >= 69 => faults = 1)
  /\ ~accepted

LEMMA PairsPassed ==
  ASSUME Build = "hardened", NEW i \in 1..108, NEW j \in 1..108,
         (i <= 13 /\ j >= 16) \/ (i <= 35 /\ j >= 38)
  PROVE  PassesPair(i, j)
<1>1. /\ Hardened(12) = Check("length", 1) /\ Hardened(14) = Check("length", 1)
      /\ Hardened(34) = Check("cmp_a", 1) /\ Hardened(36) = Check("cmp_b", 1)
  BY HardenedListing
<1>2. \A n \in 1..108 : Program[n] = Hardened(n)
  BY DEF Program, Hardened
<1>3. Len(Program) = 108
  BY HardenedPlaces DEF Program
<1>4. CASE i <= 13 /\ j >= 16
  <2>1. /\ Program[12].op = "if" /\ Program[14].op = "if"
        /\ Program[12].arg = "length" /\ Program[14].arg = "length"
    BY <1>1, <1>2 DEF Check
  <2>2. 12 \in 1..(Len(Program) - 2) /\ 12 + 2 = 14 /\ i <= 12 + 1 /\ j >= 12 + 4
    BY <1>3, <1>4
  <2> HIDE DEF Program
  <2> QED BY <2>1, <2>2 DEF PassesPair, UnrepeatedPairs
<1>5. CASE i <= 35 /\ j >= 38
  <2>1. /\ Program[34].op = "if" /\ Program[36].op = "if"
        /\ Program[34].arg = "cmp_a" /\ Program[36].arg = "cmp_b"
    BY <1>1, <1>2 DEF Check
  <2>2. 34 \in 1..(Len(Program) - 2) /\ 34 + 2 = 36 /\ i <= 34 + 1 /\ j >= 34 + 4
    BY <1>3, <1>5
  <2> HIDE DEF Program
  <2> QED BY <2>1, <2>2 DEF PassesPair, UnrepeatedPairs
<1> QED BY <1>4, <1>5

(***************************************************************************)
(* Executing a unit keeps the rejection standing, and so does the one      *)
(* skip.                                                                   *)
(***************************************************************************)
LEMMA OneSkipExecute ==
  ASSUME TypeOK, LocalsInv, Build = "hardened", ~vec.length \/ ~vec.signed, RejectStands,
         Execute, faults \in 0..1
  PROVE  RejectStands'
<1>1. pc \in 1..108
  BY HardenedPc
<1>2. HardenedFrame
  BY <1>1, HardenedFraming
<1>3. faults' = faults /\ vec' = vec
  BY DEF Execute, vec
<1>4. ~vec.length /\ pc \in {12, 14} => pc' = pc + 1
  BY HardenedStep DEF Tested
<1>5. /\ pc = 34 => pc' = IF mem.cmp_a # 0 THEN 35 ELSE 36
      /\ pc = 36 => pc' = IF mem.cmp_b # 0 THEN 37 ELSE 38
      /\ pc = 38 => pc' = IF mem.cmp_a # mem.cmp_b THEN 39 ELSE 40
  BY HardenedStep DEF Tested
<1>6. pc \in {65, 69, 73} => pc' = pc + 1
  BY HardenedStep DEF Tested, RejectStands
<1>7. ~vec.signed => /\ pc = 30 => mem'.cmp_a # 0
                     /\ pc = 33 => mem'.cmp_b # 0
  <2>1. ~vec.signed => \A d : Compare(d) # 0
    BY DEF Compare
  <2>2. pc = 30 => mem'.cmp_a = Compare(mem.d1)
    <3>1. pc = 30 => Stores("cmp_a", Compare(mem.d1))
      BY HardenedStep
    <3> QED BY <3>1, Stored DEF Stores, Locals
  <2>3. pc = 33 => mem'.cmp_b = Compare(mem.d2)
    <3>1. pc = 33 => Stores("cmp_b", Compare(mem.d2))
      BY HardenedStep
    <3> QED BY <3>1, Stored DEF Stores, Locals
  <2> QED BY <2>1, <2>2, <2>3
<1>8. ~vec.length => (pc' \in 14..15 => faults = 1) /\ pc' \notin 16..61
  BY <1>1, <1>2, <1>4
     DEF HardenedFrame, Stops, FailReturns, FailChecks, RejectChecks,
     RejectStands
<1>9. ~vec.signed => /\ pc' \in 31..35 => mem'.cmp_a # 0 \/ faults = 1
                     /\ pc' \in 34..35 => mem'.cmp_b # 0 \/ faults = 1
                     /\ pc' \in 34..36 => mem'.cmp_a # 0 \/ mem'.cmp_b # 0
                     /\ pc' \in 36..39 => faults = 1
                     /\ pc' \in 38..39 => mem'.cmp_a # mem'.cmp_b
                     /\ pc' \notin 40..61
  BY <1>1, <1>2, <1>5, <1>7
     DEF HardenedFrame, Stops, FailReturns, FailChecks, RejectChecks,
     RejectStands
<1>10. pc' <= 75 /\ (pc' >= 69 => faults = 1)
  BY <1>1, <1>2, <1>6
     DEF HardenedFrame, Stops, FailReturns, FailChecks, RejectChecks,
     RejectStands
<1>11. mem'.r0 # "PASS"
  BY <1>1, <1>2 DEF HardenedFrame, FailReturns, RejectStands
<1>12. mem'.r # "PASS"
  <2>1. pc = 62 => mem'.r = "FAIL"
    <3>1. pc = 62 => Stores("r", "FAIL")
      BY HardenedStep
    <3> QED BY <3>1, Stored DEF Stores, Locals
  <2>2. pc = 64 => mem'.r = mem.r0
    <3>1. pc = 64 => Stores("r", mem.r0)
      BY HardenedStep
    <3> QED BY <3>1, Stored DEF Stores, Locals
  <2> QED BY <1>2, <2>1, <2>2 DEF HardenedFrame, RejectStands
<1>13. ~accepted'
  BY <1>2 DEF HardenedFrame, RejectStands
<1> QED BY <1>3, <1>8, <1>9, <1>10, <1>11, <1>12, <1>13 DEF RejectStands

LEMMA OneSkipSkip ==
  ASSUME TypeOK, Build = "hardened", ~vec.length \/ ~vec.signed, RejectStands,
         NEW k \in {1, 2}, Skip(k), faults = 0, ~blind'
  PROVE  RejectStands'
<1>1. PICK j \in 1..108 : Follows(pc, j) /\ (pc' = j \/ (k = 2 /\ Follows(j, pc')))
  BY HardenedLanding
<1>2. pc \in 1..108 /\ pc' \in 1..108
  BY HardenedLanding
<1>3. vec' = vec /\ mem' = mem /\ accepted' = accepted /\ faults' = 1
  BY DEF Skip, vec
<1>4. ~(pc <= 13 /\ pc' >= 16) /\ ~(pc <= 35 /\ pc' >= 38)
  <2>1. ~PassesPair(pc, pc')
    BY DEF Skip, Goto
  <2> QED BY <1>2, <2>1, PairsPassed
<1>5. pc' <= 75
  BY <1>1, <1>2 DEF Follows, FailChecks, RejectChecks, RejectStands
<1>6. ~vec.length => pc' \notin 16..61
  BY <1>1, <1>2, <1>4 DEF Follows, FailChecks, RejectChecks, RejectStands
<1>7. ~vec.signed => pc' \notin 38..61
  BY <1>1, <1>2, <1>4 DEF Follows, FailChecks, RejectChecks, RejectStands
<1>8. ~vec.signed /\ pc' \in 34..36 => mem.cmp_a # 0 \/ mem.cmp_b # 0
  <2>1. pc' \in 34..36 => pc \in 32..35
    BY <1>1, <1>2, <1>7 DEF Follows, FailChecks, RejectChecks, RejectStands
  <2> QED BY <2>1 DEF RejectStands
<1> QED BY <1>2, <1>3, <1>5, <1>6, <1>7, <1>8 DEF RejectStands

(***************************************************************************)
(* The skips the hardening is claimed for: any one (main.c:14-18), and any *)
(* two when the image fails the magic or the version check (RESULTS.md),   *)
(* of up to two units.                                                     *)
(***************************************************************************)
SkipsBorne(c) ==
  /\ c.widths \subseteq {1, 2}
  /\ \/ c.faults <= 1
     \/ c.faults <= 2 /\ (~c.vec.magic \/ c.vec.version < c.vec.min_version)

BypassInv ==
  /\ LocalsInv
  /\ Build = "hardened" /\ SkipsBorne(campaign) =>
       /\ ~vec.magic \/ OldVersion => PassTakesTwo
       /\ (~vec.length \/ ~vec.signed) /\ OneSkip(campaign) => blind \/ RejectStands

LEMMA BypassStep ==
  ASSUME TypeOK, BypassInv, [Next]_vars
  PROVE  BypassInv'
<1>1. LocalsInv'
  BY LocalsStep DEF BypassInv
<1>2. CASE UNCHANGED vars
  <2>1. /\ PassTakesTwo => PassTakesTwo'
        /\ blind \/ RejectStands => blind' \/ RejectStands'
        /\ campaign' = campaign /\ Build' = Build /\ vec' = vec /\ (OldVersion' <=> OldVersion)
    BY <1>2 DEF vars, PassTakesTwo, RejectStands, OldVersion, vec, Build
  <2> QED BY <1>1, <2>1 DEF BypassInv
<1>3. SUFFICES ASSUME Next, Build = "hardened", SkipsBorne(campaign)
      PROVE  /\ ~vec.magic \/ OldVersion => PassTakesTwo'
             /\ (~vec.length \/ ~vec.signed) /\ OneSkip(campaign) => blind' \/ RejectStands'
  <2>1. Next => /\ campaign' = campaign /\ Build' = Build /\ vec' = vec
                /\ (OldVersion' <=> OldVersion)
    BY DEF Next, Execute, Skip, Build, vec, OldVersion
  <2> QED BY <1>1, <1>2, <2>1 DEF BypassInv
<1>4. /\ campaign.faults \in Nat /\ campaign.faults <= 2 /\ faults \in 0..campaign.faults
      /\ campaign.widths \subseteq {1, 2} /\ (OneSkip(campaign) => campaign.faults <= 1)
  BY <1>3, CampaignAssumption DEF TypeOK, SkipsBorne, OneSkip
<1>5. CASE Execute
  <2>1. ~vec.magic \/ OldVersion => PassTakesTwo'
    BY <1>3, <1>4, <1>5, TwoSkipsExecute DEF BypassInv
  <2>2. (~vec.length \/ ~vec.signed) /\ OneSkip(campaign) => blind' \/ RejectStands'
    <3>1. blind' = blind
      BY <1>5 DEF Execute
    <3> QED BY <1>3, <1>4, <1>5, <3>1, OneSkipExecute DEF BypassInv
  <2> QED BY <2>1, <2>2
<1>6. ASSUME NEW k \in campaign.widths, Skip(k)
      PROVE  /\ ~vec.magic \/ OldVersion => PassTakesTwo'
             /\ (~vec.length \/ ~vec.signed) /\ OneSkip(campaign) => blind' \/ RejectStands'
  <2>1. k \in {1, 2} /\ faults \in 0..1 /\ (OneSkip(campaign) => faults = 0)
    BY <1>4, <1>6 DEF Skip, OneSkip
  <2>2. ~vec.magic \/ OldVersion => PassTakesTwo'
    BY <1>3, <1>6, <2>1, TwoSkipsSkip DEF BypassInv
  <2>3. (~vec.length \/ ~vec.signed) /\ OneSkip(campaign) => blind' \/ RejectStands'
    <3>1. blind => blind'
      BY <1>6 DEF Skip
    <3> QED BY <1>3, <1>6, <2>1, <3>1, OneSkipSkip DEF BypassInv
  <2> QED BY <2>2, <2>3
<1> QED BY <1>3, <1>5, <1>6 DEF Next

(***************************************************************************)
(* Whatever the image, and wherever the skips fall: with the skips the     *)
(* hardening is claimed for, the hardened firmware executes its ACCEPT     *)
(* store only for an image that should be accepted, or that one skip       *)
(* carried past both tests of its length or of its tag.                    *)
(***************************************************************************)
THEOREM NoSkipBypasses == Spec => [](SkipsBorne(campaign) => NoBypass)
<1>1. Init => BypassInv
  <2> SUFFICES ASSUME Init PROVE BypassInv
    OBVIOUS
  <2>1. LocalsInv /\ mem.r0 = "junk" /\ mem.r = "junk" /\ accepted = FALSE
    BY DEF Init, Unset, LocalsInv, Locals
  <2>2. Build = "hardened" => pc = 62
    BY HardenedPlaces DEF Init
  <2> QED BY <2>1, <2>2 DEF BypassInv, PassTakesTwo, RejectStands
<1>2. TypeOK /\ BypassInv /\ [Next]_vars => BypassInv'
  BY BypassStep
<1>3. TypeOK /\ BypassInv => (SkipsBorne(campaign) => NoBypass)
  <2> SUFFICES ASSUME TypeOK, BypassInv, SkipsBorne(campaign), Build = "hardened",
                      ~vec.should_accept, accepted
               PROVE  Survivor
    BY DEF NoBypass
  <2>1. ~vec.magic \/ ~vec.length \/ ~vec.signed \/ OldVersion
    BY CampaignAssumption, VectorAssumption DEF TypeOK, vec, OldVersion
  <2>2. ~vec.magic \/ OldVersion \/ OneSkip(campaign)
    BY <2>1 DEF SkipsBorne, OneSkip, vec, OldVersion
  <2>3. vec.magic /\ ~OldVersion
    BY DEF BypassInv, PassTakesTwo
  <2> QED BY <2>1, <2>2, <2>3 DEF BypassInv, RejectStands, Survivor
<1> QED BY <1>1, <1>2, <1>3, TypeCorrect, PTL DEF Spec

-----------------------------------------------------------------------------
(***************************************************************************)
(* Unfaulted, the path of the hardened program is the one its image calls  *)
(* for: which returns and rejects are reached, what the locals hold, which *)
(* marks are set, and how the run ends.                                    *)
(***************************************************************************)
Genuine == vec.magic /\ vec.length /\ ~OldVersion /\ vec.signed

Unreached == {11, 15, 23, 37, 39, 41, 49, 51, 53, 55, 57, 59, 61, 68, 70, 71, 72, 74, 75, 76,
              79, 80, 81, 83, 84, 85, 87, 88, 89, 91, 92, 93, 95, 96, 97, 104, 105, 106, 107, 108}

HardenedPath ==
  /\ pc \notin Unreached
  /\ pc = 9 => ~vec.magic
  /\ pc \in 10..61 => vec.magic
  /\ pc = 13 => ~vec.length
  /\ pc \in 14..61 => vec.length
  /\ pc = 21 => OldVersion
  /\ pc \in 22..61 => ~OldVersion
  /\ pc = 35 => ~vec.signed
  /\ pc \in 36..61 => vec.signed
  /\ pc \in 66..67 => ~Genuine
  /\ pc \in 69..103 => Genuine

HardenedLocals ==
  /\ pc \in {29, 32} => mem.scratch = "image"
  /\ pc \in 30..41 => mem.d1 = "digest"
  /\ pc \in 33..41 => mem.d2 = "digest"
  /\ pc \in 31..41 => mem.cmp_a = IF vec.signed THEN 0 ELSE 1
  /\ pc \in 34..41 => mem.cmp_b = mem.cmp_a
  /\ pc \in 47..61 => mem.r1 = "PASS"
  /\ pc \in 48..61 => mem.r2 = "PASS"
  /\ pc \in 64..103 => mem.r0 = IF Genuine THEN "PASS" ELSE "FAIL"
  /\ pc \in 65..103 => mem.r = mem.r0
  /\ pc \in 78..103 => mem.token = mem.r

HardenedMarks ==
  /\ pc \in (1..5) \cup {62, 63} => oracle.marks = {}
  /\ pc \in 6..18 => oracle.marks = {"BOOT_ENTER"}
  /\ pc \in 19..26 => oracle.marks = {"BOOT_ENTER", "HDR_OK"}
  /\ pc \in 27..44 => oracle.marks = {"BOOT_ENTER", "HDR_OK", "VERSION_OK"}
  /\ pc \in 45..61 => oracle.marks = {"BOOT_ENTER", "HDR_OK", "VERSION_OK", "SIG_OK"}
  /\ pc \in 64..100 => oracle.marks = GoldenMarks(vec) \ {"JUMP_TAKEN"}
  /\ pc \in 101..103 => oracle.marks = GoldenMarks(vec)
  /\ pc \in MarkOrs => mem.reg = oracle.marks

HardenedEnd ==
  /\ pc \in 99..103 => oracle.image_version = vec.version
  /\ pc = 67 => oracle.verdict = "BOOT_REJECT"
  /\ pc = 103 => oracle.verdict = "BOOT_ACCEPT"
  /\ accepted <=> pc = 103
  /\ halted = "no" \/ (halted = "ORACLE" /\ pc \in {67, 103})

(***************************************************************************)
(* Each check goes the way the image calls for, and verify() returns PASS  *)
(* for a genuine one.                                                      *)
(***************************************************************************)
LEMMA HardenedPathStep ==
  ASSUME TypeOK, LocalsInv, Build = "hardened", Execute, CfiExact, HardenedPath, HardenedLocals
  PROVE  HardenedPath' /\ (pc' = 64 => (pc = 60 <=> Genuine))
<1>1. pc \in 1..108
  BY HardenedPc
<1>2. HardenedFrame
  BY <1>1, HardenedFraming
<1>3. vec' = vec /\ (OldVersion' <=> OldVersion) /\ (Genuine' <=> Genuine)
  BY DEF Execute, vec, OldVersion, Genuine
<1>4. /\ pc = 8 => pc' = IF vec.magic THEN 10 ELSE 9
      /\ pc = 10 => pc' = 12
      /\ pc = 12 => pc' = IF vec.length THEN 14 ELSE 13
      /\ pc = 14 => pc' = 16
  BY HardenedStep DEF Tested, HardenedPath
<1>5. /\ pc = 20 => pc' = IF OldVersion THEN 21 ELSE 22
      /\ pc = 22 => pc' = 24
  BY HardenedStep DEF Tested, HardenedPath, OldVersion
<1>6. /\ pc = 34 => pc' = IF vec.signed THEN 36 ELSE 35
      /\ pc = 36 => pc' = 38
      /\ pc = 38 => pc' = 40
      /\ pc = 40 => pc' = 42
  BY HardenedStep DEF Tested, HardenedPath, HardenedLocals
<1>7. /\ pc = 48 => pc' = 50
      /\ pc = 50 => pc' = 52
      /\ pc = 52 => pc' = 54
      /\ pc = 54 => pc' = 56
  BY HardenedStep DEF Tested, HardenedLocals, CfiExact
<1>8. /\ pc = 56 => pc' = 58
      /\ pc = 58 => pc' = 60
      /\ pc = 90 => pc' = 94
      /\ pc = 94 => pc' = 98
  BY HardenedStep DEF Tested, HardenedPath, OldVersion, Genuine
<1>9. /\ pc = 65 => pc' = IF Genuine THEN 69 ELSE 66
      /\ pc = 69 => pc' = 73
      /\ pc = 73 => pc' = 77
  BY HardenedStep DEF Tested, HardenedPath, HardenedLocals
<1>10. /\ pc = 78 => pc' = 82
       /\ pc = 82 => pc' = 86
       /\ pc = 86 => pc' = 90
  BY HardenedStep DEF Tested, HardenedPath, HardenedLocals
<1>11. pc' \notin Unreached
  BY <1>1, <1>2, <1>4, <1>5, <1>6, <1>7, <1>8, <1>9, <1>10
     DEF HardenedFrame, Stops, FailReturns, FailChecks, RejectChecks, HardenedPath, Unreached
<1>12. /\ pc' = 9 => ~vec.magic
       /\ pc' \in 10..61 => vec.magic
       /\ pc' = 13 => ~vec.length
       /\ pc' \in 14..61 => vec.length
  BY <1>1, <1>2, <1>4
     DEF HardenedFrame, Stops, FailReturns, FailChecks, RejectChecks, HardenedPath, Unreached
<1>13. /\ pc' = 21 => OldVersion
       /\ pc' \in 22..61 => ~OldVersion
  BY <1>1, <1>2, <1>5
     DEF HardenedFrame, Stops, FailReturns, FailChecks, RejectChecks, HardenedPath, Unreached
<1>14. /\ pc' = 35 => ~vec.signed
       /\ pc' \in 36..61 => vec.signed
  BY <1>1, <1>2, <1>6
     DEF HardenedFrame, Stops, FailReturns, FailChecks, RejectChecks, HardenedPath, Unreached
<1>15. /\ pc' \in 66..67 => ~Genuine
       /\ pc' \in 69..103 => Genuine
  BY <1>1, <1>2, <1>9
     DEF HardenedFrame, Stops, FailReturns, FailChecks, RejectChecks, HardenedPath, Unreached
<1>16. pc' = 64 => (pc = 60 <=> Genuine)
  <2>1. pc' = 64 => pc \in {9, 13, 21, 35, 60}
    BY <1>1, <1>2
       DEF HardenedFrame, Stops, FailReturns, FailChecks, RejectChecks,
       HardenedPath, Unreached
  <2> QED BY <2>1 DEF HardenedPath, Genuine
<1> QED BY <1>3, <1>11, <1>12, <1>13, <1>14, <1>15, <1>16 DEF HardenedPath

(***************************************************************************)
(* The digests, the comparisons and the results.                           *)
(***************************************************************************)
LEMMA HardenedLocalsStep ==
  ASSUME TypeOK, LocalsInv, Build = "hardened", Execute, HardenedPath, HardenedLocals, HardenedPath',
         pc' = 64 => (pc = 60 <=> Genuine)
  PROVE  HardenedLocals'
<1>1. pc \in 1..108
  BY HardenedPc
<1>2. HardenedFrame
  BY <1>1, HardenedFraming
<1>3. vec' = vec /\ (Genuine' <=> Genuine)
  BY DEF Execute, vec, OldVersion, Genuine
<1>4. /\ pc \in {28, 31} => mem'.scratch = "image"
      /\ pc = 29 => mem'.d1 = "digest"
      /\ pc = 32 => mem'.d2 = "digest"
  <2>1. pc \in {28, 31} => mem'.scratch = "image"
    <3>1. pc \in {28, 31} => Stores("scratch", "image")
      BY HardenedStep
    <3> QED BY <3>1, Stored DEF Stores, Locals
  <2>2. pc = 29 => mem'.d1 = Digest
    <3>1. pc = 29 => Stores("d1", Digest)
      BY HardenedStep
    <3> QED BY <3>1, Stored DEF Stores, Locals
  <2>3. pc = 32 => mem'.d2 = Digest
    <3>1. pc = 32 => Stores("d2", Digest)
      BY HardenedStep
    <3> QED BY <3>1, Stored DEF Stores, Locals
  <2> QED BY <2>1, <2>2, <2>3 DEF HardenedLocals, Digest
<1>5. /\ pc = 30 => mem'.cmp_a = IF vec.signed THEN 0 ELSE 1
      /\ pc = 33 => mem'.cmp_b = IF vec.signed THEN 0 ELSE 1
  <2>1. Compare("digest") = IF vec.signed THEN 0 ELSE 1
    BY DEF Compare
  <2>2. pc = 30 => mem'.cmp_a = Compare(mem.d1)
    <3>1. pc = 30 => Stores("cmp_a", Compare(mem.d1))
      BY HardenedStep
    <3> QED BY <3>1, Stored DEF Stores, Locals
  <2>3. pc = 33 => mem'.cmp_b = Compare(mem.d2)
    <3>1. pc = 33 => Stores("cmp_b", Compare(mem.d2))
      BY HardenedStep
    <3> QED BY <3>1, Stored DEF Stores, Locals
  <2>4. pc = 33 => mem.d2 = "digest"
    BY DEF HardenedLocals
  <2>5. pc = 30 => mem.d1 = "digest"
    BY DEF HardenedLocals
  <2> QED BY <2>1, <2>2, <2>3, <2>4, <2>5
<1>6. /\ pc = 46 => mem'.r1 = "PASS"
      /\ pc = 47 => mem'.r2 = "PASS"
      /\ pc = 64 => mem'.r = mem.r0
      /\ pc = 77 => mem'.token = mem.r
  <2>1. /\ pc = 46 => Stores("r1", "PASS")
        /\ pc = 47 => Stores("r2", "PASS")
        /\ pc = 64 => Stores("r", mem.r0)
        /\ pc = 77 => Stores("token", mem.r)
    BY HardenedStep
  <2> QED BY <2>1, Stored DEF Stores, Locals
<1>7. /\ pc' \in {29, 32} => pc \in {28, 31}
      /\ pc' \in 30..41 => pc = 29 \/ pc \in 30..40
      /\ pc' \in 33..41 => pc = 32 \/ pc \in 33..40
      /\ pc' \in 31..41 => pc = 30 \/ pc \in 31..40
      /\ pc' \in 34..41 => pc = 33 \/ pc \in 34..40
  BY <1>1, <1>2 DEF HardenedFrame, Stops, FailReturns, FailChecks, RejectChecks
<1>8. /\ pc' \in 47..61 => pc = 46 \/ pc \in 47..61
      /\ pc' \in 48..61 => pc = 47 \/ pc \in 48..61
  BY <1>1, <1>2 DEF HardenedFrame, Stops, FailReturns, FailChecks, RejectChecks
<1>9. /\ pc' \in 64..103 => pc' = 64 \/ pc \in 64..103
      /\ pc' \in 65..103 => pc = 64 \/ pc \in 65..103
      /\ pc' \in 78..103 => pc = 77 \/ pc \in 78..103
  BY <1>1, <1>2
     DEF HardenedFrame, Stops, FailReturns, FailChecks, RejectChecks, HardenedPath,
     Unreached
<1>10. pc' = 64 => mem'.r0 = IF Genuine THEN "PASS" ELSE "FAIL"
  <2>1. pc' = 64 => pc = 60 \/ pc \in FailReturns
    BY <1>1, <1>2 DEF HardenedFrame, Stops, FailReturns, FailChecks, RejectChecks
  <2>2. pc \in FailReturns => pc # 60
    BY DEF FailReturns
  <2> QED BY <1>2, <2>1, <2>2 DEF HardenedFrame
<1>11. /\ pc' \in {29, 32} => mem'.scratch = "image"
       /\ pc' \in 30..41 => mem'.d1 = "digest"
       /\ pc' \in 33..41 => mem'.d2 = "digest"
  BY <1>2, <1>4, <1>7 DEF HardenedFrame, HardenedLocals
<1>12. /\ pc' \in 31..41 => mem'.cmp_a = IF vec.signed THEN 0 ELSE 1
       /\ pc' \in 34..41 => mem'.cmp_b = mem'.cmp_a
  BY <1>2, <1>5, <1>7 DEF HardenedFrame, HardenedLocals
<1>13. /\ pc' \in 47..61 => mem'.r1 = "PASS"
       /\ pc' \in 48..61 => mem'.r2 = "PASS"
  BY <1>2, <1>6, <1>8 DEF HardenedFrame, HardenedLocals
<1>14. pc' \in 64..103 => mem'.r0 = IF Genuine THEN "PASS" ELSE "FAIL"
  <2>1. pc \in 64..103 => mem'.r0 = mem.r0
    BY <1>2 DEF HardenedFrame, FailReturns
  <2> QED BY <1>9, <1>10, <2>1 DEF HardenedLocals
<1>15. /\ pc' \in 65..103 => mem'.r = mem'.r0
       /\ pc' \in 78..103 => mem'.token = mem'.r
  <2>1. pc \in 64..103 => mem'.r0 = mem.r0
    BY <1>2 DEF HardenedFrame, FailReturns
  <2> QED BY <1>2, <1>6, <1>9, <2>1 DEF HardenedFrame, HardenedLocals
<1> QED BY <1>3, <1>11, <1>12, <1>13, <1>14, <1>15 DEF HardenedLocals

(***************************************************************************)
(* The golden marks by how far the image gets.                             *)
(***************************************************************************)
LEMMA GoldenFacts ==
  ASSUME TypeOK
  PROVE  /\ vec.should_accept <=> Genuine
         /\ ~vec.magic \/ ~vec.length => GoldenMarks(vec) \ {"JUMP_TAKEN"} = {"BOOT_ENTER"}
         /\ vec.magic /\ vec.length /\ OldVersion =>
              GoldenMarks(vec) \ {"JUMP_TAKEN"} = {"BOOT_ENTER", "HDR_OK"}
         /\ vec.magic /\ vec.length /\ ~OldVersion /\ ~vec.signed =>
              GoldenMarks(vec) \ {"JUMP_TAKEN"} = {"BOOT_ENTER", "HDR_OK", "VERSION_OK"}
         /\ Genuine =>
              GoldenMarks(vec) \ {"JUMP_TAKEN"} = {"BOOT_ENTER", "HDR_OK", "VERSION_OK", "SIG_OK"}
         /\ Genuine => GoldenMarks(vec) = (GoldenMarks(vec) \ {"JUMP_TAKEN"}) \cup {"JUMP_TAKEN"}
         /\ ~Genuine => GoldenMarks(vec) \ {"JUMP_TAKEN"} = GoldenMarks(vec)
<1>1. vec.version \in Nat /\ vec.min_version \in Nat
  BY CampaignAssumption DEF TypeOK, vec
<1>2. OldVersion <=> ~(vec.version >= vec.min_version)
  BY <1>1 DEF OldVersion
<1>3. vec.should_accept <=> Genuine
  BY <1>2, VectorAssumption DEF TypeOK, vec, Genuine
<1>4. ASSUME NEW a, a = GoldenMarks(vec)
      PROVE  /\ "BOOT_ENTER" \in a
             /\ "HDR_OK" \in a <=> vec.magic /\ vec.length
             /\ "VERSION_OK" \in a <=> vec.magic /\ vec.length /\ ~OldVersion
             /\ ("SIG_OK" \in a <=> Genuine) /\ ("JUMP_TAKEN" \in a <=> Genuine)
             /\ a \subseteq {"BOOT_ENTER", "HDR_OK", "VERSION_OK", "SIG_OK", "JUMP_TAKEN"}
  BY <1>2, <1>3, <1>4 DEF GoldenMarks
<1> DEFINE a == GoldenMarks(vec)
<1>5. /\ "BOOT_ENTER" \in a
      /\ "HDR_OK" \in a <=> vec.magic /\ vec.length
      /\ "VERSION_OK" \in a <=> vec.magic /\ vec.length /\ ~OldVersion
      /\ ("SIG_OK" \in a <=> Genuine) /\ ("JUMP_TAKEN" \in a <=> Genuine)
      /\ a \subseteq {"BOOT_ENTER", "HDR_OK", "VERSION_OK", "SIG_OK", "JUMP_TAKEN"}
  BY <1>4
<1> HIDE DEF a
<1>6. ~vec.magic \/ ~vec.length => a \ {"JUMP_TAKEN"} = {"BOOT_ENTER"}
  BY <1>5 DEF Genuine
<1>7. vec.magic /\ vec.length /\ OldVersion => a \ {"JUMP_TAKEN"} = {"BOOT_ENTER", "HDR_OK"}
  BY <1>5 DEF Genuine
<1>8. vec.magic /\ vec.length /\ ~OldVersion /\ ~vec.signed =>
        a \ {"JUMP_TAKEN"} = {"BOOT_ENTER", "HDR_OK", "VERSION_OK"}
  BY <1>5 DEF Genuine
<1>9. Genuine => a \ {"JUMP_TAKEN"} = {"BOOT_ENTER", "HDR_OK", "VERSION_OK", "SIG_OK"}
  BY <1>5 DEF Genuine
<1>10. /\ Genuine => a = (a \ {"JUMP_TAKEN"}) \cup {"JUMP_TAKEN"}
       /\ ~Genuine => a \ {"JUMP_TAKEN"} = a
  BY <1>5
<1> QED BY <1>3, <1>6, <1>7, <1>8, <1>9, <1>10 DEF a

(***************************************************************************)
(* The marks set so far are the golden ones.                               *)
(***************************************************************************)
LEMMA HardenedMarksStep ==
  ASSUME TypeOK, LocalsInv, Build = "hardened", Execute, HardenedPath, HardenedMarks
  PROVE  HardenedMarks'
<1>1. pc \in 1..108
  BY HardenedPc
<1>2. HardenedFrame
  BY <1>1, HardenedFraming
<1>3. GoldenMarks(vec)' = GoldenMarks(vec)
  BY DEF Execute, vec, GoldenMarks
<1>4. ASSUME NEW m, MarksAs(m), pc \in MarkOrs PROVE oracle'.marks = oracle.marks \cup {m}
  BY <1>4, OracleStored DEF MarksAs, HardenedMarks
<1>5. /\ pc = 5 => oracle'.marks = oracle.marks \cup {"BOOT_ENTER"}
      /\ pc = 18 => oracle'.marks = oracle.marks \cup {"HDR_OK"}
      /\ pc = 26 => oracle'.marks = oracle.marks \cup {"VERSION_OK"}
      /\ pc = 44 => oracle'.marks = oracle.marks \cup {"SIG_OK"}
      /\ pc = 100 => oracle'.marks = oracle.marks \cup {"JUMP_TAKEN"}
  BY <1>4, HardenedStep DEF MarkOrs
<1>6. /\ pc = 5 => oracle'.marks = {"BOOT_ENTER"}
      /\ pc = 18 => oracle'.marks = {"BOOT_ENTER", "HDR_OK"}
      /\ pc = 26 => oracle'.marks = {"BOOT_ENTER", "HDR_OK", "VERSION_OK"}
      /\ pc = 44 => oracle'.marks = {"BOOT_ENTER", "HDR_OK", "VERSION_OK", "SIG_OK"}
  <2>1. /\ pc = 5 => oracle.marks = {}
        /\ pc = 18 => oracle.marks = {"BOOT_ENTER"}
        /\ pc = 26 => oracle.marks = {"BOOT_ENTER", "HDR_OK"}
        /\ pc = 44 => oracle.marks = {"BOOT_ENTER", "HDR_OK", "VERSION_OK"}
    BY DEF HardenedMarks
  <2> QED BY <1>5, <2>1
<1>7. pc = 100 => oracle'.marks = GoldenMarks(vec)
  BY <1>5, GoldenFacts DEF HardenedMarks, HardenedPath
<1>8. pc \in MarkLoads => mem'.reg = oracle.marks
  <2>1. pc \in MarkLoads => Stores("reg", oracle.marks)
    BY HardenedStep DEF MarkLoads
  <2> QED BY <2>1, Stored DEF Stores, Locals
<1>9. pc \notin MarkOrs => oracle'.marks = oracle.marks
  BY <1>2 DEF HardenedFrame
<1>10. pc' \in MarkOrs => mem'.reg = oracle'.marks
  <2>1. pc' \in MarkOrs => pc \in MarkLoads
    BY <1>1, <1>2
       DEF HardenedFrame, Stops, FailReturns, FailChecks, RejectChecks, MarkOrs,
       MarkLoads
  <2>2. pc \in MarkLoads => pc \notin MarkOrs
    BY DEF MarkOrs, MarkLoads
  <2> QED BY <1>8, <1>9, <2>1, <2>2
<1>11. /\ pc' \in (1..5) \cup {62, 63} => pc \in (1..4) \cup {62, 63}
       /\ pc' \in 6..18 => pc \in 5..17
       /\ pc' \in 19..26 => pc \in 18..25
       /\ pc' \in 27..44 => pc \in 26..43
       /\ pc' \in 45..61 => pc \in 44..60
  BY <1>1, <1>2
     DEF HardenedFrame, Stops, FailReturns, FailChecks, RejectChecks, HardenedPath,
     Unreached
<1>12. /\ pc' \in 65..100 => pc \in 64..99
       /\ pc' \in 101..103 => pc \in 100..103
       /\ pc' = 64 => pc \in {9, 13, 21, 35, 60}
  BY <1>1, <1>2
     DEF HardenedFrame, Stops, FailReturns, FailChecks, RejectChecks, HardenedPath,
     Unreached
<1>13. /\ pc' \in (1..5) \cup {62, 63} => oracle'.marks = {}
       /\ pc' \in 6..18 => oracle'.marks = {"BOOT_ENTER"}
       /\ pc' \in 19..26 => oracle'.marks = {"BOOT_ENTER", "HDR_OK"}
       /\ pc' \in 27..44 => oracle'.marks = {"BOOT_ENTER", "HDR_OK", "VERSION_OK"}
       /\ pc' \in 45..61 => oracle'.marks = {"BOOT_ENTER", "HDR_OK", "VERSION_OK", "SIG_OK"}
  BY <1>1, <1>6, <1>9, <1>11 DEF HardenedMarks, MarkOrs
<1>14. pc' = 64 => oracle'.marks = GoldenMarks(vec) \ {"JUMP_TAKEN"}
  <2>1. pc \in {9, 13, 21, 35, 60} => pc \notin MarkOrs
    BY DEF MarkOrs
  <2>2. /\ pc \in {9, 13} => (~vec.magic \/ ~vec.length) /\ oracle.marks = {"BOOT_ENTER"}
        /\ pc = 21 => /\ vec.magic /\ vec.length /\ OldVersion
                      /\ oracle.marks = {"BOOT_ENTER", "HDR_OK"}
        /\ pc = 35 => /\ vec.magic /\ vec.length /\ ~OldVersion /\ ~vec.signed
                      /\ oracle.marks = {"BOOT_ENTER", "HDR_OK", "VERSION_OK"}
        /\ pc = 60 => /\ Genuine
                      /\ oracle.marks = {"BOOT_ENTER", "HDR_OK", "VERSION_OK", "SIG_OK"}
    BY DEF HardenedPath, HardenedMarks, Genuine
  <2> QED BY <1>9, <1>12, <2>1, <2>2, GoldenFacts
<1>15. /\ pc' \in 65..100 => oracle'.marks = GoldenMarks(vec) \ {"JUMP_TAKEN"}
       /\ pc' \in 101..103 => oracle'.marks = GoldenMarks(vec)
  BY <1>7, <1>9, <1>12 DEF HardenedMarks, MarkOrs
<1>16. pc' \in 64..100 => oracle'.marks = GoldenMarks(vec) \ {"JUMP_TAKEN"}
  BY <1>14, <1>15
<1> QED BY <1>3, <1>10, <1>13, <1>15, <1>16 DEF HardenedMarks

(***************************************************************************)
(* The verdict, the image version and the end.                             *)
(***************************************************************************)
LEMMA HardenedEndStep ==
  ASSUME TypeOK, LocalsInv, Build = "hardened", Execute, HardenedPath, HardenedEnd
  PROVE  HardenedEnd'
<1>1. pc \in 1..108 /\ halted = "no"
  BY HardenedPc DEF Execute, Running
<1>2. HardenedFrame
  BY <1>1, HardenedFraming
<1>3. vec' = vec
  BY DEF Execute, vec
<1>4. pc = 98 => oracle'.image_version = vec.version
  <2>1. pc = 98 => Publishes
    BY HardenedStep
  <2> QED BY <2>1, OracleStored DEF Publishes
<1>5. /\ pc = 66 => oracle'.verdict = "BOOT_REJECT"
      /\ pc = 102 => oracle'.verdict = "BOOT_ACCEPT" /\ accepted'
  <2>1. /\ pc = 66 => Decides("BOOT_REJECT")
        /\ pc = 102 => Decides("BOOT_ACCEPT")
    BY HardenedStep
  <2> QED BY <2>1, OracleStored DEF Decides
<1>6. pc \in {67, 103} => halted' = "ORACLE" /\ pc' = pc
  BY HardenedStep DEF Ends
<1>7. /\ pc' \in 99..103 => pc \in 98..103
      /\ pc' = 67 => pc \in {66, 67}
      /\ pc' = 103 => pc \in {102, 103}
      /\ pc = 102 => pc' = 103
      /\ pc = 103 => pc' = 103
  BY <1>1, <1>2
     DEF HardenedFrame, Stops, FailReturns, FailChecks, RejectChecks, HardenedPath,
     Unreached
<1>8. pc' \in 99..103 => oracle'.image_version = vec.version
  BY <1>2, <1>4, <1>7 DEF HardenedFrame, HardenedEnd
<1>9. pc' = 67 => oracle'.verdict = "BOOT_REJECT"
  BY <1>2, <1>5, <1>7 DEF HardenedFrame, HardenedEnd, VerdictUnits
<1>10. pc' = 103 => oracle'.verdict = "BOOT_ACCEPT"
  BY <1>2, <1>5, <1>7 DEF HardenedFrame, HardenedEnd, VerdictUnits
<1>11. accepted' <=> pc' = 103
  BY <1>2, <1>5, <1>7 DEF HardenedFrame, HardenedEnd
<1>12. halted' = "no" \/ (halted' = "ORACLE" /\ pc' \in {67, 103})
  <2>1. pc \in Stops => pc \in {67, 103}
    BY DEF Stops, HardenedPath, Unreached
  <2> QED BY <1>1, <1>2, <1>6, <2>1 DEF HardenedFrame
<1> QED BY <1>3, <1>8, <1>9, <1>10, <1>11, <1>12 DEF HardenedEnd

-----------------------------------------------------------------------------
(***************************************************************************)
(* The same for the baseline program.                                      *)
(***************************************************************************)
BaselinePath ==
  /\ pc \notin {25, 34, 37, 38}
  /\ pc = 5 => ~vec.magic
  /\ pc \in 6..24 => vec.magic
  /\ pc = 7 => ~vec.length
  /\ pc \in 8..24 => vec.length
  /\ pc = 12 => OldVersion
  /\ pc \in 13..24 => ~OldVersion
  /\ pc = 20 => ~vec.signed
  /\ pc \in 21..24 => vec.signed
  /\ pc \in 28..33 => Genuine
  /\ pc \in 35..36 => ~Genuine

BaselineLocals ==
  /\ pc = 17 => mem.scratch = "image"
  /\ pc = 18 => mem.d1 = "digest"
  /\ pc = 19 => mem.cmp_a = IF vec.signed THEN 0 ELSE 1
  /\ pc = 27 => mem.r0 = IF Genuine THEN "1" ELSE "0"

BaselineMarks ==
  /\ pc \in {1, 2, 26} => oracle.marks = {}
  /\ pc \in 3..9 => oracle.marks = {"BOOT_ENTER"}
  /\ pc \in 10..14 => oracle.marks = {"BOOT_ENTER", "HDR_OK"}
  /\ pc \in 15..22 => oracle.marks = {"BOOT_ENTER", "HDR_OK", "VERSION_OK"}
  /\ pc \in 23..24 => oracle.marks = {"BOOT_ENTER", "HDR_OK", "VERSION_OK", "SIG_OK"}
  /\ pc \in (27..30) \cup {35, 36} => oracle.marks = GoldenMarks(vec) \ {"JUMP_TAKEN"}
  /\ pc \in 31..33 => oracle.marks = GoldenMarks(vec)
  /\ pc \in {2, 9, 14, 22, 30} => mem.reg = oracle.marks

BaselineEnd ==
  /\ pc \in 29..33 => oracle.image_version = vec.version
  /\ pc = 36 => oracle.verdict = "BOOT_REJECT"
  /\ pc = 33 => oracle.verdict = "BOOT_ACCEPT"
  /\ accepted <=> pc = 33
  /\ halted = "no" \/ (halted = "ORACLE" /\ pc \in {33, 36})

(***************************************************************************)
(* Each part is kept by every unit.                                        *)
(***************************************************************************)
LEMMA BaselinePathStep ==
  ASSUME TypeOK, LocalsInv, Build = "baseline", Execute, BaselinePath, BaselineLocals
  PROVE  BaselinePath' /\ BaselineLocals'
<1>1. pc \in 1..38
  BY BaselinePc
<1>2. BaselineFrame
  BY <1>1, BaselineFraming
<1>3. vec' = vec /\ (OldVersion' <=> OldVersion) /\ (Genuine' <=> Genuine)
  BY DEF Execute, vec, OldVersion, Genuine
<1>4. /\ pc = 4 => pc' = IF vec.magic THEN 6 ELSE 5
      /\ pc = 6 => pc' = IF vec.length THEN 8 ELSE 7
      /\ pc = 11 => pc' = IF OldVersion THEN 12 ELSE 13
  BY BaselineStep DEF Tested, BaselinePath, OldVersion
<1>5. /\ pc = 19 => pc' = IF vec.signed THEN 21 ELSE 20
      /\ pc = 27 => pc' = IF Genuine THEN 28 ELSE 35
  BY BaselineStep DEF Tested, BaselinePath, BaselineLocals
<1>6. pc' \notin {25, 34, 37, 38}
  BY <1>1, <1>2, <1>5 DEF BaselineFrame, BaselinePath
<1>7. /\ pc' = 5 => ~vec.magic
      /\ pc' \in 6..24 => vec.magic
      /\ pc' = 7 => ~vec.length
      /\ pc' \in 8..24 => vec.length
  BY <1>1, <1>2, <1>4 DEF BaselineFrame, BaselinePath
<1>8. /\ pc' = 12 => OldVersion
      /\ pc' \in 13..24 => ~OldVersion
  BY <1>1, <1>2, <1>4 DEF BaselineFrame, BaselinePath
<1>9. /\ pc' = 20 => ~vec.signed
      /\ pc' \in 21..24 => vec.signed
      /\ pc' \in 28..33 => Genuine
      /\ pc' \in 35..36 => ~Genuine
  BY <1>1, <1>2, <1>5 DEF BaselineFrame, BaselinePath
<1>10. pc' = 17 => mem'.scratch = "image"
  <2>1. pc' = 17 => pc = 16
    BY <1>1, <1>2 DEF BaselineFrame
  <2>2. pc = 16 => Stores("scratch", "image")
    BY BaselineStep
  <2> QED BY <2>1, <2>2, Stored DEF Stores, Locals
<1>11. pc' = 18 => mem'.d1 = "digest"
  <2>1. pc' = 18 => pc = 17
    BY <1>1, <1>2 DEF BaselineFrame
  <2>2. pc = 17 => Stores("d1", Digest)
    BY BaselineStep
  <2>3. pc = 17 => mem'.d1 = Digest
    BY <2>2, Stored DEF Stores, Locals
  <2> QED BY <2>1, <2>3 DEF BaselineLocals, Digest
<1>12. pc' = 19 => mem'.cmp_a = IF vec.signed THEN 0 ELSE 1
  <2>1. pc' = 19 => pc = 18
    BY <1>1, <1>2 DEF BaselineFrame
  <2>2. pc = 18 => Stores("cmp_a", Compare(mem.d1))
    BY BaselineStep
  <2>3. pc = 18 => mem'.cmp_a = Compare(mem.d1)
    BY <2>2, Stored DEF Stores, Locals
  <2>4. Compare("digest") = IF vec.signed THEN 0 ELSE 1
    BY DEF Compare
  <2>5. pc = 18 => mem.d1 = "digest"
    BY DEF BaselineLocals
  <2> QED BY <2>1, <2>3, <2>4, <2>5
<1>13. pc' = 27 => mem'.r0 = IF Genuine THEN "1" ELSE "0"
  <2>1. pc' = 27 => pc \in {5, 7, 12, 20, 24}
    BY <1>1, <1>2 DEF BaselineFrame, BaselinePath
  <2>2. pc \in {5, 7, 12, 20} => ~Genuine /\ mem'.r0 = "0"
    BY <1>2 DEF BaselineFrame, BaselinePath, Genuine
  <2>3. pc = 24 => Genuine /\ mem'.r0 = "1"
    BY <1>2 DEF BaselineFrame, BaselinePath, Genuine
  <2> QED BY <2>1, <2>2, <2>3
<1>14. BaselinePath'
  BY <1>3, <1>6, <1>7, <1>8, <1>9 DEF BaselinePath
<1> QED BY <1>3, <1>10, <1>11, <1>12, <1>13, <1>14 DEF BaselineLocals

LEMMA BaselineMarksStep ==
  ASSUME TypeOK, LocalsInv, Build = "baseline", Execute, BaselinePath, BaselineMarks
  PROVE  BaselineMarks'
<1> DEFINE ors == {2, 9, 14, 22, 30}
           loads == {1, 8, 13, 21, 29}
<1>1. pc \in 1..38
  BY BaselinePc
<1>2. BaselineFrame
  BY <1>1, BaselineFraming
<1>3. GoldenMarks(vec)' = GoldenMarks(vec)
  BY DEF Execute, vec, GoldenMarks
<1>4. ASSUME NEW m, MarksAs(m), pc \in ors PROVE oracle'.marks = oracle.marks \cup {m}
  BY <1>4, OracleStored DEF MarksAs, BaselineMarks
<1>5. /\ pc = 2 => oracle'.marks = oracle.marks \cup {"BOOT_ENTER"}
      /\ pc = 9 => oracle'.marks = oracle.marks \cup {"HDR_OK"}
      /\ pc = 14 => oracle'.marks = oracle.marks \cup {"VERSION_OK"}
      /\ pc = 22 => oracle'.marks = oracle.marks \cup {"SIG_OK"}
      /\ pc = 30 => oracle'.marks = oracle.marks \cup {"JUMP_TAKEN"}
  BY <1>4, BaselineStep
<1>6. /\ pc = 2 => oracle'.marks = {"BOOT_ENTER"}
      /\ pc = 9 => oracle'.marks = {"BOOT_ENTER", "HDR_OK"}
      /\ pc = 14 => oracle'.marks = {"BOOT_ENTER", "HDR_OK", "VERSION_OK"}
      /\ pc = 22 => oracle'.marks = {"BOOT_ENTER", "HDR_OK", "VERSION_OK", "SIG_OK"}
  <2>1. /\ pc = 2 => oracle.marks = {}
        /\ pc = 9 => oracle.marks = {"BOOT_ENTER"}
        /\ pc = 14 => oracle.marks = {"BOOT_ENTER", "HDR_OK"}
        /\ pc = 22 => oracle.marks = {"BOOT_ENTER", "HDR_OK", "VERSION_OK"}
    BY DEF BaselineMarks
  <2> QED BY <1>5, <2>1
<1>7. pc = 30 => oracle'.marks = GoldenMarks(vec)
  BY <1>5, GoldenFacts DEF BaselineMarks, BaselinePath
<1>8. pc \in loads => mem'.reg = oracle.marks
  <2>1. pc \in loads => Stores("reg", oracle.marks)
    BY BaselineStep
  <2> QED BY <2>1, Stored DEF Stores, Locals
<1>9. pc \notin ors => oracle'.marks = oracle.marks
  BY <1>2 DEF BaselineFrame
<1>10. pc' \in ors => mem'.reg = oracle'.marks
  <2>1. pc' \in ors => pc \in loads
    BY <1>1, <1>2 DEF BaselineFrame
  <2>2. pc \in loads => pc \notin ors
    OBVIOUS
  <2> QED BY <1>8, <1>9, <2>1, <2>2
<1>11. /\ pc' \in {1, 2, 26} => pc \in {1, 26}
       /\ pc' \in 3..9 => pc \in 2..8
       /\ pc' \in 10..14 => pc \in 9..13
       /\ pc' \in 15..22 => pc \in 14..21
       /\ pc' \in 23..24 => pc \in 22..23
       /\ pc' \in (28..30) \cup {35, 36} => pc \in (27..29) \cup {35, 36}
       /\ pc' \in 31..33 => pc \in 30..33
       /\ pc' = 27 => pc \in {5, 7, 12, 20, 24}
  BY <1>1, <1>2 DEF BaselineFrame, BaselinePath
<1>12. /\ pc' \in {1, 2, 26} => oracle'.marks = {}
       /\ pc' \in 3..9 => oracle'.marks = {"BOOT_ENTER"}
       /\ pc' \in 10..14 => oracle'.marks = {"BOOT_ENTER", "HDR_OK"}
       /\ pc' \in 15..22 => oracle'.marks = {"BOOT_ENTER", "HDR_OK", "VERSION_OK"}
       /\ pc' \in 23..24 => oracle'.marks = {"BOOT_ENTER", "HDR_OK", "VERSION_OK", "SIG_OK"}
  BY <1>1, <1>6, <1>9, <1>11 DEF BaselineMarks
<1>13. pc' = 27 => oracle'.marks = GoldenMarks(vec) \ {"JUMP_TAKEN"}
  <2>1. /\ pc \in {5, 7} => (~vec.magic \/ ~vec.length) /\ oracle.marks = {"BOOT_ENTER"}
        /\ pc = 12 => /\ vec.magic /\ vec.length /\ OldVersion
                      /\ oracle.marks = {"BOOT_ENTER", "HDR_OK"}
        /\ pc = 20 => /\ vec.magic /\ vec.length /\ ~OldVersion /\ ~vec.signed
                      /\ oracle.marks = {"BOOT_ENTER", "HDR_OK", "VERSION_OK"}
        /\ pc = 24 => /\ Genuine
                      /\ oracle.marks = {"BOOT_ENTER", "HDR_OK", "VERSION_OK", "SIG_OK"}
    BY DEF BaselinePath, BaselineMarks, Genuine
  <2>2. pc \in {5, 7, 12, 20, 24} => pc \notin ors
    OBVIOUS
  <2> QED BY <1>9, <1>11, <2>1, <2>2, GoldenFacts
<1>14. /\ pc' \in (28..30) \cup {35, 36} => oracle'.marks = GoldenMarks(vec) \ {"JUMP_TAKEN"}
       /\ pc' \in 31..33 => oracle'.marks = GoldenMarks(vec)
  BY <1>7, <1>9, <1>11 DEF BaselineMarks
<1>15. pc' \in (27..30) \cup {35, 36} => oracle'.marks = GoldenMarks(vec) \ {"JUMP_TAKEN"}
  BY <1>13, <1>14
<1> QED BY <1>3, <1>10, <1>12, <1>14, <1>15 DEF BaselineMarks

LEMMA BaselineEndStep ==
  ASSUME TypeOK, LocalsInv, Build = "baseline", Execute, BaselinePath, BaselineEnd
  PROVE  BaselineEnd'
<1>1. pc \in 1..38 /\ halted = "no"
  BY BaselinePc DEF Execute, Running
<1>2. BaselineFrame
  BY <1>1, BaselineFraming
<1>3. vec' = vec
  BY DEF Execute, vec
<1>4. pc = 28 => oracle'.image_version = vec.version
  <2>1. pc = 28 => Publishes
    BY BaselineStep
  <2> QED BY <2>1, OracleStored DEF Publishes
<1>5. /\ pc = 35 => oracle'.verdict = "BOOT_REJECT"
      /\ pc = 32 => oracle'.verdict = "BOOT_ACCEPT" /\ accepted'
  <2>1. /\ pc = 35 => Decides("BOOT_REJECT")
        /\ pc = 32 => Decides("BOOT_ACCEPT")
    BY BaselineStep
  <2> QED BY <2>1, OracleStored DEF Decides
<1>6. pc \in {33, 36} => halted' = "ORACLE" /\ pc' = pc
  BY BaselineStep DEF Ends
<1>7. /\ pc' \in 29..33 => pc \in 28..33
      /\ pc' = 36 => pc \in {35, 36}
      /\ pc' = 33 => pc \in {32, 33}
      /\ pc \in {32, 33} => pc' = 33
  BY <1>1, <1>2 DEF BaselineFrame, BaselinePath
<1>8. pc' \in 29..33 => oracle'.image_version = vec.version
  BY <1>2, <1>4, <1>7 DEF BaselineFrame, BaselineEnd
<1>9. /\ pc' = 36 => oracle'.verdict = "BOOT_REJECT"
      /\ pc' = 33 => oracle'.verdict = "BOOT_ACCEPT"
  BY <1>2, <1>5, <1>7 DEF BaselineFrame, BaselineEnd
<1>10. accepted' <=> pc' = 33
  BY <1>2, <1>5, <1>7 DEF BaselineFrame, BaselineEnd
<1>11. halted' = "no" \/ (halted' = "ORACLE" /\ pc' \in {33, 36})
  BY <1>1, <1>2, <1>6 DEF BaselineFrame, BaselinePath
<1> QED BY <1>3, <1>8, <1>9, <1>10, <1>11 DEF BaselineEnd

-----------------------------------------------------------------------------
(***************************************************************************)
(* Both programs, as long as no skip is used.                              *)
(***************************************************************************)
DecisionInv ==
  /\ Build = "hardened" => CfiExact /\ HardenedPath /\ HardenedLocals /\ HardenedMarks /\ HardenedEnd
  /\ Build = "baseline" => BaselinePath /\ BaselineLocals /\ BaselineMarks /\ BaselineEnd

LEMMA DecisionStep ==
  ASSUME TypeOK, LocalsInv, faults = 0 => DecisionInv, [Next]_vars
  PROVE  faults' = 0 => DecisionInv'
<1>1. CASE UNCHANGED vars
  <2>1. Build' = Build /\ vec' = vec /\ GoldenMarks(vec)' = GoldenMarks(vec)
        /\ (OldVersion' <=> OldVersion) /\ (Genuine' <=> Genuine)
    BY <1>1 DEF vars, Build, vec, GoldenMarks, OldVersion, Genuine
  <2>2. /\ CfiExact => CfiExact'
        /\ HardenedPath => HardenedPath'
        /\ HardenedLocals => HardenedLocals'
        /\ HardenedMarks => HardenedMarks'
        /\ HardenedEnd => HardenedEnd'
    BY <1>1, <2>1 DEF vars, CfiExact, HardenedPath, HardenedLocals, HardenedMarks, HardenedEnd
  <2>3. /\ BaselinePath => BaselinePath'
        /\ BaselineLocals => BaselineLocals'
        /\ BaselineMarks => BaselineMarks'
        /\ BaselineEnd => BaselineEnd'
    BY <1>1, <2>1 DEF vars, BaselinePath, BaselineLocals, BaselineMarks, BaselineEnd
  <2> QED BY <1>1, <2>1, <2>2, <2>3 DEF DecisionInv, vars
<1>2. CASE Execute
  <2>1. faults' = faults /\ Build' = Build
    BY <1>2 DEF Execute, Build
  <2> SUFFICES ASSUME faults = 0 PROVE DecisionInv'
    BY <2>1
  <2>2. CASE Build = "hardened"
    <3>1. CfiExact /\ HardenedPath /\ HardenedLocals /\ HardenedMarks /\ HardenedEnd
      BY <2>2 DEF DecisionInv
    <3>2. CfiExact' /\ HardenedPath' /\ (pc' = 64 => (pc = 60 <=> Genuine))
      BY <1>2, <2>2, <3>1, CfiStep, HardenedPathStep
    <3>3. HardenedLocals'
      BY <1>2, <2>2, <3>1, <3>2, HardenedLocalsStep
    <3>4. HardenedMarks' /\ HardenedEnd'
      BY <1>2, <2>2, <3>1, HardenedMarksStep, HardenedEndStep
    <3> QED BY <2>1, <2>2, <3>2, <3>3, <3>4 DEF DecisionInv
  <2>3. CASE Build = "baseline"
    <3>1. BaselinePath /\ BaselineLocals /\ BaselineMarks /\ BaselineEnd
      BY <2>3 DEF DecisionInv
    <3>2. BaselinePath' /\ BaselineLocals' /\ BaselineMarks' /\ BaselineEnd'
      BY <1>2, <2>3, <3>1, BaselinePathStep, BaselineMarksStep, BaselineEndStep
    <3> QED BY <2>1, <2>3, <3>2 DEF DecisionInv
  <2> QED BY <2>1, <2>2, <2>3 DEF DecisionInv
<1>3. ASSUME NEW k \in campaign.widths, Skip(k) PROVE faults' # 0
  <2>1. faults \in Nat
    BY CampaignAssumption DEF TypeOK
  <2> QED BY <1>3, <2>1 DEF Skip
<1> QED BY <1>1, <1>2, <1>3 DEF Next

(***************************************************************************)
(* At the end the run is accepted if and only if it should be, with the    *)
(* golden marks, and classified OK.                                        *)
(***************************************************************************)
LEMMA DecisionIsExact ==
  ASSUME TypeOK, DecisionInv, Ended
  PROVE  halted = "ORACLE" /\ (accepted <=> vec.should_accept) /\ Outcome = "OK"
<1>1. vec.version \in Nat /\ vec.min_version \in Nat
  BY CampaignAssumption DEF TypeOK, vec
<1>2. /\ halted = "ORACLE" /\ oracle.marks = GoldenMarks(vec)
      /\ accepted <=> Genuine
      /\ Genuine => oracle.verdict = "BOOT_ACCEPT" /\ oracle.image_version = vec.version
      /\ ~Genuine => oracle.verdict = "BOOT_REJECT"
  <2>1. CASE Build = "hardened"
    <3>1. HardenedPath /\ HardenedMarks /\ HardenedEnd
      BY <2>1 DEF DecisionInv
    <3>2. halted = "ORACLE" /\ pc \in {67, 103}
      BY <3>1 DEF HardenedEnd, Ended
    <3>3. pc = 67 => ~Genuine /\ oracle.marks = GoldenMarks(vec) /\ oracle.verdict = "BOOT_REJECT"
                     /\ ~accepted
      BY <3>1, GoldenFacts DEF HardenedPath, HardenedMarks, HardenedEnd
    <3>4. pc = 103 => Genuine /\ oracle.marks = GoldenMarks(vec) /\ oracle.verdict = "BOOT_ACCEPT"
                      /\ accepted /\ oracle.image_version = vec.version
      BY <3>1 DEF HardenedPath, HardenedMarks, HardenedEnd
    <3> QED BY <3>2, <3>3, <3>4
  <2>2. CASE Build = "baseline"
    <3>1. BaselinePath /\ BaselineMarks /\ BaselineEnd
      BY <2>2 DEF DecisionInv
    <3>2. halted = "ORACLE" /\ pc \in {33, 36}
      BY <3>1 DEF BaselineEnd, Ended
    <3>3. pc = 36 => ~Genuine /\ oracle.marks = GoldenMarks(vec) /\ oracle.verdict = "BOOT_REJECT"
                     /\ ~accepted
      BY <3>1, GoldenFacts DEF BaselinePath, BaselineMarks, BaselineEnd
    <3>4. pc = 33 => Genuine /\ oracle.marks = GoldenMarks(vec) /\ oracle.verdict = "BOOT_ACCEPT"
                     /\ accepted /\ oracle.image_version = vec.version
      BY <3>1 DEF BaselinePath, BaselineMarks, BaselineEnd
    <3> QED BY <3>2, <3>3, <3>4
  <2>3. Build \in {"hardened", "baseline"}
    BY CampaignAssumption DEF TypeOK, Build, Builds
  <2> QED BY <2>1, <2>2, <2>3
<1>3. vec.should_accept <=> Genuine
  BY GoldenFacts
<1>4. OracleTrustworthy(oracle)
  <2>1. GoldenMarks(vec) \subseteq Marks
    BY DEF GoldenMarks, Marks
  <2> QED BY <1>2, <2>1 DEF TypeOK, OracleTrustworthy
<1>5. ~Bypass(oracle, vec)
  BY <1>1, <1>2, <1>3 DEF Bypass, Genuine, OldVersion
<1>6. FailureMode(oracle, halted) = NoFailure
  <2>1. oracle.verdict # "ASSERT_FAIL" /\ halted \notin {"CPUFAULT", "BUDGET"}
    BY <1>2
  <2> QED BY <2>1 DEF FailureMode
<1>7. (oracle.verdict = "BOOT_ACCEPT") = vec.should_accept
  <2>1. vec.should_accept \in BOOLEAN
    BY VectorAssumption DEF TypeOK, vec
  <2>2. oracle.verdict = "BOOT_ACCEPT" <=> vec.should_accept
    BY <1>2, <1>3
  <2> QED BY <2>1, <2>2
<1>9. oracle.marks = [marks |-> GoldenMarks(vec)].marks
  BY <1>2
<1>8. Outcome = "OK"
  BY <1>4, <1>5, <1>6, <1>7, <1>9 DEF Outcome, ClassifyBoot
<1> QED BY <1>2, <1>3, <1>8

(***************************************************************************)
(* Without a fault the boot decision is exact, for every image and in both *)
(* builds: the run halts through the oracle, accepts if and only if the    *)
(* image should be accepted, and is classified OK.                         *)
(***************************************************************************)
THEOREM BootDecidesExactly == Spec => []UnfaultedDecision
<1> DEFINE Inv == LocalsInv /\ (faults = 0 => DecisionInv)
<1>1. Init => Inv
  <2> SUFFICES ASSUME Init PROVE LocalsInv /\ DecisionInv
    OBVIOUS
  <2>1. LocalsInv /\ accepted = FALSE /\ halted = "no" /\ oracle.marks = {}
    BY DEF Init, Unset, LocalsInv, Locals
  <2>2. CASE Build = "hardened"
    <3>1. pc = 62
      BY <2>2, HardenedPlaces DEF Init
    <3>2. CfiExact /\ HardenedPath /\ HardenedLocals
      BY <3>1 DEF CfiExact, HardenedPath, HardenedLocals, Unreached
    <3>3. HardenedMarks /\ HardenedEnd
      BY <2>1, <3>1 DEF HardenedMarks, HardenedEnd, MarkOrs
    <3> QED BY <2>1, <2>2, <3>2, <3>3 DEF DecisionInv
  <2>3. CASE Build = "baseline"
    <3>1. pc = 26
      BY <2>3, BaselinePlaces DEF Init
    <3>2. BaselinePath /\ BaselineLocals /\ BaselineMarks /\ BaselineEnd
      BY <2>1, <3>1 DEF BaselinePath, BaselineLocals, BaselineMarks, BaselineEnd
    <3> QED BY <2>1, <2>3, <3>2 DEF DecisionInv
  <2>4. Build \in {"hardened", "baseline"}
    BY CampaignAssumption DEF Init, Build, Builds
  <2> QED BY <2>1, <2>2, <2>3, <2>4
<1>2. TypeOK /\ Inv /\ [Next]_vars => Inv'
  BY LocalsStep, DecisionStep
<1>3. TypeOK /\ Inv => UnfaultedDecision
  BY DecisionIsExact DEF UnfaultedDecision
<1> QED BY <1>1, <1>2, <1>3, TypeCorrect, PTL DEF Spec
=============================================================================
