----------------------------- MODULE SecureBoot -----------------------------
(***************************************************************************)
(* The secure boot firmware (firmware/secureboot) under instruction skips. *)
(*                                                                         *)
(* The program is a sequence of units in memory order.  A unit is one      *)
(* check, call, store or MMIO write of the C source: the pieces that one   *)
(* skip can remove.  A skip moves the pc over k units without executing    *)
(* them.  Which successor of an `if` comes next in memory is the           *)
(* compiler's choice, so a skip over an `if` may land in its body or after *)
(* it; the body of an inlined oracle_halt() is made of units too.          *)
(* What follows a function in flash is the linker's choice and not in the  *)
(* text: a skip over its last instruction counts as a CPU error, where the *)
(* processor would run on into the next function or a literal pool.        *)
(***************************************************************************)
EXTENDS Integers, Sequences, Classify

CONSTANT
  Campaigns         \* a build, a test vector, and the skips of one run

Builds == {"hardened", "baseline"}

ASSUME CampaignAssumption ==
  \A c \in Campaigns :
    /\ c.build \in Builds
    /\ c.faults \in Nat /\ c.widths \subseteq Nat \ {0}
    /\ c.vec.version \in Nat /\ c.vec.min_version \in Nat

(***************************************************************************)
(* A vector should be accepted exactly when its image is what it claims:   *)
(* the ground truth of boot_vectors() (target.py:162-175).                 *)
(***************************************************************************)
ASSUME VectorAssumption ==
  \A c \in Campaigns :
    /\ c.vec.should_accept \in BOOLEAN
    /\ c.vec.should_accept <=> /\ c.vec.magic /\ c.vec.length /\ c.vec.signed
                               /\ c.vec.version >= c.vec.min_version

-----------------------------------------------------------------------------
(***************************************************************************)
(* The program text.                                                       *)
(***************************************************************************)
U(op, arg) == <<[op |-> op, arg |-> arg]>>
Let(x, v) == U("let", [var |-> x, value |-> v])
Copy(x, y) == U("copy", [var |-> x, from |-> y])
If(test, body) == <<[op |-> "if", arg |-> test, len |-> Len(body)]>> \o body

OracleMark(m) == U("load", "marks") \o U("ormark", m) \o U("mmio", "ORACLE_MARK")
OracleHalt(v) == U("verdict", v) \o U("mmio", "ORACLE_HALT") \o U("spin", "none")

Reject(test) == If(test, OracleHalt("BOOT_REJECT"))

Fail(test) == If(test, U("ret", "FAIL"))
FailTwice(test) == Fail(test) \o Fail(test)

HashAndCompare(d, cmp) ==
  U("build", "none") \o U("hash", d) \o U("compare", [cmp |-> cmp, digest |-> d])

CompareChecks == Fail("cmp_a") \o Fail("cmp_b") \o Fail("cmp_a # cmp_b")
                 \o Fail("d1 # d2")

Bug_PostCondition == Fail("r1") \o Fail("r2") \o Fail("r1 # r2")
                     \o Fail("version") \o Fail("magic")
PostCondition == Fail("cfi") \o Fail("r1") \o Fail("r2") \o Fail("r1 # r2")
                 \o Fail("version") \o Fail("magic")

VerifyHardened ==
  Let("r1", "FAIL") \o Let("r2", "FAIL") \o Let("cfi", {})
  \o OracleMark("BOOT_ENTER") \o U("cfi", "ENTER")
  \o FailTwice("magic") \o FailTwice("length")
  \o U("cfi", "HDR") \o OracleMark("HDR_OK")
  \o FailTwice("version")
  \o U("cfi", "VERSION") \o OracleMark("VERSION_OK")
  \o HashAndCompare("d1", "cmp_a") \o HashAndCompare("d2", "cmp_b")
  \o CompareChecks
  \o U("cfi", "SIG") \o OracleMark("SIG_OK")
  \o Let("r1", "PASS") \o Let("r2", "PASS")
  \o PostCondition
  \o U("ret", "PASS") \o U("trap", "none")

Bug_JumpToAppChecks == Reject("token") \o Reject("token") \o Reject("token")
JumpToAppChecks == Reject("token") \o Reject("token") \o Reject("token")
                   \o Reject("magic") \o Reject("version")

JumpToApp == U("image_version", "none") \o OracleMark("JUMP_TAKEN")
             \o OracleHalt("BOOT_ACCEPT")

MainHardened ==
  Let("r", "FAIL") \o U("call", "none") \o Copy("r", "r0")
  \o Reject("r") \o Reject("r") \o Reject("r")
  \o Copy("token", "r") \o JumpToAppChecks \o JumpToApp
  \o OracleHalt("BOOT_REJECT") \o U("trap", "none")

FailBaseline(test) == If(test, U("ret", "0"))

Bug_VerifyBaseline ==         \* no rollback check
  OracleMark("BOOT_ENTER")
  \o FailBaseline("magic") \o FailBaseline("length") \o OracleMark("HDR_OK")
  \o OracleMark("VERSION_OK")
  \o HashAndCompare("d1", "cmp_a")
  \o FailBaseline("cmp_a") \o OracleMark("SIG_OK")
  \o U("ret", "1") \o U("trap", "none")

VerifyBaseline ==
  OracleMark("BOOT_ENTER")
  \o FailBaseline("magic") \o FailBaseline("length") \o OracleMark("HDR_OK")
  \o FailBaseline("version") \o OracleMark("VERSION_OK")
  \o HashAndCompare("d1", "cmp_a")
  \o FailBaseline("cmp_a") \o OracleMark("SIG_OK")
  \o U("ret", "1") \o U("trap", "none")

MainBaseline ==
  U("call", "none") \o If("r0", JumpToApp)
  \o OracleHalt("BOOT_REJECT") \o U("trap", "none")

Verify(b) == IF b = "hardened" THEN VerifyHardened ELSE VerifyBaseline
Text == [b \in Builds |->
           Verify(b) \o (IF b = "hardened" THEN MainHardened ELSE MainBaseline)]

Start(b) == Len(Verify(b)) + 1
ReturnTo == [b \in Builds |-> CHOOSE i \in Start(b)..Len(Text[b]) :
                                i > 1 /\ Text[b][i - 1].op = "call"]

(***************************************************************************)
(* CFI: the accumulator is the XOR of distinct stage constants, here the   *)
(* set of stages executed an odd number of times.  No proper subset of the *)
(* four constants has the XOR of all four.                                 *)
(***************************************************************************)
CfiExpected == {"ENTER", "HDR", "VERSION", "SIG"}
Toggle(S, x) == IF x \in S THEN S \ {x} ELSE S \cup {x}

-----------------------------------------------------------------------------
VARIABLES
  campaign,  \* the image, the vector in its RAM, and the skips allowed
  pc,
  mem,       \* locals and registers
  oracle,    \* g_oracle
  halted,    \* "no", or the reason emulation ended
  faults,    \* skips used
  blind,     \* history: one skip passed both tests of an unrepeated pair
  accepted   \* history: the firmware executed its ACCEPT store

vars == <<campaign, pc, mem, oracle, halted, faults, blind, accepted>>

Build == campaign.build
vec == campaign.vec
Program == Text[Build]

(***************************************************************************)
(* What an uninitialised local or a register that missed its load may      *)
(* hold.  Stack slots are zero or leftovers; a leftover is never one of    *)
(* the sparse sentinels.  A stale marks register is zero, has JUMP_TAKEN's *)
(* bit, or has undefined bits (classify.py:64-76).                         *)
(***************************************************************************)
StaleMarks == {{}, {"JUMP_TAKEN"}, {"undefined"}}

Unset == [r : {"junk"}, r0 : {"junk"}, token : {"junk"}, r1 : {"junk"},
          r2 : {"junk"}, cfi : {{}, {"junk"}}, scratch : {"junk"},
          d1 : {"junk"}, d2 : {"junk"}, cmp_a : {0, 2}, cmp_b : {0, 2},
          reg : StaleMarks]

Init ==
  /\ campaign \in Campaigns
  /\ pc = Start(Build)
  /\ mem \in Unset
  /\ oracle = [valid |-> TRUE, verdict |-> "NONE", marks |-> {},
               image_version |-> 0]
  /\ halted = "no"
  /\ faults = 0
  /\ blind = FALSE
  /\ accepted = FALSE

(***************************************************************************)
(* A test holds when the check it stands for fires.                        *)
(***************************************************************************)
Holds(test) ==
  CASE test = "magic"   -> ~vec.magic
    [] test = "length"  -> ~vec.length
    [] test = "version" -> vec.version < vec.min_version
    [] test = "cmp_a"   -> mem.cmp_a # 0
    [] test = "cmp_b"   -> mem.cmp_b # 0
    [] test = "cmp_a # cmp_b" -> mem.cmp_a # mem.cmp_b
    [] test = "d1 # d2" -> mem.d1 # mem.d2
    [] test = "cfi"     -> mem.cfi # CfiExpected
    [] test = "r1"      -> mem.r1 # "PASS"
    [] test = "r2"      -> mem.r2 # "PASS"
    [] test = "r1 # r2" -> mem.r1 # mem.r2
    [] test = "r"       -> mem.r # "PASS"
    [] test = "token"   -> mem.token # "PASS"
    [] test = "r0"      -> mem.r0 # "0"

(***************************************************************************)
(* memcmp_ct() of a digest and the image's tag: 0 when equal.  The tag is  *)
(* the digest of the authenticated region exactly when it was signed.      *)
(***************************************************************************)
Compare(digest) ==
  IF digest = "digest" THEN (IF vec.signed THEN 0 ELSE 1) ELSE 2

Running == halted = "no"
unit == Program[pc]
Goto(i) == pc' = i
Store(x, v) == mem' = [mem EXCEPT ![x] = v]

If_ ==
  /\ unit.op = "if"
  /\ Goto(IF Holds(unit.arg) THEN pc + 1 ELSE pc + 1 + unit.len)
  /\ UNCHANGED <<mem, oracle, halted, accepted>>

Local ==
  /\ Goto(pc + 1)
  /\ \/ unit.op = "let" /\ Store(unit.arg.var, unit.arg.value)
     \/ unit.op = "copy" /\ Store(unit.arg.var, mem[unit.arg.from])
     \/ unit.op = "cfi" /\ Store("cfi", Toggle(mem.cfi, unit.arg))
     \/ unit.op = "build" /\ Store("scratch", "image")
     \/ unit.op = "hash" /\ Store(unit.arg, IF mem.scratch = "image"
                                            THEN "digest" ELSE "other")
     \/ unit.op = "compare" /\ Store(unit.arg.cmp, Compare(mem[unit.arg.digest]))
     \/ unit.op = "load" /\ Store("reg", oracle.marks)
  /\ UNCHANGED <<oracle, halted, accepted>>

Call == /\ unit.op = "call" /\ Goto(1)
        /\ UNCHANGED <<mem, oracle, halted, accepted>>

Bug_Ret == /\ unit.op = "ret" /\ Goto(0) /\ Store("r0", unit.arg)  \* lr lost
           /\ UNCHANGED <<oracle, halted, accepted>>

Ret == /\ unit.op = "ret" /\ Goto(ReturnTo[Build]) /\ Store("r0", unit.arg)
       /\ UNCHANGED <<oracle, halted, accepted>>

(***************************************************************************)
(* oracle_mark()'s OR and store; the register is reused afterwards.        *)
(***************************************************************************)
Mark ==
  /\ unit.op = "ormark"
  /\ oracle' = [oracle EXCEPT !.marks = mem.reg \cup {unit.arg}]
  /\ \E s \in StaleMarks : Store("reg", s)
  /\ Goto(pc + 1)
  /\ UNCHANGED <<halted, accepted>>

Verdict ==
  /\ unit.op = "verdict"
  /\ oracle' = [oracle EXCEPT !.verdict = unit.arg]
  /\ accepted' = (accepted \/ unit.arg = "BOOT_ACCEPT")
  /\ Goto(pc + 1)
  /\ UNCHANGED <<mem, halted>>

ImageVersion ==
  /\ unit.op = "image_version"
  /\ oracle' = [oracle EXCEPT !.image_version = vec.version]
  /\ Goto(pc + 1)
  /\ UNCHANGED <<mem, halted, accepted>>

Stop ==
  /\ \/ unit.op = "mmio" /\ unit.arg = "ORACLE_HALT" /\ halted' = "ORACLE"
     \/ unit.op = "mmio" /\ unit.arg = "ORACLE_MARK" /\ halted' = "no"
     \/ unit.op = "spin" /\ halted' = "BUDGET"    \* until the budget is gone
     \/ unit.op = "trap" /\ halted' = "CPUFAULT"
  /\ Goto(IF halted' = "no" THEN pc + 1 ELSE pc)
  /\ UNCHANGED <<mem, oracle, accepted>>

Execute ==
  /\ Running
  /\ If_ \/ Local \/ Call \/ Ret \/ Mark \/ Verdict \/ ImageVersion \/ Stop
  /\ UNCHANGED <<campaign, faults, blind>>

(***************************************************************************)
(* A skip of k units.  After[k] is where it may land.                      *)
(***************************************************************************)
NextInMemory(i) ==
  CASE Program[i].op = "if"   -> {i + 1, i + 1 + Program[i].len}
    [] Program[i].op = "trap" -> {i}
    [] OTHER                  -> {i + 1}

Skipped(i, k) ==
  LET after[n \in 0..k] ==
        IF n = 0 THEN {i}
        ELSE UNION {NextInMemory(j) : j \in after[n - 1] \cap DOMAIN Program}
  IN  after[k] \cap DOMAIN Program

(***************************************************************************)
(* Of what the hardened verifier tests, only the length and the comparison *)
(* with the tag are not tested again behind the signature stage.           *)
(***************************************************************************)
UnrepeatedPairs == {<<"length", "length">>, <<"cmp_a", "cmp_b">>}

PassesPair(i, j) ==
  \E p \in 1..(Len(Program) - 2) :
    /\ Program[p].op = "if" /\ Program[p + 2].op = "if"
    /\ <<Program[p].arg, Program[p + 2].arg>> \in UnrepeatedPairs
    /\ i <= p + 1 /\ j >= p + 4

Skip(k) ==
  /\ Running
  /\ faults < campaign.faults
  /\ faults' = faults + 1
  /\ \E i \in Skipped(pc, k) : Goto(i) /\ blind' = (blind \/ PassesPair(pc, i))
  /\ UNCHANGED <<campaign, mem, oracle, halted, accepted>>

Next == Execute \/ \E k \in campaign.widths : Skip(k)

Spec == Init /\ [][Next]_vars

-----------------------------------------------------------------------------
(***************************************************************************)
(* The golden run of a vector, as far as the classifier compares with it.  *)
(***************************************************************************)
GoldenMarks(v) ==
  {"BOOT_ENTER"}
  \cup (IF v.magic /\ v.length THEN {"HDR_OK"} ELSE {})
  \cup (IF v.magic /\ v.length /\ v.version >= v.min_version
        THEN {"VERSION_OK"} ELSE {})
  \cup (IF v.should_accept THEN {"SIG_OK", "JUMP_TAKEN"} ELSE {})

Outcome == ClassifyBoot(oracle, halted, vec, [marks |-> GoldenMarks(vec)])
Ended == halted # "no"

TypeOK ==
  /\ campaign \in Campaigns
  /\ pc \in DOMAIN Program
  /\ oracle \in [valid : {TRUE}, verdict : ValidVerdicts,
                 marks : SUBSET (Marks \cup {"undefined"}), image_version : Nat]
  /\ halted \in {"no", "ORACLE", "BUDGET", "CPUFAULT"}
  /\ faults \in 0..campaign.faults
  /\ blind \in BOOLEAN

(***************************************************************************)
(* Without a fault the boot decision is exact: every vector halts through  *)
(* the oracle, accepted if and only if it should be, and classified OK.    *)
(***************************************************************************)
UnfaultedDecision ==
  Ended /\ faults = 0 =>
    /\ halted = "ORACLE"
    /\ accepted <=> vec.should_accept
    /\ Outcome = "OK"

(***************************************************************************)
(* No skip the campaign allows makes the hardened firmware accept a bad    *)
(* image, but for the survivors of RESULTS.md:142-178: a skip long enough  *)
(* to pass both tests of the length, or both comparisons with the tag, of  *)
(* an image whose magic and version are good.  The call-site hardening     *)
(* claims it for any one skipped check (main.c:14-18); RESULTS.md:177-196  *)
(* reports it for any two skips when the magic or the version is bad.      *)
(***************************************************************************)
OldVersion == vec.version < vec.min_version

Survivor == blind /\ vec.magic /\ ~OldVersion

NoBypass == accepted /\ Build = "hardened" => vec.should_accept \/ Survivor

(***************************************************************************)
(* C3: a skipped stage cannot produce the final CFI value, so under one    *)
(* skip PASS comes back only when every stage was executed                 *)
(* (verify_hardened.c:7-8).                                                *)
(***************************************************************************)
PassMeansEveryStage ==
  campaign.faults = 1 /\ mem.r0 = "PASS" => mem.cfi = CfiExpected

(***************************************************************************)
(* What a report of SEC_BYPASS shows, however the run ended and whatever   *)
(* became of the marks (oracle_trustworthy() and the comment on `marks` in *)
(* classify_boot()): the firmware executed its ACCEPT store, and when the  *)
(* image deserved it, its version never reached the oracle.  Conversely,   *)
(* the acceptance of a bad image goes unreported only if a later verdict   *)
(* replaced it or its marks were damaged: no crash or hang after it hides  *)
(* it (classify.py:8-12).                                                  *)
(***************************************************************************)
BypassIsAcceptance ==
  Ended =>
    /\ Outcome = "SEC_BYPASS" =>
         accepted /\ (vec.should_accept => oracle.image_version # vec.version)
    /\ accepted /\ ~vec.should_accept /\ Outcome # "SEC_BYPASS" =>
         oracle.verdict # "BOOT_ACCEPT" \/ "undefined" \in oracle.marks
=============================================================================
