# Verification of fault-lab

fault-lab injects faults into small firmware images under CPU emulators and
classifies what comes of them.  Two things in it have to be right: the
*harness*, which must report what really happened, and the *firmware*, which
claims to resist the faults.  The TLA+ modules here model both, TLC checks them
on small instances, and TLAPS proves the central facts for every value of the
constants.

Line references are to `src/`.

## 1. The system

    cli --> campaign (parent) --spawn--> worker process: UnicornBackend --> firmware
      \--> ga --> campaign                       |                            |
      \--> slice --> faults                 classify <---- oracle struct <----+
                                                 v
                         rows --> store --> analysis        QemuBackend --> GdbRsp --> QEMU

| Component | State it keeps | Operations | What is hard about it | What makes it correct |
|---|---|---|---|---|
| Unicorn backend (`backend/unicorn_backend.py`) | emulated RAM, flash, registers, `_halted`, `_marks`, `_instr`; the ladder of snapshots | `reset`, `trace`, `build_ladder`, `nearest_rung`, `restore`, `run` (advance, apply, finish), the MMIO hook | one emulator runs thousands of experiments: whatever an experiment leaves behind and `restore` does not put back is stale state for the next; counts at the boundaries (0 means "no limit" to Unicorn); faults after the program has ended | a row depends on its fault set only; a fault strikes at exactly its trigger; every run is bounded |
| Campaign (`campaign.py`) | worker globals, the pool's queues, rows or counters | `_init_worker`, `_run_one`, `golden_length`, `run_campaign`, `run_campaign_streaming` | processes, order of results, a run that raises, a worker that dies | all rows and a return, or a raise; rows in the order of the fault sets; counters equal to the rows |
| Faults (`faults.py`) | none | `single_fault_sweep`, `multi_fault_stream_from_candidates`, `dedupe`; a `FaultSet` sorts itself | order and separation of combinations of overlapping candidates | every far-enough combination, in trigger order, once |
| Classifier (`classify.py`) | none | `classify_boot`, `classify_supervisor`, `oracle_trustworthy`, `is_exploitable` | the order of its tests; corrupted telemetry | a reported bypass shows that ACCEPT was executed; nothing but damaged telemetry hides one |
| Secure boot (`firmware/secureboot`) | `g_image`, `g_min_version`, the oracle struct, locals | `main`, `verify_image`, `verify_image_hardened`, `jump_to_app` | every step may be skipped; two skips combine | no bad image is accepted under the faults it claims to resist, the known survivors excepted |
| Supervisor (`firmware/supervisor`) | state and duty words with complements, the oracle struct | `supervisor_run`, `enter_safe_state` | bits flip between a check and a use; unsigned arithmetic; order of stores | an asserted fault ends in SAFE with the motor off |
| QEMU backend (`backend/qemu_backend.py`) | the QEMU process, a connection | `reset`, `run`, `trace` over single steps, spin detection | no rungs, a state only partly reset; its rows are compared with Unicorn's | from a clean start, and as long as both emulators count the same instructions, its rows are Unicorn's |
| GDB protocol client (`backend/gdb_rsp.py`) | socket, receive buffer | `_send`, `_recv`, `cmd` | nacks, resends, frames that arrive before the acknowledgement | every answer belongs to its command |
| Genetic search (`ga.py`) | population, scores, best | select, mutate, cross over, evaluate | pairing rows with fault sets over generations, keeping individuals legal | the reported row is the reported set's own, the best is never lost, breeding keeps the separation |
| Slice (`slice.py`) | the recorded steps, the live set | two tracing hooks, the backward walk, three kinds of seeds | order of kill and gen, flags Capstone does not report, loops | exactly the triggers the decision depends on, wherever the hooks can see it |
| Store, analysis (`store.py`, `analysis/`) | files | columns, buckets, cells, labels | several rows in one bucket, missing columns | a report hides no exploit; a stored row can be run again |
| Target, command line | files | ELF symbols, arguments | - | I/O only |
| SHA-256, C library, startup code | none | `sha256`, `memcmp_ct`, `.data` copy | - | arithmetic; entered by its result |

The parent and its workers share no memory: they exchange fault sets and rows.
A worker, its backend and the emulated CPU run in one thread; the only callback
is the MMIO hook, which runs inside `emu_start`.  The harness and the firmware
share the oracle structure in emulated RAM, which the harness reads after the
emulation has stopped.

The hazards of this code, each at its line, are the `hazards` of `PROJECT.json`.

## 2. Modules

| Module | Models | Used by |
|---|---|---|
| `UnicornBackend` | one campaign worker: `UnicornBackend` driven by `_init_worker` and `_run_one` | `UnicornBackendProofs`, `MCUnicornBackend` |
| `QemuBackend`, `MCQemuBackend`, `QemuBackendProofs` | the second backend: one QEMU process, single-stepped, serving several runs; theorems | TLC, TLAPS |
| `Replay` | the meaning of an experiment: one fault set run alone from reset | `UnicornBackend`, `QemuBackend` |
| `ToyCpu` | a CPU and a boot image small enough to enumerate; external | both backends' MC modules |
| `MCUnicornBackend`, `MCUnicornHistory` | the campaign: CPU, image and fault sets; the same with a record of every experiment's first row | TLC |
| `UnicornBackendProofs` | theorems about `UnicornBackend` | TLAPS |
| `NatRecursion` | induction and recursion over the numbers, as facts the proofs cite | the proof modules |
| `FaultSets` | `faults.py` as operators: the sweep, combinations, `dedupe` | `Campaign`, `GeneticSearch`, `Report` |
| `CampaignSpec` | abstract: what a campaign promises its caller | `Campaign` (refinement) |
| `Campaign` | `campaign.py`: serial, `Pool.map`, `imap_unordered` | `SeededSearch` |
| `Slice`, `MCSlice`, `SliceProofs` | `slice.py`: hooks, backward walk, seeds; theorems | `SeededSearch`, TLC, TLAPS |
| `GeneticSearch` | `ga.py` over a campaign | `SeededSearch` |
| `Report` | `export_site_data.py`, `heatmap.py`, `store.py` as operators | `SeededSearch` |
| `SeededSearch`, `MCSeededSearch` | the composition: slice, sweep, report, search or evolve | TLC |
| `SeededSearchProofs` | theorems about campaigns, the genetic search, the reports and the experiments | TLAPS |
| `Classify` | `classify.py` as operators | `SecureBoot`, `Supervisor` |
| `SecureBoot`, `MCSecureBoot`, `SecureBootProofs` | both builds of the boot decision under instruction skips; theorems | TLC, TLAPS |
| `Supervisor`, `MCSupervisor`, `SupervisorProofs` | both builds of the supervisor under flips and skips; theorems | TLC, TLAPS |
| `GdbRsp`, `MCGdbRsp`, `GdbRspProofs` | the GDB protocol client, `QemuBackend.start` and `close` around it, a stub and a noisy line; theorems | TLC, TLAPS |

The layers are joined where one relies on the other.  `UnicornBackend` shows
that a row is a function of its fault set, unless its program reads the ORACLE window (`RunIsReplay`); `Campaign`
therefore takes a run as one step, `RowOf(fs)`.  `Campaign` shows that
`run_campaign` returns rows in the order of the sets (`RowsFollowSets`);
`GeneticSearch` therefore takes a generation's `Pool.map` as one step.
`QemuBackend` takes a debugger command as one step, and `GdbRsp` is what lies below.

Definitions named `Bug_...` are no part of a model.  Each is what the
definition after it would be after a plausible slip in the code; put in its
place it breaks the property it is listed for in `PROJECT.json`, which shows
that the property depends on the code.

### UnicornBackend

`phase` is where the worker is in `_init_worker` and `_run_one`; `ctx`, `ram`,
`flash` are the emulator's, `halted`, `marks`, `instr` the backend's fields,
`emu` the `emu_start` call in progress (limit, instructions done, error raised).
`worker` holds what `_init_worker` made (whether it traced, the rungs), `cur` and
`todo` the experiment and its faults to come, `row` the row returned.

`Execute` is one emulated instruction: a fetch, a trap, a store into write-
protected flash (an error) or the MMIO hook (a mark, or the halt that stops the
emulation).  `window` is the ORACLE window, which Unicorn maps as memory
(`unicorn_backend.py:102`): a mark or a halt is stored there, a faulted program can
load or even execute it, and neither `reset` nor `restore` clears it.  RAM is
executable too.  The other actions are the harness between two emulations:
`StartTrace`/`EndTrace` (`reset` and `trace`), `StartLadder`/`Rung`/`EndLadder`
(`build_ladder`), `RunOne` (`nearest_rung` and `restore`), `Advance`/`Arrive`
(the batched advance to a trigger), `Apply` (`_apply`, each model; a skip on
`cm3` decodes memory to find instruction widths, and of the bytes it reads only the first
cell's mapping is checked; an access to an unmapped cell is an error), `Finish` and `Return`.

The CPU is external, so it is the constant operator `Exec(ctx, ram, window, code)` with a
type (`ExecAssumption`); an outcome `peeks` if it depends on what the window holds.
`Replay`, the meaning of an experiment, has no window of its own and stops at such an
instruction with `WINDOW`.  The firmware is `Golden`, its unfaulted run, which does not
read the window (`GoldenAssumption`).  The theorems hold for every such CPU and firmware.

### SecureBoot

The firmware is a sequence of *units* in memory order, one unit per check, call,
store or MMIO write of the C source: the pieces that one skip can remove.  Both
builds are laid out from the same text as the C (`VerifyHardened`, `JumpToApp`,
...).  A skip of *k* units moves the pc over them.  Where the compiler decides
what follows a branch in memory, both successors are allowed; what lies behind the end of a
function is a `trap`, although in flash a skipped return falls into the next function
or a literal pool.  A local read
before it is written, or a register whose load was skipped, holds any leftover
value of `Unset`.  The CFI accumulator, an XOR of four constants, is the set of
the stages that ran an odd number of times; that no proper subset has the same
XOR is an assumption TLC evaluates on the constants (`CfiIndependence`).
The hash and the comparison enter by what they decide: an image is `signed` or not.

A `campaign` is what one command line runs: a build, a test vector of
`target.py:162-175`, and how many skips of which width one run may have.  `accepted` and
`blind` are history variables: the ACCEPT store was executed; a single skip passed both
comparisons of a test that is not repeated elsewhere.

### Supervisor

One action per piece of `supervisor_run()` between two points where a flip makes
a difference: each reads a shadowed word at most once, so a flip in the middle
of it is a flip before or after it.  A state word is one of the four sparse
codes with a set of flipped bits; a complement word stands for the value it
complements, so `state_ok()` is an equality.  The duty is an unsigned word: sums and
differences are taken modulo `WordSize`.  `ref` is a history variable, the duty
of the run no fault has touched.  The faults are a flip of one bit of one
of the four words (two on the baseline, which keeps no complements) and
skipping one guard.  The loop counter, its increment and the halt store are not faulted, so
nothing is claimed about runs that never end (`RESULTS.md:356` counts 301), nor about
skips of other instructions (`RESULTS.md:720-756`).  `enter_safe_state()` is always followed by a halt, so the
loop's own `SUP_SAFE` case and the S5 re-check run only if a fault put SAFE
there; flips of up to three bits cannot (`FlipsAssumption`), and the model says so.

### QemuBackend

`phase` says whether the process is down, up, stepping towards a trigger
(`approaching`, the first loop of `run`) or towards the end (`halting`,
`_run_until_halt`), or `broken` after an exception.  `Reset` writes what `reset()`
writes and no more, so the flags and flash of an earlier run stay.  `Approach`,
`Apply`, `HaltStep`, `Spins` and `OutOfBudget` are the two loops, with the spin
detection's locals `prevPc` and `stuck` and the two different amounts by which
the count and the record are trimmed.  The board is external: flash is writable,
the store to `ORACLE_HALT` is absorbed and the firmware spins after it, and a CPU
error either reaches a handler that spins (`HandlerPc`) or takes QEMU down
(`QemuExits`).  The board has nothing at the ORACLE window: a debugger's access to it is
answered with an error or absorbed.

The reference of the run in progress, `Start0` and `Reference`, is the *Unicorn* row's: what
`Replay` makes of the context its rung 0 starts from (`UnicornReset`) and the image.
QEMU's own leftovers are not in it.  Two things may therefore set the two apart, and the
properties name both.  `CleanStart` says of `origin`, a history variable with the core as
the last reset left it, that what `reset()` does *not* write, flags and flash, happens to be
the reference's.  And the CPUs are two constants, `Exec` for Unicorn and `BoardExec`
for QEMU, since the two do not count alike: a Thumb-2 instruction whose IT condition is
false is a step of QEMU and none of Unicorn's (`RESULTS.md:594-613`, 8,390 and 8,391).
`SameUpTo(n)` says that at the reference's first states both retire the same.

### FaultSets, Campaign and CampaignSpec

A fault set is a sequence of faults sorted by `Fault.key`.  A campaign's `feed`
is the list or stream of sets it was `Call`ed with and `fed` how much of it was
taken.  `pipe`, `worker`, `results` are the pool's: chunks on their way, what each
worker does with its chunk, and answers on their way back.  `slots` and `failed`
are `map`'s result; `arrived` and `tally` are the iterator of `imap_unordered` and
the counters the streaming driver keeps.  `_init_worker` is `InitWorker`, `_run_one`
is `RunOne`, an exception in it ends the chunk (`PutChunk` with `ok` false).
The pool itself is external and modelled by what the campaign gets from it:
bounded pipe, chunks answered in any order, a dead worker replaced by one that
runs the initialiser first.  Any worker may die at any moment.  A chunk in its hands is
lost; one that dies idle in the task queue's `get()`, or while it puts an answer, may hold
that queue's lock, which nobody ever releases (`jammed`).
`received`, `lost` and `deaths` are history variables.

`CampaignSpec` knows only how many sets were asked about, which are answered, and
whether the campaign is open, returned or raised.  `KeepsContract` is the
refinement, with `received` for `answered`.

### Slice

`OnCode` and `OnMem` are the two hooks, one instruction's accesses in any order;
`BeginWalk`, `Walk`, `EndWalk` the backward loop, one recorded step at a time.
An instruction is its address, whether it is `conditional`, whether Capstone shows that
as a condition code (`cc`: not for `cbz`, nor for an instruction in an IT block, which is
disassembled alone), the registers Capstone reports and those it hides, and its accesses,
each an address and a size.  `on_code` adds `cpsr` for a condition code, and `on_mem`
records the address and not the size.

The reference, `Reaches`, runs *forward*: which locations are wrong after each instruction
if this one was disturbed, and whether a decision or a seed reads one.  It looks at an
execution in one of two views: `AsRecorded`, what the hooks noted, and `AsExecuted`, *bytes*
and every condition and register.  The slice is compared with the first in all runs
(`SliceIsExact`) and with the second in the runs whose records can show it: `Legible`
(`LegibleRunsAreCovered`).

### GeneticSearch

One action per part of `run_ga`'s loop: `RunGA` (the first population), `Evaluate`
(rows, scores, ranking, best, elites), `Immigrate`, `Breed`, `NextGeneration`,
`GiveUp` and `RaiseGA`.  The random generator is a nondeterministic choice among
all it can draw; the fallback of `_random_individual` (the last sample when no
separated one was drawn) is one of them.  Fitness is counted in tenths of a
checkpoint, so that its sums are integers.

### Report and SeededSearch

`Report` has no state.  `SeededSearch` is the caller that `faults.py:133-142` and
`ga.py:27-32` describe: slice the golden run, sweep it, then search combinations of
the slice and the sweep's near misses, all of them (`BeginSearch`) or by evolution
(`BeginEvolution`).  The caller itself is not in the repository and only passes
results on; `phase` is where it is.

### GdbRsp

`toStub` and `toClient` are the two directions of the socket as sequences of
tokens: an acknowledgement, a refusal, or a packet, which a damage makes fail
its checksum.  `_buf` is the front of `toClient`; it is always empty when the
socket times out, so nothing of it outlives a connection.  `pc` says where the caller is: `sent` is the
loop of `_send`, `receiving` that of `_recv`.  One action per token read
(`Acked`, `Nacked`, `OutOfBand`, `Stray`, `BadFrame`, `ConsoleFrame`,
`ReplyFrame`), and `Connect`, `StartFails`, `Send`, `Silence`/`Slow` (the socket timeout) and `Close`.
`answers` and `executed` are history variables.  The stub and the line are external: the
stub acknowledges before it executes, keeps its last packet until it is
acknowledged and sends that again when refused.  Damage inside the `$` and `#`
of a frame or of a one-byte token is not modelled.

## 3. Runs

| Run | Instance and bounds | What it shows |
|---|---|---|
| `UnicornCm3` | two-width ISA, a rejecting image with a golden run of 5 instructions, a rung every second one, skips of 1 and 2, register, memory and stack pointer faults; all single faults and ordered pairs at every trigger, and second faults at triggers 10 and 12 (at and past the budget of 10); any number of experiments in any order on one worker | type, resume equals replay, exact triggers, bounded emulation, the inductive invariant, and `RunIsReplay`: every row is that of its fault set run alone from rung 0's reset state, or its program read the ORACLE window |
| `UnicornRv32` | one-width ISA, an accepting image (6 instructions), 8 rungs so that the stride is clamped and the ladder meets the halt | every rung is on the golden run; `RunIsFreshReplay`: here a row is even that of a newly constructed emulator, with the same exception |
| `UnicornLive` | skips and `OPCODE_XOR`, so the image itself gets corrupted | `EveryRunReturns` under fairness of the worker |
| `UnicornFlags` | as `UnicornCm3`, single-model campaign | violation, finding 1 |
| `UnicornWindowLeak` | as `UnicornCm3`, single skips and register faults, any number in any order | violation, finding 2: `RowsRepeat`, the same experiment gives the same row |
| `CrossValidation` | the same toy Cortex-M under `QemuBackend`; golden run of 5, budget 10, triggers 0 to 5, every single fault of all models (an unsupported one raises) and every fault followed by a skip or a flipped register, two runs on one process | `AgreesOnHalt`: from a clean start, where `Replay`, and so Unicorn, halts after the last fault and both retire the same until then, QEMU ends with the same RAM and number of instructions; `TraceIsGolden`: its trace is the golden one under the same provisos; `EveryRunEnds`, with no proviso |
| `Boot` | hardened: four vectors with one skip of one or two units, rollback and bad_magic with two; baseline: four vectors, two skips of one or two | unfaulted decisions are exact; no bypass of the hardened build but the known survivors; PASS only after every CFI stage; on either build a reported bypass shows that ACCEPT was executed, and only a replaced verdict or damaged marks hide one |
| `SupervisorFaults` | both builds, three scenarios, setpoints 0, 4 (off a whole step) and 15 (above the clamp), 24, 1 and 3 iterations; 4-bit duty words, step 3, clamp 6; two flips and one skipped guard | the unfaulted run has its closed form and is OK, the duty never wraps before a flip, SAFE means zero duty at every step, no safety violation of the hardened build, a mismatch is detected, and the inductive invariant (the type invariant is part of it) |
| `SupervisorFlip` | hardened, one flip | violation, finding 3 |
| `GdbRsp` | qSupported and three commands, one of them a step; per session: three damaged commands and a damaged reply, two and two, three unsolicited packets, one with a damaged command, or two late replies and a damaged one; two connections, as many 10 s timeouts as fit in the 15 s of `start` | every answer is that of its command, nothing executes twice, an exception has a cause retransmission cannot cure, every session ends |
| `SliceWindow` | all executions of 4 of 5 instructions | violation, finding 4 |
| `Search` | slices of all 10,000 executions of 4 of 10 instructions (a byte store inside a word and a `cbz` among them), for the boot, supervisor and window goals; two golden runs of 5 go on to a sweep (widths 1 and 2) and a search of pairs at least 2 apart, with two workers, chunks of 3, a pipe of one, one death of any worker at any moment, one pair whose run raises; genetic search with a population of 3 (elite, immigrant, child), two generations, tournaments of 2 | the slice is exact by its records, and by what really executes where the records can show it; a campaign's result is complete, in order and keeps its contract, campaigns end, combinations are those asked for and each once, reports hide nothing, the genetic best is its own and never lost, breeding keeps the separation |

**Why the bounds are enough.**  A worker's runs interfere only through what one
of them leaves in the emulator, and an instance lets any number of experiments follow
each other (`QemuBackend`: two, since `Reset` takes everything else from the run
before).  Five or six instructions give triggers before, on, between and after
rungs, at the halt and past the budget.  Pairs are enough for "an earlier fault
moved the program".  Two-width instructions, undecodable data, a flag that reset does not
clear and a pointer a fault may aim at flash are the features of the two real
ISAs the harness has code for.

The campaigns of `Search` have ten sets in a sweep, so four chunks with a short
last one, more than workers and pipe hold; the chunk of a dead worker, the chunk that
raises and the chunks that overtake them all occur.  The sweep has an OK, a CRASH,
a HANG, an SDC and an exploit; its near misses overlap the slice, and five
instructions share three buckets, so two of the labels are taken at the last instruction of
the bucket before.  `SeededSearchProofs` lifts the campaign's part to all constants.
The genetic search is tried after a serial sweep only (`EvolveAfter`) and on pools
of four candidates (`PoolLimit`): the drivers' sweeps are the same rows
(`RowsFollowSets`), and the populations multiply with the pool.
A loop is an instruction executed twice
(`LoopRepeatThreshold` is 1).  Executions of four instructions hold a
definition, a redefinition, a flag setter and its branch, a loop, a spill and its reload, or
a byte store inside a word that is loaded later.

One check of the C source compiles to two or more instructions (a compare and its
branch, often a load before them), so the repository's skips of one to four instructions
cover about one or two units: widths 1 and 2, for single skips as for pairs.  The
results agree with the reported campaigns.  Two skips of any width do not bypass with
bad_magic or rollback (`RESULTS.md:183-196`, `484-492`).  One skip of one unit bypasses
with no vector, but one of two units over both comparisons with the tag accepts a
forged image: these are the survivors at -O2 and -Os (`RESULTS.md:26-28`, `107-178`).
`NoBypass` excepts exactly this (`Survivor`): one skip that passes both tests of the tag or
both of the length, the two tests that nothing behind them repeats.  Without the exception
TLC finds the survivor.

A duty word of 4 bits wraps, exceeds the clamp and has low and high bits; with a
step of 3 and a clamp of 6, a flipped duty may be between steps, above the
clamp or zero.  24 iterations are the default of `main.c:14`.

The protocol session uses more refusals than `_send` has retries, and enough commands
for a stray packet of one to meet the next.  A *damaged* unsolicited
packet is kept out: the stub would answer its refusal with its last
packet, perhaps a reply already on its way, and the next command would take
the copy for its own.  TCP damages nothing, so the case is a remark on the protocol and
not a finding.  After an unsolicited packet `_send` returns, although its
comment says it keeps waiting; if the command is then refused, the session
times out (`OnlyGivesUpWithCause` names this cause).

Deadlock is not checked where the system really stops: the firmware halts, a
debugging session is over once closed, a search whose caller is done makes no more
steps, and a campaign whose chunk or queue lock died with its worker waits for ever.

**Fairness.**  `FairSpec` of `UnicornBackend` is `WF_vars(Worker)`: a worker is
one thread that, once given an experiment, keeps executing.  Nothing is assumed
of `RunOne`: the campaign may stop sending work.  `FairSpec` of `QemuBackend` is
`WF_vars(Step)` for the same reason.  `FairSpec` of `Supervisor` is
`WF_vars(Firmware)`: the CPU keeps executing; nothing makes a fault happen.
`FairSpec` of `GdbRsp` is `WF_vars(Client) /\ WF_vars(Stub)`: the caller is one
thread that reads what is there, its socket timeout (`settimeout`, part of `Client`
as `Silence`) fires when nothing will come, and QEMU serves its socket.  Nothing makes noise happen.
`CampaignFairness` is weak fairness of the calling process (with the pool's
threads in it) and of every worker process: the operating system schedules them.
Nothing obliges the caller to start another campaign, nor a worker to die.

## 4. Proofs

`UnicornBackendProofs` proves for every CPU, firmware, ladder, budget and
campaign that leaves flash alone (`SpareFlash`, a hypothesis because without it
a corrupted instruction would stay for all later runs; section 5, Remarks):

  * `Inductive`: `Spec => []IInv`.
  * `TypeCorrect`, `LadderOnGolden`, `ResumeCorrect`, `TriggerExact`: its
    consequences `TypeOK`, `RungsOnGolden`, `ResumeIsReplay`, `LandsOnTrigger`.
  * `EmulationBounded`: `[]BoundedEmulation`, from `JobInv` for the advances and
    `FinishingInv`, what is left of the budget, for the final emulation.
  * `RowIsReplay`: `[]RunIsReplay`.  Every row is the outcome of its fault set run
    alone, one instruction at a time, from rung 0's reset state, unless the program of
    that experiment itself reads, executes or decodes the ORACLE window, which is where
    `Replay` ends (finding 2 is what happens then).  This is the
    harness's central promise, and the reason why `Campaign` may take a run as one step.
  * `RowIsFreshReplay`: `[]RunIsFreshReplay`, if `reset` clears every register
    but the stack pointer, which it writes, with the same exception.  On `rv32` it does; on `cm3` it leaves the flags
    (finding 1).

`IInv` is `ControlInv /\ ReplayInv`.  `RungsOnGolden` alone is not inductive.  A rung is a copy of the emulator, so
the emulator has to be on the golden run while the ladder is climbed
(`TrackInv`), which needs flash to be the image (`FlashIntact`), every rung to
lie before the halt so that a restored rung is not a halted one (`LadderInv`), and, for
the triggers, that the faults to come are a suffix of the sorted set whose
triggers have not been passed (`JobInv`).  The step that carries it is one
instruction on the golden run: `GoldenAssumption` says it yields the next golden
state and that the last instruction, and no other, halts.

`ReplayInv` says where in the reference run the worker is: `RefIndex`
steps from its start, one for each instruction executed and each fault applied
(`OnReference`).  A restored rung is a state of the golden run, and up to its first
trigger the reference is that golden run (lemma by induction over the instructions),
so the step that is no step of the reference, the jump to a rung, keeps it.
An advance that arrives, or skips itself because nothing is left to advance, meets
the reference where the next fault strikes; an error or a halt on the way there ends
both.  The one place where the two walk differently is memory decoding: the code adds
up the widths of the next instructions (`_skip_bytes`), the reference follows
them one by one, and that both arrive at the same address is again an induction.

`QemuBackendProofs` proves for every board, program, list of experiments and budget,
and any number of runs on one process:

  * `TypeCorrect`: `[]TypeOK`, whatever the program does; that the count is never
    less than what is backed out of it needs the bookkeeping in `BookInv`.
  * `HaltAgrees`: `[]AgreesOnHalt`, QEMU's counterpart of `RowIsReplay`.  Both backends
    are compared with the same reference, the experiment from Unicorn's reset, so where
    it halts they agree with each other, under the two provisos `CleanStart` and
    `SameUpTo`.  The first cannot be proved because `reset()` does not establish it, the
    second is false of the real emulators where a predicate is.
  * `GoldenTrace`: `[]TraceIsGolden`, under the same provisos.

The last two have the hypothesis `[]SpinsAfterHalt`: as the board executes the program in
memory, the store that halts is followed by a branch to itself, and no other instruction leaves the pc
where it is unless it changes nothing.  `_run_until_halt()` takes this for
granted when it reads a pc that stops moving as the halt; a damaged branch to itself
would deceive it, and no code checks it.  `GoldenAssumption` says
that the reference halts on the unfaulted image after `GoldenLength` instructions.

Neither property is inductive, since a result is written only after the run has
stepped past the halt.  `HaltInv` fixes the instruction, the n-th, with which the
reference halts (`HaltsAt`) and says where the run is: before it, at the reference's
state after as many steps as instructions executed and faults applied
(`BeforeHalt`); behind it, in the reference's last state, with `stuck` counting the
instructions since (`AfterHalt`); or returned (`ReportsHalt`).  Three things need an
argument.  The program cannot spin *before* the halt, because a reference that spins
changes nothing until its budget ends, so it would never halt
(`LoopNeverHalts`, an induction).  No fault is left when the reference halts
behind the last trigger (`HaltFound`: an instruction is executed with a fault to come
only below that fault's trigger).  And the amounts backed out differ: the count by
the three steps in the spin, the record by one more, which the step before
appended (`SpinsReport`).  Where the budget ends within those three, the
halt is missed (`BudgetReports`).  The states before the halt are matched action by
action (`ApproachHalts`, `ApplyHalts` with one case per fault model, `StepsBefore`).

`TypeOK`, `BookInv` and `HaltInv` hold on the instance of `CrossValidation`: TLC, given
them as invariants, finds no violation for one run of every experiment of all models, and
for two runs of the skips.  Of the latter it also finds `SpinsAfterHalt` true throughout.

`SeededSearchProofs` proves of campaigns, for every list of fault sets, pool, chunk size, pipe, set of
runs that raise and number of deaths, and for campaigns called one after another
by anyone (`AnyCampaigns`):

  * `Inductive`: `[]CampaignInv`.
  * `RowsInOrder`: `run_campaign` returns one row per set, in order.
  * `ResultComplete`: the counts and exploitable rows of a returned result are those of
    the whole input, every set once, for all three drivers.
  * `Refinement`: every behaviour is one of `CampaignSpec`.
  * `SearchKeepsContract`: the last three of the campaigns inside `SeededSearch`, the sweep
    and the search alike, because what `faults.py`'s generators make are lists of fault
    sets (`SweepIsFeed`, `SearchFed`).

That a returned result is complete is not inductive: it depends on where
everything outstanding is.  `NoneMissing` says that every position that was fed
is in the pipe, with a worker, among the results, arrived, received or lost,
unless a chunk has failed, and that a failure has a set that raises behind it.
`RowsInPlace` says that a row never parts from its position, and that a position
that was answered is not one that raises.  So when nothing is outstanding, lost or
failed, everything was received (lemma `WholeResult`), and a campaign that raises lacks an
answer, as the abstract `Raise` demands.

That nothing is counted twice matters where positions are forgotten: the streaming
driver adds a row to its tally and keeps only the sum.  `HeldOnce` says that a position
is in one place at most, in the pipe, with one worker, in one result, arrived or
received, and nowhere before it was fed; `ChunksFit`, that a worker makes no more rows
than its chunk has positions, without which an answer could run into its neighbour's.
The proof has a lemma for every action (`HeldFeedChunk`, `HeldTake`, ...) over the sets
of holders of one position.  Then `Iterate` receives a position that was not received
before (`HeldIterate`), so the tally stays that of the positions received (`TallyInv`);
the list that `CampaignResult.exploitable` filters is counted by induction (`KeptRows`).

It proves of the genetic search, for every pool, population and number of generations:

  * `BestReported`: the reported row and fitness are those of the reported fault
    set's own run, and `found` means an exploit.
  * `NothingLost`: no generation's best is worse than the one before.
  * `BreedingSeparates`: crossover and mutation make no fault set that is too dense and
    was not in the population.

The strengthening of the first, `GAInv`, ties `found` to a best fitness of 1.0 and
keeps every population nonempty, so that there is a first of the ranking; that only
an exploit reaches 1.0 is lemma `FitnessSeparates` (the marks cannot lift an SDC
there).  That of the second, `EliteInv`, follows the best of a generation as the
first of the elites through the breeding to the head of the next population.  Both need
that a stable descending permutation exists (`RankingExists`, by induction: the last
individual is inserted behind those that are no worse).  For the third, `BredSets` says
that population and next generation hold lists of faults and that the ranking, from
which parents are drawn, is one of the population: a child of two of them is either
kept apart by `_valid()` or one of them (`ChildrenAre`, `MutantsAre`).
Assumption: runs have one of the six outcomes and no more checkpoints than there are
(`RunsClassified`).

Of the reports it proves, for every golden run, widths, symbol table and number of buckets:

  * `SweepReported`: `[]ReportsShowTheSweep`, with `RunsClassified` as hypothesis.
    `SweepInv`, which carries it, says that until the search begins the campaign is that
    of the sweep of the sliced run, so that a returned result holds one row for each of its
    single skips, in order.  The reports are loops over those rows, modelled by the
    library's folds.  A fold is defined by a CHOOSE of a function; lemma `FoldExists`
    shows that there is one, from which every loop is followed element by element
    (`InternedRun`, `CellsRun`, `RunLengthsRun`, `BucketedRun`, `FlattenRun`).  Then a bucket
    holds the worst outcome so far (`BucketsHoldTheWorst`), and the run lengths written out
    again are the labels (`RunsDecode`).  A label is the function of the bucket's first
    instruction if the number of buckets divides `b * glen`, and otherwise that of this
    instruction or of the one before it, which is the one at `b * glen // nb`; so a reader
    may be off by one instruction at a bucket's edge and by no more.  No two skips of the
    sweep share trigger and width, so that a cell says whose outcome it is; and a stored row
    is enough to run its single fault again.

Of the experiments of a seeded search it proves, for every golden run, slice, widths,
order and separation:

  * `ExperimentsComplete`: `EveryExperimentOnce`.  `SearchInv` adds to `SweepInv` that the
    slice lists triggers.  The argument follows the code from the pool to the list.
    `combinations()` reaches exactly the increasing tuples of positions
    (`AscentsReached`, by induction over their length), and every subset of the pool of
    the right size is drawn by one of them (`AscentOf`).  The sort by `FaultKey`
    is a total order up to equal keys (`KeysOrder`, `FaultSetSorts`), a sorted list
    whose neighbours are `MinSeparation` apart is pairwise apart (`SeparatedSorted`), and
    a set of faults with different triggers has only one such list (`RisingUnique`), so
    the stream yields the wanted sets and no other (`StreamIsWanted`).  The key of a fault set
    tells different sets apart (`SetKeysDiffer`), so `dedupe()` keeps each once, and
    there are as many experiments as wanted sets (`DedupedCount`).

The constant `MinSeparation` is assumed to be at least 1 (`SearchAssumption`): 1 is the
code's default and no caller passes another value.  With 0, two faults at one trigger
could share a set, and its faults would not rise.

`SliceProofs` proves of the slice, for every execution and every seeds:

  * `SliceExact`: `[]SliceIsExact`.  What `backward_slice_from_seeds` returns is exactly
    what the reference makes of the hooks' record, in ascending order.  It has no
    hypothesis.
  * `SliceCovers`: `[]LegibleRunsAreCovered`.  Of a legible run it is exactly what can
    really reach a seed or a decision, byte by byte.

The slice and the reference run in opposite directions.  `LiveInv` is where they meet: at any
point of the backward walk, an earlier disturbance matters to the rest of the run if
and only if something it made wrong is live there.  One turn of the loop preserves
that because kill comes before gen, and a step that is not kept has neither a live
definition nor a decision, so the wrongness that passes through it is what came.
`SliceCovers` adds that the two views of a legible run reach the same (`ViewsAgree`): the
set of wrong locations holds all the bytes of an access or none (`Whole`), so its first
address, which is all that is recorded, tells for all of them.

`Legible` is a condition on the run, and it is not always met.  No two accesses may overlap
in part, which the boot images' own byte copies do (`minilib.c:18-23` writes by bytes what
`verify.c:29-33` reads as words; `sha256.c:38`), no seed may lie inside an access, and
every condition must show as a condition code.  Of the other runs only `SliceExact`
speaks; section 5 says what they lose.

`GdbRspProofs` proves for every number of commands, every retry count and every set
of noises that can be borne (`Bearable`):

  * `TypeCorrect`, `Aligned`, `ExactlyOnce`, `RaisesWithCause`: `TypeOK`,
    `AnswersMatch`, `ExecutedOnce`, `OnlyGivesUpWithCause`.

The inductive invariant is an account of every token in flight.  The command being issued
is in one of eight stages (`Stage`: asked, asked with damage, refused, in
execution, answered, asked again, missed, settled), and in each of them both queues
hold at most one token that obliges its reader to anything; the rest are
acknowledgements on the way up and unsolicited packets on the way down.  `Refusals`,
the retries used and `tries` count against each other, which is why giving up takes
`Tries` damaged commands.  `Bearable` forbids, within one session, a stub that prints
*and* a line that damages what it sends: without it TLC finds a session in which an
answer is taken for another command's (section 3).

`SecureBootProofs` proves, for every image, both builds and any number of skips of
any width:

  * `TypeCorrect`: control stays inside the program.  The program is put together
    from pieces, and so is the proof: `Enclosed` (the body of every `if` ends inside
    the piece) passes to concatenations and to an `if` around a piece, a piece with
    `trap` behind it is `Closed`, and `verify()` returns behind a `call` that `CallsAt`
    carries through the concatenations of `main`.  No index of the text is computed,
    so the lemmas hold for any program written with these operators.
  * `ReportedBypasses`: `[]BypassIsAcceptance`.  A bypass is reported only after the ACCEPT
    store was executed, and of an image that deserved it only when its version is not the
    one in the oracle; an accepted bad image goes unreported only when a later verdict
    replaced the word or its marks are damaged.  The strengthening, `VerdictInv`, says that the
    verdict word holds BOOT_ACCEPT only if that store was executed.

  * `BootDecidesExactly`: unfaulted, both builds accept exactly the images that should be
    accepted, halt through the oracle and are classified OK (`UnfaultedDecision`).
  * `NoSkipBypasses`: under `SkipsBorne`, which is one skip of one or two units for any image, and
    two such skips for an image with a wrong magic or an old version,
    the hardened build executes its ACCEPT store only for an image that should be accepted
    (`NoBypass`), unless one skip passed both tests of the length or of the tag, `blind`, which
    are the survivors of `RESULTS.md:107-178`.
  * `CfiBindsEveryStage`: under one skip of one or two units PASS comes back only with
    the accumulator of all four stages (`PassMeansEveryStage`).

These three speak of the concrete text, so they need its indices.  `HardenedPlaces` and
`BaselinePlaces` compute the listing of both programs (108 and 38 units),
`HardenedStep` and `BaselineStep` what executing each unit does, and `HardenedFrame` and
`BaselineFrame` what it leaves alone and where it may go; a skip goes one or two units on in memory
(`Follows`), where the body of an `if` may lie.  The invariants on top of that:

  * `StageInv`: before the skip the accumulator is exactly the stages behind the
    pc (`CfiExact`), and between its comparison and `return PASS` it is complete.  The
    skip itself may spoil it anywhere before the comparison, and the comparison then fails,
    or jump the comparison, and then it was complete already: that is why one skip is
    not enough, and two may be.
  * `BypassInv`: an image with a wrong magic or an old version is tested for it four
    times on the way to the ACCEPT store: twice in a row in `verify()`, once more behind
    the signature, and once in `jump_to_app()`.  One skip of two units removes the
    pair and a second the third test, or two skips the three tests of the result in `main()`;
    neither leaves a skip for the last test (`PassTakesTwo`).  A wrong length or signature is
    tested in `verify()` alone, twice, so of one skip that is not `blind` one test remains
    (`RejectStands`), but not of two.
  * `DecisionInv`: with no skip used, the path, the locals, the marks and the verdict at each pc are
    those that the image calls for (`HardenedPath`, `HardenedLocals`,
    `HardenedMarks`, `HardenedEnd`, and the same for the baseline).

TLC checked these invariants on the campaigns of `Boot` before they were proved.

Assumptions: versions are numbers, and an image should be accepted exactly when it has the
magic, a plausible length, a valid tag and a version not below the minimum
(`CampaignAssumption`, `VectorAssumption`, the ground truth of `target.py:162-175`), and no
proper subset of the CFI stages has their XOR (`CfiIndependence`, by which the accumulator
is a set of stages); TLC evaluates them on the instance.

`SupervisorProofs` proves for every threshold, duty step, clamp, word size,
setpoint and number of iterations:

  * `Inductive`.
  * `DutyNeverWraps`: the unsigned ramp stays on whole steps from 0 to
    `DUTY_MAX` until a bit flips.  A whole number of steps above a setpoint is at
    least one step, so `d -= 10u` cannot wrap; this is lemma `RampLevel`.
  * `SafeIsOff`: SAFE is published only over a zero duty, in both builds.
  * `FaultReachesSafe`: if at most one guard may be skipped, no run of the
    hardened build is a `SAFETY_VIOLATION`, however many flips (up to three)
    strike.  `BeforeGuards` is the strengthening: an asserted fault keeps the run
    before the switch of the first iteration, and the second test of a guard is
    reached only when the first was skipped or did not apply.
  * `UnfaultedExact`: a run with no fault ends with the oracle of `GoldenRun` and is
    classified OK, whatever the setpoint, the step, the clamp and the number of
    iterations.  `UnfaultedInv` is the strengthening: after `n` iterations the words,
    the marks and the reports are those of `Reached(n)` and `Published(n)`, and an
    asserted fault is on its way through `enter_safe_state()`.  What carries it is lemma
    `GoldenStep`: one more iteration of the closed form `GoldenDuty` is one more `Ramp`,
    on the way up, on the target, and swinging around a target between two steps.
    The induction over the iterations is the one over the steps of the run, so no
    recursion is involved; the arithmetic is lemmas `Multiples`, `Division`, `Rounding`.

Assumptions: the constants' types and orders (`SizeAssumption`,
`FlipAssumption`, `VectorAssumption`), and at most three flips, because the codes
of `sup_state_t` are four bits apart.  The sensor words and the oracle structure
are not flipped: `safety.c` claims nothing for them.

**Only model-checked:** liveness (`EveryRunReturns`, `EveryRunEnds`, `CampaignEnds`,
`MismatchIsDetected`, `SessionEnds`), which is outside this prover's reach.  Every
other property of a passing run is stated by a theorem.

Induction over data is done where the recursion is a function over the numbers:
the library's induction theorems take an operator as a parameter, which the provers
cannot instantiate, so `NatRecursion` states the same with a set (what holds of 0 and
passes on from each number is all of `Nat`) and derives from it that a function given
by a step exists and is the only one.  The library's folds are reached in the same way,
through `FoldExists`.

## 5. Findings

1. **Condition flags at rung 0** (`unicorn_backend.py:158`).  `reset` zeroes R0-R12
   and LR.  The golden trace runs on the same emulator just before
   `build_ladder`, and its flags stay.  A skip of the instruction that sets the
   flags reads them.  The comment at lines 140-147 promises a deliberate value
   that does not depend on call order.
2. **The ORACLE window is not reset** (`unicorn_backend.py:170`).  The window is mapped
   as memory (line 102).  Marks and the halt are stored in it, and so may be whatever
   a faulted program stores there.  `restore` puts back the context and RAM, `reset`
   writes flash and RAM; neither clears it.  An experiment whose faulted program
   loads from the window reads what an earlier run of the worker left there, and so
   returns another row than the first time.  Lines 86-94 protect flash from just this:
   a corruption that "would PERSIST into every subsequent run handled by the same worker".
3. **A flip between check and use** (`safety.c:103`).  A duty bit that flips after
   `duty_ok()` and before the RUNNING case reads it is stored back with a fresh
   complement; `safety.c:15-16` says every single flip is detected.
4. **The slice of a window** (`slice.py:211`).  What a window reads is made live at the
   end of the trace.  A location that is overwritten after the window then has
   its *later* definition kept, is killed there, and the definition the window
   consumed is not a candidate; lines 193-207 say every upstream one is.

### Remarks

Seen while modelling; no run of their own states them.

Unicorn: `_apply` writes flash with `mem_write`, which ignores the write protection of lines
83-94, and `restore` puts back RAM only, so an `OPCODE_XOR` (or a `MEM_XOR` on flash) stays
in every later row of the worker (`unicorn_backend.py:234`).  None of the repository's fault
generators emits one.  `SpareFlash` excludes them where rows are compared;
`UnicornLive` has them.  The instruction count of a row that ended by a halt is that of its
last advance (`unicorn_backend.py:250`); it enters no outcome, and `RunIsReplay` compares the
count of `BUDGET` rows only.

Secure boot and its classifier: a genuine boot whose `image_version` store is
skipped leaves 0, below the minimum version, and counts as SEC_BYPASS
(`classify.py:92`), although `faults.py:35` means a bad image by it; `BypassIsAcceptance` says
that this is the only such case.  A verdict store that is lost while the MMIO store is not
leaves a clean halt with verdict NONE, which for a bad image is OK and not the HANG of
`classify.py:78-81` (`oracle.h:77`).  Acceptance with damaged marks is a CRASH, as
trust is judged first (`classify.py:62` against lines 8-12).

QEMU against Unicorn: a halt within the last three instructions of the budget is
reported BUDGET; a fault past the halt is applied on QEMU and dropped on
Unicorn; a skipped halt store spins, which is ORACLE on QEMU and BUDGET on Unicorn.
`reset()` leaves xPSR and flash as the last run left them (`qemu_backend.py:172`), although
lines 149-153 promise the same start; without `CleanStart` TLC finds `AgreesOnHalt` violated,
by a run that stored to flash.  The counts differ where a predicate is false, although
lines 226-227 say that backing out the spin makes the count mean the same on both.

Campaigns: `run_campaign(workers=1)` initialises the worker in the parent
(`campaign.py:176`), which keeps an emulator that a later pool would have to be
spawned and not forked from, as the note of lines 130-145 explains.  A worker that dies with
a chunk, or with a queue's lock, makes `Pool.map` and `imap_unordered` wait for ever, and an
initialiser that always fails makes the pool respawn workers for ever.

Slices of runs that are not `Legible` miss influences.  Accesses are recorded by start
address only (`slice.py:133`), so a byte stored inside a word that is loaded later is not
connected to the load.  A `cbz` or `cbnz`, and an instruction predicated by an IT block, which
is disassembled alone, have no condition code and are no decisions to the slice
(`slice.py:123` against lines 19-29; `RESULTS.md:605-616` shows such an instruction).
Without the hypothesis TLC finds both.

Search and reports: the genetic search's fallback may keep faults closer than
`min_separation`, and a population exceeds its size if elites and immigrants do.
`store.py`'s schema has no `values`, so two double faults that differ in a width are stored
alike, contrary to `campaign.py:58-64` and `RESULTS.md:524-526`.  A bucket's label is the
function at `b * glen // nb`, which is not always the bucket's first instruction, as
`export_site_data.py:94` says it is; `ReportsShowTheSweep` says how far off it may be.

## 6. Not modelled

  * **Startup code**: copies `.data` and clears `.bss` before `main`; its faults end as
    CRASH and no property is about them.
  * **SHA-256, C library**: 32-bit arithmetic beyond enumeration; hash and comparison
    enter by what they decide.
  * **Target loading**: ELF parsing is file I/O; the vectors and the oracle record are
    modelled where they are used.
  * **Result store, analysis, command line**: Parquet, HTML and arguments are I/O; integer
    widths of the columns are not modelled.
  * **`multiprocessing`, Unicorn, QEMU, Capstone**: external, by what the code
    gets from them.
  * Within the modelled parts: faults in the supervisor's loop control, and what lies behind
    a function in flash.
