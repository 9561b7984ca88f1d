# rv32IMB-core in TLA+

Models, model-checking runs and machine-checked proofs for the RISC-V core in
`rtl/`, the models that check it (`model/`, `tb/cosim`, `tb/perf`), the scripts that
decide whether a check passed (`tb/`, `fpga/scripts`), and the board with its
programs. In the hardware modules a step is one rising edge of the single clock;
what is concurrent is the five instructions in flight, the multi-cycle unit, the
RAM ports, the predictor, the counters and the UART, all of which move on the same
edge from the state before it. In the modules of the scripts a step is what one
process does between two points at which another can see it. Line numbers in
`PROJECT.json` refer to the sources as they stand beside this directory.

## 1. The system

| Part | State it keeps | Operations | Talks to |
|---|---|---|---|
| **Pipeline** `rtl/core/rvntt_core.sv`, `rvntt_hazard`, `rvntt_forward`, `rvntt_regfile` | `pc_q`, `if_id_q`, instruction hold, `id_ex_q`, `ex_mem_q`, `mem_wb_q`, 32 registers | advance, load-use stall, multi-cycle hold, redirect (misprediction, trap, MRET), reset | everything below |
| **Datapath** `rvntt_decode`, `rvntt_immgen`, `rvntt_alu`, `rvntt_branch`, `rvntt_bitmanip` | none | pure functions of the word and the operands | pipeline |
| **Multiply/divide** `rvntt_muldiv` | `active_q`, `cnt_q`, `is_div_q`, captured operands, partial remainder and quotient | start, iterate, done, request withdrawn | EX through `req`/`done` |
| **CSR file** `rvntt_csr` | trap CSRs, `mstatus` bits, 64-bit `mcycle`/`minstret`, six event counters | read, write/set/clear, trap entry, MRET, count | EX; the registered event bus |
| **Predictor** `rvntt_bpred` | BTB with two-bit counters, return stack, registered prediction | look up, hold, flush, learn | IF (lookup), EX (update) |
| **Entropy** `rvntt_entropy`, `rvntt_entropy_health`, `rvntt_seed` | sampler, run and window counters, 16-bit buffer, `dead_q` | sample, test, fill, consuming read | the `seed` CSR |
| **RVFI** `rvntt_rvfi` | a shadow of the pipeline registers | report retirement | verification only |
| **SoC** `rtl/soc`: RAM, register block, UART transmitter and receiver, reports, tops | RAM array and output registers, shift registers, `valid`/`overrun`, GPIO | bus access, byte in, byte out | the core's data port; the pins |
| **Reset and clock** `rtl/common/rvntt_sync_reset.sv`, `rvntt_clkgen` | two flops | asynchronous assert, synchronous release | everything |
| **Reference models** `model/bpred.py`, `model/rv32i_ref.py`, `tb/cosim/cycle_model.py` | a predictor; the walk over a commit stream | decode, compute, look up, update, date a retirement | the core's commit stream |
| **Instruments** `tb/perf` | counters, a mirror of the front end, marks | count, charge, compare | the core's signals; the cycle model |
| **Harnesses** `tb/mutate`, `tb/formal`, `tb/run_regress.py` and its runners, `tb/cosim/gen_random_prog.py` | files in one checkout, results, child processes | prepare, run, judge, exit | external tools; each other through the disk |
| **Board** `fpga/scripts/hw_bringup.py`, `tb/fpga`, `sw/` | what the serial line carried | program, capture, inject a byte, parse, compare | the SoC's UART |

What is hard about each, and what makes it correct:

* **Pipeline.** Every hazard is an interleaving of up to five instructions:
  forwarding decided a stage early and then delayed by a stall, an interlock that
  a redirect overrides, a trap with younger instructions already fetched, reset in
  the middle of a store. It is correct if it *implements the one-instruction-at-a-
  time machine*, and never stops.
* **Multiply/divide.** Operands captured while their producers drain; back-to-back
  starts over the registers of the last operation; the divider at its edges (the unit
  also lets a request be withdrawn, which the core never does: section 2). Correct if the result is that of the captured
  operands, after a fixed number of cycles that does not depend on them.
* **CSR file.** Counters written in the cycle they count, half-writes of 64-bit
  counters, an event bus one cycle late. Correct if totals are exact and the
  cycle accounting closes.
* **Predictor.** May be wrong about everything except *which address* it speaks of;
  a bounded stack that wraps. Correct if wrong predictions cost cycles only.
* **Entropy.** A failure must latch; no bit is delivered twice; the window between
  a failing test and DEAD.
* **UART and registers.** Poll and act are separate bus accesses; a byte that
  arrives on the consuming write. Correct if every byte is delivered once, in
  order, or an overrun is reported.
* **Reference models and instruments.** They claim the core's timing to the cycle
  from its commit stream alone. Correct if they date every retirement as the core
  does, and where they do not the README says so (section 6).
* **Harnesses.** A verdict may come from another job's files, a tool that died may
  read like one that found nothing, a tool may hang. Correct if green is earned, red
  has a cause and every run ends.
* **Board.** A capture begins and ends anywhere and loses lines. Correct if an
  accepted board is alive and a score is one measurement's.

`PROJECT.json` lists the hazards one by one, with the line where each bites and
the property that watches it; the one without a property says why.

## 2. The modules

| Module | What it is |
|---|---|
| `Insn` | one instruction as a function of its operands: control signals (`rvntt_decode`), EX results and traps (`rvntt_core`), the effect on the CSR file (`rvntt_csr`). Shared by `Core` and `Isa` |
| `Core` | the pipeline of `rvntt_core.sv`: one variable per pipeline register, one action per way the front of the pipeline can move |
| `Isa` | the abstract specification: execute one whole instruction, or reset |
| `CoreProps` | the refinement mapping, the safety properties and the inductive invariant |
| `CorePerf` | the performance events and the cycle accounting over them |
| `MCPrograms`, `MCCore` | the instances TLC checks: the pipeline alone, and with its accounting |
| `MulDivIsa`, `MulDivUnit` | the M extension's operations by definition; what the unit promises: the right value, a fixed number of cycles after the start, unless the request is withdrawn |
| `MulDiv` | `rvntt_muldiv.sv`: sequencer, signed multiplier, restoring divider; implements `MulDivUnit` |
| `Bpred` | the predictor: table, valid bits, return stack, prediction register, with memories that reset leaves alone |
| `BpredModel`, `BpredAgree`, `MCBpred` | `model/bpred.py` as functions; the two driven by the same transfers |
| `CoreBpred` | `Core` with `Bpred` in the fetch loop in place of the free choice; implements `Core` |
| `CycleModel` | the walk of `tb/cosim/cycle_model.py` over the commit stream, with the delayed predictor of `model/bpred.py` |
| `CycleCheck`, `MCCycle` | `CoreBpred` watched by `CycleModel` and by the stall profiler of `tb/perf` |
| `Decode`, `DecodeModel`, `DecodeCheck` | `rvntt_decode.sv`; `decode()` of `model/rv32i_ref.py`; both and `Insn` on the same words |
| `Datapath`, `DatapathModel` | ALU, branch comparator, bit manipulation and immediate wiring on bit vectors; the same as arithmetic |
| `Counters` | the 64-bit counters, the event counters, their masks and the registered event bus |
| `Seed` | the seed CSR, the health tests and the synchroniser of the noise source |
| `CsrUnits` | one of `Counters` and `Seed` in each behaviour |
| `MCUnits` | one of `CsrUnits`, the decoders and the datapaths in each behaviour |
| `MutationHarness` | `tb/mutate/run_mutation.py`: baseline, pool of workers, directories, verdicts, exit status |
| `RiscvFormal` | `tb/formal/run_riscv_formal.py`: invocations that share one checkout |
| `Regression` | `tb/run_regress.py` with `lint_all.py`, `run_cocotb.py`, `run_riscof.py` and `run_formal.py` |
| `RandomProgram` | `tb/cosim/gen_random_prog.py`, and a run of the program it wrote |
| `Tools`, `MCTools` | one of the four programs above in each behaviour |
| `Uart` | `rvntt_mmio`, transmitter and receiver under the polling program `sw/soc/hello.c` |
| `HwBringup` | `fpga/scripts/hw_bringup.py` and `tb/fpga/parse_soc_uart.py` with the board they judge |
| `BenchCapture` | `tb/fpga/parse_bench_uart.py` on what `sw/bench/bench_main.c` prints |
| `Board`, `MCBoard` | one of the three above in each behaviour |
| `PipelineProofs` | lemmas about the operators of `Insn`, type correctness, the pipeline's inductive invariant and the safety properties it implies |
| `RefinementProofs` | `Core` implements `Isa`; only aligned instructions leave EX; `CoreBpred` implements `Core`, hence `Isa` |
| `PerfProofs` | the accounting of `CorePerf`, and the stall profiler of `CycleCheck` |
| `BpredProofs` | `Bpred` holds and answers what `BpredModel` does, and what the program did |
| `MulDivProofs` | the divider's loop; `MulDiv` implements `MulDivUnit` |
| `UnitProofs` | `Counters` and `Seed`, as `CsrUnits` runs them |
| `BoardProofs` | `Uart`, `HwBringup` and `BenchCapture`, as `Board` runs them |
| `HarnessProofs` | `Regression`, `RiscvFormal`, `MutationHarness` and `RandomProgram`, as `Tools` runs them |

### State and actions against the code

| Model | Code |
|---|---|
| `pc` | `pc_q` |
| `ifid`, `imemOut`, `insnHold`, `insnHeld` | `if_id_q`, the fetch port's output register, `insn_hold_q`, `insn_held_q` |
| `idex` | `id_ex_q` with `fwd_a`, `fwd_b`, the prediction and the operands read in ID |
| `md` | `active_q`, `cnt_q` and what the unit captured on its start cycle |
| `exmem`, `dmemOut`, `memwb` | `ex_mem_q`, the data port's output register, `mem_wb_q` |
| `regs`, `mem`, `csr` | the register file, the data RAM, the CSR file |
| `ExHold` | `ex_stall`: ID/EX holds and its selects decay, EX/MEM gets a bubble |
| `LoadUse` | `id_stall` alone: ID holds, ID/EX gets a bubble |
| `TrapRedirect`, `MretRedirect`, `MispredictRedirect` | `ex_redirect` for its three reasons, in the code's priority order |
| `Advance(pred)` | no stall, no redirect; `pred` is what the predictor says of the fetched address |
| `Reset` | `rst_n` low over an edge |

`EveryEdge` and `CsrEdge` are part of each clock action: RAM ports, hold register,
MEM/WB, the register file, the unit's sequencer and the CSR commit move whatever
EX decides. The predictor is an arbitrary choice at each `Advance`, exactly as in
the `RVNTT_ABSTRACT_BPRED` build the repository uses for riscv-formal.

Definitions marked `\* fault` are plausible bugs. Nothing uses them: each stands
beside the definition it would replace, to show that a property notices.

### What is abstracted

* Arithmetic in `Core`: `Alu`, `MulDivValue`, `BranchTaken`, `BitOr` and `BitClear`
  are parameters. The pipeline must be right whatever they compute; what they
  compute is in `Datapath` and `MulDiv`, and which instruction class a word is, in
  `DecodeCheck`.
* The data port of `Core` carries words; byte and halfword lanes (the `mem_op`
  cases) are not modelled.
* `prog` is the fetch port's memory and is not written by the program. In the SoC
  both ports read one RAM; a program that stores into its own text within the
  fetch window sees the old word, there being no FENCE.I.
* Of the CSRs, `Core` has those a trap uses, `mscratch`, the low word of `minstret`
  (wrapping at `InstretMod`), read-only and unknown addresses. `mstatus` exists
  through trap entry and MRET only. The other counters are in `Counters`, whose
  inputs (what EX writes, what the cycle raises) are free within what the core can
  bring together, and `seed` is in `Seed`, which may be read in any cycle.
* The text starts at 0 instead of `RESET_PC`, so that a small address space holds
  it.
* The unit's value in `Core` is the parameter `MulDivValue`; `MulDiv` has the real
  computation and the same sequencer, with the request free to drop at any edge,
  which the core never does (an instruction in EX is not flushed). The two modules
  are not composed.
* Of the six events `Core` raises the four of stalls and redirects; `Counters` has
  one of each kind that differs in when it can fall.
* `Bpred` sees word addresses; `CycleModel` leaves out what `analyse()` prints.
* `Decode` works on fields. Register numbers are 0 and 1, since the decoder tells
  only zero apart.
* Scripts: text, wording and file formats are left out; a file is whole, part or of
  another job; a tool answers freely, dies or hangs where its caller provides for
  it. A random draw is a free choice.
* `Uart`: bits on the line are left out (baud counters, the start bit's recheck); a
  piece of a line is one character.
* `HwBringup` and `BenchCapture` work on lines of a few kinds, with numbers where a
  check compares them; one benchmark stands for Dhrystone and CoreMark. The loops of
  `parse_blocks()` are sets of the lines at which a block begins; `split_blocks()` is a
  step for each line, since what it has open when a line is lost is what can go wrong.

## 3. The runs

| Run | Checks | Shows |
|---|---|---|
| `core` | `FwdPrecomputeMatches`, `OperandsCurrent`, `FetchedWordMatchesPc`, `PredictorTaughtAligned`, `RetiredMatchesProgram`, `CycleIdentity`, `BoundedGap`, `Implements` | every program of the four sets executes as `Isa` does, under every prediction of the bounds, with the accounting closing on every edge |
| `progress` | `TypeOK`, `PipelineInv`, `Progress` | the invariant the proofs rest on, before it is proved; and no mix of stalls, redirects, predictions and resets stops the pipeline |
| `muldiv` | `LoopInvariant`, `ImplementsUnit` | every operation on every pair of three-bit operands: the value, the cycle it appears on, the divider's loop; back-to-back starts, withdrawn requests, resets |
| `bpred` | `AgreesWithModel`, `PredictorRemembers` | the predictor holds and answers what the Python model does through lookups, holds, flushes, transfers, overflow, underflow and reset; the stack is a stack and two outcomes decide, with no model between |
| `cycle` | `SpanExact`, `ClosureExact`, `ResidualIsSkew`, `PredictionIsForFetch`, `ImplementsCore` | the real predictor in the core's fetch loop is one of the predictors `Core` allows and speaks of the address being fetched; the cycle model dates every retirement as the core does; the profiler's counts close between any two marks |
| `units` | `DecodersAgree`, `AbstractionSound`, `RegistersInert`, `DatapathAgrees`, `CountsInOrder`, `HealthAsStandard`, `SeedFresh` | the decoder against the Python reference and against `Insn`; the datapath against arithmetic; the counters, clock by clock, against halves counted in program order; the seed CSR against the standard's tests over the samples it took |
| `tools` | `VerdictsOwn`, `EndsHonest`, `FormalVerdictsEarned`, `RegressVerdictsEarned`, `RandomProgramsSound`, `ToolsEnd` | what each script's verdict means, whatever its tools do and in whatever order its workers run; and that each ends |
| `board` | `PrintedIsSent`, `BytesAccounted`, `BringupAcceptedIsAlive`, `BringupRejectedForCause`, `ScoredIsSound`, `HealthyIsScored`, `BoardGoesOn` | no character or byte is lost unseen between program, registers and line; what an accepted board did and a score measured, through captures that are cut and lose lines |
| `doc_identity` | `DocCycleIdentity` | violated: see section 6 |
| `doc_trap_term` | `DocTrapTerm` | violated: see section 6 |
| `doc_redirect_stall` | `DocNoRedirectWithStall` | violated: see section 6 |
| `tools_doc_directory` | `DocOwnsDirectory` | violated: see section 6 |

`units`, `tools` and `board` each hold several small systems that do not interact;
the initial state picks one and the variables of the others hold "unused". The
composition and its properties are in `CsrUnits`, `Tools` and `Board`, where the
theorems about them start too.

`Implements` is `Isa`'s whole specification under the refinement mapping of
`CoreProps`: an instruction takes effect on the edge that takes it out of EX, so
the architectural pc is that of the oldest instruction not yet out of EX, and the
architectural registers are the file with the writes waiting in WB and MEM
applied. Memory and CSRs are written from EX and map to themselves.

`CycleIdentity` is the accounting of the performance counters, stated so that it
holds: cycles = instructions retired *or trapped* + interlock and multi-cycle
stall cycles + 2 x redirects + the two-cycle fill, less bubbles not yet drained,
less interlock events overridden by a redirect in the same cycle. `BoundedGap`
bounds the time between two instructions leaving EX by a flush plus the longest
occupancy; with it, what `Progress` says as a liveness property is also quantified.

### Bounds, and why they are enough

Eight words of text and of data (`WordSize = 32`), three registers including x0,
divide latency 3 and multiply latency 2, a retired counter modulo 2.

* *Programs.* The initial state picks any program of three or four instructions
  from a set, followed by jumps-to-self. Forwarding reaches three instructions
  back, and the longest window between a producer and anything that can still be
  affected by it is four slots, so `HazardInsns` takes all programs of four; a
  redirect kills two slots, so three slots hold the cause and both victims for
  `ControlInsns` and `CsrInsns`. The loops make transfers go backwards.
* *Latencies.* 3 differs from 2 and lets a producer drain through both forwarding
  positions to the register file while the consumer is held, which is all that a
  longer stall does; the proofs cover every latency.
* *Predictions.* Not taken, taken to an aligned target inside the program, and
  taken to a misaligned one.
* *Counter.* Modulo 2 it wraps within every program.
* *Multiply and divide unit* (`muldiv`). Width 3 has both signs, zero, the most
  negative value and its overflow, and a loop with a first, a middle and a last
  step; every operand pair is tried. The latencies are the hardware's as functions
  of the width. The hardware's registers at 32 bits differ in the width only; the proofs cover every width.
* *Reset.* Allowed at any edge for the programs of `ResetInsns` (`ResetAllowed`),
  so that the cost of reset is paid for those only.
* *Predictor* (`bpred`). Four words of text over two entries, so that two addresses
  share an entry; a stack of two, which three calls overflow; memories that start
  full of plausible entries. There is no bound on the number of transfers.
* *Timing* (`cycle`). Loops of two or four instructions and a call of a function in
  a loop, from nine instructions, until `MaxRetired` = 20 retirements: every counter
  saturates and every entry has been replaced by then. `SpanExact` and
  `ClosureExact` exclude programs in which a return can meet a stall, and
  `ClosureExact` those that jump to the next instruction (section 6).
* *Units.* Words of 8 bits with bytes of 2 have every case a word of 32 with bytes
  of 8 has; second operands lie around 0, the width, the sign and the top. Immediates
  are cut from words of 32 bits, with up to two bits set or clear. Counter halves
  have two values, so that every other count carries, with `mcycle`, `minstret` and
  an event counter side by side. The seed has
  three bits a read, a start-up test of five samples, four repetitions, windows of
  six with five alike, and `MaxSamples` = 14: two windows and the start of a third,
  and three reads.
* *Scripts* (`tools`). Two workers and three mutations: one caught by a check and a
  cocotb test, one by programs, another check and the same cocotb test, one by nothing; two invocations of the formal runner
  with two jobs; a test of each kind in the regression; two registers, eight bytes
  of scratch and two drawn instructions in a random program. Two of a kind race with
  each other; a third adds no order they do not have.
* *Board.* `uart`: four bytes, transmitter and frame of two cycles each; a byte may
  fall into any cycle of the loop. `bringup`: counters modulo 4, `MaxLines` = 24
  (three blocks), one spoiled line, two blocks required. `bench`: three blocks, two
  lost lines of the five kinds that mark, carry a figure or report an error. The
  figures sit at what the checks compare them with: a short run misses the least one by
  a cycle, `drift` the tolerance, `skew` the widest setStats window and `ipc` an IPC of
  one by one each; `jitter` is the tolerance itself, and `brim` has the least run, the
  widest window and an IPC of one together, which is to be scored.

The proofs remove these bounds for everything listed in section 4.

### Fairness

`MulDiv`, `BpredAgree`, `CycleCheck` and the parts of `units` state safety only.

`ToolsSpec` assumes that a script and its children take their next step: a process
of the pool is scheduled, and a tool ends *or is killed by its caller's timeout*;
where the caller has no timeout the module says that the tool ends. `BoardSpec`
assumes that the program and the transmitter go on (`Works`, nothing is asked of the
host) and that the bring-up tool runs (`Tool`, nothing is asked of the board).

`Spec` assumes weak fairness of `Clock`, and `PerfSpec` of `PerfClock`: the clock
keeps running. Nothing else is assumed: not that predictions are ever right, nor
that reset is ever released for good (`Progress` says: unless it is reset for
ever). At every edge some clock action is enabled, so no run disables the deadlock
check.

## 4. The proofs

| Theorem | Module | States |
|---|---|---|
| `TypeCorrect` | `PipelineProofs` | `Spec => []TypeOK` |
| `Pipeline` | `PipelineProofs` | `Spec => []PipelineInv` |
| `ForwardingCorrect`, `OperandsCorrect`, `FetchCorrect`, `RetirementCorrect` | `PipelineProofs` | the four safety properties of that name |
| `PipelineRefinesIsa` | `RefinementProofs` | `Spec => Implements` |
| `TaughtAligned` | `RefinementProofs` | `Spec => []PredictorTaughtAligned` |
| `CyclesAccounted`, `GapBounded` | `PerfProofs` | `PerfSpec => []CycleIdentity`, `PerfSpec => []BoundedGap` |
| `PredictedImplementsCore`, `PredictedImplementsIsa` | `RefinementProofs` | `BpSpec => ImplementsCore`, `BpSpec => Implements`, when `PredTargets = Word` |
| `PredictionFresh` | `RefinementProofs` | `BpSpec => []PredictionIsForFetch` |
| `CyclesExplained` | `PerfProofs` | `CheckSpec => []ResidualIsSkew`, when `PredTargets = Word` |
| `PredictorAgrees`, `StackRemembers`, `PredictorLearns` | `BpredProofs` | `AgreeSpec => []AgreesWithModel`, `[]RasIsStack`, `[]PredictorRemembers` |
| `DividerLoop`, `UnitImplementsIsa` | `MulDivProofs` | `Spec => []LoopInvariant`, `Spec => ImplementsUnit`: a refinement |
| `PrintedArrives`, `BytesKept` | `BoardProofs` | `BoardSpec => []PrintedIsSent`, `BoardSpec => []BytesAccounted` |
| `BringupAccepted`, `BringupRejected` | `BoardProofs` | `BoardSpec => []BringupAcceptedIsAlive`, `BoardSpec => []BringupRejectedForCause` |
| `BenchScoredSound`, `BenchHealthyScored` | `BoardProofs` | `BoardSpec => []ScoredIsSound`, `BoardSpec => []HealthyIsScored` |
| `EachCountedOnce` | `UnitProofs` | `CsrSpec => []CountsInOrder` |
| `HealthJudgedRight`, `SeedNeverReused` | `UnitProofs` | `CsrSpec => []HealthAsStandard`, `CsrSpec => []SeedFresh` |
| `GreenEarned` | `HarnessProofs` | `ToolsSpec => []RegressVerdictsEarned` |
| `ProofsEarned` | `HarnessProofs` | `ToolsSpec => []FormalVerdictsEarned` |
| `JudgedOnOwn`, `MutationHonest` | `HarnessProofs` | `ToolsSpec => []VerdictsOwn`, `ToolsSpec => []EndsHonest` |
| `RandomSound` | `HarnessProofs` | `ToolsSpec => []RandomProgramsSound` |

The theorems about the pipeline hold for every word size (a multiple of four, at least 16), register count,
program set, predictor, latency of two or more cycles, initial register and memory
contents, arithmetic, and reset policy. The assumptions are named where the
constants are declared: `WordAssumption`, `FnsAssumption` and `DatapathAssumption`
in `Insn` (the arithmetic maps words to words), `ProgramsAssumption` and
`LatencyAssumption` in `Core` (x0 starts at zero; the unit's count fits its six
bits), `OffsetAssumption` in `Core` (a branch or JAL offset is even, having no
encoding otherwise; only `TaughtAligned` uses it), `SizeAssumption` in `Bpred` and
`BpAssumption` in `CoreBpred` (table and stack sizes and the types of what the
memories hold at power-up), `ResolvableAssumption` and `TextAssumption` in
`BpredAgree`: what resolves comes from aligned words, and whether a word of text is a
branch does not change.

Those about the other components hold for every value of their constants, under:

* `WidthAssumption` in `MulDivIsa`: a word of 1 to 62 bits, as the unit's six-bit count
  demands.
* A frame of at least one cycle (`TxCycles`), and no bound on the bytes received.
* `BringupAssumption`: at least one block is asked for, the counters advance by less than
  a turn in a block, and the board was left anywhere in its program. The capture may be
  of any length and spoil any lines.
* `BenchAssumption`: a capture spans lines of the program, of which it loses at most two;
  the tolerance, and a drift one past it, are less than half of what a cold predictor
  costs (10), and a quarter of the least run is at least one instruction. With three lost lines the parser can be deceived: the end
  of one block, the begin of the next, and the first one's line of a figure.
* `CountersAssumption`: halves of at least one value, event 0 selecting none, and the
  counters being `mcycle`, `minstret` and the event counters.
* `SeedAssumption`: the width, cutoffs, window and start-up length are positive.
* `RegistryAssumption`: a test of the registry is of one of the five kinds the runners
  serve, and a lint, cocotb or formal test has something to look at. RISC-V
  architecture tests may all be excluded, which `run_riscof.py` checks for itself.
* `OwnDirectories`: no two invocations of the riscv-formal runner that run at once
  name the same core. `run_mutation.py` names one per mutation; it is for whoever
  starts two by hand to do the same.
* `ManifestAssumption`: each mutation lists known kinds of test, which are finitely
  many; names of mutations and of kinds do not coincide; the pool has a process.
* `RandomAssumption`: the base register and x0 are not in the pool (`generate()` asserts
  the first), results and operands are drawn from it, and an access is of one, two or
  four bytes. The length of the body, the size of scratch and the distances of branch
  targets are any.

`VerdictsOwn` and `EndsHonest` except a cocotb design that two mutations of one pool
both build (`SharedBuild`): there the code does not keep the jobs apart (section 6). The
manifest has two such mutations. For every other test both hold whatever the manifest
and however many processes.

**The invariant.** None of the safety properties is inductive alone. That a
forwarding select is right now does not say it is right after a stall; that the
operand values are right needs the producers to be where the selects say.
`PipelineInv` conjoins what each stage needs to know of its neighbours:

* `LoadUseSeparated`: a load in MEM has no consumer in EX. The interlock
  establishes it; without it `Operand` could read load data that has not arrived.
* `FwdPrecomputeMatches`: the selects decided in ID equal those EX would compute.
  Kept through a stall by the decay.
* `SourcesHeld`: the values read in ID are the file's, until captured; afterwards
  the unit's operands are the architectural values of the sources. It needs the
  file's write-through.
* `PredictedPath`: each slot holds the address predicted by the slot ahead. It is
  what makes "predicted correctly" mean "the next instruction is already behind".
* `SlotsMatchProgram`: each slot carries the instruction at its pc, which needs
  the hold register.
* `regs[0] = 0`, and a load in MEM is selected as one.

**The refinement.** `RefinementProofs` shows that an edge on which EX holds a
valid instruction and does not stall is an `Isa!Execute` step of that instruction,
that every other clock edge leaves the mapped state unchanged, and that a reset is
an `Isa!Reset`. The step uses `OperandsCurrent` (EX sees the architectural
operands), `SlotsMatchProgram` (and the architectural instruction), the equality
of both machines' traps and results (`SameEffect`), `PredictedPath` for the case
without a redirect, and a lemma on how MEM and WB writes move into the file
(`RegsAfter`). `OnlySourcesMatter` says an instruction's effect
does not depend on a register its control signals say it does not read, which is
why forwarding may return anything for those.

**Alignment.** `PredictorTaughtAligned` follows from `AlignedInv`: the architectural
pc, `mtvec` and `mepc` are aligned. The pipeline does fetch from misaligned addresses
when the predictor says so; the invariant is about the next instruction to leave EX.
It is preserved because a transfer to a misaligned target traps (`TransferAligned`:
an even target whose bit 1 is clear is aligned, and the trap tests only bit 1), and
because a slot is reached without a redirect only at the address its predecessor
goes to (`NextPcFollows`, from `PredictedPath`).

**Accounting.** `CycleIdentity` is preserved because each kind of edge moves the
ledger by exactly the bubbles it creates or drains (`LedgerMoves`). A flush is where
it could fail: it charges two cycles, so both slots have to be occupied, which is
`PredictedPath`; and a stalled multi-cycle instruction must raise no trap
(`StallRaisesNoTrap`). `GapInv` bounds the gap by what the front of the pipeline
holds: a flush empties two slots, each edge fills one, then the unit's count is
added; it also shows the count never passes its target, so the six-bit counter does
not wrap.

**The profiler.** `ResidualIsSkew` compares what the profiler held at the first and the
last mark, any number of edges apart; the two sums agree because each is 4
(`MarksAgree`). `LedgerBalanced` is why: with the redirects not yet charged, the ledger
is what the occupied slots leave of it; when a mark leaves EX the slots behind it are
empty exactly if it redirected; and one edge later the stalls counted early and the
redirects still to be charged cancel. An interlock cycle that a redirect overrides would
break the balance, since the profiler charges both. It takes a load that was predicted
taken, and there is none: only control transfers ever get an entry of the table, and an
entry that hits belongs to the word looked up (`PredictsTransfers`, `SameSlot`). A trap
does break it, by an instruction that leaves EX and never retires; the instruments are
used on what runs before the first trap or MRET only, where `left` stops the comparison.
TLC checked `ProfInv` on the instance of `cycle` before it was proved.

**The predictor.** `BpredProofs` shows by induction that the memories, read through
the valid bits and the occupancy, hold the model's dictionary and stack: the memories
are never reset, so the relation is only about entries that can be read
(`HoldsTheModel`). `StackRemembers` says the same of the stack with no model between:
the slot `Below(j)` places under the pointer holds the return address of the call
that many calls ago, and a full stack forgets the oldest. `PredictorLearns` adds that
two outcomes in a row decide. It needs that a hit is a hit of the branch itself: index
and tag are the quotient and remainder of a word address, which together determine it
(`OneAddress`, for a table of any size), so an entry that hits was written by the
branch that looks it up, and `CounterInv` relates its counter to that branch's last
outcomes. `RefinementProofs` composes: the answer is always a word, so each
edge of the pipeline with the predictor is one of the pipeline with a free one, and
`PipelineRefinesIsa` carries over to the machine that is built.

**The divider.** `UnitInv` says that between the start and the last cycle the partial
quotient and remainder are those of the bits of the dividend consumed so far, by the
divisor's magnitude. One restoring step keeps it (`RestoringStep`): the shifted
remainder is below twice the divisor, so the quotient digit is whether the subtraction
borrows. The powers of two are a recursive function, `Pow2`; that it satisfies its own
recursion, and `Pow2[a + b] = Pow2[a] * Pow2[b]`, follow from the least natural number
without a property, which is where the library's induction, out of the provers'
reach, would have been used. At the end the sign of dividend and divisor is put back
(`SignedDivision`), division by zero and the overflowing quotient included, and the
step in which the unit is ready is the step of `MulDivUnit` that delivers the
reference's value.

**The register block.** What makes `WireInv` inductive is what the program's own
position says of the hardware: between its poll and its store the transmitter has
stayed ready (`PolledReady`), since nothing else writes it; and from its read of STAT
to its acknowledge the receiver still holds the byte the program was told of
(`Holding`), since a byte that arrives meanwhile is dropped and raises the overrun
flag.

**The bring-up.** A capture is judged by its lines alone, so what has to be invariant is
where each of them came from. `InOrder` places line `k` of a capture at a count of lines
since the board was reset (`ClockOf`): it is the line the program prints there, but for
the first, which may be a tail. `OnlySpoiled` says the file differs from it by junk only,
`CountsMove` that the counter of a block is not that of the next, unless it is the fault,
and `Fresh` that after programming no older byte is held. A whole block in the file then has
a number (`BlockShows`); two neighbours in the file have neighbouring `iter` lines, so
neighbouring numbers, so nothing between them was lost (`NextOneUp`, `NextBlock`), and
`ChainCovers` and `ChainCounts` go from neighbours to the first and the last of the blocks.

**The benchmark parser.** `Cut` is what a block of `split_blocks()` is: all that arrived
between two positions of the output, the first of a begin, with no marker arriving in
between. It holds of the blocks split off (`Separate`) and of the open one (`Within`); a
lost line changes neither, since it only adds to what did not arrive. If a block held
lines of two printed ones, an end and a begin were lost between them, and they are the
two that may be (`SeamLost`); then all else arrived, and what is required of a whole block is
there twice, of which the parser takes the first (`ParsedFrom`). So the figures of a score are
of one printed block each, and what `parse_block()` and `check_reproducible()` test is
true of these. `Complete` counts the blocks of a capture without losses, for
`HealthyIsScored`. TLC checked `BringupInv` and `BenchInv` on the instance of `board`
before they were proved.

**Induction.** The library's induction theorems take an operator, which the provers
cannot instantiate. `LeastNat` is what stands for them: a set of numbers that is not
empty has a least one, from the well-foundedness of strict inclusion, with no operator
in its statement.

**The counters.** `CountInv`: the registered masks select, in the cycle after, what the
multiplexers they replace would have selected, and each count is its two halves, the
program-ordered ones, with the carry applied.

**The seed.** `SeedInv` relates the running registers to the log of samples: the
repetition counter is the length of the longest run of equal samples ending now, the
proportion counter is the number of ones in the current window, and the buffer holds
the newest samples since it was emptied. A test has failed so far if and only if some
prefix of the log fails the standard's definition, which adding one sample changes only
at the run or the window that ends there.

**The regression.** A result is written once, from the runner's exit status, so
`RegressInv` says of each written result what it was earned by, and of the runner at
hand what its status and items so far amount to (`ProcInv`).

**The riscv-formal runner.** `FormalInv` says of each invocation that the files in its
core directory are its own, from a bundle that was whole when it was opened; that the
results so far are those of its own checks; and that its exit status follows from
them. Every step of another invocation leaves all three alone, because it writes in
its own directory, and the bundle is put in place by a rename (`OthersKeep`).

**The mutation runner.** `MutInv`: a task that has prepared its test still finds it
where it prepared it (`Prepared`), which is that no two tasks at work share a place
(`Apart`, `PlaceOwn`); a task's results and what it has left make up the tests it
declares (`Reported`); a job past its build has an edit that applies and builds
(`Applied`); how far `main()` is bounds what the tasks may be doing (`PhaseInv`), so a
mutation at work means a clean baseline; the pool is never over its size, and with a
single process a job that raised stops the rest (`PoolInv`); a job's directory is on
disk only while the job works (`DiskInv`). TLC checked it on the instance of `tools`, and
with one process, before it was proved; the proof found one conjunct missing, that no
edit is stale from the pre-flight to the end of the baseline.

**The random programs.** `GenInv` is about the text written so far and what the `Gen`
object remembers of it. `Recorded`: `last_write` and `last_was_load` name, for each
register, its last writer and how many instructions ago it was; with what `_pad_for()`
adds (`PadsReach`), no instruction is put too close behind what it reads (`Spaced`).
`Linked`: a transfer has its label, in the text or yet to come. `Placed`: an access fits
in scratch from s0, or from the alias in front of it with nothing but nops in between;
`Behind` keeps that place while `label_hold` is set, as no label may come between.
`Prologue`: nothing but the start of the program writes s0. Everything the generator
writes past its start is one operation, `Put` (`_emit()` and `_wrote()`), and `PutKeeps`
says that it keeps the invariant for any instruction that is `Allowed`; each kind of
instruction drawn is shown to be made of such steps. `PathInv` follows a path through the
finished text: an aliased access is reached from its alias only, because a label is
never between the two. TLC checked both on the instance of `tools` before they were
proved; the proof needed what the check could not tell, that an alias is never x0.

**Model-checked only.** `Progress`, `ToolsEnd` and `BoardGoesOn` are liveness, which is
beyond the prover. `SpanExact` and `ClosureExact` of `cycle` are about the delayed
predictor of the Python model, a fold over a queue of updates: what a fold computes is
induction over data. `DecodersAgree`, `AbstractionSound`,
`RegistersInert` and `DatapathAgrees` compare functions on a finite set of words, which
TLC enumerates.

## 5. Plan

Done: all modules of section 2 and the proofs of section 4. What the provers can reach of
the properties of section 3 is proved; the others are named there, with the reason.
A next step would be `DecodersAgree` and `DatapathAgrees` for words of any width, which
needs induction over the bits of a word.

### Not modelled

* `rvntt_rvfi` and its wrapper, a verification-only shadow of the pipeline; what it
  would report is what `Implements` shows of the pipeline itself.
* The byte lanes of `rvntt_ram`, and text overwritten while it is fetched: there is
  no FENCE.I, and no program of the repository writes its text. It is the one hazard
  listed without a property.
* GPIO, the UART report and RAM self-test designs, the tops, the reset synchroniser
  and the clock primitive: wiring, or one sequential machine with nothing to race.
* The ring oscillators, which are analogue: in `Seed` any bit may come.
* Build scripts, `compare_bench_runs.py`, the projection of predictor variants, the
  manifest of mutations, `run_zkt.py`, and the stimulus of the benches: they have no
  state that interacts with anything.
* The benchmarks, and the number formatting of the target programs.

## 6. Where the documentation and the code differ

* `rtl/core/rv32i_pkg.sv:234`, "the six close the identity mcycle = minstret +
  load-use + multi-cycle EX + 2 x redirects". Two terms are missing. A trapping
  instruction costs its own cycle in EX, which `minstret` does not count; and an
  interlock overridden by a redirect in the same cycle is counted although the
  redirect's two cycles cover it. `CycleIdentity` is the identity with both terms.
* `rtl/core/rvntt_core.sv:574`, "REDIRECT minus MISPREDICT is the trap-and-MRET
  term". A taken transfer to a misaligned target that was not predicted raises
  both events and traps, so the difference misses that trap.
* `rtl/core/rvntt_core.sv:136`, "a redirect and a stall cannot coincide". A
  misaligned load that traps in EX while its consumer is in ID raises
  `ex_redirect` and `id_stall` together. The core is right anyway, since the
  redirect is tested first everywhere; `Implements` covers that case.

* `tb/mutate/run_mutation.py`, in which every job is said to own its directory: the
  cocotb build of a mutation is named after the test and not after the mutation, so
  two mutations caught by the same test build in one place (`tools_doc_directory`), and a
  job can be told of the other's design; `VerdictsOwn` and `EndsHonest` say so.

Smaller ones, met while modelling, that no run is spent on:

* `rvntt_muldiv.sv:171` says 2*rem + 1 "can exceed 32" bits. Before the last step the
  remainder comes from at most 31 dividend bits, so `shifted[32]` is 0 while the loop
  runs (last conjunct of `LoopInvariant`); the extra bit is only the borrow of `diff`.
* `rvntt_bpred.sv:35` says holding the answer is the same as looking up again. An
  update on the edge of the lookup itself is seen by a second lookup and not by the
  held answer (`AgreesWithModel` is stated for the held one).
* `rvntt_csr.sv`, "writing one half must not disturb the other": holds for `minstret`
  and the event counters, whose write suppresses the count; a write of `mcycle` in the
  cycle its low half wraps still carries into the high one.
* `rvntt_core.sv:579`, "totals are unaffected" by the registered bus: of what has
  drained. A read of an event counter directly behind the instruction that raised the
  event does not see it, and a write of either half in that cycle discards it.
* `rvntt_seed.sv:108`, "the consuming read and a fill can coincide": a read consumes
  only from a full buffer, while nothing is sampled, so that branch is not reached.
  The first read after reset returns the first sixteen samples of the start-up test,
  of which the first two are the synchroniser's reset value. A read may take a full
  buffer in the one cycle between a failing sample and DEAD.
* `tb/perf/run_stall_profile.py:10`, the residual "must be exactly zero": it is the
  difference of what two marks have not yet seen (`ResidualIsSkew`).
* `tb/cosim/cycle_model.py:80`, "one pass is exact": not where returns meet stalls. A
  return that waits in the front end was looked up before the wait began, and the walk
  dates its lookup later (the guard of `SpanExact`).
  `score_trace` (`model/bpred.py:220`) counts a jump to the next instruction as not
  taken, which the core teaches as taken.
* `tb/cosim/gen_random_prog.py:83`, labels "never inside a padding run": padding goes
  through `_emit` too, so a label that falls due inside it is placed there; it does no
  harm (`RandomProgramsSound`). The main program of `commit_diff.py` never passes the
  `stop_pc` that `rtl_records` takes.
* `run_mutation.py`: the copies made for riscv-formal (`cores/mut_*`) are never
  removed; a formal or cocotb build that breaks counts as caught, which the docstring
  (lines 9-10) excludes; an exception in a job ends in a traceback while the rest still
  runs; UNCHECKED is not counted as a problem; anchors are
  counted in the unmodified file.
* `run_riscv_formal.py`: "no checks" exits 1, which `run_mutation.py` reads as a catch;
  `sby` runs without a timeout.
* `run_regress.py`: a printed SKIP line outranks the exit status (no runner prints one
  and fails); a timeout kills the child and not its children. `lint_all.py` finds no
  fault in finding no RTL. `filter_testlist` keeps tests whose path does not parse.
* `parse_soc_uart.py` has ten injected faults where its docstring says nine; it does not
  look at a block's overrun, so with `--no-program` a byte held from before can stand in
  for the echo; and its 32-bit comparison of `mcycle` rejects a healthy board when the
  counter wraps inside a capture.
* `parse_bench_uart.py` does not look at `iter`, so lost blocks go unnoticed; a lost
  ERROR line hides a wrong checksum, since checksums are only compared between blocks;
  three lost lines can make one block of two.

## 7. Running

    tlc -config MCCore.cfg MCCore.tla          # two minutes
    tlc -config MCCycle.cfg MCCycle.tla
    tlc -config MCTools.cfg MCTools.tla        # also MCToolsDocDirectory.cfg
    tlc -config MCBoard.cfg MCBoard.tla
    tlapm PipelineProofs.tla                   # from a quarter of a minute to ten minutes a module

and likewise the other configurations; `MCProgress.cfg` goes with `MCPrograms`,
`MCMulDiv.cfg` with `MulDiv`.
