# A TLA+ model of the RISC-V virtual platform

The repository is a SystemC/TLM 2.0 virtual platform: Spike harts and a
testbench as `SC_THREAD`s, an interconnect (`uncore`), a functional memory and a
Verilated RTL memory behind pin adapters. These modules model its concurrent
core: the cycle-accurate memory, the transaction code that several threads run
over it at once, the testbench that compares it with the functional memory, and
the platforms in which two harts share either memory through the interconnect.
Paths below are relative to the repository.

## 1. Inventory

| component | source | state | operations | interacts with |
|---|---|---|---|---|
| queues, pin adapters, RTL | `src/memrtl/memrtl.cpp:173-241`, `src/memrtl/io_block.v`, `top0.v`, `include/memrtl.h` | `req_PIPE`, `resp_PIPE` (4 each), request register, output register, RAM, skid register and state, reset | `queue2pins_method`, the Verilog block, `pins2queue_method` (all on the clock edge), `reset_thread` | pins between the three; queues towards `b_transport` |
| memrtl `b_transport` | `memrtl.cpp:5-170` | mutex `rtl_access`; per call: buffer, request and answer counters, formed request word, status | range check, blocking burst loop, non-blocking burst loop with two timers | called by `tb` or by `uncore` on a hart's thread |
| memmodel | `src/memmodel/memmodel.cpp` | `sparse_array` | `b_transport` | called by `tb` and by `uncore` |
| tb | `src/tb/tb.cpp` | two buffers, one payload, the delay extension, `sim_test_ok`, `keep_sim` | `tb_thread`, `fillVecWithRandom`, `drivertl`, `drivemodel` | both memories; `running_threads_counter` |
| `rtlcontrol_tlm_extension` | `include/` | two delays | carried by the payload | `tb` to memrtl |
| uncore | `src/uncore/uncore.cpp` | boot ROM, RAM, region bounds; none of its own inside a call | decode, `b_transport`, `setup` | called on the harts' threads; calls the external RAM |
| spike | `src/spike/spike.cpp` | `keep_sim`, one reused payload | `spike_thread`, `mmio_load`, `mmio_store` | uncore; thread counter |
| rbbspike | `src/rbbspike/rbbspike.cpp` | the same, and a local bus | `spike_thread`, `bitbang_thread`, MMIO | uncore, debug module; thread counter, twice |
| top levels | four `sc_main.cpp` | `running_threads_counter` | `sc_start` loop, `sc_stop` | all threads |
| `debug_component`, guest program | `include/dbg_component.h`, `riscv_sw/` | none | logging; one store, one load and a faulting store | |

What is hard in it, and what must hold:

* *Several threads in one `b_transport`.* Two harts reach the RTL memory through
  `uncore` on their own threads. A burst takes many clock edges, so the calls
  interleave; only `rtl_access` keeps one thread from taking the other's answers
  (`memrtl.cpp:47-54`). Each burst must look atomic, and each caller must come
  back.
* *Backpressure.* `pins2queue` learns that `resp_PIPE` is full one edge too late
  and catches the extra beat in a spare register; `ready` then closes the RTL and
  `queue2pins`, and both queues fill. No beat may be lost, doubled or reordered.
* *Power-up noise.* The Verilated registers and the RAM start random
  (`Verilated::randReset(2)`), and requests are queued before reset ends.
* *State kept across waits.* The non-blocking loop keeps a formed request word
  while `nb_write` fails and while answers overwrite the same buffer; the
  testbench reuses one payload, with its extension, for every transaction.
* *One address space made of four parts.* `uncore` decodes the first byte's page,
  Spike's bus looks for a device that holds all bytes, the window is larger than
  the memory behind it, and that memory checks the range again, after `uncore` has
  rewritten the address in the hart's own payload. Together they must be one
  physical memory, and judge every access by all of its bytes.
* *Ending.* A refused access clears its hart's `keep_sim`; the hart's thread, the
  bitbang thread beside it and the other hart each count themselves down, once,
  and `sc_main` must not call `sc_stop` while anything is in flight.
* *A verdict computed from buffers only*, and a main loop that ends only if every
  thread counts itself down.

`PROJECT.json` lists each hazard with its line and the properties that cover it.

## 2. Modules

| module | models |
|---|---|
| `Beats` | the request/response word and the memory's address range |
| `RtlPipe` | the pins: both queues, both adapters, the RTL block, reset |
| `MemQueue` | abstract: a memory behind two bounded in-order queues |
| `MemRtl` | `b_transport` for any number of threads, on top of `RtlPipe` |
| `AtomicMem` | abstract: a shared memory whose transactions are atomic |
| `MemModel` | the functional memory |
| `Tb` | the `tb_with_memrtl` simulation: the testbench thread over `MemRtl` and `MemModel`, and `sc_main`'s loop |
| `Uncore` | `uncore_module`: decode, Spike's bus, the window |
| `Spike` | `spike_module`: MMIO, `keep_sim`, the thread's loop |
| `RbbSpike` | `rbbspike_module`: local bus, bitbang thread |
| `TwoIss` | the three `two_iss` platforms: harts, uncore, either external RAM, `sc_main` |
| `TwoIssMemRtl` | `two_iss_with_memrtl` as a whole: harts and uncore over `MemRtl` itself, down to the clock edge |
| `RtlPipeProofs`, `MemRtlProofs`, `MemModelProofs`, `TbProofs`, `TwoIssProofs`, `TwoIssMemRtlProofs` | theorems about the module each is named after |
| `MCRtlPipe`, `MCMemRtl`, `MCMemModel`, `MCTb`, `MCTwoIss`, `MCTwoIssMemRtl` | values for the constants |

`MemRtl` extends `RtlPipe` and adds the threads; `Tb` extends `MemRtl`, with the
testbench as its only thread, and instantiates `MemModel`. `TwoIss` extends the
hart modules and has `AtomicMem`, for `memrtl`, or `MemModel` behind its window;
what it promises to the harts is `AtomicMem` again, over the physical addresses.
`TwoIssMemRtl` extends `MemRtl`, whose threads are now the harts, and takes the
actions of `TwoIss` outside the window from an instance of it; that instance is
also what it implements.

```
 Tb ──extends── MemRtl ──extends── RtlPipe ──extends── Beats
  └─instance─ MemModel      │implements          │implements
                │implements │                    │
                └────── AtomicMem              MemQueue
                            │instance, and implements
              TwoIss ───────┘
                ├─extends── RbbSpike ── Spike ── Uncore ── Beats
                │implements
           TwoIssMemRtl ──extends── MemRtl
```

Definitions whose name carries a suffix after an underscore and whose comment
starts with "Mutant:" are wrong on purpose: each changes one definition the way a
plausible bug would, to show that a property notices it. Specifications never use
them.

### State and actions against the code

*Clock edge.* `queue2pins_method`, the Verilog `always @(posedge clk)` blocks and
`pins2queue_method` are sensitive to the same edge. `sc_signal` updates and
non-blocking assignments take effect after all of them have read the old values,
so an edge is one action, `ClockEdge`, the conjunction of `Queue2Pins`, `IoBlock`
and `Pins2Queue`. `up_ready = down_ready` is combinational, so `queue2pins` sees
`pins2queue_up_ready` itself.

*Threads against the edge.* The clock toggles and its methods run one delta cycle
after an instant begins; a thread whose `wait(time)` expires runs in the first
delta, and a thread woken by a queue runs in a later one. A thread step is
therefore never in the middle of an edge and is an action of its own. A queue
operation of a thread and one of an edge at the same instant act as in one of the
two orders, both of which are behaviours of the model.

*Time.* Clock periods and the delays of the extension are not kept: edges and
expired timers happen in any order. That covers every pair of delays, so what
holds here holds for the delays in the script. One thing is kept: `sc_mutex::unlock`
notifies immediately, so a waiter runs before time passes and before the
unlocking thread, which must go through `wait(delay)`, can call again. `NoneWoken`
says so; without it a thread could lose the mutex for ever.

*Reset.* `rst_timeout` is 17 ns and the clock period 10 ns: the edges at 0 and
10 ns fall into reset, `ResetEdges = 2`.

*`b_transport`.* Locals that survive a wait are variables indexed by thread:
`curr_req`, `curr_resp`, `req_vec` (`NoBeat` when `req_data_set` is false), `data`
and `status`. `Begin` is the code from the entry to the lock, `WriteBeat` and
`ReadBeat` the two halves of the blocking loop, `NbRequest` and `NbResponse` the
two branches of the non-blocking loop, and the last answer also unlocks. In a pass
of that loop where both timers have expired the branches run one after the other
in the same delta; they touch opposite ends of the pipeline, so running them as
two steps adds no outcome. A failed `nb_read` changes nothing and is no step.

*Harts.* `addr_to_mem` returns null, so Spike sends every access it does not answer
from its instruction cache through `mmio_load` or `mmio_store`. `pc[h]` says where
the hart's thread stands: in an instruction (`step`), in `uncore`'s `b_transport`
(`uncore`), in the external RAM's (`target`), in `wait(delay)` (`wait`), in the
quantum's wait at the end of the loop body (`pause`), or `ended`. Which accesses an
instruction makes is arbitrary, from `Calls`; a failed one traps, and Spike ends
the step on a trap, so `MmioReturn` goes to `pause`. An access is aligned
(`cfg.misaligned` is false) and so within one page, which `AccessAssumption`
states and the decode relies on.

*uncore.* It has no thread: `b_transport` works on the payload of the hart that
calls. `trans` is that payload, whose address the window case rewrites, and
`access` keeps what the hart asked for, as the arguments of `mmio_load` do. The
RTL memory waits inside the call, so calls of the two harts overlap there;
`target[h]` is the transaction of hart `h` inside the external RAM. For `memrtl`
that is `AtomicMem`, which `MemRtl` implements (section 4); for `memmodel`
it is that module's own `b_transport`. In `TwoIssMemRtl` it is `MemRtl` itself:
`Enter` is uncore's call of `b_transport` on the hart's thread, `InMemRtl` a step of
that thread inside it, `Clock` the kernel, and `Leave` the way back to the hart. The
hart's payload has no delay extension, so its bursts are blocking. `target[h]` and
the memory are then no variables but what uncore sees of memrtl (`TargetView`,
`MemView`). The `wait(delay)` that follows the call in `mmio_load` is where
`NoneWoken` holds a returning hart back.

*rbbspike.* The local bus holds only the debug module, at page 0; an access to it
never reaches `uncore`, and what the debug module answers is arbitrary. A bitbang
tick changes only Spike's debug module, so the model keeps the test of `keep_sim`
and what follows the loop. A halted hart fetches from the debug page and is no
special case.

*sc_main.* `Stop` is the end of the `while` over `running_threads_counter`. A
`SC_REPORT_ERROR` on a hart's thread is an exception that leaves `sc_start` and is
caught: `main = "caught"`.

*External code.* Spike's `bus_t` and its devices, `sc_fifo`, `sc_mutex` and the SystemC scheduler are modelled from
how the code uses them.

## 3. Runs

| run | instance | checks | shows |
|---|---|---|---|
| `pipe` | queues of 1, one address, 1-bit bytes | `PipeTypeOK`, `ImplementsMemQueue`, `StableUnderBackpressure` | the pins implement a bounded in-order queue in front of a memory |
| `harts` | 2 threads, queues of 2, 2 bytes; blocking stores, loads, one burst over the end | `PipeBelongsToOwner`, `OneBeatWhenBlocking`, `WaiterIsNext`, `ImplementsAtomicMem`, `EveryCallReturns` | bursts of two harts are atomic, none is overtaken and none starves |
| `mixed` | 2 threads, queues of 1, 3 bytes; both modes | `TypeOK`, `PipeBelongsToOwner`, `OnlyRangeErrors`, `BurstNeverStuck`, `ImplementsAtomicMem` | the same with many beats in flight; the LAST checks never fire; threads, queues and pins never lock each other |
| `burst` | 1 thread, queues of 1, bursts of 6 | `RequestWordIsCurrent`, `ImplementsAtomicMem`, `EveryCallReturns` | bursts longer than the pipeline (5 beats) survive every full queue |
| `full` | 1 thread, queues of 4, bursts of 13 | `BurstAdvances`, `EveryCallReturns` | the code's own depth: 11 beats fill it, 13 still get through, nearer the end with each productive step |
| `model` | 2 initiators, bursts from address 0 | `ImplementsMemory` | the functional memory is right where the testbench uses it |
| `model_offset` | 1 initiator, accesses at offset 2 | `BytesAtOwnAddress`, *violated* | it ignores the address |
| `test` | bursts of 3 and 2 over 3 bytes, queues of 1 | `TestTypeOK`, `NoMismatch`, `PassMeansNoError`, `ModeMatchesStep`, `TestCompletes` | the whole test passes, and ends, for all data and timer orders |
| `extension` | bursts of 2 and 1 | `ExtensionDestroyed`, *violated* | the delay extension is never destroyed |
| `two_iss` | 2 harts over the RTL memory; loads, stores and fetches of every region, the ROM, the unbacked part of the window and a gap | `NoErrorReport`, `StopsWhenAllEnded`, `ImplementsPhysicalMemory`, `EndsOnRefusal`, `EveryAccessReturns` | the parts of the address space act as one memory; refusals are exact and end their own hart only |
| `two_iss_pins` | 2 harts over memrtl with queues of 1; a store and a load of the window, a refused store to its unbacked half, a load from the ROM, a store to no device | `StopsDrained`, `ImplementsTwoIss`, `PinsImplementPhysicalMemory`, `EveryAccessComesBack` | the platform down to the pins is the platform with an indivisible memory, and gets through without assuming that the memory answers |
| `two_iss_rbb` | a debug hart and a plain one over the functional memory; the guest program's accesses and the debug page | `PlatformTypeOK`, `StopsWhenAllEnded`, `ImplementsPhysicalMemory`, `EndsOnRefusal`, `RefusedHartsStop` | three threads count down once each, whatever their order, and the simulation ends |

*Bounds.* Queue depth 1 is the smallest pipeline in which every buffer can be full
while another is empty, and bursts of 6 overfill it; `full` asks whether a
burst advances and ends at the real depth, with one byte value so that only control
varies. Two
threads are all that `uncore` has sockets for. In `two_iss` a page has two bytes,
so that an access can be a whole page or one of its halves, each region is one
page, with a gap after the last, and the memory backs half of the window, as 64 KiB
of 16 MiB; that is every outcome of the decode, the bus and the range check. The
accesses of `two_iss_rbb` to the window start at its base, because the functional
memory ignores addresses (finding 1). `two_iss_pins` has the memory map of `two_iss`
with no RAM on Spike's bus, whose bytes would only multiply the states, and one
access of each kind that uncore tells apart. One-bit bytes are enough to tell
right from stale data because buffers start with other bytes than the memory
holds. `edges` is the only counter and stops at `ResetEdges`.

*Fairness.* `WF(Kernel)`: the clock runs while `sc_main` calls `sc_start`.
`WF(ThreadStep(t))`: the scheduler runs a runnable thread, and timers expire.
There is none for `Call`: an initiator need not call. In `TwoIss`,
`WF(HartThread(h))` and `WF(BitbangThread(h))` are the scheduler again,
`WF(ExternalRam(h))` is what `EveryCallReturns` and the functional memory give
(`two_iss_pins` does without it: there only threads and clock are fair), and
`WF(Stop)` is `sc_start` returning at the end of its slice; what instructions do,
`EndStep` included, has no fairness, so `RefusedHartsStop` starts from the refusals. The test additionally
assumes that `sc_main` gets control back at the end of a slice, `WF(Stop)`. Weak
fairness is enough for the mutex because of `NoneWoken` (`WaiterIsNext` says what it
is needed for), and with two threads only: with three, `sc_mutex` promises nothing to a waiter that another overtakes.

*Deadlock* is checked in every run; the finished test has an explicit `Stopped`
step and the finished platform `Returned`.

### Findings

1. `src/memmodel/memmodel.cpp:23,31` index `sparse_array` by the loop counter and
   ignore the address. The testbench only uses address 0 and cannot see it; a hart
   that stores at a non-zero offset of the external RAM overwrites offset 0.
2. `src/tb/tb.cpp:174` declares `ext` again inside the `if`, so lines 198-202
   never clear nor delete the extension, against the comment on line 169. The
   payload keeps it. `ModeMatchesStep` shows that the script is in the one order
   that hides this: no transaction without delays follows one with them.

## 4. Proofs

`RtlPipeProofs` proves, for every memory size, byte set, queue depth and reset
length (`MemoryAssumption`: the memory has a byte 0 and addresses are naturals;
`PipeAssumption`: depth and reset length are positive):

* `PipeTypeCorrect`: `PipeSpec => []PipeTypeOK`, the queue bounds included.
* `PinsStable`: `PipeSpec => StableUnderBackpressure`.
* `PipeImplementsMemQueue`: `PipeSpec => ImplementsMemQueue`.

The type invariant is not enough for the refinement. `PipeInv` adds `SkidInv`
(ready is shown exactly in BYPASS, or the pipeline could accept a beat while its
spare register is taken) and `ResetInv` (after reset has been seen by an edge no
valid bit is left from power-up, or noise would become a response). The refinement
maps `reqs` to the request register followed by `req_PIPE`, and `resps` to
`resp_PIPE`, spare register and output register. An edge in reset and an edge
while ready is low are stutters (`ResetStutters`, `SkidStutters`); an edge while
ready is high executes the beat in the request register, if there is one
(`ReadyStep`); the queue ends are `Request` and `Respond`. What remains are facts
about concatenations, stated once (`HeadThenTail`, `TailOfConcat`,
`AppendToConcat`).

`MemRtlProofs` proves, for any threads, transactions, queue depth and mixture of
blocking and non-blocking bursts (`MemRtlAssumption`: every transaction has a length
and a buffer of that length, and the values that stand for "none" are not threads,
transactions or beats):

* `MemRtlTypeCorrect`: `Spec => []TypeOK`.
* `PipeHoldsOwnersBeats`, `BlockingSendsOne`, `KeptWordIsCurrent`,
  `LastAlwaysMatches`: `PipeBelongsToOwner`, `OneBeatWhenBlocking`,
  `RequestWordIsCurrent` and `OnlyRangeErrors` always hold.
* `BTransportIsAtomic`: `Spec => ImplementsAtomicMem`.
* `NobodyOvertakes`: `Spec => WaiterIsNext` for at most two threads (`AtMostTwo`;
  `uncore` has two sockets). With three it is false.
* `NoBurstGetsStuck`, `BurstsAdvance`: `Spec => []BurstNeverStuck` and
  `Spec => BurstAdvances`.

`PipeBelongsToOwner` is not inductive: it says where each beat goes, not what the
answers carry nor what the memory and the buffer hold by then. The invariant `IInv`
is `PipeInv`, `TypeOK` and `MutexInv`: without an owner the pipeline is empty, and
each thread has its `PlaceInv` (what its variables hold at its place in the code)
and, if it owns the mutex, a `Burst`: beats answered, executed and waiting are
consecutive parts of its transaction, the bytes executed are in the memory, and the
bytes answered in the buffer. The proof uses the pins only as `MemQueue`
(`PipeSends`, `PipeAnswers`, `PipeRuns`), so each step is one of four facts about a
burst and a queue (`BurstStart`, `BurstRequest`, `BurstRespond` and their kin). In
the refinement a burst takes effect when its thread gets the mutex. All its other
steps are stutters, because memory and buffer are seen through the burst
(`Through`); the last answer is a stutter because by then there is nothing left to
see through (`ThroughEnds`).

The last three are the safety half of `EveryCallReturns`. `WaiterIsNext` needs an
invariant of its own, `WaitersInv`: a sleeping waiter has an owner that will wake
it, and a woken one finds the mutex free and the other thread still in the wait that
follows its unlock. `BurstNeverStuck` follows from `IInv`: if answers of the owner
are owed, some beat is between the queues, and then valid, ready and the skid
register let the clock move one (`NothingBlocks`); if none is owed, the request
queue has room. `BurstAdvances` bounds the rest: `Todo` counts six places for a beat
not yet pushed and fewer the nearer it is to `resp_PIPE`, and each action is
compared with it (`ReadyMoves` and `SkidMoves` for the edge after reset,
`ResetIdles` in reset, `SendWorks`, `TakeWorks`). So a burst of n beats takes at most
6n productive steps and one is always possible; that it is taken is fairness, which
is left to TLC.

`MemModelProofs` proves `ModelFromZero`: `ModelSpec => ImplementsMemory` if every
transaction starts at address 0. Without that hypothesis it is false (finding 1).

`TbProofs` proves, for every memory, queue depth, reset length and bursts that fit
into the memory (`TbAssumption`, `ScriptAssumption`):

* `TestTypeCorrect`: `TestSpec => []TestTypeOK`.
* `TestPasses`: `TestSpec => []NoMismatch`.
* `VerdictIsHonest`, `ModeFollowsScript`: `PassMeansNoError` and `ModeMatchesStep`
  always hold.

Of memrtl the proof uses `IInv` and the refinement alone: between call and return
the RTL either has done the transaction or has not (`Pending`, `TargetServes`), and
`ModelServes` says the same of the functional memory. `NoMismatch` needs `SameInv`:
after the store the two memories agree on all that a load can read, and no load
changes either. `ExtInv` follows the extension that is never destroyed.

`TwoIssProofs` proves, for every finite set of harts (`PlatformAssumption`), any of
them with a debug module (`DebugAssumption`), every set of accesses that stay in
their page (`AccessAssumption`) and every memory map of disjoint regions made of
whole pages (`MapAssumption`):

* `TwoIssTypeCorrect`: `Spec => []PlatformTypeOK`. Its hard part is the range of the
  thread counter, which holds because it *is* the number of live threads
  (`CounterInv`).
* `NoErrorReports`, `StopIsLast`: `Spec => []NoErrorReport` and
  `Spec => []StopsWhenAllEnded`.
* `EndsWhenRefused`: `Spec => EndsOnRefusal`, for both external RAMs.
* `OnePhysicalMemory`: `Spec => ImplementsPhysicalMemory`, with the RTL memory for all
  accesses, with the functional memory if every access that reaches it starts at the
  base of the window (`FromBase`, which the accesses of `two_iss_rbb` satisfy).
  Without that it is false (finding 1).

The inductive invariant is `PlatformTypeOK` with `CounterInv`, `MainInv` (a stopped
simulation has no live thread) and `PayloadInv`, which says for each place in the
path of an access what payload and target hold: in `uncore` the payload is still
the hart's access, in the external RAM it is that access relative to the window
and the decode was right, and an answer is OK exactly when the memory map permits
the access. The step cases rest on lemmas about the map alone (`PageOf`,
`BusAccess`, `WindowAccess`, `UnknownAccess`): since an access stays in its page and
regions are whole pages, what the decode finds for the first byte holds for all.
For the refinement, entering and leaving the window are stutters, and each of the
bus, the external RAM and the refusal is the one step at which the access takes
effect (`BusLoadView` to `MmioReturnView`).

`TwoIssMemRtlProofs` puts the two halves together, for every finite set of harts,
memory map, queue depth and reset length (the assumptions of `TwoIss`, restated by
`PinsAssumption`, and that memrtl's transactions include what uncore forwards, which
is a matter of naming them):

* `PinsAreOneStep`: `PlatformSpec => ImplementsTwoIss`.
* `OneMemoryThroughPins`: `PlatformSpec => PinsImplementPhysicalMemory`.
* `DrainedWhenStopped`: `PlatformSpec => []StopsDrained`.

Each step of the composition is a step of `MemRtl` or leaves it alone, and a step of
`TwoIss` or leaves it alone; `JointInvariance` carries both inductive invariants
along. Inside memrtl `RefinesStep` says which of its steps takes effect, and that
one is `ExternalRam` of `TwoIss` (`InMemRtlActs`); clock edges are stutters. The
theorems of `TwoIssProofs` are then used through an instance of that module, whose
assumptions `AssumptionsHold` proves for the substituted constants. `StopsDrained`
combines the two invariants: when `sc_main` has stopped every hart has ended
(`MainInv`), so none is in the window, no thread owns the mutex, and without an
owner the pipeline is empty (`MutexInv`).

The refinements so make a chain that is itself proved: harts over decode, bus and
window, over bursts under a mutex, over queues, over pins and registers are one
memory (`OnePhysicalMemory`, `BTransportIsAtomic`, `PipeImplementsMemQueue`,
composed in `OneMemoryThroughPins`).

Model-checked only: liveness (`EveryCallReturns`, `TestCompletes`,
`EveryAccessReturns`, `EveryAccessComesBack`, `RefusedHartsStop`), which the prover
does not handle. Every other property of the passing runs is a theorem.

## 5. Not modelled

Left out for good: logging (`debug_component`), waveform tracing, coverage files,
elaboration, and simulated time beyond the order of events. The contents of the
boot image are arbitrary in the model, so reading the file, and its errors, are
not part of it. The instruction set simulator, its debug module and the remote
bitbang server are library code; the model allows any access where they make one.
The getters and placeholders that `spike_module` overrides have no state.

Addresses and lengths are naturals, while the range checks of the code compute
`addr + length - 1` in machine words. The two differ for a length of 0 and for sums
that wrap, which no caller in the repository sends: `TbAssumption` and
`AccessAssumption` say so for the testbench and the harts.
