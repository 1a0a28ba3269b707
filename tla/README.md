# TLA+ models of r9999

r9999 is an out-of-order MIPS core in SystemVerilog with a virtually indexed L1
data cache, an L1 instruction cache, an inclusive L2 and the hooks an SGI Indy
SoC needs (DMA snoops, injected page flushes).  A C++ top level runs the RTL in
lock step with an instruction interpreter.  This directory models the parts of
both whose correctness depends on the order in which things happen, checks them
with TLC on small instances and proves theorems about them with TLAPS.

## 1. Inventory

| Component | State | Operations | Interaction |
|---|---|---|---|
| L1D (`l1d.sv`) | tag, valid, dirty, data RAMs; FSM state; request registers; miss queue; LSU store buffer; flush registers; probe registers | loads, stores, CACHE hit ops, uncached accesses, fills, victim writebacks, line, page and whole-cache flushes, probe answers | takes requests of the LSU, raises one request at a time to the arbiter, answers the L2's probes |
| L2 (`l2.sv`) | RAMs plus presence bit `pd` and colour `pidx` per line; request registers; probe result; flush sub-FSM | serve LW, SW, WB, INVL, PGDROP, uncached; snoop WBINV and drop; flush walk | serves one request at a time, probes the L1D, owns DRAM |
| Arbiter (`core_l1d_l1i.sv`) | two sticky request latches, grant, last grant | grant, steer the response | between the L1s and the L2 |
| L1I (`l1i.sv`) | two-way RAMs, fetch queue, predictors | fetch, refill, flush, restart | reads lines through the arbiter |
| Core (`core.sv`, `rob.vh`) | ROB, rename maps, free lists, restart FSM, CP0 | allocate, complete, retire, take exceptions, serialize, flush | starts cache flushes, restarts fetch, colours memory requests by era |
| Execution (`exec.sv`) | schedulers, LSU slots, register files, hi/lo | select, execute, forward, replay memory operations | L1D port 2, ROB completion |
| TLBs (`tlb.sv`, `itlb.sv`, `mipsseg.sv`) | entries | lookup, write, probe | translate for L1D and L1I |
| Arithmetic (`divider.sv`, `uni_divider.sv`, `mul.sv`, ...) | iteration state | divide, multiply | execution |
| Bit primitives (`find_first_set.sv`, `popcount.sv`, ...) | none | pure functions | schedulers and free lists |
| FPU (`fpu*.sv`) | pipelines | IEEE arithmetic | execution |
| Interpreter (`interpret.cc`) | registers, CP0, TLB with a micro-TLB in front, LL/SC link, memory | `execMips`: fetch, translate, execute, delay slots, exceptions | the reference the RTL is compared with |
| Simulator top (`top.cc`) | cycle loop, checker counters, mirror queues, memory port, snoop queue, watchdogs, profile | clock the RTL, step and compare the interpreter, answer memory, inject snoops | drives the RTL's memory and snoop ports |
| Devices (`sgi_*.cc`, `sparse_mem.cc`) | controller, HPC and SCC registers, EEPROM shift register, memory | word loads and stores by address range | behind the memory port |

What is hard in it:

* **Concurrency.** L1D, L2, arbiter, L1I, core and DMA engine are independent
  FSMs.  The L2 waits for the L1D (probe) while the L1D waits for the L2 (its
  own request).
* **Data in transit.** Dirty data moves through request registers, an arbiter
  latch, the L2's store register and the bus; a probe or a device may look for
  it at any point.
* **Synonyms.** The L1D is indexed by the virtual address: one physical line
  may be looked for in several sets.
* **Pulses.** Responses, flush completions and snoop completions last one cycle.
* **Speculation.** Requests of a flushed era are still in the memory pipe
  after a restart.
* **Two executions.** The interpreter follows a core whose interrupts, faults,
  TLB writes and timing registers it cannot predict: what it adopts from the
  core it cannot check, what it does not adopt diverges.
* **Second copies in the interpreter.** The micro-TLB, the LL/SC link, the FCCR
  view of the condition codes and the halves of a register pair.

For each component, what makes it correct:

* caches: inclusion with presence, one L1D copy of a line, no write lost, no
  stale copy in front of a newer one, a device sees the CPU's writes, every
  request answered once, no deadlock, no starvation;
* core: in-order retirement, precise exceptions, no physical register owned
  twice, every drain ends;
* LSU: a load returns the youngest older store's bytes, an operation of a dead
  era has no effect, the miss queue does not overflow;
* TLB: every access is answered as the entries at that moment say;
* interpreter: exceptions restart where they must, the link is the program's,
  32-bit results are sign-extended, results are those of the integers;
* checker: a correct core is never reported, a wrong one always is;
* memory port and profile: every request answered once with the right bytes,
  every slot counted once;
* arithmetic and primitives: equal to their mathematical definition.

## 2. Modules

    Interconnect      wires, request and response records, the arbiter
      L1D             the data cache           (EXTENDS Interconnect)
      L2              the inclusive L2         (EXTENDS Interconnect)
        MemHier       L1D, L2, arbiter, L1I reader, core flushes, DMA engine, DRAM
          MemHierInv      the inductive invariant behind Presence
            MemHierPresence   proofs of the types, Presence, NoSynonym, ResponseTaken
            MemHierData       the inductive invariant behind Coherent, software's discipline
              MCMemHier         instances for TLC
              MemHierWork       the parts of it about requests, transfers and walks
              MemHierCoherent   the parts about data; proofs of Coherent, FlushComplete,
                                DmaOutFresh, PageDropClean, ReloadOnce

    Rename            RATs, free lists and ROB entries of core.sv
      MCRename        instance for TLC
      RenameProofs    proofs of Ownership, RetiredOwnership, OperandHeld, SourceCurrent,
                      NeverWedged

    Uops              kinds of instructions, the program that runs
      L1I             the fetch FSM            (EXTENDS Uops)
        Core          decode, ROB control, restart FSM, composed with L1I
          CoreInv     the inductive invariants behind InOrder and NonSpeculativeEffect
            MCCore      programs for TLC
            CoreProofs  proofs of InOrder, PreciseException, CacheOpPerformed, ColourIsEra,
                        NonSpeculativeEffect

    TlbFormat         addresses, TLB entries, how an entry matches
      TlbSpec         abstract: translation by the TLB alone
      IssTlb          the interpreter's TLB and micro-TLB   (refines TlbSpec)
        Iss           execMips: control, exceptions, branches, LL/SC
          MCIss       instance for TLC
          IssProofs   proofs of TypeOK, UtlbExact, ResumePoint and the refinement

    IssData           integer and memory instructions of execMips
      IssFp           floating-point registers, conversions, condition codes
        MCIssFp       instance for TLC
        IssFpProofs   proofs of TypeOK, SignExtended, ResultExact, UnalignedPair,
                      SinglesHeld, FccViews

    Devices           memory ranges, controller, HPC, SCC
    Topdown           the top-down profiler
      Cosim           the cycle loop of top.cc, composed with both
        MCCosim       programs and command lines for TLC
        CosimProofs   proof of MemoryPorts

### 2.1 The memory hierarchy

**How state corresponds.** Each variable is named after the register it stands
for and says so in its declaration.  `d_mem_req` is the bundle `r_mem_req_*`;
`ack` stands for the probe answer together with `r_prb_seen`; `l2_r` is the
bundle of registers the L2 fills in `IDLE`; `rsp` is the response pulse.
Registers whose content cannot be read any more are reset to a fixed value, so
that TLC does not tell such states apart.

**How actions correspond.** One action is one arm of an FSM's `case`, including
what the clocked assignments and the RAM write logic do in that cycle.  A pure
turnaround state (the next state with no condition) is folded into its
successor: `WAIT_FOR_RAM`, `STORE_TURNAROUND`, `WAIT_CLEAN_RELOAD`,
`WAIT_STORE_IDLE`, `UNCACHE_WB_TURNAROUND`, `FLUSH_WAIT` in the L2;
`HANDLE_RELOAD`, `FLUSH_CL` in the L1D.  The L2 does nothing in the cycle its
response is on the wire except such a turnaround, which is why no L2 action of
`IDLE` or `CHECK` is enabled while `rsp.valid`.

**Abstractions.**

* A line's data is ONE tracked byte.  `full` says whether a store's mask covers
  it.  An uncached store's bus data is the store merged into whatever the
  indexed set holds (`SendUncached`), as in the code.
* Set numbers are given by the constant `SetOf[line][colour]`, and `ColourOf`
  gives the colour back, as the set number is colour bits above in-page bits.
* The issue side of the L1D is the action `Accept`: some legal operation reaches
  port 1 when the L1D is `ACTIVE`, port 1 is empty and no probe waits.  An
  operation that completes at port 2 (a load hit) changes no line.
* `PgDirtyMax = 2` saturates the 16-bit dirty counter: only zero matters.
* `latest` is a history variable: what was last written to each line.
* The initialisation walks are over in `Init`.

**External.** DRAM and the DMA engine are not in the repository.  They are
modelled from how the ports are used: a WBINV (snoop or `XPG_WBINV`) before a
transfer, a drop (snoop or `XPG_INV`) after a DMA-in, and no CPU store to the
buffer in flight when the transfer is started (rule D4 of
`INCLUSIVE_L2_PROTOCOL.md`).  `Legal` states software's part: it does not write
a buffer a device owns.

**Left out of the modelled files.** The `l2_nocache` debug mode; the L1I-only
flush path of the L2 (`core.sv` never raises `flush_req_l1i`); the
`WAIT_INJECT_RELOAD` arm of a clean miss (a hazard between back-to-back port-1
writes, which belongs to the LSU model); bus errors; counters and traces.

### 2.2 Renaming

`core.sv` has four copies of the renaming logic: GPR, FP, HILO and FCR, each with
a speculative RAT, a retirement RAT and two free lists.  `Rename` keeps one map
and two sets over disjoint register names; `LFile` and `PFile` say which file a
register belongs to, and `Pool` which free registers a result may take (GPRs by
half and by parity, FP registers by half, the others from the whole list).

* `Alloc`, `AllocTwo` are `t_alloc` and `t_alloc_two` with their guards;
  `Retire`, `RetireTwo` are `t_retire` and `t_retire_two`; `Bump` is the
  `ARCH_FAULT` cycle, in which the faulting entry leaves the ROB without
  touching a register; `RatCopy` is the `RAT` state.  A cycle that renames and
  retires is the two steps one after the other: renaming takes only registers
  that were free at the start of the cycle, retiring only entries that were
  there.
* `Complete` and `StoreData` are the completion of the two halves of an entry;
  an operand has been read when its half is complete.  `late` collects the data
  operands of stores that retired before reading them.
* `srcA` and `srcB` stand for an entry's operands in general (also srcC, HILO,
  FCR: each is looked up and bypassed in the same way).
* `phase` is the part of the restart FSM that renaming depends on.  When to
  leave `ACTIVE` is left open, so that the properties hold for every order in
  which the FSM may drain, bump and copy; two bumps cover a fault in a delay
  slot.

### 2.3 Fetch, ROB control and restarts

`Core` and `L1I` step together, once per clock: `Next` is a core step and a fetch
step.  What goes wrong between them is a matter of single cycles (an acknowledge
that is a pulse, a request that is a level, an instruction that is pushed in the
cycle the queue is cleared), so nothing is interleaved and no state is folded.

* An instruction is its address and its kind (`Uops`).  The kinds are what decode
  tells the rest of the machine: has a delay slot, nullifies it, serializing,
  oldest first, complete on entry, may fault, has an effect at execute.  `of` is
  a TLB write (oldest first, effect at execute, fetch restarts behind it), `cfc1` an
  oldest-first one without such an effect, `trap` an ALU operation that may fault.  A
  program is a function of the address; every branch may go either way each time
  it is executed.
* `L1I` has one action per arm of `l1i.sv`'s `case`.  Hit or miss, the predicted
  direction and the time of a reload are free; the shapes of fetch groups, the
  delay-slot bit, the queue and the order of flush before restart are the code's.
* `Core` has one action per arm of the restart FSM.  `Clock` is the rest of the
  cycle: entries move through execution at any speed, decode pushes what fits and
  may put an interrupt or an injected flush in the place of an instruction that is
  not in a delay slot, entries retire, leave and enter.  Free registers and
  scheduler entries may run out at any time, so an allocation that is possible
  may also not happen.
* `colour` is the era bit of memory requests, `dead` the colours with unanswered
  operations of squashed instructions.
* `want` is the reference machine: `interpret.cc` reduced to control flow.  It
  steps when the core retires.  `undone` and `skipped` are history variables.

Left out: HALT, resume and single-step, the predictors' contents and mispredicted
targets of indirect jumps (the same `faulted` bit as a wrong direction), the
different vectors and cause codes, the Status hazard window of the R4000 option.

### 2.4 The interpreter: translation and control

An address is `[r, x, m, w]`: region bits, the bits a TLB ignores, VA[39:32] and a
word of the low 4 GB, so that sign extension, the segments and the three ways the
code compares an address with an entry can differ.  `TlbFormat` holds what an entry
and a match are; the frame and the page offset are added, which is the code's OR
for a frame aligned to its page.

* `IssTlb` is `va_translate` (unmapped segments, micro-TLB hit, search in index
  order, fill), `tlb_probe_ro`, TLBR, TLBWI, TLBWR, TLBP, the staging registers
  and `iss_apply_tlb_write`, by which the simulator mirrors the RTL's TLB writes.
  `xl` is the last call of `va_translate` and its outcome.
* `TlbSpec` is the abstract specification: no micro-TLB, no index order; an access
  is answered by an entry that is in the TLB now and matches, or raises.
* `Iss` is `execMips`.  A delay slot is a recursive call in the code and a frame
  on `stack` here; `ph` says where in a call the interpreter is.  `Raise` is what
  the `raise_*` functions share; data are abstracted (an address operand is any of
  `DataVA`, a condition holds or not), the memory effects of LL/SC included: only
  lines matter.  `resume` and `res` are history variables: the instruction to
  resume and the line the program has reserved (`res.indexed`: an indexed store
  has completed since).
* mtc0 and dmtc0 write every CP0 register but PRId and Config.  `MoveToCp0` and
  `MoveToErrorEpc` write Status, Cause (of which BD is kept), EPC and ErrorEPC, the
  `Stage*` actions Index, Random, Wired, EntryHi, EntryLo and PageMask.  Of Index,
  Random and Wired the code reads six bits (`& 63`), the constant `FIELD` here: with 48
  entries a value may name no entry, and TLBR, TLBWI and TLBWR then touch none.
  A write to any other register (Context, XContext, BadVAddr, Count, Compare,
  LLAddr, Watch, TagLo and TagHi, the putchar port) changes nothing these
  modules read and is `ExecCompute`.

The program puts no branch and no CP0 instruction in a delay slot.  Left out: `dmfc0` (it reads a shadow that exceptions,
ERET, TLBP, DI and EI do not update), Compare and Count, the host's monitor calls,
the builds LLSC_BREAK_ON_LOAD and STORE_CHECK.  Behaviours of the code a reader may
not expect, which the model has: a nested fault (EXL already set) in a delay slot
is overwritten by the branch's target (`Return`); an mtc0 to Wired does not reset
Random, and one to Random is not refused; in the full MIPS IV build `swxc1` and
`sdxc1` are tested against the link at the base register plus the low half of
the instruction (`interpret.cc:2205-2210`), which holds register numbers and the
function and not an offset, so that such a store to the linked line may leave the
link set, and one elsewhere may break it (`Store`: the tested address is any); in the
build that has only the conditional moves of MIPS IV they are not tested at all.

### 2.5 The interpreter: data

`IssData` and `IssFp` are the same `execMips` seen from its values.  A byte has `BB`
bits, a word four bytes, a register eight, so with `BB = 1` every value of a
register is one of 256 and memory is enumerated too; the code's masks and shift
counts are expressed in these widths.  One action per group of opcodes takes its
operands from `Operands` (register numbers), `Imm` and `Shamt`.  Bits and bytes of a
value are its digits in base 2 or 2^BB (`Digit`, `Number`); `Lane` is `bswap`, the byte
of memory a digit comes from in either byte order.  `wide`, `fpw`, `pair` and
`insn` are history: whether a 64-bit operation has completed, which single
registers hold a known word, the last partial access, the last operation with its
operands.

Floating-point arithmetic gives an arbitrary result; where it goes (a low half in
place, a whole register, a pair at FR = 0), which operations raise, how a value is
converted and how conditions are kept is modelled.  A value to be converted is a
number of quarters, enough to tell the four rounding modes apart.

### 2.6 The simulator's loop

`Cosim` has one action per section of the loop body of `top.cc`, in its order: snoop
injector, positive edge, retirement port 1 with interrupts and mirrors, checker,
mismatch handling and catch-up, port 2, the tests that end the run, the memory
port, negative edge.  The RTL is abstract here: a core that retires none, one or
two instructions a cycle, takes faults and interrupts, writes its TLB before the
write retires, makes memory requests, and may err once (a wrong value or a wrong
path, `flt`).  The interpreter is `Iss` reduced to what the comparison sees, one step
for a branch with its slot.  `Devices` supplies the memory ranges and the registers
with side effects, `Topdown` the profile, driven by the hooks of `core.sv` and
`exec.sv`.

A command line (checker on or off, OS mode, faulty core, accesses made, snoop
delay, profile) is chosen in `Init`; features that do not share state are not
combined.

Situations the checker does not handle, which the programs of the run avoid: a
branch whose target is its own delay slot (pc + 4); mfc0 of Count or Random in a
delay slot or first in a handler (not adopted); a handler that begins with a TLB
write (mirrored before the fault is replayed); an exception raised by code inside
the vector areas (never caught up with, reported as a desync); in OS mode a syscall
at a branch target whose slot retires alone (the run ends silently,
`top.cc:1293`); an interrupt within two retirements of a wrong path, which hides it.
BREAK ends the run before it is compared; results of port 2 are compared at a later
retirement; only the low 32 bits of a pc are compared.

## 3. Runs

The memory hierarchy has three lines: X and Y share an L2 index, Z has its own; at one colour all share
an L1D set, and each line's two colours are two sets.  This is the smallest
instance where an eviction at either level, by either L1, at either colour, can
meet every other operation.  Only X takes two values: one line is enough to
see a lost or stale write, and X is the line everything else displaces (in
`accesses` Y, also used uncached, and in `flush` Z, a DMA-in buffer, take two as well).

| Run | What it asks | Result |
|---|---|---|
| `accesses` | cached loads, stores and CACHE ops at both colours, uncached loads and whole and partial stores, fetches cached and uncached | passes |
| `flush` | line, whole-cache and page flushes, DMA in and out by page flush and by snoop, DMA invalidate | passes |
| `live` | every access, fetch, snoop and flush ends (two lines, a one-line page) | passes |
| `falsematch` | coherence of uncached partial stores against an L2 eviction | violated |
| `absorb` | coherence of a DMA-in into a line with a writeback in transit | violated |
| `rename` | every interleaving of renaming, execution, retirement, faults and restarts with three ROB entries | passes |
| `core` | fetch, decode, retirement and restarts of six programs, every prediction, latency, fault, interrupt and injected flush | passes |
| `likelyslot` | a fault in the slot of a branch-likely that was predicted not taken | violated |
| `cacheslot` | a CACHE instruction in the slot of a mispredicted branch | violated |
| `iss` | every sequence of three instructions, interrupts and mirrored TLB writes of the interpreter; refinement of `TlbSpec` | passes |
| `issdata` | every pair of data operations over one-bit bytes | passes |
| `cosim` | the cycle loop with a correct and a faulty core, the ports, the watchdog and the profile | passes |

Deadlock is checked in all of them; a run of the interpreter or of the loop that
has ended stutters explicitly.

Properties (defined at the end of `MemHier`):

* `Presence`: every L1D line is in the L2, marked present at its colour.  All
  back-invalidation rests on it.
* `NoSynonym`: at most one L1D copy of a physical line.
* `CoherenceInv`: the inductive invariant of section 4 (`PresenceInv` included).
* `Coherent`: the newest copy of every line, searched from the L1D through
  everything in transit down to DRAM, is the last write; an uncached load
  returns it.  Lines a device owns are excepted while it owns them.
* `SettledCoherent`: the same once nothing is in flight.
* `ResponseTaken`, `ReloadOnce`: no response without a waiter, no second reload.
* `DmaOutFresh`, `PageDropClean`, `FlushComplete`: a device reads fresh data,
  `XPG_INV` never meets dirty data, a finished flush left nothing behind.
* `AccessCompletes`, `FetchCompletes`, `SnoopCompletes`, `FlushEnds`.

Properties of `rename` (at the end of `Rename`), over two GPRs with eight physical
registers, one FP register with four and HILO with two, ROB of three:

* `Ownership`: a physical register is free, mapped, or the mapping that exactly
  one entry in flight will release.
* `RetiredOwnership`: the same of the retirement side in every phase, so that the
  copy after a drain neither loses nor duplicates a register.
* `OperandHeld`: an operand still to be read is not free, store data of retired
  stores included.
* `SourceCurrent`: the oldest instruction reads the committed register.
* `NeverWedged`: with an empty ROB every uop finds a register in one of the two
  parities, however unevenly the banks were drained before.
* `RenameInv`: the inductive invariant of section 4.

Three entries are the least that hold a pair renamed together behind an older
writer of the same register; the banks are so small that each runs empty.

Properties of `core` (at the end of `Core`):

* `InOrder`: every entry of the ROB that will retire, not only the head, is the
  instruction the reference machine executes at that point, and its delay-slot
  mark is right.
* `PreciseException`: an exception reports the instruction the reference machine
  has reached, or its branch.
* `ColourIsEra`: no colour is reused while an operation of a dead era has it.
* `NonSpeculativeEffect`: an effect at execute (TLB write, CTC1) is had only by an
  instruction that retires.
* `CacheOpPerformed`: a CACHE instruction or an injected flush that retires was
  performed.

Programs have four instructions, the vector is at the fifth with an ERET, so
that each program runs for ever and is restarted into itself by its own
exceptions.  The queues hold two, the ROB three (a branch, its slot, and a
wrong-path instruction), one external flush arrives, address 3 may miss in the
TLB: the smallest sizes at which a pair is fetched, decoded, allocated and
retired together and each queue both fills and empties.  The six programs place
every kind of instruction inside and outside a delay slot (in a slot, CTC1 stands
for the other serializing ones and a load for the ALU), except: a branch or an ERET in a
slot (undefined by the architecture); the cases of the runs `likelyslot` and
`cacheslot`; and two for which `NonSpeculativeEffect` does not hold:

* CTC1 in the slot of a branch-likely: it writes FCSR when it executes
  (`exec.sv:4665`) and is discarded if the branch was not taken;
* a TLB write in the slot of a branch behind a load (a program of `mem`, `br`, `of`,
  `alu` shows it).  The load faults; `ARCH_FAULT` moves the head past it, and in
  `WRITE_EPC` the head is the squashed branch, complete and mispredicted.
  `head_of_rob_ds_committable` (`core.sv:1190`) does not look at the state, so the
  scheduler issues the slot (`exec.sv:1241`), and `r_tlb_entry_out_valid`
  (`exec.sv:2284`) is not qualified by the drain: the TLB is written by an
  instruction that never retires.  The comment at `core.sv:1180` says that nothing
  older can squash such a slot, which holds in `ACTIVE` only.

For all other programs but one kind `NonSpeculativeEffect` is proved (section 4).  The
kind left open is a TLB write directly behind a mapped address: after a fetch fault
fetch goes on at the address after the faulting one (`FetchFault`), not along the
predicted path, so what follows a branch in the ROB is no longer its slot.

Properties of `iss` (at the end of `IssTlb` and `Iss`):

* `UtlbExact`: a valid micro-TLB slot is what a search of the TLB would return now.
* `ResumePoint`: EPC and BD name the instruction the handler must resume, through
  delay slots and nested exceptions.
* `LinkSound`: the link is set exactly when the program still has its reservation,
  on the physical line it read, unless an indexed store has completed since the LL.
  In a build without MIPS IV there is none and the claim is whole.  In the full
  build, which the run has, it is false after one: with `~res.indexed` left out TLC
  finds an `sdxc1` to another line that breaks the link, and one to the linked line
  that does not, against the comment "only a STORE to the linked cache line breaks
  it" (`interpret.cc:2204`).
* `AbstractSpec`: the interpreter implements `TlbSpec`.
* `TypeOK`: TLBWR's decrement never takes Random below zero, although a write to Wired
  does not reset it and software may write either to a value that is no entry;
  addresses and slots are well formed.  (That Random names an entry is not claimed:
  it need not after an mtc0 of 48 to 63, and TLBWR then writes nothing.)

Two TLB entries and a field of four values (so that an index may name none), a
two-slot micro-TLB, two ASIDs and two words to a page and to a line: two entries can
match one page, two pages share a slot, and an instruction stream crosses a page.

Properties of `issdata` (at the end of `IssData` and `IssFp`):

* `SignExtended`: without a 64-bit operation every register, HI and LO stay
  sign-extended, and `divu`, which tests 64 bits for zero and divides by 32
  (`interpret.cc:2398`), does not divide by zero.  With one it may: the host traps.
* `ResultExact`: overflow exactly when the result does not fit, whole products,
  the division identity, roundings by mode.
* `SinglesHeld`: a word put in a single register reads back until that register is
  overwritten, whatever is done to the other half of its pair.  A conditional move
  counts as overwriting both halves at either format: the code moves the whole
  register for `.S` too.
* `FccViews`: FCSR and FCCR hold the same condition codes, from every comparison and
  every CTC1 to either of them on, until a CTC1 to a control number other than 0,
  25, 26, 28 and 31.  `fcr_index` makes such a number FCSR and `_ctc1` mirrors only for
  31 (`interpret.cc:1174`, `1193`), so the views differ then until the next
  comparison or CTC1 to one of them; `mirrored` is the history of that.
* `UnalignedPair`: a left and a right partial access, in either order, load or
  store the unaligned datum and nothing else.

Properties of `cosim` (at the end of `Cosim` and `Topdown`):

* `Lockstep`: with a correct core, at the start of every cycle the interpreter is
  where the core is, or ahead by a delay slot, or one step before the exception the
  core has taken; nothing is reported.
* `DivergenceReported`: a wrong value ends the run at the first retirement compared,
  a wrong path within three.
* `MemoryPorts`: a request is answered once, with the bytes the latest stores left;
  device registers do not reach memory; a snoop is issued once, alone, or counted
  as dropped.
* `ProfileExact`: every slot of an active cycle in the window has one cause, the
  stamps joined by ROB index belong to the uop that retires, the segments partition
  its life, TIP adds up to the cycles.

A load is answered `Lat` cycles later (one or two in the run) and a store after twice
as many; `--memlat 0`, which answers in the cycle of the request, is left out.  The
watchdog is modelled and fires in the run.  A reply of the memory resets it, so a
core that only makes memory requests is never stopped; in flush mode it is suspended.

The four disagreements:

* `falsematch`: the in-transit test of `PROBE_CHK` (`l1d.sv:3445`) does not ask
  whether the pending store is cacheable.  A masked uncached store is handed
  over as a dirty line.
* `absorb`: the data of an in-transit writeback goes out with the probe answer,
  but the request is still served afterwards; rule D3 says it must be retired
  before the snoop completes.

* `likelyslot`: a BLTZALL or BGEZALL predicted not taken retires, if taken, when
  its slot is merely in the ROB (`core.sv:2522`).  The slot faults in `DRAIN`.  The
  acknowledge of the branch's restart is sticky, so `RAT` takes it for that of the
  restart to the vector, and `ACTIVE` is entered while the fetch FSM waits for a
  reload with instructions of the branch target in its queue: they retire before
  the handler.  Comment `core.sv:2778` describes this failure as cured.  Other
  branches wait for their slot and are safe (`core`).
* `cacheslot`: a CACHE instruction in the slot of a mispredicted branch is
  allocated by `SERIALIZE_IN_FAULTED_DELAY_SLOT` and retires in `DRAIN`; the flush
  is started in `WAIT_FOR_SERIALIZE_AND_RESTART` only.

The passing runs `accesses` and `flush` use lines so that the first two cases do
not occur (no eviction of a line by a fetch while a partial uncached store of it waits, no CPU store
to a DMA-in buffer around a snooped transfer) and show that nothing else goes
wrong.

One more case is outside every run and outside the proof: a line cached at one
colour and accessed uncached at another.  The L1D checks only the set of the
uncached access's own colour (`l1d.sv:3127`) and the L2's uncached arm
(`l2.sv:807`) drops its copy without the probe that rule R1 of
`INCLUSIVE_L2_PROTOCOL.md` requires, so `Presence` fails at once.  The instances
give each uncached line one colour, and the proof assumes it
(`NoUncachedSynonym`).

**Fairness (`live`).** Every block is clocked, so a step it is ready for is
taken: weak fairness of the L1D, L2, arbiter, pulse and device steps.  An L2 in
`IDLE` accepts what it sees in that very cycle, before the core could start the
next flush, which the interleaving of separate actions does not show: strong
fairness of `AcceptReq` and `AcceptSnoop`.  No fairness makes the CPU, the L1I
or a device start anything, and none is assumed of the DMA invalidate, which the
L1D delays in favour of new requests (`l1d.sv:3362`).

**Bounds.** `MaxDma` bounds the number of transfers; whatever the caches hold
when one starts is the leftover of any earlier history.  `MaxXflush` bounds the
injected flushes of `core`.  `MaxSteps` (three) bounds the instructions of `iss`,
after a boot in either mode with any of the boot entries: an LL, a change of the TLB or of the
address space, and the access that would go wrong; a branch, its slot and a
handler.  `MaxOps` (two) bounds `issdata`: a property relates at most two
operations, and the registers start at the edges of their range.  In `cosim`,
`MaxReq` bounds the memory requests, `TdCycles` and `TdOps` the profiled cycles and
uops; `WATCHDOG` and `SNOOPQ` stand for the constants of `top.cc`, small enough to be
reached; `last_retire` saturates above `WATCHDOG`.  Everything else is finite by
itself.

## 4. Proofs

`MemHierPresence` first proves `TypeCorrect == Spec => []TypeOK` for all values of the
constants that satisfy the named assumptions (`SizeAssumption`,
`IndexAssumption`, `ColourAssumption`, `PageAssumption`, `UseAssumption`).
`TypeOK` is inductive by itself.  The proof has one lemma per helper that writes
a record or an array, one lemma for all L1D actions, one for all L2 actions, and
one step per action of `Next`.  What is not trivial in it: walk indices
(`d_cache_idx`, `d_pg_off`, `l2_idx`) stay in range, the dirty counter
saturates, and `d_prb_ret` is always a state in which a probe may be taken,
which is false if `ProbeTake` is enabled anywhere else.

It then proves, again for all constants, `Spec => []Presence`,
`Spec => []NoSynonym` and `Spec => []ResponseTaken` under one assumption about
software, `NoUncachedSynonym`: no line is used uncached at a colour other than
its cached one, and the L1I fetches no line uncached that the CPU caches.  The
assumption is needed (end of section 3).

`Presence` alone is not inductive: whether the L2 may drop a line depends on what
the request it serves promises about the L1D, and that request was raised many
steps earlier.  `PresenceInv` (module `MemHierInv`) follows a request, a probe and
a flush through the system:

* `LatchInv`, `AnswerInv`, `ServeInv`, `OpInv`: a request is in exactly one place,
  latched, granted, served (then the L2's registers match the L1D's) or answered;
  the only answer on the wire while the L2 works is that of a posted write;
* `FsmInv`, `UseInv`: what each L1D state waits for, seen through `PROBE_CHK`;
* `TokenInv`, `WalkInv`: the one flush the core waits for, and the sets its walk
  has emptied; when the L2's own walk runs the L1D is empty;
* `ProbeInv`: an answered probe left no copy at the index it was sent for;
* `PlaceInv`, `RequestInv`, `FillInv`, `GoneInv`: a copy sits in the set of its
  colour; a request that makes the L2 give up a line comes from an L1D that has
  given it up; a fill on the wire is already marked; a line being replaced has no
  copy left.

The argument: every L1D action except a fill only removes copies (`Shrinks`), so
everything that says "no copy" survives it, and a fill finds its line marked
(`FillInv`).  Every L2 action that drops a line or clears a mark finds no copy,
because of `RequestInv` (with the alias probe for `INVL` and `PGDROP`), of the
probe's answer, or of the finished walk.

**Data.** `MemHierCoherent` proves `Spec => []CoherenceInv` and from it `Coherent`,
`FlushComplete`, `DmaOutFresh` and `PageDropClean`, for any number of lines, sets,
colours and values and any set of transfers, under `Discipline`: `NoUncachedSynonym`,
`NoUncachedProbe` (no probe meets an uncached store of a cached line) and
`NoSnoopedStore` (the CPU does not write the buffer of a snooped DMA-in).  Both new
assumptions exclude exactly what the runs `falsematch` and `absorb` show to go
wrong; without them the theorem is false.  The instances of `accesses` and
`flush` satisfy them (`CoherenceInv` is an invariant of `flush`).  `ReloadOnce` needs
`NoUncachedSynonym` only.

The invariant is built in layers, each proved with the ones below as lemmas:

* `PresenceInv`: where copies may be;
* `WorkInv` (module `MemHierData`, proved in `MemHierWork`): what the L2's registers, the
  line on its way to DRAM and an answer on the wire stand for; what the L1D may be
  asking for;
* `DmaInv`: the transfer and the page walk under way, and which lines of the page
  the walk has passed;
* `CleanInv`: where a walk, a snoop or a flush has passed, no copy above DRAM is newer;
* `DataInv`: every copy of a line that is in use or on the move (L1D, request, probe
  answer, line being written) is `latest`; the L2 or DRAM may be older only while
  something newer is above it that will reach it (`Fresh`).  Excepted is a line a
  device has written whose old copies the walk or snoop has not dropped yet (`Stale`).

`Coherent` alone says only that the newest copy is right.  When that copy
disappears (a clean eviction, an answered probe, an `XPG_INV`) the one below must
already be equal, which is what `CleanInv` and `DataInv` carry, one line at a time.
A step changes the copies of at most two lines, so the proof of each action has
one case for the line it is about and one frame lemma for all others.

`RenameProofs` proves `RenameInvariant == Spec => []RenameInv` and from it
`Ownership`, `RetiredOwnership`, `OperandHeld` and `SourceCurrent`, for any number
of registers, any banks and any ROB size, from `RegAssumption` and
`ResetAssumption` (the reset map is injective).  `Ownership` is not inductive: at
a retirement the register released must differ from everything the committed map
holds, which says nothing about the speculative map.  `Consistent` ties the sides
together entry by entry: each mapping, each previous mapping and each operand is
the committed one or the result of an older entry in flight (`Linked`), no two
entries share a result or release the same register, and an operand is still
mapped or is released by its own reader or a younger entry (`Kept`).  `DataFirst`
says that no store retires without its data; without it the register of a store's
data could be released by a younger retirement.  A fault's bump breaks
`Consistent` on purpose, and only until the copy; `RetiredOwnership`, which the
copy installs, holds throughout.

`RenamingNeverWedges == Spec => []NeverWedged` is a counting argument.  `FilesKept`
says that a logical register is always mapped to a register of its own file; by
`RetiredOwnership` each physical register is free or the image of one logical
register; and `CapacityAssumption` says that the registers a uop may take, both parities
together, outnumber the logical registers of the file (half of 128 against 32 for GPR
and FP, 4 against 1 for HILO and FCR).  If none of them were free the map would be
onto them, so with an empty ROB one of the two parities has a register.

`CoreProofs` proves, for every program, every size of the fetch queue, decode queue
and ROB, and any number of injected flushes:

* `Spec => []ColourIsEra`, with no assumption;
* `Spec => [](TypeOK /\ FlowInv)`, `Spec => []InOrder` and `Spec => []PreciseException` under
  `LikelySlotsSafe`: no BLTZALL or BGEZALL has a slot that can fault.  Run `likelyslot` shows
  that the theorem is false without it;
* `Spec => []CacheOpPerformed`, which also needs `NoCacheInSlot` (run `cacheslot`);
* `Spec => []NonSpeculativeEffect` under `LikelySlotsSafe`, `TlbWritesApart` (no TLB write in
  the slot of a branch or behind a mapped address) and `NoCtc1InLikelySlot`: the
  placements listed for `core` in section 3, whose programs satisfy all three.

`InOrder` speaks of the ROB only.  What is inductive is `FlowInv` (module `CoreInv`), an
invariant of everything between fetch and retirement:

* `Path`: while no restart is pending, ROB, decode queue and fetch queue one after the
  other are ONE stream that starts at the reference machine's next instruction,
  follows the predicted direction of each branch, and ends at the fetch address; an
  interrupt, a fetch TLB fault or a serializing instruction ends what may still
  retire (`Ends`, `Live`);
* `HandshakeInv`: for each state, which restart or line flush is requested, taken or
  acknowledged.  The sticky `got_restart_ack` makes this the hard part: an
  acknowledge may be left over from an earlier restart while a second is pending,
  and then the fetch queue must be empty until the second is taken, which is what
  goes wrong in `likelyslot`;
* `HeadInv`: for each state of the restart FSM, what the entry at the head is and
  where the reference machine stands relative to it;
* `WantInv`, `OpInv`: the reference machine is at an instruction or in the slot of one;
  what is in flight is the program's instruction or a pseudo uop in its place, and a
  branch-likely is predicted taken.

TLC confirms `FlowInv` on the instance of `core`.  `InOrder` follows: `WantAt`, the position of
the reference machine before each entry, exists as a function along the stream,
and a least entry that departs from it would contradict `Path` at that entry.
`ColourIsEra` has its own small invariant: outside `RAT` the dead operations have the colour
not in use, in `RAT` the one being given up, and the drain before it has waited for
those of the other.

`NonSpeculativeEffect` needs `EffectInv` on top of `FlowInv`; TLC confirms it on the instance of
`core` too.  `EffectsKept` says that an entry which has had an effect, and a CTC1 which
may have one at any time, is at the head or on the path of a machine that is not
draining: an operation of the oldest-first kind issues at the head only, or in the
slot of a committable branch.  What could still go wrong is that slot: when the head
moves past a faulting instruction (`ARCH_FAULT`, `WRITE_EPC`), or the FSM drains, the
branch that lets its slot issue is itself squashed.  `PairsSafe` says that no TLB write
is there, and `EndsSafe` carries the same fact from fetch to the ROB for the
instructions behind an end of the stream, where `Path` says nothing.

`CosimProofs` proves `Spec => []MemoryPorts` for every program, every set of accesses in
the map of `Devices`, every latency, snoop rate and queue length (`CosimAssumption`,
`CmdAssumption`).  `PortInv` adds to the property what holds in the middle of a
cycle: the reply on the wires belongs to the request only from the memory section to
the next positive edge (`Pending`); what memory must hold is what it holds, with the
waiting store applied (`ReplyInv`); an acknowledge on the wires or remembered is that of
the snoop issued last (`SnoopInv`).  A line store is four word stores, each of which
changes its own enabled bytes of a plain line or one device (`StoreLineIn`), and of
the first n loads n / snoop_every, rounded up, are selected (`SelectCounts`).

`IssProofs` proves, for every TLB and micro-TLB size, page geometry and set of
program values that satisfy `FormatAssumption`, `UtlbAssumption`, `IssAssumption` and
`SrAssumption`: `Spec => []TypeOK`, `Spec => []UtlbExact`, `Spec => []ResumePoint` and
`Spec => AbstractSpec`.

* The inductive invariant `IInv` is `TlbTypeOK`, `UtlbExact` and `CpuInv`.  `UtlbExact` is
  inductive with the types: the proof goes through every step that writes the TLB
  (each empties the micro-TLB) and through `va_translate`'s fill, where the first
  matching entry is the one filled from.
* `ResumePoint` needs `SlotInv`: in a delay slot there is exactly one frame, its
  branch is the instruction before `pc`, and the frame's saved flag is false.
  Without it `pc - 4` need not be the branch.
* `NextIsTlbStep` reduces every action of `Iss` to one of the few ways the TLB state
  can change (`TlbStep`); types, exactness and the refinement are then proved of
  `TlbStep` once.
* Refinement: tlb, entryhi and xl are the same variables.  A micro-TLB hit maps to a
  translation by the entry `UtlbExact` names, whose ASID and page are those of the
  access; every other step maps to a write, a change of EntryHi or a stutter.

`IssFpProofs` proves of the data path, for every number of bits in a byte, every memory
of whole doublewords, both byte orders, both builds, and every set of operands, immediates
and starting contents that satisfies `DataAssumption` and `StartAssumption`:
`Spec => []TypeOK`, `[]SignExtended`, `[]SinglesHeld`, `[]FccViews`, `[]ResultExact` and
`Spec => UnalignedPair`.  The bound `MaxOps` is a constant like the others, so the
theorems hold for programs of any length.

* *Powers of two.*  The provers know nothing of exponentiation.  The library's
  `FS_SUBSET` (a finite set S has 2^Cardinality(S) subsets) gives `2^(m + n) = 2^m * 2^n`
  (`PowSum`: a subset of two disjoint sets is a pair of subsets), and with it monotony and
  halves.  `DivUnique` and `DivShift` are what is needed of division.
* *Digits.*  A value is the number of its bytes or bits (`Number`, a recursive function).
  `NumberDigits` says that the digits of a number made of digits are those digits,
  `DigitsEqual` that two numbers with the same digits are equal.  Both are inductions
  on the number of digits, done by a least counterexample (`InductiveSet`).
* *Widths.*  `IntStep`, `FpStep`, `CcStep` and `ModeStep` are the four ways an
  instruction may change the state, each with what it keeps; one lemma per
  instruction shows that it is one of them.  `SignExtended` is inductive with the types.
  Its cases that are not arithmetic on words: the logical instructions (the high bits
  of a sign-extended number are copies of its sign, `SignBit`, and an operation on
  bits keeps that, `LogicNumber`), and a shift right by any amount.
* *Results.*  `ResultExact` speaks of the last instruction only.  A sum of signed readings
  is off its residue by at most one multiple of 2^n, which is what the code's test
  on the sign bits detects (`AddTest`, `SubTest`); a product of two n-bit numbers
  fits in 2n (`ProductBound`); the quotient identity survives the truncation of both
  halves (`QuotientShown`), INT_MIN / -1 included.
* *Pairs.*  `UnalignedPair` relates two instructions, so the proof needs what the first has
  left: `PairLink` says that the bytes of the window it loaded are in its register, or
  that memory is the one before with its window overwritten.  `MergedBytes` and
  `SplitBytes` compute the window of one partial access byte by byte;
  `PairCovers` shows that the windows of a left and a right access cover the datum
  and nothing else.  TLC confirms `PairLink` for both byte orders.

Left to TLC, and why:

* `AccessCompletes`, `FetchCompletes`, `SnoopCompletes`, `FlushEnds` and the absence of
  deadlock: fairness and ENABLED are out of the prover's reach.
* `ProfileExact` sums and counts over sets of the uops' history; an invariant that
  follows each sum through a cycle has not been attempted.
* `Lockstep` and `DivergenceReported` hold for programs that avoid the situations listed at
  the end of section 2.6, not for all.
* `LinkSound` is claimed up to the next indexed store, and does not hold for every address: `tlb_probe_ro` compares a narrow
  address by its low 32 bits only, so an entry above 4 GB may answer for it.  The
  instance has no such entry.

## 5. Not modelled

* The issue side of the L1D (port 2, miss queue, store forwarding) and the LSU,
  schedulers and sequencing of `exec.sv`: they meet the modelled parts at `Accept`
  (any legal operation at port 1), at the completion of ROB entries (at any speed)
  and in `ColourIsEra`.  Almost-full of the miss queue (`l1d.sv:923`), hit under miss
  (`l1d.sv:1547`) and the termination of drains (`core.sv:1180`) are therefore not
  covered; nor is the delay of a DMA line invalidate by a steady stream of
  requests (`l1d.sv:3362`), which the code does not bound.
* The RTL's TLB arrays: their architecture is modelled from the interpreter.
* FPU datapath, multiplier and divider circuits, generated adders, bit primitives:
  combinational or iterative arithmetic whose cases occur only at widths TLC
  cannot enumerate; results of the integer ones are checked in `IssData`.
* The decode table: a per-instruction comparison with the MIPS manual, with no
  state.
* ELF loading, checkpoints, option parsing, disassembly, traces and HTML: file
  formats and printing.  Two bounds noted while reading them: `record_l1d` indexes
  an array of eight with four bits (`top.cc:176`), and the EEPROM's byte count is
  unbounded (`sgi_mc.cc:118`).
* Firmware, test programs, the FPGA shell and the Murphi models.

Next steps, in order of value: the LSU with the issue side of the L1D; drains that end
under fairness of execution; `Lockstep` for the programs that avoid the situations of
section 2.6, and `LinkSound` for TLB contents below 4 GB.
