-------------------------------- MODULE Iss --------------------------------
(***************************************************************************)
(* Control of the reference interpreter (interpret.cc): one call of        *)
(* execMips fetches through va_translate, executes one instruction and     *)
(* returns; a branch or jump calls execMips again for its delay slot       *)
(* (run_delay_slot), here with an explicit stack of return frames.  Data   *)
(* values are left to module IssData: an address operand is any address of *)
(* DataVA, a condition holds or not.                                       *)
(***************************************************************************)
EXTENDS IssTlb, Sequences

CONSTANTS
    CodeVA,       \* where the program has instructions (bounds pc)
    DataVA,       \* addresses loads and stores use, as the registers give them
    Targets,      \* branch and jump targets, EPC and ErrorEPC values
    SrWrites,     \* values software writes to Status
    BootSr,       \* Status when the run begins: the reset value, or a checkpoint's
    os_mode,      \* g_iss_os_mode
    Mips4,        \* the build: "none", "cmov" (ENABLE_MIPS4), "full" (ISS_FULL_MIPS4)
    MaxSteps      \* bound: instructions, interrupts and mirrored TLB writes

ASSUME IssAssumption ==
    /\ CodeVA \subseteq VA /\ DataVA \subseteq VA /\ Targets \subseteq CodeVA
    /\ Mips4 \in {"none", "cmov", "full"} /\ os_mode \in BOOLEAN /\ MaxSteps \in Nat

VARIABLES
    pc, stack,       \* s->pc; the frames of run_delay_slot
    ph,              \* in execMips: "fetch", "exec", then "ret", or "raised" after an exception
    steps,           \* counts against MaxSteps; the code's icnt counts instructions
    in_delay_slot,
    sr, bd,          \* Status; Cause.BD (ExcCode is an argument of the raise functions)
    epc, errorepc,
    link,            \* ll_link_valid, ll_link_addr
    brk,             \* "run"; "break" (s->brk); "exit" (the process exits)
    resume, res      \* history: where to resume; the reservation of the last ll

cpu  == <<pc, ph, steps, stack, in_delay_slot, sr, bd, epc, errorepc, link, brk>>
hist == <<resume, res>>
vars == <<tlbvars, cpu, hist>>

SR == [exl : BOOLEAN, erl : BOOLEAN, ksu : 0..2, kx : BOOLEAN, sx : BOOLEAN, ux : BOOLEAN,
       bev : BOOLEAN, cu1 : BOOLEAN]

ASSUME SrAssumption == SrWrites \subseteq SR /\ BootSr \subseteq SR

kernel == sr.ksu = 0 \/ sr.exl \/ sr.erl
super  == sr.ksu = 1 /\ ~sr.exl /\ ~sr.erl
user   == sr.ksu = 2 /\ ~sr.exl /\ ~sr.erl
in_64b_mode      == kernel \/ (user /\ sr.ux) \/ (super /\ sr.sx)
is_64b_addr_mode == (kernel /\ sr.kx) \/ (user /\ sr.ux) \/ (super /\ sr.sx)

(* the three vectors of each base, in the order of their offsets *)
SegWord(g) == g * PGS * WPP
Vector(off) == SignExt([r |-> 0, x |-> 0, m |-> 0,
                        w |-> SegWord(IF sr.bev THEN 5 ELSE 4) + off])
VecRefill  == 0
VecXtlb    == 1
VecGeneral == 2

Plus(a, k) == [a EXCEPT !.w = @ + k]
Line(pa)   == pa \div WPL

NoLink == [valid |-> FALSE, line |-> 0]   \* an invalid link's line is never read

(* history: the line an ll read, while nothing has stored to it since, and
   whether an indexed store has completed since *)
NoRes == [lines |-> {}, indexed |-> FALSE]

ResetSr == [exl |-> FALSE, erl |-> TRUE, ksu |-> 0, kx |-> FALSE, sx |-> FALSE, ux |-> FALSE,
            bev |-> TRUE, cu1 |-> FALSE]

initState == sr \in BootSr /\ bd = FALSE /\ link = NoLink

Init ==
    /\ InitTlb /\ initState
    /\ pc \in Targets /\ ph = "fetch" /\ steps = 0 /\ stack = <<>> /\ in_delay_slot = FALSE
    /\ epc = pc /\ errorepc = pc
    /\ brk = "run"
    /\ resume = [pc |-> epc, bd |-> FALSE] /\ res = NoRes
---------------------------------------------------------------------------
(* Exceptions.  set_exc_pc drops the link, and updates EPC and BD only at
   EXL = 0; the raise_* functions then set ExcCode, set EXL, clear ERL and go
   to the vector. *)

(* history: where execution must resume - the outermost instruction begun *)
Interrupted == IF stack = <<>> THEN [pc |-> pc, bd |-> FALSE]
               ELSE [pc |-> stack[1].from, bd |-> TRUE]

(* an exception that overwrites EPC at EXL = 1 as well *)
set_exc_pcNested ==
    /\ link' = NoLink
    /\ epc' = IF in_delay_slot THEN Plus(pc, -1) ELSE pc
    /\ resume' = IF sr.exl THEN resume ELSE Interrupted
    /\ res' = NoRes

set_exc_pc ==
    /\ link' = NoLink
    /\ epc' = IF sr.exl THEN epc ELSE IF in_delay_slot THEN Plus(pc, -1) ELSE pc
    /\ resume' = IF sr.exl THEN resume ELSE Interrupted
    /\ res' = NoRes

Raise(code, vector) ==
    /\ set_exc_pc
    /\ bd' = IF sr.exl THEN bd ELSE in_delay_slot
    /\ sr' = [sr EXCEPT !.erl = FALSE, !.exl = TRUE]
    /\ pc' = vector
    /\ ph' = "raised"
    /\ UNCHANGED <<steps, stack, in_delay_slot, errorepc, brk>>

raise_general(code) == Raise(code, Vector(VecGeneral))

ExcCode(exc, op) == IF exc = "modified" THEN 1 ELSE IF op = "store" THEN 3 ELSE 2

raise_tlb(op) ==
    Raise(ExcCode(xl'.exc, op),
          Vector(IF xl'.exc = "refill" /\ ~sr.exl
                 THEN IF is_64b_addr_mode THEN VecXtlb ELSE VecRefill
                 ELSE VecGeneral))

(* the instruction completes and execMips returns with pc at its successor *)
Complete ==
    /\ Plus(pc, 1) \in CodeVA
    /\ pc' = Plus(pc, 1) /\ ph' = "ret"
    /\ UNCHANGED <<steps, stack, in_delay_slot, errorepc, brk>>

KeepCp0 == UNCHANGED <<sr, bd, epc, resume>>
Executing == ph = "exec"
---------------------------------------------------------------------------
(* execMips: the fetch *)
Fetch ==
    /\ ph = "fetch" /\ brk = "run"
    /\ stack = <<>> => steps < MaxSteps
    /\ va_translate(EffVa(pc, is_64b_addr_mode), "fetch")
    /\ IF xl'.exc = "none"
       THEN /\ ph' = "exec" /\ steps' = IF stack = <<>> THEN steps + 1 ELSE steps
            /\ UNCHANGED <<pc, stack, in_delay_slot, sr, bd, epc, errorepc, link, brk, hist>>
       ELSE raise_tlb("fetch")

(* integer, floating-point and other instructions that only compute *)
ExecCompute == Executing /\ Complete /\ KeepCp0 /\ UNCHANGED <<tlbvars, link, res>>

(* Reserved Instruction: unknown opcodes, MIPS IV ones the build leaves out *)
ExecReserved == Executing /\ raise_general(10) /\ UNCHANGED tlbvars

(* the gates of execMips: a 64-bit operation outside a 64-bit mode; Coprocessor
   Unusable at CU1 = 0, an Unimplemented floating-point operation at CU1 = 1 *)
ExecGated ==
    /\ Executing
    /\ \/ ~in_64b_mode /\ raise_general(10)
       \/ ~sr.cu1 /\ raise_general(11)
       \/ sr.cu1 /\ raise_general(15)
    /\ UNCHANGED tlbvars

ExecOverflowTrap == Executing /\ (raise_general(12) \/ raise_general(13)) /\ UNCHANGED tlbvars

ExecSyscall ==
    /\ Executing
    /\ IF os_mode
       THEN \E code \in {8, 9} : raise_general(code)
       ELSE /\ Plus(pc, 1) \in CodeVA
            /\ brk' = "break" /\ pc' = Plus(pc, 1) /\ ph' = "ret"
            /\ KeepCp0
            /\ UNCHANGED <<steps, stack, in_delay_slot, errorepc, link, res>>
    /\ UNCHANGED tlbvars
---------------------------------------------------------------------------
(* Memory.  mis: the address is not aligned for an access that checks it
   (the partial-word and floating-point accesses do not). *)

Load ==
    /\ Executing
    /\ \E va \in DataVA, mis \in BOOLEAN :
         /\ va_translate(EffVa(va, is_64b_addr_mode), "load")
         /\ IF xl'.exc # "none" THEN raise_tlb("load")
            ELSE IF mis THEN raise_general(4)
            ELSE Complete /\ KeepCp0 /\ UNCHANGED <<link, res>>

(* cache: a Hit operation translates, the others and prefetch do nothing *)
CacheOp ==
    /\ Executing
    /\ \E va \in DataVA :
         /\ va_translate(EffVa(va, is_64b_addr_mode), "load")
         /\ IF xl'.exc # "none" THEN raise_tlb("load")
            ELSE Complete /\ KeepCp0 /\ UNCHANGED <<link, res>>

va2pa(va) == IF va.w >= SegWord(4) THEN va.w % SegWord(1) ELSE va.w

(* a link kept by the untranslated address *)
ProbeLineVirtual(va) == Line(va2pa(va))

(* the line execMips takes an access to be on before it translates it: the
   probe's answer, or va2pa's when the probe finds nothing *)
ProbeLine(va) == Line(IF tlb_probe_ro(va) = {} THEN va2pa(va)
                      ELSE CHOOSE p \in tlb_probe_ro(va) : TRUE)

(* the opcodes the link-clearing test knows as stores *)
StoreKind    == {"int", "fp"} \cup (IF Mips4 = "none" THEN {} ELSE {"cop1x"})
is_mem_store(k) == k \in {"int", "fp"} \/ (k = "cop1x" /\ Mips4 = "full")

(* The link-clearing test runs at dispatch, on the base register plus the low
   half of the instruction: the address of the store for int and fp; for an
   indexed store, whose index is a register and whose low half names registers
   and the function, an address unrelated to the one it stores to. *)
TestedVA(k, va) == IF k = "cop1x" THEN DataVA ELSE {va}

Store ==
    /\ Executing
    /\ \E va \in DataVA, mis \in BOOLEAN, k \in StoreKind : \E tested \in TestedVA(k, va) :
         /\ k # "int" => ~mis
         /\ k = "fp" \/ (k = "cop1x" /\ Mips4 = "full") => sr.cu1
         /\ va_translate(EffVa(va, is_64b_addr_mode), "store")
         /\ IF xl'.exc # "none" THEN raise_tlb("store")
            ELSE IF mis THEN raise_general(5)
            ELSE /\ link' = IF is_mem_store(k) /\ ProbeLine(tested) = link.line THEN NoLink ELSE link
                 /\ res' = [lines |-> res.lines \ {Line(xl'.pa)}, indexed |-> res.indexed \/ k = "cop1x"]
                 /\ Complete /\ KeepCp0

(* ll and lld: the reservation is set before the load and dropped again by
   the exception of a load that fails *)
LoadLinked ==
    /\ Executing
    /\ \E va \in DataVA, mis \in BOOLEAN :
         /\ va_translate(EffVa(va, is_64b_addr_mode), "load")
         /\ IF xl'.exc # "none" THEN raise_tlb("load")
            ELSE IF mis THEN raise_general(4)
            ELSE /\ link' = [valid |-> TRUE, line |-> ProbeLine(va)]
                 /\ res' = [lines |-> {Line(xl'.pa)}, indexed |-> FALSE]
                 /\ Complete /\ KeepCp0

(* sc and scd; only scd checks alignment, and at CU1 or not.  A successful
   one writes memory, which breaks no other reservation. *)
StoreCond ==
    /\ Executing
    /\ \E va \in DataVA, mis \in BOOLEAN :
         /\ va_translate(EffVa(va, is_64b_addr_mode), "store")
         /\ IF xl'.exc # "none" THEN raise_tlb("store")
            ELSE IF mis THEN raise_general(5)
            ELSE /\ link' = NoLink
                 /\ res' = NoRes
                 /\ Complete /\ KeepCp0
---------------------------------------------------------------------------
(* Branches and jumps.  A likely branch that is not taken skips its slot;
   every other one runs it, and the frame remembers what to do after.  The
   program puts no branch and no coprocessor 0 instruction in a delay slot. *)

BranchLikelyNotTaken ==
    /\ Executing /\ ~in_delay_slot
    /\ Plus(pc, 2) \in CodeVA
    /\ pc' = Plus(pc, 2) /\ ph' = "ret"
    /\ KeepCp0
    /\ UNCHANGED <<tlbvars, steps, stack, in_delay_slot, errorepc, brk, link, res>>

(* the branch is done but for its slot, which execMips runs next *)
RunDelaySlot(taken, t) ==
    /\ Plus(pc, 1) \in CodeVA
    /\ stack' = Append(stack, [taken |-> taken, target |-> t, exl_before |-> sr.exl,
                               saved |-> in_delay_slot, from |-> pc])
    /\ pc' = Plus(pc, 1) /\ ph' = "fetch" /\ in_delay_slot' = TRUE
    /\ KeepCp0
    /\ UNCHANGED <<tlbvars, steps, errorepc, brk, link, res>>

Branch ==
    /\ Executing /\ ~in_delay_slot
    /\ \E t \in Targets, taken \in BOOLEAN :
         /\ ~taken => Plus(pc, 2) \in CodeVA
         /\ RunDelaySlot(taken, t)

(* jr and jalr: the whole register *)
JumpRegister == Executing /\ ~in_delay_slot /\ \E t \in Targets : RunDelaySlot(TRUE, t)

(* j and jal stay in the region of the slot (256 MB, here a segment) *)
Region(a) == [a EXCEPT !.w = @ \div SegWord(1)]
Jump == Executing /\ ~in_delay_slot
        /\ \E t \in Targets : Region(t) = Region(Plus(pc, 1)) /\ RunDelaySlot(TRUE, t)

(* execMips returns: to run_delay_slot's caller, or to the simulation loop *)
Return ==
    /\ ph \in {"ret", "raised"}
    /\ IF stack = <<>>
       THEN ph' = "fetch" /\ UNCHANGED <<pc, stack, in_delay_slot>>
       ELSE LET f == stack[Len(stack)]
                faulted == ~f.exl_before /\ sr.exl IN
            /\ in_delay_slot' = f.saved
            /\ stack' = SubSeq(stack, 1, Len(stack) - 1)
            /\ pc' = IF f.taken /\ ~faulted THEN f.target ELSE pc
            /\ UNCHANGED ph
    /\ KeepCp0 /\ AccessTaken
    /\ UNCHANGED <<steps, errorepc, brk, link, res>>
---------------------------------------------------------------------------
(* Coprocessor 0 *)

Eret ==
    /\ Executing /\ ~in_delay_slot
    /\ link' = NoLink /\ res' = NoRes
    /\ IF sr.erl
       THEN pc' = SignExt(errorepc) /\ sr' = [sr EXCEPT !.erl = FALSE]
       ELSE pc' = epc /\ sr' = [sr EXCEPT !.exl = FALSE]
    /\ ph' = "ret"
    /\ UNCHANGED <<tlbvars, steps, stack, in_delay_slot, bd, epc, errorepc, brk, resume>>

(* mtc0 and dmtc0 to Status, Cause and EPC; the writes to Index, Random, Wired,
   EntryHi, EntryLo and PageMask are in TlbInsn.  Only PRId and Config refuse a
   write; the other registers hold nothing that these modules read. *)
MoveToCp0 ==
    /\ Executing /\ ~in_delay_slot /\ Complete
    /\ \/ sr' \in SrWrites /\ UNCHANGED <<epc, resume, bd>>
       \/ bd' \in BOOLEAN /\ resume' = [resume EXCEPT !.bd = bd'] /\ UNCHANGED <<sr, epc>>
       \/ \E t \in Targets : epc' = t /\ resume' = [resume EXCEPT !.pc = t] /\ UNCHANGED <<sr, bd>>
    /\ UNCHANGED <<tlbvars, link, res>>

MoveToErrorEpc ==
    /\ Executing /\ ~in_delay_slot
    /\ Plus(pc, 1) \in CodeVA /\ pc' = Plus(pc, 1) /\ ph' = "ret"
    /\ errorepc' \in Targets
    /\ KeepCp0
    /\ UNCHANGED <<tlbvars, steps, stack, in_delay_slot, brk, link, res>>

TlbInsn ==
    /\ Executing /\ ~in_delay_slot /\ Complete /\ KeepCp0
    /\ TLBR \/ TLBWI \/ TLBWR \/ TLBP \/ StageHi \/ StageLo \/ StageMask \/ StageIndex
       \/ StageRandom \/ StageWired
    /\ UNCHANGED <<link, res>>

(* wait with interrupts disabled, coprocessor 2, unknown COP0 and REGIMM
   encodings: the process exits *)
ExecExit ==
    /\ Executing
    /\ brk' = "exit"
    /\ UNCHANGED <<tlbvars, pc, ph, steps, stack, in_delay_slot, sr, bd, epc, errorepc, link, hist>>
---------------------------------------------------------------------------
(* The co-simulation between two instructions: raise_int follows an interrupt
   the RTL took, with the RTL's EPC; the mirror applies an RTL TLB write. *)

Between == ph = "fetch" /\ stack = <<>> /\ brk = "run"
Counted == steps < MaxSteps /\ steps' = steps + 1

raise_int ==
    /\ Between /\ Counted
    /\ link' = NoLink /\ res' = NoRes
    /\ \E t \in Targets : epc' = t /\ resume' = [pc |-> t, bd |-> FALSE]
    /\ bd' = FALSE
    /\ sr' = [sr EXCEPT !.erl = FALSE, !.exl = TRUE]
    /\ pc' = Vector(VecGeneral)
    /\ UNCHANGED <<tlbvars, ph, stack, in_delay_slot, errorepc, brk>>

MirrorWrite ==
    /\ Between /\ Counted /\ g_iss_tlb_ext
    /\ \E i \in Idx, hi \in HiWrites, l0 \in LoWrites, l1 \in LoWrites, z \in PageSize :
         iss_apply_tlb_write(i, [hi |-> hi, lo0 |-> l0, lo1 |-> l1, pm |-> z])
    /\ UNCHANGED <<pc, ph, stack, in_delay_slot, sr, bd, epc, errorepc, link, brk, hist>>

(* the simulation loop has stopped calling execMips *)
Stopped == (brk # "run" \/ (Between /\ steps = MaxSteps)) /\ UNCHANGED vars

Next == \/ Fetch \/ ExecCompute \/ ExecReserved \/ ExecGated \/ ExecOverflowTrap \/ ExecSyscall
        \/ Load \/ Store \/ LoadLinked \/ StoreCond \/ CacheOp
        \/ BranchLikelyNotTaken \/ Branch \/ JumpRegister \/ Jump \/ Return
        \/ Eret \/ MoveToCp0 \/ MoveToErrorEpc \/ TlbInsn \/ ExecExit
        \/ raise_int \/ MirrorWrite \/ Stopped

Spec == Init /\ [][Next]_vars
---------------------------------------------------------------------------
(* Type correctness of the interpreter's control and translation state.  Two
   parts of it are arithmetic the code could get wrong: TLBWR's Random never
   runs below zero, though Wired may be raised past it and software may write
   either to a value that is no entry; EPC, pc - 1 in a delay slot, stays an
   address. *)
TypeOK ==
    /\ TlbTypeOK
    /\ pc \in VA /\ ph \in {"fetch", "exec", "ret", "raised"} /\ in_delay_slot \in BOOLEAN
    /\ stack \in Seq([taken : BOOLEAN, target : VA, exl_before : BOOLEAN, saved : BOOLEAN,
                      from : VA])
    /\ sr \in SR /\ bd \in BOOLEAN
    /\ epc \in VA /\ errorepc \in VA
    /\ link \in [valid : BOOLEAN, line : Nat]
    /\ brk \in {"run", "break", "exit"} /\ steps \in 0..MaxSteps

(* Exceptions are restartable: EPC and Cause.BD name the instruction that the
   handler's eret must resume - the branch itself for a fault in its delay
   slot, and the first instruction of a nest of exceptions, because a second
   one at EXL = 1 leaves both alone (set_exc_pc). *)
ResumePoint == epc = resume.pc /\ bd = resume.bd

(* The reservation the interpreter keeps is the one the program has: since the
   ll, nothing stored to the physical line it read, no exception, interrupt or
   eret came, and the line on record is that line.  The code clears the link at
   dispatch, from a probe that is not the access's own translation.  Until the
   next ll an indexed store (swxc1, sdxc1: MIPS IV builds only) ends the claim,
   for the code tests an address that is not the one it stores to; in a build
   without them the claim has no exception. *)
LinkSound == ph # "exec" /\ ~res.indexed => res.lines = (IF link.valid THEN {link.line} ELSE {})

(* Translation is transparent: every access of the interpreter is answered as
   the TLB alone would answer it at that moment, and nothing else changes what
   the TLB holds.  The micro-TLB in front of va_translate's search, its fills
   and its flushes are never seen (interpret.cc:482). *)
AbstractSpec == Abstract!Spec
=============================================================================
