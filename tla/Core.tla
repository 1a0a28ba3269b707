------------------------------- MODULE Core -------------------------------
(***************************************************************************)
(* Decode, ROB control and the restart FSM of core.sv, together with the    *)
(* fetch FSM, one step per clock.  Register state is in module Rename; here  *)
(* an instruction is its address, its kind and how far it has come.         *)
(*                                                                         *)
(* `want' is the reference machine of interpret.cc reduced to its control   *)
(* flow: the address to execute, the one after it, and whether the first is *)
(* in a delay slot.                                                         *)
(***************************************************************************)
EXTENDS L1I

CONSTANTS
    DqEntries,       \* decode queue
    RobEntries,
    MaxXflush        \* bound on external flush requests

ASSUME CoreAssumption ==
    {FqEntries, DqEntries, RobEntries} \subseteq Nat \ {0, 1} /\ MaxXflush \in Nat

VARIABLES
    state,                 \* r_state
    dq,                    \* decoded uops
    dec_delay_slot,        \* r_dec_delay_slot: the next one decoded is in a slot
    rob,                   \* live ROB entries, oldest first
    in_delay_slot,         \* r_in_delay_slot: the next one allocated is in a slot
    pending_fault,         \* r_pending_fault
    oldest_first_pending,  \* r_oldest_first_pending
    ds_done,               \* r_ds_done
    drain,                 \* r_has_delay_slot, r_has_nullifying_delay_slot, r_take_br
    last_branch_target,    \* r_last_branch_target
    got_restart_ack,       \* r_got_restart_ack, sticky
    colour,                \* exec: r_restart_color
    dead,                  \* colours with dead memory operations still in flight
    flushing,              \* flushes the core waits for in CACHE_FLUSH
    xflush_pend,           \* r_xflush_pend
    xflush_left,           \* external flushes still to come
    fault_epc,             \* r_epc: the address the exception being taken reports
    epc, exl,              \* CP0 EPC, Status.EXL
    want,                  \* the reference machine
    undone,                \* an effect was had by an instruction that did not retire
    skipped                \* a CACHE op retired and no flush was done

corevars == <<state, dq, dec_delay_slot, rob, in_delay_slot, pending_fault,
              oldest_first_pending, ds_done, drain, last_branch_target,
              got_restart_ack, colour, dead, flushing, xflush_pend, xflush_left,
              fault_epc, epc, exl, want, undone, skipped>>
vars == <<prog, restart_valid, restart_pc, flush_line_req, l1ivars, corevars>>

State == {"ACTIVE", "DRAIN", "EXCEPTION_DRAIN", "RAT", "ALLOC_FOR_SERIALIZE",
          "WAIT_FOR_SERIALIZE_AND_RESTART", "CACHE_FLUSH", "ARCH_FAULT",
          "WRITE_EPC", "SERIALIZE_IN_FAULTED_DELAY_SLOT",
          "WAIT_FOR_SERIALIZE_IN_FAULTED_DELAY_SLOT"}

Uop == [pc : Pc, op : Op \cup Pseudo, pred : BOOLEAN]

\* in_delay_slot; where it is: in a scheduler, executing, complete; out is the
\* direction of a complete branch, and whether a complete memory operation or
\* trap faulted.
Entry == [pc : Pc, op : Op \cup Pseudo, pred : BOOLEAN, slot : BOOLEAN,
          at : {"sched", "exec", "done"}, out : BOOLEAN]

Reference == [pc : Pc, npc : Pc, slot : BOOLEAN]

TypeOK ==
    /\ prog \in Programs
    /\ L1ITypeOK
    /\ state \in State
    /\ dq \in Seq(Uop) /\ Len(dq) <= DqEntries
    /\ rob \in Seq(Entry) /\ Len(rob) <= RobEntries
    /\ restart_pc \in Pc /\ last_branch_target \in Pc
    /\ fault_epc \in Pc /\ epc \in Pc
    /\ {restart_valid, flush_line_req, dec_delay_slot, in_delay_slot, pending_fault,
        oldest_first_pending, ds_done, got_restart_ack, xflush_pend, exl, undone,
        skipped} \subseteq BOOLEAN
    /\ drain \in [slot : BOOLEAN, nullify : BOOLEAN, taken : BOOLEAN]
    /\ colour \in {0, 1} /\ dead \subseteq {0, 1}
    /\ flushing \subseteq {"d", "i"}
    /\ xflush_left \in 0 .. MaxXflush
    /\ want \in Reference

Begin(a) == [pc |-> a, npc |-> Succ(a), slot |-> FALSE]

Init ==
    /\ prog \in Programs
    /\ L1IInit
    /\ restart_valid = FALSE /\ restart_pc = 0 /\ flush_line_req = FALSE
    /\ state = "ACTIVE" /\ dq = <<>> /\ dec_delay_slot = FALSE
    /\ rob = <<>> /\ in_delay_slot = FALSE
    /\ pending_fault = FALSE /\ oldest_first_pending = FALSE
    /\ ds_done = FALSE
    /\ drain = [slot |-> FALSE, nullify |-> FALSE, taken |-> FALSE]
    /\ last_branch_target = 0 /\ got_restart_ack = FALSE
    /\ colour = 0 /\ dead = {} /\ flushing = {}
    /\ xflush_pend = FALSE /\ xflush_left = MaxXflush
    /\ fault_epc = 0 /\ epc = 0 /\ exl = FALSE
    /\ want = Begin(0)
    /\ undone = FALSE /\ skipped = FALSE

-----------------------------------------------------------------------------
(* ROB entries.                                                             *)

Done(e) == e.at = "done"

\* The faulted bit: a mispredicted branch (a branch-likely that is not taken
\* always counts as one), an ERET or a TLB write (fetch restarts behind it), or an
\* exception.
Faulted(e) ==
    /\ Done(e)
    /\ \/ e.op = "br" /\ e.pred # e.out
       \/ Nullifying(e.op) /\ (e.pred # e.out \/ ~e.out)
       \/ e.op \in {"mem", "trap"} /\ e.out
       \/ e.op \in {"eret", "of", "sys", "irq", "ftlb"}

\* t_arch_fault
ArchFault(e) == Faulted(e) /\ e.op \in {"mem", "trap", "sys", "irq", "ftlb"}

\* target_pc
TargetPc(e) ==
    CASE e.op = "eret" -> epc
      [] IsBr(e.op)    -> IF e.out THEN Target(e.pc) ELSE Succ(Succ(e.pc))
      [] OTHER         -> Succ(e.pc)

\* An injected flush runs in front of the instruction it replaced.
RestartPc(e) ==
    IF e.op = "xflush" THEN e.pc
    ELSE IF e.slot THEN last_branch_target ELSE TargetPc(e)

\* The reference machine executes what e is an instance of.
Step(w, e) ==
    CASE e.op = "xflush"             -> w
      [] e.op = "eret"               -> Begin(epc)
      [] IsBr(e.op) /\ e.out         -> [pc |-> w.npc, npc |-> Target(w.pc), slot |-> TRUE]
      [] e.op = "br" /\ ~e.out       -> [pc |-> w.npc, npc |-> Succ(w.npc), slot |-> TRUE]
      [] Nullifying(e.op) /\ ~e.out  -> Begin(Succ(w.npc))
      [] OTHER                       -> Begin(w.npc)

-----------------------------------------------------------------------------
(* Execution.                                                               *)

\* Mutant: the slot of a branch-likely that is not taken is not told apart.
HeadValidNullified == state = "ACTIVE" \/ (state = "DRAIN" /\ ~ds_done)

\* head_of_rob_ptr_valid: the head may do what cannot be undone.
HeadValid ==
    \/ state = "ACTIVE"
    \/ state = "DRAIN" /\ ~ds_done /\ ~(drain.nullify /\ ~drain.taken)

\* head_of_rob_ds_committable: so may the slot of a mispredicted branch, for
\* which the branch waits.
SlotCommittable == rob # <<>> /\ Faulted(rob[1]) /\ rob[1].op = "br"

\* ds_done empties the schedulers (t_flash_clear).
CanIssue(i) ==
    /\ rob[i].at = "sched"
    /\ ~ds_done
    /\ OldestFirst(rob[i].op) => \/ i = 1 /\ HeadValid
                                 \/ i = 2 /\ SlotCommittable

\* What can move one stage on in this cycle; a branch, memory operation or trap
\* that completes with outcome TRUE is in out.
Movable == {i \in 1 .. Len(rob) : CanIssue(i) \/ rob[i].at = "exec"}
Decided(adv) ==
    {i \in adv : rob[i].at = "exec" /\ (IsBr(rob[i].op) \/ rob[i].op \in {"mem", "trap"})}

\* The out bit of a CACHE op or an injected flush says that the flush is done.
FlushesDone == flushing \ (IF fline_complete THEN {"i"} ELSE {}) = {}

Moved(adv, out) ==
    [i \in 1 .. Len(rob) |->
        IF i \in adv
        THEN IF rob[i].at = "sched" THEN [rob[i] EXCEPT !.at = "exec"]
             ELSE [rob[i] EXCEPT !.at = "done", !.out = i \in out]
        ELSE IF i = 1 /\ state = "CACHE_FLUSH" THEN [rob[i] EXCEPT !.out = FlushesDone]
        ELSE rob[i]]

\* t_complete_bundle_*.faulted
FaultCompletes(adv, out) ==
    \E i \in adv : rob[i].op # "mem" /\ Faulted(Moved(adv, out)[i])

EretExecutes(adv) == \E i \in adv : rob[i].op = "eret"

-----------------------------------------------------------------------------
(* Decode.  Uops enter dq whatever the state, but leave fq in ACTIVE only:  *)
(* what is pushed at other times is pushed again later.                     *)

Pushes ==
    IF fq = <<>> \/ Len(dq) = DqEntries \/ oldest_first_pending THEN 0
    ELSE IF Len(fq) >= 2 /\ Len(dq) + 1 < DqEntries THEN 2 ELSE 1

\* insn_ack, insn_ack_two
Acked == IF state = "ACTIVE" THEN Pushes ELSE 0

\* t_dec0_in_delay_slot, t_dec1_in_delay_slot
DecSlot(i) == IF i = 1 THEN dec_delay_slot ELSE ~dec_delay_slot /\ IsBr(OpAt(fq[1].pc))

n_dec_delay_slot ==
    IF Pushes = 0 THEN dec_delay_slot
    ELSE ~DecSlot(Pushes) /\ IsBr(OpAt(fq[Pushes].pc))

\* decode_mips: an interrupt or a pending external flush takes the place of any
\* instruction that is not in a delay slot.
Decoded(i, irq) ==
    [pc |-> fq[i].pc, pred |-> fq[i].pred,
     op |-> IF irq /\ ~DecSlot(i) THEN "irq"
            ELSE IF xflush_pend /\ ~DecSlot(i) THEN "xflush"
            ELSE IF fq[i].tlb_miss THEN "ftlb" ELSE OpAt(fq[i].pc)]

DecodedUops(irq) == [i \in 1 .. Pushes |-> Decoded(i, irq)]

-----------------------------------------------------------------------------
(* Allocation.                                                              *)

\* t_rob_tail, t_rob_next_tail
NewEntry(u, slot) ==
    [pc |-> u.pc, op |-> u.op, pred |-> u.pred, slot |-> slot,
     at |-> IF Fold(u.op) THEN "done" ELSE "sched", out |-> FALSE]

NewEntries(n) ==
    [i \in 1 .. n |-> NewEntry(dq[i], IF i = 1 THEN in_delay_slot ELSE IsBr(dq[1].op))]

\* t_alloc in ACTIVE, as far as it does not depend on free registers and queues.
\* Behind a fault only its delay slot is let in.
CanAlloc ==
    /\ dq # <<>>
    /\ ~Serializing(dq[1].op)
    /\ Len(rob) < RobEntries
    /\ ~oldest_first_pending
    /\ pending_fault => in_delay_slot

\* t_alloc_two
CanAllocTwo ==
    /\ CanAlloc
    /\ Len(dq) >= 2
    /\ Len(rob) + 1 < RobEntries
    /\ ~(IsBr(dq[1].op) /\ IsBr(dq[2].op))
    /\ ~OldestFirst(dq[1].op)
    /\ ~Serializing(dq[2].op) /\ ~OldestFirst(dq[2].op)

Allocs == {0} \cup (IF CanAlloc THEN {1} ELSE {}) \cup (IF CanAllocTwo THEN {2} ELSE {})

-----------------------------------------------------------------------------
(* The clocked logic common to all states.  retire entries retire and       *)
(* leave; drop entries leave the ROB in all; alloc uops enter it; clr says   *)
(* what is emptied; settle clears r_pending_fault.                          *)

Retired(retire) == {rob[i] : i \in 1 .. retire}

HasEffect(e) == e.op \in {"of", "ctc1"} /\ e.at # "sched"

Clock(retire, drop, alloc, clr, settle) ==
    \E adv \in SUBSET Movable, irq \in BOOLEAN, answered \in SUBSET dead :
    \E out \in SUBSET Decided(adv) :
        /\ irq => ~exl /\ Pushes > 0 /\ clr = "none"
        /\ rob' = IF clr = "rob" THEN <<>>
                  ELSE SubSeq(Moved(adv, out), drop + 1, Len(rob)) \o NewEntries(alloc)
        /\ dq' = IF clr # "none" THEN <<>>
                 ELSE SubSeq(dq, alloc + 1, Len(dq)) \o DecodedUops(irq)
        /\ dec_delay_slot' = (clr = "none" /\ n_dec_delay_slot)
        /\ in_delay_slot' = IF alloc > 0 THEN IsBr(dq[alloc].op)
                            ELSE clr = "none" /\ in_delay_slot
        /\ oldest_first_pending' =
               /\ clr # "rob"
               /\ ~\E e \in Retired(retire) : OldestFirst(e.op)
               /\ oldest_first_pending \/ (alloc > 0 /\ OldestFirst(dq[1].op))
        /\ pending_fault' = (~settle /\ (pending_fault \/ FaultCompletes(adv, out)))
        /\ last_branch_target' =
               IF retire = 2 /\ IsBr(rob[2].op) THEN TargetPc(rob[2])
               ELSE IF retire > 0 /\ IsBr(rob[1].op) THEN TargetPc(rob[1])
               ELSE last_branch_target
        /\ exl' = (state = "WRITE_EPC" \/ (exl /\ ~EretExecutes(adv)))
        /\ epc' = IF state = "WRITE_EPC" /\ ~exl THEN fault_epc ELSE epc
        /\ dead' = (dead \ answered) \cup
                   (IF clr = "rob" /\ \E i \in 1 .. Len(rob) : rob[i].op = "mem" /\ rob[i].at = "exec"
                    THEN {colour} ELSE {})
        /\ want' = IF state = "WRITE_EPC" THEN Begin(Vec)
                   ELSE IF retire = 0 THEN want
                   ELSE IF retire = 1 THEN Step(want, rob[1])
                   ELSE Step(Step(want, rob[1]), rob[2])
        /\ undone' = (undone \/ (clr = "rob" /\ \E i \in 1 .. Len(rob) : HasEffect(rob[i])))
        /\ skipped' = (skipped \/ \E e \in Retired(retire) : IsFlush(e.op) /\ ~e.out)
        /\ UNCHANGED prog

\* The restart ack is remembered until the next cycle in ACTIVE.
n_got_restart_ack == got_restart_ack \/ restart_ack
LatchAck == got_restart_ack' = (state # "ACTIVE" /\ n_got_restart_ack)

Restart(a) == restart_valid' = TRUE /\ restart_pc' = a
Aim(a) == restart_valid' = FALSE /\ restart_pc' = a
NoRestart == Aim(restart_pc)

\* An external flush request is latched until it has been served.
XflushArrives ==
    \/ UNCHANGED <<xflush_pend, xflush_left>>
    \/ /\ ~xflush_pend /\ xflush_left > 0
       /\ xflush_pend' = TRUE /\ xflush_left' = xflush_left - 1

Goto(s) == state' = s /\ LatchAck

\* No flush is asked for or waited for, and the colour stays.
Quiet ==
    /\ XflushArrives
    /\ flush_line_req' = FALSE
    /\ UNCHANGED <<flushing, colour, fault_epc>>

-----------------------------------------------------------------------------
(* ACTIVE.                                                                  *)

\* Mutant: no slot need be complete.
SlotReadyPresent(e) == IsBr(e.op) => Len(rob) >= 2

\* A mispredicted branch waits for its delay slot: to be complete, or only to
\* be there if it may be nullified.
SlotReady(e) ==
    CASE Nullifying(e.op) -> Len(rob) >= 2
      [] e.op = "br"      -> Len(rob) >= 2 /\ Done(rob[2])
      [] OTHER            -> TRUE

\* t_can_retire_rob_head
CanRetire == rob # <<>> /\ Done(rob[1]) /\ (Faulted(rob[1]) => SlotReady(rob[1]))

\* t_faulted_head_and_serializing_delay
SerializingSlot ==
    /\ Len(rob) = 1 /\ Faulted(rob[1]) /\ IsBr(rob[1].op)
    /\ dq # <<>> /\ Serializing(dq[1].op)

EnterSerializeInSlot ==
    /\ state = "ACTIVE"
    /\ SerializingSlot
    /\ Goto("SERIALIZE_IN_FAULTED_DELAY_SLOT")
    /\ Quiet
    /\ Clock(0, 0, 0, "none", FALSE)
    /\ NoRestart
    /\ UNCHANGED <<ds_done, drain>>

\* r_has_delay_slot, r_has_nullifying_delay_slot, r_take_br
SlotOf(e) ==
    [slot |-> IsBr(e.op), nullify |-> Nullifying(e.op), taken |-> IsBr(e.op) /\ e.out]

EnterArchFault ==
    /\ state = "ACTIVE"
    /\ ~SerializingSlot
    /\ CanRetire /\ ArchFault(rob[1])
    /\ Goto("ARCH_FAULT")
    /\ Quiet
    /\ Clock(0, 0, 0, "none", FALSE)
    /\ Aim(RestartPc(rob[1]))
    /\ drain' = SlotOf(rob[1])
    /\ UNCHANGED ds_done

\* A mispredicted branch, an ERET or a TLB write retires and fetch is restarted.
RetireMispredict ==
    /\ state = "ACTIVE"
    /\ ~SerializingSlot
    /\ CanRetire /\ Faulted(rob[1]) /\ ~ArchFault(rob[1])
    /\ Goto("DRAIN")
    /\ Quiet
    /\ Clock(1, 1, 0, "none", FALSE)
    /\ Restart(RestartPc(rob[1]))
    /\ drain' = SlotOf(rob[1])
    /\ ds_done' = ~IsBr(rob[1].op)

\* t_retire_two, as far as it does not depend on the destination.
CanRetireTwo ==
    /\ Len(rob) >= 2
    /\ Done(rob[2]) /\ ~Faulted(rob[2])
    /\ ~(IsBr(rob[1].op) /\ IsBr(rob[2].op))

Retires == {1} \cup (IF CanRetireTwo THEN {2} ELSE {})

RetireAndAlloc ==
    /\ state = "ACTIVE"
    /\ CanRetire /\ ~Faulted(rob[1])
    /\ Goto("ACTIVE")
    /\ Quiet
    /\ \E r \in Retires, n \in Allocs : Clock(r, r, n, "none", FALSE)
    /\ NoRestart
    /\ UNCHANGED <<ds_done, drain>>

SerializeAtHead == dq # <<>> /\ Serializing(dq[1].op) /\ rob = <<>>

EnterSerialize ==
    /\ state = "ACTIVE"
    /\ SerializeAtHead
    /\ Goto("ALLOC_FOR_SERIALIZE")
    /\ Quiet
    /\ Clock(0, 0, 0, "none", FALSE)
    /\ NoRestart
    /\ UNCHANGED <<ds_done, drain>>

AllocOnly ==
    /\ state = "ACTIVE"
    /\ ~SerializingSlot /\ ~CanRetire /\ ~SerializeAtHead
    /\ Goto("ACTIVE")
    /\ Quiet
    /\ \E n \in Allocs : Clock(0, 0, n, "none", FALSE)
    /\ NoRestart
    /\ UNCHANGED <<ds_done, drain>>

-----------------------------------------------------------------------------
(* DRAIN: the delay slot of the retired branch, then the restart.           *)

SlotPending == drain.slot /\ ~ds_done

\* A not-taken branch-likely: the slot is discarded, complete or not.
DrainNullified ==
    /\ state = "DRAIN"
    /\ SlotPending /\ drain.nullify /\ ~drain.taken
    /\ Goto("DRAIN")
    /\ Quiet
    /\ Clock(0, 0, 0, "none", FALSE)
    /\ ds_done' = TRUE
    /\ NoRestart
    /\ UNCHANGED drain

SlotComplete ==
    /\ SlotPending /\ ~(drain.nullify /\ ~drain.taken)
    /\ rob # <<>> /\ Done(rob[1])

DrainSlotRetires ==
    /\ state = "DRAIN"
    /\ SlotComplete /\ ~ArchFault(rob[1])
    /\ Goto("DRAIN")
    /\ Quiet
    /\ Clock(1, 1, 0, "none", FALSE)
    /\ ds_done' = TRUE
    /\ NoRestart
    /\ UNCHANGED drain

DrainSlotFaults ==
    /\ state = "DRAIN"
    /\ SlotComplete /\ ArchFault(rob[1])
    /\ Goto("ARCH_FAULT")
    /\ Quiet
    /\ Clock(0, 0, 0, "none", FALSE)
    /\ ds_done' = TRUE
    /\ IF drain.nullify THEN NoRestart ELSE Aim(RestartPc(rob[1]))
    /\ UNCHANGED drain

\* Mutant: w_next_color_busy is not looked at.
DrainedAnyColour ==
    /\ ds_done
    /\ \A i \in 1 .. Len(rob) : rob[i].at = "exec" => rob[i].op = "mem"

\* No non-memory operation is executing and no memory operation has the next
\* colour.
Drained ==
    /\ ds_done
    /\ \A i \in 1 .. Len(rob) : rob[i].at = "exec" => rob[i].op = "mem"
    /\ (1 - colour) \notin dead

DrainEnds ==
    /\ state \in {"DRAIN", "EXCEPTION_DRAIN"}
    /\ Drained
    /\ Goto("RAT")
    /\ Quiet
    /\ Clock(0, 0, 0, "none", FALSE)
    /\ NoRestart
    /\ UNCHANGED <<ds_done, drain>>

\* Not drained, or the divider is busy.
DrainWaits ==
    /\ state \in {"DRAIN", "EXCEPTION_DRAIN"}
    /\ state = "DRAIN" /\ SlotPending => ~drain.nullify \/ drain.taken
    /\ state = "DRAIN" => ~SlotComplete
    /\ Goto(state)
    /\ Quiet
    /\ Clock(0, 0, 0, "none", FALSE)
    /\ NoRestart
    /\ UNCHANGED <<ds_done, drain>>

RatWaits ==
    /\ state = "RAT" /\ ~n_got_restart_ack
    /\ Goto("RAT")
    /\ Quiet
    /\ Clock(0, 0, 0, "rob", FALSE)
    /\ NoRestart
    /\ UNCHANGED <<ds_done, drain>>

RatEnds ==
    /\ state = "RAT" /\ n_got_restart_ack
    /\ Goto("ACTIVE")
    /\ Clock(0, 0, 0, "rob", TRUE)
    /\ ds_done' = FALSE
    /\ colour' = 1 - colour
    /\ NoRestart
    /\ XflushArrives
    /\ flush_line_req' = FALSE
    /\ UNCHANGED <<drain, flushing, fault_epc>>

-----------------------------------------------------------------------------
(* Serializing instructions.  The ROB is empty when one is allocated; it    *)
(* retires in ACTIVE, after the restart behind it has been acknowledged.    *)

AllocForSerialize ==
    /\ state = "ALLOC_FOR_SERIALIZE"
    /\ Quiet
    /\ \/ Goto("WAIT_FOR_SERIALIZE_AND_RESTART") /\ Clock(0, 0, 1, "none", FALSE)
       \/ Goto(state) /\ Clock(0, 0, 0, "none", FALSE)   \* no register or queue entry free
    /\ NoRestart
    /\ UNCHANGED <<ds_done, drain>>

WaitForSerialize ==
    /\ state = "WAIT_FOR_SERIALIZE_AND_RESTART"
    /\ ~Done(rob[1])
    /\ Goto(state)
    /\ Quiet
    /\ Clock(0, 0, 0, "none", FALSE)
    /\ NoRestart
    /\ UNCHANGED <<ds_done, drain>>

\* The restart is asked for in every cycle until it is acknowledged.
RestartBehind ==
    /\ IF n_got_restart_ack THEN Goto("ACTIVE") ELSE Goto(state)
    /\ Clock(0, 0, 0, "dq", TRUE)
    /\ Restart(RestartPc(rob[1]))
    /\ UNCHANGED <<ds_done, drain>>

\* Mutant: an injected flush is not told apart.
NeedsFlushCacheOnly(e) == e.op \in {"cached", "cachei"}

NeedsFlush(e) == IsFlush(e.op)

SerializeRestarts ==
    /\ state = "WAIT_FOR_SERIALIZE_AND_RESTART"
    /\ Done(rob[1]) /\ ~NeedsFlush(rob[1])
    /\ Quiet
    /\ RestartBehind

\* An I-side CACHE op invalidates a set of the L1I; all others go to the L1D.
StartFlush ==
    /\ state = "WAIT_FOR_SERIALIZE_AND_RESTART"
    /\ Done(rob[1]) /\ NeedsFlush(rob[1])
    /\ Goto("CACHE_FLUSH")
    /\ flushing' = IF rob[1].op = "cachei" THEN {"i"} ELSE {"d"}
    /\ flush_line_req' = (rob[1].op = "cachei")
    /\ XflushArrives
    /\ Clock(0, 0, 0, "none", FALSE)
    /\ NoRestart
    /\ UNCHANGED <<ds_done, drain, colour, fault_epc>>

\* The completes are latched as they come.
FlushWaits ==
    /\ state = "CACHE_FLUSH"
    /\ ~FlushesDone
    /\ Goto(state)
    /\ flushing' \in {flushing, flushing \ {"d"}}
    /\ flush_line_req' = FALSE
    /\ XflushArrives
    /\ Clock(0, 0, 0, "none", FALSE)
    /\ NoRestart
    /\ UNCHANGED <<ds_done, drain, colour, fault_epc>>

FlushRestarts ==
    /\ state = "CACHE_FLUSH"
    /\ FlushesDone
    /\ RestartBehind
    /\ IF rob[1].op = "xflush" /\ n_got_restart_ack
       THEN xflush_pend' = FALSE /\ UNCHANGED xflush_left
       ELSE XflushArrives
    /\ flushing' = {}
    /\ flush_line_req' = FALSE
    /\ UNCHANGED <<colour, fault_epc>>

\* A serializing instruction in the delay slot of a mispredicted branch enters
\* the ROB behind the branch.
AllocSlotSerialize ==
    /\ state = "SERIALIZE_IN_FAULTED_DELAY_SLOT"
    /\ Quiet
    /\ \/ Goto("WAIT_FOR_SERIALIZE_IN_FAULTED_DELAY_SLOT") /\ Clock(0, 0, 1, "none", FALSE)
       \/ Goto(state) /\ Clock(0, 0, 0, "none", FALSE)
    /\ NoRestart
    /\ UNCHANGED <<ds_done, drain>>

\* Its arm for a fault of the slot is not reached: no serializing instruction
\* faults.
WaitSlotSerialize ==
    /\ state = "WAIT_FOR_SERIALIZE_IN_FAULTED_DELAY_SLOT"
    /\ IF Done(rob[2]) THEN Goto("ACTIVE") ELSE Goto(state)
    /\ Quiet
    /\ Clock(0, 0, 0, "none", Done(rob[2]))
    /\ NoRestart
    /\ UNCHANGED <<ds_done, drain>>

-----------------------------------------------------------------------------
(* Exceptions.                                                              *)

\* Mutant: the branch is not run again.
ReportedPcOfSlot(e) == e.pc

ReportedPc(e) == IF e.slot THEN Pred(e.pc) ELSE e.pc

\* ARCH_FAULT: the faulting entry leaves the ROB without retiring.
TakeFault ==
    /\ state = "ARCH_FAULT"
    /\ Goto("WRITE_EPC")
    /\ fault_epc' = ReportedPc(rob[1])
    /\ XflushArrives
    /\ flush_line_req' = FALSE
    /\ Clock(0, 1, 0, "none", FALSE)
    /\ NoRestart
    /\ UNCHANGED <<ds_done, drain, flushing, colour>>

WriteEpc ==
    /\ state = "WRITE_EPC"
    /\ Goto("EXCEPTION_DRAIN")
    /\ Quiet
    /\ Clock(0, 0, 0, "dq", FALSE)
    /\ Restart(Vec)
    /\ ds_done' = TRUE
    /\ UNCHANGED drain

-----------------------------------------------------------------------------

CoreCycle ==
    \/ EnterSerializeInSlot \/ EnterArchFault \/ RetireMispredict \/ RetireAndAlloc
    \/ EnterSerialize \/ AllocOnly
    \/ DrainNullified \/ DrainSlotRetires \/ DrainSlotFaults \/ DrainEnds \/ DrainWaits
    \/ RatWaits \/ RatEnds
    \/ AllocForSerialize \/ WaitForSerialize \/ SerializeRestarts
    \/ StartFlush \/ FlushWaits \/ FlushRestarts
    \/ AllocSlotSerialize \/ WaitSlotSerialize
    \/ TakeFault \/ WriteEpc

Next == CoreCycle /\ L1ICycle(Acked)

Spec == Init /\ [][Next]_vars

-----------------------------------------------------------------------------
(* Properties.                                                              *)

\* The head of the ROB is what retires or faults next.
HeadIsNext ==
    \/ state \in {"ACTIVE", "WAIT_FOR_SERIALIZE_AND_RESTART", "CACHE_FLUSH", "ARCH_FAULT",
                 "SERIALIZE_IN_FAULTED_DELAY_SLOT", "WAIT_FOR_SERIALIZE_IN_FAULTED_DELAY_SLOT"}
    \/ state = "DRAIN" /\ SlotPending /\ ~(drain.nullify /\ ~drain.taken)

\* The instruction behind e executes: e is complete, and if it is a mispredicted
\* branch, its delay slot is not nullified.
Leads(e) == Done(e) /\ (Faulted(e) => IsBr(e.op) /\ (Nullifying(e.op) => e.out))

\* Entry i executes: nothing before it faults, but for a branch of which it is
\* the slot; in DRAIN that branch has retired.
OnPath(i) ==
    /\ state = "DRAIN" => i = 1
    /\ \A j \in 1 .. i - 1 : Leads(rob[j])
    /\ \A j \in 1 .. i - 2 : ~Faulted(rob[j])

\* Where the reference machine is when it reaches entry i.
WantAt(i) ==
    LET w[j \in 1 .. i] == IF j = 1 THEN want ELSE Step(w[j - 1], rob[j - 1]) IN w[i]

\* Whatever is predicted, restarted, drained, nullified, injected or serialized,
\* the entries of the ROB that will retire are, in order, the instructions the
\* reference machine executes, each rightly marked as being in a delay slot or
\* not.
InOrder ==
    HeadIsNext =>
        \A i \in 1 .. Len(rob) :
            OnPath(i) => rob[i].pc = WantAt(i).pc /\ rob[i].slot = WantAt(i).slot

\* An exception reports the instruction the reference machine has reached, or the
\* branch before it if that is in a delay slot: everything older has retired,
\* nothing younger.
PreciseException ==
    state = "WRITE_EPC" => fault_epc = IF want.slot THEN Pred(want.pc) ELSE want.pc

\* A colour is used again only when no dead memory operation still has it: the
\* answer to one is never taken for the answer to a live one.
ColourIsEra == dead \subseteq {1 - colour} \/ state = "RAT"

\* An instruction whose effect cannot be undone (a TLB write, a move to a control
\* register) has it only if it retires.
NonSpeculativeEffect == ~undone

\* A CACHE instruction or an injected flush that retires has been performed.
CacheOpPerformed == ~skipped
=============================================================================
