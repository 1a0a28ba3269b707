-------------------------------- MODULE L1I --------------------------------
(***************************************************************************)
(* The fetch FSM of l1i.sv, one step per clock: fetch groups, the delay-slot *)
(* bit, the fetch queue, reloads, per-line flushes and the restart          *)
(* handshake with the core.  What the arrays hold is abstracted: any fetch  *)
(* may hit or miss, and any branch may be predicted either way.             *)
(***************************************************************************)
EXTENDS Uops

CONSTANT FqEntries

VARIABLES
    restart_valid,   \* core: r_restart_valid, r_restart_pc
    restart_pc,
    flush_line_req,  \* core: r_flush_line_req_l1i
    l1i_state,       \* r_state
    pc,              \* r_pc: the address to look up next
    cache_pc,        \* r_cache_pc, NoPc while r_req = 0; r_miss_pc when not ACTIVE
    delay_slot,      \* r_delay_slot: cache_pc is the slot of a predicted-taken branch
    fq,              \* the fetch queue
    restart_req,     \* r_restart_req, sticky
    fline_req,       \* r_fline_req, sticky
    restart_ack,     \* r_restart_ack
    fline_complete   \* r_fline_complete

l1ivars == <<l1i_state, pc, cache_pc, delay_slot, fq, restart_req, fline_req,
             restart_ack, fline_complete>>

\* insn_fetch_t
Fetched == [pc : Pc, pred : BOOLEAN, tlb_miss : BOOLEAN]

L1IState == {"IDLE", "ACTIVE", "INJECT_RELOAD", "RELOAD_TURNAROUND",
             "FLUSH_CACHE", "WAIT_FOR_NOT_FULL", "WAIT_FOR_TLB"}

L1ITypeOK ==
    /\ l1i_state \in L1IState
    /\ pc \in Pc /\ cache_pc \in Pc \cup {NoPc}
    /\ fq \in Seq(Fetched) /\ Len(fq) <= FqEntries
    /\ {delay_slot, restart_req, fline_req, restart_ack, fline_complete} \subseteq BOOLEAN

L1IInit ==
    /\ l1i_state = "ACTIVE" /\ pc = 0 /\ cache_pc = NoPc
    /\ delay_slot = FALSE /\ fq = <<>>
    /\ restart_req = FALSE /\ fline_req = FALSE
    /\ restart_ack = FALSE /\ fline_complete = FALSE

n_restart_req == restart_valid \/ restart_req
n_fline_req == flush_line_req \/ fline_req

fq_full  == Len(fq) = FqEntries
fq_full2 == Len(fq) + 1 >= FqEntries

-----------------------------------------------------------------------------
(* What the next state is in each arm.  acked instructions leave the queue;  *)
(* clearing it (t_clear_fq) wins.                                            *)

Popped(acked) == SubSeq(fq, acked + 1, Len(fq))

\* Requests that are not taken this cycle stay latched.
Latched(s, acked) ==
    /\ l1i_state' = s
    /\ fq' = Popped(acked)
    /\ restart_req' = n_restart_req /\ fline_req' = n_fline_req
    /\ restart_ack' = FALSE /\ fline_complete' = FALSE

TakeFlush ==
    /\ n_fline_req
    /\ l1i_state' = "FLUSH_CACHE"
    /\ fq' = <<>>
    /\ restart_req' = n_restart_req /\ fline_req' = FALSE
    /\ restart_ack' = FALSE /\ fline_complete' = FALSE
    /\ cache_pc' = NoPc
    /\ UNCHANGED <<pc, delay_slot>>

RestartTo(slot) ==
    /\ n_restart_req
    /\ l1i_state' = "ACTIVE" /\ pc' = restart_pc /\ cache_pc' = NoPc
    /\ delay_slot' = slot
    /\ fq' = <<>>
    /\ restart_req' = FALSE /\ fline_req' = n_fline_req
    /\ restart_ack' = TRUE /\ fline_complete' = FALSE

TakeRestart == ~n_fline_req /\ RestartTo(FALSE)

Served == n_fline_req \/ n_restart_req

-----------------------------------------------------------------------------
(* ACTIVE: the lookup of cache_pc.                                          *)

\* r_req = 0: look up pc.
Lookup(acked) ==
    /\ ~Served
    /\ cache_pc = NoPc
    /\ Latched("ACTIVE", acked)
    /\ cache_pc' = pc /\ pc' = Succ(pc)
    /\ UNCHANGED delay_slot

\* The translation is not there yet (r_itlb_ready = 0).
TlbWait(acked) ==
    /\ ~Served
    /\ cache_pc \in Mapped
    /\ Latched("WAIT_FOR_TLB", acked)
    /\ UNCHANGED <<pc, cache_pc, delay_slot>>

Miss(acked) ==
    /\ ~Served
    /\ cache_pc # NoPc
    /\ Latched("INJECT_RELOAD", acked)
    /\ UNCHANGED <<pc, cache_pc, delay_slot>>

HitFull(acked) ==
    /\ ~Served
    /\ cache_pc # NoPc
    /\ fq_full
    /\ Latched("WAIT_FOR_NOT_FULL", acked)
    /\ UNCHANGED <<pc, cache_pc, delay_slot>>

Push(acked, insns) ==
    /\ l1i_state' = "ACTIVE"
    /\ fq' = Popped(acked) \o insns
    /\ restart_req' = FALSE /\ fline_req' = FALSE
    /\ restart_ack' = FALSE /\ fline_complete' = FALSE

Insn(a, taken) == [pc |-> a, pred |-> taken, tlb_miss |-> FALSE]

\* No translation: the fault is pushed in the instruction's place.
FetchFault(acked) ==
    /\ ~Served
    /\ cache_pc \in Mapped
    /\ ~fq_full
    /\ Push(acked, <<[pc |-> cache_pc, pred |-> FALSE, tlb_miss |-> TRUE]>>)
    /\ cache_pc' = pc /\ pc' = Succ(cache_pc)
    /\ UNCHANGED delay_slot

\* The last instruction of a line has no second one to go with it.
LineEnd(a) == a % LineLen = LineLen - 1

\* What ends a fetch group whatever the predictor says (t_tcb*).
EndsGroup(op) == Nullifying(op)

\* t_first_branch >= 2: neither of the two is predicted taken.
PushSequential(acked) ==
    /\ ~EndsGroup(OpAt(Succ(cache_pc)))
    /\ Push(acked, <<Insn(cache_pc, FALSE), Insn(Succ(cache_pc), FALSE)>>)
    /\ cache_pc' = Succ(Succ(cache_pc)) /\ pc' = Succ(Succ(Succ(cache_pc)))
    /\ UNCHANGED delay_slot

\* t_gb_ok1: an instruction and a predicted-taken branch; the slot is next.
PushPair(acked) ==
    /\ OpAt(Succ(cache_pc)) \in {"br", "likely"}
    /\ Push(acked, <<Insn(cache_pc, FALSE), Insn(Succ(cache_pc), TRUE)>>)
    /\ cache_pc' = Succ(Succ(cache_pc)) /\ pc' = Target(Succ(cache_pc))
    /\ delay_slot' = TRUE

PushOne(acked) ==
    /\ Push(acked, <<Insn(cache_pc, FALSE)>>)
    /\ cache_pc' = pc /\ pc' = Succ(pc)
    /\ delay_slot' = FALSE

\* A branch predicted taken: the slot is being read, its target is next.
PushTaken(acked) ==
    /\ IsBr(OpAt(cache_pc))
    /\ Push(acked, <<Insn(cache_pc, TRUE)>>)
    /\ cache_pc' = pc /\ pc' = Target(cache_pc)
    /\ delay_slot' = ~delay_slot

\* t_hit && !fq_full
Hit(acked) ==
    /\ ~Served
    /\ cache_pc # NoPc
    /\ ~fq_full
    /\ \/ PushTaken(acked)
       \/ /\ OpAt(cache_pc) # "likely"
          /\ \/ delay_slot \/ LineEnd(cache_pc) \/ fq_full2
             \/ EndsGroup(OpAt(cache_pc))
             \/ IsBr(OpAt(Succ(cache_pc)))     \* a call or an indirect jump
          /\ PushOne(acked)
       \/ /\ ~EndsGroup(OpAt(cache_pc))
          /\ ~delay_slot /\ ~LineEnd(cache_pc) /\ ~fq_full2
          /\ PushPair(acked) \/ PushSequential(acked)

-----------------------------------------------------------------------------
(* The other states.                                                        *)

ReloadWait(acked) ==
    /\ \E s \in {"INJECT_RELOAD", "RELOAD_TURNAROUND"} : Latched(s, acked)
    /\ UNCHANGED <<pc, cache_pc, delay_slot>>

\* RELOAD_TURNAROUND looks the missing address up again.
Again(acked) ==
    /\ ~Served
    /\ Latched(IF fq_full THEN "RELOAD_TURNAROUND" ELSE "ACTIVE", acked)
    /\ UNCHANGED <<pc, cache_pc, delay_slot>>

TlbReady(acked) ==
    /\ ~Served
    /\ \E s \in {"WAIT_FOR_TLB", "ACTIVE"} : Latched(s, acked)
    /\ UNCHANGED <<pc, cache_pc, delay_slot>>

NotFull(acked) ==
    /\ ~fq_full
    /\ Latched("ACTIVE", acked)
    /\ UNCHANGED <<pc, cache_pc, delay_slot>>

StillFull(acked) ==
    /\ fq_full /\ ~Served
    /\ Latched("WAIT_FOR_NOT_FULL", acked)
    /\ UNCHANGED <<pc, cache_pc, delay_slot>>

FlushLine(acked) ==
    /\ l1i_state' = "IDLE"
    /\ fq' = Popped(acked)
    /\ restart_req' = n_restart_req /\ fline_req' = n_fline_req
    /\ restart_ack' = FALSE /\ fline_complete' = TRUE
    /\ UNCHANGED <<pc, cache_pc, delay_slot>>

\* IDLE does not clear r_delay_slot.
IdleRestart == RestartTo(delay_slot)

IdleWait(acked) ==
    /\ ~n_restart_req
    /\ Latched("IDLE", acked)
    /\ UNCHANGED <<pc, cache_pc, delay_slot>>

L1ICycle(acked) ==
    \/ /\ l1i_state = "ACTIVE"
       /\ \/ TakeFlush \/ TakeRestart
          \/ Lookup(acked) \/ TlbWait(acked) \/ Miss(acked) \/ HitFull(acked)
          \/ FetchFault(acked) \/ Hit(acked)
    \/ l1i_state = "INJECT_RELOAD" /\ ReloadWait(acked)
    \/ l1i_state = "RELOAD_TURNAROUND" /\ (TakeFlush \/ TakeRestart \/ Again(acked))
    \/ l1i_state = "WAIT_FOR_TLB" /\ (TakeFlush \/ TakeRestart \/ TlbReady(acked))
    \/ /\ l1i_state = "WAIT_FOR_NOT_FULL"
       /\ \/ NotFull(acked)
          \/ fq_full /\ (TakeFlush \/ TakeRestart)
          \/ StillFull(acked)
    \/ l1i_state = "FLUSH_CACHE" /\ FlushLine(acked)
    \/ l1i_state = "IDLE" /\ (IdleRestart \/ IdleWait(acked))
=============================================================================
