------------------------------ MODULE CoreInv ------------------------------
(***************************************************************************)
(* The inductive invariant behind InOrder.  What is fetched, decoded and in  *)
(* the ROB is one stream of instructions along the predicted path (Path);    *)
(* while it does not start at the reference machine's address, fetch will be  *)
(* restarted before anything is taken from it (HandshakeInv), and the ROB     *)
(* holds what the state of the restart FSM says (HeadInv).                    *)
(***************************************************************************)
EXTENDS Core

\* Software: the slot of a BLTZALL or BGEZALL cannot fault (run likelyslot).
LikelySlotsSafe ==
    \A p \in Programs, a \in Pc : p[a].op = "linklikely" =>
        p[Succ(a)].op \notin {"mem", "trap", "sys"} /\ Succ(a) \notin Mapped

\* Software: no delay slot holds a CACHE instruction (run cacheslot).
NoCacheInSlot ==
    \A p \in Programs, a \in Pc : IsBr(p[a].op) => p[Succ(a)].op \notin {"cached", "cachei"}

\* Software: no TLB write is in the slot of a branch that always executes its slot,
\* or behind a mapped address (the TLB is written by unmapped code).
TlbWritesApart ==
    \A p \in Programs, a \in Pc : p[a].op = "br" \/ a \in Mapped => p[Succ(a)].op # "of"

\* Software: no CTC1 is in the slot of a branch-likely.
NoCtc1InLikelySlot ==
    \A p \in Programs, a \in Pc : Nullifying(p[a].op) => p[Succ(a)].op # "ctc1"

-----------------------------------------------------------------------------
(* The stream: the ROB, the decode queue and the fetch queue.               *)

OfEntry(e) == [pc |-> e.pc, op |-> e.op, pred |-> e.pred]
OfFetched(p, f) ==
    [pc |-> f.pc, op |-> IF f.tlb_miss THEN "ftlb" ELSE p[f.pc].op, pred |-> f.pred]

StreamLen == Len(rob) + Len(dq) + Len(fq)
Stream ==
    [k \in 1 .. StreamLen |->
        IF k <= Len(rob) THEN OfEntry(rob[k])
        ELSE IF k <= Len(rob) + Len(dq) THEN dq[k - Len(rob)]
        ELSE OfFetched(prog, fq[k - Len(rob) - Len(dq)])]

FetchStream == [k \in 1 .. Len(fq) |-> OfFetched(prog, fq[k])]

\* What decode makes of the instruction at an address.
Right(p, x) == \/ x.op = p[x.pc].op
               \/ x.op \in {"irq", "xflush"}
               \/ x.op = "ftlb" /\ x.pc \in Mapped

\* Behind these the stream is dropped before it is used.
Ends(op) == op \in {"irq", "ftlb"} \/ Serializing(op)

Live(s, k) == \A j \in 1 .. k - 1 : ~Ends(s[j].op)

\* Is position k of stream s, which starts at w, in a delay slot, and what is
\* predicted to follow it?
InSlot(w, s, k) == IF k = 1 THEN w.slot ELSE IsBr(s[k - 1].op)
After(p, w, s, k, a) ==
    IF k = 1 THEN w.npc
    ELSE IF IsBr(s[k - 1].op) /\ s[k - 1].pred THEN p[s[k - 1].pc].tgt
    ELSE Succ(a)

\* The address of position k: the first is where the reference machine is.
PcOf(p, w, s, k) == IF k = 1 THEN w.pc ELSE After(p, w, s, k - 1, s[k - 1].pc)

\* The n instructions of s, and the fetch FSM behind them, follow the predicted
\* path from w on; c, nx and ds are cache_pc, pc and delay_slot.
Path(p, w, n, s, c, nx, ds) ==
    /\ \A k \in 1 .. n : Live(s, k) =>
          /\ s[k].pc = PcOf(p, w, s, k)
          /\ InSlot(w, s, k) => ~IsBr(s[k].op) /\ s[k].op \notin {"irq", "xflush"}
    /\ Live(s, n + 1) =>
          IF c = NoPc
          THEN n = 0 /\ nx = w.pc /\ ~w.slot /\ ~ds
          ELSE /\ c = PcOf(p, w, s, n + 1)
               /\ nx = After(p, w, s, n + 1, c)
               /\ ds \/ nx = Succ(c)
               /\ IF n = 0 THEN ds => w.slot ELSE ds <=> IsBr(s[n].op) /\ s[n].pred

\* A state of the reference machine: outside a slot the next address follows; a
\* slot follows a branch.
Sound(p, w) == IF w.slot THEN \E a \in Pc : IsBr(p[a].op) /\ w.pc = Succ(a)
               ELSE w.npc = Succ(w.pc)

WantInv == Sound(prog, want) /\ (want.slot => last_branch_target = want.npc)

-----------------------------------------------------------------------------
(* The restart and flush handshakes between the core and the fetch FSM.     *)

PendingRestart == restart_valid \/ restart_req
AckSeen == got_restart_ack \/ restart_ack
NoHandshake == ~PendingRestart /\ ~AckSeen

FlushLineInv ==
    /\ flush_line_req \/ fline_req \/ l1i_state = "FLUSH_CACHE" \/ fline_complete =>
          state = "CACHE_FLUSH" /\ flushing = {"i"} /\ NoHandshake
    /\ flush_line_req => ~fline_req /\ ~fline_complete
    /\ l1i_state = "FLUSH_CACHE" => ~fline_req /\ ~flush_line_req /\ ~fline_complete
    /\ fline_complete => l1i_state = "IDLE" /\ ~fline_req
    /\ l1i_state = "IDLE" =>
          /\ state = "CACHE_FLUSH"
          /\ fline_complete \/ (flushing = {} /\ restart_valid /\ ~AckSeen)
    /\ state = "CACHE_FLUSH" /\ PendingRestart => flushing = {}

\* A second restart may be asked for while the first is acknowledged: then the
\* fetch queue stays empty until the second is taken.
RestartInv ==
    CASE state \in {"ALLOC_FOR_SERIALIZE", "SERIALIZE_IN_FAULTED_DELAY_SLOT",
                    "WAIT_FOR_SERIALIZE_IN_FAULTED_DELAY_SLOT"} -> NoHandshake
      [] state \in {"WAIT_FOR_SERIALIZE_AND_RESTART", "CACHE_FLUSH"} ->
            /\ restart_req \/ AckSeen => restart_valid
            /\ restart_valid => /\ Done(rob[1]) /\ restart_pc = RestartPc(rob[1])
                                /\ IF state = "CACHE_FLUSH" THEN rob[1].out ELSE ~IsFlush(rob[1].op)
            /\ restart_ack => l1i_state = "ACTIVE"
            /\ ~got_restart_ack
      [] state = "DRAIN" ->
            /\ AckSeen => ~PendingRestart
            /\ restart_valid => ~restart_req
      [] state = "ARCH_FAULT" ->
            /\ ~restart_valid /\ ~got_restart_ack
            /\ restart_ack => ~restart_req /\ l1i_state = "ACTIVE" /\ cache_pc = NoPc /\ fq = <<>>
      [] state = "WRITE_EPC" ->
            /\ ~restart_valid
            /\ AckSeen => ~restart_req /\ l1i_state = "ACTIVE" /\ fq = <<>>
      [] state = "EXCEPTION_DRAIN" ->
            AckSeen /\ PendingRestart => fq = <<>> \/ (restart_valid /\ l1i_state = "ACTIVE")
      [] state = "RAT" ->
            /\ ~restart_valid
            /\ AckSeen /\ restart_req => fq = <<>>
      [] OTHER -> PendingRestart => fq = <<>> /\ dq = <<>>

HandshakeInv == FlushLineInv /\ RestartInv

-----------------------------------------------------------------------------
(* What the ROB holds, and where the stream starts, in each state.          *)

\* e is the instruction the reference machine executes next.
IsNext(e) == e.pc = want.pc /\ (e.slot <=> want.slot)

\* A serializing instruction, alone in the ROB.
SerialHead ==
    /\ Len(rob) = 1 /\ IsNext(rob[1]) /\ Serializing(rob[1].op)
    /\ rob[1].op = "xflush" => ~want.slot

\* A mispredicted branch that waits for its slot.
BranchHead == rob # <<>> /\ IsNext(rob[1]) /\ Faulted(rob[1]) /\ IsBr(rob[1].op) /\ ~want.slot

\* u is a serializing instruction in the slot of the branch at the head.
SerialSlot(u) == u.pc = want.npc /\ Serializing(u.op) /\ u.op # "xflush"

\* The marks of delay slots agree with the branches before them.
SlotMarks ==
    /\ \A k \in 1 .. Len(rob) : rob[k].slot <=> IF k = 1 THEN want.slot ELSE IsBr(rob[k - 1].op)
    /\ in_delay_slot <=> IF rob = <<>> THEN want.slot ELSE IsBr(rob[Len(rob)].op)

\* Decode is where the stream in rob and dq ends; only in the slot of a
\* mispredicted branch does a serializing instruction share the ROB.
StreamInv ==
    /\ LET m == Len(rob) + Len(dq)
       IN  Live(Stream, m + 1) => (dec_delay_slot <=> InSlot(want, Stream, m + 1))
    /\ \A k \in 1 .. Len(rob) : Serializing(rob[k].op) =>
          k = 2 /\ Len(rob) = 2 /\ Faulted(rob[1]) /\ IsBr(rob[1].op) /\ Done(rob[2])
    /\ Path(prog, want, StreamLen, Stream, cache_pc, pc, delay_slot)

\* Fetch has yet to restart: behind a serializing instruction that retires now,
\* or for an empty ROB.
RestartingInv ==
    /\ ~dec_delay_slot
    /\ IF rob = <<>> THEN restart_pc = want.pc /\ ~want.slot
       ELSE /\ SerialHead /\ Done(rob[1]) /\ restart_pc = RestartPc(rob[1])
            /\ IsFlush(rob[1].op) => rob[1].out

ActiveInv == SlotMarks /\ IF PendingRestart THEN RestartingInv ELSE StreamInv

\* Fetch is or will be at the address the reference machine goes on from.
FetchInv == PendingRestart \/ Path(prog, Begin(restart_pc), Len(fq), FetchStream, cache_pc, pc, delay_slot)

DrainInv ==
    /\ ~drain.slot => ds_done
    /\ IF ds_done \/ (drain.nullify /\ ~drain.taken)
       THEN want = Begin(restart_pc)
       ELSE /\ want.slot /\ want.npc = restart_pc
            /\ rob # <<>> /\ IsNext(rob[1]) /\ rob[1].op # "xflush"
            /\ IF drain.nullify
               THEN rob[1].op \notin {"mem", "trap", "sys", "irq", "ftlb"}
               ELSE Done(rob[1]) /\ restart_valid

HeadInv ==
    CASE state = "ACTIVE" -> ActiveInv
      [] state = "ALLOC_FOR_SERIALIZE" ->
            /\ rob = <<>> /\ dq # <<>>
            /\ Serializing(dq[1].op) /\ dq[1].pc = want.pc /\ (in_delay_slot <=> want.slot)
            /\ dq[1].op = "xflush" => ~want.slot
      [] state \in {"WAIT_FOR_SERIALIZE_AND_RESTART", "CACHE_FLUSH"} ->
            SerialHead /\ (state = "CACHE_FLUSH" => Done(rob[1]))
      [] state = "SERIALIZE_IN_FAULTED_DELAY_SLOT" ->
            BranchHead /\ Len(rob) = 1 /\ dq # <<>> /\ SerialSlot(dq[1]) /\ in_delay_slot
      [] state = "WAIT_FOR_SERIALIZE_IN_FAULTED_DELAY_SLOT" ->
            /\ BranchHead /\ Len(rob) = 2 /\ SerialSlot(rob[2]) /\ rob[2].slot
            /\ ~in_delay_slot
      [] state = "DRAIN" -> DrainInv /\ FetchInv
      [] state \in {"EXCEPTION_DRAIN", "RAT"} -> want = Begin(restart_pc) /\ FetchInv /\ ds_done
      [] state = "ARCH_FAULT" -> rob # <<>> /\ IsNext(rob[1]) /\ ArchFault(rob[1])
      [] state = "WRITE_EPC" -> fault_epc = IF want.slot THEN Pred(want.pc) ELSE want.pc

\* A branch-likely is always predicted taken.
OpInv ==
    /\ \A k \in 1 .. Len(rob) : Right(prog, rob[k]) /\ (rob[k].op = "likely" => rob[k].pred)
    /\ \A k \in 1 .. Len(dq) : Right(prog, dq[k]) /\ (dq[k].op = "likely" => dq[k].pred)
    /\ \A k \in 1 .. Len(fq) :
          /\ fq[k].tlb_miss => fq[k].pc \in Mapped
          /\ ~fq[k].tlb_miss /\ OpAt(fq[k].pc) = "likely" => fq[k].pred

FlowInv == WantInv /\ HandshakeInv /\ HeadInv /\ OpInv

-----------------------------------------------------------------------------
(* Effects.  An entry that has had one stays at the head until it retires.   *)

\* Directly behind the end of the stream no branch is followed by a TLB write,
\* though fetch may have lost the path there (a fetch fault).
EndSafe(p, n, s, c, nx) ==
    \A k \in 1 .. n : Live(s, k) /\ Ends(s[k].op) =>
        /\ k = n /\ c # NoPc /\ p[c].op = "br" => p[nx].op # "of"
        /\ k = n - 1 /\ s[n].op = "br" => c # NoPc /\ p[c].op # "of"
        /\ k <= n - 2 /\ s[k + 1].op = "br" => s[k + 2].op # "of"

FetchSafe == PendingRestart \/ EndSafe(prog, Len(fq), FetchStream, cache_pc, pc)

\* While fetch is on its way to the next instruction, and once the stream is there.
EndsSafe ==
    /\ state \in {"DRAIN", "EXCEPTION_DRAIN", "RAT"} => FetchSafe
    /\ state = "ACTIVE" /\ ~PendingRestart /\ (\A k \in 1 .. Len(rob) : ~Serializing(rob[k].op)) =>
          EndSafe(prog, StreamLen, Stream, cache_pc, pc)

\* No TLB write is behind a branch where SlotCommittable would let it issue.
PairSafe(k) == k + 1 <= Len(rob) /\ rob[k].op = "br" => rob[k + 1].op # "of"

PairsSafe ==
    ~ds_done => /\ state = "DRAIN" => rob[1].op # "br"
                /\ state = "ARCH_FAULT" => PairSafe(2)
                /\ state = "WRITE_EPC" => PairSafe(1)

\* Entry k will retire if it has had an effect; a CTC1 may have one at any time.
MayKeep(k) ==
    /\ state \notin {"EXCEPTION_DRAIN", "RAT", "ARCH_FAULT", "WRITE_EPC"}
    /\ state = "ACTIVE" => k = 1 \/ rob[k].op = "ctc1"
    /\ state = "DRAIN" => k = 1 /\ HeadValid

EffectsKept ==
    \A k \in 1 .. Len(rob) : rob[k].op = "ctc1" \/ HasEffect(rob[k]) => MayKeep(k)

EffectInv == EndsSafe /\ PairsSafe /\ EffectsKept /\ NonSpeculativeEffect
=============================================================================
