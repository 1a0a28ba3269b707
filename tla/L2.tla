--------------------------------- MODULE L2 ---------------------------------
(***************************************************************************)
(* The inclusive L2 (l2.sv): direct mapped, one request at a time, with a    *)
(* presence bit pd and the colour pidx at which the L1D holds the line.      *)
(* Pure turnaround states (WAIT_FOR_RAM, STORE_TURNAROUND,                   *)
(* WAIT_CLEAN_RELOAD, WAIT_STORE_IDLE, UNCACHE_WB_TURNAROUND, FLUSH_WAIT)    *)
(* are folded into the state they lead to.  A response is a one-cycle pulse  *)
(* and the L2 needs at least one cycle to do anything after it, so no L2     *)
(* action is enabled while a response is on the wire.                        *)
(***************************************************************************)
EXTENDS Interconnect

\* The registers of the request being served.
L2Req   == [op : MemOp \cup {"SNOOP", "none"}, line : Line, from_d : BOOLEAN,
            colour : Colour, uncached : BOOLEAN, full : BOOLEAN, data : Val,
            wbinv : BOOLEAN]
NoL2Req == [op |-> "none", line |-> anyLine, from_d |-> FALSE, colour |-> anyColour,
            uncached |-> FALSE, full |-> FALSE, data |-> v0, wbinv |-> FALSE]

L2State == {"IDLE", "CHECK", "DIRTY_STORE", "CLEAN_RELOAD", "UNCACHE_STORE",
            "UNCACHE_LOAD", "UNCACHE_WB_DRAIN", "FLUSH_TRIAGE", "FLUSH_STORE"}

NoPrb  == [done |-> FALSE, dirty |-> FALSE, data |-> v0]
NoWb   == [line |-> anyLine, data |-> v0]

VARIABLES
    l2_state,       \* r_state
    l2_r,           \* r_opcode, r_tag/r_idx/r_saveaddr, r_from_d, ...
    l2_prb,         \* r_probed, r_probe_dirty, r_probe_data
    l2_wb,          \* r_addr and r_mem_req_store_data of a line writeback
    l2_reload,      \* r_reload
    l2_valid, l2_dirty, l2_tag, l2_data, l2_pd, l2_pidx,   \* the RAMs, by index
    l2_idx,         \* r_idx of the flush walk
    l2_need_l1d,    \* r_need_l1d of the flush sub-FSM
    l2_flush_req,   \* r_flush_req
    l2_flush_complete   \* flush_complete pulse

l2Arrays == <<l2_valid, l2_dirty, l2_tag, l2_data, l2_pd, l2_pidx>>
l2Flush  == <<l2_idx, l2_need_l1d, l2_flush_req, l2_flush_complete>>
l2Vars   == <<l2_state, l2_r, l2_prb, l2_wb, l2_reload, l2Arrays, l2Flush>>

L2Init ==
    /\ l2_state = "IDLE" /\ l2_r = NoL2Req /\ l2_prb = NoPrb /\ l2_wb = NoWb
    /\ l2_reload = FALSE
    /\ l2_valid = [i \in L2Idx |-> FALSE] /\ l2_dirty = [i \in L2Idx |-> FALSE]
    /\ l2_tag = [i \in L2Idx |-> anyLine] /\ l2_data = [i \in L2Idx |-> v0]
    /\ l2_pd = [i \in L2Idx |-> FALSE] /\ l2_pidx = [i \in L2Idx |-> anyColour]
    /\ l2_idx = 0 /\ l2_need_l1d = FALSE /\ l2_flush_req = FALSE
    /\ l2_flush_complete = FALSE

L2TypeOK ==
    /\ l2_state \in L2State /\ l2_r \in L2Req
    /\ l2_prb \in [done : BOOLEAN, dirty : BOOLEAN, data : Val]
    /\ l2_wb \in [line : Line, data : Val] /\ l2_reload \in BOOLEAN
    /\ l2_valid \in [L2Idx -> BOOLEAN] /\ l2_dirty \in [L2Idx -> BOOLEAN]
    /\ l2_tag \in [L2Idx -> Line] /\ l2_data \in [L2Idx -> Val]
    /\ l2_pd \in [L2Idx -> BOOLEAN] /\ l2_pidx \in [L2Idx -> Colour]
    /\ l2_idx \in L2Idx /\ l2_need_l1d \in BOOLEAN /\ l2_flush_req \in BOOLEAN
    /\ l2_flush_complete \in BOOLEAN

-----------------------------------------------------------------------------
\* Wires no L2 action drives.
l1Wires == <<arb_state, r_l1d_req, r_l1i_req, r_last_gnt, d_mem_req, i_mem_req>>

Answer(v, b) == rsp' = [valid |-> TRUE, data |-> v, dirty |-> b]

\* The service of the current request is over.
Done == l2_state' = "IDLE" /\ l2_r' = NoL2Req /\ l2_prb' = NoPrb /\ l2_wb' = NoWb

\* The line in the RAMs at the request's index.
Idx      == L2Of[l2_r.line]
Resident == l2_tag[Idx]
Hit      == l2_valid[Idx] /\ Resident = l2_r.line
NeedWb   == l2_valid[Idx] /\ l2_dirty[Idx]

\* Drop the resident line.  A valid-bit write also clears its presence.
Drop(i) ==
    /\ l2_valid' = [l2_valid EXCEPT ![i] = FALSE]
    /\ l2_dirty' = [l2_dirty EXCEPT ![i] = FALSE]
    /\ l2_pd' = [l2_pd EXCEPT ![i] = FALSE]
    /\ UNCHANGED <<l2_tag, l2_data, l2_pidx>>

DropIf(b, i) == IF b THEN Drop(i) ELSE UNCHANGED l2Arrays

\* The request's line is here and newer than DRAM.
MustWrite == Hit /\ (l2_dirty[Idx] \/ l2_prb.dirty)

-----------------------------------------------------------------------------
\* IDLE: a flush goes first, then a snoop, then the L1 request.
AcceptFlush ==
    /\ l2_state = "IDLE" /\ ~rsp.valid /\ l2_flush_req
    /\ l2_state' = "FLUSH_TRIAGE" /\ l2_idx' = 0
    /\ UNCHANGED <<l2_r, l2_prb, l2_wb, l2_reload, l2Arrays, l2_need_l1d, l2_flush_req,
                   l2_flush_complete, l1Wires, r_req, rsp, probe, ack, snoop, snoop_done, dram>>

AcceptSnoop ==
    /\ l2_state = "IDLE" /\ ~rsp.valid /\ ~l2_flush_req
    /\ snoop.valid
    /\ l2_r' = [NoL2Req EXCEPT !.op = "SNOOP", !.line = snoop.line, !.wbinv = snoop.wbinv]
    /\ snoop' = NoSnoop
    /\ l2_state' = "CHECK"
    /\ UNCHANGED <<l2_prb, l2_wb, l2_reload, l2Arrays, l2Flush, l1Wires, r_req, rsp,
                   probe, ack, snoop_done, dram>>

\* A cacheable MEM_SW is answered as it is accepted.
AcceptReq ==
    /\ l2_state = "IDLE" /\ ~rsp.valid /\ ~l2_flush_req /\ ~snoop.valid
    /\ r_req
    /\ l2_r' = IF arb_state = "GNT_L1I"
               THEN [NoL2Req EXCEPT !.op = "LW", !.line = i_mem_req.line, !.full = TRUE,
                                    !.uncached = ~i_mem_req.cacheable]
               ELSE [op |-> d_mem_req.op, line |-> d_mem_req.line, from_d |-> TRUE,
                     colour |-> d_mem_req.colour, uncached |-> ~d_mem_req.cacheable,
                     full |-> d_mem_req.full, data |-> d_mem_req.data, wbinv |-> FALSE]
    /\ r_req' = FALSE
    /\ IF arb_state = "GNT_L1D" /\ d_mem_req.op = "SW" /\ d_mem_req.cacheable
       THEN Answer(v0, FALSE) ELSE UNCHANGED rsp
    /\ l2_state' = "CHECK"
    /\ UNCHANGED <<l2_prb, l2_wb, l2_reload, l2Arrays, l2Flush, l1Wires, probe, ack,
                   snoop, snoop_done, dram>>

-----------------------------------------------------------------------------
\* CHECK_VALID_AND_TAG.  The conditions below follow the order of its arms.
Check(ops) == l2_state = "CHECK" /\ ~rsp.valid /\ ~l2_r.uncached /\ l2_r.op \in ops

\* w_alias: an L1D request for a line the L1D holds at another colour.
AliasIgnored == FALSE   \* mutant of Alias
Alias == /\ l2_r.from_d /\ Hit /\ l2_pd[Idx] /\ l2_pidx[Idx] # l2_r.colour
         /\ l2_r.op \in {"LW", "INVL", "PGDROP"}

SnoopProbeWbinv == l2_r.op = "SNOOP" /\ l2_r.wbinv /\ Hit /\ l2_pd[Idx]   \* mutant
SnoopProbe  == l2_r.op = "SNOOP" /\ Hit /\ l2_pd[Idx]
VictimProbe == l2_r.op \in {"LW", "SW"} /\ ~Hit /\ l2_valid[Idx] /\ l2_pd[Idx]

NeedProbe == (Alias \/ SnoopProbe \/ VictimProbe) /\ ~l2_prb.done

ProbeIssue ==
    /\ Check(MemOp \cup {"SNOOP"}) /\ NeedProbe /\ ~probe.req
    /\ probe' = [req |-> TRUE, line |-> Resident, colour |-> l2_pidx[Idx]]
    /\ UNCHANGED <<l2Vars, l1Wires, r_req, rsp, ack, snoop, snoop_done, dram>>

ProbeAnswered ==
    /\ Check(MemOp \cup {"SNOOP"}) /\ NeedProbe /\ probe.req /\ ack.valid
    /\ l2_prb' = [done |-> TRUE, dirty |-> ack.dirty, data |-> ack.data]
    /\ probe' = NoProbe /\ ack' = NoAck
    /\ UNCHANGED <<l2_state, l2_r, l2_wb, l2_reload, l2Arrays, l2Flush, l1Wires, r_req, rsp,
                   snoop, snoop_done, dram>>

checkKeeps == UNCHANGED <<l2Flush, l1Wires, r_req, probe, ack, snoop, dram>>

\* Write the resident line (the probed copy if that was dirty) to DRAM.
Writeback(s) ==
    /\ l2_wb' = [line |-> Resident, data |-> IF l2_prb.dirty THEN l2_prb.data ELSE l2_data[Idx]]
    /\ l2_state' = s

\* Uncached access: the L2 copy goes, written back first when dirty.
PurgeClean == FALSE   \* mutant of PurgeDirty
PurgeDirty == Hit /\ l2_dirty[Idx]

UncachedPurge ==
    /\ l2_state = "CHECK" /\ ~rsp.valid /\ l2_r.uncached
    /\ DropIf(Hit, Idx)
    /\ IF PurgeDirty
       THEN Writeback("UNCACHE_WB_DRAIN")
       ELSE /\ l2_state' = (IF l2_r.op = "SW" THEN "UNCACHE_STORE" ELSE "UNCACHE_LOAD")
            /\ UNCHANGED l2_wb
    /\ UNCHANGED <<l2_r, l2_prb, l2_reload, rsp, snoop_done>> /\ checkKeeps

Invl ==
    /\ Check({"INVL"}) /\ ~NeedProbe
    /\ DropIf(Hit, Idx)
    /\ IF MustWrite
       THEN Writeback("UNCACHE_WB_DRAIN") /\ UNCHANGED <<l2_r, l2_prb, rsp>>
       ELSE Done /\ Answer(v0, FALSE)
    /\ UNCHANGED <<l2_reload, snoop_done>> /\ checkKeeps

PgDrop ==
    /\ Check({"PGDROP"}) /\ ~NeedProbe
    /\ DropIf(Hit, Idx)
    /\ Done /\ Answer(v0, MustWrite)
    /\ UNCHANGED <<l2_reload, snoop_done>> /\ checkKeeps

SnoopWbinv ==
    /\ Check({"SNOOP"}) /\ l2_r.wbinv /\ ~NeedProbe
    /\ DropIf(Hit, Idx)
    /\ IF MustWrite
       THEN Writeback("UNCACHE_WB_DRAIN") /\ UNCHANGED <<l2_r, l2_prb, snoop_done>>
       ELSE Done /\ snoop_done' = TRUE
    /\ UNCHANGED <<l2_reload, rsp>> /\ checkKeeps

\* DMA-in post-drop: whatever the L2 or the L1D held is discarded.
SnoopDropNothing ==   \* mutant of SnoopDrop
    /\ Check({"SNOOP"}) /\ ~l2_r.wbinv /\ ~NeedProbe
    /\ Done /\ snoop_done' = TRUE
    /\ UNCHANGED <<l2Arrays, l2_reload, rsp>> /\ checkKeeps
SnoopDrop ==
    /\ Check({"SNOOP"}) /\ ~l2_r.wbinv /\ ~NeedProbe
    /\ DropIf(Hit, Idx)
    /\ Done /\ snoop_done' = TRUE
    /\ UNCHANGED <<l2_reload, rsp>> /\ checkKeeps

\* MEM_WB: the carried line goes straight to DRAM.  Valid is cleared on a hit
\* but dirty is not.
WriteThroughKeeps ==   \* mutant of WriteThrough
    /\ Check({"WB"})
    /\ l2_state' = "UNCACHE_STORE"
    /\ UNCHANGED <<l2Arrays, l2_r, l2_prb, l2_wb, l2_reload, rsp, snoop_done>> /\ checkKeeps
WriteThrough ==
    /\ Check({"WB"})
    /\ IF Hit
       THEN /\ l2_valid' = [l2_valid EXCEPT ![Idx] = FALSE]
            /\ l2_pd' = [l2_pd EXCEPT ![Idx] = FALSE]
            /\ UNCHANGED <<l2_dirty, l2_tag, l2_data, l2_pidx>>
       ELSE UNCHANGED l2Arrays
    /\ l2_state' = "UNCACHE_STORE"
    /\ UNCHANGED <<l2_r, l2_prb, l2_wb, l2_reload, rsp, snoop_done>> /\ checkKeeps

\* A fill to the L1D sets the presence bit and its colour.
MarkPresent ==
    IF l2_r.from_d
    THEN /\ l2_pd' = [l2_pd EXCEPT ![Idx] = TRUE]
         /\ l2_pidx' = [l2_pidx EXCEPT ![Idx] = l2_r.colour]
    ELSE UNCHANGED <<l2_pd, l2_pidx>>

ReadHit ==
    /\ Check({"LW"}) /\ Hit /\ ~NeedProbe
    /\ MarkPresent
    /\ IF l2_prb.dirty
       THEN /\ l2_data' = [l2_data EXCEPT ![Idx] = l2_prb.data]
            /\ l2_dirty' = [l2_dirty EXCEPT ![Idx] = TRUE]
       ELSE UNCHANGED <<l2_data, l2_dirty>>
    /\ Answer(IF l2_prb.dirty THEN l2_prb.data ELSE l2_data[Idx], FALSE)
    /\ Done /\ l2_reload' = FALSE
    /\ UNCHANGED <<l2_valid, l2_tag, snoop_done>> /\ checkKeeps

WriteLine ==
    /\ Check({"SW"}) /\ Hit
    /\ l2_pd' = [l2_pd EXCEPT ![Idx] = IF l2_r.from_d THEN FALSE ELSE @]
    /\ l2_dirty' = [l2_dirty EXCEPT ![Idx] = TRUE]
    /\ l2_data' = [l2_data EXCEPT ![Idx] = l2_r.data]
    /\ Done /\ l2_reload' = FALSE
    /\ UNCHANGED <<l2_valid, l2_tag, l2_pidx, snoop_done>> /\ checkKeeps

\* The store was answered when it was accepted.
WriteHitAnswers == WriteLine /\ Answer(v0, FALSE)   \* mutant of WriteHit
WriteHit == WriteLine /\ UNCHANGED rsp

\* Miss: evict a dirty resident line (r_probe_dirty is consumed), else reload.
Evict ==
    /\ Check({"LW", "SW"}) /\ ~Hit /\ ~NeedProbe
    /\ NeedWb \/ l2_prb.dirty
    /\ Writeback("DIRTY_STORE")
    /\ l2_prb' = [l2_prb EXCEPT !.dirty = FALSE]
    /\ UNCHANGED <<l2_r, l2_reload, l2Arrays, rsp, snoop_done>> /\ checkKeeps

StartReload ==
    /\ Check({"LW", "SW"}) /\ ~Hit /\ ~NeedProbe
    /\ ~(NeedWb \/ l2_prb.dirty)
    /\ l2_state' = "CLEAN_RELOAD" /\ l2_reload' = TRUE
    /\ UNCHANGED <<l2_r, l2_prb, l2_wb, l2Arrays, rsp, snoop_done>> /\ checkKeeps

-----------------------------------------------------------------------------
\* The memory side.  Each action is a mem_rsp: DRAM has done the access.
memKeeps == UNCHANGED <<l1Wires, r_req, probe, ack, snoop>>

DirtyStore ==
    /\ l2_state = "DIRTY_STORE"
    /\ dram' = [dram EXCEPT ![l2_wb.line] = l2_wb.data]
    /\ l2_state' = "CLEAN_RELOAD" /\ l2_wb' = NoWb /\ l2_reload' = TRUE
    /\ UNCHANGED <<l2_r, l2_prb, l2Arrays, l2Flush, rsp, snoop_done>> /\ memKeeps

InstallOldTag == l2_valid' = [l2_valid EXCEPT ![Idx] = TRUE] /\ UNCHANGED l2_tag   \* mutant
InstallTag ==
    /\ l2_valid' = [l2_valid EXCEPT ![Idx] = TRUE]
    /\ l2_tag' = [l2_tag EXCEPT ![Idx] = l2_r.line]

CleanReload ==
    /\ l2_state = "CLEAN_RELOAD"
    /\ InstallTag
    /\ l2_dirty' = [l2_dirty EXCEPT ![Idx] = FALSE]
    /\ l2_data' = [l2_data EXCEPT ![Idx] = dram[l2_r.line]]
    /\ l2_pd' = [l2_pd EXCEPT ![Idx] = FALSE]
    /\ l2_state' = "CHECK"
    /\ UNCHANGED <<l2_r, l2_prb, l2_wb, l2_reload, l2_pidx, l2Flush, rsp, snoop_done, dram>> /\ memKeeps

\* Uncached store (under its mask) or MEM_WB (whole line).
UncacheStore ==
    /\ l2_state = "UNCACHE_STORE"
    /\ dram' = IF l2_r.full THEN [dram EXCEPT ![l2_r.line] = l2_r.data] ELSE dram
    /\ Done /\ Answer(v0, FALSE)
    /\ UNCHANGED <<l2_reload, l2Arrays, l2Flush, snoop_done>> /\ memKeeps

UncacheLoad ==
    /\ l2_state = "UNCACHE_LOAD"
    /\ Done /\ Answer(dram[l2_r.line], FALSE)
    /\ UNCHANGED <<l2_reload, l2Arrays, l2Flush, snoop_done, dram>> /\ memKeeps

\* UNCACHE_WB_DRAIN and its turnaround: the writeback is in DRAM; answer the
\* MEM_INVL, complete the snoop, or go on with the uncached access.
WbDrain ==
    /\ l2_state = "UNCACHE_WB_DRAIN"
    /\ dram' = [dram EXCEPT ![l2_wb.line] = l2_wb.data]
    /\ \/ /\ l2_r.op = "INVL" /\ ~l2_r.uncached
          /\ Done /\ Answer(v0, FALSE) /\ UNCHANGED snoop_done
       \/ /\ l2_r.op = "SNOOP"
          /\ Done /\ snoop_done' = TRUE /\ UNCHANGED rsp
       \/ /\ l2_r.uncached
          /\ l2_state' = (IF l2_r.op = "SW" THEN "UNCACHE_STORE" ELSE "UNCACHE_LOAD")
          /\ l2_wb' = NoWb
          /\ UNCHANGED <<l2_r, l2_prb, rsp, snoop_done>>
    /\ UNCHANGED <<l2_reload, l2Arrays, l2Flush>> /\ memKeeps

-----------------------------------------------------------------------------
\* The flush sub-FSM: the L1D's completion starts the walk.
L1DFlushedLost == l2_need_l1d' = FALSE /\ UNCHANGED l2_flush_req   \* mutant of L1DFlushed
L1DFlushed ==
    /\ l2_need_l1d' = FALSE
    /\ l2_flush_req' = (l2_flush_req \/ l2_need_l1d)

\* Next index of the walk, or its end.
WalkOn ==
    IF l2_idx = L2Lines - 1
    THEN /\ l2_state' = "IDLE" /\ l2_idx' = 0
         /\ l2_flush_complete' = TRUE /\ l2_flush_req' = FALSE
    ELSE /\ l2_state' = "FLUSH_TRIAGE" /\ l2_idx' = l2_idx + 1
         /\ UNCHANGED <<l2_flush_complete, l2_flush_req>>

\* FLUSH_WAIT reads and clears a line's bits, FLUSH_TRIAGE writes it back if it
\* was dirty.  The walk does not probe the L1D.
FlushTriage ==
    /\ l2_state = "FLUSH_TRIAGE"
    /\ Drop(l2_idx)
    /\ IF l2_valid[l2_idx] /\ l2_dirty[l2_idx]
       THEN /\ l2_wb' = [line |-> l2_tag[l2_idx], data |-> l2_data[l2_idx]]
            /\ l2_state' = "FLUSH_STORE"
            /\ UNCHANGED <<l2_idx, l2_flush_complete, l2_flush_req>>
       ELSE WalkOn /\ UNCHANGED l2_wb
    /\ UNCHANGED <<l2_r, l2_prb, l2_reload, l2_need_l1d, rsp, snoop_done, dram>> /\ memKeeps

FlushStore ==
    /\ l2_state = "FLUSH_STORE"
    /\ dram' = [dram EXCEPT ![l2_wb.line] = l2_wb.data]
    /\ l2_wb' = NoWb /\ WalkOn
    /\ UNCHANGED <<l2_r, l2_prb, l2_reload, l2Arrays, l2_need_l1d, rsp, snoop_done>> /\ memKeeps
=============================================================================
