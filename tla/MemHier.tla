------------------------------ MODULE MemHier ------------------------------
(***************************************************************************)
(* The memory hierarchy of core_l1d_l1i.sv: L1D, L2 and arbiter composed    *)
(* with the core's flush requests (core.sv CACHE_FLUSH), the L1I as a       *)
(* reader, and the SoC's DMA engine (external) that snoops through the L2   *)
(* or injects page flushes through the core.                                *)
(***************************************************************************)
EXTENDS L1D, L2

CONSTANTS
    CpuOps,     \* the CpuOp kinds this instance issues
    CachedVA,   \* <<line, colour>> pairs the CPU accesses cached
    UncachedVA, \* <<line, colour>> pairs the CPU accesses uncached
    StoreLine,  \* lines the CPU stores to
    ValOf,      \* values a line's tracked byte may be given
    IFetch,     \* <<line, cacheable>> pairs the L1I fetches
    FlushOps,   \* flushes the core runs: subset of {"cl", "all"}
    DmaInvalLine,   \* lines the SoC invalidates in the L1D
    DmaXfers,   \* the transfers devices make: <<"snoop" or "xpg", "in" or "out", line>>
    MaxDma      \* bound on the number of DMA transfers and DMA invalidates

ASSUME UseAssumption ==
    /\ CpuOps \subseteq CpuOp
    /\ CachedVA \subseteq Line \X Colour /\ UncachedVA \subseteq Line \X Colour
    /\ StoreLine \subseteq Line /\ DmaInvalLine \subseteq Line
    /\ ValOf \in [Line -> SUBSET Val] /\ IFetch \subseteq Line \X BOOLEAN
    /\ FlushOps \subseteq {"cl", "all"}
    /\ DmaXfers \subseteq {"snoop", "xpg"} \X {"in", "out"} \X Line
    /\ MaxDma \in Nat

PageSet == {PgLine[k] : k \in 0 .. PgLines - 1}

VARIABLES
    core_op,        \* the flush the core waits for in CACHE_FLUSH
    core_l1d_done,  \* r_l1d_flush_complete
    core_l2_done,   \* r_l2_flush_complete
    dma,            \* the SoC's DMA engine
    dma_cnt,        \* transfers started (bounded by MaxDma)
    latest          \* history: the value last written to each line

coreVars == <<core_op, core_l1d_done, core_l2_done>>
dmaVars  == <<dma, dma_cnt>>
busVars  == <<arbVars, d_mem_req, i_mem_req, rsp, probe, ack, snoop, snoop_done, dram>>
vars     == <<busVars, l1dVars, l2Vars, coreVars, dmaVars, latest>>

DmaPhase == {"idle", "pre", "xfer", "post"}
NoDma == [phase |-> "idle", mode |-> "snoop", dir |-> "out", line |-> anyLine]

Init ==
    /\ InterconnectInit /\ L1DInit /\ L2Init
    /\ core_op = "none" /\ core_l1d_done = FALSE /\ core_l2_done = FALSE
    /\ dma = NoDma /\ dma_cnt = 0
    /\ latest = dram

TypeOK ==
    /\ InterconnectTypeOK /\ L1DTypeOK /\ L2TypeOK
    /\ core_op \in FlushReq /\ core_l1d_done \in BOOLEAN /\ core_l2_done \in BOOLEAN
    /\ dma \in [phase : DmaPhase, mode : {"snoop", "xpg"}, dir : {"in", "out"}, line : Line]
    /\ dma_cnt \in 0 .. MaxDma
    /\ latest \in [Line -> Val]

\* The lines the current transfer owns.
InDma(l) == /\ dma.phase # "idle"
            /\ IF dma.mode = "xpg" THEN l \in PageSet ELSE l = dma.line

-----------------------------------------------------------------------------
\* The CPU.  Software does not write a buffer while a device owns it, nor run
\* Hit-Invalidate on it.
Legal(q) ==
    /\ q.op \in CpuOps
    /\ q.op \in {"load", "store", "CHWB", "CHINV"} => <<q.line, q.colour>> \in CachedVA
    /\ q.op \in {"uload", "ustore"} => <<q.line, q.colour>> \in UncachedVA
    /\ q.op \in {"store", "ustore", "CHINV"} => q.line \in StoreLine /\ ~InDma(q.line)
    /\ IF q.op \in {"store", "ustore"} THEN q.val \in ValOf[q.line] ELSE q.val = v0
    /\ q.op # "ustore" => q.full

CpuAccept ==
    /\ core_op = "none"
    /\ \E q \in [op : CpuOps, line : Line, colour : Colour, val : Val, full : BOOLEAN] :
          Legal(q) /\ Accept(q)
    /\ UNCHANGED <<l2Vars, coreVars, dmaVars, latest>>

l1dOnly == UNCHANGED <<l2Vars, coreVars, dmaVars>>

CpuStore == StoreHit /\ l1dOnly /\ latest' = [latest EXCEPT ![d_req.line] = d_req.val]

\* The value below an L1D copy that is discarded without writeback.
Below(l) == LET i == L2Of[l]
            IN  IF l2_valid[i] /\ l2_tag[i] = l THEN l2_data[i] ELSE dram[l]

DropsDirty(s, l) == HitAt(s, l) /\ d_dirty[s]
Discard(s, l) == latest' = IF DropsDirty(s, l) THEN [latest EXCEPT ![l] = Below(l)] ELSE latest

CpuChopInvalidate == ChopInvalidate /\ l1dOnly /\ Discard(ReqSet, d_req.line)

CpuFlushCl ==
    /\ CoreFlushCl /\ l1dOnly
    /\ IF d_cl.inval THEN Discard(SetOf[d_cl.line][PaColour[d_cl.line]], d_cl.line)
                     ELSE UNCHANGED latest

SocDmaInval ==
    /\ DmaInval /\ l1dOnly
    /\ Discard(SetOf[d_dma_inval.line][PaColour[d_dma_inval.line]], d_dma_inval.line)

L1DStep ==
    /\ \/ LoadHit \/ VictimWriteback \/ Miss \/ ChopWriteback
       \/ UncachedAliasClean \/ UncachedAliasDirty \/ UncachedIssue
       \/ Reload \/ UncachedDone \/ UncacheWb \/ FlushClWait
       \/ FlushPgStart \/ FlushPg \/ FlushPgWait
       \/ FlushCacheStart \/ FlushCache \/ FlushCacheWait
       \/ ProbeTake \/ ProbeChk
    /\ l1dOnly /\ UNCHANGED latest

L2Step ==
    /\ \/ AcceptFlush \/ AcceptSnoop \/ AcceptReq
       \/ ProbeIssue \/ ProbeAnswered
       \/ UncachedPurge \/ Invl \/ PgDrop \/ SnoopWbinv \/ SnoopDrop \/ WriteThrough
       \/ ReadHit \/ WriteHit \/ Evict \/ StartReload
       \/ DirtyStore \/ CleanReload \/ UncacheLoad \/ WbDrain
       \/ FlushTriage \/ FlushStore
    /\ UNCHANGED <<l1dVars, coreVars, dmaVars, latest>>

L2Store ==
    /\ UncacheStore
    /\ latest' = IF l2_r.uncached /\ l2_r.full
                 THEN [latest EXCEPT ![l2_r.line] = l2_r.data] ELSE latest
    /\ UNCHANGED <<l1dVars, coreVars, dmaVars>>

Arbiter == ArbGrant /\ UNCHANGED <<l1dVars, l2Vars, coreVars, dmaVars, latest>>

-----------------------------------------------------------------------------
\* The L1I: one outstanding line fetch, cached or not (l1i.sv INJECT_RELOAD).
FetchMiss ==
    /\ ~i_mem_req.valid
    /\ \E f \in IFetch : i_mem_req' = [valid |-> TRUE, line |-> f[1], cacheable |-> f[2]]
    /\ r_l1i_req' = TRUE
    /\ UNCHANGED <<arb_state, r_l1d_req, r_last_gnt, r_req, d_mem_req, rsp, probe, ack, snoop,
                   snoop_done, dram, l1dVars, l2Vars, coreVars, dmaVars, latest>>

FetchReload ==
    /\ RspToL1I /\ TakeRsp
    /\ i_mem_req' = NoIMemReq
    /\ UNCHANGED <<r_l1d_req, d_mem_req, probe, ack, snoop, snoop_done, dram,
                   l1dVars, l2Vars, coreVars, dmaVars, latest>>

-----------------------------------------------------------------------------
\* The core's serializing flushes.  They leave the ROB head with every older
\* access done, and the core issues nothing until both completes are latched.
\* The completes of caches an op does not touch are faked (n_*_flush_complete).
CoreIdle == core_op = "none" /\ d_req.op = "none"

StartFlush(o, l, inval) ==
    /\ core_op' = o /\ d_flush_req' = o
    /\ d_cl' = [line |-> l, inval |-> inval]
    /\ core_l2_done' = (core_l2_done \/ o # "all")
    /\ l2_need_l1d' = (l2_need_l1d \/ o = "all")
    /\ UNCHANGED <<core_l1d_done, d_state, d_prb_ret, d_got_req, d_req, dArrays, d_cache_idx,
                   d_pg_off, d_dma_inval, d_cl_is_dma, d_pg_dirty_cnt, d_flush_complete,
                   l2_state, l2_r, l2_prb, l2_wb, l2_reload, l2Arrays, l2_idx, l2_flush_req,
                   l2_flush_complete, busVars, latest>>

CoreFlush ==
    /\ CoreIdle /\ UNCHANGED dmaVars
    /\ \/ /\ "cl" \in FlushOps
          /\ \E l \in Line, b \in BOOLEAN :
                /\ b => l \in StoreLine /\ ~InDma(l)
                /\ StartFlush("cl", l, b)
       \/ "all" \in FlushOps /\ StartFlush("all", anyLine, FALSE)

\* The L1D's completion pulse reaches the core's latch and the L2's sub-FSM.
L1DFlushPulse ==
    /\ d_flush_complete /\ d_flush_complete' = FALSE
    /\ core_l1d_done' = TRUE /\ L1DFlushed
    /\ UNCHANGED <<core_op, core_l2_done, d_state, d_prb_ret, d_got_req, d_req, dArrays,
                   d_cache_idx, d_pg_off, d_flush_req, d_cl, d_dma_inval, d_cl_is_dma,
                   d_pg_dirty_cnt, l2_state, l2_r, l2_prb, l2_wb, l2_reload, l2Arrays, l2_idx,
                   l2_flush_complete, busVars, dmaVars, latest>>

L2FlushPulse ==
    /\ l2_flush_complete /\ l2_flush_complete' = FALSE
    /\ core_l2_done' = TRUE
    /\ UNCHANGED <<core_op, core_l1d_done, l1dVars, l2_state, l2_r, l2_prb, l2_wb, l2_reload,
                   l2Arrays, l2_idx, l2_need_l1d, l2_flush_req, busVars, dmaVars, latest>>

FlushDone == core_op # "none" /\ core_l1d_done /\ core_l2_done

\* ext_flush_done moves a page-flush DMA transfer on.
CoreFlushEnd ==
    /\ FlushDone
    /\ core_op' = "none" /\ core_l1d_done' = FALSE /\ core_l2_done' = FALSE
    /\ dma' = IF core_op = "pg"
              THEN IF dma.phase = "pre" THEN [dma EXCEPT !.phase = "xfer"] ELSE NoDma
              ELSE dma
    /\ UNCHANGED <<dma_cnt, l1dVars, l2Vars, busVars, latest>>

-----------------------------------------------------------------------------
\* The SoC (external): WBINV before the transfer, a drop after a DMA-in, each
\* by L2 snoop or by an injected page flush.
StoreInFlight(l) == d_req.op \in {"store", "ustore"} /\ d_req.line = l

DmaBegin ==
    /\ dma.phase = "idle" /\ dma_cnt < MaxDma
    /\ dma_cnt' = dma_cnt + 1
    /\ \E x \in DmaXfers :
          /\ dma' = [phase |-> "pre", mode |-> x[1], dir |-> x[2], line |-> x[3]]
          /\ \/ /\ x[1] = "snoop" /\ ~StoreInFlight(x[3])
                /\ snoop' = [valid |-> TRUE, line |-> x[3], wbinv |-> TRUE]
                /\ UNCHANGED <<arbVars, d_mem_req, i_mem_req, rsp, probe, ack, snoop_done, dram,
                               l1dVars, l2Vars, coreVars, latest>>
             \/ /\ x[1] = "xpg" /\ x[3] \in PageSet /\ CoreIdle
                /\ StartFlush("pg", x[3], FALSE)

SnoopEnd ==
    /\ snoop_done /\ snoop_done' = FALSE
    /\ dma' = IF dma.phase = "pre" THEN [dma EXCEPT !.phase = "xfer"] ELSE NoDma
    /\ UNCHANGED <<dma_cnt, arbVars, d_mem_req, i_mem_req, rsp, probe, ack, snoop, dram,
                   l1dVars, l2Vars, coreVars, latest>>

DeviceRead ==
    /\ dma.phase = "xfer" /\ dma.dir = "out"
    /\ dma' = NoDma
    /\ UNCHANGED <<dma_cnt, busVars, l1dVars, l2Vars, coreVars, latest>>

DeviceWrite ==
    /\ dma.phase = "xfer" /\ dma.dir = "in"
    /\ \E v \in ValOf[dma.line] :
          /\ dram' = [dram EXCEPT ![dma.line] = v]
          /\ latest' = [latest EXCEPT ![dma.line] = v]
    /\ dma' = [dma EXCEPT !.phase = "post"]
    /\ snoop' = IF dma.mode = "snoop"
                THEN [valid |-> TRUE, line |-> dma.line, wbinv |-> FALSE] ELSE snoop
    /\ UNCHANGED <<dma_cnt, arbVars, d_mem_req, i_mem_req, rsp, probe, ack, snoop_done,
                   l1dVars, l2Vars, coreVars>>

\* The page-drop of an "xpg" DMA-in is injected when the core can take it.
DmaPageDrop ==
    /\ dma.phase = "post" /\ dma.mode = "xpg" /\ CoreIdle
    /\ StartFlush("pg", dma.line, TRUE)
    /\ UNCHANGED dmaVars

\* dma_inval_req: a one-line L1D invalidate.
DmaInvalReq ==
    /\ ~d_dma_inval.valid /\ ~d_cl_is_dma /\ dma_cnt < MaxDma
    /\ dma_cnt' = dma_cnt + 1
    /\ \E l \in DmaInvalLine :
          ~StoreInFlight(l) /\ d_dma_inval' = [valid |-> TRUE, line |-> l]
    /\ UNCHANGED <<dma, d_state, d_prb_ret, d_got_req, d_req, dArrays, d_cache_idx, d_pg_off,
                   d_flush_req, d_cl, d_cl_is_dma, d_pg_dirty_cnt, d_flush_complete,
                   l2Vars, coreVars, busVars, latest>>

-----------------------------------------------------------------------------
Next ==
    \/ CpuAccept \/ CpuStore \/ CpuChopInvalidate \/ CpuFlushCl \/ SocDmaInval
    \/ L1DStep \/ L2Step \/ L2Store \/ Arbiter
    \/ FetchMiss \/ FetchReload
    \/ CoreFlush \/ L1DFlushPulse \/ L2FlushPulse \/ CoreFlushEnd
    \/ DmaBegin \/ SnoopEnd \/ DeviceRead \/ DeviceWrite \/ DmaPageDrop \/ DmaInvalReq

Spec == Init /\ [][Next]_vars

\* Fairness: every block is clocked, so the step it is ready for is taken; DRAM
\* and devices answer (external).  An L2 in IDLE takes the request or snoop it
\* sees in that very cycle, before the core can start another flush: strong
\* fairness of the two accepts.  Nothing makes the CPU, the L1I or a device
\* start anything new.  A DMA invalidate is excluded: the L1D prefers new
\* requests to it, so a steady stream may hold it off.
Accepts(A) == A /\ UNCHANGED <<l1dVars, coreVars, dmaVars, latest>>

Fairness ==
    /\ SF_vars(Accepts(AcceptReq)) /\ SF_vars(Accepts(AcceptSnoop))
    /\ WF_vars(L1DStep) /\ WF_vars(CpuStore) /\ WF_vars(CpuChopInvalidate) /\ WF_vars(CpuFlushCl)
    /\ WF_vars(L2Step) /\ WF_vars(L2Store) /\ WF_vars(Arbiter) /\ WF_vars(FetchReload)
    /\ WF_vars(L1DFlushPulse) /\ WF_vars(L2FlushPulse) /\ WF_vars(CoreFlushEnd)
    /\ WF_vars(SnoopEnd) /\ WF_vars(DeviceRead) /\ WF_vars(DeviceWrite)
    /\ WF_vars(DmaPageDrop)

FairSpec == Spec /\ Fairness

-----------------------------------------------------------------------------
(* Properties                                                              *)

\* Inclusion with presence (the PRESCHK checker, l2.sv pd/pidx): every line the
\* L1D holds is valid in the L2, marked present, at the colour of its set.
Presence ==
    \A s \in DSet : d_valid[s] =>
        LET i == L2Of[d_tag[s]]
        IN  /\ l2_valid[i] /\ l2_tag[i] = d_tag[s]
            /\ l2_pd[i] /\ l2_pidx[i] = ColourOf[s]

\* At most one L1D copy of a physical line, whatever colours it is mapped at.
NoSynonym ==
    \A s, t \in DSet : d_valid[s] /\ d_valid[t] /\ d_tag[s] = d_tag[t] => s = t

\* Where the newest value of a line is, searched from the L1D down to DRAM: the
\* L1D array, a writeback in the L1D's request registers, the one the L2 is
\* serving, a probe answer on the wire, a line on its way to DRAM, the L2 array
\* (dead once its eviction is decided), DRAM.
Carried(l) == d_mem_req.line = l /\ d_mem_req.op \in {"SW", "WB"} /\ d_mem_req.cacheable
Served(l)  == l2_r.line = l /\ l2_r.op \in {"SW", "WB"} /\ ~l2_r.uncached
Leaving(l) == l2_wb.line = l /\ l2_state \in {"DIRTY_STORE", "UNCACHE_WB_DRAIN", "FLUSH_STORE"}
InL2(l)    == /\ l2_valid[L2Of[l]] /\ l2_tag[L2Of[l]] = l
              /\ ~(l2_state \in {"DIRTY_STORE", "CLEAN_RELOAD"} /\ L2Of[l] = Idx)

Newest(l) ==
    LET own == {s \in DSet : HitAt(s, l)}
    IN  IF own # {} THEN d_data[CHOOSE s \in own : TRUE]
        ELSE IF Carried(l) THEN d_mem_req.data
        ELSE IF Served(l) THEN l2_r.data
        ELSE IF ack.valid /\ ack.dirty /\ probe.line = l THEN ack.data
        ELSE IF Leaving(l) THEN l2_wb.data
        ELSE IF ~InL2(l) THEN dram[l]
        ELSE IF l2_prb.dirty /\ L2Of[l] = Idx THEN l2_prb.data
        ELSE l2_data[L2Of[l]]

\* No write is ever lost and no stale copy is ever in front of it: the newest
\* copy of every line no device owns holds the value last written, and a
\* response to an uncached load carries it.
Coherent ==
    /\ \A l \in Line : ~InDma(l) => Newest(l) = latest[l]
    /\ RspToL1D /\ d_state = "INJECT_UNCACHE_LOAD" /\ ~InDma(d_mem_req.line)
          => rsp.data = latest[d_mem_req.line]

\* Once nothing is in flight, no device and no request, the copies agree with the
\* last write: the lasting form of Coherent.
Quiet == /\ l2_state = "IDLE" /\ d_state = "ACTIVE" /\ ~d_got_req
         /\ ~rsp.valid /\ ~i_mem_req.valid /\ ~snoop.valid /\ dma.phase = "idle"
SettledCoherent == Quiet => \A l \in Line : Newest(l) = latest[l]

\* A response pulse always finds the L1 that waits for it: never an L1D in
\* PROBE_CHK or ACTIVE, where it would be lost.
ResponseTaken ==
    /\ RspToL1D => d_state \in WaitState /\ d_mem_req.op # "none"
    /\ RspToL1I => i_mem_req.valid
    /\ rsp.valid => arb_state # "IDLE"

\* The L2 never fetches a line twice for one request (the $stop on r_reload).
ReloadOnce == Check({"LW", "SW"}) /\ ~Hit /\ ~NeedProbe => ~l2_reload

\* A DMA-out reads what the CPU last wrote.
DmaOutFresh ==
    dma.phase = "xfer" /\ dma.dir = "out" => dram[dma.line] = latest[dma.line]

\* XPG_INV never meets dirty data: "dirty here is a bug" (l2.sv MEM_PGDROP).
PageDropClean == d_pg_dirty_cnt = 0

\* Every access the core issues is completed, whatever probes and evictions the
\* other requesters cause while it waits.
AccessCompletes == d_got_req ~> d_req.op = "none"

\* The L1I is not starved by the L1D at the arbiter, nor by snoops at the L2.
FetchCompletes == i_mem_req.valid ~> ~i_mem_req.valid

\* The L2 never waits for ever on a probe: the L1D answers it in any state
\* (R2), and a snoop therefore completes.
SnoopCompletes == dma.mode = "snoop" /\ dma.phase \in {"pre", "post"} ~> dma.phase \notin {"pre", "post"}

\* A flush the core waits for in CACHE_FLUSH ends.
FlushEnds == core_op # "none" ~> core_op = "none"

\* When a whole-cache flush is reported done, the L1D is empty and every write
\* is in DRAM.
FlushComplete ==
    core_op = "all" /\ FlushDone =>
        /\ \A s \in DSet : ~d_valid[s]
        /\ \A l \in Line : ~InDma(l) => dram[l] = latest[l]
=============================================================================
