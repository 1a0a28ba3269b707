-------------------------------- MODULE L1D --------------------------------
(***************************************************************************)
(* The L1 data cache (l1d.sv): direct mapped, write back, indexed by the    *)
(* VIRTUAL address (colour + in-page bits) and tagged with the physical     *)
(* line.  Modelled: the line state, the port-1 operation, the FSM that      *)
(* waits on the L2, the flush engines and the probe handler.  The issue     *)
(* side (port 2, miss queue, store buffer) is abstracted to "some legal     *)
(* operation reaches port 1" (Accept).                                      *)
(***************************************************************************)
EXTENDS Interconnect

CONSTANTS
    PgLines,    \* lines in a page (XPG walk)
    PgLine      \* the page's lines, in walk order

ASSUME PageAssumption == PgLines \in Nat \ {0} /\ PgLine \in [0 .. PgLines - 1 -> Line]

CpuOp == {"load", "store", "CHWB", "CHINV", "uload", "ustore"}

\* r_req: the operation in port 1.  full: the store covers the tracked byte.
CpuReq == [op : CpuOp \cup {"none"}, line : Line, colour : Colour,
           val : Val, full : BOOLEAN]
NoReq  == [op |-> "none", line |-> anyLine, colour |-> anyColour,
           val |-> v0, full |-> FALSE]

\* States in which the L1D does nothing but wait for the L2's response.
WaitState == {"INJECT_RELOAD", "INJECT_UNCACHE_STORE", "INJECT_UNCACHE_LOAD",
              "UNCACHE_WB", "FLUSH_CL_WAIT", "FLUSH_PG_WAIT",
              "FLUSH_CACHE_WAIT", "FLUSH_CACHE_LAST_WAIT"}

FlushReq == {"none", "cl", "pg", "all"}

VARIABLES
    d_state,        \* r_state
    d_prb_ret,      \* r_prb_ret: state to return to after PROBE_CHK
    d_got_req,      \* r_got_req: port 1 holds an operation
    d_req,          \* r_req
    d_valid, d_dirty, d_tag, d_data,    \* the arrays, by set
    d_cache_idx,    \* r_cache_idx of the whole-cache walk
    d_pg_off,       \* r_pg_off
    d_flush_req,    \* r_flush_req / r_flush_cl_req / r_flush_pg_req
    d_cl,           \* flush_cl_addr and flush_cl_inval
    d_dma_inval,    \* r_dma_inval_req and dma_inval_addr
    d_cl_is_dma,    \* r_cl_is_dma
    d_pg_dirty_cnt, \* r_pg_dirty_cnt, saturating at PgDirtyMax
    d_flush_complete \* flush_complete pulse to the core and the L2

dArrays == <<d_valid, d_dirty, d_tag, d_data>>
dFlush  == <<d_cache_idx, d_pg_off, d_flush_req, d_cl, d_dma_inval,
             d_cl_is_dma, d_pg_dirty_cnt, d_flush_complete>>
l1dVars == <<d_state, d_prb_ret, d_got_req, d_req, dArrays, dFlush>>

\* 16'hffff in the code: the counter saturates, and only zero/non-zero matters.
PgDirtyMax == 2

\* Registers whose content is dead between two uses are reset after each use.
NoCl       == [line |-> anyLine, inval |-> FALSE]
NoDmaInval == [valid |-> FALSE, line |-> anyLine]

L1DInit ==
    /\ d_state = "ACTIVE" /\ d_prb_ret = "ACTIVE"
    /\ d_got_req = FALSE /\ d_req = NoReq
    /\ d_valid = [s \in DSet |-> FALSE] /\ d_dirty = [s \in DSet |-> FALSE]
    /\ d_tag = [s \in DSet |-> anyLine] /\ d_data = [s \in DSet |-> v0]
    /\ d_cache_idx = 0 /\ d_pg_off = 0 /\ d_flush_req = "none"
    /\ d_cl = NoCl /\ d_dma_inval = NoDmaInval
    /\ d_cl_is_dma = FALSE /\ d_pg_dirty_cnt = 0 /\ d_flush_complete = FALSE

L1DTypeOK ==
    /\ d_state \in WaitState \cup {"ACTIVE", "PROBE_CHK", "FLUSH_PG", "FLUSH_CACHE"}
    /\ d_prb_ret \in WaitState \cup {"ACTIVE"}
    /\ d_got_req \in BOOLEAN /\ d_req \in CpuReq
    /\ d_valid \in [DSet -> BOOLEAN] /\ d_dirty \in [DSet -> BOOLEAN]
    /\ d_tag \in [DSet -> Line] /\ d_data \in [DSet -> Val]
    /\ d_cache_idx \in DSet /\ d_pg_off \in 0 .. PgLines - 1
    /\ d_flush_req \in FlushReq
    /\ d_cl \in [line : Line, inval : BOOLEAN]
    /\ d_dma_inval \in [valid : BOOLEAN, line : Line]
    /\ d_cl_is_dma \in BOOLEAN
    /\ d_pg_dirty_cnt \in 0 .. PgDirtyMax /\ d_flush_complete \in BOOLEAN

-----------------------------------------------------------------------------
\* Interconnect wires an L1D action leaves alone.
otherWires == <<i_mem_req, probe, snoop, snoop_done, dram>>
quietBus   == UNCHANGED <<arbVars, d_mem_req, rsp, ack, otherWires>>

HitAt(s, l) == d_valid[s] /\ d_tag[s] = l

\* t_mark_invalid: both state bits of the set are cleared, tag and data stay.
Invalidate(s) ==
    /\ d_valid' = [d_valid EXCEPT ![s] = FALSE]
    /\ d_dirty' = [d_dirty EXCEPT ![s] = FALSE]
    /\ UNCHANGED <<d_tag, d_data>>

InvalidateIf(b, s) == IF b THEN Invalidate(s) ELSE UNCHANGED dArrays

\* n_mem_req_valid: load the request registers, pulse the arbiter's latch, and
\* wait in state w.
Request(o, l, c, v, cached, f, w) ==
    /\ d_mem_req' = [op |-> o, line |-> l, colour |-> c, data |-> v,
                     cacheable |-> cached, full |-> f]
    /\ r_l1d_req' = TRUE
    /\ d_state' = w
    /\ d_got_req' = FALSE
    /\ UNCHANGED <<arb_state, r_l1i_req, r_last_gnt, r_req, rsp, ack, otherWires, d_prb_ret>>

\* The response that ends a wait.
Respond == RspToL1D /\ TakeRsp /\ d_mem_req' = NoMemReq
           /\ UNCHANGED <<r_l1d_req, ack, otherWires, d_prb_ret>>

Finish == d_got_req' = FALSE /\ d_req' = NoReq

\* The operation goes back to port 1 (UNCACHE_WB, HANDLE_RELOAD).
RerunLost == d_got_req' = FALSE /\ UNCHANGED d_req   \* mutant of Rerun
Rerun == d_got_req' = TRUE /\ UNCHANGED d_req

\* t_prb_pend: a probe not answered yet holds off all new work.
ProbePending == probe.req /\ ~ack.valid

-----------------------------------------------------------------------------
\* An operation reaches port 1 (miss-queue pop, or a port-2 op that does not
\* finish at port 2).
Accept(q) ==
    /\ d_state = "ACTIVE" /\ ~d_got_req /\ ~ProbePending
    /\ d_got_req' = TRUE /\ d_req' = q
    /\ UNCHANGED <<d_state, d_prb_ret, dArrays, dFlush>> /\ quietBus

Port1(ops) == d_state = "ACTIVE" /\ d_got_req /\ d_req.op \in ops
ReqSet == SetOf[d_req.line][d_req.colour]
ReqHit == HitAt(ReqSet, d_req.line)

LoadHit ==
    /\ Port1({"load"}) /\ ReqHit
    /\ Finish
    /\ UNCHANGED <<d_state, d_prb_ret, dArrays, dFlush>> /\ quietBus

StoreHit ==
    /\ Port1({"store"}) /\ ReqHit
    /\ d_data' = [d_data EXCEPT ![ReqSet] = d_req.val]
    /\ d_dirty' = [d_dirty EXCEPT ![ReqSet] = TRUE]
    /\ Finish
    /\ UNCHANGED <<d_state, d_prb_ret, d_valid, d_tag, dFlush>> /\ quietBus

\* Dirty victim of another line: write it back first.  The set stays valid and
\* dirty (r_inhibit_write) until the response.
VictimWriteback ==
    /\ Port1({"load", "store"}) /\ ~ReqHit
    /\ d_valid[ReqSet] /\ d_dirty[ReqSet]
    /\ Request("SW", d_tag[ReqSet], d_req.colour, d_data[ReqSet], TRUE, TRUE, "INJECT_RELOAD")
    /\ UNCHANGED <<d_req, dArrays, dFlush>>

\* Invalid or clean victim: fetch the line (also the port-2 direct fill).
Miss ==
    /\ Port1({"load", "store"}) /\ ~ReqHit
    /\ ~(d_valid[ReqSet] /\ d_dirty[ReqSet])
    /\ Request("LW", d_req.line, d_req.colour, v0, TRUE, TRUE, "INJECT_RELOAD")
    /\ UNCHANGED <<d_req, dArrays, dFlush>>

\* CACHE hit op on a dirty hit, except Hit-Invalidate: write through to DRAM.
ChopWriteback ==
    /\ Port1({"CHWB"}) /\ ReqHit /\ d_dirty[ReqSet]
    /\ Invalidate(ReqSet)
    /\ Request("WB", d_tag[ReqSet], d_req.colour, d_data[ReqSet], TRUE, TRUE, "FLUSH_CL_WAIT")
    /\ UNCHANGED <<d_req, dFlush>>

\* Every other case: drop the copy this set holds and have the L2 drop its own.
ChopInvalidate ==
    /\ Port1({"CHWB", "CHINV"})
    /\ ~(d_req.op = "CHWB" /\ ReqHit /\ d_dirty[ReqSet])
    /\ InvalidateIf(ReqHit, ReqSet)
    /\ Request("INVL", d_req.line, d_req.colour, v0, TRUE, TRUE, "FLUSH_CL_WAIT")
    /\ UNCHANGED <<d_req, dFlush>>

\* An uncached access hits a resident line: drop it (writing it back first when
\* dirty) and run the access again.
UncachedAliasClean ==
    /\ Port1({"uload", "ustore"}) /\ ReqHit /\ ~d_dirty[ReqSet]
    /\ Invalidate(ReqSet)
    /\ UNCHANGED <<d_state, d_prb_ret, d_got_req, d_req, dFlush>> /\ quietBus

UncachedAliasDirty ==
    /\ Port1({"uload", "ustore"}) /\ ReqHit /\ d_dirty[ReqSet]
    /\ Invalidate(ReqSet)
    /\ Request("SW", d_tag[ReqSet], d_req.colour, d_data[ReqSet], TRUE, TRUE, "UNCACHE_WB")
    /\ UNCHANGED <<d_req, dFlush>>

\* The uncached request itself.  A store's bus data is t_array_data: the store
\* merged into whatever the indexed set's data RAM holds.
SendUncached ==
    /\ IF d_req.op = "ustore"
       THEN Request("SW", d_req.line, d_req.colour,
                    IF d_req.full THEN d_req.val ELSE d_data[ReqSet],
                    FALSE, d_req.full, "INJECT_UNCACHE_STORE")
       ELSE Request("LW", d_req.line, d_req.colour, v0, FALSE, TRUE, "INJECT_UNCACHE_LOAD")
    /\ UNCHANGED <<d_req, dArrays, dFlush>>

UncachedIssueBlind == Port1({"uload", "ustore"}) /\ SendUncached   \* mutant of UncachedIssue
UncachedIssue == Port1({"uload", "ustore"}) /\ ~ReqHit /\ SendUncached

-----------------------------------------------------------------------------
\* INJECT_RELOAD: the response writes the indexed set.  Valid is
\* !r_inhibit_write: a fill installs the line, a victim writeback leaves the
\* set invalid.  A load's own fill answers it (w_fill_bypass); anything else
\* goes through HANDLE_RELOAD and runs again.
Reload ==
    /\ d_state = "INJECT_RELOAD" /\ Respond
    /\ LET s == SetOf[d_mem_req.line][d_mem_req.colour]
       IN  /\ d_valid' = [d_valid EXCEPT ![s] = (d_mem_req.op = "LW")]
           /\ d_dirty' = [d_dirty EXCEPT ![s] = FALSE]
           /\ d_tag' = [d_tag EXCEPT ![s] = d_mem_req.line]
           /\ d_data' = [d_data EXCEPT ![s] = rsp.data]
    /\ d_state' = "ACTIVE"
    /\ IF d_mem_req.op = "LW" /\ d_req.op = "load"
       THEN Finish ELSE Rerun
    /\ UNCHANGED dFlush

UncachedDone ==
    /\ d_state \in {"INJECT_UNCACHE_STORE", "INJECT_UNCACHE_LOAD"} /\ Respond
    /\ d_state' = "ACTIVE" /\ Finish
    /\ UNCHANGED <<dArrays, dFlush>>

UncacheWb ==
    /\ d_state = "UNCACHE_WB" /\ Respond
    /\ d_state' = "ACTIVE" /\ Rerun
    /\ UNCHANGED <<dArrays, dFlush>>

\* FLUSH_CL_WAIT ends a CACHE hit op (answered), the core's line flush
\* (flush_complete) or the SoC's DMA invalidate (acknowledged).
FlushClWait ==
    /\ d_state = "FLUSH_CL_WAIT" /\ Respond
    /\ d_state' = "ACTIVE" /\ Finish
    /\ d_cl_is_dma' = FALSE
    /\ d_flush_complete' = (d_flush_complete \/ (~d_cl_is_dma /\ d_req.op = "none"))
    /\ UNCHANGED <<dArrays, d_cache_idx, d_pg_off, d_flush_req, d_cl, d_dma_inval, d_pg_dirty_cnt>>

-----------------------------------------------------------------------------
\* Flushes start only from a drained L1D with no probe waiting.
Drained == d_state = "ACTIVE" /\ ~d_got_req /\ ~ProbePending

\* FLUSH_CL on line l: the set is found with the physical address's colour.
FlushCl(l, inval) ==
    LET s == SetOf[l][PaColour[l]]
    IN  \/ /\ inval
           /\ InvalidateIf(HitAt(s, l), s)
           /\ Request("INVL", l, PaColour[l], v0, TRUE, TRUE, "FLUSH_CL_WAIT")
           /\ UNCHANGED <<d_req, d_flush_complete>>
        \/ /\ ~inval /\ d_dirty[s]
           /\ Invalidate(s)
           /\ Request("WB", d_tag[s], ColourOf[s], d_data[s], TRUE, TRUE, "FLUSH_CL_WAIT")
           /\ UNCHANGED <<d_req, d_flush_complete>>
        \/ /\ ~inval /\ ~d_dirty[s]
           /\ Invalidate(s)
           /\ d_flush_complete' = TRUE
           /\ UNCHANGED <<d_state, d_prb_ret, d_got_req, d_req>> /\ quietBus

CoreFlushCl ==
    /\ Drained /\ d_flush_req = "cl"
    /\ FlushCl(d_cl.line, d_cl.inval)
    /\ d_flush_req' = "none" /\ d_cl' = NoCl /\ d_cl_is_dma' = FALSE
    /\ UNCHANGED <<d_cache_idx, d_pg_off, d_dma_inval, d_pg_dirty_cnt>>

DmaInval ==
    /\ Drained /\ d_flush_req = "none" /\ d_dma_inval.valid
    /\ FlushCl(d_dma_inval.line, TRUE)
    /\ d_dma_inval' = NoDmaInval /\ d_cl_is_dma' = TRUE
    /\ UNCHANGED <<d_cache_idx, d_pg_off, d_flush_req, d_cl, d_pg_dirty_cnt>>

FlushPgStart ==
    /\ Drained /\ d_flush_req = "pg"
    /\ d_state' = "FLUSH_PG" /\ d_pg_off' = 0 /\ d_flush_req' = "none"
    /\ UNCHANGED <<d_prb_ret, d_got_req, d_req, dArrays, d_cache_idx, d_cl, d_dma_inval,
                   d_cl_is_dma, d_pg_dirty_cnt, d_flush_complete>>
    /\ quietBus

Saturate(n) == IF n < PgDirtyMax THEN n + 1 ELSE n

\* A writeback walk (XPG_WBINV) meets a dirty L1D copy.
PgWb(s, l) == ~d_cl.inval /\ HitAt(s, l) /\ d_dirty[s]

\* FLUSH_PG: one line of the page; drop the L1D copy at the PA's set and carry
\* the line to the L2.
FlushPg ==
    LET l == PgLine[d_pg_off]
        c == PaColour[l]
        s == SetOf[l][c]
    IN  /\ d_state = "FLUSH_PG"
        /\ InvalidateIf(HitAt(s, l), s)
        /\ IF PgWb(s, l)
           THEN Request("WB", l, c, d_data[s], TRUE, TRUE, "FLUSH_PG_WAIT")
           ELSE Request(IF d_cl.inval THEN "PGDROP" ELSE "INVL", l, c, v0, TRUE, TRUE, "FLUSH_PG_WAIT")
        /\ d_pg_dirty_cnt' = IF d_cl.inval /\ HitAt(s, l) /\ d_dirty[s]
                             THEN Saturate(d_pg_dirty_cnt) ELSE d_pg_dirty_cnt
        /\ UNCHANGED <<d_req, d_cache_idx, d_pg_off, d_flush_req, d_cl, d_dma_inval,
                       d_cl_is_dma, d_flush_complete>>

FlushPgWait ==
    /\ d_state = "FLUSH_PG_WAIT" /\ Respond
    /\ d_pg_dirty_cnt' = IF d_cl.inval /\ rsp.dirty
                         THEN Saturate(d_pg_dirty_cnt) ELSE d_pg_dirty_cnt
    /\ IF d_pg_off = PgLines - 1
       THEN /\ d_state' = "ACTIVE" /\ d_flush_complete' = TRUE
            /\ d_pg_off' = 0 /\ d_cl' = NoCl
       ELSE /\ d_state' = "FLUSH_PG" /\ d_pg_off' = d_pg_off + 1
            /\ UNCHANGED <<d_flush_complete, d_cl>>
    /\ UNCHANGED <<d_got_req, d_req, dArrays, d_cache_idx, d_flush_req, d_dma_inval, d_cl_is_dma>>

FlushCacheStart ==
    /\ Drained /\ d_flush_req = "all"
    /\ d_state' = "FLUSH_CACHE" /\ d_cache_idx' = 0 /\ d_flush_req' = "none"
    /\ UNCHANGED <<d_prb_ret, d_got_req, d_req, dArrays, d_pg_off, d_cl, d_dma_inval,
                   d_cl_is_dma, d_pg_dirty_cnt, d_flush_complete>>
    /\ quietBus

LastSetShort == d_cache_idx + 1 >= NSets - 1   \* mutant of LastSet
LastSet == d_cache_idx = NSets - 1

\* FLUSH_CACHE: invalidate set d_cache_idx, writing a dirty line back, and step
\* the index.
FlushCache ==
    LET s == d_cache_idx
    IN  /\ d_state = "FLUSH_CACHE"
        /\ Invalidate(s)
        /\ d_cache_idx' = IF LastSet THEN 0 ELSE s + 1
        /\ IF d_dirty[s]
           THEN /\ Request("SW", d_tag[s], ColourOf[s], d_data[s], TRUE, TRUE,
                           IF LastSet THEN "FLUSH_CACHE_LAST_WAIT" ELSE "FLUSH_CACHE_WAIT")
                /\ UNCHANGED d_flush_complete
           ELSE /\ d_state' = (IF LastSet THEN "ACTIVE" ELSE "FLUSH_CACHE")
                /\ d_flush_complete' = (d_flush_complete \/ LastSet)
                /\ UNCHANGED <<d_prb_ret, d_got_req>> /\ quietBus
        /\ UNCHANGED <<d_req, d_pg_off, d_flush_req, d_cl, d_dma_inval, d_cl_is_dma, d_pg_dirty_cnt>>

FlushCacheWait ==
    /\ d_state \in {"FLUSH_CACHE_WAIT", "FLUSH_CACHE_LAST_WAIT"} /\ Respond
    /\ d_state' = IF d_state = "FLUSH_CACHE_WAIT" THEN "FLUSH_CACHE" ELSE "ACTIVE"
    /\ d_flush_complete' = (d_flush_complete \/ d_state = "FLUSH_CACHE_LAST_WAIT")
    /\ UNCHANGED <<d_got_req, d_req, dArrays, d_cache_idx, d_pg_off, d_flush_req, d_cl,
                   d_dma_inval, d_cl_is_dma, d_pg_dirty_cnt>>

-----------------------------------------------------------------------------
\* A probe is taken when port 1 is empty, no response is arriving and the state
\* is ACTIVE or only waits on the L2.
EnterProbe ==
    /\ ProbePending /\ ~d_got_req /\ ~RspToL1D
    /\ d_state' = "PROBE_CHK" /\ d_prb_ret' = d_state
    /\ UNCHANGED <<d_got_req, d_req, dArrays, dFlush>> /\ quietBus

ProbeTakeActive == d_state = "ACTIVE" /\ EnterProbe   \* mutants of ProbeTake
ProbeTakeAnywhere == EnterProbe
ProbeTake == d_state \in WaitState \cup {"ACTIVE"} /\ EnterProbe

\* D3: the L1D waits on its own writeback of the probed line.
InTransitIgnored == FALSE   \* mutant of InTransit
InTransit == /\ d_prb_ret # "ACTIVE"
             /\ d_mem_req.op \in {"SW", "WB"}
             /\ d_mem_req.line = probe.line

ProbeChk ==
    LET s   == SetOf[probe.line][probe.colour]
        hit == HitAt(s, probe.line)
    IN  /\ d_state = "PROBE_CHK"
        /\ InvalidateIf(hit, s)
        /\ ack' = [valid |-> TRUE,
                   dirty |-> InTransit \/ (hit /\ d_dirty[s]),
                   data  |-> IF InTransit THEN d_mem_req.data ELSE d_data[s]]
        /\ d_state' = d_prb_ret /\ d_prb_ret' = "ACTIVE"
        /\ UNCHANGED <<d_got_req, d_req, dFlush, arbVars, d_mem_req, rsp, otherWires>>
=============================================================================
