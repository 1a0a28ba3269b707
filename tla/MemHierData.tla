---------------------------- MODULE MemHierData ----------------------------
(***************************************************************************)
(* The inductive invariant behind Coherent, on top of PresenceInv.  It says   *)
(* what the L2's registers and an answer on the wire stand for (WorkInv),     *)
(* which transfer and which page walk are under way (DmaInv), when a line is  *)
(* newer nowhere than in DRAM (CleanInv), and which copies hold the value     *)
(* last written (DataInv).  MCMemHier checks it, MemHierCoherent proves it.   *)
(***************************************************************************)
EXTENDS MemHierInv

\* A line that is both cached and stored to uncached is neither evicted by a
\* fetch nor snooped: a probe could find the uncached store in transit, which
\* PROBE_CHK takes for a writeback (run falsematch).
NoUncachedProbe ==
    \A u \in UncachedVA, c \in CachedVA : u[1] = c[1] /\ u[1] \in StoreLine =>
        /\ \A f \in IFetch : L2Of[f[1]] = L2Of[u[1]] => f[1] = u[1]
        /\ \A x \in DmaXfers : x[1] = "snoop" => x[3] # u[1]

\* The CPU does not write the buffers of snooped DMA-in transfers: a writeback
\* in transit would be served after the device's write (run absorb).
NoSnoopedStore ==
    \A x \in DmaXfers : x[1] = "snoop" /\ x[2] = "in" => x[3] \notin StoreLine

Discipline == NoUncachedSynonym /\ NoUncachedProbe /\ NoSnoopedStore

HoldsL2(l) == l2_valid[L2Of[l]] /\ l2_tag[L2Of[l]] = l

-----------------------------------------------------------------------------
\* The L2's registers between and during requests.
RegInv ==
    /\ ~Busy => l2_r.op = "none"
    /\ Serving => \/ arb_state = "GNT_L1D" /\ Matches
                  \/ ~l2_r.from_d /\ <<l2_r.line, ~l2_r.uncached>> \in IFetch
    /\ l2_prb.dirty => l2_prb.done /\ l2_state \in {"CHECK", "UNCACHE_WB_DRAIN"}
    /\ l2_prb.done => ~l2_r.uncached /\ l2_r.op # "WB"
    /\ l2_prb.dirty /\ l2_state = "CHECK" => l2_valid[Idx] /\ (Hit \/ l2_r.op \in {"LW", "SW"})
    /\ l2_state = "UNCACHE_STORE" => l2_r.op \in {"SW", "WB"}
    /\ l2_r.op = "WB" => l2_r.full
    /\ l2_reload => \/ l2_state = "CLEAN_RELOAD"
                    \/ l2_state = "CHECK" /\ Hit /\ ~l2_r.uncached /\ l2_r.op \in {"LW", "SW"}

\* The line on its way to DRAM, and what the L2 no longer holds by then.
WbInv ==
    /\ l2_state = "DIRTY_STORE" => l2_wb.line = Resident /\ l2_valid[Idx] /\ ~Hit
    /\ l2_state = "UNCACHE_WB_DRAIN" => l2_wb.line = l2_r.line /\ ~l2_valid[Idx]
    /\ l2_state \in {"UNCACHE_STORE", "UNCACHE_LOAD", "UNCACHE_WB_DRAIN"} => ~Hit
    /\ l2_state = "FLUSH_STORE" => L2Of[l2_wb.line] = l2_idx /\ ~l2_valid[l2_idx]

\* What an answer to the L1D means.
AnsweredInv ==
    RspToL1D =>
        /\ d_mem_req.op = "SW" /\ d_mem_req.cacheable => l2_state = "CHECK"
        /\ d_mem_req.op \in {"WB", "INVL", "PGDROP"} => ~HoldsL2(d_mem_req.line)

\* What the L1D asks for: writebacks are of cached lines and whole, uncached
\* stores are to lines software stores to, an uncached load reads, a fill is of a
\* line not in its set and overwrites a clean one, a victim's set holds no other line.
AskInv ==
    /\ d_req.op \in {"store", "ustore"} => d_req.line \in StoreLine
    /\ d_mem_req.op \in {"SW", "WB"} /\ d_mem_req.cacheable =>
          d_mem_req.full /\ \E c \in CachedVA : c[1] = d_mem_req.line
    /\ d_mem_req.op = "SW" /\ ~d_mem_req.cacheable =>
          <<d_mem_req.line, d_mem_req.colour>> \in UncachedVA /\ d_mem_req.line \in StoreLine
    /\ d_mem_req.op = "LW" /\ d_mem_req.cacheable =>
          ~HitAt(SetOf[d_mem_req.line][d_mem_req.colour], d_mem_req.line)
    /\ Eff = "INJECT_RELOAD" =>
          LET own == SetOf[d_mem_req.line][d_mem_req.colour]
          IN  IF d_mem_req.op = "LW" THEN ~d_dirty[own] ELSE d_valid[own] => d_tag[own] = d_mem_req.line
    /\ Eff = "INJECT_UNCACHE_LOAD" => d_mem_req.op = "LW"
    /\ d_cl_is_dma => Eff = "FLUSH_CL_WAIT" /\ d_mem_req.op = "INVL"

\* Only cached lines are marked present; a writeback finds no other line marked
\* at its index, so the L2 never probes on its behalf.
MarkInv ==
    /\ \A i \in L2Idx : l2_valid[i] /\ l2_pd[i] => <<l2_tag[i], l2_pidx[i]>> \in CachedVA
    /\ d_mem_req.op = "SW" /\ d_mem_req.cacheable =>
          LET i == L2Of[d_mem_req.line]
          IN  l2_valid[i] /\ l2_pd[i] => l2_tag[i] = d_mem_req.line
    /\ Busy /\ Posted => (l2_valid[Idx] /\ l2_pd[Idx] => Hit)
    /\ Busy /\ Posted /\ ~rsp.valid => ~Carried(l2_r.line)

WorkInv == RegInv /\ WbInv /\ AnsweredInv /\ AskInv /\ MarkInv

-----------------------------------------------------------------------------
\* The transfer under way, and where its snoop or page walk is.
SnoopInv ==
    /\ dma.phase # "idle" => <<dma.mode, dma.dir, dma.line>> \in DmaXfers
    /\ dma.phase = "post" => dma.dir = "in"
    /\ snoop.valid \/ l2_r.op = "SNOOP" \/ snoop_done =>
          dma.mode = "snoop" /\ dma.phase \in {"pre", "post"}
    /\ snoop.valid => /\ snoop.line = dma.line /\ (snoop.wbinv <=> dma.phase = "pre")
                      /\ l2_r.op # "SNOOP" /\ ~snoop_done
    /\ l2_r.op = "SNOOP" => /\ l2_r.line = dma.line /\ (l2_r.wbinv <=> dma.phase = "pre")
                            /\ ~snoop_done
    /\ \A l \in Line : InDma(l) => ~StoreInFlight(l)

PageInv ==
    /\ core_op = "pg" => dma.mode = "xpg" /\ dma.phase \in {"pre", "post"}
    /\ dma.mode = "xpg" /\ dma.phase = "pre" => core_op = "pg"
    /\ dma.mode = "xpg" /\ dma.phase # "idle" => dma.line \in PageSet
    /\ d_flush_req = "pg" \/ InPage => (d_cl.inval <=> dma.phase = "post")
    /\ Eff = "FLUSH_PG_WAIT" => /\ d_mem_req.line = PgLine[d_pg_off]
                                /\ (d_mem_req.op = "PGDROP" <=> d_cl.inval)

DmaInv == SnoopInv /\ PageInv

-----------------------------------------------------------------------------
\* No copy of the line anywhere is newer than DRAM by its dirty bits.
DirtyAt(l)  == \E s \in DSet : HitAt(s, l) /\ d_dirty[s]
AckDirty(l) == ack.valid /\ ack.dirty /\ probe.line = l
PrbDirty(l) == l2_prb.dirty /\ InL2(l) /\ L2Of[l] = Idx
Settled(l)  == /\ ~DirtyAt(l) /\ ~Carried(l) /\ ~Served(l) /\ ~AckDirty(l) /\ ~Leaving(l)
               /\ ~PrbDirty(l) /\ ~(HoldsL2(l) /\ l2_dirty[L2Of[l]])

\* The page walk has passed the line.
Visited(l) ==
    /\ core_op = "pg"
    /\ \/ d_flush_complete \/ core_l1d_done
       \/ InPage /\ \E k \in 0 .. PgLines - 1 : k < d_pg_off /\ PgLine[k] = l

CleanInv ==
    /\ \A l \in Line : l \notin StoreLine => Settled(l)
    /\ dma.mode = "xpg" /\ dma.phase # "idle" =>
          \A l \in PageSet : Visited(l) \/ dma.phase # "pre" => Settled(l)
    /\ core_op = "all" /\ (l2_flush_complete \/ core_l2_done) => \A l \in Line : Settled(l)
    /\ l2_state \in {"FLUSH_TRIAGE", "FLUSH_STORE"} => \A i \in L2Idx : i < l2_idx => ~l2_valid[i]
    /\ ~rsp.dirty /\ d_pg_dirty_cnt = 0

-----------------------------------------------------------------------------
\* A device has written the line and the copies from before are not dropped yet.
Stale(l) == dma.phase = "post" /\ l = dma.line /\ ~snoop_done /\ ~Visited(l)

Carrying(l) == Carried(l) /\ ~RspToL1D

\* Every copy of the line that is in use or on the move is the last write; the L2
\* or DRAM may be older only while something newer is above it, and then the L2
\* will be told.
Fresh(l) ==
    LET i == L2Of[l]
    IN  /\ \A s \in DSet : HitAt(s, l) => d_data[s] = latest[l]
        /\ Carried(l) => d_mem_req.data = latest[l]
        /\ Served(l) => l2_r.data = latest[l]
        /\ AckDirty(l) => ack.data = latest[l]
        /\ Leaving(l) => l2_wb.data = latest[l]
        /\ PrbDirty(l) => l2_prb.data = latest[l]
        /\ InL2(l) /\ l2_data[i] # latest[l] =>
              \/ DirtyAt(l) \/ AckDirty(l) \/ PrbDirty(l) \/ Served(l)
              \/ Carrying(l) /\ l2_pd[i] /\ ~(l2_prb.done /\ Idx = i)
        /\ ~InL2(l) /\ dram[l] # latest[l] => Leaving(l) \/ Served(l)
        /\ InL2(l) /\ ~l2_dirty[i] => l2_data[i] = dram[l]

DataInv ==
    /\ \A l \in Line : ~Stale(l) => Fresh(l)
    /\ ack.valid /\ Carried(probe.line) => ack.dirty
    /\ RspToL1D /\ d_mem_req.op = "LW" /\ ~Stale(d_mem_req.line) =>
          rsp.data = latest[d_mem_req.line]
    /\ dma.phase = "post" => dram[dma.line] = latest[dma.line]
    /\ dma.mode = "snoop" /\ (dma.phase = "xfer" \/ (dma.phase = "pre" /\ snoop_done)) =>
          dram[dma.line] = latest[dma.line] /\ ~DirtyAt(dma.line)

CoherenceInv == PresenceInv /\ WorkInv /\ DmaInv /\ CleanInv /\ DataInv
=============================================================================
