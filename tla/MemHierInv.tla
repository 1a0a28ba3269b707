----------------------------- MODULE MemHierInv -----------------------------
(***************************************************************************)
(* The inductive invariant behind Presence.  It says where a request, a      *)
(* probe and a flush are at any moment, and what that place implies about    *)
(* the copies the L1D holds.  MCMemHier checks it, MemHierPresence proves it. *)
(***************************************************************************)
EXTENDS MemHier

\* Software never mixes an uncached and a cached use of a line at different
\* colours, and the L1I fetches no line uncached that the CPU caches.
NoUncachedSynonym ==
    /\ \A u \in UncachedVA, c \in CachedVA : u[1] = c[1] => u[2] = c[2]
    /\ \A f \in IFetch, c \in CachedVA : f[1] = c[1] => f[2]

\* The L1D's state as if no probe were being answered.
Eff == IF d_state = "PROBE_CHK" THEN d_prb_ret ELSE d_state

NoCopy(l)   == \A s \in DSet : ~HitAt(s, l)
NoCopyAt(i) == \A s \in DSet : d_valid[s] => L2Of[d_tag[s]] # i
Empty       == \A s \in DSet : ~d_valid[s]

\* The L2 works on a request; Posted: one it answered when it accepted it.
Busy    == l2_state \notin {"IDLE", "FLUSH_TRIAGE", "FLUSH_STORE"}
Posted  == l2_r.op = "SW" /\ ~l2_r.uncached
Serving == Busy /\ l2_r.op # "SNOOP" /\ ~Posted
Matches == /\ l2_r.from_d /\ l2_r.op = d_mem_req.op /\ l2_r.line = d_mem_req.line
           /\ l2_r.colour = d_mem_req.colour /\ l2_r.uncached = ~d_mem_req.cacheable

-----------------------------------------------------------------------------
\* The life of a request: latched, granted, served, answered.
LatchInv ==
    /\ r_l1d_req => d_mem_req.op # "none" /\ arb_state # "GNT_L1D"
    /\ arb_state = "GNT_L1D" => d_mem_req.op # "none"
    /\ r_l1i_req => i_mem_req.valid /\ arb_state # "GNT_L1I"
    /\ arb_state = "GNT_L1I" => i_mem_req.valid
    /\ r_req \/ rsp.valid => arb_state # "IDLE"
    /\ i_mem_req.valid => <<i_mem_req.line, i_mem_req.cacheable>> \in IFetch

AnswerInv ==
    rsp.valid => /\ ~r_req
                 /\ \/ l2_state = "IDLE"
                    \/ l2_state = "CHECK" /\ Posted /\ arb_state = "GNT_L1D" /\ Matches

ServeInv ==
    Serving =>
        /\ ~r_req /\ ~rsp.valid
        /\ \/ arb_state = "GNT_L1D" /\ Matches
           \/ /\ arb_state = "GNT_L1I" /\ l2_r.op = "LW"
              /\ l2_r.uncached => <<l2_r.line, FALSE>> \in IFetch

\* Which operation each state of the L2 works on.
OpInv ==
    /\ Busy => l2_r.op # "none"
    /\ l2_r.uncached => l2_r.op \in {"LW", "SW"}
    /\ l2_state = "UNCACHE_STORE" => l2_r.uncached \/ l2_r.op = "WB"
    /\ l2_state = "UNCACHE_LOAD" => l2_r.uncached
    /\ l2_state = "UNCACHE_WB_DRAIN" => l2_r.uncached \/ l2_r.op \in {"INVL", "SNOOP"}
    /\ l2_state \in {"DIRTY_STORE", "CLEAN_RELOAD"} => ~l2_r.uncached /\ l2_r.op \in {"LW", "SW"}

-----------------------------------------------------------------------------
\* What the L1D waits for in each state, and for whom.
FsmInv ==
    /\ d_got_req => d_state = "ACTIVE"
    /\ Eff = "ACTIVE" /\ ~d_got_req => d_req.op = "none"
    /\ Eff \notin WaitState => d_mem_req.op = "none"
    /\ Eff = "INJECT_RELOAD" => d_req.op \in {"load", "store"} /\ d_mem_req.op \in {"LW", "SW"}
    /\ Eff \in {"INJECT_UNCACHE_STORE", "INJECT_UNCACHE_LOAD"} =>
          d_req.op \in {"uload", "ustore"} /\ d_mem_req.op \in {"LW", "SW"}
    /\ Eff \in WaitState =>
          (d_mem_req.cacheable <=> Eff \notin {"INJECT_UNCACHE_STORE", "INJECT_UNCACHE_LOAD"})
    /\ Eff = "UNCACHE_WB" => d_req.op \in {"uload", "ustore"} /\ d_mem_req.op = "SW"
    /\ Eff = "FLUSH_CL_WAIT" => d_mem_req.op \in {"WB", "INVL"}
    /\ Eff = "FLUSH_PG_WAIT" => d_mem_req.op \in {"WB", "INVL", "PGDROP"}
    /\ Eff \in {"FLUSH_CACHE_WAIT", "FLUSH_CACHE_LAST_WAIT"} => d_mem_req.op = "SW"
    /\ d_state = "PROBE_CHK" => ProbePending

\* Port 1 and the request registers hold what software may ask for.
UseInv ==
    /\ d_req.op \in {"load", "store", "CHWB", "CHINV"} => <<d_req.line, d_req.colour>> \in CachedVA
    /\ d_req.op \in {"uload", "ustore"} => <<d_req.line, d_req.colour>> \in UncachedVA
    /\ d_mem_req.op = "LW" /\ d_mem_req.cacheable =>
          <<d_mem_req.line, d_mem_req.colour>> \in CachedVA

-----------------------------------------------------------------------------
\* The flush the core waits for is in one place on the L1D's side and in one on
\* the L2's, and meanwhile port 1 is empty.
InWalk == Eff \in {"FLUSH_CACHE", "FLUSH_CACHE_WAIT", "FLUSH_CACHE_LAST_WAIT"}
InPage == Eff \in {"FLUSH_PG", "FLUSH_PG_WAIT"}
InLine == Eff = "FLUSH_CL_WAIT" /\ ~d_cl_is_dma /\ d_req.op = "none"

TokenInv ==
    /\ core_op # "none" => d_req.op = "none"
    /\ d_flush_req \in {"none", core_op}
    /\ InWalk => core_op = "all"
    /\ InPage => core_op = "pg"
    /\ InLine => core_op = "cl"
    /\ d_flush_complete \/ core_l1d_done => core_op # "none"
    /\ core_l2_done => core_op # "none"
    /\ d_flush_req # "none" => ~InWalk /\ ~InPage /\ ~InLine /\ ~d_flush_complete /\ ~core_l1d_done
    /\ InWalk \/ InPage \/ InLine => ~d_flush_complete /\ ~core_l1d_done
    /\ ~(d_flush_complete /\ core_l1d_done)
    /\ l2_need_l1d \/ l2_flush_req \/ l2_flush_complete => core_op = "all" /\ ~core_l2_done
    /\ l2_flush_req => core_l1d_done /\ ~l2_need_l1d /\ ~l2_flush_complete
    /\ ~(l2_need_l1d /\ l2_flush_complete)
    /\ l2_state \in {"FLUSH_TRIAGE", "FLUSH_STORE"} => l2_flush_req

\* What the walk has emptied so far.
WalkInv ==
    /\ Eff \in {"FLUSH_CACHE", "FLUSH_CACHE_WAIT"} => \A s \in DSet : s < d_cache_idx => ~d_valid[s]
    /\ Eff = "FLUSH_CACHE_LAST_WAIT" => Empty
    /\ core_op = "all" /\ (d_flush_complete \/ core_l1d_done) => Empty

-----------------------------------------------------------------------------
\* A probe asks for the resident line where the L2 believes it to be; an
\* answered one has left no copy behind.
ProbeInv ==
    /\ probe.req => /\ l2_state = "CHECK" /\ ~rsp.valid /\ ~l2_r.uncached /\ NeedProbe
                    /\ probe.line = Resident /\ probe.colour = l2_pidx[Idx]
    /\ ack.valid => probe.req /\ NoCopy(probe.line)
    /\ l2_prb.done => Busy /\ NoCopyAt(Idx)

\* A copy sits in the set of its line and of a colour software uses.
PlaceInv ==
    /\ \A s \in DSet : d_valid[s] =>
          SetOf[d_tag[s]][ColourOf[s]] = s /\ <<d_tag[s], ColourOf[s]>> \in CachedVA
    /\ \A s \in DSet : d_dirty[s] => d_valid[s]
    /\ \A i \in L2Idx : l2_valid[i] => L2Of[l2_tag[i]] = i

\* A pending request that makes the L2 give up the line comes from an L1D that
\* has given it up, or will when the answer arrives.
RequestInv ==
    LET own == SetOf[d_mem_req.line][d_mem_req.colour]
    IN  /\ d_mem_req.op = "WB" => NoCopy(d_mem_req.line)
        /\ d_mem_req.op \in {"INVL", "PGDROP"} => ~HitAt(own, d_mem_req.line)
        /\ d_mem_req.op # "none" /\ ~d_mem_req.cacheable => NoCopy(d_mem_req.line)
        /\ d_mem_req.op = "SW" => \A s \in DSet : HitAt(s, d_mem_req.line) =>
                                    s = own /\ Eff = "INJECT_RELOAD"

\* The L2's side: a fill on the wire is marked, a posted write has no copy left,
\* and a line being replaced has none.
FillInv ==
    RspToL1D /\ d_mem_req.op = "LW" /\ d_mem_req.cacheable =>
        LET i == L2Of[d_mem_req.line]
        IN  /\ l2_valid[i] /\ l2_tag[i] = d_mem_req.line
            /\ l2_pd[i] /\ l2_pidx[i] = d_mem_req.colour
GoneInv ==
    /\ Busy /\ Posted /\ ~rsp.valid => NoCopy(l2_r.line)
    /\ l2_state \in {"DIRTY_STORE", "CLEAN_RELOAD"} => NoCopyAt(Idx)

BusInv  == LatchInv /\ AnswerInv /\ ServeInv /\ OpInv
CopyInv == Presence /\ PlaceInv /\ RequestInv /\ FillInv /\ GoneInv

\* The whole invariant.
PresenceInv == BusInv /\ FsmInv /\ UseInv /\ TokenInv /\ WalkInv /\ ProbeInv /\ CopyInv
=============================================================================
