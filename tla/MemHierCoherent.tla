-------------------------- MODULE MemHierCoherent --------------------------
(***************************************************************************)
(* Coherent, and with it the promises of the flushes and of DMA, for every   *)
(* value of the constants.  CoherenceInv is inductive.  The argument goes     *)
(* line by line: what a step does to the copies of one line is one of a few   *)
(* moves, and each keeps a settled line settled and a fresh line fresh.       *)
(***************************************************************************)
EXTENDS MemHierWork

\* What the earlier layers establish.
Ground == TypeOK /\ PresenceInv /\ WorkInv /\ DmaInv

Copy(l) == \E s \in DSet : HitAt(s, l)

LEMMA LineTypes ==
    ASSUME TypeOK
    PROVE  /\ \A l \in Line : L2Of[l] \in L2Idx
           /\ l2_dirty \in [L2Idx -> BOOLEAN] /\ l2_data \in [L2Idx -> Val] /\ dram \in [Line -> Val]
           /\ latest \in [Line -> Val] /\ d_data \in [DSet -> Val]
           /\ l2_wb.line \in Line /\ l2_r.line \in Line /\ d_mem_req.line \in Line /\ probe.line \in Line
           /\ l2_prb.dirty \in BOOLEAN /\ l2_prb.done \in BOOLEAN /\ dma.line \in Line
BY RegTypes, IndexAssumption DEF TypeOK, L1DTypeOK, L2TypeOK, InterconnectTypeOK

\* A line the L1D holds is in the L2, marked, and nowhere on the move.
LEMMA CopyAlone ==
    ASSUME Ground, NEW l \in Line, Copy(l)
    PROVE  /\ InL2(l) /\ HoldsL2(l) /\ l2_pd[L2Of[l]] /\ ~(l2_prb.done /\ Idx = L2Of[l])
           /\ ~AckDirty(l) /\ ~Leaving(l) /\ ~PrbDirty(l)
           /\ Served(l) => RspToL1D /\ Carried(l)
<1> USE DEF Ground, PresenceInv, CopyInv
<1>0. PICK s \in DSet : HitAt(s, l)
  BY DEF Copy
<1>a. d_valid[s] /\ d_tag[s] = l /\ L2Of[l] \in L2Idx
  BY <1>0, LineTypes DEF HitAt
<1>1. HoldsL2(l) /\ l2_pd[L2Of[l]]
  BY <1>a DEF Presence, HoldsL2
<1>2. ~(NoCopyAt(Idx) /\ Idx = L2Of[l])
  BY <1>a DEF NoCopyAt
<1>3. InL2(l)
  BY <1>1, <1>2 DEF GoneInv, InL2, HoldsL2
<1>4. ~(l2_prb.done /\ Idx = L2Of[l]) /\ ~PrbDirty(l)
  BY <1>2 DEF ProbeInv, PrbDirty, WorkInv, RegInv
<1>5. ~AckDirty(l)
  BY <1>0 DEF ProbeInv, AckDirty, NoCopy
<1>6. ~Leaving(l)
  <2>1. CASE l2_state = "DIRTY_STORE"
    <3>1. l2_wb.line = Resident /\ l2_valid[Idx] /\ Idx \in L2Idx
      BY <2>1, IdxType DEF WorkInv, WbInv
    <3>2. L2Of[Resident] = Idx
      BY <3>1 DEF PlaceInv, Resident
    <3> QED
      BY <2>1, <1>2, <3>1, <3>2 DEF Leaving, GoneInv
  <2>2. CASE l2_state = "UNCACHE_WB_DRAIN"
    BY <2>2, <1>1 DEF Leaving, WorkInv, WbInv, Hit, Resident, Idx, HoldsL2
  <2>3. CASE l2_state = "FLUSH_STORE"
    BY <2>3, <1>1 DEF Leaving, WorkInv, WbInv, HoldsL2
  <2> QED
    BY <2>1, <2>2, <2>3 DEF Leaving
<1>7. Served(l) => RspToL1D /\ Carried(l)
  <2>1. SUFFICES ASSUME Served(l) PROVE RspToL1D /\ Carried(l)
    OBVIOUS
  <2>2. Busy /\ l2_r.line = l /\ ~l2_r.uncached
    BY <2>1 DEF Served, WorkInv, RegInv
  <2>3. CASE l2_r.op = "SW"
    <3>1. rsp.valid
      BY <2>2, <2>3, <1>0 DEF GoneInv, Posted, NoCopy
    <3>2. arb_state = "GNT_L1D" /\ Matches
      BY <2>2, <3>1 DEF BusInv, AnswerInv, Busy
    <3> QED
      BY <2>2, <2>3, <3>1, <3>2, RegTypes DEF RspToL1D, Carried, Matches
  <2>4. CASE l2_r.op = "WB"
    <3>1. Serving
      BY <2>2, <2>4 DEF Serving, Posted
    <3>2. Matches
      BY <3>1, <2>4 DEF BusInv, ServeInv
    <3> QED
      BY <2>2, <2>4, <3>2, <1>0 DEF Matches, RequestInv, NoCopy
  <2> QED
    BY <2>1, <2>3, <2>4 DEF Served
<1> QED
  BY <1>1, <1>3, <1>4, <1>5, <1>6, <1>7

\* A probe never finds an uncached store to its line in transit.
LEMMA ProbeCached ==
    ASSUME Discipline, Ground, probe.req, d_mem_req.op \in {"SW", "WB"}, d_mem_req.line = probe.line
    PROVE  d_mem_req.cacheable
<1> USE DEF Ground
<1>1. SUFFICES ASSUME ~d_mem_req.cacheable PROVE FALSE
  OBVIOUS
<1>2. d_mem_req.op = "SW"
  <2>1. d_mem_req.op = "WB" => Eff \in {"FLUSH_CL_WAIT", "FLUSH_PG_WAIT"}
    BY DEF PresenceInv, FsmInv, WaitState
  <2> QED
    BY <1>1, <2>1 DEF PresenceInv, FsmInv, WaitState
<1> DEFINE u == <<d_mem_req.line, d_mem_req.colour>>
           c == <<l2_tag[Idx], l2_pidx[Idx]>>
<1>3. u \in UncachedVA /\ d_mem_req.line \in StoreLine
  BY <1>1, <1>2 DEF WorkInv, AskInv
<1>4. Busy /\ NeedProbe /\ ~l2_r.uncached /\ l2_tag[Idx] = d_mem_req.line /\ ~rsp.valid
  BY DEF PresenceInv, ProbeInv, Resident, Busy
<1>5. l2_valid[Idx] /\ l2_pd[Idx] /\ L2Of[d_mem_req.line] = Idx
  <2>1. l2_valid[Idx] /\ l2_pd[Idx]
    BY <1>4 DEF NeedProbe, Alias, SnoopProbe, VictimProbe, Hit
  <2> QED
    BY <1>4, <2>1, IdxType DEF PresenceInv, CopyInv, PlaceInv
<1>6. c \in CachedVA
  BY <1>5, IdxType DEF WorkInv, MarkInv
<1>7. /\ \A f \in IFetch : L2Of[f[1]] = Idx => f[1] = d_mem_req.line
      /\ \A x \in DmaXfers : x[1] = "snoop" => x[3] # d_mem_req.line
  BY <1>3, <1>4, <1>5, <1>6 DEF Discipline, NoUncachedProbe
<1>8. ~Matches
  BY <1>1, <1>2, <1>4, RegTypes DEF Matches
<1>9. Serving => ~l2_r.from_d /\ <<l2_r.line, ~l2_r.uncached>> \in IFetch
  BY <1>8 DEF WorkInv, RegInv
<1>10. CASE Alias
  BY <1>4, <1>9, <1>10 DEF Alias, Serving, Posted
<1>11. CASE SnoopProbe
  <2>1. l2_r.line = d_mem_req.line /\ l2_r.op = "SNOOP"
    BY <1>4, <1>11 DEF SnoopProbe, Hit, Resident
  <2>2. dma.mode = "snoop" /\ dma.line = d_mem_req.line /\ <<dma.mode, dma.dir, dma.line>> \in DmaXfers
    BY <2>1 DEF DmaInv, SnoopInv
  <2> QED
    BY <1>7, <2>2
<1>12. CASE VictimProbe
  <2>1. ~Hit
    BY <1>12 DEF VictimProbe
  <2>2. CASE l2_r.op = "LW"
    <3>1. <<l2_r.line, ~l2_r.uncached>> \in IFetch
      BY <1>4, <1>9, <2>2 DEF Serving, Posted
    <3>2. l2_r.line = d_mem_req.line
      BY <3>1, <1>7 DEF Idx
    <3> QED
      BY <1>4, <1>5, <2>1, <3>2 DEF Hit, Resident
  <2>3. CASE l2_r.op = "SW"
    BY <1>4, <1>5, <2>1, <2>3 DEF WorkInv, MarkInv, Posted
  <2> QED
    BY <1>12, <2>2, <2>3 DEF VictimProbe
<1> QED
  BY <1>4, <1>10, <1>11, <1>12 DEF NeedProbe

\* A line that is nowhere but in DRAM.
Nowhere(l) == /\ ~Copy(l) /\ ~Carried(l) /\ ~Served(l) /\ ~AckDirty(l) /\ ~Leaving(l) /\ ~PrbDirty(l)
              /\ ~HoldsL2(l)

LEMMA NowhereSettled == ASSUME NEW l, Nowhere(l)' PROVE Settled(l)'
BY DEF Nowhere, Settled, Copy, DirtyAt

LEMMA NowhereFresh == ASSUME NEW l, Nowhere(l)', dram'[l] = latest'[l] PROVE Fresh(l)'
BY DEF Nowhere, Fresh, Copy, InL2, HoldsL2

\* The value of a settled, fresh line is in DRAM.
LEMMA SettledDram == ASSUME Ground, NEW l \in Line, Settled(l), Fresh(l) PROVE dram[l] = latest[l]
<1>1. CASE InL2(l)
  <2>1. ~Carrying(l) /\ ~l2_dirty[L2Of[l]]
    BY <1>1 DEF Settled, Carrying, InL2, HoldsL2
  <2> QED
    BY <1>1, <2>1 DEF Settled, Fresh
<1>2. CASE ~InL2(l)
  BY <1>2 DEF Settled, Fresh
<1> QED
  BY <1>1, <1>2

-----------------------------------------------------------------------------
\* What a step of the L1D may do to one line: next to nothing, or store to it,
\* send it down, discard it, answer a probe for it.
Untouched(l) ==
    /\ latest'[l] = latest[l]
    /\ AckDirty(l)' <=> AckDirty(l)
    /\ AckDirty(l) => ack'.data = ack.data
    /\ ~Stale(l) => \A s \in DSet : HitAt(s, l)' =>
          (HitAt(s, l) /\ d_data'[s] = d_data[s]) \/ d_data'[s] = latest[l]
    /\ DirtyAt(l)' => DirtyAt(l)
    /\ DirtyAt(l) => DirtyAt(l)' \/ Served(l)
    /\ Carried(l)' => Carried(l) /\ d_mem_req'.data = d_mem_req.data
    /\ Carrying(l) => Carrying(l)'

Stored(l) ==
    /\ Copy(l) /\ d_mem_req.op = "none" /\ UNCHANGED <<d_mem_req, ack>>
    /\ \A s \in DSet : HitAt(s, l)' => d_data'[s] = latest'[l]
    /\ DirtyAt(l)'
    /\ l \in StoreLine /\ ~InDma(l) /\ core_op = "none"

Sent(l) ==
    /\ DirtyAt(l) /\ d_mem_req.op = "none" /\ latest'[l] = latest[l] /\ UNCHANGED ack
    /\ \A s \in DSet : HitAt(s, l)' => HitAt(s, l) /\ d_data'[s] = d_data[s]
    /\ Carried(l)' /\ arb_state' # "GNT_L1D"
    /\ \E s \in DSet : HitAt(s, l) /\ d_mem_req'.data = d_data[s]

Discarded(l) ==
    /\ DirtyAt(l) /\ d_mem_req.op = "none" /\ latest'[l] = Below(l) /\ UNCHANGED ack
    /\ ~Copy(l)' /\ ~Carried(l)'

Probed(l) ==
    /\ l = probe.line /\ ~Copy(l)' /\ latest'[l] = latest[l] /\ UNCHANGED <<d_mem_req, rsp, arb_state>>
    /\ ~ack.valid /\ ack'.valid
    /\ ack'.dirty <=> Carried(l) \/ DirtyAt(l)
    /\ ack'.dirty => \/ Carried(l) /\ ack'.data = d_mem_req.data
                     \/ \E s \in DSet : HitAt(s, l) /\ ack'.data = d_data[s]

Moves(l) == Untouched(l) \/ Sent(l) \/ Discarded(l) \/ Probed(l)

\* The rest of the hierarchy, as a line sees it.
belowVars == <<l2_state, l2_r, l2_prb, l2_wb, l2_valid, l2_dirty, l2_tag, l2_data, l2_pd, dram, probe>>

LEMMA BelowSame ==
    ASSUME UNCHANGED belowVars, NEW l
    PROVE  /\ Served(l)' <=> Served(l)
           /\ Leaving(l)' <=> Leaving(l)
           /\ PrbDirty(l)' <=> PrbDirty(l)
           /\ InL2(l)' <=> InL2(l)
           /\ HoldsL2(l)' <=> HoldsL2(l)
           /\ Idx' = Idx
BY DEF belowVars, Served, Leaving, PrbDirty, InL2, HoldsL2, Idx

LEMMA DirtyCopy == ASSUME NEW l, DirtyAt(l) PROVE Copy(l)
BY DEF DirtyAt, Copy

LEMMA MoveSettles ==
    ASSUME UNCHANGED belowVars, NEW l \in Line, Moves(l), Settled(l)
    PROVE  Settled(l)'
<1>1. UNCHANGED <<l2_dirty, probe>>
  BY DEF belowVars
<1>2. ~DirtyAt(l)' /\ ~Carried(l)' /\ ~AckDirty(l)'
  <2>1. CASE Untouched(l)
    BY <2>1 DEF Untouched, Settled
  <2>2. CASE Sent(l) \/ Discarded(l)
    BY <2>2 DEF Settled, Sent, Discarded
  <2>3. CASE Probed(l)
    <3>1. ~DirtyAt(l)'
      BY <2>3 DEF Probed, Copy, DirtyAt
    <3>2. ~Carried(l)'
      BY <2>3 DEF Probed, Carried, Settled
    <3>3. ~AckDirty(l)'
      BY <2>3 DEF Probed, Settled, AckDirty
    <3> QED
      BY <3>1, <3>2, <3>3
  <2> QED
    BY <2>1, <2>2, <2>3 DEF Moves
<1> QED
  BY <1>1, <1>2, BelowSame DEF Settled

LEMMA MoveFreshens ==
    ASSUME Ground, UNCHANGED belowVars, NEW l \in Line, Moves(l) \/ Stored(l), ~Stale(l), Fresh(l)
    PROVE  Fresh(l)'
<1>1. UNCHANGED <<l2_data, l2_pd, l2_dirty, l2_prb, l2_r, l2_wb, dram, probe>>
  BY DEF belowVars
<1> DEFINE i == L2Of[l]
<1>2. CASE Untouched(l)
  <2>1. \A s \in DSet : HitAt(s, l)' => d_data'[s] = latest'[l]
    BY <1>2 DEF Untouched, Fresh
  <2>2. (Carried(l)' => d_mem_req'.data = latest'[l]) /\ (AckDirty(l)' => ack'.data = latest'[l])
    BY <1>2 DEF Untouched, Fresh
  <2>3. InL2(l)' /\ l2_data'[i] # latest'[l] =>
           \/ DirtyAt(l)' \/ AckDirty(l)' \/ PrbDirty(l)' \/ Served(l)'
           \/ Carrying(l)' /\ l2_pd'[i] /\ ~(l2_prb'.done /\ Idx' = i)
    BY <1>1, <1>2, BelowSame DEF Untouched, Fresh
  <2>4. latest'[l] = latest[l]
    BY <1>2 DEF Untouched
  <2> QED
    BY <1>1, <2>1, <2>2, <2>3, <2>4, BelowSame DEF Fresh
<1>3. CASE Stored(l) \/ Sent(l) \/ Discarded(l)
  <2>1. Copy(l) /\ d_mem_req.op = "none" /\ UNCHANGED ack
    BY <1>3, DirtyCopy DEF Stored, Sent, Discarded
  <2>2. /\ InL2(l) /\ HoldsL2(l) /\ l2_pd[i] /\ ~(l2_prb.done /\ Idx = i)
        /\ ~AckDirty(l) /\ ~Leaving(l) /\ ~PrbDirty(l) /\ ~Served(l)
    BY <2>1, CopyAlone DEF Carried
  <2>3. /\ InL2(l)' /\ l2_pd'[i] /\ ~(l2_prb'.done /\ Idx' = i)
        /\ ~AckDirty(l)' /\ ~Leaving(l)' /\ ~PrbDirty(l)' /\ ~Served(l)'
    BY <1>1, <2>1, <2>2, BelowSame DEF AckDirty
  <2>4. ~l2_dirty[i] => l2_data[i] = dram[l]
    BY <2>2 DEF Fresh
  <2>5. CASE Stored(l)
    <3>1. ~Carried(l)' /\ DirtyAt(l)' /\ \A s \in DSet : HitAt(s, l)' => d_data'[s] = latest'[l]
      BY <2>5 DEF Stored, Carried
    <3> QED
      BY <1>1, <2>3, <2>4, <3>1 DEF Fresh
  <2>6. CASE Sent(l)
    <3>1. Carrying(l)' /\ d_mem_req'.data = latest'[l] /\ \A s \in DSet : HitAt(s, l)' => d_data'[s] = latest'[l]
      BY <2>6 DEF Sent, Carrying, RspToL1D, Fresh
    <3> QED
      BY <1>1, <2>3, <2>4, <3>1 DEF Fresh
  <2>7. CASE Discarded(l)
    <3>1. ~Carried(l)' /\ (\A s \in DSet : ~HitAt(s, l)') /\ latest'[l] = l2_data[i]
      BY <2>2, <2>7 DEF Discarded, Copy, Below, HoldsL2
    <3> QED
      BY <1>1, <2>3, <2>4, <3>1 DEF Fresh
  <2> QED
    BY <1>3, <2>5, <2>6, <2>7
<1>4. CASE Probed(l)
  <2>1. /\ latest'[l] = latest[l] /\ (\A s \in DSet : ~HitAt(s, l)') /\ UNCHANGED <<d_mem_req, rsp, arb_state>>
        /\ ~AckDirty(l) /\ (AckDirty(l)' <=> Carried(l) \/ DirtyAt(l))
    BY <1>1, <1>4 DEF Probed, Copy, AckDirty
  <2>2. AckDirty(l)' => ack'.data = latest[l]
    BY <1>4 DEF Probed, AckDirty, Fresh
  <2>3. (Carried(l)' <=> Carried(l)) /\ (Carrying(l)' <=> Carrying(l))
    BY <2>1 DEF Carried, Carrying, RspToL1D
  <2> QED
    BY <1>1, <2>1, <2>2, <2>3, BelowSame DEF Fresh
<1> QED
  BY <1>2, <1>3, <1>4 DEF Moves

-----------------------------------------------------------------------------
\* The ways the L1D's actions bring those moves about.
Kept(l) ==
    /\ \A s \in DSet : HitAt(s, l)' => HitAt(s, l) /\ d_data'[s] = d_data[s]
    /\ DirtyAt(l)' <=> DirtyAt(l)

LEMMA KeptUntouched ==
    ASSUME NEW l, Kept(l), UNCHANGED <<ack, probe>>, latest'[l] = latest[l],
           UNCHANGED <<d_mem_req, rsp, arb_state>> \/ (d_mem_req.op = "none" /\ ~Carried(l)')
                                                   \/ (RspToL1D /\ ~Carried(l)')
    PROVE  Untouched(l)
BY DEF Kept, Untouched, AckDirty, Carried, Carrying, RspToL1D

LEMMA SameKept == ASSUME UNCHANGED dArrays, NEW l PROVE Kept(l)
BY DEF dArrays, Kept, DirtyAt, HitAt

LEMMA DropKept ==
    ASSUME TypeOK, NEW s \in DSet, NEW l \in Line, Invalidate(s), ~(HitAt(s, l) /\ d_dirty[s])
    PROVE  Kept(l)
<1>1. /\ d_valid \in [DSet -> BOOLEAN] /\ d_dirty \in [DSet -> BOOLEAN]
      /\ d_valid' = [d_valid EXCEPT ![s] = FALSE] /\ d_dirty' = [d_dirty EXCEPT ![s] = FALSE]
      /\ UNCHANGED <<d_tag, d_data>>
  BY DEF TypeOK, L1DTypeOK, Invalidate
<1>2. \A t \in DSet : HitAt(t, l)' => HitAt(t, l) /\ d_data'[t] = d_data[t]
  BY <1>1 DEF HitAt
<1>3. \A t \in DSet : HitAt(t, l)' /\ d_dirty'[t] <=> HitAt(t, l) /\ d_dirty[t]
  BY <1>1 DEF HitAt
<1> QED
  BY <1>2, <1>3 DEF Kept, DirtyAt

LEMMA DropIfKept ==
    ASSUME TypeOK, NEW s \in DSet, NEW l \in Line, NEW b, InvalidateIf(b, s), ~(HitAt(s, l) /\ d_dirty[s])
    PROVE  Kept(l)
BY DropKept, SameKept DEF InvalidateIf

LEMMA DropGone ==
    ASSUME TypeOK, PresenceInv, NEW s \in DSet, NEW l, HitAt(s, l), Invalidate(s)
    PROVE  ~Copy(l)'
<1>1. NoSynonym
  BY SynonymFree DEF PresenceInv, CopyInv
<1>2. /\ d_valid \in [DSet -> BOOLEAN]
      /\ d_valid' = [d_valid EXCEPT ![s] = FALSE] /\ UNCHANGED d_tag
  BY DEF TypeOK, L1DTypeOK, Invalidate
<1> QED
  BY <1>1, <1>2 DEF NoSynonym, Copy, HitAt

\* A dirty line is sent down.
LEMMA SendMoves ==
    ASSUME Ground, Eff \notin WaitState, NEW s \in DSet, d_valid[s], d_dirty[s], NEW o \in {"SW", "WB"},
           NEW c, NEW f, NEW w, Request(o, d_tag[s], c, d_data[s], TRUE, f, w),
           UNCHANGED dArrays \/ Invalidate(s), UNCHANGED latest, NEW l \in Line
    PROVE  Moves(l)
<1>1. /\ d_mem_req'.op = o /\ d_mem_req'.line = d_tag[s] /\ d_mem_req'.data = d_data[s]
      /\ d_mem_req'.cacheable /\ UNCHANGED <<ack, probe, arb_state>>
  BY DEF Request, otherWires
<1>2. d_mem_req.op = "none" /\ arb_state # "GNT_L1D"
  BY DEF Ground, PresenceInv, FsmInv, BusInv, LatchInv
<1>3. CASE l = d_tag[s]
  <2>1. HitAt(s, l) /\ DirtyAt(l)
    BY <1>3 DEF HitAt, DirtyAt
  <2>2. \A t \in DSet : HitAt(t, l)' => HitAt(t, l) /\ d_data'[t] = d_data[t]
    BY DEF HitAt, dArrays, Invalidate, Ground, TypeOK, L1DTypeOK
  <2>3. Carried(l)'
    BY <1>1, <1>3 DEF Carried
  <2> QED
    BY <1>1, <1>2, <2>1, <2>2, <2>3 DEF Moves, Sent
<1>4. CASE l # d_tag[s]
  <2>1. Kept(l)
    BY <1>4, SameKept, DropKept DEF HitAt, Ground
  <2>2. ~Carried(l)'
    BY <1>1, <1>4 DEF Carried
  <2> QED
    BY <1>1, <1>2, <2>1, <2>2, KeptUntouched DEF Moves
<1> QED
  BY <1>3, <1>4

\* A request that carries no cached line.
LEMMA AskMoves ==
    ASSUME Ground, Eff \notin WaitState, NEW o, NEW x, NEW c, NEW v, NEW b, NEW f, NEW w,
           Request(o, x, c, v, b, f, w), o \notin {"SW", "WB"} \/ ~b, NEW l \in Line, Kept(l),
           latest'[l] = latest[l]
    PROVE  Moves(l)
<1>1. d_mem_req'.op = o /\ d_mem_req'.cacheable = b /\ UNCHANGED <<ack, probe, arb_state>>
  BY DEF Request, otherWires
<1>2. d_mem_req.op = "none"
  BY DEF Ground, PresenceInv, FsmInv
<1> QED
  BY <1>1, <1>2, KeptUntouched DEF Moves, Carried

\* A copy is dropped, dirty or not, and the L2 is asked to drop its own.
LEMMA DiscardMoves ==
    ASSUME Ground, Eff \notin WaitState, NEW s \in DSet, NEW x \in Line, NEW c, NEW v, NEW b, NEW f, NEW w,
           Request("INVL", x, c, v, b, f, w), InvalidateIf(HitAt(s, x), s), Discard(s, x), NEW l \in Line
    PROVE  Moves(l)
<1>1. d_mem_req'.op = "INVL" /\ UNCHANGED <<ack, probe, arb_state>>
  BY DEF Request, otherWires
<1>2. d_mem_req.op = "none" /\ latest \in [Line -> Val]
  BY DEF Ground, PresenceInv, FsmInv, TypeOK
<1>3. CASE DropsDirty(s, x) /\ l = x
  <2>1. HitAt(s, l) /\ Invalidate(s) /\ DirtyAt(l)
    BY <1>3 DEF DropsDirty, InvalidateIf, DirtyAt
  <2>2. latest'[l] = Below(l)
    BY <1>2, <1>3 DEF Discard
  <2>3. ~Copy(l)'
    BY <2>1, DropGone DEF Ground
  <2> QED
    BY <1>1, <1>2, <2>1, <2>2, <2>3 DEF Moves, Discarded, Carried
<1>4. CASE ~(DropsDirty(s, x) /\ l = x)
  <2>1. Kept(l)
    <3>1. CASE HitAt(s, l) /\ d_dirty[s]
      <4>1. ~HitAt(s, x)
        BY <1>4, <3>1 DEF HitAt, DropsDirty
      <4> QED
        BY <4>1, SameKept DEF InvalidateIf
    <3> QED
      BY <3>1, DropIfKept DEF Ground
  <2>2. latest'[l] = latest[l]
    BY <1>2, <1>4 DEF Discard
  <2> QED
    BY <2>1, <2>2, AskMoves
<1> QED
  BY <1>3, <1>4

\* An answer that leaves the arrays alone.
LEMMA AnswerMoves ==
    ASSUME Respond, UNCHANGED <<dArrays, latest>>, NEW l PROVE Moves(l)
<1>1. RspToL1D /\ d_mem_req'.op = "none" /\ UNCHANGED <<ack, probe>>
  BY DEF Respond, NoMemReq, otherWires
<1> QED
  BY <1>1, SameKept, KeptUntouched DEF Moves, Carried

\* A step that leaves the wires alone.
LEMMA StillMoves == ASSUME NEW l, Kept(l), quietBus, latest'[l] = latest[l] PROVE Moves(l)
<1>1. UNCHANGED <<ack, probe, d_mem_req, rsp, arb_state>>
  BY DEF quietBus, otherWires, arbVars
<1> QED
  BY <1>1, KeptUntouched DEF Moves

\* A store hits the only copy.
LEMMA StoreMoves ==
    ASSUME Ground, CpuStore, NEW l \in Line PROVE Moves(l) \/ Stored(l)
<1> USE DEF Ground
<1>1. /\ d_state = "ACTIVE" /\ d_req.op = "store" /\ ReqHit /\ ReqSet \in DSet /\ d_req.line \in Line
      /\ d_data' = [d_data EXCEPT ![ReqSet] = d_req.val] /\ d_dirty' = [d_dirty EXCEPT ![ReqSet] = TRUE]
      /\ UNCHANGED <<d_valid, d_tag>> /\ quietBus
      /\ latest' = [latest EXCEPT ![d_req.line] = d_req.val]
  BY RegTypes, IndexAssumption DEF CpuStore, StoreHit, Port1, ReqSet
<1>2. /\ d_data \in [DSet -> Val] /\ d_dirty \in [DSet -> BOOLEAN] /\ latest \in [Line -> Val]
  BY DEF TypeOK, L1DTypeOK
<1>3. NoSynonym
  BY SynonymFree DEF PresenceInv, CopyInv
<1>4. CASE l = d_req.line
  <2>1. d_mem_req.op = "none"
    BY <1>1 DEF PresenceInv, FsmInv, Eff, WaitState
  <2>2. l \in StoreLine /\ ~InDma(l) /\ core_op = "none"
    BY <1>1, <1>4 DEF WorkInv, AskInv, DmaInv, SnoopInv, StoreInFlight, PresenceInv, TokenInv
  <2>3. Copy(l)
    BY <1>1, <1>4 DEF Copy, ReqHit
  <2>4. ASSUME NEW s \in DSet, HitAt(s, l)' PROVE d_data'[s] = latest'[l]
    <3>1. s = ReqSet
      BY <1>1, <1>3, <1>4, <2>4 DEF NoSynonym, HitAt, ReqHit
    <3> QED
      BY <1>1, <1>2, <1>4, <3>1
  <2>5. DirtyAt(l)'
    BY <1>1, <1>2, <1>4 DEF DirtyAt, ReqHit, HitAt
  <2>6. UNCHANGED <<d_mem_req, ack>>
    BY <1>1 DEF quietBus
  <2> QED
    BY <2>1, <2>2, <2>3, <2>4, <2>5, <2>6 DEF Stored
<1>5. CASE l # d_req.line
  <2>1. ASSUME NEW s \in DSet
        PROVE  /\ HitAt(s, l)' <=> HitAt(s, l)
               /\ HitAt(s, l) => d_data'[s] = d_data[s] /\ d_dirty'[s] = d_dirty[s]
    <3>1. HitAt(s, l)' <=> HitAt(s, l)
      BY <1>1 DEF HitAt
    <3>2. HitAt(s, l) => s # ReqSet
      BY <1>1, <1>5 DEF HitAt, ReqHit
    <3> QED
      BY <1>1, <1>2, <3>1, <3>2
  <2>2. Kept(l)
    BY <2>1 DEF Kept, DirtyAt
  <2> QED
    BY <1>1, <1>2, <1>5, <2>2, StillMoves
<1> QED
  BY <1>4, <1>5

\* A fill installs what the L2 answered; a victim's answer frees its set.
LEMMA ReloadMoves ==
    ASSUME Ground, DataInv, Reload, UNCHANGED latest, NEW l \in Line PROVE Moves(l)
<1> USE DEF Ground
<1> DEFINE x == d_mem_req.line
           own == SetOf[x][d_mem_req.colour]
<1>1. /\ RspToL1D /\ Eff = "INJECT_RELOAD" /\ d_mem_req'.op = "none" /\ UNCHANGED <<ack, probe>>
      /\ d_valid' = [d_valid EXCEPT ![own] = (d_mem_req.op = "LW")]
      /\ d_dirty' = [d_dirty EXCEPT ![own] = FALSE]
      /\ d_tag' = [d_tag EXCEPT ![own] = x]
      /\ d_data' = [d_data EXCEPT ![own] = rsp.data]
  BY DEF Reload, Respond, NoMemReq, otherWires, Eff
<1>2. /\ d_data \in [DSet -> Val] /\ d_dirty \in [DSet -> BOOLEAN] /\ d_valid \in [DSet -> BOOLEAN]
      /\ d_tag \in [DSet -> Line] /\ own \in DSet /\ x \in Line
  <2>1. own \in DSet /\ x \in Line
    BY RegTypes, IndexAssumption
  <2> QED
    BY <2>1 DEF TypeOK, L1DTypeOK
<1>3. d_mem_req.op \in {"LW", "SW"} /\ d_mem_req.cacheable
  BY <1>1 DEF PresenceInv, FsmInv, WaitState
<1>4. ASSUME NEW s \in DSet, s # own
      PROVE  /\ HitAt(s, l)' <=> HitAt(s, l)
             /\ d_data'[s] = d_data[s] /\ d_dirty'[s] = d_dirty[s]
  BY <1>1, <1>2, <1>4 DEF HitAt
<1>5. ~d_dirty'[own] /\ d_data'[own] = rsp.data /\ (d_valid'[own] <=> d_mem_req.op = "LW") /\ d_tag'[own] = x
  <2>1. ~d_dirty'[own] /\ d_data'[own] = rsp.data /\ d_tag'[own] = x
    BY <1>1, <1>2
  <2>2. d_valid'[own] <=> d_mem_req.op = "LW"
    <3>1. CASE d_mem_req.op = "LW"
      <4>1. d_valid' = [d_valid EXCEPT ![own] = TRUE]
        BY <1>1, <3>1
      <4> QED
        BY <1>2, <3>1, <4>1
    <3>2. CASE d_mem_req.op # "LW"
      <4>1. d_valid' = [d_valid EXCEPT ![own] = FALSE]
        BY <1>1, <3>2
      <4> QED
        BY <1>2, <3>2, <4>1
    <3> QED
      BY <3>1, <3>2
  <2> QED
    BY <2>1, <2>2
<1>6. DirtyAt(l)' => DirtyAt(l)
  BY <1>4, <1>5 DEF DirtyAt
<1>7. ~Carried(l)' /\ ~Carrying(l)
  BY <1>1 DEF Carried, Carrying
<1>8. (AckDirty(l)' <=> AckDirty(l)) /\ ack' = ack
  BY <1>1 DEF AckDirty
<1>9. CASE d_mem_req.op = "LW"
  <2>1. ~d_dirty[own]
    BY <1>1, <1>9 DEF WorkInv, AskInv
  <2>2. DirtyAt(l) => DirtyAt(l)'
    BY <1>4, <2>1 DEF DirtyAt
  <2>3. ~Stale(x) => rsp.data = latest[x]
    BY <1>1, <1>9 DEF DataInv
  <2>4. ~Stale(l) => \A s \in DSet : HitAt(s, l)' =>
          (HitAt(s, l) /\ d_data'[s] = d_data[s]) \/ d_data'[s] = latest[l]
    <3>1. ASSUME ~Stale(l), NEW s \in DSet, HitAt(s, l)'
          PROVE  (HitAt(s, l) /\ d_data'[s] = d_data[s]) \/ d_data'[s] = latest[l]
      <4>1. CASE s = own
        BY <1>5, <2>3, <3>1, <4>1 DEF HitAt
      <4>2. CASE s # own
        BY <1>4, <3>1, <4>2
      <4> QED
        BY <4>1, <4>2
    <3> QED
      BY <3>1
  <2> QED
    BY <1>6, <1>7, <1>8, <2>2, <2>4 DEF Moves, Untouched
<1>10. CASE d_mem_req.op = "SW"
  <2>1. \A s \in DSet : HitAt(s, l)' => HitAt(s, l) /\ d_data'[s] = d_data[s]
    <3>1. ASSUME NEW s \in DSet, HitAt(s, l)' PROVE HitAt(s, l) /\ d_data'[s] = d_data[s]
      <4>1. s # own
        BY <1>5, <1>10, <3>1 DEF HitAt
      <4> QED
        BY <1>4, <3>1, <4>1
    <3> QED
      BY <3>1
  <2>2. CASE l = x
    <3>1. l2_state = "CHECK"
      BY <1>1, <1>3, <1>10 DEF WorkInv, AnsweredInv
    <3>2. Posted /\ Matches
      BY <1>1, <3>1 DEF PresenceInv, BusInv, AnswerInv, RspToL1D
    <3>3. Served(l)
      BY <2>2, <3>2 DEF Served, Posted, Matches
    <3> QED
      BY <1>6, <1>7, <1>8, <2>1, <3>3 DEF Moves, Untouched
  <2>3. CASE l # x
    <3>1. d_valid[own] => d_tag[own] = x
      BY <1>1, <1>10 DEF WorkInv, AskInv
    <3>2. DirtyAt(l) => DirtyAt(l)'
      BY <1>4, <2>3, <3>1 DEF DirtyAt, HitAt
    <3> QED
      BY <1>6, <1>7, <1>8, <2>1, <3>2 DEF Moves, Untouched
  <2> QED
    BY <2>2, <2>3
<1> QED
  BY <1>3, <1>9, <1>10

\* A probe takes the copy, or the writeback in transit.
LEMMA ProbeMoves ==
    ASSUME Discipline, Ground, ProbeChk, UNCHANGED latest, NEW l \in Line PROVE Moves(l)
<1> USE DEF Ground
<1> DEFINE x == probe.line
           own == SetOf[x][probe.colour]
<1>1. /\ d_state = "PROBE_CHK" /\ InvalidateIf(HitAt(own, x), own)
      /\ UNCHANGED <<d_mem_req, rsp, arb_state, probe>>
      /\ ack' = [valid |-> TRUE, dirty |-> InTransit \/ (HitAt(own, x) /\ d_dirty[own]),
                 data |-> IF InTransit THEN d_mem_req.data ELSE d_data[own]]
  BY DEF ProbeChk, arbVars, otherWires
<1>2. probe.req /\ ~ack.valid
  BY <1>1 DEF PresenceInv, FsmInv, ProbePending
<1>3. own \in DSet /\ x \in Line /\ probe.colour \in Colour
  BY RegTypes, IndexAssumption DEF TypeOK, InterconnectTypeOK
<1>4. InTransit <=> Carried(x)
  <2>1. d_mem_req.op # "none" => d_prb_ret # "ACTIVE"
    BY <1>1 DEF PresenceInv, FsmInv, Eff, WaitState
  <2> QED
    BY <1>2, <2>1, ProbeCached DEF InTransit, Carried
<1>5. \A s \in DSet : HitAt(s, x) => s = own
  <2>1. /\ x = Resident /\ probe.colour = l2_pidx[Idx] /\ Idx \in L2Idx
        /\ NeedProbe
    BY <1>2, IdxType DEF PresenceInv, ProbeInv
  <2>2. l2_valid[Idx]
    BY <2>1 DEF NeedProbe, Alias, SnoopProbe, VictimProbe, Hit
  <2>3. L2Of[x] = Idx
    BY <2>1, <2>2 DEF PresenceInv, CopyInv, PlaceInv, Resident
  <2>4. ASSUME NEW s \in DSet, HitAt(s, x) PROVE s = own
    <3>1. d_valid[s] /\ d_tag[s] = x
      BY <2>4 DEF HitAt
    <3>2. l2_pidx[L2Of[x]] = ColourOf[s] /\ SetOf[x][ColourOf[s]] = s
      BY <3>1 DEF PresenceInv, CopyInv, Presence, PlaceInv
    <3> QED
      BY <2>1, <2>3, <3>2
  <2> QED
    BY <2>4
<1>6. CASE l = x
  <2>1. ~Copy(l)'
    <3>1. CASE HitAt(own, x)
      BY <1>1, <1>3, <1>6, <3>1, DropGone DEF InvalidateIf
    <3>2. CASE ~HitAt(own, x)
      BY <1>1, <1>5, <1>6, <3>2 DEF InvalidateIf, dArrays, Copy, HitAt
    <3> QED
      BY <3>1, <3>2
  <2>2. DirtyAt(l) <=> HitAt(own, x) /\ d_dirty[own]
    BY <1>3, <1>5, <1>6 DEF DirtyAt
  <2>3. ack'.valid /\ (ack'.dirty <=> Carried(l) \/ DirtyAt(l))
    BY <1>1, <1>4, <1>6, <2>2
  <2>4. ack'.dirty => \/ Carried(l) /\ ack'.data = d_mem_req.data
                      \/ \E s \in DSet : HitAt(s, l) /\ ack'.data = d_data[s]
    BY <1>1, <1>3, <1>4, <1>6
  <2> QED
    BY <1>1, <1>2, <1>6, <2>1, <2>3, <2>4 DEF Moves, Probed
<1>7. CASE l # x
  <2>1. Kept(l)
    <3>1. CASE HitAt(own, x)
      <4>1. ~HitAt(own, l)
        BY <1>7, <3>1 DEF HitAt
      <4> QED
        BY <1>1, <1>3, <4>1, DropIfKept
    <3>2. CASE ~HitAt(own, x)
      BY <1>1, <3>2, SameKept DEF InvalidateIf
    <3> QED
      BY <3>1, <3>2
  <2>2. ~AckDirty(l) /\ ~AckDirty(l)'
    BY <1>1, <1>2, <1>7 DEF AckDirty
  <2>3. (Carried(l)' <=> Carried(l)) /\ (Carrying(l)' <=> Carrying(l)) /\ d_mem_req' = d_mem_req
    BY <1>1 DEF Carried, Carrying, RspToL1D
  <2> QED
    BY <2>1, <2>2, <2>3 DEF Moves, Untouched, Kept
<1> QED
  BY <1>6, <1>7

L1DSteps == CpuStore \/ CpuChopInvalidate \/ CpuFlushCl \/ SocDmaInval \/ L1DStep

\* A drop walk finds no dirty copy: the writeback walk before the transfer settled
\* the page.
LEMMA PageClean ==
    ASSUME Ground, CleanInv, d_state = "FLUSH_PG", d_cl.inval
    PROVE  PgLine[d_pg_off] \in Line /\ ~DirtyAt(PgLine[d_pg_off])
<1>1. PgLine[d_pg_off] \in PageSet /\ PgLine[d_pg_off] \in Line
  BY PageAssumption DEF Ground, TypeOK, L1DTypeOK, PageSet
<1>2. core_op = "pg" /\ InPage
  BY DEF Ground, PresenceInv, TokenInv, InPage, Eff
<1>3. dma.mode = "xpg" /\ dma.phase = "post"
  BY <1>2 DEF Ground, DmaInv, PageInv
<1> QED
  BY <1>1, <1>3 DEF CleanInv, Settled

LEMMA L1DMoves ==
    ASSUME Discipline, Ground, CleanInv, DataInv, L1DSteps, NEW l \in Line
    PROVE  Moves(l) \/ Stored(l)
<1> USE DEF Ground
<1>a. ASSUME d_state \in {"ACTIVE", "FLUSH_CACHE", "FLUSH_PG"} PROVE Eff \notin WaitState
  BY <1>a DEF Eff, WaitState
<1>b. ReqSet \in DSet /\ d_req.line \in Line
  BY RegTypes, IndexAssumption DEF ReqSet
<1>c. \A x \in Line : SetOf[x][PaColour[x]] \in DSet
  BY IndexAssumption
<1>d. d_cl.line \in Line /\ d_dma_inval.line \in Line /\ d_cache_idx \in DSet
  BY RegTypes DEF TypeOK, L1DTypeOK
<1>e. PgLine[d_pg_off] \in Line
  BY PageAssumption DEF TypeOK, L1DTypeOK
<1>1. CASE CpuStore
  BY <1>1, StoreMoves
<1>2. CASE CpuChopInvalidate
  <2>1. Eff \notin WaitState
    BY <1>2, <1>a DEF CpuChopInvalidate, ChopInvalidate, Port1
  <2>2. InvalidateIf(HitAt(ReqSet, d_req.line), ReqSet)
    BY <1>2 DEF CpuChopInvalidate, ChopInvalidate, ReqHit
  <2>3. Request("INVL", d_req.line, d_req.colour, v0, TRUE, TRUE, "FLUSH_CL_WAIT")
    BY <1>2 DEF CpuChopInvalidate, ChopInvalidate
  <2>4. Discard(ReqSet, d_req.line)
    BY <1>2 DEF CpuChopInvalidate
  <2> QED
    BY <1>b, <2>1, <2>2, <2>3, <2>4, DiscardMoves
<1>3. CASE CpuFlushCl
  <2> DEFINE x == d_cl.line
             s == SetOf[x][PaColour[x]]
  <2>1. Eff \notin WaitState /\ s \in DSet /\ x \in Line
    BY <1>3, <1>a, <1>c, <1>d DEF CpuFlushCl, CoreFlushCl, Drained
  <2>2. CASE d_cl.inval
    <3>1. /\ InvalidateIf(HitAt(s, x), s) /\ Discard(s, x)
          /\ Request("INVL", x, PaColour[x], v0, TRUE, TRUE, "FLUSH_CL_WAIT")
      BY <1>3, <2>2 DEF CpuFlushCl, CoreFlushCl, FlushCl
    <3> QED
      BY <2>1, <3>1, DiscardMoves
  <2>3. CASE ~d_cl.inval /\ d_dirty[s]
    <3>1. /\ Invalidate(s) /\ UNCHANGED latest
          /\ Request("WB", d_tag[s], ColourOf[s], d_data[s], TRUE, TRUE, "FLUSH_CL_WAIT")
      BY <1>3, <2>3 DEF CpuFlushCl, CoreFlushCl, FlushCl
    <3>2. d_valid[s]
      BY <2>1, <2>3, DirtyValid
    <3> QED
      BY <2>1, <2>3, <3>1, <3>2, SendMoves
  <2>4. CASE ~d_cl.inval /\ ~d_dirty[s]
    <3>1. Invalidate(s) /\ UNCHANGED latest /\ quietBus
      BY <1>3, <2>4 DEF CpuFlushCl, CoreFlushCl, FlushCl
    <3>2. Kept(l)
      BY <2>1, <2>4, <3>1, DropKept
    <3> QED
      BY <3>1, <3>2, StillMoves
  <2> QED
    BY <2>2, <2>3, <2>4
<1>4. CASE SocDmaInval
  <2> DEFINE x == d_dma_inval.line
             s == SetOf[x][PaColour[x]]
  <2>1. Eff \notin WaitState /\ s \in DSet /\ x \in Line
    BY <1>4, <1>a, <1>c, <1>d DEF SocDmaInval, DmaInval, Drained
  <2>2. /\ InvalidateIf(HitAt(s, x), s) /\ Discard(s, x)
        /\ Request("INVL", x, PaColour[x], v0, TRUE, TRUE, "FLUSH_CL_WAIT")
    BY <1>4 DEF SocDmaInval, DmaInval, FlushCl
  <2> QED
    BY <2>1, <2>2, DiscardMoves
<1>5. CASE L1DStep
  <2>0. UNCHANGED latest
    BY <1>5 DEF L1DStep
  <2>1. CASE LoadHit \/ FlushPgStart \/ FlushCacheStart \/ ProbeTake
    <3>1. UNCHANGED dArrays /\ quietBus
      BY <2>1 DEF LoadHit, FlushPgStart, FlushCacheStart, ProbeTake, EnterProbe
    <3> QED
      BY <2>0, <3>1, SameKept, StillMoves
  <2>2. CASE UncachedDone \/ UncacheWb \/ FlushClWait \/ FlushPgWait \/ FlushCacheWait
    <3>1. Respond /\ UNCHANGED dArrays
      BY <2>2 DEF UncachedDone, UncacheWb, FlushClWait, FlushPgWait, FlushCacheWait
    <3> QED
      BY <2>0, <3>1, AnswerMoves
  <2>3. CASE VictimWriteback
    <3>1. /\ d_valid[ReqSet] /\ d_dirty[ReqSet] /\ d_state = "ACTIVE" /\ UNCHANGED dArrays
          /\ Request("SW", d_tag[ReqSet], d_req.colour, d_data[ReqSet], TRUE, TRUE, "INJECT_RELOAD")
      BY <2>3 DEF VictimWriteback, Port1
    <3> QED
      BY <1>a, <1>b, <2>0, <3>1, SendMoves
  <2>4. CASE Miss
    <3>1. /\ d_state = "ACTIVE" /\ UNCHANGED dArrays
          /\ Request("LW", d_req.line, d_req.colour, v0, TRUE, TRUE, "INJECT_RELOAD")
      BY <2>4 DEF Miss, Port1
    <3> QED
      BY <1>a, <2>0, <3>1, SameKept, AskMoves
  <2>5. CASE ChopWriteback
    <3>1. /\ d_valid[ReqSet] /\ d_dirty[ReqSet] /\ d_state = "ACTIVE" /\ Invalidate(ReqSet)
          /\ Request("WB", d_tag[ReqSet], d_req.colour, d_data[ReqSet], TRUE, TRUE, "FLUSH_CL_WAIT")
      BY <2>5 DEF ChopWriteback, Port1, ReqHit, HitAt
    <3> QED
      BY <1>a, <1>b, <2>0, <3>1, SendMoves
  <2>6. CASE UncachedAliasClean
    <3>1. ~d_dirty[ReqSet] /\ Invalidate(ReqSet) /\ quietBus
      BY <2>6 DEF UncachedAliasClean
    <3>2. Kept(l)
      BY <1>b, <3>1, DropKept
    <3> QED
      BY <2>0, <3>1, <3>2, StillMoves
  <2>7. CASE UncachedAliasDirty
    <3>1. /\ d_valid[ReqSet] /\ d_dirty[ReqSet] /\ d_state = "ACTIVE" /\ Invalidate(ReqSet)
          /\ Request("SW", d_tag[ReqSet], d_req.colour, d_data[ReqSet], TRUE, TRUE, "UNCACHE_WB")
      BY <2>7 DEF UncachedAliasDirty, Port1, ReqHit, HitAt
    <3> QED
      BY <1>a, <1>b, <2>0, <3>1, SendMoves
  <2>8. CASE UncachedIssue
    <3>1. d_state = "ACTIVE" /\ UNCHANGED dArrays
      BY <2>8 DEF UncachedIssue, SendUncached, Port1
    <3>2. PICK o, v, f, w : Request(o, d_req.line, d_req.colour, v, FALSE, f, w)
      BY <2>8 DEF UncachedIssue, SendUncached
    <3> QED
      BY <1>a, <2>0, <3>1, <3>2, SameKept, AskMoves
  <2>9. CASE Reload
    BY <2>0, <2>9, ReloadMoves
  <2>10. CASE FlushPg
    <3> DEFINE x == PgLine[d_pg_off]
               c == PaColour[x]
               s == SetOf[x][c]
    <3>1. d_state = "FLUSH_PG" /\ s \in DSet /\ x \in Line /\ InvalidateIf(HitAt(s, x), s)
      BY <1>c, <1>e, <2>10 DEF FlushPg
    <3>2. CASE PgWb(s, x)
      <4>1. d_tag[s] = x /\ d_valid[s] /\ d_dirty[s] /\ Invalidate(s)
        BY <3>1, <3>2 DEF PgWb, HitAt, InvalidateIf
      <4>2. Request("WB", x, c, d_data[s], TRUE, TRUE, "FLUSH_PG_WAIT")
        BY <2>10, <3>2 DEF FlushPg
      <4> QED
        BY <1>a, <2>0, <3>1, <4>1, <4>2, SendMoves
    <3>3. CASE ~PgWb(s, x)
      <4>1. ~(HitAt(s, x) /\ d_dirty[s])
        BY <3>1, <3>3, PageClean DEF PgWb, DirtyAt
      <4>2. Request(IF d_cl.inval THEN "PGDROP" ELSE "INVL", x, c, v0, TRUE, TRUE, "FLUSH_PG_WAIT")
        BY <2>10, <3>3 DEF FlushPg
      <4>3. Kept(l)
        <5>1. CASE HitAt(s, x)
          <6>1. ~d_dirty[s]
            BY <4>1, <5>1
          <6> QED
            BY <3>1, <6>1, DropIfKept
        <5>2. CASE ~HitAt(s, x)
          BY <3>1, <5>2, SameKept DEF InvalidateIf
        <5> QED
          BY <5>1, <5>2
      <4>4. PICK o : o \in {"PGDROP", "INVL"} /\ Request(o, x, c, v0, TRUE, TRUE, "FLUSH_PG_WAIT")
        BY <4>2
      <4> QED
        BY <1>a, <2>0, <3>1, <4>3, <4>4, AskMoves
    <3> QED
      BY <3>2, <3>3
  <2>11. CASE FlushCache
    <3>1. d_state = "FLUSH_CACHE" /\ Invalidate(d_cache_idx)
      BY <2>11 DEF FlushCache
    <3>2. CASE d_dirty[d_cache_idx]
      <4>1. PICK w : Request("SW", d_tag[d_cache_idx], ColourOf[d_cache_idx], d_data[d_cache_idx], TRUE, TRUE, w)
        BY <2>11, <3>2 DEF FlushCache
      <4>2. d_valid[d_cache_idx]
        BY <1>d, <3>2, DirtyValid
      <4> QED
        BY <1>a, <1>d, <2>0, <3>1, <3>2, <4>1, <4>2, SendMoves
    <3>3. CASE ~d_dirty[d_cache_idx]
      <4>1. quietBus
        BY <2>11, <3>3 DEF FlushCache
      <4>2. Kept(l)
        BY <1>d, <3>1, <3>3, DropKept
      <4> QED
        BY <2>0, <4>1, <4>2, StillMoves
    <3> QED
      BY <3>2, <3>3
  <2>12. CASE ProbeChk
    BY <2>0, <2>12, ProbeMoves
  <2> QED
    BY <1>5, <2>1, <2>2, <2>3, <2>4, <2>5, <2>6, <2>7, <2>8, <2>9, <2>10, <2>11, <2>12 DEF L1DStep
<1> QED
  BY <1>1, <1>2, <1>3, <1>4, <1>5 DEF L1DSteps

-----------------------------------------------------------------------------
\* What else an L1D action changes: the answer it takes, the walk it is on.
aboveVars == <<core_op, core_l1d_done, core_l2_done, dma, snoop_done>>
flushVars == <<l2_idx, l2_flush_req, l2_flush_complete>>

LEMMA L1DFrame ==
    ASSUME Ground, L1DSteps
    PROVE  /\ UNCHANGED belowVars /\ UNCHANGED aboveVars /\ UNCHANGED flushVars
           /\ UNCHANGED ack \/ ProbeChk
           /\ UNCHANGED <<d_mem_req, rsp, arb_state>> \/ ~RspToL1D'
           /\ rsp' = rsp \/ rsp' = NoRsp
<1> USE DEF Ground
<1>1. UNCHANGED <<l2Vars, coreVars, dmaVars>>
  BY DEF L1DSteps, L1DStep, CpuStore, CpuChopInvalidate, CpuFlushCl, SocDmaInval, l1dOnly
<1> DEFINE Bus == /\ UNCHANGED <<otherWires, ack>>
                  /\ \/ UNCHANGED <<d_mem_req, rsp, arb_state>>
                     \/ UNCHANGED <<rsp, arb_state>> /\ arb_state # "GNT_L1D"
                     \/ rsp' = NoRsp
<1>2. quietBus => Bus
  BY DEF quietBus, arbVars
<1>3. ASSUME NEW o, NEW x, NEW c, NEW v, NEW b, NEW f, NEW w, Request(o, x, c, v, b, f, w), Eff \notin WaitState
      PROVE  Bus
  <2>1. arb_state # "GNT_L1D"
    BY <1>3 DEF PresenceInv, FsmInv, BusInv, LatchInv
  <2> QED
    BY <1>3, <2>1 DEF Request, otherWires
<1>a. ASSUME d_state \in {"ACTIVE", "FLUSH_CACHE", "FLUSH_PG"} PROVE Eff \notin WaitState
  BY <1>a DEF Eff, WaitState
<1>6. Bus \/ ProbeChk
  <2>1. CASE CpuStore
    BY <2>1, <1>2 DEF CpuStore, StoreHit
  <2>2. CASE CpuChopInvalidate
    <3>1. Eff \notin WaitState
      BY <2>2, <1>a DEF CpuChopInvalidate, ChopInvalidate, Port1
    <3>2. Request("INVL", d_req.line, d_req.colour, v0, TRUE, TRUE, "FLUSH_CL_WAIT")
      BY <2>2 DEF CpuChopInvalidate, ChopInvalidate
    <3> QED
      BY <3>1, <3>2, <1>3
  <2>3. CASE CpuFlushCl \/ SocDmaInval
    <3>1. Eff \notin WaitState
      BY <2>3, <1>a DEF CpuFlushCl, CoreFlushCl, SocDmaInval, DmaInval, Drained
    <3>2. PICK x, i : FlushCl(x, i)
      BY <2>3 DEF CpuFlushCl, CoreFlushCl, SocDmaInval, DmaInval
    <3>3. CASE \E o, y, c, v : Sends(x, o, y, c, v)
      <4>1. PICK o, y, c, v : Sends(x, o, y, c, v)
        BY <3>3
      <4>2. Request(o, y, c, v, TRUE, TRUE, "FLUSH_CL_WAIT")
        BY <4>1 DEF Sends
      <4> QED
        BY <3>1, <4>2, <1>3
    <3>4. CASE ClearsClean(x)
      BY <3>4, <1>2 DEF ClearsClean
    <3> QED
      BY <3>2, <3>3, <3>4, FlushClCases
  <2>4. CASE L1DStep
    <3>1. CASE LoadHit \/ FlushPgStart \/ FlushCacheStart \/ ProbeTake \/ UncachedAliasClean
      BY <3>1, <1>2 DEF LoadHit, FlushPgStart, FlushCacheStart, ProbeTake, EnterProbe, UncachedAliasClean
    <3>2. CASE UncachedDone \/ UncacheWb \/ FlushClWait \/ FlushPgWait \/ FlushCacheWait \/ Reload
      <4>1. Respond
        BY <3>2 DEF UncachedDone, UncacheWb, FlushClWait, FlushPgWait, FlushCacheWait, Reload
      <4> QED
        BY <4>1 DEF Respond, TakeRsp
    <3>3. CASE VictimWriteback \/ Miss \/ ChopWriteback \/ UncachedAliasDirty \/ UncachedIssue
      <4>1. Eff \notin WaitState
        BY <3>3, <1>a DEF VictimWriteback, Miss, ChopWriteback, UncachedAliasDirty, UncachedIssue, Port1
      <4>2. \E o, x, c, v, b, f, w : Request(o, x, c, v, b, f, w)
        <5>1. CASE VictimWriteback
          BY <5>1 DEF VictimWriteback
        <5>2. CASE Miss
          BY <5>2 DEF Miss
        <5>3. CASE ChopWriteback
          BY <5>3 DEF ChopWriteback
        <5>4. CASE UncachedAliasDirty
          BY <5>4 DEF UncachedAliasDirty
        <5>5. CASE UncachedIssue
          BY <5>5 DEF UncachedIssue, SendUncached
        <5> QED
          BY <3>3, <5>1, <5>2, <5>3, <5>4, <5>5
      <4> QED
        BY <4>1, <4>2, <1>3
    <3>4. CASE FlushPg
      <4>1. Eff \notin WaitState
        BY <3>4, <1>a DEF FlushPg
      <4>2. \E o, x, c, v : Request(o, x, c, v, TRUE, TRUE, "FLUSH_PG_WAIT")
        BY <3>4 DEF FlushPg
      <4> QED
        BY <4>1, <4>2, <1>3
    <3>5. CASE FlushCache
      <4>1. Eff \notin WaitState
        BY <3>5, <1>a DEF FlushCache
      <4>2. (\E o, x, c, v, w : Request(o, x, c, v, TRUE, TRUE, w)) \/ quietBus
        BY <3>5 DEF FlushCache
      <4> QED
        BY <4>1, <4>2, <1>2, <1>3
    <3> QED
      BY <2>4, <3>1, <3>2, <3>3, <3>4, <3>5 DEF L1DStep
  <2> QED
    BY <2>1, <2>2, <2>3, <2>4 DEF L1DSteps
<1>7. UNCHANGED belowVars /\ UNCHANGED aboveVars /\ UNCHANGED flushVars
  <2>1. UNCHANGED <<dram, probe, snoop_done>>
    BY <1>6 DEF otherWires, ProbeChk
  <2> QED
    BY <1>1, <2>1 DEF belowVars, aboveVars, flushVars, l2Vars, l2Arrays, l2Flush, coreVars, dmaVars
<1>8. CASE Bus
  <2>1. UNCHANGED <<d_mem_req, rsp, arb_state>> \/ ~RspToL1D'
    BY <1>8 DEF RspToL1D, NoRsp
  <2> QED
    BY <1>7, <1>8, <2>1
<1>9. CASE ProbeChk
  BY <1>7, <1>9 DEF ProbeChk, arbVars
<1> QED
  BY <1>6, <1>8, <1>9

\* Only an answer to the page walk moves the walk past a line: the line it asked
\* about.
LEMMA VisitStep ==
    ASSUME Ground, L1DSteps, NEW l \in Line, Visited(l)', ~Visited(l)
    PROVE  FlushPgWait /\ UNCHANGED <<dArrays, latest>> /\ (l \in PageSet => l = d_mem_req.line)
<1> USE DEF Ground
<1>1. core_op = "pg" /\ UNCHANGED <<core_op, core_l1d_done>> /\ ~core_l1d_done /\ ~d_flush_complete
  BY L1DFrame DEF Visited, aboveVars
<1>2. d_req.op = "none" /\ d_flush_req \in {"none", "pg"} /\ ~InWalk /\ ~InLine
  BY <1>1 DEF PresenceInv, TokenInv
<1>3. \/ d_flush_complete'
      \/ InPage' /\ \E k \in 0 .. PgLines - 1 : k < d_pg_off' /\ PgLine[k] = l
  BY <1>1 DEF Visited
<1>4. ~(InPage /\ \E k \in 0 .. PgLines - 1 : k < d_pg_off /\ PgLine[k] = l)
  BY <1>1 DEF Visited
<1>5. d_pg_off \in 0 .. PgLines - 1 /\ PgLines \in Nat
  BY PageAssumption DEF TypeOK, L1DTypeOK
<1>6. ASSUME d_flush_complete' = d_flush_complete, InPage' => InPage /\ d_pg_off' = d_pg_off PROVE FALSE
  BY <1>1, <1>3, <1>4, <1>6
<1>7. ~CpuStore /\ ~CpuChopInvalidate
  BY <1>2 DEF CpuStore, StoreHit, CpuChopInvalidate, ChopInvalidate, Port1
<1>8. ~CpuFlushCl
  BY <1>2 DEF CpuFlushCl, CoreFlushCl
<1>9. ~SocDmaInval
  <2>1. SUFFICES ASSUME SocDmaInval PROVE FALSE
    OBVIOUS
  <2>2. d_flush_complete' = d_flush_complete /\ d_state' = "FLUSH_CL_WAIT"
    BY <2>1 DEF SocDmaInval, DmaInval, FlushCl, Request
  <2> QED
    BY <1>6, <2>2 DEF InPage, Eff
<1>10. L1DStep
  BY <1>7, <1>8, <1>9 DEF L1DSteps
<1>11. ~LoadHit /\ ~VictimWriteback /\ ~Miss /\ ~ChopWriteback /\ ~UncachedAliasClean /\ ~UncachedAliasDirty
       /\ ~UncachedIssue
  BY <1>2 DEF LoadHit, VictimWriteback, Miss, ChopWriteback, UncachedAliasClean, UncachedAliasDirty,
     UncachedIssue, Port1
<1>12. ~Reload /\ ~UncachedDone /\ ~UncacheWb
  BY <1>2 DEF Reload, UncachedDone, UncacheWb, PresenceInv, FsmInv, Eff
<1>13. ~FlushClWait
  <2>1. SUFFICES ASSUME FlushClWait PROVE FALSE
    OBVIOUS
  <2>2. d_cl_is_dma
    BY <1>2, <2>1 DEF FlushClWait, InLine, Eff
  <2>3. ~d_flush_complete' /\ d_state' = "ACTIVE"
    BY <1>1, <2>1, <2>2 DEF FlushClWait
  <2> QED
    BY <1>3, <2>3 DEF InPage, Eff
<1>14. ~FlushPgStart
  <2>1. SUFFICES ASSUME FlushPgStart PROVE FALSE
    OBVIOUS
  <2>2. ~d_flush_complete' /\ d_pg_off' = 0
    BY <1>1, <2>1 DEF FlushPgStart
  <2> QED
    BY <1>3, <1>5, <2>2
<1>15. ~FlushPg
  BY <1>6 DEF FlushPg, InPage, Eff
<1>16. ~FlushCacheStart /\ ~FlushCache /\ ~FlushCacheWait
  BY <1>2 DEF FlushCacheStart, FlushCache, FlushCacheWait, InWalk, Eff
<1>17. ~ProbeTake /\ ~ProbeChk
  <2>1. ASSUME ProbeTake \/ ProbeChk PROVE FALSE
    <3>1. UNCHANGED <<d_flush_complete, d_pg_off>>
      BY <2>1 DEF ProbeTake, EnterProbe, ProbeChk, dFlush
    <3>2. Eff' = Eff
      BY <2>1, RegTypes DEF ProbeTake, EnterProbe, ProbeChk, Eff, TypeOK, L1DTypeOK, WaitState
    <3> QED
      BY <1>6, <3>1, <3>2 DEF InPage
  <2> QED
    BY <2>1
<1>18. FlushPgWait
  BY <1>10, <1>11, <1>12, <1>13, <1>14, <1>15, <1>16, <1>17 DEF L1DStep
<1>19. UNCHANGED <<dArrays, latest>>
  BY <1>10, <1>18 DEF L1DStep, FlushPgWait
<1>20. ASSUME l \in PageSet PROVE l = d_mem_req.line
  <2>1. d_mem_req.line = PgLine[d_pg_off] /\ InPage
    BY <1>18 DEF FlushPgWait, DmaInv, PageInv, Eff, InPage
  <2>2. PICK k \in 0 .. PgLines - 1 : PgLine[k] = l
    BY <1>20 DEF PageSet
  <2>3. ~(k < d_pg_off)
    BY <1>4, <2>1, <2>2
  <2>4. CASE d_pg_off = PgLines - 1
    <3>1. k = d_pg_off
      BY <1>5, <2>3, <2>4
    <3> QED
      BY <2>1, <2>2, <3>1
  <2>5. CASE d_pg_off # PgLines - 1
    <3>1. d_pg_off' = d_pg_off + 1 /\ ~d_flush_complete'
      BY <1>1, <1>18, <2>5 DEF FlushPgWait
    <3>2. PICK j \in 0 .. PgLines - 1 : j < d_pg_off + 1 /\ PgLine[j] = l
      BY <1>3, <3>1
    <3>3. ~(j < d_pg_off)
      BY <1>4, <2>1, <3>2
    <3>4. j = d_pg_off
      BY <1>5, <3>2, <3>3
    <3> QED
      BY <2>1, <3>2, <3>4
  <2> QED
    BY <2>4, <2>5
<1> QED
  BY <1>18, <1>19, <1>20

\* By then the line is nowhere but in DRAM.
LEMMA PageAnswered ==
    ASSUME Ground, L1DSteps, FlushPgWait, UNCHANGED dArrays, NEW l, l = d_mem_req.line
    PROVE  Nowhere(l)'
<1> USE DEF Ground
<1>1. RspToL1D /\ d_mem_req'.op = "none" /\ d_mem_req.op \in {"WB", "INVL", "PGDROP"}
  BY DEF FlushPgWait, Respond, NoMemReq, PresenceInv, FsmInv, Eff
<1>2. ~HoldsL2(l)
  BY <1>1 DEF WorkInv, AnsweredInv
<1>3. l2_state = "IDLE"
  <2>1. l2_state = "IDLE" \/ (Posted /\ Matches)
    BY <1>1 DEF PresenceInv, BusInv, AnswerInv, RspToL1D
  <2> QED
    BY <1>1, <2>1 DEF Posted, Matches
<1>4. ~Served(l) /\ ~AckDirty(l) /\ ~Leaving(l) /\ ~PrbDirty(l)
  BY <1>3 DEF WorkInv, RegInv, Busy, Served, AckDirty, PresenceInv, ProbeInv, Leaving, PrbDirty
<1>5. ~Copy(l)
  <2>1. SUFFICES ASSUME NEW s \in DSet, HitAt(s, l) PROVE FALSE
    BY DEF Copy
  <2> QED
    BY <1>2, <2>1 DEF PresenceInv, CopyInv, Presence, HitAt, HoldsL2
<1>6. UNCHANGED belowVars /\ UNCHANGED ack
  BY L1DFrame DEF FlushPgWait, Respond
<1>7. ~Served(l)' /\ ~Leaving(l)' /\ ~PrbDirty(l)' /\ ~HoldsL2(l)'
  BY <1>2, <1>4, <1>6, BelowSame
<1>8. ~AckDirty(l)' /\ ~Carried(l)' /\ ~Copy(l)'
  BY <1>1, <1>4, <1>5, <1>6 DEF belowVars, AckDirty, Carried, Copy, HitAt, dArrays
<1> QED
  BY <1>7, <1>8 DEF Nowhere

\* While a device's write is not announced yet, no copy is newer than it.
LEMMA PostSettled ==
    ASSUME Discipline, DmaInv, CleanInv, dma.phase = "post", dma.line \in Line, dma.mode \in {"snoop", "xpg"}
    PROVE  Settled(dma.line) /\ InDma(dma.line)
<1>1. CASE dma.mode = "snoop"
  <2>1. dma.line \notin StoreLine
    BY <1>1 DEF Discipline, NoSnoopedStore, DmaInv, SnoopInv
  <2> QED
    BY <1>1, <2>1 DEF CleanInv, InDma
<1>2. CASE dma.mode = "xpg"
  <2>1. dma.line \in PageSet
    BY <1>2 DEF DmaInv, PageInv
  <2> QED
    BY <1>2, <2>1 DEF CleanInv, InDma
<1> QED
  BY <1>1, <1>2

\* The drop counters stay at zero.
LEMMA L1DCount ==
    ASSUME Ground, CleanInv, L1DSteps PROVE ~rsp'.dirty /\ d_pg_dirty_cnt' = 0
<1>0. ~rsp.dirty /\ d_pg_dirty_cnt = 0
  BY DEF CleanInv
<1>1. ~rsp'.dirty
  BY <1>0, L1DFrame DEF NoRsp
<1>2. CASE FlushPg
  <2> DEFINE x == PgLine[d_pg_off]
             s == SetOf[x][PaColour[x]]
  <2>1. d_state = "FLUSH_PG"
    BY <1>2 DEF FlushPg
  <2>2. s \in DSet
    BY IndexAssumption, PageAssumption DEF Ground, TypeOK, L1DTypeOK
  <2>3. ~(d_cl.inval /\ HitAt(s, x) /\ d_dirty[s])
    BY <2>1, <2>2, PageClean DEF DirtyAt
  <2>4. d_pg_dirty_cnt' = d_pg_dirty_cnt
    BY <1>2, <2>3 DEF FlushPg
  <2> QED
    BY <1>0, <1>1, <2>4
<1>3. CASE FlushPgWait
  <2>1. d_pg_dirty_cnt' = d_pg_dirty_cnt
    BY <1>0, <1>3 DEF FlushPgWait
  <2> QED
    BY <1>0, <1>1, <2>1
<1>4. CASE ~FlushPg /\ ~FlushPgWait
  <2>1. d_pg_dirty_cnt' = d_pg_dirty_cnt
    <3>1. CASE CpuStore \/ CpuChopInvalidate \/ CpuFlushCl \/ SocDmaInval
      BY <3>1 DEF CpuStore, StoreHit, CpuChopInvalidate, ChopInvalidate, CpuFlushCl, CoreFlushCl,
         SocDmaInval, DmaInval, dFlush
    <3>2. CASE L1DStep
      BY <1>4, <3>2 DEF L1DStep, LoadHit, VictimWriteback, Miss, ChopWriteback, UncachedAliasClean,
         UncachedAliasDirty, UncachedIssue, SendUncached, Reload, UncachedDone, UncacheWb, FlushClWait,
         FlushPgStart, FlushCacheStart, FlushCache, FlushCacheWait, ProbeTake, EnterProbe, ProbeChk, dFlush
    <3> QED
      BY <3>1, <3>2 DEF L1DSteps
  <2> QED
    BY <1>0, <1>1, <2>1
<1> QED
  BY <1>2, <1>3, <1>4

\* Every step of the L1D keeps the invariant.
LEMMA L1DData ==
    ASSUME Discipline, Ground, CleanInv, DataInv, L1DSteps
    PROVE  CleanInv' /\ DataInv'
<1> USE DEF Ground
<1>1. /\ UNCHANGED belowVars /\ UNCHANGED aboveVars /\ UNCHANGED flushVars
      /\ UNCHANGED ack \/ ProbeChk
      /\ UNCHANGED <<d_mem_req, rsp, arb_state>> \/ ~RspToL1D'
  BY L1DFrame
<1>2. ASSUME NEW l \in Line PROVE Moves(l) \/ Stored(l)
  BY <1>2, L1DMoves
<1>3. ASSUME NEW l \in Line, Settled(l), ~(l \in StoreLine /\ ~InDma(l) /\ core_op = "none")
      PROVE  Settled(l)'
  BY <1>1, <1>2, <1>3, MoveSettles DEF Stored
<1>4. dma.line \in Line /\ dma.mode \in {"snoop", "xpg"}
  BY DEF TypeOK
<1>a. UNCHANGED <<core_op, core_l1d_done, core_l2_done, dma, snoop_done, dram, probe>> /\ UNCHANGED belowVars
  BY <1>1 DEF aboveVars, belowVars
<1>b. UNCHANGED <<l2_idx, l2_flush_complete, l2_state, l2_valid>>
  BY <1>1 DEF flushVars, belowVars
<1>5. ASSUME NEW l \in PageSet, Visited(l)', ~Visited(l) PROVE Nowhere(l)' /\ UNCHANGED latest
  <2>1. l \in Line
    BY PageAssumption DEF PageSet
  <2> QED
    BY <1>5, <2>1, VisitStep, PageAnswered
<1>6. CleanInv'
  <2>1. \A l \in Line : l \notin StoreLine => Settled(l)'
    BY <1>3 DEF CleanInv
  <2>2. ASSUME dma.mode = "xpg", dma.phase # "idle", NEW l \in PageSet, Visited(l)' \/ dma.phase # "pre"
        PROVE  Settled(l)'
    <3>1. CASE Visited(l)' /\ ~Visited(l)
      BY <1>5, <3>1, NowhereSettled
    <3>2. CASE Visited(l) \/ dma.phase # "pre"
      <4>1. Settled(l) /\ InDma(l) /\ l \in Line
        BY <2>2, <3>2, PageAssumption DEF CleanInv, InDma, PageSet
      <4> QED
        BY <4>1, <1>3
    <3> QED
      BY <2>2, <3>1, <3>2
  <2>3. core_op = "all" /\ (l2_flush_complete \/ core_l2_done) => \A l \in Line : Settled(l)'
    BY <1>3 DEF CleanInv
  <2>4. ~rsp'.dirty /\ d_pg_dirty_cnt' = 0
    BY L1DCount
  <2> QED
    BY <1>a, <1>b, <2>1, <2>2, <2>3, <2>4 DEF CleanInv
<1>7. ASSUME NEW l \in Line, ~Stale(l)' PROVE Fresh(l)'
  <2>1. CASE ~Stale(l)
    BY <1>1, <1>2, <2>1, MoveFreshens DEF DataInv
  <2>2. CASE Stale(l)
    <3>1. Visited(l)' /\ ~Visited(l) /\ l = dma.line /\ dma.phase = "post"
      BY <1>7, <1>a, <2>2 DEF Stale
    <3>2. core_op = "pg"
      BY <1>a, <3>1 DEF Visited
    <3>3. l \in PageSet
      BY <3>1, <3>2 DEF DmaInv, PageInv
    <3>4. dram'[l] = latest'[l]
      BY <1>5, <1>a, <3>1, <3>3 DEF DataInv
    <3> QED
      BY <1>5, <3>1, <3>3, <3>4, NowhereFresh
  <2> QED
    BY <2>1, <2>2
<1>8. ack'.valid /\ Carried(probe.line)' => ack'.dirty
  <2>1. SUFFICES ASSUME NEW l \in Line, l = probe.line, ack'.valid, Carried(l)' PROVE ack'.dirty
    <3>1. probe.line \in Line /\ probe' = probe
      BY <1>a, RegTypes
    <3> QED
      BY <3>1 DEF Carried
  <2>2. CASE ProbeChk
    <3>1. Moves(l) \/ Stored(l)
      BY <1>2
    <3>2. ~ack.valid
      BY <2>2 DEF ProbeChk, PresenceInv, FsmInv, ProbePending
    <3>3. CASE Untouched(l)
      <4>1. d_mem_req' = d_mem_req /\ d_state = "PROBE_CHK" /\ probe.req
            /\ (InTransit => ack'.dirty)
        BY <2>2 DEF ProbeChk, PresenceInv, FsmInv, ProbePending
      <4>2. Carried(l) /\ d_prb_ret # "ACTIVE"
        BY <2>1, <4>1 DEF Carried, PresenceInv, FsmInv, Eff, WaitState
      <4> QED
        BY <2>1, <4>1, <4>2 DEF InTransit, Carried
    <3>4. CASE Probed(l)
      BY <2>1, <3>4 DEF Probed, Carried
    <3>5. CASE Stored(l) \/ Sent(l) \/ Discarded(l)
      BY <2>1, <3>2, <3>5 DEF Stored, Sent, Discarded
    <3> QED
      BY <3>1, <3>3, <3>4, <3>5 DEF Moves
  <2>3. CASE UNCHANGED ack
    <3>1. ack.valid /\ ~Copy(l)
      BY <2>1, <2>3 DEF PresenceInv, ProbeInv, NoCopy, Copy
    <3>2. CASE Untouched(l)
      BY <2>1, <2>3, <3>1, <3>2 DEF Untouched, DataInv
    <3>3. CASE Stored(l) \/ Sent(l) \/ Discarded(l)
      BY <3>1, <3>3, DirtyCopy DEF Stored, Sent, Discarded
    <3>4. CASE Probed(l)
      BY <3>1, <3>4 DEF Probed
    <3> QED
      BY <1>2, <3>2, <3>3, <3>4 DEF Moves
  <2> QED
    BY <1>1, <2>2, <2>3
<1>9. ASSUME NEW l \in Line, l = dma.line, ~DirtyAt(l), InDma(l) PROVE latest'[l] = latest[l] /\ ~DirtyAt(l)'
  <2>1. Moves(l)
    BY <1>2, <1>9 DEF Stored
  <2> QED
    BY <1>9, <2>1 DEF Moves, Untouched, Sent, Discarded, Probed, Copy, DirtyAt
<1>10. RspToL1D' /\ d_mem_req'.op = "LW" /\ ~Stale(d_mem_req.line)' => rsp'.data = latest'[d_mem_req'.line]
  <2>1. SUFFICES ASSUME NEW l \in Line, l = d_mem_req.line, RspToL1D', d_mem_req'.op = "LW", ~Stale(l)',
                        UNCHANGED <<d_mem_req, rsp, arb_state>>
                 PROVE  rsp'.data = latest'[l]
    BY <1>1, RegTypes
  <2>2. RspToL1D /\ d_mem_req.op = "LW"
    BY <2>1 DEF RspToL1D
  <2>3. ~Stale(l)
    <3>1. ASSUME Stale(l) PROVE FALSE
      <4>1. Visited(l)' /\ ~Visited(l)
        BY <1>a, <2>1, <3>1 DEF Stale
      <4>2. FlushPgWait
        BY <4>1, VisitStep
      <4> QED
        BY <2>1, <2>2, <4>2 DEF FlushPgWait, Respond, NoMemReq
    <3> QED
      BY <3>1
  <2>4. Moves(l)
    BY <1>2, <2>2 DEF Stored
  <2>5. latest'[l] = latest[l]
    BY <2>2, <2>4 DEF Moves, Untouched, Sent, Discarded, Probed
  <2> QED
    BY <2>1, <2>2, <2>3, <2>5 DEF DataInv
<1>11. dma.phase = "post" => dram[dma.line] = latest'[dma.line]
  <2>1. SUFFICES ASSUME dma.phase = "post" PROVE dram[dma.line] = latest'[dma.line]
    OBVIOUS
  <2>2. ~DirtyAt(dma.line) /\ InDma(dma.line)
    BY <1>4, <2>1, PostSettled DEF Settled
  <2> QED
    BY <1>4, <1>9, <2>1, <2>2 DEF DataInv
<1>12. dma.mode = "snoop" /\ (dma.phase = "xfer" \/ (dma.phase = "pre" /\ snoop_done)) =>
          dram[dma.line] = latest'[dma.line] /\ ~DirtyAt(dma.line)'
  <2>1. SUFFICES ASSUME NEW l \in Line, l = dma.line, dma.mode = "snoop", dma.phase = "xfer" \/ (dma.phase = "pre" /\ snoop_done)
                 PROVE  dram[l] = latest'[l] /\ ~DirtyAt(l)'
    BY <1>4, <1>a DEF DirtyAt, HitAt
  <2>2. InDma(l) /\ dram[l] = latest[l] /\ ~DirtyAt(l)
    BY <2>1 DEF InDma, DataInv
  <2> QED
    BY <1>9, <2>1, <2>2
<1>13. DataInv'
  BY <1>7, <1>8, <1>10, <1>11, <1>12, <1>a DEF DataInv
<1> QED
  BY <1>6, <1>13

-----------------------------------------------------------------------------
\* What a step of the L2 may do to one line.
upVars == <<d_valid, d_dirty, d_tag, d_data, d_mem_req, arb_state>>

Keeps(l) == (Settled(l) => Settled(l)') /\ (Fresh(l) => Fresh(l)')

LEMMA UpSame ==
    ASSUME UNCHANGED upVars, NEW l
    PROVE  /\ \A s \in DSet : (HitAt(s, l)' <=> HitAt(s, l)) /\ d_data'[s] = d_data[s]
           /\ DirtyAt(l)' <=> DirtyAt(l)
           /\ Carried(l)' <=> Carried(l)
           /\ d_mem_req' = d_mem_req
BY DEF upVars, HitAt, DirtyAt, Carried

\* The step leaves the line alone.
Rests(l) ==
    LET i == L2Of[l]
    IN  /\ dram'[l] = dram[l] /\ latest'[l] = latest[l]
        /\ (Served(l)' <=> Served(l)) /\ (Served(l) => l2_r'.data = l2_r.data)
        /\ (Leaving(l)' <=> Leaving(l)) /\ (Leaving(l) => l2_wb'.data = l2_wb.data)
        /\ (AckDirty(l)' <=> AckDirty(l)) /\ (AckDirty(l) => ack'.data = ack.data)
        /\ (PrbDirty(l)' <=> PrbDirty(l)) /\ (PrbDirty(l) => l2_prb'.data = l2_prb.data)
        /\ InL2(l)' <=> InL2(l)
        /\ InL2(l) => l2_data'[i] = l2_data[i] /\ (l2_dirty'[i] <=> l2_dirty[i])
        /\ HoldsL2(l)' /\ l2_dirty'[i] => HoldsL2(l) /\ l2_dirty[i]
        /\ InL2(l) /\ Carrying(l) /\ l2_pd[i] /\ ~(l2_prb.done /\ Idx = i) =>
              Carrying(l)' /\ l2_pd'[i] /\ ~(l2_prb'.done /\ Idx' = i)

LEMMA RestKeeps == ASSUME UNCHANGED upVars, NEW l, Rests(l) PROVE Keeps(l)
<1>1. ASSUME Settled(l) PROVE Settled(l)'
  BY <1>1, UpSame DEF Settled, Rests
<1>2. ASSUME Fresh(l) PROVE Fresh(l)'
  <2> DEFINE i == L2Of[l]
  <2>1. /\ \A s \in DSet : HitAt(s, l)' => d_data'[s] = latest'[l]
        /\ Carried(l)' => d_mem_req'.data = latest'[l]
        /\ Served(l)' => l2_r'.data = latest'[l]
        /\ AckDirty(l)' => ack'.data = latest'[l]
        /\ Leaving(l)' => l2_wb'.data = latest'[l]
        /\ PrbDirty(l)' => l2_prb'.data = latest'[l]
    BY <1>2, UpSame DEF Fresh, Rests
  <2>2. InL2(l)' /\ l2_data'[i] # latest'[l] =>
              \/ DirtyAt(l)' \/ AckDirty(l)' \/ PrbDirty(l)' \/ Served(l)'
              \/ Carrying(l)' /\ l2_pd'[i] /\ ~(l2_prb'.done /\ Idx' = i)
    BY <1>2, UpSame DEF Fresh, Rests
  <2>3. /\ ~InL2(l)' /\ dram'[l] # latest'[l] => Leaving(l)' \/ Served(l)'
        /\ InL2(l)' /\ ~l2_dirty'[i] => l2_data'[i] = dram'[l]
    BY <1>2 DEF Fresh, Rests
  <2> QED
    BY <2>1, <2>2, <2>3 DEF Fresh
<1> QED
  BY <1>1, <1>2 DEF Keeps

\* The L2 answers the request it serves, so an answer ends no other writeback.
LEMMA CarryKept ==
    ASSUME Ground, UNCHANGED <<d_mem_req, arb_state>>, NEW l, ~Served(l), rsp' = rsp \/ Serving
    PROVE  Carrying(l) => Carrying(l)'
<1>1. SUFFICES ASSUME Carrying(l), RspToL1D' PROVE FALSE
  BY DEF Carrying, Carried
<1>2. CASE rsp' = rsp
  BY <1>1, <1>2 DEF Carrying, RspToL1D
<1>3. CASE Serving
  <2>1. arb_state = "GNT_L1D"
    BY <1>1 DEF RspToL1D
  <2>2. Matches
    BY <1>3, <2>1 DEF Ground, PresenceInv, BusInv, ServeInv
  <2> QED
    BY <1>1, <2>2, RegTypes DEF Carrying, Carried, Served, Matches, Ground
<1> QED
  BY <1>2, <1>3

\* A decision in CHECK leaves every line but the resident one alone.
OutOfCheck(l) ==
    /\ l2_state = "CHECK" /\ UNCHANGED upVars /\ UNCHANGED <<probe, ack>>
    /\ dram'[l] = dram[l] /\ latest'[l] = latest[l] /\ (rsp' = rsp \/ Serving)
    /\ \/ l2_r' = l2_r /\ (l2_prb' = l2_prb \/ l2_prb' = [l2_prb EXCEPT !.dirty = FALSE])
       \/ l2_r' = NoL2Req /\ l2_prb' = NoPrb /\ l2_state' = "IDLE"
    /\ l2_state' \in {"DIRTY_STORE", "UNCACHE_WB_DRAIN"} => HoldsL2(l2_wb'.line) /\ L2Of[l2_wb'.line] = Idx
    /\ l2_state' # "FLUSH_STORE"
    /\ L2Of[l] # Idx => LET i == L2Of[l]
                        IN  /\ l2_valid'[i] = l2_valid[i] /\ l2_tag'[i] = l2_tag[i] /\ l2_pd'[i] = l2_pd[i]
                            /\ l2_dirty'[i] = l2_dirty[i] /\ l2_data'[i] = l2_data[i]
    /\ HoldsL2(l)' => HoldsL2(l)

LEMMA Elsewhere ==
    ASSUME Ground, NEW l \in Line, OutOfCheck(l), L2Of[l] # Idx \/ ~HoldsL2(l),
           l2_r' = l2_r \/ ~Served(l), rsp' = rsp \/ ~Served(l)
    PROVE  Rests(l)
<1> DEFINE i == L2Of[l]
<1> USE DEF OutOfCheck
<1>1. UNCHANGED <<d_mem_req, arb_state>>
  BY DEF upVars
<1>2. (Served(l)' <=> Served(l)) /\ (Served(l) => l2_r'.data = l2_r.data)
  BY DEF Served, NoL2Req
<1>3. ~Leaving(l) /\ ~Leaving(l)'
  BY DEF Leaving
<1>4. (AckDirty(l)' <=> AckDirty(l)) /\ (AckDirty(l) => ack'.data = ack.data)
  BY DEF AckDirty
<1>5. /\ InL2(l)' <=> InL2(l)
      /\ InL2(l) => i # Idx
  BY DEF InL2, HoldsL2, Idx
<1>6. ~PrbDirty(l) /\ ~PrbDirty(l)'
  BY <1>5 DEF PrbDirty, NoPrb, Idx
<1>7. InL2(l) => l2_data'[i] = l2_data[i] /\ (l2_dirty'[i] <=> l2_dirty[i])
  BY <1>5
<1>8. HoldsL2(l)' /\ l2_dirty'[i] => HoldsL2(l) /\ l2_dirty[i]
  OBVIOUS
<1>9. ~(l2_prb'.done /\ Idx' = i) \/ ~InL2(l)
  BY <1>5 DEF NoPrb, Idx
<1>10. Carrying(l) => Carrying(l)'
  <2>1. CASE rsp' = rsp
    BY <1>1, <2>1 DEF Carrying, Carried, RspToL1D
  <2>2. CASE rsp' # rsp
    BY <1>1, <2>2, CarryKept
  <2> QED
    BY <2>1, <2>2
<1> QED
  BY <1>2, <1>3, <1>4, <1>5, <1>6, <1>7, <1>8, <1>9, <1>10 DEF Rests

\* The resident line is given up, written back first when it is newer than DRAM.
LEMMA Dropped ==
    ASSUME Ground, NEW l \in Line, HoldsL2(l), L2Of[l] = Idx, OutOfCheck(l), ~Copy(l), ~Served(l), ~AckDirty(l),
           ~(Carrying(l) /\ l2_pd[Idx] /\ ~l2_prb.done), ~InL2(l)',
           \/ /\ l2_wb'.line = l /\ l2_wb'.data = (IF l2_prb.dirty THEN l2_prb.data ELSE l2_data[Idx])
              /\ l2_state' \in {"DIRTY_STORE", "UNCACHE_WB_DRAIN"} /\ (l2_dirty[Idx] \/ l2_prb.dirty)
           \/ l2_state' \notin {"DIRTY_STORE", "UNCACHE_WB_DRAIN"} /\ ~l2_dirty[Idx] /\ ~l2_prb.dirty,
           HoldsL2(l)' => l2_dirty'[Idx] = l2_dirty[Idx]
    PROVE  Keeps(l)
<1> USE DEF OutOfCheck
<1>1. InL2(l) /\ (PrbDirty(l) <=> l2_prb.dirty)
  BY DEF InL2, HoldsL2, PrbDirty
<1>2. ~Served(l)' /\ ~AckDirty(l)' /\ ~PrbDirty(l)'
  BY DEF Served, NoL2Req, AckDirty, PrbDirty
<1>3. ASSUME Settled(l) PROVE Settled(l)'
  <2>1. ~l2_dirty[Idx] /\ ~l2_prb.dirty
    BY <1>1, <1>3 DEF Settled
  <2>2. ~Leaving(l)'
    BY <2>1 DEF Leaving
  <2> QED
    BY <1>2, <1>3, <2>1, <2>2, UpSame DEF Settled
<1>4. ASSUME Fresh(l) PROVE Fresh(l)'
  <2>1. ~DirtyAt(l)
    BY DirtyCopy
  <2>2. (IF l2_prb.dirty THEN l2_prb.data ELSE l2_data[Idx]) = latest[l]
    BY <1>1, <1>4, <2>1 DEF Fresh
  <2>3. Leaving(l)' => l2_wb'.data = latest'[l]
    BY <2>2 DEF Leaving
  <2>4. dram'[l] # latest'[l] => Leaving(l)'
    <3>1. ~l2_dirty[Idx] /\ ~l2_prb.dirty => dram[l] = latest[l]
      BY <1>1, <1>4, <2>2 DEF Fresh
    <3> QED
      BY <3>1 DEF Leaving
  <2>5. \A s \in DSet : ~HitAt(s, l)'
    BY UpSame DEF Copy
  <2>6. Carried(l)' => d_mem_req'.data = latest'[l]
    BY <1>4, UpSame DEF Fresh
  <2> QED
    BY <1>2, <2>3, <2>4, <2>5, <2>6 DEF Fresh
<1> QED
  BY <1>3, <1>4 DEF Keeps

\* A decision that concerns another line than the resident one.
LEMMA Unread ==
    ASSUME Ground, NEW l \in Line, OutOfCheck(l), UNCHANGED l2Arrays, ~l2_prb.dirty,
           l2_state' \notin {"DIRTY_STORE", "CLEAN_RELOAD", "UNCACHE_WB_DRAIN"},
           l2_r' = l2_r \/ ~Served(l), rsp' = rsp \/ ~Served(l)
    PROVE  Rests(l)
<1> DEFINE i == L2Of[l]
<1> USE DEF OutOfCheck
<1>1. UNCHANGED <<d_mem_req, arb_state>> /\ UNCHANGED <<l2_valid, l2_tag, l2_dirty, l2_data, l2_pd>>
  BY DEF upVars, l2Arrays
<1>2. (Served(l)' <=> Served(l)) /\ (Served(l) => l2_r'.data = l2_r.data)
  BY DEF Served, NoL2Req
<1>3. ~Leaving(l) /\ ~Leaving(l)'
  BY DEF Leaving
<1>4. (AckDirty(l)' <=> AckDirty(l)) /\ (AckDirty(l) => ack'.data = ack.data)
  BY DEF AckDirty
<1>5. (InL2(l)' <=> InL2(l)) /\ (HoldsL2(l)' <=> HoldsL2(l))
  BY <1>1 DEF InL2, HoldsL2
<1>6. ~PrbDirty(l) /\ ~PrbDirty(l)'
  BY DEF PrbDirty, NoPrb, Ground, TypeOK, L2TypeOK
<1>7. ~(l2_prb.done /\ Idx = i) => ~(l2_prb'.done /\ Idx' = i)
  BY DEF NoPrb, Idx, Ground, TypeOK, L2TypeOK
<1>8. Carrying(l) => Carrying(l)'
  <2>1. CASE rsp' = rsp
    BY <1>1, <2>1 DEF Carrying, Carried, RspToL1D
  <2>2. CASE rsp' # rsp
    BY <1>1, <2>2, CarryKept
  <2> QED
    BY <2>1, <2>2
<1> QED
  BY <1>1, <1>2, <1>3, <1>4, <1>5, <1>6, <1>7, <1>8 DEF Rests

\* What the L2's arrays hold after a drop.
LEMMA DropIfElse ==
    ASSUME TypeOK, DropIf(Hit, Idx), NEW l \in Line
    PROVE  /\ L2Of[l] # Idx => LET i == L2Of[l]
                               IN  /\ l2_valid'[i] = l2_valid[i] /\ l2_tag'[i] = l2_tag[i] /\ l2_pd'[i] = l2_pd[i]
                                   /\ l2_dirty'[i] = l2_dirty[i] /\ l2_data'[i] = l2_data[i]
           /\ HoldsL2(l)' => HoldsL2(l)
           /\ Hit /\ L2Of[l] = Idx => ~HoldsL2(l)'
           /\ ~Hit => UNCHANGED l2Arrays
<1>0. /\ l2_valid \in [L2Idx -> BOOLEAN] /\ l2_dirty \in [L2Idx -> BOOLEAN] /\ l2_pd \in [L2Idx -> BOOLEAN]
      /\ Idx \in L2Idx /\ L2Of[l] \in L2Idx
  BY ArrayTypes, LineTypes, IdxType
<1>1. CASE Hit
  <2>1. /\ l2_valid' = [l2_valid EXCEPT ![Idx] = FALSE] /\ l2_dirty' = [l2_dirty EXCEPT ![Idx] = FALSE]
        /\ l2_pd' = [l2_pd EXCEPT ![Idx] = FALSE] /\ UNCHANGED <<l2_tag, l2_data>>
    BY <1>1 DEF DropIf, Drop
  <2> QED
    BY <1>0, <1>1, <2>1 DEF HoldsL2
<1>2. CASE ~Hit
  BY <1>2 DEF DropIf, l2Arrays, HoldsL2
<1> QED
  BY <1>1, <1>2

\* A line the L2 holds at the request's index is the resident one.
LEMMA AtIdx ==
    ASSUME Ground
    PROVE  /\ \A l \in Line : HoldsL2(l) /\ L2Of[l] = Idx => l = Resident /\ l2_valid[Idx]
           /\ l2_valid[Idx] => HoldsL2(Resident) /\ L2Of[Resident] = Idx /\ Resident \in Line
           /\ Hit => Resident = l2_r.line
           /\ Idx \in L2Idx /\ l2_r.line \in Line
<1>1. Idx \in L2Idx /\ l2_tag[Idx] \in Line /\ l2_r.line \in Line
  BY IdxType, ArrayTypes, RegTypes DEF Ground
<1>2. l2_valid[Idx] => L2Of[l2_tag[Idx]] = Idx
  BY <1>1 DEF Ground, PresenceInv, CopyInv, PlaceInv
<1> QED
  BY <1>1, <1>2 DEF HoldsL2, Resident, Hit

\* A line the L2 does not hold after the step has no copy in the L1D.
LEMMA NoCopyLeft ==
    ASSUME PresenceInv', UNCHANGED upVars, NEW l, ~HoldsL2(l)' PROVE ~Copy(l)
<1>1. UNCHANGED <<d_valid, d_tag>>
  BY DEF upVars
<1> QED
  BY <1>1 DEF PresenceInv, CopyInv, Presence, Copy, HitAt, HoldsL2

\* No probe is on the wire when the L2 decides.
LEMMA NoProbeLeft == ASSUME Ground, l2_r.uncached \/ ~NeedProbe PROVE ~probe.req /\ \A l : ~AckDirty(l)
BY DEF Ground, PresenceInv, ProbeInv, AckDirty

\* The line is given up on a hit, and the others left alone.
LEMMA GiveUp ==
    ASSUME Ground, PresenceInv', NEW l \in Line, OutOfCheck(l), DropIf(Hit, Idx),
           l2_r.uncached \/ ~NeedProbe, ~Served(l2_r.line),
           Hit => ~(Carrying(l2_r.line) /\ l2_pd[Idx] /\ ~l2_prb.done), ~Hit => ~l2_prb.dirty,
           l2_state' \notin {"DIRTY_STORE", "CLEAN_RELOAD"},
           \/ /\ l2_wb'.line = Resident /\ l2_wb'.data = (IF l2_prb.dirty THEN l2_prb.data ELSE l2_data[Idx])
              /\ l2_state' = "UNCACHE_WB_DRAIN" /\ Hit /\ (l2_dirty[Idx] \/ l2_prb.dirty)
           \/ l2_state' # "UNCACHE_WB_DRAIN" /\ ~(Hit /\ (l2_dirty[Idx] \/ l2_prb.dirty))
    PROVE  Keeps(l)
<1> USE DEF Ground
<1>0. UNCHANGED upVars
  BY DEF OutOfCheck
<1>1. ~Served(l)
  BY DEF Served
<1>2. CASE L2Of[l] # Idx \/ ~HoldsL2(l)
  BY <1>0, <1>1, <1>2, Elsewhere, RestKeeps
<1>3. CASE L2Of[l] = Idx /\ HoldsL2(l) /\ ~Hit
  <2>1. UNCHANGED l2Arrays
    BY <1>3, DropIfElse
  <2>2. Rests(l)
    BY <1>1, <1>3, <2>1, Unread
  <2> QED
    BY <1>0, <2>2, RestKeeps
<1>4. CASE L2Of[l] = Idx /\ HoldsL2(l) /\ Hit
  <2>1. l = Resident /\ l = l2_r.line
    BY <1>4, AtIdx
  <2>2. ~HoldsL2(l)' /\ ~InL2(l)'
    BY <1>4, DropIfElse DEF InL2, HoldsL2
  <2>3. ~Copy(l) /\ ~AckDirty(l)
    BY <1>0, <2>2, NoCopyLeft, NoProbeLeft
  <2> QED
    BY <1>1, <1>4, <2>1, <2>2, <2>3, Dropped
<1> QED
  BY <1>2, <1>3, <1>4

-----------------------------------------------------------------------------
\* The arms of CHECK_VALID_AND_TAG.
L2Idles == UNCHANGED upVars /\ UNCHANGED latest

\* A request of the L1D that drops a line carries nothing.
LEMMA DropServes ==
    ASSUME Ground, l2_state = "CHECK", ~l2_r.uncached, l2_r.op \in {"INVL", "PGDROP"}
    PROVE  /\ Serving /\ arb_state = "GNT_L1D" /\ Matches /\ ~Served(l2_r.line)
           /\ \A l : ~Carried(l)
<1>1. Serving
  BY DEF Serving, Busy, Posted
<1>2. arb_state = "GNT_L1D" /\ Matches
  BY <1>1 DEF Ground, PresenceInv, BusInv, ServeInv
<1> QED
  BY <1>1, <1>2 DEF Matches, Carried, Served

LEMMA PurgeKeeps ==
    ASSUME Discipline, Ground, PresenceInv', UncachedPurge, L2Idles, NEW l \in Line PROVE Keeps(l)
<1> USE DEF Ground, L2Idles
<1>1. /\ l2_state = "CHECK" /\ l2_r.uncached /\ DropIf(Hit, Idx) /\ UNCHANGED <<l2_r, l2_prb, rsp, probe, ack, dram>>
  BY DEF UncachedPurge, checkKeeps
<1>2. ~l2_prb.done /\ ~l2_prb.dirty
  BY <1>1 DEF WorkInv, RegInv
<1>3. \/ /\ Hit /\ l2_dirty[Idx] /\ l2_state' = "UNCACHE_WB_DRAIN" /\ l2_wb'.line = Resident
         /\ l2_wb'.data = (IF l2_prb.dirty THEN l2_prb.data ELSE l2_data[Idx])
      \/ ~(Hit /\ l2_dirty[Idx]) /\ l2_state' \in {"UNCACHE_STORE", "UNCACHE_LOAD"}
  BY DEF UncachedPurge, PurgeDirty, Writeback
<1>4. OutOfCheck(l)
  <2>1. l2_state' = "UNCACHE_WB_DRAIN" => HoldsL2(l2_wb'.line) /\ L2Of[l2_wb'.line] = Idx
    BY <1>3, AtIdx DEF Hit
  <2> QED
    BY <1>1, <1>3, <2>1, DropIfElse DEF OutOfCheck
<1>5. ~Served(l2_r.line)
  BY <1>1 DEF Served
<1>6. ~Carrying(l2_r.line)
  <2>1. SUFFICES ASSUME Carried(l2_r.line) PROVE FALSE
    BY DEF Carrying
  <2>2. Serving /\ ~rsp.valid
    BY <1>1 DEF Serving, Busy, Posted, PresenceInv, BusInv, OpInv, UncachedPurge
  <2>3. ~Matches
    BY <1>1, <2>1, RegTypes DEF Carried, Matches
  <2>4. <<l2_r.line, ~l2_r.uncached>> \in IFetch
    BY <2>2, <2>3 DEF WorkInv, RegInv
  <2>5. PICK c \in CachedVA : c[1] = l2_r.line
    BY <2>1 DEF Carried, WorkInv, AskInv
  <2>6. <<l2_r.line, ~l2_r.uncached>>[2]
    BY <2>4, <2>5 DEF Discipline, NoUncachedSynonym
  <2> QED
    BY <1>1, <2>6
<1> QED
  BY <1>1, <1>2, <1>3, <1>4, <1>5, <1>6, GiveUp

LEMMA InvlKeeps ==
    ASSUME Ground, PresenceInv', Invl, L2Idles, NEW l \in Line PROVE Keeps(l)
<1> USE DEF Ground, L2Idles
<1>1. /\ l2_state = "CHECK" /\ ~l2_r.uncached /\ l2_r.op = "INVL" /\ ~NeedProbe /\ DropIf(Hit, Idx)
      /\ UNCHANGED <<probe, ack, dram>>
  BY DEF Invl, Check, checkKeeps
<1>2. /\ Serving /\ ~Served(l2_r.line) /\ ~Carrying(l2_r.line)
  BY <1>1, DropServes DEF Carrying
<1>3. ~Hit => ~l2_prb.dirty
  BY <1>1 DEF WorkInv, RegInv
<1>4. \/ /\ MustWrite /\ l2_state' = "UNCACHE_WB_DRAIN" /\ l2_wb'.line = Resident
         /\ l2_wb'.data = (IF l2_prb.dirty THEN l2_prb.data ELSE l2_data[Idx])
         /\ UNCHANGED <<l2_r, l2_prb, rsp>>
      \/ ~MustWrite /\ l2_state' = "IDLE" /\ l2_r' = NoL2Req /\ l2_prb' = NoPrb
  BY DEF Invl, Writeback, Done, Answer
<1>5. OutOfCheck(l)
  <2>1. l2_state' = "UNCACHE_WB_DRAIN" => HoldsL2(l2_wb'.line) /\ L2Of[l2_wb'.line] = Idx
    BY <1>4, AtIdx DEF Hit, MustWrite
  <2> QED
    BY <1>1, <1>2, <1>4, <2>1, DropIfElse DEF OutOfCheck
<1> QED
  BY <1>1, <1>2, <1>3, <1>4, <1>5, GiveUp DEF MustWrite

\* The drop walk of a page finds nothing newer than DRAM.
LEMMA PgDropSettled ==
    ASSUME Ground, CleanInv, l2_state = "CHECK", ~l2_r.uncached, l2_r.op = "PGDROP"
    PROVE  ~MustWrite
<1> USE DEF Ground
<1>1. Matches
  BY DropServes
<1>2. d_mem_req.op = "PGDROP" /\ d_mem_req.line = l2_r.line
  BY <1>1 DEF Matches
<1>3. Eff = "FLUSH_PG_WAIT"
  BY <1>2 DEF PresenceInv, FsmInv, WaitState
<1>4. InPage /\ core_op = "pg" /\ d_cl.inval /\ l2_r.line = PgLine[d_pg_off]
  BY <1>2, <1>3 DEF InPage, PresenceInv, TokenInv, DmaInv, PageInv
<1>5. dma.mode = "xpg" /\ dma.phase = "post" /\ l2_r.line \in PageSet
  BY <1>4 DEF DmaInv, PageInv, PageSet, TypeOK, L1DTypeOK
<1>6. Settled(l2_r.line)
  BY <1>5 DEF CleanInv
<1> QED
  BY <1>6 DEF Settled, MustWrite, PrbDirty, InL2, HoldsL2, Hit, Idx, Resident

LEMMA PgDropKeeps ==
    ASSUME Ground, PresenceInv', CleanInv, PgDrop, L2Idles, NEW l \in Line PROVE Keeps(l)
<1> USE DEF Ground, L2Idles
<1>1. /\ l2_state = "CHECK" /\ ~l2_r.uncached /\ l2_r.op = "PGDROP" /\ ~NeedProbe /\ DropIf(Hit, Idx)
      /\ UNCHANGED <<probe, ack, dram>> /\ l2_state' = "IDLE" /\ l2_r' = NoL2Req /\ l2_prb' = NoPrb
  BY DEF PgDrop, Check, checkKeeps, Done
<1>2. /\ Serving /\ ~Served(l2_r.line) /\ ~Carrying(l2_r.line)
  BY <1>1, DropServes DEF Carrying
<1>3. ~Hit => ~l2_prb.dirty
  BY <1>1 DEF WorkInv, RegInv
<1>4. ~MustWrite
  BY <1>1, PgDropSettled
<1>5. OutOfCheck(l)
  BY <1>1, <1>2, DropIfElse DEF OutOfCheck
<1> QED
  BY <1>1, <1>2, <1>3, <1>4, <1>5, GiveUp DEF MustWrite

LEMMA WbinvKeeps ==
    ASSUME Ground, PresenceInv', SnoopWbinv, L2Idles, NEW l \in Line PROVE Keeps(l)
<1> USE DEF Ground, L2Idles
<1>1. /\ l2_state = "CHECK" /\ ~l2_r.uncached /\ l2_r.op = "SNOOP" /\ ~NeedProbe /\ DropIf(Hit, Idx)
      /\ UNCHANGED <<probe, ack, dram, rsp>>
  BY DEF SnoopWbinv, Check, checkKeeps
<1>2. /\ ~Served(l2_r.line) /\ (Hit => ~(l2_pd[Idx] /\ ~l2_prb.done))
  BY <1>1 DEF Served, NeedProbe, SnoopProbe
<1>3. ~Hit => ~l2_prb.dirty
  BY <1>1 DEF WorkInv, RegInv
<1>4. \/ /\ MustWrite /\ l2_state' = "UNCACHE_WB_DRAIN" /\ l2_wb'.line = Resident
         /\ l2_wb'.data = (IF l2_prb.dirty THEN l2_prb.data ELSE l2_data[Idx])
         /\ UNCHANGED <<l2_r, l2_prb>>
      \/ ~MustWrite /\ l2_state' = "IDLE" /\ l2_r' = NoL2Req /\ l2_prb' = NoPrb
  BY DEF SnoopWbinv, Writeback, Done
<1>5. OutOfCheck(l)
  <2>1. l2_state' = "UNCACHE_WB_DRAIN" => HoldsL2(l2_wb'.line) /\ L2Of[l2_wb'.line] = Idx
    BY <1>4, AtIdx DEF Hit, MustWrite
  <2> QED
    BY <1>1, <1>4, <2>1, DropIfElse DEF OutOfCheck
<1> QED
  BY <1>1, <1>2, <1>3, <1>4, <1>5, GiveUp DEF MustWrite

LEMMA SnoopDropKeeps ==
    ASSUME Discipline, Ground, PresenceInv', CleanInv, SnoopDrop, L2Idles, NEW l \in Line
    PROVE  Keeps(l) /\ (dma.phase = "post" /\ l = dma.line => Nowhere(l)')
<1> USE DEF Ground, L2Idles
<1>1. /\ l2_state = "CHECK" /\ ~l2_r.uncached /\ l2_r.op = "SNOOP" /\ ~l2_r.wbinv /\ ~NeedProbe /\ DropIf(Hit, Idx)
      /\ UNCHANGED <<probe, ack, dram, rsp>> /\ l2_state' = "IDLE" /\ l2_r' = NoL2Req /\ l2_prb' = NoPrb
  BY DEF SnoopDrop, Check, checkKeeps, Done
<1>2. /\ ~Served(l2_r.line) /\ (Hit => ~(l2_pd[Idx] /\ ~l2_prb.done))
  BY <1>1 DEF Served, NeedProbe, SnoopProbe
<1>3. ~Hit => ~l2_prb.dirty
  BY <1>1 DEF WorkInv, RegInv
<1>4. dma.phase = "post" /\ dma.line = l2_r.line /\ dma.mode \in {"snoop", "xpg"}
  BY <1>1 DEF DmaInv, SnoopInv, TypeOK
<1>5. Settled(l2_r.line) /\ l2_r.line \in Line
  BY <1>4, PostSettled, RegTypes
<1>6. ~MustWrite
  BY <1>1, <1>5 DEF Settled, MustWrite, PrbDirty, InL2, HoldsL2, Hit, Idx, Resident
<1>7. OutOfCheck(l)
  BY <1>1, DropIfElse DEF OutOfCheck
<1>8. Keeps(l)
  BY <1>1, <1>2, <1>3, <1>6, <1>7, GiveUp DEF MustWrite
<1>9. ASSUME l = dma.line PROVE Nowhere(l)'
  <2>1. Settled(l)' /\ l = l2_r.line
    BY <1>4, <1>5, <1>8, <1>9 DEF Keeps
  <2>a. L2Of[l] = Idx /\ (HoldsL2(l) => Hit)
    BY <2>1 DEF Hit, Resident, Idx, HoldsL2
  <2>2. ~HoldsL2(l)'
    BY <1>1, <2>a, DropIfElse
  <2>3. ~Copy(l)'
    BY <2>2, NoCopyLeft, UpSame DEF Copy
  <2> QED
    BY <2>1, <2>2, <2>3 DEF Nowhere, Settled
<1> QED
  BY <1>8, <1>9

LEMMA ThroughKeeps ==
    ASSUME Ground, PresenceInv', WriteThrough, L2Idles, NEW l \in Line PROVE Keeps(l)
<1> USE DEF Ground, L2Idles
<1>1. /\ l2_state = "CHECK" /\ ~l2_r.uncached /\ l2_r.op = "WB" /\ l2_state' = "UNCACHE_STORE"
      /\ UNCHANGED <<l2_r, l2_prb, l2_wb, rsp, probe, ack, dram>>
  BY DEF WriteThrough, Check, checkKeeps
<1>2. ~l2_prb.done /\ ~l2_prb.dirty /\ ~NeedProbe
  BY <1>1 DEF WorkInv, RegInv, NeedProbe, Alias, SnoopProbe, VictimProbe
<1>3. /\ Idx \in L2Idx /\ L2Of[l] \in L2Idx
      /\ l2_valid \in [L2Idx -> BOOLEAN] /\ l2_pd \in [L2Idx -> BOOLEAN]
  BY AtIdx, LineTypes, ArrayTypes
<1>4. CASE Hit
  <2>1. /\ l2_valid' = [l2_valid EXCEPT ![Idx] = FALSE] /\ l2_pd' = [l2_pd EXCEPT ![Idx] = FALSE]
        /\ UNCHANGED <<l2_dirty, l2_tag, l2_data>>
    BY <1>4 DEF WriteThrough
  <2>2. OutOfCheck(l)
    <3>1. /\ L2Of[l] # Idx => l2_valid'[L2Of[l]] = l2_valid[L2Of[l]] /\ l2_pd'[L2Of[l]] = l2_pd[L2Of[l]]
          /\ HoldsL2(l)' => HoldsL2(l)
      BY <1>3, <2>1 DEF HoldsL2
    <3> QED
      BY <1>1, <2>1, <3>1 DEF OutOfCheck
  <2>3. CASE L2Of[l] # Idx \/ ~HoldsL2(l)
    BY <1>1, <2>2, <2>3, Elsewhere, RestKeeps
  <2>4. CASE L2Of[l] = Idx /\ HoldsL2(l)
    <3>1. l = l2_r.line
      BY <1>4, <2>4, AtIdx
    <3>2. Served(l) /\ Served(l)'
      BY <1>1, <3>1 DEF Served
    <3>3. ~HoldsL2(l)' /\ ~InL2(l)'
      BY <1>3, <2>1, <2>4 DEF HoldsL2, InL2
    <3>4. ~Copy(l) /\ ~AckDirty(l)
      BY <1>2, <3>3, NoCopyLeft, NoProbeLeft
    <3>5. ~AckDirty(l)' /\ ~PrbDirty(l)' /\ ~Leaving(l)'
      BY <1>1, <1>2, <3>4 DEF AckDirty, PrbDirty, Leaving
    <3>6. \A s \in DSet : ~HitAt(s, l)'
      BY <3>4, UpSame DEF Copy
    <3>7. ASSUME Fresh(l) PROVE Fresh(l)'
      <4>1. l2_r'.data = latest'[l] /\ (Carried(l)' => d_mem_req'.data = latest'[l])
        BY <1>1, <3>2, <3>7, UpSame DEF Fresh
      <4> QED
        BY <3>2, <3>3, <3>5, <3>6, <4>1 DEF Fresh
    <3>8. ~Settled(l)
      BY <3>2 DEF Settled
    <3> QED
      BY <3>7, <3>8 DEF Keeps
  <2> QED
    BY <2>3, <2>4
<1>5. CASE ~Hit
  <2>1. UNCHANGED l2Arrays
    BY <1>5 DEF WriteThrough
  <2>2. OutOfCheck(l)
    BY <1>1, <2>1 DEF OutOfCheck, l2Arrays, HoldsL2
  <2>3. Rests(l)
    BY <1>1, <1>2, <2>1, <2>2, Unread
  <2> QED
    BY <2>3, RestKeeps
<1> QED
  BY <1>4, <1>5

LEMMA ReadHitKeeps ==
    ASSUME Ground, PresenceInv', ReadHit, L2Idles, NEW l \in Line PROVE Keeps(l)
<1> USE DEF Ground, L2Idles
<1>1. /\ l2_state = "CHECK" /\ ~l2_r.uncached /\ l2_r.op = "LW" /\ Hit /\ ~NeedProbe
      /\ l2_state' = "IDLE" /\ l2_r' = NoL2Req /\ l2_prb' = NoPrb
      /\ UNCHANGED <<l2_valid, l2_tag, probe, ack, dram>>
  BY DEF ReadHit, Check, checkKeeps, Done
<1>2. Serving
  BY <1>1 DEF Serving, Busy, Posted
<1>3. /\ Idx \in L2Idx /\ L2Of[l] \in L2Idx /\ l2_pd \in [L2Idx -> BOOLEAN]
      /\ l2_data \in [L2Idx -> Val] /\ l2_dirty \in [L2Idx -> BOOLEAN]
  BY AtIdx, LineTypes, ArrayTypes
<1>4. /\ L2Of[l] # Idx => l2_pd'[L2Of[l]] = l2_pd[L2Of[l]]
      /\ l2_pd[Idx] => l2_pd'[Idx]
  BY <1>3 DEF ReadHit, MarkPresent
<1>5. CASE l2_prb.dirty
  <2>1. l2_data' = [l2_data EXCEPT ![Idx] = l2_prb.data] /\ l2_dirty' = [l2_dirty EXCEPT ![Idx] = TRUE]
    BY <1>5 DEF ReadHit
  <2>2. /\ L2Of[l] # Idx => l2_data'[L2Of[l]] = l2_data[L2Of[l]] /\ l2_dirty'[L2Of[l]] = l2_dirty[L2Of[l]]
        /\ l2_data'[Idx] = l2_prb.data /\ l2_dirty'[Idx]
    BY <1>3, <2>1
  <2> QED
    <3>1. (HoldsL2(l)' <=> HoldsL2(l)) /\ (InL2(l)' <=> HoldsL2(l)) /\ (InL2(l) <=> HoldsL2(l))
      BY <1>1 DEF HoldsL2, InL2
    <3>2. OutOfCheck(l)
      BY <1>1, <1>2, <1>4, <2>2, <3>1 DEF OutOfCheck
    <3>3. ~Served(l) /\ ~Served(l)' /\ ~Leaving(l)' /\ ~PrbDirty(l)' /\ ~AckDirty(l)'
      BY <1>1, NoProbeLeft DEF Served, NoL2Req, Leaving, PrbDirty, NoPrb, AckDirty
    <3>4. CASE L2Of[l] # Idx \/ ~HoldsL2(l)
      BY <3>2, <3>3, <3>4, Elsewhere, RestKeeps
    <3>5. CASE L2Of[l] = Idx /\ HoldsL2(l)
      <4>1. PrbDirty(l)
        BY <1>5, <3>1, <3>5 DEF PrbDirty
      <4>2. ASSUME Fresh(l) PROVE Fresh(l)'
        <5>1. l2_data'[L2Of[l]] = latest'[l] /\ l2_dirty'[L2Of[l]]
          BY <2>2, <3>5, <4>1, <4>2 DEF Fresh
        <5>2. /\ \A s \in DSet : HitAt(s, l)' => d_data'[s] = latest'[l]
              /\ Carried(l)' => d_mem_req'.data = latest'[l]
          BY <4>2, UpSame DEF Fresh
        <5> QED
          BY <3>1, <3>3, <3>5, <5>1, <5>2 DEF Fresh
      <4> QED
        BY <4>1, <4>2 DEF Keeps, Settled
    <3> QED
      BY <3>4, <3>5
<1>6. CASE ~l2_prb.dirty
  <2>1. UNCHANGED <<l2_data, l2_dirty>>
    BY <1>6 DEF ReadHit
  <2>2. (HoldsL2(l)' <=> HoldsL2(l)) /\ (InL2(l)' <=> HoldsL2(l)) /\ (InL2(l) <=> HoldsL2(l))
    BY <1>1 DEF HoldsL2, InL2
  <2>3. OutOfCheck(l)
    BY <1>1, <1>2, <1>4, <2>1, <2>2 DEF OutOfCheck
  <2>4. ~Served(l) /\ ~Served(l)' /\ ~Leaving(l)' /\ ~Leaving(l)
    BY <1>1 DEF Served, NoL2Req, Leaving
  <2>5. ~PrbDirty(l)' /\ ~PrbDirty(l) /\ ~AckDirty(l)' /\ ~AckDirty(l)
    BY <1>1, <1>6, NoProbeLeft DEF PrbDirty, NoPrb, AckDirty
  <2>6. CASE L2Of[l] # Idx \/ ~HoldsL2(l)
    BY <2>3, <2>4, <2>6, Elsewhere, RestKeeps
  <2>7. CASE L2Of[l] = Idx /\ HoldsL2(l)
    <3>1. Carrying(l) => Carrying(l)'
      BY <1>2, <2>4, CarryKept DEF upVars
    <3>2. ~l2_prb'.done
      BY <1>1 DEF NoPrb
    <3>3. Rests(l)
      BY <1>1, <1>4, <2>1, <2>2, <2>4, <2>5, <2>7, <3>1, <3>2 DEF Rests
    <3> QED
      BY <3>3, RestKeeps
  <2> QED
    BY <2>6, <2>7
<1> QED
  BY <1>5, <1>6

LEMMA WriteHitKeeps ==
    ASSUME Ground, PresenceInv', WriteHit, L2Idles, NEW l \in Line PROVE Keeps(l)
<1> USE DEF Ground, L2Idles
<1>1. /\ l2_state = "CHECK" /\ ~l2_r.uncached /\ l2_r.op = "SW" /\ Hit
      /\ l2_state' = "IDLE" /\ l2_r' = NoL2Req /\ l2_prb' = NoPrb
      /\ UNCHANGED <<l2_valid, l2_tag, probe, ack, dram, rsp>>
  BY DEF WriteHit, WriteLine, Check, checkKeeps, Done
<1>2. ~NeedProbe
  BY <1>1 DEF NeedProbe, Alias, SnoopProbe, VictimProbe
<1>3. /\ Idx \in L2Idx /\ L2Of[l] \in L2Idx /\ l2_pd \in [L2Idx -> BOOLEAN]
      /\ l2_data \in [L2Idx -> Val] /\ l2_dirty \in [L2Idx -> BOOLEAN]
  BY AtIdx, LineTypes, ArrayTypes
<1>4. L2Of[l] # Idx => l2_pd'[L2Of[l]] = l2_pd[L2Of[l]]
  <2>1. l2_pd' = [l2_pd EXCEPT ![Idx] = IF l2_r.from_d THEN FALSE ELSE @]
    BY DEF WriteHit, WriteLine
  <2> QED
    BY <1>3, <2>1
<1>5. /\ L2Of[l] # Idx => l2_data'[L2Of[l]] = l2_data[L2Of[l]] /\ l2_dirty'[L2Of[l]] = l2_dirty[L2Of[l]]
      /\ l2_data'[Idx] = l2_r.data /\ l2_dirty'[Idx]
  BY <1>3 DEF WriteHit, WriteLine
<1>6. (HoldsL2(l)' <=> HoldsL2(l)) /\ (InL2(l)' <=> HoldsL2(l))
  BY <1>1 DEF HoldsL2, InL2
<1>7. OutOfCheck(l)
  BY <1>1, <1>4, <1>5, <1>6 DEF OutOfCheck
<1>8. ~Served(l)' /\ ~Leaving(l)' /\ ~PrbDirty(l)' /\ ~AckDirty(l)'
  BY <1>1, <1>2, NoProbeLeft DEF Served, NoL2Req, Leaving, PrbDirty, NoPrb, AckDirty
<1>9. CASE L2Of[l] # Idx \/ ~HoldsL2(l)
  <2>1. ~Served(l)
    BY <1>1, <1>9 DEF Served, Hit, Resident, Idx, HoldsL2
  <2> QED
    BY <1>1, <1>7, <1>9, <2>1, Elsewhere, RestKeeps
<1>10. CASE L2Of[l] = Idx /\ HoldsL2(l)
  <2>1. l = l2_r.line
    BY <1>1, <1>10, AtIdx
  <2>2. Served(l)
    BY <1>1, <2>1 DEF Served
  <2>3. ASSUME Fresh(l) PROVE Fresh(l)'
    <3>1. l2_data'[L2Of[l]] = latest'[l] /\ l2_dirty'[L2Of[l]]
      BY <1>5, <1>10, <2>2, <2>3 DEF Fresh
    <3>2. /\ \A s \in DSet : HitAt(s, l)' => d_data'[s] = latest'[l]
          /\ Carried(l)' => d_mem_req'.data = latest'[l]
      BY <2>3, UpSame DEF Fresh
    <3> QED
      BY <1>6, <1>8, <1>10, <3>1, <3>2 DEF Fresh
  <2> QED
    BY <2>2, <2>3 DEF Keeps, Settled
<1> QED
  BY <1>9, <1>10

\* The victim of a miss.
LEMMA VictimKeeps ==
    ASSUME Ground, PresenceInv', Evict \/ StartReload, L2Idles, NEW l \in Line PROVE Keeps(l)
<1> USE DEF Ground, L2Idles
<1>1. /\ l2_state = "CHECK" /\ ~l2_r.uncached /\ l2_r.op \in {"LW", "SW"} /\ ~Hit /\ ~NeedProbe
      /\ l2_state' \in {"DIRTY_STORE", "CLEAN_RELOAD"} /\ l2_r' = l2_r /\ UNCHANGED l2Arrays
      /\ (l2_prb' = l2_prb \/ l2_prb' = [l2_prb EXCEPT !.dirty = FALSE])
      /\ UNCHANGED <<rsp, probe, ack, dram>>
  BY DEF Evict, StartReload, Writeback, Check, checkKeeps
<1>2. \/ /\ l2_wb'.line = Resident /\ l2_wb'.data = (IF l2_prb.dirty THEN l2_prb.data ELSE l2_data[Idx])
         /\ l2_state' = "DIRTY_STORE" /\ (NeedWb \/ l2_prb.dirty)
      \/ l2_state' = "CLEAN_RELOAD" /\ ~NeedWb /\ ~l2_prb.dirty
  BY DEF Evict, StartReload, Writeback
<1>3. UNCHANGED <<l2_valid, l2_tag, l2_dirty, l2_data, l2_pd>> /\ Idx' = Idx
  BY <1>1 DEF l2Arrays, Idx
<1>4. l2_state' = "DIRTY_STORE" => l2_valid[Idx]
  BY <1>1, <1>2 DEF NeedWb, WorkInv, RegInv
<1>5. OutOfCheck(l)
  <2>1. l2_state' = "DIRTY_STORE" => HoldsL2(l2_wb'.line) /\ L2Of[l2_wb'.line] = Idx
    BY <1>2, <1>4, AtIdx
  <2> QED
    BY <1>1, <1>2, <1>3, <2>1 DEF OutOfCheck, HoldsL2
<1>6. CASE L2Of[l] # Idx \/ ~HoldsL2(l)
  BY <1>1, <1>5, <1>6, Elsewhere, RestKeeps
<1>7. CASE L2Of[l] = Idx /\ HoldsL2(l)
  <2>1. l = Resident /\ l2_valid[Idx] /\ l # l2_r.line
    BY <1>1, <1>7, AtIdx DEF Hit
  <2>2. ~Served(l) /\ ~AckDirty(l)
    BY <1>1, <2>1, NoProbeLeft DEF Served
  <2>3. ~Copy(l)
    <3>1. NoCopyAt(Idx)'
      BY <1>1 DEF PresenceInv, CopyInv, GoneInv
    <3> QED
      BY <1>3, <1>7, <3>1 DEF NoCopyAt, Copy, HitAt, upVars
  <2>4. ~InL2(l)'
    BY <1>1, <1>3, <1>7 DEF InL2
  <2>5. ~(Carrying(l) /\ l2_pd[Idx] /\ ~l2_prb.done)
    BY <1>1, <2>1 DEF NeedProbe, VictimProbe
  <2>6. \/ /\ l2_wb'.line = l /\ l2_wb'.data = (IF l2_prb.dirty THEN l2_prb.data ELSE l2_data[Idx])
           /\ l2_state' \in {"DIRTY_STORE", "UNCACHE_WB_DRAIN"} /\ (l2_dirty[Idx] \/ l2_prb.dirty)
        \/ l2_state' \notin {"DIRTY_STORE", "UNCACHE_WB_DRAIN"} /\ ~l2_dirty[Idx] /\ ~l2_prb.dirty
    BY <1>2, <2>1 DEF NeedWb
  <2> QED
    BY <1>3, <1>5, <1>7, <2>2, <2>3, <2>4, <2>5, <2>6, Dropped
<1> QED
  BY <1>6, <1>7

-----------------------------------------------------------------------------
\* Taking a request, and the probe the L2 sends on its behalf.
LEMMA TurnKeeps ==
    ASSUME Ground, AcceptFlush \/ AcceptSnoop, L2Idles, NEW l \in Line PROVE Keeps(l)
<1> USE DEF Ground, L2Idles
<1>1. /\ l2_state = "IDLE" /\ l2_state' \in {"FLUSH_TRIAGE", "CHECK"} /\ (l2_r' = l2_r \/ l2_r'.op = "SNOOP")
      /\ UNCHANGED <<l2_prb, l2_wb, l2Arrays, rsp, probe, ack, dram>>
  BY DEF AcceptFlush, AcceptSnoop, NoL2Req
<1>2. l2_r.op = "none" /\ ~l2_prb.dirty /\ ~l2_prb.done
  BY <1>1 DEF WorkInv, RegInv, PresenceInv, ProbeInv, Busy
<1>3. ~Served(l) /\ ~Served(l)' /\ ~Leaving(l) /\ ~Leaving(l)' /\ ~PrbDirty(l) /\ ~PrbDirty(l)'
  BY <1>1, <1>2 DEF Served, Leaving, PrbDirty
<1>4. UNCHANGED <<l2_valid, l2_tag, l2_dirty, l2_data, l2_pd>> /\ (InL2(l)' <=> InL2(l)) /\ (HoldsL2(l)' <=> HoldsL2(l))
  BY <1>1 DEF l2Arrays, InL2, HoldsL2
<1>5. AckDirty(l)' <=> AckDirty(l)
  BY <1>1 DEF AckDirty
<1>6. Carrying(l)' <=> Carrying(l)
  BY <1>1 DEF Carrying, Carried, RspToL1D, upVars
<1>7. Rests(l)
  BY <1>1, <1>2, <1>3, <1>4, <1>5, <1>6 DEF Rests
<1> QED
  BY <1>7, RestKeeps

LEMMA AcceptKeeps ==
    ASSUME Ground, AcceptReq, L2Idles, NEW l \in Line PROVE Keeps(l)
<1> USE DEF Ground, L2Idles
<1>1. /\ l2_state = "IDLE" /\ l2_state' = "CHECK" /\ r_req
      /\ UNCHANGED <<l2_prb, l2_wb, l2Arrays, probe, ack, dram>>
  BY DEF AcceptReq
<1>2. l2_r.op = "none" /\ ~l2_prb.dirty /\ ~l2_prb.done
  BY <1>1 DEF WorkInv, RegInv, PresenceInv, ProbeInv, Busy
<1>3. ~Served(l) /\ ~Leaving(l) /\ ~Leaving(l)' /\ ~PrbDirty(l) /\ ~PrbDirty(l)'
  BY <1>1, <1>2 DEF Served, Leaving, PrbDirty
<1>4. UNCHANGED <<l2_valid, l2_tag, l2_dirty, l2_data, l2_pd>> /\ (InL2(l)' <=> InL2(l)) /\ (HoldsL2(l)' <=> HoldsL2(l))
  BY <1>1 DEF l2Arrays, InL2, HoldsL2
<1>5. AckDirty(l)' <=> AckDirty(l)
  BY <1>1 DEF AckDirty
<1>6. Served(l)' => Carried(l) /\ l2_r'.data = d_mem_req.data
  <2>1. CASE arb_state = "GNT_L1I"
    BY <2>1 DEF AcceptReq, NoL2Req, Served
  <2>2. CASE arb_state # "GNT_L1I"
    BY <2>2 DEF AcceptReq, Served, Carried
  <2> QED
    BY <2>1, <2>2
<1>7. CASE ~Carried(l)
  <2>1. Rests(l)
    BY <1>1, <1>2, <1>3, <1>4, <1>5, <1>6, <1>7 DEF Rests, Carrying
  <2> QED
    BY <2>1, RestKeeps
<1>8. CASE Carried(l) /\ Served(l)'
  <2>1. ~Settled(l)
    BY <1>8 DEF Settled
  <2>2. ASSUME Fresh(l) PROVE Fresh(l)'
    <3>1. /\ \A s \in DSet : HitAt(s, l)' => d_data'[s] = latest'[l]
          /\ Carried(l)' => d_mem_req'.data = latest'[l]
          /\ l2_r'.data = latest'[l]
          /\ AckDirty(l)' => ack'.data = latest'[l]
      BY <1>1, <1>5, <1>6, <1>8, <2>2, UpSame DEF Fresh
    <3>2. InL2(l)' /\ ~l2_dirty'[L2Of[l]] => l2_data'[L2Of[l]] = dram'[l]
      BY <1>1, <1>4, <2>2 DEF Fresh
    <3> QED
      BY <1>3, <1>8, <3>1, <3>2 DEF Fresh
  <2> QED
    BY <2>1, <2>2 DEF Keeps
<1>9. CASE Carried(l) /\ ~Served(l)'
  <2>1. arb_state = "GNT_L1I"
    BY <1>1, <1>9 DEF AcceptReq, Served, Carried
  <2>2. rsp' = rsp
    BY <2>1 DEF AcceptReq
  <2>3. Carrying(l)' <=> Carrying(l)
    BY <2>2 DEF Carrying, Carried, RspToL1D, upVars
  <2>4. Rests(l)
    BY <1>1, <1>2, <1>3, <1>4, <1>5, <1>9, <2>3 DEF Rests
  <2> QED
    BY <2>4, RestKeeps
<1> QED
  BY <1>7, <1>8, <1>9

LEMMA ProbeIssueKeeps ==
    ASSUME Ground, ProbeIssue, L2Idles, NEW l \in Line PROVE Keeps(l)
<1> USE DEF Ground, L2Idles
<1>1. UNCHANGED <<l2_state, l2_r, l2_prb, l2_wb, l2_valid, l2_tag, l2_dirty, l2_data, l2_pd, rsp, ack, dram>>
  BY DEF ProbeIssue, l2Vars, l2Arrays
<1>2. ~ack.valid
  BY DEF ProbeIssue, PresenceInv, ProbeInv
<1>3. /\ Served(l)' <=> Served(l)
      /\ Leaving(l)' <=> Leaving(l)
      /\ PrbDirty(l)' <=> PrbDirty(l)
      /\ InL2(l)' <=> InL2(l)
      /\ HoldsL2(l)' <=> HoldsL2(l)
      /\ Idx' = Idx
      /\ ~AckDirty(l) /\ ~AckDirty(l)'
  BY <1>1, <1>2 DEF Served, Leaving, PrbDirty, InL2, HoldsL2, Idx, AckDirty
<1>4. Carrying(l)' <=> Carrying(l)
  BY <1>1 DEF Carrying, Carried, RspToL1D, upVars
<1>5. Rests(l)
  BY <1>1, <1>3, <1>4 DEF Rests
<1> QED
  BY <1>5, RestKeeps

LEMMA ProbeAnsweredKeeps ==
    ASSUME Ground, ProbeAnswered, ack.valid /\ Carried(probe.line) => ack.dirty, L2Idles, NEW l \in Line
    PROVE  Keeps(l)
<1> USE DEF Ground, L2Idles
<1>1. /\ l2_state = "CHECK" /\ ack.valid /\ NeedProbe
      /\ l2_prb' = [done |-> TRUE, dirty |-> ack.dirty, data |-> ack.data] /\ ack' = NoAck
      /\ UNCHANGED <<l2_state, l2_r, l2_wb, l2_valid, l2_tag, l2_dirty, l2_data, l2_pd, rsp, dram>>
  BY DEF ProbeAnswered, Check, l2Arrays
<1>2. probe.line = Resident /\ ~l2_prb.dirty /\ ~l2_prb.done /\ l2_valid[Idx]
  BY <1>1 DEF PresenceInv, ProbeInv, NeedProbe, WorkInv, RegInv, Alias, SnoopProbe, VictimProbe, Hit
<1>3. /\ Served(l)' <=> Served(l)
      /\ ~Leaving(l) /\ ~Leaving(l)'
      /\ InL2(l)' <=> InL2(l)
      /\ HoldsL2(l)' <=> HoldsL2(l)
      /\ InL2(l) <=> HoldsL2(l)
      /\ Idx' = Idx
      /\ ~AckDirty(l)' /\ ~PrbDirty(l)
  BY <1>1, <1>2 DEF Served, Leaving, PrbDirty, InL2, HoldsL2, Idx, AckDirty, NoAck
<1>4. Carrying(l)' <=> Carrying(l)
  BY <1>1 DEF Carrying, Carried, RspToL1D, upVars
<1>5. CASE l # Resident
  <2>1. ~(InL2(l) /\ L2Of[l] = Idx) /\ ~AckDirty(l)
    BY <1>2, <1>3, <1>5, AtIdx DEF AckDirty
  <2>2. ~PrbDirty(l)'
    BY <1>3, <2>1 DEF PrbDirty
  <2>3. Rests(l)
    BY <1>1, <1>3, <1>4, <2>1, <2>2 DEF Rests
  <2> QED
    BY <2>3, RestKeeps
<1>6. CASE l = Resident
  <2>1. InL2(l) /\ L2Of[l] = Idx
    BY <1>2, <1>3, <1>6, AtIdx
  <2>2. (AckDirty(l) <=> ack.dirty) /\ (PrbDirty(l)' <=> ack.dirty) /\ l2_prb'.data = ack.data
    BY <1>1, <1>2, <1>3, <1>6, <2>1 DEF AckDirty, PrbDirty
  <2>3. ASSUME Settled(l) PROVE Settled(l)'
    BY <1>1, <1>3, <2>2, <2>3, UpSame DEF Settled
  <2>4. ASSUME Fresh(l) PROVE Fresh(l)'
    <3>1. /\ \A s \in DSet : HitAt(s, l)' => d_data'[s] = latest'[l]
          /\ Carried(l)' => d_mem_req'.data = latest'[l]
          /\ Served(l)' => l2_r'.data = latest'[l]
          /\ PrbDirty(l)' => l2_prb'.data = latest'[l]
      BY <1>1, <1>3, <2>2, <2>4, UpSame DEF Fresh
    <3>2. l2_data'[L2Of[l]] # latest'[l] => DirtyAt(l)' \/ PrbDirty(l)' \/ Served(l)'
      <4>1. l2_data[L2Of[l]] # latest[l] => DirtyAt(l) \/ AckDirty(l) \/ Served(l) \/ Carried(l)
        BY <1>3, <2>1, <2>4 DEF Fresh, Carrying
      <4>2. Carried(l) => ack.dirty
        BY <1>1, <1>2, <1>6
      <4> QED
        BY <1>1, <1>3, <2>2, <4>1, <4>2, UpSame
    <3>3. InL2(l)' /\ ~l2_dirty'[L2Of[l]] => l2_data'[L2Of[l]] = dram'[l]
      BY <1>1, <1>3, <2>4 DEF Fresh
    <3> QED
      BY <1>3, <2>1, <3>1, <3>2, <3>3 DEF Fresh
  <2> QED
    BY <2>3, <2>4 DEF Keeps
<1> QED
  BY <1>5, <1>6

-----------------------------------------------------------------------------
\* The memory side.  A line on its way to DRAM arrives there.
Landed ==
    /\ l2_state \in {"DIRTY_STORE", "UNCACHE_WB_DRAIN", "FLUSH_STORE"}
    /\ l2_state' \notin {"DIRTY_STORE", "UNCACHE_WB_DRAIN", "FLUSH_STORE"}
    /\ l2_state = "DIRTY_STORE" <=> l2_state' = "CLEAN_RELOAD"
    /\ dram' = [dram EXCEPT ![l2_wb.line] = l2_wb.data]
    /\ UNCHANGED <<l2Arrays, probe, ack>>
    /\ \/ UNCHANGED <<l2_r, l2_prb, rsp>>
       \/ /\ l2_state = "UNCACHE_WB_DRAIN" /\ l2_r' = NoL2Req /\ l2_prb' = NoPrb
          /\ rsp' = rsp \/ Serving

LEMMA Lands == ASSUME Ground, DirtyStore \/ WbDrain \/ FlushStore PROVE Landed
<1>1. CASE DirtyStore
  BY <1>1 DEF DirtyStore, memKeeps, Landed
<1>2. CASE FlushStore
  <2>1. l2_state' \in {"IDLE", "FLUSH_TRIAGE"}
    BY <1>2 DEF FlushStore, WalkOn
  <2> QED
    BY <1>2, <2>1 DEF FlushStore, memKeeps, Landed
<1>3. CASE WbDrain
  <2>0. /\ l2_state = "UNCACHE_WB_DRAIN" /\ dram' = [dram EXCEPT ![l2_wb.line] = l2_wb.data]
        /\ UNCHANGED <<l2Arrays, probe, ack>>
    BY <1>3 DEF WbDrain, memKeeps
  <2>1. CASE l2_r.op = "INVL" /\ l2_state' = "IDLE" /\ l2_r' = NoL2Req /\ l2_prb' = NoPrb
    BY <2>0, <2>1 DEF Landed, Serving, Busy, Posted
  <2>2. CASE l2_state' = "IDLE" /\ l2_r' = NoL2Req /\ l2_prb' = NoPrb /\ rsp' = rsp
    BY <2>0, <2>2 DEF Landed
  <2>3. CASE l2_state' \in {"UNCACHE_STORE", "UNCACHE_LOAD"} /\ UNCHANGED <<l2_r, l2_prb, rsp>>
    BY <2>0, <2>3 DEF Landed
  <2> QED
    BY <1>3, <2>1, <2>2, <2>3 DEF WbDrain, Done, Answer
<1> QED
  BY <1>1, <1>2, <1>3

LEMMA LandKeeps ==
    ASSUME Ground, Landed, L2Idles, NEW l \in Line PROVE Keeps(l)
<1> USE DEF Ground, L2Idles
<1>1. UNCHANGED <<l2_valid, l2_tag, l2_dirty, l2_data, l2_pd>> /\ dram \in [Line -> Val] /\ l2_wb.line \in Line
  BY LineTypes DEF Landed, l2Arrays
<1>2. /\ ~AckDirty(l) /\ ~AckDirty(l)'
      /\ HoldsL2(l)' <=> HoldsL2(l)
      /\ ~Leaving(l)'
  BY <1>1 DEF Landed, AckDirty, PresenceInv, ProbeInv, HoldsL2, Leaving
<1>3. InL2(l)' <=> InL2(l)
  <2>1. CASE l2_state = "DIRTY_STORE"
    BY <1>1, <2>1 DEF Landed, InL2, Idx
  <2>2. CASE l2_state # "DIRTY_STORE"
    BY <1>1, <2>2 DEF Landed, InL2
  <2> QED
    BY <2>1, <2>2
<1>4. ~PrbDirty(l) /\ ~PrbDirty(l)'
  <2>1. CASE l2_state = "UNCACHE_WB_DRAIN"
    BY <1>1, <2>1 DEF Landed, PrbDirty, NoPrb, WorkInv, WbInv, InL2, Idx
  <2>2. CASE l2_state # "UNCACHE_WB_DRAIN"
    BY <2>2 DEF Landed, PrbDirty, NoPrb, WorkInv, RegInv
  <2> QED
    BY <2>1, <2>2
<1>5. l2_state # "DIRTY_STORE" => ~Served(l)
  BY DEF Landed, Served, WorkInv, RegInv, Busy, PresenceInv, BusInv, OpInv
<1>6. Served(l)' <=> Served(l)
  BY <1>5 DEF Served, Landed, NoL2Req
<1>7. CASE l = l2_wb.line
  <2>1. Leaving(l)
    BY <1>7 DEF Leaving, Landed
  <2>2. ~InL2(l) /\ ~Served(l)
    <3>1. CASE l2_state = "DIRTY_STORE"
      <4>1. l = Resident /\ l2_valid[Idx] /\ ~Hit
        BY <1>7, <3>1 DEF WorkInv, WbInv
      <4>2. L2Of[l] = Idx
        BY <4>1, AtIdx
      <4> QED
        BY <3>1, <4>1, <4>2 DEF InL2, Served, Hit
    <3>2. CASE l2_state # "DIRTY_STORE"
      BY <1>5, <1>7, <3>2 DEF Landed, WorkInv, WbInv, InL2, Idx
    <3> QED
      BY <3>1, <3>2
  <2>3. ~Copy(l)
    BY <2>1, CopyAlone
  <2>4. \A s \in DSet : ~HitAt(s, l)'
    BY <2>3, UpSame DEF Copy
  <2>5. dram'[l] = l2_wb.data
    BY <1>1, <1>7 DEF Landed
  <2>6. ASSUME Fresh(l) PROVE Fresh(l)'
    <3>1. dram'[l] = latest'[l] /\ (Carried(l)' => d_mem_req'.data = latest'[l])
      BY <2>1, <2>5, <2>6, UpSame DEF Fresh
    <3> QED
      BY <1>2, <1>3, <1>4, <1>6, <2>2, <2>4, <3>1 DEF Fresh
  <2>7. ~Settled(l)
    BY <2>1 DEF Settled
  <2> QED
    BY <2>6, <2>7 DEF Keeps
<1>8. CASE l # l2_wb.line
  <2>1. dram'[l] = dram[l] /\ ~Leaving(l)
    BY <1>1, <1>8 DEF Landed, Leaving
  <2>2. Carrying(l) => Carrying(l)'
    <3>1. CASE rsp' = rsp
      BY <3>1 DEF Carrying, Carried, RspToL1D, upVars
    <3>2. CASE rsp' # rsp
      <4>1. Serving /\ l2_state = "UNCACHE_WB_DRAIN"
        BY <3>2 DEF Landed
      <4> QED
        BY <1>5, <4>1, CarryKept DEF upVars
    <3> QED
      BY <3>1, <3>2
  <2>3. l2_prb'.done /\ Idx' = L2Of[l] => l2_prb.done /\ Idx = L2Of[l]
    BY DEF Landed, NoPrb, Idx
  <2>4. Served(l) => l2_r'.data = l2_r.data
    BY <1>5 DEF Landed
  <2>5. Rests(l)
    BY <1>1, <1>2, <1>3, <1>4, <1>6, <2>1, <2>2, <2>3, <2>4 DEF Rests
  <2> QED
    BY <2>5, RestKeeps
<1> QED
  BY <1>7, <1>8

LEMMA CleanReloadKeeps ==
    ASSUME Ground, CleanReload, L2Idles, NEW l \in Line PROVE Keeps(l)
<1> USE DEF Ground, L2Idles
<1>1. /\ l2_state = "CLEAN_RELOAD" /\ l2_state' = "CHECK"
      /\ UNCHANGED <<l2_r, l2_prb, l2_wb, rsp, dram, probe, ack>> /\ Idx' = Idx
  BY DEF CleanReload, memKeeps, Idx
<1>2. /\ Idx \in L2Idx /\ L2Of[l] \in L2Idx /\ l2_pd \in [L2Idx -> BOOLEAN] /\ l2_valid \in [L2Idx -> BOOLEAN]
      /\ l2_tag \in [L2Idx -> Line] /\ l2_data \in [L2Idx -> Val] /\ l2_dirty \in [L2Idx -> BOOLEAN]
  BY AtIdx, LineTypes, ArrayTypes
<1>3. /\ l2_valid' = [l2_valid EXCEPT ![Idx] = TRUE] /\ l2_tag' = [l2_tag EXCEPT ![Idx] = l2_r.line]
      /\ l2_dirty' = [l2_dirty EXCEPT ![Idx] = FALSE] /\ l2_data' = [l2_data EXCEPT ![Idx] = dram[l2_r.line]]
      /\ l2_pd' = [l2_pd EXCEPT ![Idx] = FALSE]
  BY DEF CleanReload, InstallTag
<1>4. /\ l2_valid'[Idx] /\ l2_tag'[Idx] = l2_r.line /\ ~l2_dirty'[Idx] /\ l2_data'[Idx] = dram[l2_r.line]
      /\ L2Of[l] # Idx => LET i == L2Of[l]
                          IN  /\ l2_valid'[i] = l2_valid[i] /\ l2_tag'[i] = l2_tag[i] /\ l2_pd'[i] = l2_pd[i]
                              /\ l2_dirty'[i] = l2_dirty[i] /\ l2_data'[i] = l2_data[i]
  BY <1>2, <1>3
<1>5. /\ ~AckDirty(l) /\ ~AckDirty(l)' /\ ~Leaving(l) /\ ~Leaving(l)' /\ ~PrbDirty(l) /\ ~PrbDirty(l)'
      /\ Served(l)' <=> Served(l)
  BY <1>1 DEF AckDirty, PresenceInv, ProbeInv, Leaving, PrbDirty, WorkInv, RegInv, Served
<1>6. Carrying(l)' <=> Carrying(l)
  BY <1>1 DEF Carrying, Carried, RspToL1D, upVars
<1>7. CASE l # l2_r.line
  <2>1. (InL2(l)' <=> InL2(l)) /\ (InL2(l) => L2Of[l] # Idx) /\ (L2Of[l] = Idx => ~HoldsL2(l)')
    BY <1>1, <1>4, <1>7 DEF InL2, HoldsL2
  <2>2. HoldsL2(l)' /\ l2_dirty'[L2Of[l]] => HoldsL2(l) /\ l2_dirty[L2Of[l]]
    BY <1>4, <2>1 DEF HoldsL2
  <2>3. Rests(l)
    BY <1>1, <1>4, <1>5, <1>6, <2>1, <2>2 DEF Rests
  <2> QED
    BY <2>3, RestKeeps
<1>8. CASE l = l2_r.line
  <2>1. ~InL2(l) /\ InL2(l)' /\ L2Of[l] = Idx
    BY <1>1, <1>4, <1>8 DEF InL2, Idx
  <2>2. ASSUME Settled(l) PROVE Settled(l)'
    BY <1>4, <1>5, <2>1, <2>2, UpSame DEF Settled
  <2>3. ASSUME Fresh(l) PROVE Fresh(l)'
    <3>1. /\ \A s \in DSet : HitAt(s, l)' => d_data'[s] = latest'[l]
          /\ Carried(l)' => d_mem_req'.data = latest'[l]
          /\ Served(l)' => l2_r'.data = latest'[l]
      BY <1>1, <1>5, <2>3, UpSame DEF Fresh
    <3>2. dram[l] # latest[l] => Served(l)'
      BY <1>5, <2>1, <2>3 DEF Fresh
    <3> QED
      BY <1>1, <1>4, <1>5, <1>8, <2>1, <3>1, <3>2 DEF Fresh
  <2> QED
    BY <2>2, <2>3 DEF Keeps
<1> QED
  BY <1>7, <1>8

\* The end of an access that leaves a line's copies alone.
LEMMA DoneRests ==
    ASSUME Ground, l2_state \in {"UNCACHE_STORE", "UNCACHE_LOAD"}, Done, Serving, UNCHANGED upVars,
           UNCHANGED <<l2Arrays, probe, ack>>, NEW l \in Line, ~Served(l), dram'[l] = dram[l], latest'[l] = latest[l]
    PROVE  Keeps(l)
<1> USE DEF Ground
<1>1. l2_state' = "IDLE" /\ l2_r' = NoL2Req /\ l2_prb' = NoPrb
  BY DEF Done
<1>2. UNCHANGED <<l2_valid, l2_tag, l2_dirty, l2_data, l2_pd>>
  BY DEF l2Arrays
<1>3. /\ ~AckDirty(l) /\ ~AckDirty(l)' /\ ~Leaving(l) /\ ~Leaving(l)' /\ ~PrbDirty(l) /\ ~PrbDirty(l)' /\ ~Served(l)'
      /\ (InL2(l)' <=> InL2(l)) /\ (HoldsL2(l)' <=> HoldsL2(l)) /\ ~l2_prb'.done
  BY <1>1, <1>2 DEF AckDirty, PresenceInv, ProbeInv, Leaving, PrbDirty, WorkInv, RegInv, Served, NoL2Req, NoPrb,
     InL2, HoldsL2
<1>4. Carrying(l) => Carrying(l)'
  BY CarryKept DEF upVars
<1>5. Rests(l)
  BY <1>2, <1>3, <1>4 DEF Rests
<1> QED
  BY <1>5, RestKeeps

LEMMA UncacheLoadKeeps ==
    ASSUME Ground, UncacheLoad, L2Idles, NEW l \in Line PROVE Keeps(l)
<1>1. l2_state = "UNCACHE_LOAD" /\ Done /\ UNCHANGED <<l2Arrays, probe, ack, dram>>
  BY DEF UncacheLoad, memKeeps
<1>2. l2_r.uncached /\ l2_r.op \in {"LW", "SW"}
  BY <1>1 DEF Ground, PresenceInv, BusInv, OpInv
<1>3. Serving /\ ~Served(l)
  BY <1>1, <1>2 DEF Serving, Busy, Posted, Served
<1> QED
  BY <1>1, <1>3, DoneRests DEF L2Idles

\* An uncached store makes its own value the last one; a MEM_WB lands.
LEMMA UncacheStoreKeeps ==
    ASSUME Ground, UncacheStore, UNCHANGED upVars, NEW l \in Line,
           latest' = IF l2_r.uncached /\ l2_r.full THEN [latest EXCEPT ![l2_r.line] = l2_r.data] ELSE latest
    PROVE  /\ Keeps(l)
           /\ l2_r.uncached /\ l2_r.full /\ l = l2_r.line => Settled(l)' /\ Fresh(l)'
<1> USE DEF Ground
<1>1. /\ l2_state = "UNCACHE_STORE" /\ Done /\ UNCHANGED <<l2Arrays, probe, ack>>
      /\ dram' = IF l2_r.full THEN [dram EXCEPT ![l2_r.line] = l2_r.data] ELSE dram
  BY DEF UncacheStore, memKeeps
<1>2. /\ l2_r.op \in {"SW", "WB"} /\ (l2_r.op = "WB" => l2_r.full) /\ ~Hit
      /\ (l2_r.uncached => l2_r.op = "SW") /\ (~l2_r.uncached => l2_r.op = "WB")
  BY <1>1 DEF WorkInv, RegInv, WbInv, PresenceInv, BusInv, OpInv
<1>3. Serving
  BY <1>1, <1>2 DEF Serving, Busy, Posted
<1>4. Matches
  BY <1>2, <1>3 DEF PresenceInv, BusInv, ServeInv
<1>5. dram \in [Line -> Val] /\ latest \in [Line -> Val] /\ l2_r.line \in Line
  BY LineTypes
<1>6. CASE l # l2_r.line
  <2>1. dram'[l] = dram[l] /\ latest'[l] = latest[l] /\ ~Served(l)
    BY <1>1, <1>5, <1>6 DEF Served
  <2> QED
    BY <1>1, <1>3, <1>6, <2>1, DoneRests
<1>7. CASE l = l2_r.line
  <2>1. ~HoldsL2(l) /\ ~Copy(l)
    <3>1. ~HoldsL2(l)
      BY <1>2, <1>7 DEF Hit, HoldsL2, Idx, Resident
    <3> QED
      BY <3>1, CopyAlone
  <2>2. ~Copy(l)'
    BY <2>1, UpSame DEF Copy
  <2>3. ~HoldsL2(l)' /\ ~InL2(l)' /\ ~PrbDirty(l)' /\ ~Leaving(l)' /\ ~Served(l)' /\ ~AckDirty(l)'
    BY <1>1, <2>1 DEF HoldsL2, InL2, l2Arrays, PrbDirty, Leaving, Served, Done, NoL2Req, AckDirty, PresenceInv, ProbeInv
  <2>4. CASE l2_r.uncached /\ l2_r.full
    <3>1. ~Carried(l)
      BY <1>4, <2>4, RegTypes DEF Carried, Matches
    <3>2. Nowhere(l)'
      BY <2>2, <2>3, <3>1, UpSame DEF Nowhere
    <3>3. dram'[l] = latest'[l]
      BY <1>1, <1>5, <1>7, <2>4
    <3> QED
      BY <3>2, <3>3, NowhereSettled, NowhereFresh DEF Keeps
  <2>5. CASE l2_r.uncached /\ ~l2_r.full
    <3>1. dram'[l] = dram[l] /\ latest'[l] = latest[l] /\ ~Served(l)
      BY <1>1, <2>5 DEF Served
    <3> QED
      BY <1>1, <1>3, <2>5, <3>1, DoneRests
  <2>6. CASE ~l2_r.uncached
    <3>1. Served(l) /\ l2_r.full
      BY <1>2, <1>7, <2>6 DEF Served
    <3>2. dram'[l] = l2_r.data /\ latest'[l] = latest[l]
      BY <1>1, <1>5, <1>7, <2>6, <3>1
    <3>3. ASSUME Fresh(l) PROVE Fresh(l)'
      <4>1. dram'[l] = latest'[l] /\ (Carried(l)' => d_mem_req'.data = latest'[l])
        BY <3>1, <3>2, <3>3, UpSame DEF Fresh
      <4> QED
        BY <2>2, <2>3, <4>1 DEF Fresh, Copy
    <3> QED
      BY <2>6, <3>1, <3>3 DEF Keeps, Settled
  <2> QED
    BY <2>4, <2>5, <2>6
<1> QED
  BY <1>6, <1>7

\* While the L2 flushes itself, nothing is above it.
LEMMA FlushAlone ==
    ASSUME Ground, l2_flush_req PROVE Empty /\ (\A l : ~Carried(l)) /\ core_op = "all"
<1> USE DEF Ground
<1>1. core_op = "all" /\ core_l1d_done /\ d_req.op = "none" /\ ~InWalk /\ ~InPage /\ ~InLine
  BY DEF PresenceInv, TokenInv
<1>2. Empty
  BY <1>1 DEF PresenceInv, WalkInv
<1>3. ASSUME NEW l, Carried(l) PROVE FALSE
  <2>1. d_mem_req.op \in {"SW", "WB"} /\ d_mem_req.cacheable
    BY <1>3 DEF Carried
  <2>2. Eff \in WaitState
    BY <2>1 DEF PresenceInv, FsmInv
  <2>3. Eff \notin {"INJECT_RELOAD", "INJECT_UNCACHE_STORE", "INJECT_UNCACHE_LOAD", "UNCACHE_WB"}
    BY <1>1 DEF PresenceInv, FsmInv
  <2>4. Eff = "FLUSH_CL_WAIT"
    BY <1>1, <2>2, <2>3 DEF WaitState, InWalk, InPage
  <2>5. d_mem_req.op = "INVL"
    <3>1. d_cl_is_dma
      BY <1>1, <2>4 DEF InLine
    <3> QED
      BY <3>1 DEF WorkInv, AskInv
  <2> QED
    BY <2>1, <2>5
<1> QED
  BY <1>1, <1>2, <1>3

LEMMA TriageKeeps ==
    ASSUME Ground, FlushTriage, L2Idles, NEW l \in Line PROVE Keeps(l)
<1> USE DEF Ground, L2Idles
<1>1. l2_state = "FLUSH_TRIAGE" /\ UNCHANGED <<l2_r, l2_prb, rsp, dram, probe, ack>> /\ Drop(l2_idx)
  BY DEF FlushTriage, memKeeps
<1>2. l2_idx \in L2Idx /\ L2Of[l] \in L2Idx /\ l2_valid \in [L2Idx -> BOOLEAN] /\ l2_tag \in [L2Idx -> Line]
      /\ l2_dirty \in [L2Idx -> BOOLEAN] /\ l2_pd \in [L2Idx -> BOOLEAN]
  BY LineTypes, ArrayTypes DEF TypeOK, L2TypeOK
<1>3. /\ l2_valid' = [l2_valid EXCEPT ![l2_idx] = FALSE] /\ l2_dirty' = [l2_dirty EXCEPT ![l2_idx] = FALSE]
      /\ l2_pd' = [l2_pd EXCEPT ![l2_idx] = FALSE] /\ UNCHANGED <<l2_tag, l2_data>>
  BY <1>1 DEF Drop
<1>4. Empty /\ ~Carried(l)
  BY <1>1, FlushAlone DEF PresenceInv, TokenInv
<1>5. /\ ~Copy(l) /\ ~DirtyAt(l)
      /\ \A s \in DSet : ~HitAt(s, l)'
      /\ ~Carrying(l) /\ ~Carried(l)' /\ ~DirtyAt(l)'
  BY <1>4, UpSame DEF Empty, Copy, HitAt, DirtyAt, Carrying
<1>6. l2_r.op = "none" /\ ~l2_prb.dirty
  BY <1>1 DEF WorkInv, RegInv, Busy
<1>7. /\ ~Served(l) /\ ~Served(l)' /\ ~AckDirty(l) /\ ~AckDirty(l)' /\ ~PrbDirty(l) /\ ~PrbDirty(l)' /\ ~Leaving(l)
  BY <1>1, <1>6 DEF Served, AckDirty, PrbDirty, Leaving, PresenceInv, ProbeInv
<1>8. l2_state' \in {"FLUSH_STORE", "FLUSH_TRIAGE", "IDLE"}
  BY DEF FlushTriage, WalkOn
<1>9. (InL2(l) <=> HoldsL2(l)) /\ (InL2(l)' <=> HoldsL2(l)')
  BY <1>1, <1>8 DEF InL2, HoldsL2
<1>10. CASE HoldsL2(l) /\ L2Of[l] = l2_idx
  <2>1. ~HoldsL2(l)' /\ l2_tag[l2_idx] = l /\ l2_valid[l2_idx]
    BY <1>2, <1>3, <1>10 DEF HoldsL2
  <2>2. CASE l2_dirty[l2_idx]
    <3>1. l2_wb' = [line |-> l, data |-> l2_data[l2_idx]] /\ l2_state' = "FLUSH_STORE"
      BY <2>1, <2>2 DEF FlushTriage
    <3>2. ~Settled(l)
      BY <1>10, <2>2 DEF Settled
    <3>3. ASSUME Fresh(l) PROVE Fresh(l)'
      <4>1. l2_data[l2_idx] = latest[l]
        BY <1>5, <1>7, <1>9, <1>10, <3>3 DEF Fresh
      <4>2. Leaving(l)' /\ l2_wb'.data = latest'[l]
        BY <3>1, <4>1 DEF Leaving
      <4> QED
        BY <1>5, <1>7, <1>9, <2>1, <4>2 DEF Fresh
    <3> QED
      BY <3>2, <3>3 DEF Keeps
  <2>3. CASE ~l2_dirty[l2_idx]
    <3>1. l2_state' # "FLUSH_STORE"
      BY <2>3 DEF FlushTriage, WalkOn
    <3>2. ~Leaving(l)'
      BY <1>8, <3>1 DEF Leaving
    <3>3. Settled(l)'
      BY <1>5, <1>7, <2>1, <3>2 DEF Settled
    <3>4. ASSUME Fresh(l) PROVE Fresh(l)'
      <4>1. dram'[l] = latest'[l]
        BY <1>1, <1>5, <1>7, <1>9, <1>10, <2>3, <3>4 DEF Fresh
      <4> QED
        BY <1>5, <1>7, <1>9, <2>1, <3>2, <4>1 DEF Fresh
    <3> QED
      BY <3>3, <3>4 DEF Keeps
  <2> QED
    BY <2>2, <2>3
<1>11. CASE ~(HoldsL2(l) /\ L2Of[l] = l2_idx)
  <2>1. /\ L2Of[l] # l2_idx => LET i == L2Of[l]
                               IN  /\ l2_valid'[i] = l2_valid[i] /\ l2_dirty'[i] = l2_dirty[i]
                                   /\ l2_tag'[i] = l2_tag[i] /\ l2_data'[i] = l2_data[i]
        /\ HoldsL2(l)' <=> HoldsL2(l)
    BY <1>2, <1>3, <1>11 DEF HoldsL2
  <2>2. ~Leaving(l)'
    <3>1. SUFFICES ASSUME l2_state' = "FLUSH_STORE", l2_wb'.line = l PROVE FALSE
      BY <1>8 DEF Leaving
    <3>2. l2_valid[l2_idx] /\ l2_tag[l2_idx] = l
      BY <3>1 DEF FlushTriage, WalkOn
    <3>3. L2Of[l2_tag[l2_idx]] = l2_idx
      BY <1>2, <3>2 DEF PresenceInv, CopyInv, PlaceInv
    <3> QED
      BY <1>11, <3>2, <3>3 DEF HoldsL2
  <2>3. Rests(l)
    BY <1>1, <1>5, <1>7, <1>9, <1>11, <2>1, <2>2 DEF Rests
  <2> QED
    BY <2>3, RestKeeps
<1> QED
  BY <1>10, <1>11

-----------------------------------------------------------------------------
\* Every step of the L2.
L2Steps == L2Step \/ L2Store

\* What the L2 leaves alone.
LEMMA L2Frame ==
    ASSUME L2Steps
    PROVE  /\ L2Action /\ UNCHANGED upVars /\ UNCHANGED <<dma, core_op, core_l1d_done, core_l2_done, d_pg_dirty_cnt>>
           /\ \A l : Visited(l)' <=> Visited(l)
           /\ ~UncacheStore => UNCHANGED latest
<1>1. L2Action /\ UNCHANGED <<l1dVars, coreVars, dmaVars>>
  BY DEF L2Steps, L2Step, L2Store, L2Action
<1>2. UNCHANGED l1dSide
  BY <1>1, L1DSide
<1>3. /\ UNCHANGED upVars /\ UNCHANGED <<dma, core_op, core_l1d_done, core_l2_done, d_pg_dirty_cnt>>
      /\ UNCHANGED <<d_flush_complete, d_state, d_prb_ret, d_pg_off>>
  BY <1>1, <1>2 DEF l1dSide, upVars, l1dVars, dArrays, dFlush, coreVars, dmaVars
<1>4. \A l : Visited(l)' <=> Visited(l)
  BY <1>3 DEF Visited, InPage, Eff
<1>5. ~UncacheStore => UNCHANGED latest
  BY DEF L2Steps, L2Step, L2Store
<1> QED
  BY <1>1, <1>3, <1>4, <1>5

\* A step of the L2 keeps a settled line settled and a fresh line fresh.
LEMMA L2LineKeeps ==
    ASSUME Discipline, Ground, PresenceInv', CleanInv, DataInv, L2Steps, NEW l \in Line
    PROVE  Keeps(l)
<1>1. UNCHANGED upVars
  BY L2Frame
<1>2. CASE L2Store
  BY <1>1, <1>2, UncacheStoreKeeps DEF L2Store
<1>3. CASE L2Step
  <2>1. L2Idles
    BY <1>1, <1>3 DEF L2Step, L2Idles
  <2>2. ack.valid /\ Carried(probe.line) => ack.dirty
    BY DEF DataInv
  <2>3. CASE AcceptFlush \/ AcceptSnoop \/ AcceptReq \/ ProbeIssue \/ ProbeAnswered
    BY <2>1, <2>2, <2>3, TurnKeeps, AcceptKeeps, ProbeIssueKeeps, ProbeAnsweredKeeps
  <2>4. CASE UncachedPurge \/ Invl \/ PgDrop \/ SnoopWbinv \/ SnoopDrop
    BY <2>1, <2>4, PurgeKeeps, InvlKeeps, PgDropKeeps, WbinvKeeps, SnoopDropKeeps
  <2>5. CASE WriteThrough \/ ReadHit \/ WriteHit \/ Evict \/ StartReload
    BY <2>1, <2>5, ThroughKeeps, ReadHitKeeps, WriteHitKeeps, VictimKeeps
  <2>6. CASE DirtyStore \/ WbDrain \/ FlushStore
    BY <2>1, <2>6, Lands, LandKeeps
  <2>7. CASE CleanReload \/ UncacheLoad \/ FlushTriage
    BY <2>1, <2>7, CleanReloadKeeps, UncacheLoadKeeps, TriageKeeps
  <2> QED
    BY <1>3, <2>3, <2>4, <2>5, <2>6, <2>7 DEF L2Step
<1> QED
  BY <1>2, <1>3 DEF L2Steps

\* The flush walk: what it has emptied, and when it reports.
LEMMA WalkStep ==
    ASSUME Ground, CleanInv, L2Steps
    PROVE  /\ l2_state' \in {"FLUSH_TRIAGE", "FLUSH_STORE"} => \A i \in L2Idx : i < l2_idx' => ~l2_valid'[i]
           /\ l2_flush_complete' /\ ~l2_flush_complete =>
                 /\ FlushTriage \/ FlushStore
                 /\ l2_state' = "IDLE" /\ \A i \in L2Idx : ~l2_valid'[i]
<1> USE DEF Ground
<1>1. CASE ~FlushTriage /\ ~FlushStore
  <2>1. l2_flush_complete' = l2_flush_complete
    BY <1>1 DEF L2Steps, L2Step, L2Store, AcceptFlush, AcceptSnoop, AcceptReq, ProbeIssue, ProbeAnswered, UncachedPurge,
     Invl, PgDrop, SnoopWbinv, SnoopDrop, WriteThrough, ReadHit, WriteHit, WriteLine, Evict,
     StartReload, DirtyStore, CleanReload, UncacheStore, UncacheLoad, WbDrain, checkKeeps, memKeeps, l2Flush, l2Vars
  <2>2. CASE AcceptFlush
    <3>1. l2_idx' = 0
      BY <2>2 DEF AcceptFlush
    <3>2. \A i \in L2Idx : ~(i < 0)
      BY SizeAssumption DEF L2Idx
    <3> QED
      BY <2>1, <3>1, <3>2
  <2>3. CASE ~AcceptFlush
    <3>1. l2_state' \notin {"FLUSH_TRIAGE", "FLUSH_STORE"}
      BY <1>1, <2>3 DEF L2Steps, L2Step, L2Store, AcceptSnoop, AcceptReq, ProbeIssue, ProbeAnswered, UncachedPurge,
       Invl, PgDrop, SnoopWbinv, SnoopDrop, WriteThrough, ReadHit, WriteHit, WriteLine, Evict, Writeback, Done, Check,
       StartReload, DirtyStore, CleanReload, UncacheStore, UncacheLoad, WbDrain, l2Vars
    <3> QED
      BY <2>1, <3>1
  <2> QED
    BY <2>2, <2>3
<1>2. CASE FlushTriage \/ FlushStore
  <2>1. l2_idx \in 0 .. L2Lines - 1 /\ L2Lines \in Nat /\ l2_valid \in [L2Idx -> BOOLEAN]
    BY SizeAssumption, ArrayTypes DEF TypeOK, L2TypeOK, L2Idx
  <2>2. \A i \in L2Idx : i < l2_idx => ~l2_valid[i]
    BY <1>2 DEF CleanInv, FlushTriage, FlushStore
  <2>3. \A i \in L2Idx : i < l2_idx \/ i = l2_idx => ~l2_valid'[i]
    <3>1. CASE FlushTriage
      <4>1. l2_valid' = [l2_valid EXCEPT ![l2_idx] = FALSE]
        BY <3>1 DEF FlushTriage, Drop
      <4> QED
        BY <2>1, <2>2, <4>1 DEF L2Idx
    <3>2. CASE FlushStore
      <4>1. l2_valid' = l2_valid /\ ~l2_valid[l2_idx]
        BY <3>2 DEF FlushStore, l2Arrays, WorkInv, WbInv
      <4> QED
        BY <2>2, <4>1
    <3> QED
      BY <1>2, <3>1, <3>2
  <2>4. \/ l2_state' = "FLUSH_STORE" /\ l2_idx' = l2_idx /\ l2_flush_complete' = l2_flush_complete
        \/ l2_state' = "IDLE" /\ l2_idx = L2Lines - 1
        \/ l2_state' = "FLUSH_TRIAGE" /\ l2_idx' = l2_idx + 1 /\ l2_flush_complete' = l2_flush_complete
    BY <1>2 DEF FlushTriage, FlushStore, WalkOn
  <2>5. CASE l2_state' = "FLUSH_STORE" /\ l2_idx' = l2_idx /\ l2_flush_complete' = l2_flush_complete
    BY <2>3, <2>5
  <2>6. CASE l2_state' = "IDLE" /\ l2_idx = L2Lines - 1
    <3>1. \A i \in L2Idx : i < l2_idx \/ i = l2_idx
      BY <2>1, <2>6 DEF L2Idx
    <3> QED
      BY <1>2, <2>3, <2>6, <3>1
  <2>7. CASE l2_state' = "FLUSH_TRIAGE" /\ l2_idx' = l2_idx + 1 /\ l2_flush_complete' = l2_flush_complete
    <3>1. \A i \in L2Idx : i < l2_idx' => i < l2_idx \/ i = l2_idx
      BY <2>1, <2>7 DEF L2Idx
    <3> QED
      BY <2>3, <2>7, <3>1
  <2> QED
    BY <2>4, <2>5, <2>6, <2>7
<1> QED
  BY <1>1, <1>2

\* The actions that answer.
LEMMA L2Answers ==
    ASSUME L2Steps
    PROVE  \/ rsp' = rsp
           \/ AcceptReq \/ Invl \/ PgDrop \/ ReadHit \/ UncacheStore \/ UncacheLoad \/ WbDrain
<1>1. CASE AcceptFlush \/ AcceptSnoop \/ ProbeIssue \/ ProbeAnswered \/ UncachedPurge \/ SnoopWbinv
  BY <1>1 DEF AcceptFlush, AcceptSnoop, ProbeIssue, ProbeAnswered, UncachedPurge, SnoopWbinv
<1>2. CASE SnoopDrop \/ WriteThrough \/ WriteHit \/ Evict \/ StartReload
  BY <1>2 DEF SnoopDrop, WriteThrough, WriteHit, Evict, StartReload
<1>3. CASE DirtyStore \/ CleanReload \/ FlushTriage \/ FlushStore
  BY <1>3 DEF DirtyStore, CleanReload, FlushTriage, FlushStore
<1> QED
  BY <1>1, <1>2, <1>3 DEF L2Steps, L2Step, L2Store

LEMMA L2Clean ==
    ASSUME Discipline, Ground, PresenceInv', CleanInv, DataInv, L2Steps PROVE CleanInv'
<1> USE DEF Ground
<1>1. \A l \in Line : Settled(l) => Settled(l)'
  BY L2LineKeeps DEF Keeps
<1>2. /\ UNCHANGED <<dma, core_op, core_l2_done, d_pg_dirty_cnt>>
      /\ \A l : Visited(l)' <=> Visited(l)
  BY L2Frame
<1>3. \A l \in Line : l \notin StoreLine => Settled(l)'
  BY <1>1 DEF CleanInv
<1>4. dma'.mode = "xpg" /\ dma'.phase # "idle" =>
          \A l \in PageSet : Visited(l)' \/ dma'.phase # "pre" => Settled(l)'
  <2>1. \A l \in PageSet : l \in Line
    BY PageAssumption DEF PageSet
  <2> QED
    BY <1>1, <1>2, <2>1 DEF CleanInv
<1>5. core_op' = "all" /\ (l2_flush_complete' \/ core_l2_done') => \A l \in Line : Settled(l)'
  <2>1. CASE l2_flush_complete' /\ ~l2_flush_complete
    <3>1. (FlushTriage \/ FlushStore) /\ l2_state' = "IDLE" /\ \A i \in L2Idx : ~l2_valid'[i]
      BY <2>1, WalkStep
    <3>2. l2_state \in {"FLUSH_TRIAGE", "FLUSH_STORE"} /\ UNCHANGED <<l2_r, l2_prb, probe, ack>>
      BY <3>1 DEF FlushTriage, FlushStore, memKeeps
    <3>3. Empty /\ (\A l : ~Carried(l)) /\ l2_r.op = "none" /\ ~ack.valid
      BY <3>2, FlushAlone DEF PresenceInv, TokenInv, ProbeInv, WorkInv, RegInv, Busy
    <3>4. ASSUME NEW l \in Line PROVE Settled(l)'
      <4>1. L2Of[l] \in L2Idx
        BY LineTypes
      <4>2. ~HoldsL2(l)' /\ ~PrbDirty(l)' /\ ~Leaving(l)' /\ ~AckDirty(l)' /\ ~Served(l)'
        BY <3>1, <3>2, <3>3, <4>1 DEF HoldsL2, InL2, PrbDirty, Leaving, AckDirty, Served
      <4>3. UNCHANGED upVars
        BY L2Frame
      <4>4. ~DirtyAt(l)' /\ ~Carried(l)'
        BY <3>3, <4>3, UpSame DEF DirtyAt, HitAt, Empty
      <4> QED
        BY <4>2, <4>4 DEF Settled
    <3> QED
      BY <3>4
  <2>2. CASE ~(l2_flush_complete' /\ ~l2_flush_complete)
    BY <1>1, <1>2, <2>2 DEF CleanInv
  <2> QED
    BY <2>1, <2>2
<1>6. l2_state' \in {"FLUSH_TRIAGE", "FLUSH_STORE"} => \A i \in L2Idx : i < l2_idx' => ~l2_valid'[i]
  BY WalkStep
<1>7. ~rsp'.dirty
  <2>1. ~rsp.dirty
    BY DEF CleanInv
  <2>2. CASE PgDrop
    <3>1. l2_state = "CHECK" /\ ~l2_r.uncached /\ l2_r.op = "PGDROP"
      BY <2>2 DEF PgDrop, Check
    <3>2. ~MustWrite
      BY <3>1, PgDropSettled
    <3> QED
      BY <2>2, <3>2 DEF PgDrop, Answer
  <2>3. CASE ~PgDrop
    <3>1. CASE Invl \/ WbDrain
      BY <2>1, <3>1 DEF Invl, WbDrain, Answer
    <3>2. CASE AcceptReq \/ ReadHit \/ UncacheStore \/ UncacheLoad
      BY <2>1, <3>2 DEF AcceptReq, ReadHit, UncacheStore, UncacheLoad, Answer
    <3> QED
      BY <2>1, <2>3, <3>1, <3>2, L2Answers
  <2> QED
    BY <2>2, <2>3
<1>8. d_pg_dirty_cnt' = 0
  BY <1>2 DEF CleanInv
<1> QED
  BY <1>3, <1>4, <1>5, <1>6, <1>7, <1>8 DEF CleanInv

\* What reaches DRAM through the L2 is the last write.
LEMMA DramKept ==
    ASSUME Ground, L2Steps, NEW x \in Line, Settled(x) \/ Fresh(x), dram[x] = latest[x]
    PROVE  dram'[x] = latest'[x]
<1> USE DEF Ground
<1>1. dram \in [Line -> Val] /\ latest \in [Line -> Val]
  BY LineTypes
<1>2. CASE UncacheStore
  <2>1. /\ latest' = (IF l2_r.uncached /\ l2_r.full THEN [latest EXCEPT ![l2_r.line] = l2_r.data] ELSE latest)
        /\ dram' = (IF l2_r.full THEN [dram EXCEPT ![l2_r.line] = l2_r.data] ELSE dram)
        /\ l2_state = "UNCACHE_STORE"
    <3>1. l2_state = "UNCACHE_STORE"
      BY <1>2 DEF UncacheStore
    <3>2. ~L2Step
      <4>1. ~L2Step \/ (\/ FlushTriage \/ FlushStore \/ DirtyStore \/ CleanReload \/ UncacheLoad \/ WbDrain)
        BY <3>1 DEF L2Step, AcceptFlush, AcceptSnoop, AcceptReq, ProbeIssue, ProbeAnswered, UncachedPurge,
           Invl, PgDrop, SnoopWbinv, SnoopDrop, WriteThrough, ReadHit, WriteHit, WriteLine, Evict, StartReload, Check
      <4> QED
        BY <3>1, <4>1 DEF FlushTriage, FlushStore, DirtyStore, CleanReload, UncacheLoad, WbDrain
    <3> QED
      BY <3>1, <3>2 DEF L2Steps, L2Store, UncacheStore
  <2>2. l2_r.op \in {"SW", "WB"} /\ (~l2_r.uncached => l2_r.op = "WB")
    BY <2>1 DEF WorkInv, RegInv, PresenceInv, BusInv, OpInv
  <2>3. CASE x # l2_r.line
    BY <1>1, <2>1, <2>3
  <2>4. CASE x = l2_r.line /\ l2_r.uncached
    BY <1>1, <2>1, <2>4
  <2>5. CASE x = l2_r.line /\ ~l2_r.uncached
    <3>1. l2_r.data = latest[x]
      BY <2>2, <2>5 DEF Served, Settled, Fresh
    <3> QED
      BY <1>1, <2>1, <2>5, <3>1
  <2> QED
    BY <2>3, <2>4, <2>5
<1>3. CASE DirtyStore \/ WbDrain \/ FlushStore
  <2>1. Landed
    BY <1>3, Lands
  <2>2. latest' = latest
    BY <1>3, L2Frame DEF UncacheStore, DirtyStore, WbDrain, FlushStore
  <2>3. x = l2_wb.line => l2_wb.data = latest[x]
    BY <2>1 DEF Landed, Leaving, Settled, Fresh
  <2> QED
    BY <1>1, <2>1, <2>2, <2>3 DEF Landed
<1>4. CASE ~UncacheStore /\ ~(DirtyStore \/ WbDrain \/ FlushStore)
  <2>1. latest' = latest
    BY <1>4, L2Frame
  <2>2. dram' = dram
    BY <1>4 DEF L2Steps, L2Step, L2Store, AcceptFlush, AcceptSnoop, AcceptReq, ProbeIssue, ProbeAnswered,
       UncachedPurge, Invl, PgDrop, SnoopWbinv, SnoopDrop, WriteThrough, ReadHit, WriteHit, WriteLine, Evict,
       StartReload, CleanReload, UncacheLoad, FlushTriage, checkKeeps
  <2> QED
    BY <2>1, <2>2
<1> QED
  BY <1>2, <1>3, <1>4

\* A line the L2 hands to the L1D is not in it.
LEMMA FillAlone ==
    ASSUME Ground, ReadHit, arb_state = "GNT_L1D" PROVE Matches /\ ~Copy(l2_r.line) /\ ~Served(l2_r.line)
<1> USE DEF Ground
<1>1. l2_state = "CHECK" /\ ~l2_r.uncached /\ l2_r.op = "LW" /\ Hit /\ ~NeedProbe
  BY DEF ReadHit, Check
<1>2. Matches
  BY <1>1 DEF PresenceInv, BusInv, ServeInv, Serving, Busy, Posted
<1>3. d_mem_req.op = "LW" /\ d_mem_req.cacheable /\ d_mem_req.line = l2_r.line /\ d_mem_req.colour = l2_r.colour /\ l2_r.from_d
  BY <1>1, <1>2, RegTypes DEF Matches
<1>4. ~HitAt(SetOf[l2_r.line][l2_r.colour], l2_r.line)
  BY <1>3 DEF WorkInv, AskInv
<1>5. ASSUME NEW s \in DSet, HitAt(s, l2_r.line) PROVE FALSE
  <2>1. /\ d_valid[s] /\ d_tag[s] = l2_r.line
    BY <1>5 DEF HitAt
  <2>2. /\ l2_pd[Idx] /\ l2_pidx[Idx] = ColourOf[s] /\ SetOf[l2_r.line][ColourOf[s]] = s
    BY <2>1 DEF PresenceInv, CopyInv, Presence, PlaceInv, Idx
  <2>3. CASE l2_prb.done
    BY <2>1, <2>3 DEF PresenceInv, ProbeInv, NoCopyAt, Idx
  <2>4. CASE ~l2_prb.done
    <3>1. l2_pidx[Idx] = l2_r.colour
      BY <1>1, <1>3, <2>2, <2>4 DEF NeedProbe, Alias
    <3> QED
      BY <1>4, <1>5, <2>2, <3>1
  <2> QED
    BY <2>3, <2>4
<1> QED
  BY <1>1, <1>2, <1>5 DEF Copy, Served

\* What the L2 answers to a load is the last write.
LEMMA L2Loads ==
    ASSUME Ground, DataInv, L2Steps, NEW m \in Line, m = d_mem_req.line,
           RspToL1D', d_mem_req.op = "LW", ~Stale(m)
    PROVE  rsp'.data = latest'[m]
<1> USE DEF Ground
<1>1. ~rsp.valid /\ rsp'.valid /\ arb_state = "GNT_L1D" /\ Fresh(m)
  BY L2Frame, L2Waits DEF RspToL1D, upVars, DataInv
<1>2. ASSUME Serving PROVE Matches /\ l2_r.op = "LW" /\ l2_r.line = m
  <2>1. Matches
    BY <1>1, <1>2 DEF PresenceInv, BusInv, ServeInv
  <2> QED
    BY <2>1 DEF Matches
<1>3. ~AcceptReq
  BY <1>1 DEF AcceptReq
<1>4. ~Invl /\ ~PgDrop
  <2>1. Invl \/ PgDrop => Serving /\ l2_r.op # "LW"
    BY DEF Invl, PgDrop, Check, Serving, Busy, Posted
  <2> QED
    BY <1>2, <2>1
<1>5. ~UncacheStore
  <2>1. SUFFICES ASSUME UncacheStore PROVE FALSE
    OBVIOUS
  <2>2. l2_state = "UNCACHE_STORE"
    BY <2>1 DEF UncacheStore
  <2>3. l2_r.op \in {"SW", "WB"} /\ (l2_r.uncached \/ l2_r.op = "WB")
    BY <2>2 DEF WorkInv, RegInv, PresenceInv, BusInv, OpInv
  <2>4. Serving
    BY <2>2, <2>3 DEF Serving, Busy, Posted
  <2> QED
    BY <1>2, <2>3, <2>4
<1>6. ~WbDrain
  <2>1. SUFFICES ASSUME WbDrain PROVE FALSE
    OBVIOUS
  <2>2. l2_r.op = "INVL" /\ l2_state = "UNCACHE_WB_DRAIN"
    BY <1>1, <2>1 DEF WbDrain
  <2> QED
    BY <1>2, <2>2 DEF Serving, Busy, Posted
<1>7. latest' = latest
  BY <1>5, L2Frame
<1>8. CASE ReadHit
  <2>1. /\ l2_state = "CHECK" /\ Hit /\ ~NeedProbe /\ l2_r.op = "LW"
        /\ rsp'.data = (IF l2_prb.dirty THEN l2_prb.data ELSE l2_data[Idx])
    BY <1>8 DEF ReadHit, Check, Answer
  <2>2. l2_r.line = m /\ ~Copy(m) /\ ~Served(m)
    <3>1. Serving
      BY <2>1 DEF Serving, Busy, Posted
    <3>2. Matches /\ ~Copy(l2_r.line) /\ ~Served(l2_r.line)
      BY <1>1, <1>8, FillAlone
    <3> QED
      BY <1>2, <3>1, <3>2
  <2>3. InL2(m) /\ L2Of[m] = Idx
    BY <2>1, <2>2 DEF InL2, Hit, Resident, Idx
  <2>4. ~DirtyAt(m) /\ ~AckDirty(m) /\ ~Carrying(m)
    BY <2>1, <2>2, DirtyCopy, NoProbeLeft DEF Carrying, Carried
  <2>5. PrbDirty(m) <=> l2_prb.dirty
    BY <2>3 DEF PrbDirty
  <2> QED
    BY <1>1, <1>7, <2>1, <2>2, <2>3, <2>4, <2>5 DEF Fresh
<1>9. CASE UncacheLoad
  <2>1. l2_state = "UNCACHE_LOAD" /\ rsp'.data = dram[l2_r.line]
    BY <1>9 DEF UncacheLoad, Answer
  <2>2. l2_r.uncached /\ ~Hit
    BY <2>1 DEF PresenceInv, BusInv, OpInv, WorkInv, WbInv
  <2>3. Serving
    BY <2>1, <2>2 DEF Serving, Busy, Posted, PresenceInv, BusInv, OpInv
  <2>4. l2_r.line = m
    BY <1>2, <2>3
  <2>5. ~InL2(m) /\ ~Leaving(m) /\ ~Served(m)
    BY <2>1, <2>2, <2>4 DEF InL2, Hit, Resident, Idx, Leaving, Served
  <2> QED
    BY <1>1, <1>7, <2>1, <2>4, <2>5 DEF Fresh
<1> QED
  BY <1>1, <1>3, <1>4, <1>5, <1>6, <1>8, <1>9, L2Answers

\* A snoop is reported done when its line is nowhere but in DRAM.
LEMMA SnoopReported ==
    ASSUME Discipline, Ground, PresenceInv', CleanInv, L2Steps, snoop_done', ~snoop_done, NEW x \in Line, x = dma.line
    PROVE  /\ ~HoldsL2(x)' /\ ~Leaving(x)' /\ ~Served(x)' /\ ~DirtyAt(x)'
           /\ dma.phase = "post" => Nowhere(x)' /\ UNCHANGED <<dram, latest>>
<1> USE DEF Ground
<1>1. SnoopWbinv \/ SnoopDrop \/ WbDrain
  BY DEF L2Steps, L2Step, L2Store, AcceptFlush, AcceptSnoop, AcceptReq, ProbeIssue, ProbeAnswered, UncachedPurge,
     Invl, PgDrop, WriteThrough, ReadHit, WriteHit, WriteLine, Evict,
     StartReload, DirtyStore, CleanReload, UncacheStore, UncacheLoad, FlushTriage, FlushStore
<1>2. /\ l2_r.op = "SNOOP" /\ l2_state' = "IDLE" /\ l2_r' = NoL2Req
  BY <1>1 DEF SnoopWbinv, SnoopDrop, WbDrain, Check, Done
<1>3. l2_r.line = x /\ (l2_r.wbinv <=> dma.phase = "pre") /\ dma.phase \in {"pre", "post"}
  BY <1>2 DEF DmaInv, SnoopInv
<1>4. ~Leaving(x)' /\ ~Served(x)'
  BY <1>2 DEF Leaving, Served, NoL2Req
<1>5. ~HoldsL2(x)'
  <2>1. CASE SnoopWbinv \/ SnoopDrop
    <3>1. DropIf(Hit, Idx)
      BY <2>1 DEF SnoopWbinv, SnoopDrop
    <3>2. L2Of[x] = Idx /\ (HoldsL2(x) => Hit)
      BY <1>3 DEF Hit, Resident, Idx, HoldsL2
    <3> QED
      BY <3>1, <3>2, DropIfElse
  <2>2. CASE WbDrain
    BY <1>3, <2>2 DEF WbDrain, WorkInv, WbInv, l2Arrays, HoldsL2, Idx
  <2> QED
    BY <1>1, <2>1, <2>2
<1>6. UNCHANGED upVars
  BY L2Frame
<1>7. ~DirtyAt(x)'
  BY <1>5, <1>6, NoCopyLeft, UpSame, DirtyCopy
<1>8. ASSUME dma.phase = "post" PROVE Nowhere(x)' /\ UNCHANGED <<dram, latest>>
  <2>1. Settled(x)
    <3>1. dma.mode \in {"snoop", "xpg"}
      BY DEF TypeOK
    <3> QED
      BY <1>8, <3>1, PostSettled
  <2>2. ~WbDrain
    BY <1>3, <2>1 DEF WbDrain, Settled, Leaving, WorkInv, WbInv
  <2>3. SnoopDrop
    BY <1>1, <1>3, <1>8, <2>2 DEF SnoopWbinv
  <2>4. l2_state = "CHECK" /\ dram' = dram
    BY <2>3 DEF SnoopDrop, Check, checkKeeps
  <2>5. L2Idles /\ latest' = latest
    BY <1>6, <2>4, L2Frame DEF UncacheStore, L2Idles
  <2> QED
    BY <1>8, <2>3, <2>4, <2>5, SnoopDropKeeps
<1> QED
  BY <1>4, <1>5, <1>7, <1>8

LEMMA L2Data ==
    ASSUME Discipline, Ground, PresenceInv', CleanInv, DataInv, L2Steps PROVE DataInv'
<1> USE DEF Ground
<1>1. /\ UNCHANGED <<dma, core_op>> /\ UNCHANGED upVars /\ UNCHANGED <<d_mem_req, arb_state>>
      /\ \A l : Visited(l)' <=> Visited(l)
  BY L2Frame DEF upVars
<1>2. \A l \in Line : Fresh(l) => Fresh(l)'
  BY L2LineKeeps DEF Keeps
<1>3. dma.line \in Line /\ dma.mode \in {"snoop", "xpg"} /\ snoop_done \in BOOLEAN
  BY DEF TypeOK, InterconnectTypeOK
<1>4. ASSUME NEW l \in Line, Stale(l), ~Stale(l)' PROVE Nowhere(l)' /\ UNCHANGED <<dram, latest>> /\ l = dma.line
  <2>1. snoop_done' /\ ~snoop_done /\ l = dma.line /\ dma.phase = "post"
    BY <1>1, <1>4 DEF Stale
  <2> QED
    BY <2>1, SnoopReported
<1>5. ASSUME NEW l \in Line, ~Stale(l)' PROVE Fresh(l)'
  <2>1. CASE ~Stale(l)
    BY <1>2, <2>1 DEF DataInv
  <2>2. CASE Stale(l)
    <3>1. Nowhere(l)' /\ dram'[l] = latest'[l]
      BY <1>4, <1>5, <2>2 DEF DataInv, Stale
    <3> QED
      BY <3>1, NowhereFresh
  <2> QED
    BY <2>1, <2>2
<1>6. ack'.valid /\ Carried(probe.line)' => ack'.dirty
  <2>1. UNCHANGED <<probe, ack>> \/ ~ack'.valid
    <3>1. CASE ProbeIssue
      BY <3>1 DEF ProbeIssue, PresenceInv, ProbeInv
    <3>2. CASE ProbeAnswered
      BY <3>2 DEF ProbeAnswered, NoAck
    <3>3. CASE ~ProbeIssue /\ ~ProbeAnswered
      BY <3>3 DEF L2Steps, L2Step, L2Store, AcceptFlush, AcceptSnoop, AcceptReq, UncachedPurge,
       Invl, PgDrop, SnoopWbinv, SnoopDrop, WriteThrough, ReadHit, WriteHit, WriteLine, Evict,
       StartReload, DirtyStore, CleanReload, UncacheStore, UncacheLoad, WbDrain, FlushTriage, FlushStore,
       checkKeeps, memKeeps
    <3> QED
      BY <3>1, <3>2, <3>3
  <2> QED
    BY <1>1, <2>1 DEF DataInv, Carried
<1>7. RspToL1D' /\ d_mem_req'.op = "LW" /\ ~Stale(d_mem_req.line)' => rsp'.data = latest'[d_mem_req'.line]
  <2>1. SUFFICES ASSUME NEW m \in Line, m = d_mem_req.line, RspToL1D', d_mem_req.op = "LW", ~Stale(m)'
                 PROVE  rsp'.data = latest'[m]
    BY <1>1, RegTypes
  <2>2. CASE ~Stale(m)
    BY <2>1, <2>2, L2Loads
  <2>3. CASE Stale(m)
    <3>1. snoop_done' /\ ~snoop_done
      BY <1>1, <2>1, <2>3 DEF Stale
    <3>2. SnoopWbinv \/ SnoopDrop \/ (WbDrain /\ l2_r.op = "SNOOP" /\ rsp' = rsp)
      BY <3>1 DEF L2Steps, L2Step, L2Store, AcceptFlush, AcceptSnoop, AcceptReq, ProbeIssue, ProbeAnswered, UncachedPurge,
        Invl, PgDrop, WriteThrough, ReadHit, WriteHit, WriteLine, Evict,
        StartReload, DirtyStore, CleanReload, UncacheStore, UncacheLoad, WbDrain, FlushTriage, FlushStore
    <3>3. rsp' = rsp
      BY <3>2 DEF SnoopWbinv, SnoopDrop
    <3>4. ~rsp.valid
      BY L2Frame, L2Waits
    <3> QED
      BY <2>1, <3>3, <3>4 DEF RspToL1D
  <2> QED
    BY <2>2, <2>3
<1>8. dma'.phase = "post" => dram'[dma'.line] = latest'[dma'.line]
  <2>1. SUFFICES ASSUME dma.phase = "post" PROVE dram'[dma.line] = latest'[dma.line]
    BY <1>1
  <2>2. Settled(dma.line) /\ dram[dma.line] = latest[dma.line]
    BY <1>3, <2>1, PostSettled DEF DataInv
  <2> QED
    BY <1>3, <2>2, DramKept
<1>9. dma'.mode = "snoop" /\ (dma'.phase = "xfer" \/ (dma'.phase = "pre" /\ snoop_done')) =>
          dram'[dma'.line] = latest'[dma'.line] /\ ~DirtyAt(dma.line)'
  <2>1. SUFFICES ASSUME NEW x \in Line, x = dma.line, dma.mode = "snoop",
                        dma.phase = "xfer" \/ (dma.phase = "pre" /\ snoop_done')
                 PROVE  dram'[x] = latest'[x] /\ ~DirtyAt(x)'
    BY <1>1, <1>3 DEF DirtyAt, HitAt
  <2>2. Fresh(x)
    BY <2>1 DEF DataInv, Stale
  <2>3. CASE dma.phase = "xfer" \/ snoop_done
    <3>1. dram[x] = latest[x] /\ ~DirtyAt(x)
      BY <2>1, <2>3 DEF DataInv
    <3> QED
      BY <1>1, <2>2, <3>1, DramKept, UpSame
  <2>4. CASE dma.phase # "xfer" /\ ~snoop_done
    <3>1. ~HoldsL2(x)' /\ ~Leaving(x)' /\ ~Served(x)' /\ ~DirtyAt(x)'
      BY <2>1, <2>4, SnoopReported
    <3>2. Fresh(x)'
      BY <1>2, <2>2
    <3> QED
      BY <3>1, <3>2 DEF Fresh, InL2, HoldsL2
  <2> QED
    BY <1>3, <2>3, <2>4
<1> QED
  BY <1>1, <1>5, <1>6, <1>7, <1>8, <1>9 DEF DataInv

-----------------------------------------------------------------------------
\* The other steps move no data of the CPU's.
stillVars == <<d_valid, d_dirty, d_tag, d_data, d_mem_req, ack, probe, l2_state, l2_r, l2_prb, l2_wb, l2_valid,
               l2_dirty, l2_tag, l2_data, l2_pd, l2_idx, d_pg_dirty_cnt, d_state, d_prb_ret, d_pg_off>>

Still == /\ UNCHANGED stillVars
         /\ RspToL1D' => rsp' = rsp /\ RspToL1D
         /\ rsp' = rsp \/ rsp' = NoRsp

LEMMA StillParts ==
    ASSUME Still, NEW l
    PROVE  /\ DirtyAt(l)' <=> DirtyAt(l)
           /\ Carried(l)' <=> Carried(l)
           /\ Served(l)' <=> Served(l)
           /\ AckDirty(l)' <=> AckDirty(l)
           /\ Leaving(l)' <=> Leaving(l)
           /\ PrbDirty(l)' <=> PrbDirty(l)
           /\ HoldsL2(l)' <=> HoldsL2(l)
           /\ InL2(l)' <=> InL2(l)
           /\ (Settled(l)' <=> Settled(l)) /\ Idx' = Idx
           /\ Carrying(l) => Carrying(l)'
<1>1. /\ DirtyAt(l)' <=> DirtyAt(l)
      /\ Carried(l)' <=> Carried(l)
      /\ Served(l)' <=> Served(l)
      /\ AckDirty(l)' <=> AckDirty(l)
      /\ Leaving(l)' <=> Leaving(l)
      /\ HoldsL2(l)' <=> HoldsL2(l)
      /\ (InL2(l)' <=> InL2(l)) /\ Idx' = Idx
  BY DEF Still, stillVars, DirtyAt, HitAt, Carried, Served, AckDirty, Leaving, HoldsL2, InL2, Idx
<1>2. PrbDirty(l)' <=> PrbDirty(l)
  BY <1>1 DEF Still, stillVars, PrbDirty
<1>3. Settled(l)' <=> Settled(l)
  BY <1>1, <1>2 DEF Still, stillVars, Settled
<1>4. Carrying(l) => Carrying(l)'
  BY <1>1 DEF Still, Carrying
<1> QED
  BY <1>1, <1>2, <1>3, <1>4

LEMMA StillFresh ==
    ASSUME Still, NEW l, dram'[l] = dram[l], latest'[l] = latest[l], Fresh(l) PROVE Fresh(l)'
<1>1. UNCHANGED <<d_data, d_mem_req, l2_r, ack, l2_wb, l2_prb, l2_data, l2_dirty, l2_pd>>
  BY DEF Still, stillVars
<1>2. \A s \in DSet : HitAt(s, l)' => d_data'[s] = latest'[l]
  BY DEF Still, stillVars, HitAt, Fresh
<1> QED
  BY <1>1, <1>2, StillParts DEF Fresh

\* The steps that touch neither DRAM nor the last write.
LEMMA StillData ==
    ASSUME Ground, CleanInv, DataInv, Still, UNCHANGED <<dram, latest>>,
           \A l \in PageSet : dma'.mode = "xpg" /\ dma'.phase # "idle" /\ (Visited(l)' \/ dma'.phase # "pre") =>
              dma.mode = "xpg" /\ dma.phase # "idle" /\ (Visited(l) \/ dma.phase # "pre"),
           core_op' = "all" /\ (l2_flush_complete' \/ core_l2_done') =>
              core_op = "all" /\ (l2_flush_complete \/ core_l2_done),
           \A l \in Line : Stale(l) => Stale(l)',
           dma'.phase = "post" => dma.phase = "post" /\ dma'.line = dma.line,
           dma'.mode = "snoop" /\ (dma'.phase = "xfer" \/ (dma'.phase = "pre" /\ snoop_done')) =>
              /\ dma.mode = "snoop" /\ (dma.phase = "xfer" \/ (dma.phase = "pre" /\ snoop_done))
              /\ dma'.line = dma.line
    PROVE  CleanInv' /\ DataInv'
<1> USE DEF Ground
<1>1. \A l : Settled(l)' <=> Settled(l)
  BY StillParts
<1>2. UNCHANGED <<l2_state, l2_idx, l2_valid, d_pg_dirty_cnt, ack, probe, d_mem_req>> /\ (rsp' = rsp \/ ~rsp'.dirty)
  BY DEF Still, stillVars, NoRsp
<1>3. CleanInv'
  BY <1>1, <1>2 DEF CleanInv
<1>4. \A l \in Line : ~Stale(l)' => Fresh(l)'
  BY StillFresh DEF DataInv
<1>5. ack'.valid /\ Carried(probe.line)' => ack'.dirty
  BY <1>2 DEF DataInv, Carried
<1>6. RspToL1D' /\ d_mem_req'.op = "LW" /\ ~Stale(d_mem_req.line)' => rsp'.data = latest'[d_mem_req'.line]
  <2>1. SUFFICES ASSUME NEW m \in Line, m = d_mem_req.line, RspToL1D', d_mem_req.op = "LW", ~Stale(m)'
                 PROVE  rsp'.data = latest'[m]
    BY <1>2, RegTypes
  <2> QED
    BY <2>1 DEF DataInv, Still
<1>7. dma'.phase = "post" => dram'[dma'.line] = latest'[dma'.line]
  BY DEF DataInv
<1>8. dma'.mode = "snoop" /\ (dma'.phase = "xfer" \/ (dma'.phase = "pre" /\ snoop_done')) =>
          dram'[dma'.line] = latest'[dma'.line] /\ ~DirtyAt(dma.line)'
  <2>1. SUFFICES ASSUME NEW x, x = dma.line, x = dma'.line, dma.mode = "snoop",
                        dma.phase = "xfer" \/ (dma.phase = "pre" /\ snoop_done)
                 PROVE  dram'[x] = latest'[x] /\ ~DirtyAt(x)'
    BY DEF DirtyAt, HitAt
  <2> QED
    BY <2>1, StillParts DEF DataInv
<1> QED
  BY <1>2, <1>3, <1>4, <1>5, <1>6, <1>7, <1>8 DEF DataInv

\* The steps that leave the devices and the flushes alone, too.
LEMMA SameData ==
    ASSUME Ground, CleanInv, DataInv, Still,
           UNCHANGED <<dram, latest, dma, core_op, core_l1d_done, core_l2_done, d_flush_complete, snoop_done, l2_flush_complete>>
    PROVE  CleanInv' /\ DataInv'
<1>1. \A l : Visited(l)' <=> Visited(l)
  BY DEF Still, stillVars, Visited, InPage, Eff
<1>2. \A l : Stale(l)' <=> Stale(l)
  BY <1>1 DEF Stale
<1> QED
  BY <1>1, <1>2, StillData

\* A flush starts where none was under way, so it has visited nothing yet.
LEMMA StartFlushData ==
    ASSUME Ground, CleanInv, DataInv, CoreIdle, NEW o \in {"cl", "pg", "all"}, NEW x, NEW b, StartFlush(o, x, b)
    PROVE  /\ Still /\ UNCHANGED <<dram, latest, snoop_done>>
           /\ \A l : ~Visited(l) /\ ~Visited(l)'
           /\ ~(core_op' = "all" /\ (l2_flush_complete' \/ core_l2_done'))
<1> USE DEF Ground
<1>1. /\ UNCHANGED stillVars /\ UNCHANGED <<dram, latest, snoop_done, rsp, arb_state, core_l1d_done, d_flush_complete>>
      /\ UNCHANGED l2_flush_complete /\ core_op' = o
  BY DEF StartFlush, stillVars, busVars, arbVars, dArrays, l2Arrays
<1>2. core_op = "none" /\ ~d_flush_complete /\ ~core_l1d_done /\ ~InPage /\ ~l2_flush_complete /\ ~core_l2_done
  BY DEF CoreIdle, PresenceInv, TokenInv
<1>3. Still
  BY <1>1 DEF Still, RspToL1D
<1>4. \A l : ~Visited(l) /\ ~Visited(l)'
  BY <1>1, <1>2 DEF Visited, InPage, Eff, stillVars
<1>5. core_op' = "all" => ~core_l2_done'
  BY <1>1, <1>2 DEF StartFlush
<1> QED
  BY <1>1, <1>2, <1>3, <1>4, <1>5

\* A device writes its buffer behind the caches' back: the copies are stale.
LEMMA DeviceWriteData ==
    ASSUME Ground, CleanInv, DataInv, DeviceWrite PROVE CleanInv' /\ DataInv'
<1> USE DEF Ground
<1>1. /\ dma.phase = "xfer" /\ dma' = [dma EXCEPT !.phase = "post"]
      /\ UNCHANGED stillVars
      /\ UNCHANGED <<rsp, arb_state, core_op, core_l1d_done, core_l2_done, d_flush_complete, snoop_done, l2_flush_complete>>
  BY DEF DeviceWrite, stillVars, arbVars, l1dVars, dArrays, dFlush, l2Vars, l2Arrays, l2Flush, coreVars
<1>2. PICK v : dram' = [dram EXCEPT ![dma.line] = v] /\ latest' = [latest EXCEPT ![dma.line] = v]
  BY DEF DeviceWrite
<1>3. dma'.phase = "post" /\ dma'.line = dma.line /\ dma'.mode = dma.mode /\ dma.line \in Line
  BY <1>1 DEF TypeOK
<1>4. dram \in [Line -> Val] /\ latest \in [Line -> Val]
  BY LineTypes
<1>5. Still
  BY <1>1 DEF Still, RspToL1D
<1>6. core_op # "pg" /\ ~snoop_done
  BY <1>1 DEF DmaInv, SnoopInv, PageInv
<1>7. \A l : ~Visited(l) /\ ~Visited(l)'
  BY <1>1, <1>6 DEF Visited
<1>9. \A l \in Line : l # dma.line => dram'[l] = dram[l] /\ latest'[l] = latest[l]
  BY <1>2, <1>4
<1>10. CleanInv'
  <2>1. \A l : Settled(l)' <=> Settled(l)
    BY <1>5, StillParts
  <2>2. UNCHANGED <<l2_state, l2_idx, l2_valid, d_pg_dirty_cnt>>
    BY <1>1 DEF stillVars
  <2> QED
    BY <1>1, <1>3, <2>1, <2>2 DEF CleanInv
<1>11. ASSUME NEW l \in Line, ~Stale(l)' PROVE l # dma.line /\ ~Stale(l) /\ Fresh(l)'
  <2>1. l # dma.line
    BY <1>3, <1>1, <1>6, <1>7, <1>11 DEF Stale
  <2>2. ~Stale(l)
    BY <1>1 DEF Stale
  <2> QED
    BY <1>5, <1>9, <2>1, <2>2, StillFresh DEF DataInv
<1>12. UNCHANGED <<ack, probe, d_mem_req>>
  BY <1>1 DEF stillVars
<1>13. ack'.valid /\ Carried(probe.line)' => ack'.dirty
  BY <1>12 DEF DataInv, Carried
<1>14. RspToL1D' /\ d_mem_req'.op = "LW" /\ ~Stale(d_mem_req.line)' => rsp'.data = latest'[d_mem_req'.line]
  <2>1. SUFFICES ASSUME NEW m \in Line, m = d_mem_req.line, RspToL1D', d_mem_req.op = "LW", ~Stale(m)'
                 PROVE  rsp'.data = latest'[m]
    BY <1>12, RegTypes
  <2> QED
    BY <1>5, <1>9, <1>11, <2>1 DEF DataInv, Still
<1>15. dram'[dma'.line] = latest'[dma'.line]
  BY <1>2, <1>3, <1>4
<1> QED
  BY <1>3, <1>10, <1>11, <1>12, <1>13, <1>14, <1>15 DEF DataInv

-----------------------------------------------------------------------------
\* Every step keeps the invariant.
LEMMA NextData ==
    ASSUME Discipline, Ground, PresenceInv', CleanInv, DataInv, [Next]_vars PROVE CleanInv' /\ DataInv'
<1> USE DEF Ground
<1>1. CASE CpuAccept
  <2>1. PICK q \in [op : CpuOps, line : Line, colour : Colour, val : Val, full : BOOLEAN] : Accept(q)
    BY <1>1 DEF CpuAccept
  <2>2. /\ UNCHANGED stillVars /\ UNCHANGED <<rsp, arb_state>>
        /\ UNCHANGED <<dram, latest, dma, core_op, core_l1d_done, core_l2_done, d_flush_complete, snoop_done, l2_flush_complete>>
    BY <1>1, <2>1 DEF CpuAccept, Accept, quietBus, otherWires, arbVars, dArrays, dFlush, l2Vars,
       l2Arrays, l2Flush, coreVars, dmaVars, stillVars
  <2> QED
    BY <2>2, SameData DEF Still, RspToL1D
<1>2. CASE CpuStore \/ CpuChopInvalidate \/ CpuFlushCl \/ SocDmaInval \/ L1DStep
  BY <1>2, L1DData DEF L1DSteps
<1>3. CASE L2Step \/ L2Store
  BY <1>3, L2Clean, L2Data DEF L2Steps
<1>4. CASE Arbiter \/ FetchMiss \/ FetchReload
  <2>1. /\ UNCHANGED stillVars
        /\ UNCHANGED <<dram, latest, dma, core_op, core_l1d_done, core_l2_done, d_flush_complete, snoop_done, l2_flush_complete>>
    BY <1>4 DEF Arbiter, ArbGrant, FetchMiss, FetchReload, l1dVars, dArrays, dFlush, l2Vars, l2Arrays,
       l2Flush, coreVars, dmaVars, stillVars
  <2>2. Still
    <3>1. CASE Arbiter
      BY <2>1, <3>1 DEF Arbiter, ArbGrant, Still, RspToL1D, PresenceInv, BusInv, LatchInv
    <3>2. CASE FetchMiss
      BY <2>1, <3>2 DEF FetchMiss, Still, RspToL1D
    <3>3. CASE FetchReload
      BY <2>1, <3>3 DEF FetchReload, TakeRsp, NoRsp, Still, RspToL1D
    <3> QED
      BY <1>4, <3>1, <3>2, <3>3
  <2> QED
    BY <2>1, <2>2, SameData
<1>5. CASE CoreFlush \/ DmaPageDrop
  <2>1. PICK o, x, b : o \in {"cl", "pg", "all"} /\ CoreIdle /\ StartFlush(o, x, b)
    BY <1>5 DEF CoreFlush, DmaPageDrop
  <2>2. dma' = dma
    BY <1>5 DEF CoreFlush, DmaPageDrop, dmaVars
  <2>3. /\ Still /\ UNCHANGED <<dram, latest, snoop_done>>
        /\ \A l : ~Visited(l) /\ ~Visited(l)'
        /\ ~(core_op' = "all" /\ (l2_flush_complete' \/ core_l2_done'))
    BY <2>1, StartFlushData
  <2>4. \A l : Stale(l)' <=> Stale(l)
    BY <2>2, <2>3 DEF Stale
  <2> QED
    BY <2>2, <2>3, <2>4, StillData
<1>6. CASE L1DFlushPulse \/ L2FlushPulse
  <2>1. /\ UNCHANGED stillVars /\ UNCHANGED <<rsp, arb_state, dram, latest, dma, core_op, snoop_done>>
        /\ d_flush_complete' \/ core_l1d_done' <=> d_flush_complete \/ core_l1d_done
        /\ l2_flush_complete' \/ core_l2_done' <=> l2_flush_complete \/ core_l2_done
    BY <1>6 DEF L1DFlushPulse, L2FlushPulse, busVars, arbVars, l1dVars, dArrays, dFlush, l2Vars, l2Arrays, dmaVars,
       stillVars
  <2>2. Still
    BY <2>1 DEF Still, RspToL1D
  <2>3. \A l : Visited(l)' <=> Visited(l)
    BY <2>1 DEF Visited, InPage, Eff, stillVars
  <2>4. \A l : Stale(l)' <=> Stale(l)
    BY <2>1, <2>3 DEF Stale
  <2> QED
    BY <2>1, <2>2, <2>3, <2>4, StillData
<1>7. CASE CoreFlushEnd
  <2>1. /\ UNCHANGED stillVars /\ UNCHANGED <<rsp, arb_state, dram, latest, snoop_done, l2_flush_complete>>
        /\ core_l1d_done /\ core_op' = "none"
        /\ dma' = (IF core_op = "pg" THEN IF dma.phase = "pre" THEN [dma EXCEPT !.phase = "xfer"] ELSE NoDma ELSE dma)
    BY <1>7 DEF CoreFlushEnd, FlushDone, busVars, arbVars, l1dVars, dArrays, dFlush, l2Vars, l2Arrays, l2Flush, stillVars
  <2>2. Still
    BY <2>1 DEF Still, RspToL1D
  <2>3. \A l : ~Visited(l)' /\ (Visited(l) <=> core_op = "pg")
    BY <2>1 DEF Visited
  <2>4. CASE core_op # "pg"
    <3>1. \A l : Stale(l)' <=> Stale(l)
      BY <2>1, <2>3, <2>4 DEF Stale
    <3> QED
      BY <2>1, <2>2, <2>3, <2>4, <3>1, StillData
  <2>5. CASE core_op = "pg"
    <3>1. dma.mode = "xpg" /\ dma.phase \in {"pre", "post"}
      BY <2>5 DEF DmaInv, PageInv
    <3>2. \A l : ~Stale(l)
      BY <2>3, <2>5 DEF Stale
    <3>3. CASE dma.phase = "pre"
      <4>1. dma'.mode = "xpg" /\ dma'.phase = "xfer"
        BY <2>1, <2>5, <3>1, <3>3 DEF TypeOK
      <4> QED
        BY <2>1, <2>2, <2>3, <2>5, <3>1, <3>2, <4>1, StillData
    <3>4. CASE dma.phase = "post"
      <4>1. dma'.phase = "idle"
        BY <2>1, <2>5, <3>4 DEF NoDma
      <4> QED
        BY <2>1, <2>2, <3>2, <4>1, StillData
    <3> QED
      BY <3>1, <3>3, <3>4
  <2> QED
    BY <2>4, <2>5
<1>8. CASE DmaBegin
  <2>1. PICK x \in DmaXfers :
          /\ dma' = [phase |-> "pre", mode |-> x[1], dir |-> x[2], line |-> x[3]]
          /\ \/ /\ x[1] = "snoop"
                /\ UNCHANGED <<arbVars, d_mem_req, i_mem_req, rsp, probe, ack, snoop_done, dram,
                               l1dVars, l2Vars, coreVars, latest>>
             \/ x[1] = "xpg" /\ CoreIdle /\ StartFlush("pg", x[3], FALSE)
    BY <1>8 DEF DmaBegin
  <2>2. dma.phase = "idle" /\ ~snoop_done /\ dma'.phase = "pre" /\ dma'.mode = x[1]
    BY <1>8, <2>1 DEF DmaBegin, DmaInv, SnoopInv
  <2>3. \A l : ~Stale(l)
    BY <2>2 DEF Stale
  <2>4. CASE x[1] = "xpg" /\ CoreIdle /\ StartFlush("pg", x[3], FALSE)
    <3>1. /\ Still /\ UNCHANGED <<dram, latest, snoop_done>>
          /\ \A l : ~Visited(l) /\ ~Visited(l)'
          /\ ~(core_op' = "all" /\ (l2_flush_complete' \/ core_l2_done'))
      BY <2>4, StartFlushData
    <3> QED
      BY <2>2, <2>3, <2>4, <3>1, StillData
  <2>5. CASE /\ x[1] = "snoop"
             /\ UNCHANGED <<arbVars, d_mem_req, i_mem_req, rsp, probe, ack, snoop_done, dram,
                            l1dVars, l2Vars, coreVars, latest>>
    <3>1. /\ UNCHANGED stillVars /\ UNCHANGED <<rsp, arb_state, dram, latest, snoop_done, core_op, core_l2_done, l2_flush_complete>>
      BY <2>5 DEF arbVars, l1dVars, dArrays, dFlush, l2Vars, l2Arrays, l2Flush, coreVars, stillVars
    <3>2. Still
      BY <3>1 DEF Still, RspToL1D
    <3> QED
      BY <2>2, <2>3, <2>5, <3>1, <3>2, StillData
  <2> QED
    BY <2>1, <2>4, <2>5
<1>9. CASE SnoopEnd
  <2>1. /\ UNCHANGED stillVars /\ UNCHANGED <<rsp, arb_state, dram, latest, core_op, core_l2_done, l2_flush_complete>>
        /\ snoop_done /\ dma' = (IF dma.phase = "pre" THEN [dma EXCEPT !.phase = "xfer"] ELSE NoDma)
    BY <1>9 DEF SnoopEnd, arbVars, l1dVars, dArrays, dFlush, l2Vars, l2Arrays, l2Flush, coreVars, stillVars
  <2>2. Still
    BY <2>1 DEF Still, RspToL1D
  <2>3. dma.mode = "snoop" /\ dma.phase \in {"pre", "post"} /\ \A l : ~Stale(l)
    BY <2>1 DEF DmaInv, SnoopInv, Stale
  <2>4. CASE dma.phase = "pre"
    <3>1. dma'.mode = "snoop" /\ dma'.phase = "xfer" /\ dma'.line = dma.line
      BY <2>1, <2>3, <2>4 DEF TypeOK
    <3> QED
      BY <2>1, <2>2, <2>3, <2>4, <3>1, StillData
  <2>5. CASE dma.phase # "pre"
    <3>1. dma'.phase = "idle"
      BY <2>1, <2>5 DEF NoDma
    <3> QED
      BY <2>1, <2>2, <2>3, <3>1, StillData
  <2> QED
    BY <2>4, <2>5
<1>10. CASE DeviceRead
  <2>1. /\ UNCHANGED stillVars /\ UNCHANGED <<rsp, arb_state, dram, latest, core_op, core_l2_done, l2_flush_complete>>
        /\ dma.phase = "xfer" /\ dma'.phase = "idle"
    BY <1>10 DEF DeviceRead, NoDma, busVars, arbVars, l1dVars, dArrays, dFlush, l2Vars, l2Arrays, l2Flush, coreVars, stillVars
  <2>2. Still
    BY <2>1 DEF Still, RspToL1D
  <2>3. \A l : ~Stale(l)
    BY <2>1 DEF Stale
  <2> QED
    BY <2>1, <2>2, <2>3, StillData
<1>11. CASE DeviceWrite
  BY <1>11, DeviceWriteData
<1>12. CASE DmaInvalReq \/ UNCHANGED vars
  <2>1. /\ UNCHANGED stillVars /\ UNCHANGED <<rsp, arb_state>>
        /\ UNCHANGED <<dram, latest, dma, core_op, core_l1d_done, core_l2_done, d_flush_complete, snoop_done, l2_flush_complete>>
    BY <1>12 DEF DmaInvalReq, vars, busVars, arbVars, l1dVars, dArrays, dFlush, l2Vars,
       l2Arrays, l2Flush, coreVars, dmaVars, stillVars
  <2> QED
    BY <2>1, SameData DEF Still, RspToL1D
<1> QED
  BY <1>1, <1>2, <1>3, <1>4, <1>5, <1>6, <1>7, <1>8, <1>9, <1>10, <1>11, <1>12 DEF Next

\* Nothing is held and nothing is under way at reset.
LEMMA InitData == Init => CleanInv /\ DataInv
<1> SUFFICES ASSUME Init PROVE CleanInv /\ DataInv
  OBVIOUS
<1>1. TypeOK
  BY InitTypes
<1>2. /\ d_mem_req.op = "none" /\ l2_r.op = "none" /\ ~ack.valid /\ l2_state = "IDLE" /\ ~l2_prb.dirty /\ ~rsp.valid
      /\ ~rsp.dirty /\ dma.phase = "idle" /\ core_op = "none" /\ latest = dram /\ d_pg_dirty_cnt = 0
  BY DEF Init, InterconnectInit, L1DInit, L2Init, NoMemReq, NoL2Req, NoAck, NoPrb, NoRsp, NoDma
<1>3. (\A s \in DSet : ~d_valid[s]) /\ \A i \in L2Idx : ~l2_valid[i]
  BY DEF Init, L1DInit, L2Init
<1>4. ASSUME NEW l \in Line PROVE Settled(l) /\ Fresh(l)
  <2>1. L2Of[l] \in L2Idx
    BY <1>1, LineTypes
  <2>2. /\ ~Carried(l) /\ ~Served(l) /\ ~AckDirty(l) /\ ~Leaving(l) /\ ~PrbDirty(l) /\ ~HoldsL2(l) /\ ~InL2(l)
        /\ ~DirtyAt(l)
    BY <1>2, <1>3, <2>1 DEF Carried, Served, AckDirty, Leaving, PrbDirty, HoldsL2, InL2, DirtyAt, HitAt
  <2>3. \A s \in DSet : ~HitAt(s, l)
    BY <1>3 DEF HitAt
  <2> QED
    BY <1>2, <2>2, <2>3 DEF Settled, Fresh
<1> QED
  BY <1>2, <1>4 DEF CleanInv, DataInv, RspToL1D

-----------------------------------------------------------------------------
LEMMA CoherenceInduction ==
    ASSUME Discipline
    PROVE  /\ Init => TypeOK /\ CoherenceInv
           /\ TypeOK /\ CoherenceInv /\ [Next]_vars => TypeOK' /\ CoherenceInv'
<1>1. Init => TypeOK /\ CoherenceInv
  BY InitTypes, InitInv, InitWork, InitData DEF CoherenceInv
<1>2. ASSUME TypeOK, CoherenceInv, [Next]_vars PROVE TypeOK' /\ CoherenceInv'
  <2>1. TypeOK'
    BY <1>2, NextTypes
  <2>2. PresenceInv'
    BY <1>2, NextKeeps DEF CoherenceInv, Discipline
  <2>3. WorkInv' /\ DmaInv'
    BY <1>2, <2>2, NextWork DEF CoherenceInv
  <2>4. CleanInv' /\ DataInv'
    BY <1>2, <2>2, NextData DEF CoherenceInv, Ground
  <2> QED
    BY <2>1, <2>2, <2>3, <2>4 DEF CoherenceInv
<1> QED
  BY <1>1, <1>2

\* The invariant is what it claims to be: from reset it holds for ever, whatever
\* L1D, L2, L1I, flushes, snoops and devices do.
THEOREM CoherenceHolds == ASSUME Discipline PROVE Spec => []CoherenceInv
<1>1. Init => TypeOK /\ CoherenceInv
  BY CoherenceInduction
<1>2. TypeOK /\ CoherenceInv /\ [Next]_vars => TypeOK' /\ CoherenceInv'
  BY CoherenceInduction
<1> QED
  BY <1>1, <1>2, PTL DEF Spec

\* What a fresh line's newest copy holds.
LEMMA FreshNewest == ASSUME Ground, NEW l \in Line, Fresh(l) PROVE Newest(l) = latest[l]
<1> DEFINE own == {s \in DSet : HitAt(s, l)}
<1>1. CASE own # {}
  <2>1. (CHOOSE s \in own : TRUE) \in own
    BY <1>1
  <2>2. d_data[CHOOSE s \in own : TRUE] = latest[l]
    BY <2>1 DEF Fresh
  <2> QED
    BY <1>1, <2>2 DEF Newest
<1>2. CASE own = {}
  <2>1. ~DirtyAt(l)
    BY <1>2 DEF DirtyAt
  <2>2. Newest(l) = IF Carried(l) THEN d_mem_req.data
                    ELSE IF Served(l) THEN l2_r.data
                    ELSE IF AckDirty(l) THEN ack.data
                    ELSE IF Leaving(l) THEN l2_wb.data
                    ELSE IF ~InL2(l) THEN dram[l]
                    ELSE IF PrbDirty(l) THEN l2_prb.data
                    ELSE l2_data[L2Of[l]]
    BY <1>2 DEF Newest, AckDirty, PrbDirty
  <2> QED
    BY <2>1, <2>2 DEF Fresh, Carrying
<1> QED
  BY <1>1, <1>2

LEMMA CoherentFollows == ASSUME TypeOK, CoherenceInv PROVE Coherent
<1>1. Ground
  BY DEF CoherenceInv, Ground
<1>2. ASSUME NEW l \in Line, ~InDma(l) PROVE ~Stale(l)
  <2>1. SUFFICES ASSUME Stale(l) PROVE FALSE
    OBVIOUS
  <2>2. dma.phase = "post" /\ l = dma.line
    BY <2>1 DEF Stale
  <2> QED
    BY <1>2, <2>2 DEF InDma, CoherenceInv, DmaInv, PageInv
<1>3. \A l \in Line : ~InDma(l) => Newest(l) = latest[l]
  BY <1>1, <1>2, FreshNewest DEF CoherenceInv, DataInv
<1>4. ASSUME RspToL1D, d_state = "INJECT_UNCACHE_LOAD", ~InDma(d_mem_req.line) PROVE rsp.data = latest[d_mem_req.line]
  <2>1. d_mem_req.op = "LW"
    BY <1>4 DEF CoherenceInv, WorkInv, AskInv, Eff
  <2>2. ~Stale(d_mem_req.line)
    BY <1>2, <1>4, RegTypes
  <2> QED
    BY <1>4, <2>1, <2>2 DEF CoherenceInv, DataInv
<1> QED
  BY <1>3, <1>4 DEF Coherent

\* No write is lost and no stale copy is in front of it, for every geometry,
\* address map, value set and interleaving that respects the discipline: the
\* newest copy of a line no device owns is the last write, and so is the answer
\* to an uncached load.
THEOREM CoherentHolds == ASSUME Discipline PROVE Spec => []Coherent
<1>1. Init => TypeOK /\ CoherenceInv
  BY CoherenceInduction
<1>2. TypeOK /\ CoherenceInv /\ [Next]_vars => TypeOK' /\ CoherenceInv'
  BY CoherenceInduction
<1>3. TypeOK /\ CoherenceInv => Coherent
  BY CoherentFollows
<1> QED
  BY <1>1, <1>2, <1>3, PTL DEF Spec

LEMMA FlushFollows == ASSUME TypeOK, CoherenceInv PROVE FlushComplete
<1>1. SUFFICES ASSUME core_op = "all", core_l1d_done, core_l2_done
               PROVE  Empty /\ \A l \in Line : ~InDma(l) => dram[l] = latest[l]
  BY DEF FlushComplete, FlushDone, Empty
<1>2. Empty
  BY <1>1 DEF CoherenceInv, PresenceInv, WalkInv
<1>3. ASSUME NEW l \in Line, ~InDma(l) PROVE dram[l] = latest[l]
  <2>1. Settled(l)
    BY <1>1 DEF CoherenceInv, CleanInv
  <2>2. ~Stale(l)
    BY <1>3 DEF Stale, InDma, CoherenceInv, DmaInv, PageInv
  <2>3. Fresh(l)
    BY <2>2 DEF CoherenceInv, DataInv
  <2> QED
    BY <2>1, <2>3, SettledDram DEF CoherenceInv, Ground
<1> QED
  BY <1>2, <1>3

\* A whole-cache flush that reports completion has emptied the L1D and left every
\* write in DRAM (core.sv CACHE_FLUSH, l1d.sv and l2.sv flush walks).
THEOREM FlushCompletes == ASSUME Discipline PROVE Spec => []FlushComplete
<1>1. Init => TypeOK /\ CoherenceInv
  BY CoherenceInduction
<1>2. TypeOK /\ CoherenceInv /\ [Next]_vars => TypeOK' /\ CoherenceInv'
  BY CoherenceInduction
<1>3. TypeOK /\ CoherenceInv => FlushComplete
  BY FlushFollows
<1> QED
  BY <1>1, <1>2, <1>3, PTL DEF Spec

LEMMA DmaOutFollows == ASSUME TypeOK, CoherenceInv PROVE DmaOutFresh
<1>1. SUFFICES ASSUME dma.phase = "xfer" PROVE dram[dma.line] = latest[dma.line]
  BY DEF DmaOutFresh
<1>2. dma.line \in Line /\ dma.mode \in {"snoop", "xpg"}
  BY DEF TypeOK
<1>3. CASE dma.mode = "snoop"
  BY <1>1, <1>3 DEF CoherenceInv, DataInv
<1>4. CASE dma.mode = "xpg"
  <2>1. dma.line \in PageSet
    BY <1>1, <1>4 DEF CoherenceInv, DmaInv, PageInv
  <2>2. Settled(dma.line)
    BY <1>1, <1>4, <2>1 DEF CoherenceInv, CleanInv
  <2>3. Fresh(dma.line)
    BY <1>1, <1>2 DEF CoherenceInv, DataInv, Stale
  <2> QED
    BY <1>2, <2>2, <2>3, SettledDram DEF CoherenceInv, Ground
<1> QED
  BY <1>2, <1>3, <1>4

\* A device that reads memory after its snoop or page flush reads what the CPU
\* last wrote (l2.sv snoop WBINV, l1d.sv page walk).
THEOREM DmaOutReadsLast == ASSUME Discipline PROVE Spec => []DmaOutFresh
<1>1. Init => TypeOK /\ CoherenceInv
  BY CoherenceInduction
<1>2. TypeOK /\ CoherenceInv /\ [Next]_vars => TypeOK' /\ CoherenceInv'
  BY CoherenceInduction
<1>3. TypeOK /\ CoherenceInv => DmaOutFresh
  BY DmaOutFollows
<1> QED
  BY <1>1, <1>2, <1>3, PTL DEF Spec

\* The page drop after a DMA-in never meets dirty data: neither the L1D's walk nor
\* the L2's MEM_PGDROP counts one ("dirty here is a bug", l2.sv).
THEOREM PageDropsClean == ASSUME Discipline PROVE Spec => []PageDropClean
<1>1. Init => TypeOK /\ CoherenceInv
  BY CoherenceInduction
<1>2. TypeOK /\ CoherenceInv /\ [Next]_vars => TypeOK' /\ CoherenceInv'
  BY CoherenceInduction
<1>3. CoherenceInv => PageDropClean
  BY DEF CoherenceInv, CleanInv, PageDropClean
<1> QED
  BY <1>1, <1>2, <1>3, PTL DEF Spec

\* The L2 never starts a second reload for one request, the $stop on r_reload in
\* CHECK_VALID_AND_TAG.  This needs only what presence needs.
THEOREM ReloadsOnce == ASSUME NoUncachedSynonym PROVE Spec => []ReloadOnce
<1> DEFINE I == TypeOK /\ PresenceInv /\ WorkInv /\ DmaInv
<1>1. Init => I
  BY InitTypes, InitInv, InitWork
<1>2. I /\ [Next]_vars => I'
  <2>1. SUFFICES ASSUME I, [Next]_vars PROVE I'
    OBVIOUS
  <2>2. TypeOK' /\ PresenceInv'
    BY <2>1, NextTypes, NextKeeps
  <2> QED
    BY <2>1, <2>2, NextWork
<1>3. I => ReloadOnce
  BY DEF WorkInv, RegInv, ReloadOnce, Check
<1> QED
  BY <1>1, <1>2, <1>3, PTL DEF Spec
=============================================================================
