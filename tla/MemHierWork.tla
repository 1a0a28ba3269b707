---------------------------- MODULE MemHierWork ----------------------------
(***************************************************************************)
(* The first layer of the proof of Coherent: what the L2's registers, the    *)
(* L1D's request, the presence marks, the snoop and the page walk stand for   *)
(* (WorkInv, DmaInv) is kept by every step.  PresenceInv is assumed before    *)
(* and after the step.                                                        *)
(***************************************************************************)
EXTENDS MemHierData, MemHierPresence

LEMMA AskFrame == ASSUME AskInv, UNCHANGED l1dSide PROVE AskInv'
BY DEF AskInv, l1dSide, HitAt, Eff

LEMMA L2Work ==
    ASSUME TypeOK, PresenceInv, PresenceInv', WorkInv, L2Action, UNCHANGED <<l1dVars, coreVars>>
    PROVE  WorkInv'
<1> USE DEF l2Arrays, l2Flush, Check, checkKeeps, memKeeps, Done, NoL2Req, NoPrb, Answer, Busy, Posted,
            Serving, WorkInv
<1>a. UNCHANGED l1dSide /\ ~rsp.valid /\ AskInv'
  BY L1DSide, L2Waits, AskFrame
<1>b. Idx \in L2Idx /\ l2_idx \in L2Idx
  BY IdxType DEF TypeOK, L2TypeOK
<1>c. /\ l2_valid \in [L2Idx -> BOOLEAN] /\ l2_tag \in [L2Idx -> Line] /\ l2_pd \in [L2Idx -> BOOLEAN]
      /\ l2_r.line \in Line /\ d_mem_req.line \in Line /\ L2Of[d_mem_req.line] \in L2Idx
  BY ArrayTypes, RegTypes, IndexAssumption
<1>1. CASE AcceptFlush
  <2>1. RegInv'
    BY <1>1, <1>a, <1>b, <1>c DEF AcceptFlush, RegInv, Matches, l1dSide, Hit, Resident, Idx
  <2>2. WbInv'
    BY <1>1, <1>a, <1>b, <1>c DEF AcceptFlush, WbInv, Hit, Resident, Idx
  <2>3. AnsweredInv'
    BY <1>1, <1>a, <1>b, <1>c DEF AcceptFlush, AnsweredInv, RspToL1D, l1dSide
  <2>4. MarkInv'
    BY <1>1, <1>a, <1>b, <1>c DEF AcceptFlush, MarkInv, Hit, Resident, Idx, Carried, l1dSide
  <2> QED
    BY <1>a, <2>1, <2>2, <2>3, <2>4
<1>2. CASE AcceptSnoop
  <2>1. RegInv'
    BY <1>2, <1>a, <1>b, <1>c DEF AcceptSnoop, RegInv, Matches, l1dSide, Hit, Resident, Idx
  <2>2. WbInv'
    BY <1>2, <1>a, <1>b, <1>c DEF AcceptSnoop, WbInv, Hit, Resident, Idx
  <2>3. AnsweredInv'
    BY <1>2, <1>a, <1>b, <1>c DEF AcceptSnoop, AnsweredInv, RspToL1D, l1dSide
  <2>4. MarkInv'
    BY <1>2, <1>a, <1>b, <1>c DEF AcceptSnoop, MarkInv, Hit, Resident, Idx, Carried, l1dSide
  <2> QED
    BY <1>a, <2>1, <2>2, <2>3, <2>4
<1>3. CASE AcceptReq
  <2>1. RegInv'
    <3>1. ~l2_prb.done /\ ~l2_reload /\ ~l2_prb.dirty
      BY <1>3 DEF AcceptReq, RegInv, PresenceInv, ProbeInv
    <3>2. d_mem_req.op = "WB" => d_mem_req.full
      BY DEF PresenceInv, FsmInv, WaitState, AskInv
    <3>3. \/ arb_state' = "GNT_L1D" /\ Matches'
          \/ ~l2_r'.from_d /\ <<l2_r'.line, ~l2_r'.uncached>> \in IFetch
      <4>1. CASE arb_state = "GNT_L1D"
        BY <1>3, <1>a, <4>1 DEF AcceptReq, l1dSide, Matches
      <4>2. CASE arb_state = "GNT_L1I"
        BY <1>3, <4>2 DEF AcceptReq, PresenceInv, BusInv, LatchInv, TypeOK, InterconnectTypeOK, IMemReq
      <4> QED
        BY <1>3, <4>1, <4>2 DEF AcceptReq, PresenceInv, BusInv, LatchInv, TypeOK, InterconnectTypeOK
    <3> QED
      BY <1>3, <3>1, <3>2, <3>3 DEF AcceptReq, RegInv
  <2>2. WbInv'
    BY <1>3, <1>a, <1>b, <1>c DEF AcceptReq, WbInv, Hit, Resident, Idx
  <2>3. AnsweredInv'
    BY <1>3, <1>a, <1>b, <1>c DEF AcceptReq, AnsweredInv, RspToL1D, l1dSide
  <2>4. MarkInv'
    <3>1. /\ UNCHANGED <<l2_valid, l2_tag, l2_pd, l2_pidx, d_mem_req>>
          /\ l2_r'.op = "SW" /\ ~l2_r'.uncached =>
                /\ l2_r'.line = d_mem_req.line /\ d_mem_req.op = "SW" /\ d_mem_req.cacheable
                /\ rsp'.valid
      <4>1. arb_state \in {"GNT_L1D", "GNT_L1I"} /\ d_mem_req.cacheable \in BOOLEAN
        BY <1>3, RegTypes DEF AcceptReq, PresenceInv, BusInv, LatchInv, TypeOK, InterconnectTypeOK
      <4>2. CASE arb_state = "GNT_L1I"
        BY <1>3, <1>a, <4>2 DEF AcceptReq, l1dSide
      <4>3. CASE arb_state = "GNT_L1D"
        <5>1. l2_r'.op = d_mem_req.op /\ l2_r'.line = d_mem_req.line /\ l2_r'.uncached = ~d_mem_req.cacheable
          BY <1>3, <4>3 DEF AcceptReq
        <5>2. d_mem_req.op = "SW" /\ d_mem_req.cacheable => rsp'.valid
          BY <1>3, <4>3 DEF AcceptReq
        <5> QED
          BY <1>3, <1>a, <4>1, <5>1, <5>2 DEF AcceptReq, l1dSide
      <4> QED
        BY <4>1, <4>2, <4>3
    <3> QED
      BY <3>1 DEF MarkInv, Hit, Resident, Idx
  <2> QED
    BY <1>a, <2>1, <2>2, <2>3, <2>4
<1>4. CASE ProbeIssue
  <2>1. RegInv'
    BY <1>4, <1>a, <1>b, <1>c DEF ProbeIssue, l2Vars, RegInv, Matches, l1dSide, Hit, Resident, Idx
  <2>2. WbInv'
    BY <1>4, <1>a, <1>b, <1>c DEF ProbeIssue, l2Vars, WbInv, Hit, Resident, Idx
  <2>3. AnsweredInv'
    BY <1>4, <1>a, <1>b, <1>c DEF ProbeIssue, l2Vars, AnsweredInv, RspToL1D, l1dSide
  <2>4. MarkInv'
    BY <1>4, <1>a, <1>b, <1>c DEF ProbeIssue, l2Vars, MarkInv, Hit, Resident, Idx, Carried, l1dSide
  <2> QED
    BY <1>a, <2>1, <2>2, <2>3, <2>4
<1>5. CASE ProbeAnswered
  <2>1. RegInv'
    <3>1. l2_r.op # "WB" /\ l2_valid[Idx] /\ (Hit \/ l2_r.op \in {"LW", "SW"})
      BY <1>5 DEF ProbeAnswered, NeedProbe, Alias, SnoopProbe, VictimProbe, Hit
    <3> QED
      BY <1>5, <1>a, <3>1 DEF ProbeAnswered, NoProbe, NoAck, RegInv, Matches, l1dSide, Hit, Resident, Idx
  <2>2. WbInv'
    BY <1>5, <1>a, <1>b, <1>c DEF ProbeAnswered, NoProbe, NoAck, WbInv, Hit, Resident, Idx
  <2>3. AnsweredInv'
    BY <1>5, <1>a, <1>b, <1>c DEF ProbeAnswered, NoProbe, NoAck, AnsweredInv, RspToL1D, l1dSide
  <2>4. MarkInv'
    BY <1>5, <1>a, <1>b, <1>c DEF ProbeAnswered, NoProbe, NoAck, MarkInv, Hit, Resident, Idx,
       Carried, l1dSide
  <2> QED
    BY <1>a, <2>1, <2>2, <2>3, <2>4
<1>6. CASE UncachedPurge
  <2>1. RegInv'
    BY <1>6, <1>a, <1>b, <1>c DEF UncachedPurge, DropIf, Drop, Writeback, PurgeDirty, RegInv,
       Matches, l1dSide, Hit, Resident, Idx
  <2>2. WbInv'
    BY <1>6, <1>a, <1>b, <1>c DEF UncachedPurge, DropIf, Drop, Writeback, PurgeDirty, WbInv, Hit,
       Resident, Idx
  <2>3. AnsweredInv'
    BY <1>6, <1>a, <1>b, <1>c DEF UncachedPurge, DropIf, Drop, Writeback, PurgeDirty, AnsweredInv,
       RspToL1D, l1dSide
  <2>4. MarkInv'
    BY <1>6, <1>a, <1>b, <1>c DEF UncachedPurge, DropIf, Drop, Writeback, PurgeDirty, MarkInv, Hit,
       Resident, Idx, Carried, l1dSide
  <2> QED
    BY <1>a, <2>1, <2>2, <2>3, <2>4
<1>7. CASE Invl
  <2>1. RegInv'
    BY <1>7, <1>a, <1>b, <1>c DEF Invl, DropIf, Drop, Writeback, RegInv, Matches, l1dSide, Hit,
       Resident, Idx
  <2>2. WbInv'
    BY <1>7, <1>a, <1>b, <1>c DEF Invl, DropIf, Drop, Writeback, MustWrite, WbInv, Hit, Resident, Idx
  <2>3. AnsweredInv'
    <3>1. l2_r.line = d_mem_req.line /\ d_mem_req.op = "INVL" /\ d_mem_req' = d_mem_req
      BY <1>7, <1>a DEF Invl, PresenceInv, BusInv, ServeInv, Matches, l1dSide
    <3>2. rsp'.valid => ~(l2_valid'[Idx] /\ l2_tag'[Idx] = l2_r.line)
      BY <1>7, <1>a, <1>b, <1>c DEF Invl, DropIf, Drop, Hit, Resident, Writeback
    <3> QED
      BY <3>1, <3>2 DEF AnsweredInv, RspToL1D, HoldsL2, Idx
  <2>4. MarkInv'
    BY <1>7, <1>a, <1>b, <1>c DEF Invl, DropIf, Drop, Writeback, MarkInv, Hit, Resident, Idx,
       Carried, l1dSide
  <2> QED
    BY <1>a, <2>1, <2>2, <2>3, <2>4
<1>8. CASE PgDrop
  <2>1. RegInv'
    BY <1>8, <1>a, <1>b, <1>c DEF PgDrop, DropIf, Drop, RegInv, Matches, l1dSide, Hit, Resident, Idx
  <2>2. WbInv'
    BY <1>8, <1>a, <1>b, <1>c DEF PgDrop, DropIf, Drop, WbInv, Hit, Resident, Idx
  <2>3. AnsweredInv'
    <3>1. l2_r.line = d_mem_req.line /\ d_mem_req.op = "PGDROP" /\ d_mem_req' = d_mem_req
      BY <1>8, <1>a DEF PgDrop, PresenceInv, BusInv, ServeInv, Matches, l1dSide
    <3>2. rsp'.valid => ~(l2_valid'[Idx] /\ l2_tag'[Idx] = l2_r.line)
      BY <1>8, <1>a, <1>b, <1>c DEF PgDrop, DropIf, Drop, Hit, Resident, Writeback
    <3> QED
      BY <3>1, <3>2 DEF AnsweredInv, RspToL1D, HoldsL2, Idx
  <2>4. MarkInv'
    BY <1>8, <1>a, <1>b, <1>c DEF PgDrop, DropIf, Drop, MarkInv, Hit, Resident, Idx, Carried,
       l1dSide
  <2> QED
    BY <1>a, <2>1, <2>2, <2>3, <2>4
<1>9. CASE SnoopWbinv
  <2>1. RegInv'
    BY <1>9, <1>a, <1>b, <1>c DEF SnoopWbinv, DropIf, Drop, Writeback, RegInv, Matches, l1dSide,
       Hit, Resident, Idx
  <2>2. WbInv'
    BY <1>9, <1>a, <1>b, <1>c DEF SnoopWbinv, DropIf, Drop, Writeback, MustWrite, WbInv, Hit, Resident, Idx
  <2>3. AnsweredInv'
    BY <1>9, <1>a, <1>b, <1>c DEF SnoopWbinv, DropIf, Drop, Writeback, AnsweredInv, RspToL1D,
       l1dSide
  <2>4. MarkInv'
    BY <1>9, <1>a, <1>b, <1>c DEF SnoopWbinv, DropIf, Drop, Writeback, MarkInv, Hit, Resident, Idx,
       Carried, l1dSide
  <2> QED
    BY <1>a, <2>1, <2>2, <2>3, <2>4
<1>10. CASE SnoopDrop
  <2>1. RegInv'
    BY <1>10, <1>a, <1>b, <1>c DEF SnoopDrop, DropIf, Drop, RegInv, Matches, l1dSide, Hit, Resident,
       Idx
  <2>2. WbInv'
    BY <1>10, <1>a, <1>b, <1>c DEF SnoopDrop, DropIf, Drop, WbInv, Hit, Resident, Idx
  <2>3. AnsweredInv'
    BY <1>10, <1>a, <1>b, <1>c DEF SnoopDrop, DropIf, Drop, AnsweredInv, RspToL1D, l1dSide
  <2>4. MarkInv'
    BY <1>10, <1>a, <1>b, <1>c DEF SnoopDrop, DropIf, Drop, MarkInv, Hit, Resident, Idx, Carried,
       l1dSide
  <2> QED
    BY <1>a, <2>1, <2>2, <2>3, <2>4
<1>11. CASE WriteThrough
  <2>1. RegInv'
    <3>1. ~l2_reload /\ ~l2_prb.done /\ ~l2_prb.dirty
      BY <1>11 DEF WriteThrough, RegInv
    <3> QED
      BY <1>11, <1>a, <1>b, <1>c, <3>1 DEF WriteThrough, RegInv, Matches, l1dSide
  <2>2. WbInv'
    BY <1>11, <1>a, <1>b, <1>c DEF WriteThrough, WbInv, Hit, Resident, Idx
  <2>3. AnsweredInv'
    BY <1>11, <1>a, <1>b, <1>c DEF WriteThrough, AnsweredInv, RspToL1D, l1dSide
  <2>4. MarkInv'
    BY <1>11, <1>a, <1>b, <1>c DEF WriteThrough, MarkInv, Hit, Resident, Idx, Carried, l1dSide
  <2> QED
    BY <1>a, <2>1, <2>2, <2>3, <2>4
<1>12. CASE ReadHit
  <2>1. RegInv'
    BY <1>12, <1>a, <1>b, <1>c DEF ReadHit, MarkPresent, RegInv, Matches, l1dSide, Hit, Resident,
       Idx
  <2>2. WbInv'
    BY <1>12, <1>a, <1>b, <1>c DEF ReadHit, MarkPresent, WbInv, Hit, Resident, Idx
  <2>3. AnsweredInv'
    <3>1. rsp'.valid /\ arb_state = "GNT_L1D" => d_mem_req.op = "LW"
      BY <1>12 DEF ReadHit, PresenceInv, BusInv, ServeInv, Matches
    <3> QED
      BY <1>a, <3>1 DEF AnsweredInv, RspToL1D, l1dSide, ReadHit
  <2>4. MarkInv'
    <3>1. l2_r.from_d => d_mem_req.op = "LW" /\ <<l2_r.line, l2_r.colour>> \in CachedVA
      <4>1. l2_r.from_d => Matches
        BY <1>12 DEF ReadHit, RegInv
      <4> QED
        BY <1>12, <4>1, RegTypes DEF ReadHit, PresenceInv, Matches, UseInv
    <3>2. /\ UNCHANGED <<l2_valid, l2_tag, d_mem_req>> /\ ~Busy'
          /\ l2_valid[Idx] /\ l2_tag[Idx] = l2_r.line
          /\ d_mem_req.op = "SW" => l2_pd' = l2_pd /\ l2_pidx' = l2_pidx
      BY <1>12, <1>a, <3>1 DEF ReadHit, MarkPresent, Hit, Resident, l1dSide
    <3>3. \A i \in L2Idx : i # Idx => l2_pd'[i] = l2_pd[i] /\ l2_pidx'[i] = l2_pidx[i]
      BY <1>12, <1>b, ArrayTypes DEF ReadHit, MarkPresent
    <3>4. l2_r.from_d => l2_pidx'[Idx] = l2_r.colour
      BY <1>12, <1>b, ArrayTypes DEF ReadHit, MarkPresent
    <3>5. ~l2_r.from_d => l2_pd' = l2_pd /\ l2_pidx' = l2_pidx
      BY <1>12 DEF ReadHit, MarkPresent
    <3> QED
      BY <3>1, <3>2, <3>3, <3>4, <3>5 DEF MarkInv
  <2> QED
    BY <1>a, <2>1, <2>2, <2>3, <2>4
<1>13. CASE WriteHit
  <2>1. RegInv'
    BY <1>13, <1>a, <1>b, <1>c DEF WriteHit, WriteLine, RegInv, Matches, l1dSide, Hit, Resident, Idx
  <2>2. WbInv'
    BY <1>13, <1>a, <1>b, <1>c DEF WriteHit, WriteLine, WbInv, Hit, Resident, Idx
  <2>3. AnsweredInv'
    BY <1>13, <1>a, <1>b, <1>c DEF WriteHit, WriteLine, AnsweredInv, RspToL1D, l1dSide
  <2>4. MarkInv'
    BY <1>13, <1>a, <1>b, <1>c DEF WriteHit, WriteLine, MarkInv, Hit, Resident, Idx, Carried,
       l1dSide
  <2> QED
    BY <1>a, <2>1, <2>2, <2>3, <2>4
<1>14. CASE Evict
  <2>1. RegInv'
    BY <1>14, <1>a, <1>b, <1>c DEF Evict, Writeback, RegInv, Matches, l1dSide, Hit, Resident, Idx
  <2>2. WbInv'
    BY <1>14, <1>a, <1>b, <1>c DEF Evict, Writeback, WbInv, RegInv, Hit, Resident, Idx, NeedWb
  <2>3. AnsweredInv'
    BY <1>14, <1>a, <1>b, <1>c DEF Evict, Writeback, AnsweredInv, RspToL1D, l1dSide
  <2>4. MarkInv'
    BY <1>14, <1>a, <1>b, <1>c DEF Evict, Writeback, MarkInv, Hit, Resident, Idx, Carried, l1dSide
  <2> QED
    BY <1>a, <2>1, <2>2, <2>3, <2>4
<1>15. CASE StartReload
  <2>1. RegInv'
    BY <1>15, <1>a, <1>b, <1>c DEF StartReload, RegInv, Matches, l1dSide, Hit, Resident, Idx
  <2>2. WbInv'
    BY <1>15, <1>a, <1>b, <1>c DEF StartReload, WbInv, Hit, Resident, Idx
  <2>3. AnsweredInv'
    BY <1>15, <1>a, <1>b, <1>c DEF StartReload, AnsweredInv, RspToL1D, l1dSide
  <2>4. MarkInv'
    BY <1>15, <1>a, <1>b, <1>c DEF StartReload, MarkInv, Hit, Resident, Idx, Carried, l1dSide
  <2> QED
    BY <1>a, <2>1, <2>2, <2>3, <2>4
<1>16. CASE DirtyStore
  <2>1. RegInv'
    BY <1>16, <1>a, <1>b, <1>c DEF DirtyStore, RegInv, Matches, l1dSide, Hit, Resident, Idx
  <2>2. WbInv'
    BY <1>16, <1>a, <1>b, <1>c DEF DirtyStore, WbInv, Hit, Resident, Idx
  <2>3. AnsweredInv'
    BY <1>16, <1>a, <1>b, <1>c DEF DirtyStore, AnsweredInv, RspToL1D, l1dSide
  <2>4. MarkInv'
    BY <1>16, <1>a, <1>b, <1>c DEF DirtyStore, MarkInv, Hit, Resident, Idx, Carried, l1dSide
  <2> QED
    BY <1>a, <2>1, <2>2, <2>3, <2>4
<1>17. CASE CleanReload
  <2>1. RegInv'
    BY <1>17, <1>a, <1>b, <1>c DEF CleanReload, InstallTag, RegInv, Matches, l1dSide, Hit, Resident, Idx, PresenceInv, BusInv, OpInv
  <2>2. WbInv'
    BY <1>17, <1>a, <1>b, <1>c DEF CleanReload, InstallTag, WbInv, Hit, Resident, Idx
  <2>3. AnsweredInv'
    BY <1>17, <1>a, <1>b, <1>c DEF CleanReload, InstallTag, AnsweredInv, RspToL1D, l1dSide
  <2>4. MarkInv'
    BY <1>17, <1>a, <1>b, <1>c DEF CleanReload, InstallTag, MarkInv, Hit, Resident, Idx, Carried,
       l1dSide
  <2> QED
    BY <1>a, <2>1, <2>2, <2>3, <2>4
<1>18. CASE UncacheStore
  <2>1. RegInv'
    BY <1>18, <1>a, <1>b, <1>c DEF UncacheStore, RegInv, Matches, l1dSide, Hit, Resident, Idx
  <2>2. WbInv'
    BY <1>18, <1>a, <1>b, <1>c DEF UncacheStore, WbInv, Hit, Resident, Idx
  <2>3. AnsweredInv'
    <3>1. arb_state = "GNT_L1D" => l2_r.line = d_mem_req.line /\ l2_r.uncached = ~d_mem_req.cacheable /\ l2_r.op = d_mem_req.op
      BY <1>18 DEF UncacheStore, PresenceInv, BusInv, ServeInv, Matches, OpInv
    <3>2. l2_r.uncached \/ l2_r.op = "WB"
      BY <1>18 DEF UncacheStore, PresenceInv, BusInv, OpInv
    <3> QED
      BY <1>18, <1>a, <1>c, <3>1, <3>2 DEF UncacheStore, AnsweredInv, RspToL1D, l1dSide, RegInv, WbInv, HoldsL2, Hit, Resident, Idx
  <2>4. MarkInv'
    BY <1>18, <1>a, <1>b, <1>c DEF UncacheStore, MarkInv, Hit, Resident, Idx, Carried, l1dSide
  <2> QED
    BY <1>a, <2>1, <2>2, <2>3, <2>4
<1>19. CASE UncacheLoad
  <2>1. RegInv'
    BY <1>19, <1>a, <1>b, <1>c DEF UncacheLoad, RegInv, Matches, l1dSide, Hit, Resident, Idx
  <2>2. WbInv'
    BY <1>19, <1>a, <1>b, <1>c DEF UncacheLoad, WbInv, Hit, Resident, Idx
  <2>3. AnsweredInv'
    <3>1. arb_state = "GNT_L1D" => l2_r.line = d_mem_req.line /\ l2_r.uncached = ~d_mem_req.cacheable /\ l2_r.op = d_mem_req.op
      BY <1>19 DEF UncacheLoad, PresenceInv, BusInv, ServeInv, Matches, OpInv
    <3>2. l2_r.uncached
      BY <1>19 DEF UncacheLoad, PresenceInv, BusInv, OpInv
    <3> QED
      BY <1>19, <1>a, <1>c, <3>1, <3>2 DEF UncacheLoad, AnsweredInv, RspToL1D, l1dSide, RegInv, WbInv, HoldsL2, Hit, Resident, Idx, PresenceInv, BusInv, OpInv
  <2>4. MarkInv'
    BY <1>19, <1>a, <1>b, <1>c DEF UncacheLoad, MarkInv, Hit, Resident, Idx, Carried, l1dSide
  <2> QED
    BY <1>a, <2>1, <2>2, <2>3, <2>4
<1>20. CASE WbDrain
  <2>1. RegInv'
    BY <1>20, <1>a, <1>b, <1>c DEF WbDrain, RegInv, Matches, l1dSide, Hit, Resident, Idx
  <2>2. WbInv'
    BY <1>20, <1>a, <1>b, <1>c DEF WbDrain, WbInv, Hit, Resident, Idx
  <2>3. AnsweredInv'
    <3>1. rsp'.valid /\ arb_state = "GNT_L1D" => l2_r.line = d_mem_req.line /\ d_mem_req.op = "INVL"
      BY <1>20, <1>a DEF WbDrain, PresenceInv, BusInv, ServeInv, Matches, OpInv
    <3> QED
      BY <1>20, <1>a, <1>c, <3>1 DEF WbDrain, AnsweredInv, RspToL1D, l1dSide, WbInv, HoldsL2, Hit, Resident, Idx
  <2>4. MarkInv'
    BY <1>20, <1>a, <1>b, <1>c DEF WbDrain, MarkInv, Hit, Resident, Idx, Carried, l1dSide
  <2> QED
    BY <1>a, <2>1, <2>2, <2>3, <2>4
<1>21. CASE FlushTriage
  <2>1. RegInv'
    BY <1>21, <1>a, <1>b, <1>c DEF FlushTriage, Drop, WalkOn, RegInv, Matches, l1dSide, Hit,
       Resident, Idx
  <2>2. WbInv'
    BY <1>21, <1>a, <1>b, <1>c DEF FlushTriage, Drop, WalkOn, WbInv, Hit, Resident, Idx, PresenceInv, CopyInv, PlaceInv
  <2>3. AnsweredInv'
    BY <1>21, <1>a, <1>b, <1>c DEF FlushTriage, Drop, WalkOn, AnsweredInv, RspToL1D, l1dSide
  <2>4. MarkInv'
    BY <1>21, <1>a, <1>b, <1>c DEF FlushTriage, Drop, WalkOn, MarkInv, Hit, Resident, Idx, Carried,
       l1dSide
  <2> QED
    BY <1>a, <2>1, <2>2, <2>3, <2>4
<1>22. CASE FlushStore
  <2>1. RegInv'
    BY <1>22, <1>a, <1>b, <1>c DEF FlushStore, WalkOn, RegInv, Matches, l1dSide, Hit, Resident, Idx
  <2>2. WbInv'
    BY <1>22, <1>a, <1>b, <1>c DEF FlushStore, WalkOn, WbInv, Hit, Resident, Idx
  <2>3. AnsweredInv'
    BY <1>22, <1>a, <1>b, <1>c DEF FlushStore, WalkOn, AnsweredInv, RspToL1D, l1dSide
  <2>4. MarkInv'
    BY <1>22, <1>a, <1>b, <1>c DEF FlushStore, WalkOn, MarkInv, Hit, Resident, Idx, Carried, l1dSide
  <2> QED
    BY <1>a, <2>1, <2>2, <2>3, <2>4
<1> QED
  BY <1>1, <1>2, <1>3, <1>4, <1>5, <1>6, <1>7, <1>8, <1>9, <1>10, <1>11, <1>12, <1>13, <1>14, <1>15,
     <1>16, <1>17, <1>18, <1>19, <1>20, <1>21, <1>22 DEF L2Action

-----------------------------------------------------------------------------
(* L1D actions                                                             *)

\* The L2's side, under the three ways an L1D action treats the bus.
workRegs == <<l2_state, l2_r, l2_prb, l2_wb, l2_reload, l2_valid, l2_tag, l2_pd, l2_pidx, l2_idx>>

BusWork == RegInv /\ WbInv /\ AnsweredInv /\ MarkInv

LEMMA SameRegs == ASSUME UNCHANGED l2Vars PROVE UNCHANGED workRegs
BY DEF l2Vars, l2Arrays, l2Flush, workRegs

LEMMA QuietWork ==
    ASSUME WorkInv, UNCHANGED <<arb_state, d_mem_req, rsp>>, UNCHANGED workRegs PROVE BusWork'
<1>1. RegInv' /\ WbInv'
  BY DEF WorkInv, RegInv, WbInv, workRegs, Serving, Busy, Posted, Matches, Hit, Resident, Idx
<1>2. AnsweredInv' /\ MarkInv'
  BY DEF WorkInv, AnsweredInv, MarkInv, workRegs, Busy, Posted, Hit, Resident, Idx, RspToL1D, HoldsL2,
     Carried
<1> QED
  BY <1>1, <1>2 DEF BusWork

\* A writeback is of a line the L1D held, so the L2 has it marked and is not
\* busy with an earlier writeback of it.
LEMMA RequestWork ==
    ASSUME TypeOK, PresenceInv, WorkInv, UNCHANGED workRegs, Eff \notin WaitState,
           NEW o \in MemOp, NEW l \in Line, NEW c, NEW v, NEW b, NEW f, NEW w,
           Request(o, l, c, v, b, f, w), o \in {"SW", "WB"} /\ b => \E s \in DSet : HitAt(s, l)
    PROVE  BusWork'
<1>1. /\ UNCHANGED <<arb_state, rsp>> /\ d_mem_req'.op = o /\ d_mem_req'.line = l /\ d_mem_req'.cacheable = b
  BY DEF Request
<1>2. d_mem_req.op = "none" /\ arb_state # "GNT_L1D"
  BY DEF PresenceInv, FsmInv, BusInv, LatchInv
<1>3. RegInv' /\ WbInv'
  BY <1>1, <1>2 DEF WorkInv, RegInv, WbInv, workRegs, Serving, Busy, Posted, Hit, Resident, Idx
<1>4. AnsweredInv'
  BY <1>1, <1>2 DEF AnsweredInv, RspToL1D
<1>5. o = "SW" /\ b => l2_valid[L2Of[l]] /\ l2_tag[L2Of[l]] = l
  BY DEF PresenceInv, CopyInv, Presence, HitAt
<1>6. Busy /\ Posted /\ ~rsp.valid => ~(l2_r.line = l /\ o \in {"SW", "WB"} /\ b)
  BY DEF PresenceInv, CopyInv, GoneInv, NoCopy
<1>7. MarkInv'
  BY <1>1, <1>5, <1>6 DEF WorkInv, MarkInv, workRegs, Busy, Posted, Hit, Resident, Idx, Carried
<1> QED
  BY <1>3, <1>4, <1>7 DEF BusWork

LEMMA RespondWork ==
    ASSUME PresenceInv, WorkInv, UNCHANGED workRegs, Respond PROVE BusWork'
<1>1. rsp.valid /\ ~rsp'.valid /\ d_mem_req'.op = "none"
  BY DEF Respond, RspToL1D, TakeRsp, NoRsp, NoMemReq
<1>2. ~Serving
  BY <1>1 DEF PresenceInv, BusInv, ServeInv
<1>3. RegInv' /\ WbInv'
  BY <1>1, <1>2 DEF WorkInv, RegInv, WbInv, workRegs, Serving, Busy, Posted, Hit, Resident, Idx
<1>4. AnsweredInv' /\ MarkInv'
  BY <1>1 DEF WorkInv, AnsweredInv, MarkInv, workRegs, Busy, Posted, Hit, Resident, Idx, RspToL1D, Carried
<1> QED
  BY <1>3, <1>4 DEF BusWork

\* AskInv with nothing asked for, and with a request that is no fill.
LEMMA AskNone ==
    ASSUME AskInv, d_mem_req'.op = "none", Eff' \notin {"INJECT_RELOAD", "INJECT_UNCACHE_LOAD"},
           ~d_cl_is_dma', d_req' = d_req \/ d_req'.op = "none"
    PROVE  AskInv'
BY DEF AskInv

LEMMA AskRequest ==
    ASSUME AskInv, NEW o \in MemOp, NEW l, NEW c, NEW v, NEW b \in BOOLEAN, NEW f, NEW w,
           Request(o, l, c, v, b, f, w), d_req' = d_req,
           w \in WaitState \ {"INJECT_RELOAD", "INJECT_UNCACHE_LOAD"}, o # "LW" \/ ~b,
           o \in {"SW", "WB"} /\ b => f /\ \E x \in CachedVA : x[1] = l,
           o = "SW" /\ ~b => <<l, c>> \in UncachedVA /\ l \in StoreLine,
           d_cl_is_dma' => w = "FLUSH_CL_WAIT" /\ o = "INVL"
    PROVE  AskInv'
<1>1. /\ d_mem_req'.op = o /\ d_mem_req'.line = l /\ d_mem_req'.colour = c /\ d_mem_req'.cacheable = b
      /\ d_mem_req'.full = f /\ Eff' = w
  BY DEF Request, Eff, WaitState
<1> QED
  BY <1>1 DEF AskInv

\* A line the L1D holds is one software uses cached.
LEMMA CachedLine ==
    ASSUME PresenceInv, NEW s \in DSet, d_valid[s] PROVE \E x \in CachedVA : x[1] = d_tag[s]
<1>1. <<d_tag[s], ColourOf[s]>> \in CachedVA
  BY DEF PresenceInv, CopyInv, PlaceInv
<1> QED
  BY <1>1

LEMMA DirtyValid == ASSUME PresenceInv, NEW s \in DSet, d_dirty[s] PROVE d_valid[s]
BY DEF PresenceInv, CopyInv, PlaceInv

-----------------------------------------------------------------------------
\* What an L1D action leaves to the devices.
LEMMA SameSnoop ==
    ASSUME SnoopInv, UNCHANGED <<dma, snoop, snoop_done, l2_r>>, d_req' = d_req \/ d_req'.op = "none"
    PROVE  SnoopInv'
BY DEF SnoopInv, InDma, StoreInFlight

LEMMA SamePage ==
    ASSUME PageInv, UNCHANGED <<dma, core_op>>, d_flush_req' = "pg" => d_flush_req = "pg" /\ d_cl' = d_cl,
           InPage' => InPage /\ d_cl' = d_cl, Eff' # "FLUSH_PG_WAIT"
    PROVE  PageInv'
BY DEF PageInv

\* The steps after which the L1D asks for nothing, and those that ask.
LEMMA RestWork ==
    ASSUME WorkInv, DmaInv, BusWork', UNCHANGED <<core_op, dma, l2_r, snoop, snoop_done>>,
           d_mem_req'.op = "none", Eff' \notin {"INJECT_RELOAD", "INJECT_UNCACHE_LOAD", "FLUSH_PG_WAIT"},
           ~d_cl_is_dma',
           d_req' = d_req \/ d_req'.op = "none",
           d_flush_req' = "pg" => d_flush_req = "pg" /\ d_cl' = d_cl,
           InPage' => d_cl' = d_cl /\ (InPage \/ d_flush_req = "pg")
    PROVE  WorkInv' /\ DmaInv'
<1>1. AskInv'
  BY AskNone DEF WorkInv
<1>2. SnoopInv'
  BY SameSnoop DEF DmaInv
<1>3. PageInv'
  BY DEF DmaInv, PageInv
<1> QED
  BY <1>1, <1>2, <1>3 DEF WorkInv, DmaInv, BusWork

LEMMA AskWork ==
    ASSUME WorkInv, DmaInv, BusWork', AskInv', UNCHANGED <<core_op, dma, l2_r, snoop, snoop_done, d_req>>,
           Eff' \in WaitState \ {"FLUSH_PG_WAIT"}, d_flush_req' = "pg" => d_flush_req = "pg" /\ d_cl' = d_cl
    PROVE  WorkInv' /\ DmaInv'
<1>1. SnoopInv'
  BY SameSnoop DEF DmaInv
<1>2. PageInv'
  BY DEF DmaInv, PageInv, InPage, WaitState
<1> QED
  BY <1>1, <1>2 DEF WorkInv, DmaInv, BusWork

LEMMA L1DWork ==
    ASSUME TypeOK, PresenceInv, WorkInv, DmaInv, L1DAction, l1dOnly
    PROVE  WorkInv' /\ DmaInv'
<1> USE DEF dFlush
<1>a. UNCHANGED workRegs /\ UNCHANGED <<core_op, dma, l2_r>>
  BY SameRegs DEF l1dOnly, coreVars, dmaVars, l2Vars
<1>b. ReqSet \in DSet /\ d_req.line \in Line /\ d_tag[ReqSet] \in Line
  <2>1. ReqSet \in DSet /\ d_req.line \in Line
    BY RegTypes, IndexAssumption DEF ReqSet
  <2> QED
    BY <2>1, ArrayTypes
<1>c. ASSUME d_state \in {"ACTIVE", "FLUSH_CACHE", "FLUSH_PG"}
      PROVE  d_mem_req.op = "none" /\ ~d_cl_is_dma /\ Eff \notin WaitState /\ Eff = d_state
  BY <1>c DEF PresenceInv, FsmInv, WorkInv, AskInv, Eff, WaitState
<1>1. CASE LoadHit
  <2>1. BusWork'
    BY <1>1, <1>a, QuietWork DEF LoadHit, quietBus, arbVars
  <2>2. d_state = "ACTIVE"
    BY <1>1 DEF LoadHit, Port1, Drained
  <2> QED
    BY <1>1, <1>a, <1>c, <2>1, <2>2, RestWork DEF LoadHit, quietBus, otherWires, Eff, InPage, Finish, NoReq
<1>2. CASE StoreHit
  <2>1. BusWork'
    BY <1>2, <1>a, QuietWork DEF StoreHit, quietBus, arbVars
  <2>2. d_state = "ACTIVE"
    BY <1>2 DEF StoreHit, Port1, Drained
  <2> QED
    BY <1>2, <1>a, <1>c, <2>1, <2>2, RestWork DEF StoreHit, quietBus, otherWires, Eff, InPage, Finish, NoReq
<1>3. CASE VictimWriteback
  <2>1. d_state = "ACTIVE" /\ HitAt(ReqSet, d_tag[ReqSet])
    BY <1>3 DEF VictimWriteback, Port1, HitAt
  <2>2. BusWork'
    BY <1>3, <1>a, <1>b, <1>c, <2>1, RequestWork DEF VictimWriteback, MemOp
  <2>3. ReqSet = SetOf[d_tag[ReqSet]][d_req.colour] /\ \E x \in CachedVA : x[1] = d_tag[ReqSet]
    <3>1. d_valid[ReqSet] /\ ColourOf[ReqSet] = d_req.colour
      BY <2>1, RegTypes, ColourAssumption DEF ReqSet, HitAt
    <3>2. SetOf[d_tag[ReqSet]][ColourOf[ReqSet]] = ReqSet
      BY <1>b, <3>1 DEF PresenceInv, CopyInv, PlaceInv
    <3> QED
      BY <1>b, <3>1, <3>2, CachedLine
  <2>4. AskInv'
    BY <1>3, <1>c, <2>1, <2>3 DEF VictimWriteback, Request, WorkInv, AskInv, Eff, dArrays
  <2> QED
    BY <1>3, <1>a, <2>2, <2>4, AskWork DEF VictimWriteback, Request, otherWires, Eff, WaitState
<1>4. CASE Miss
  <2>1. d_state = "ACTIVE" /\ ~ReqHit /\ ~d_dirty[ReqSet]
    BY <1>4, <1>b, DirtyValid DEF Miss, Port1
  <2>2. BusWork'
    BY <1>4, <1>a, <1>b, <1>c, <2>1, RequestWork DEF Miss, MemOp
  <2>3. AskInv'
    BY <1>4, <1>c, <2>1 DEF Miss, Request, WorkInv, AskInv, Eff, dArrays, ReqHit, ReqSet, HitAt
  <2> QED
    BY <1>4, <1>a, <2>2, <2>3, AskWork DEF Miss, Request, otherWires, Eff, WaitState
<1>5. CASE ChopWriteback
  <2>1. d_state = "ACTIVE" /\ HitAt(ReqSet, d_tag[ReqSet])
    BY <1>5 DEF ChopWriteback, Port1, HitAt, ReqHit
  <2>2. \E x \in CachedVA : x[1] = d_tag[ReqSet]
    BY <1>b, <2>1, CachedLine DEF HitAt
  <2>3. BusWork'
    BY <1>5, <1>a, <1>b, <1>c, <2>1, RequestWork DEF ChopWriteback, MemOp
  <2>4. AskInv'
    BY <1>5, <1>c, <2>1, <2>2, AskRequest DEF ChopWriteback, WorkInv, MemOp, WaitState
  <2> QED
    BY <1>5, <1>a, <2>3, <2>4, AskWork DEF ChopWriteback, Request, otherWires, Eff, WaitState
<1>6. CASE ChopInvalidate
  <2>1. d_state = "ACTIVE"
    BY <1>6 DEF ChopInvalidate, Port1
  <2>3. BusWork'
    BY <1>6, <1>a, <1>b, <1>c, <2>1, RequestWork DEF ChopInvalidate, MemOp
  <2>4. AskInv'
    BY <1>6, <1>c, <2>1, AskRequest DEF ChopInvalidate, WorkInv, MemOp, WaitState
  <2> QED
    BY <1>6, <1>a, <2>3, <2>4, AskWork DEF ChopInvalidate, Request, otherWires, Eff, WaitState
<1>7. CASE UncachedAliasClean
  <2>1. BusWork'
    BY <1>7, <1>a, QuietWork DEF UncachedAliasClean, quietBus, arbVars
  <2>2. d_state = "ACTIVE"
    BY <1>7 DEF UncachedAliasClean, Port1, Drained
  <2> QED
    BY <1>7, <1>a, <1>c, <2>1, <2>2, RestWork DEF UncachedAliasClean, quietBus, otherWires, Eff, InPage
<1>8. CASE UncachedAliasDirty
  <2>1. d_state = "ACTIVE" /\ HitAt(ReqSet, d_tag[ReqSet])
    BY <1>8 DEF UncachedAliasDirty, Port1, HitAt, ReqHit
  <2>2. \E x \in CachedVA : x[1] = d_tag[ReqSet]
    BY <1>b, <2>1, CachedLine DEF HitAt
  <2>3. BusWork'
    BY <1>8, <1>a, <1>b, <1>c, <2>1, RequestWork DEF UncachedAliasDirty, MemOp
  <2>4. AskInv'
    BY <1>8, <1>c, <2>1, <2>2, AskRequest DEF UncachedAliasDirty, WorkInv, MemOp, WaitState
  <2> QED
    BY <1>8, <1>a, <2>3, <2>4, AskWork DEF UncachedAliasDirty, Request, otherWires, Eff, WaitState
<1>9. CASE UncachedIssue
  <2>1. d_state = "ACTIVE" /\ d_req.op \in {"uload", "ustore"} /\ UNCHANGED <<d_req, dArrays, dFlush>>
    BY <1>9 DEF UncachedIssue, Port1, SendUncached
  <2>2. <<d_req.line, d_req.colour>> \in UncachedVA /\ (d_req.op = "ustore" => d_req.line \in StoreLine)
    BY <2>1 DEF PresenceInv, UseInv, WorkInv, AskInv
  <2>3. CASE d_req.op = "ustore"
    <3>1. PICK v : Request("SW", d_req.line, d_req.colour, v, FALSE, d_req.full, "INJECT_UNCACHE_STORE")
      BY <1>9, <2>3 DEF UncachedIssue, SendUncached
    <3>2. BusWork'
      BY <1>a, <1>b, <1>c, <2>1, <3>1, RequestWork DEF MemOp
    <3>3. AskInv'
      BY <1>c, <2>1, <2>2, <2>3, <3>1, AskRequest DEF WorkInv, MemOp, WaitState
    <3> QED
      BY <1>a, <2>1, <3>1, <3>2, <3>3, AskWork DEF Request, otherWires, Eff, WaitState
  <2>4. CASE d_req.op # "ustore"
    <3>1. Request("LW", d_req.line, d_req.colour, v0, FALSE, TRUE, "INJECT_UNCACHE_LOAD")
      BY <1>9, <2>4 DEF UncachedIssue, SendUncached
    <3>2. BusWork'
      BY <1>a, <1>b, <1>c, <2>1, <3>1, RequestWork DEF MemOp
    <3>3. AskInv'
      BY <1>c, <2>1, <3>1 DEF Request, WorkInv, AskInv, Eff
    <3> QED
      BY <1>a, <2>1, <3>1, <3>2, <3>3, AskWork DEF Request, otherWires, Eff, WaitState
  <2> QED
    BY <2>3, <2>4
<1>10. CASE Reload
  <2>1. BusWork'
    BY <1>10, <1>a, RespondWork DEF Reload
  <2>2. d_mem_req'.op = "none" /\ ~d_cl_is_dma'
    BY <1>10 DEF Reload, Respond, NoMemReq, WorkInv, AskInv, Eff
  <2> QED
    BY <1>10, <1>a, <2>1, <2>2, RestWork DEF Reload, Respond, otherWires, Eff, InPage, Finish, Rerun, NoReq
<1>11. CASE UncachedDone
  <2>1. BusWork'
    BY <1>11, <1>a, RespondWork DEF UncachedDone
  <2>2. d_mem_req'.op = "none" /\ ~d_cl_is_dma'
    BY <1>11 DEF UncachedDone, Respond, NoMemReq, WorkInv, AskInv, Eff
  <2> QED
    BY <1>11, <1>a, <2>1, <2>2, RestWork DEF UncachedDone, Respond, otherWires, Eff, InPage, Finish, NoReq
<1>12. CASE UncacheWb
  <2>1. BusWork'
    BY <1>12, <1>a, RespondWork DEF UncacheWb
  <2>2. d_mem_req'.op = "none" /\ ~d_cl_is_dma'
    BY <1>12 DEF UncacheWb, Respond, NoMemReq, WorkInv, AskInv, Eff
  <2> QED
    BY <1>12, <1>a, <2>1, <2>2, RestWork DEF UncacheWb, Respond, otherWires, Eff, InPage, Rerun
<1>13. CASE FlushClWait
  <2>1. BusWork'
    BY <1>13, <1>a, RespondWork DEF FlushClWait
  <2>2. d_mem_req'.op = "none" /\ ~d_cl_is_dma'
    BY <1>13 DEF FlushClWait, Respond, NoMemReq, WorkInv, AskInv, Eff
  <2> QED
    BY <1>13, <1>a, <2>1, <2>2, RestWork DEF FlushClWait, Respond, otherWires, Eff, InPage, Finish, NoReq
<1>14. CASE CoreFlushCl
  <2> DEFINE s == SetOf[d_cl.line][PaColour[d_cl.line]]
  <2>1. d_state = "ACTIVE" /\ d_flush_req' = "none" /\ ~d_cl_is_dma'
    BY <1>14 DEF CoreFlushCl, Drained
  <2>2. s \in DSet /\ d_cl.line \in Line /\ d_tag[s] \in Line
    <3>1. s \in DSet /\ d_cl.line \in Line
      BY RegTypes, IndexAssumption
    <3> QED
      BY <3>1, ArrayTypes
  <2>3. CASE \E o, x, c, v : Sends(d_cl.line, o, x, c, v)
    <3>1. PICK o, x, c, v : Sends(d_cl.line, o, x, c, v)
      BY <2>3
    <3>2. o \in MemOp /\ x \in Line /\ o \in {"INVL", "WB"} /\ d_req' = d_req
          /\ Request(o, x, c, v, TRUE, TRUE, "FLUSH_CL_WAIT")
      BY <2>2, <3>1 DEF Sends, MemOp
    <3>3. o = "WB" => HitAt(s, x) /\ \E y \in CachedVA : y[1] = x
      BY <2>2, <3>1, DirtyValid, CachedLine DEF Sends, HitAt
    <3>4. BusWork'
      BY <1>a, <1>c, <2>1, <2>2, <3>2, <3>3, RequestWork
    <3>5. AskInv'
      BY <2>1, <3>2, <3>3, AskRequest DEF WorkInv, WaitState
    <3> QED
      BY <1>a, <2>1, <3>2, <3>4, <3>5, AskWork DEF Request, otherWires, Eff, WaitState
  <2>4. CASE ClearsClean(d_cl.line)
    <3>1. BusWork'
      BY <1>a, <2>4, QuietWork DEF ClearsClean, quietBus, arbVars
    <3> QED
      BY <1>a, <1>c, <2>1, <2>4, <3>1, RestWork DEF ClearsClean, quietBus, otherWires, Eff, InPage
  <2> QED
    BY <1>14, <2>3, <2>4, FlushClCases DEF CoreFlushCl
<1>15. CASE DmaInval
  <2>1. d_state = "ACTIVE" /\ d_flush_req' = d_flush_req /\ d_cl' = d_cl
    BY <1>15 DEF DmaInval, Drained
  <2>2. d_dma_inval.line \in Line
    BY RegTypes
  <2>3. /\ Request("INVL", d_dma_inval.line, PaColour[d_dma_inval.line], v0, TRUE, TRUE, "FLUSH_CL_WAIT")
        /\ d_req' = d_req
    BY <1>15 DEF DmaInval, FlushCl
  <2>4. BusWork'
    BY <1>a, <1>c, <2>1, <2>2, <2>3, RequestWork DEF MemOp
  <2>5. AskInv'
    BY <2>3, AskRequest DEF WorkInv, MemOp, WaitState
  <2> QED
    BY <1>a, <2>1, <2>3, <2>4, <2>5, AskWork DEF Request, otherWires, Eff, WaitState
<1>16. CASE FlushPgStart
  <2>1. BusWork'
    BY <1>16, <1>a, QuietWork DEF FlushPgStart, quietBus, arbVars
  <2>2. d_state = "ACTIVE"
    BY <1>16 DEF FlushPgStart, Port1, Drained
  <2> QED
    BY <1>16, <1>a, <1>c, <2>1, <2>2, RestWork DEF FlushPgStart, quietBus, otherWires, Eff, InPage
<1>17. CASE FlushPg
  <2> DEFINE l == PgLine[d_pg_off]
             c == PaColour[l]
             s == SetOf[l][c]
  <2>1. d_state = "FLUSH_PG" /\ UNCHANGED <<d_req, d_pg_off, d_flush_req, d_cl, d_cl_is_dma>>
    BY <1>17 DEF FlushPg
  <2>2. l \in Line /\ s \in DSet /\ d_cl.inval \in BOOLEAN
    <3>1. d_pg_off \in 0 .. PgLines - 1 /\ d_cl.inval \in BOOLEAN
      BY DEF TypeOK, L1DTypeOK
    <3>2. l \in Line
      BY <3>1, PageAssumption
    <3> QED
      BY <3>1, <3>2, IndexAssumption
  <2> DEFINE o == IF PgWb(s, l) THEN "WB" ELSE IF d_cl.inval THEN "PGDROP" ELSE "INVL"
             v == IF PgWb(s, l) THEN d_data[s] ELSE v0
  <2>3. /\ Request(o, l, c, v, TRUE, TRUE, "FLUSH_PG_WAIT")
        /\ o \in {"WB", "INVL", "PGDROP"} /\ (o = "PGDROP" <=> d_cl.inval) /\ (o = "WB" => PgWb(s, l))
    <3>1. CASE PgWb(s, l)
      BY <1>17, <3>1 DEF FlushPg, PgWb
    <3>2. CASE ~PgWb(s, l)
      BY <1>17, <2>2, <3>2 DEF FlushPg
    <3> QED
      BY <3>1, <3>2
  <2> HIDE DEF o, v
  <2>4. o = "WB" => HitAt(s, l) /\ \E y \in CachedVA : y[1] = l
    BY <2>2, <2>3, CachedLine DEF PgWb, HitAt
  <2>5. BusWork'
    BY <1>a, <1>c, <2>1, <2>2, <2>3, <2>4, RequestWork DEF MemOp
  <2>6. AskInv'
    BY <1>c, <2>1, <2>3, <2>4, AskRequest DEF WorkInv, MemOp, WaitState
  <2>7. SnoopInv'
    BY <1>a, <2>1, <2>3, SameSnoop DEF DmaInv, Request, otherWires
  <2>8. InPage /\ Eff' = "FLUSH_PG_WAIT" /\ d_mem_req'.line = l /\ d_mem_req'.op = o
    BY <2>1, <2>3 DEF InPage, Eff, Request
  <2>9. PageInv'
    BY <1>a, <2>1, <2>3, <2>8 DEF DmaInv, PageInv
  <2> QED
    BY <2>5, <2>6, <2>7, <2>9 DEF WorkInv, DmaInv, BusWork
<1>18. CASE FlushPgWait
  <2>1. BusWork'
    BY <1>18, <1>a, RespondWork DEF FlushPgWait
  <2>2. d_mem_req'.op = "none" /\ ~d_cl_is_dma' /\ d_flush_req' = "none" /\ InPage
    BY <1>18 DEF FlushPgWait, Respond, NoMemReq, WorkInv, AskInv, Eff, PresenceInv, TokenInv, InPage
  <2> QED
    BY <1>18, <1>a, <2>1, <2>2, RestWork DEF FlushPgWait, Respond, otherWires, Eff, InPage
<1>19. CASE FlushCacheStart
  <2>1. BusWork'
    BY <1>19, <1>a, QuietWork DEF FlushCacheStart, quietBus, arbVars
  <2>2. d_state = "ACTIVE"
    BY <1>19 DEF FlushCacheStart, Port1, Drained
  <2> QED
    BY <1>19, <1>a, <1>c, <2>1, <2>2, RestWork DEF FlushCacheStart, quietBus, otherWires, Eff, InPage
<1>20. CASE FlushCache
  <2> DEFINE s == d_cache_idx
  <2>1. /\ d_state = "FLUSH_CACHE" /\ UNCHANGED <<d_req, d_pg_off, d_flush_req, d_cl, d_cl_is_dma>>
        /\ s \in DSet /\ d_tag[s] \in Line
    BY <1>20 DEF FlushCache, TypeOK, L1DTypeOK
  <2>2. CASE d_dirty[s]
    <3>1. PICK w \in {"FLUSH_CACHE_LAST_WAIT", "FLUSH_CACHE_WAIT"} :
             Request("SW", d_tag[s], ColourOf[s], d_data[s], TRUE, TRUE, w)
      BY <1>20, <2>2 DEF FlushCache
    <3>2. HitAt(s, d_tag[s]) /\ \E y \in CachedVA : y[1] = d_tag[s]
      BY <2>1, <2>2, DirtyValid, CachedLine DEF HitAt
    <3>3. BusWork'
      BY <1>a, <1>c, <2>1, <3>1, <3>2, RequestWork DEF MemOp
    <3>4. AskInv'
      BY <1>c, <2>1, <3>1, <3>2, AskRequest DEF WorkInv, MemOp, WaitState
    <3> QED
      BY <1>a, <2>1, <3>1, <3>3, <3>4, AskWork DEF Request, otherWires, Eff, WaitState
  <2>3. CASE ~d_dirty[s]
    <3>1. quietBus /\ d_state' \in {"ACTIVE", "FLUSH_CACHE"}
      BY <1>20, <2>3 DEF FlushCache
    <3>2. BusWork'
      BY <1>a, <3>1, QuietWork DEF quietBus, arbVars
    <3> QED
      BY <1>a, <1>c, <2>1, <3>1, <3>2, RestWork DEF quietBus, otherWires, Eff, InPage
  <2> QED
    BY <2>2, <2>3
<1>21. CASE FlushCacheWait
  <2>1. BusWork'
    BY <1>21, <1>a, RespondWork DEF FlushCacheWait
  <2>2. d_mem_req'.op = "none" /\ ~d_cl_is_dma'
    BY <1>21 DEF FlushCacheWait, Respond, NoMemReq, WorkInv, AskInv, Eff
  <2> QED
    BY <1>21, <1>a, <2>1, <2>2, RestWork DEF FlushCacheWait, Respond, otherWires, Eff, InPage
<1>22. CASE ProbeTake \/ ProbeChk
  <2>1. /\ UNCHANGED <<arb_state, d_mem_req, rsp, d_req, dFlush>> /\ UNCHANGED otherWires
        /\ Eff' = Eff
    BY <1>22 DEF ProbeTake, EnterProbe, ProbeChk, quietBus, arbVars, Eff, WaitState, TypeOK, L1DTypeOK
  <2>2. BusWork'
    BY <1>a, <2>1, QuietWork
  <2>3. Shrinks /\ \A s \in DSet : d_dirty'[s] => d_dirty[s]
    <3>1. CASE ProbeTake
      BY <3>1, SameShrinks DEF ProbeTake, EnterProbe, PresenceInv, CopyInv, dArrays
    <3>2. CASE ProbeChk
      <4>1. SetOf[probe.line][probe.colour] \in DSet
        BY RegTypes, IndexAssumption
      <4> QED
        BY <3>2, <4>1, ArrayTypes, InvalidateIfShrinks
           DEF ProbeChk, PresenceInv, CopyInv, InvalidateIf, Invalidate, dArrays
    <3> QED
      BY <1>22, <3>1, <3>2
  <2>4. SetOf[d_mem_req.line][d_mem_req.colour] \in DSet
    BY RegTypes, IndexAssumption
  <2>5. AskInv'
    BY <2>1, <2>3, <2>4 DEF WorkInv, AskInv, Shrinks, HitAt
  <2>6. SnoopInv'
    BY <1>a, <2>1, SameSnoop DEF DmaInv, otherWires
  <2>7. PageInv'
    BY <1>a, <2>1 DEF DmaInv, PageInv, InPage
  <2> QED
    BY <2>2, <2>5, <2>6, <2>7 DEF WorkInv, DmaInv, BusWork
<1> QED
  BY <1>1, <1>2, <1>3, <1>4, <1>5, <1>6, <1>7, <1>8, <1>9, <1>10, <1>11, <1>12, <1>13, <1>14, <1>15,
     <1>16, <1>17, <1>18, <1>19, <1>20, <1>21, <1>22 DEF L1DAction

-----------------------------------------------------------------------------
(* The devices' side of L2 actions                                         *)

\* How an L2 action moves a snoop: not at all, by giving up or taking another
\* request, by accepting it, or by completing it.
SnoopMoves ==
    \/ UNCHANGED <<l2_r, snoop, snoop_done>>
    \/ l2_r'.op # "SNOOP" /\ UNCHANGED <<snoop, snoop_done>>
    \/ /\ snoop.valid /\ ~snoop'.valid /\ UNCHANGED snoop_done
       /\ l2_r'.op = "SNOOP" /\ l2_r'.line = snoop.line /\ l2_r'.wbinv = snoop.wbinv
    \/ l2_r.op = "SNOOP" /\ l2_r'.op # "SNOOP" /\ UNCHANGED snoop

LEMMA L2Snoops == ASSUME TypeOK, L2Action PROVE SnoopMoves
<1> USE DEF SnoopMoves, checkKeeps, memKeeps, Done, NoL2Req, Check, Answer
<1>1. CASE AcceptSnoop
  BY <1>1 DEF AcceptSnoop, NoSnoop
<1>2. CASE AcceptReq
  <2>1. d_mem_req.op # "SNOOP"
    BY DEF TypeOK, InterconnectTypeOK, MemReq, MemOp
  <2> QED
    BY <1>2, <2>1 DEF AcceptReq
<1>3. CASE SnoopWbinv \/ SnoopDrop
  BY <1>3 DEF SnoopWbinv, SnoopDrop
<1>4. CASE WbDrain
  <2>1. CASE l2_r.op = "SNOOP"
    BY <1>4, <2>1 DEF WbDrain
  <2>2. CASE l2_r.op # "SNOOP"
    <3>1. UNCHANGED <<snoop, snoop_done>> /\ (l2_r' = l2_r \/ l2_r'.op = "none")
      BY <1>4, <2>2 DEF WbDrain
    <3> QED
      BY <2>2, <3>1
  <2> QED
    BY <2>1, <2>2
<1>5. CASE Invl \/ PgDrop \/ ReadHit \/ WriteHit \/ UncacheStore \/ UncacheLoad
  <2>1. UNCHANGED <<snoop, snoop_done>> /\ (l2_r' = l2_r \/ l2_r'.op = "none")
    <3>1. CASE Invl
      BY <3>1 DEF Invl
    <3>2. CASE PgDrop
      BY <3>2 DEF PgDrop, MustWrite, DropIf
    <3>4. CASE ReadHit
      BY <3>4 DEF ReadHit, MarkPresent
    <3>5. CASE WriteHit
      BY <3>5 DEF WriteHit, WriteLine
    <3>3. CASE UncacheStore \/ UncacheLoad
      BY <3>3 DEF UncacheStore, UncacheLoad
    <3> QED
      BY <1>5, <3>1, <3>2, <3>3, <3>4, <3>5
  <2> QED
    BY <2>1
<1>6. CASE AcceptFlush \/ ProbeIssue \/ ProbeAnswered \/ UncachedPurge \/ WriteThrough \/ Evict
  BY <1>6 DEF AcceptFlush, ProbeIssue, l2Vars, ProbeAnswered, UncachedPurge, WriteThrough, Evict
<1>7. CASE StartReload \/ DirtyStore \/ CleanReload \/ FlushTriage \/ FlushStore
  BY <1>7 DEF StartReload, DirtyStore, CleanReload, FlushTriage, FlushStore
<1> QED
  BY <1>1, <1>2, <1>3, <1>4, <1>5, <1>6, <1>7 DEF L2Action

LEMMA SamePageSide ==
    ASSUME PageInv, UNCHANGED <<dma, core_op, d_flush_req, d_state, d_prb_ret, d_cl, d_mem_req, d_pg_off>>
    PROVE  PageInv'
BY DEF PageInv, InPage, Eff

LEMMA L2Dma ==
    ASSUME TypeOK, PresenceInv, DmaInv, L2Action, UNCHANGED <<l1dVars, coreVars, dmaVars>>
    PROVE  DmaInv'
<1>1. UNCHANGED <<dma, core_op, d_flush_req, d_state, d_prb_ret, d_cl, d_mem_req, d_pg_off, d_req>>
  BY L1DSide DEF l1dSide, l1dVars, dFlush, dmaVars
<1>2. PageInv'
  BY <1>1, SamePageSide DEF DmaInv
<1>3. SnoopInv'
  BY <1>1, L2Snoops DEF SnoopMoves, DmaInv, SnoopInv, InDma, StoreInFlight
<1> QED
  BY <1>2, <1>3 DEF DmaInv

-----------------------------------------------------------------------------
(* The composition                                                         *)

\* What the core's, the L1I's and the devices' actions leave alone.
LEMMA SameAsk ==
    ASSUME AskInv, UNCHANGED <<d_mem_req, d_req, d_valid, d_dirty, d_tag, d_cl_is_dma, d_state, d_prb_ret>>
    PROVE  AskInv'
BY DEF AskInv, HitAt, Eff

LEMMA SameWork ==
    ASSUME WorkInv, UNCHANGED <<arb_state, d_mem_req, rsp>>, UNCHANGED workRegs, AskInv'
    PROVE  WorkInv'
BY QuietWork DEF BusWork, WorkInv

\* The core starts a flush with no flush under way.
LEMMA StartFlushWork ==
    ASSUME PresenceInv, WorkInv, DmaInv, CoreIdle, NEW o \in {"cl", "pg", "all"}, NEW l, NEW i \in BOOLEAN,
           StartFlush(o, l, i),
           IF o = "pg"
           THEN /\ dma'.mode = "xpg" /\ dma'.phase \in {"pre", "post"} /\ dma'.line \in PageSet
                /\ (i <=> dma'.phase = "post") /\ <<dma'.mode, dma'.dir, dma'.line>> \in DmaXfers
                /\ dma'.phase = "post" => dma'.dir = "in"
                /\ dma.phase = "idle" \/ dma' = dma
           ELSE dma' = dma
    PROVE  WorkInv' /\ DmaInv'
<1>1. /\ UNCHANGED <<arb_state, d_mem_req, rsp, d_req, d_valid, d_dirty, d_tag, d_cl_is_dma, d_state, d_prb_ret>>
      /\ UNCHANGED workRegs /\ UNCHANGED <<snoop, snoop_done, l2_r, d_pg_off>>
      /\ d_cl'.inval = i /\ d_flush_req' = o /\ core_op' = o /\ d_req.op = "none" /\ core_op = "none"
  BY DEF StartFlush, busVars, arbVars, dArrays, l2Arrays, workRegs, CoreIdle
<1>2. WorkInv'
  BY <1>1, SameAsk, SameWork DEF WorkInv
<1>3. ~InPage /\ Eff' = Eff /\ ~InPage'
  BY <1>1 DEF PresenceInv, TokenInv, InPage, Eff
<1>4. SnoopInv'
  BY <1>1 DEF DmaInv, SnoopInv, InDma, StoreInFlight
<1>5. PageInv'
  BY <1>1, <1>3 DEF DmaInv, PageInv, InPage
<1> QED
  BY <1>2, <1>4, <1>5 DEF DmaInv

LEMMA NextWork ==
    ASSUME TypeOK, PresenceInv, PresenceInv', WorkInv, DmaInv, [Next]_vars
    PROVE  WorkInv' /\ DmaInv'
<1>1. CASE CpuAccept
  <2>1. PICK q \in [op : CpuOps, line : Line, colour : Colour, val : Val, full : BOOLEAN] : Legal(q) /\ Accept(q)
    BY <1>1 DEF CpuAccept
  <2>2. /\ UNCHANGED <<arb_state, d_mem_req, rsp, d_valid, d_dirty, d_tag, d_cl_is_dma, d_state, d_prb_ret>>
        /\ UNCHANGED l2Vars /\ UNCHANGED <<core_op, dma, snoop, snoop_done, d_flush_req, d_cl, d_pg_off>>
        /\ d_req' = q
    BY <1>1, <2>1 DEF CpuAccept, Accept, quietBus, otherWires, arbVars, dArrays, dFlush, coreVars, dmaVars
  <2>3. UNCHANGED workRegs /\ UNCHANGED l2_r
    BY <2>2, SameRegs DEF l2Vars
  <2>4. AskInv'
    BY <2>1, <2>2 DEF WorkInv, AskInv, HitAt, Eff, Legal
  <2>5. PageInv'
    BY <2>2, SamePageSide DEF DmaInv
  <2>6. SnoopInv'
    BY <2>1, <2>2, <2>3 DEF DmaInv, SnoopInv, InDma, StoreInFlight, Legal
  <2> QED
    BY <2>2, <2>3, <2>4, <2>5, <2>6, SameWork DEF DmaInv
<1>2. CASE CpuStore \/ CpuChopInvalidate \/ CpuFlushCl \/ SocDmaInval \/ L1DStep
  <2>1. L1DAction /\ l1dOnly
    BY <1>2 DEF CpuStore, CpuChopInvalidate, CpuFlushCl, SocDmaInval, L1DStep, L1DAction
  <2> QED
    BY <2>1, L1DWork
<1>3. CASE L2Step \/ L2Store
  <2>1. L2Action /\ UNCHANGED <<l1dVars, coreVars, dmaVars>>
    BY <1>3 DEF L2Step, L2Store, L2Action
  <2> QED
    BY <2>1, L2Work, L2Dma
<1>4. CASE Arbiter \/ FetchMiss \/ FetchReload
  <2>1. /\ UNCHANGED <<d_mem_req, snoop, snoop_done>> /\ UNCHANGED l1dVars /\ UNCHANGED l2Vars
        /\ UNCHANGED <<core_op, dma>>
    BY <1>4 DEF Arbiter, ArbGrant, FetchMiss, FetchReload, coreVars, dmaVars
  <2>2. /\ UNCHANGED <<d_req, d_valid, d_dirty, d_tag, d_cl_is_dma, d_state, d_prb_ret, d_flush_req, d_cl>>
        /\ UNCHANGED d_pg_off /\ UNCHANGED workRegs /\ UNCHANGED l2_r
    BY <2>1, SameRegs DEF l1dVars, dArrays, dFlush, l2Vars
  <2>3. AskInv' /\ PageInv' /\ SnoopInv'
    BY <2>1, <2>2, SameAsk, SamePageSide, SameSnoop DEF WorkInv, DmaInv
  <2>4. CASE arb_state' = arb_state /\ rsp' = rsp
    BY <2>1, <2>2, <2>3, <2>4, SameWork DEF DmaInv
  <2>5. CASE ~rsp'.valid /\ ~Serving /\ (rsp' = rsp \/ ~Busy)
    <3>1. RegInv' /\ WbInv'
      BY <2>1, <2>2, <2>5 DEF WorkInv, RegInv, WbInv, workRegs, Serving, Busy, Posted, Hit, Resident, Idx
    <3>2. AnsweredInv' /\ MarkInv'
      BY <2>1, <2>2, <2>5 DEF WorkInv, AnsweredInv, MarkInv, workRegs, Busy, Posted, Hit, Resident, Idx,
         RspToL1D, Carried
    <3> QED
      BY <2>3, <3>1, <3>2 DEF WorkInv, DmaInv
  <2>6. CASE Arbiter
    <3>1. arb_state = "IDLE" /\ rsp' = rsp
      BY <2>6 DEF Arbiter, ArbGrant
    <3>2. ~rsp.valid /\ ~Serving
      BY <3>1 DEF PresenceInv, BusInv, LatchInv, ServeInv
    <3> QED
      BY <2>5, <3>1, <3>2
  <2>7. CASE FetchMiss
    BY <2>4, <2>7 DEF FetchMiss
  <2>8. CASE FetchReload
    <3>1. rsp.valid /\ arb_state = "GNT_L1I" /\ ~rsp'.valid
      BY <2>8 DEF FetchReload, RspToL1I, TakeRsp, NoRsp
    <3>2. ~Busy
      BY <3>1 DEF PresenceInv, BusInv, AnswerInv, Busy
    <3> QED
      BY <2>5, <3>1, <3>2 DEF Serving
  <2> QED
    BY <1>4, <2>6, <2>7, <2>8
<1>5. CASE CoreFlush
  BY <1>5, StartFlushWork DEF CoreFlush, dmaVars
<1>6. CASE L1DFlushPulse \/ L2FlushPulse \/ CoreFlushEnd
  <2>1. /\ UNCHANGED <<arb_state, d_mem_req, rsp, d_req, d_valid, d_dirty, d_tag, d_cl_is_dma, d_state, d_prb_ret>>
        /\ UNCHANGED workRegs /\ UNCHANGED <<snoop, snoop_done, l2_r, d_pg_off, d_cl, d_flush_req>>
    BY <1>6, SameRegs DEF L1DFlushPulse, L2FlushPulse, CoreFlushEnd, busVars, arbVars, l1dVars, dArrays,
       dFlush, l2Vars, l2Arrays, workRegs
  <2>2. WorkInv'
    BY <2>1, SameAsk, SameWork DEF WorkInv
  <2>3. CASE UNCHANGED <<core_op, dma>>
    BY <2>1, <2>2, <2>3, SamePageSide, SameSnoop DEF DmaInv
  <2>4. CASE CoreFlushEnd /\ core_op # "pg"
    <3>1. core_op' = "none" /\ dma' = dma
      BY <2>4 DEF CoreFlushEnd
    <3>2. SnoopInv'
      BY <2>1, <3>1, SameSnoop DEF DmaInv
    <3>3. PageInv'
      BY <2>1, <2>4, <3>1 DEF DmaInv, PageInv, InPage, Eff
    <3> QED
      BY <2>2, <3>2, <3>3 DEF DmaInv
  <2>5. CASE CoreFlushEnd /\ core_op = "pg"
    <3>1. /\ core_op' = "none" /\ core_l1d_done
          /\ dma' = IF dma.phase = "pre" THEN [dma EXCEPT !.phase = "xfer"] ELSE NoDma
      BY <2>5 DEF CoreFlushEnd, FlushDone
    <3>2. dma.mode = "xpg" /\ dma.phase \in {"pre", "post"}
      BY <2>5 DEF DmaInv, PageInv
    <3>3. d_flush_req = "none" /\ ~InPage /\ ~InPage'
      BY <2>1, <2>5, <3>1 DEF PresenceInv, TokenInv, InPage, Eff
    <3>4. \/ dma' = [dma EXCEPT !.phase = "xfer"] /\ dma.phase = "pre"
          \/ dma'.phase = "idle"
      BY <3>1 DEF NoDma
    <3>5. /\ dma'.phase # "idle" => dma'.phase = "xfer" /\ dma'.mode = "xpg" /\ dma'.line = dma.line /\ dma'.dir = dma.dir
          /\ dma'.phase \notin {"pre", "post"}
      BY <3>2, <3>4 DEF TypeOK
    <3>6. SnoopInv'
      BY <2>1, <3>2, <3>5 DEF DmaInv, SnoopInv, InDma, StoreInFlight
    <3>7. PageInv'
      BY <2>1, <3>1, <3>2, <3>3, <3>5 DEF DmaInv, PageInv, InPage, Eff
    <3> QED
      BY <2>2, <3>6, <3>7 DEF DmaInv
  <2> QED
    BY <1>6, <2>3, <2>4, <2>5 DEF L1DFlushPulse, L2FlushPulse, dmaVars
<1>7. CASE DmaBegin
  <2>1. PICK x \in DmaXfers :
          /\ dma' = [phase |-> "pre", mode |-> x[1], dir |-> x[2], line |-> x[3]]
          /\ \/ /\ x[1] = "snoop" /\ ~StoreInFlight(x[3])
                /\ snoop' = [valid |-> TRUE, line |-> x[3], wbinv |-> TRUE]
                /\ UNCHANGED <<arbVars, d_mem_req, i_mem_req, rsp, probe, ack, snoop_done, dram,
                               l1dVars, l2Vars, coreVars, latest>>
             \/ x[1] = "xpg" /\ x[3] \in PageSet /\ CoreIdle /\ StartFlush("pg", x[3], FALSE)
    BY <1>7 DEF DmaBegin
  <2>2. dma.phase = "idle" /\ x = <<x[1], x[2], x[3]>>
    BY <1>7, UseAssumption DEF DmaBegin
  <2>3. CASE x[1] = "xpg"
    BY <2>1, <2>2, <2>3, StartFlushWork
  <2>4. CASE x[1] = "snoop"
    <3>1. /\ UNCHANGED <<arb_state, d_mem_req, rsp, d_req, d_valid, d_dirty, d_tag, d_cl_is_dma, d_state, d_prb_ret>>
          /\ UNCHANGED workRegs /\ UNCHANGED <<snoop_done, l2_r, d_pg_off, d_cl, d_flush_req, core_op>>
          /\ snoop' = [valid |-> TRUE, line |-> x[3], wbinv |-> TRUE] /\ ~StoreInFlight(x[3])
      BY <2>1, <2>4, SameRegs DEF arbVars, l1dVars, dArrays, dFlush, l2Vars, l2Arrays, coreVars
    <3>2. WorkInv'
      BY <3>1, SameAsk, SameWork DEF WorkInv
    <3>3. l2_r.op # "SNOOP" /\ ~snoop_done /\ core_op # "pg"
      BY <2>2 DEF DmaInv, SnoopInv, PageInv
    <3>4. SnoopInv'
      BY <2>1, <2>2, <2>4, <3>1, <3>3 DEF SnoopInv, InDma, StoreInFlight
    <3>5. d_flush_req # "pg" /\ ~InPage
      BY <3>3 DEF PresenceInv, TokenInv
    <3>6. PageInv'
      BY <2>1, <2>4, <3>1, <3>3, <3>5 DEF PageInv, InPage, Eff
    <3> QED
      BY <3>2, <3>4, <3>6 DEF DmaInv
  <2> QED
    BY <2>1, <2>3, <2>4
<1>8. CASE DmaPageDrop
  <2>1. /\ dma' = dma /\ dma.phase = "post" /\ dma.mode = "xpg" /\ CoreIdle /\ StartFlush("pg", dma.line, TRUE)
    BY <1>8 DEF DmaPageDrop, dmaVars
  <2>2. dma.line \in PageSet /\ <<dma.mode, dma.dir, dma.line>> \in DmaXfers /\ dma.dir = "in"
    BY <2>1 DEF DmaInv, PageInv, SnoopInv
  <2> QED
    BY <2>1, <2>2, StartFlushWork
<1>9. CASE SnoopEnd \/ DeviceRead \/ DeviceWrite
  <2>1. /\ UNCHANGED <<arb_state, d_mem_req, rsp, d_req, d_valid, d_dirty, d_tag, d_cl_is_dma, d_state, d_prb_ret>>
        /\ UNCHANGED workRegs /\ UNCHANGED <<l2_r, d_pg_off, d_cl, d_flush_req, core_op>>
    BY <1>9, SameRegs DEF SnoopEnd, DeviceRead, DeviceWrite, busVars, arbVars, l1dVars, dArrays, dFlush,
       l2Vars, l2Arrays, coreVars
  <2>2. WorkInv'
    BY <2>1, SameAsk, SameWork DEF WorkInv
  <2>3. Eff' = Eff
    BY <2>1 DEF Eff
  <2>4. CASE SnoopEnd
    <3>1. /\ dma.mode = "snoop" /\ dma.phase \in {"pre", "post"} /\ ~snoop.valid /\ l2_r.op # "SNOOP"
          /\ ~snoop_done' /\ snoop' = snoop /\ core_op # "pg"
      BY <2>4 DEF SnoopEnd, DmaInv, SnoopInv, PageInv
    <3>2. \/ dma' = [dma EXCEPT !.phase = "xfer"] /\ dma.phase = "pre"
          \/ dma'.phase = "idle" /\ dma'.mode = "snoop"
      BY <2>4 DEF SnoopEnd, NoDma
    <3>3. /\ dma'.phase # "idle" => dma'.phase = "xfer" /\ dma'.line = dma.line /\ dma'.dir = dma.dir
          /\ dma'.phase \notin {"pre", "post"} /\ dma'.mode = "snoop"
      BY <3>1, <3>2 DEF TypeOK
    <3>4. SnoopInv'
      BY <2>1, <3>1, <3>3 DEF DmaInv, SnoopInv, InDma, StoreInFlight
    <3>5. d_flush_req # "pg" /\ ~InPage
      BY <3>1 DEF PresenceInv, TokenInv
    <3>6. PageInv'
      BY <2>1, <2>3, <3>1, <3>3, <3>5 DEF PageInv, InPage
    <3> QED
      BY <2>2, <3>4, <3>6 DEF DmaInv
  <2>5. CASE DeviceRead \/ DeviceWrite
    <3>1. dma.phase = "xfer" /\ snoop_done' = snoop_done
      BY <2>5 DEF DeviceRead, DeviceWrite, busVars
    <3>2. ~snoop.valid /\ l2_r.op # "SNOOP" /\ ~snoop_done /\ core_op # "pg"
      BY <3>1 DEF DmaInv, SnoopInv, PageInv
    <3>3. d_flush_req # "pg" /\ ~InPage
      BY <3>2 DEF PresenceInv, TokenInv
    <3>4. CASE DeviceRead
      <4>1. dma'.phase = "idle" /\ snoop' = snoop
        BY <3>4 DEF DeviceRead, NoDma, busVars
      <4>2. SnoopInv'
        BY <2>1, <3>1, <3>2, <4>1 DEF SnoopInv, InDma
      <4>3. PageInv'
        BY <2>1, <2>3, <3>2, <3>3, <4>1 DEF PageInv, InPage
      <4> QED
        BY <2>2, <4>2, <4>3 DEF DmaInv
    <3>5. CASE DeviceWrite
      <4>1. /\ dma.dir = "in" /\ dma' = [dma EXCEPT !.phase = "post"]
            /\ snoop' = IF dma.mode = "snoop"
                        THEN [valid |-> TRUE, line |-> dma.line, wbinv |-> FALSE] ELSE snoop
        BY <3>5 DEF DeviceWrite
      <4>2. dma'.phase = "post" /\ dma'.mode = dma.mode /\ dma'.line = dma.line /\ dma'.dir = "in"
        BY <4>1 DEF TypeOK
      <4>3. SnoopInv'
        BY <2>1, <3>1, <3>2, <4>1, <4>2 DEF DmaInv, SnoopInv, InDma, StoreInFlight
      <4>4. PageInv'
        BY <2>1, <2>3, <3>1, <3>2, <3>3, <4>2 DEF DmaInv, PageInv, InPage
      <4> QED
        BY <2>2, <4>3, <4>4 DEF DmaInv
    <3> QED
      BY <2>5, <3>4, <3>5
  <2> QED
    BY <1>9, <2>4, <2>5
<1>10. CASE DmaInvalReq \/ UNCHANGED vars
  <2>1. /\ UNCHANGED <<arb_state, d_mem_req, rsp, d_req, d_valid, d_dirty, d_tag, d_cl_is_dma, d_state, d_prb_ret>>
        /\ UNCHANGED workRegs /\ UNCHANGED <<l2_r, d_pg_off, d_cl, d_flush_req, core_op, dma, snoop, snoop_done>>
    BY <1>10, SameRegs DEF DmaInvalReq, vars, busVars, arbVars, l1dVars, dArrays, dFlush,
       l2Vars, l2Arrays, coreVars, dmaVars
  <2> QED
    BY <2>1, SameAsk, SameWork, SamePageSide, SameSnoop DEF WorkInv, DmaInv
<1> QED
  BY <1>1, <1>2, <1>3, <1>4, <1>5, <1>6, <1>7, <1>8, <1>9, <1>10 DEF Next

LEMMA InitWork == Init => WorkInv /\ DmaInv
<1> SUFFICES ASSUME Init PROVE WorkInv /\ DmaInv
  OBVIOUS
<1> USE DEF Init, InterconnectInit, L1DInit, L2Init, NoMemReq, NoIMemReq, NoRsp, NoProbe, NoAck, NoReq, NoL2Req, NoPrb
<1>1. RegInv /\ WbInv /\ AnsweredInv /\ MarkInv
  BY DEF RegInv, WbInv, AnsweredInv, MarkInv, Busy, Serving, RspToL1D
<1>2. AskInv
  BY DEF AskInv, Eff
<1>3. SnoopInv
  BY DEF SnoopInv, NoDma, NoSnoop, InDma
<1>4. PageInv
  BY DEF PageInv, NoDma, InPage, Eff
<1> QED
  BY <1>1, <1>2, <1>3, <1>4 DEF WorkInv, DmaInv
=============================================================================
