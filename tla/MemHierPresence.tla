-------------------------- MODULE MemHierPresence --------------------------
(***************************************************************************)
(* Type correctness, Presence, and with it the absence of synonyms, for      *)
(* every value of the constants.                                             *)
(*                                                                           *)
(* Types are compositional: L1D actions keep the types of the wires and of   *)
(* the L1D, L2 actions those of the wires and of the L2, and the actions of  *)
(* MemHier add the core, the DMA engine and the history.                     *)
(*                                                                           *)
(* PresenceInv is inductive.  L1D actions only ever remove copies, except    *)
(* for the fill; L2 actions drop a line only when no copy is left, which the *)
(* pending request, the probe's answer or the finished walk of the L1D       *)
(* shows.                                                                    *)
(***************************************************************************)
EXTENDS MemHierInv, TLAPS

(* Types *)

\* The default line and colour are a line and a colour.
LEMMA Inhabited == anyLine \in Line /\ anyColour \in Colour
<1>1. PgLine[0] \in Line
  BY PageAssumption
<1>2. PaColour[PgLine[0]] \in Colour
  BY <1>1, IndexAssumption
<1> QED
  BY <1>1, <1>2 DEF anyLine, anyColour

\* Idle register contents have the type of their register.
LEMMA NullTypes ==
    /\ NoMemReq \in MemReq /\ NoIMemReq \in IMemReq
    /\ NoRsp \in [valid : BOOLEAN, data : Val, dirty : BOOLEAN]
    /\ NoProbe \in [req : BOOLEAN, line : Line, colour : Colour]
    /\ NoAck \in [valid : BOOLEAN, dirty : BOOLEAN, data : Val]
    /\ NoSnoop \in [valid : BOOLEAN, line : Line, wbinv : BOOLEAN]
    /\ NoReq \in CpuReq
    /\ NoCl \in [line : Line, inval : BOOLEAN]
    /\ NoDmaInval \in [valid : BOOLEAN, line : Line]
    /\ NoL2Req \in L2Req
    /\ NoPrb \in [done : BOOLEAN, dirty : BOOLEAN, data : Val]
    /\ NoWb \in [line : Line, data : Val]
    /\ NoDma \in [phase : DmaPhase, mode : {"snoop", "xpg"}, dir : {"in", "out"}, line : Line]
BY Inhabited, SizeAssumption
   DEF NoMemReq, NoIMemReq, NoRsp, NoProbe, NoAck, NoSnoop, NoReq, NoCl, NoDmaInval, NoL2Req,
       NoPrb, NoWb, NoDma, MemReq, MemOp, IMemReq, CpuReq, CpuOp, L2Req, DmaPhase

-----------------------------------------------------------------------------
(* The L1D                                                                 *)

DArraysOK ==
    /\ d_valid \in [DSet -> BOOLEAN] /\ d_dirty \in [DSet -> BOOLEAN]
    /\ d_tag \in [DSet -> Line] /\ d_data \in [DSet -> Val]

AnyL1DState == WaitState \cup {"ACTIVE", "PROBE_CHK", "FLUSH_PG", "FLUSH_CACHE"}

\* The port-1 operation indexes a set of the arrays.
LEMMA ReqTypes ==
    ASSUME L1DTypeOK
    PROVE  /\ ReqSet \in DSet /\ d_tag[ReqSet] \in Line /\ d_data[ReqSet] \in Val
           /\ d_req.line \in Line /\ d_req.colour \in Colour
           /\ d_req.val \in Val /\ d_req.full \in BOOLEAN
BY IndexAssumption DEF L1DTypeOK, ReqSet, CpuReq

\* Raising a request of the right types keeps the wires' types.
LEMMA RequestBus ==
    ASSUME InterconnectTypeOK, NEW o \in MemOp, NEW l \in Line, NEW c \in Colour,
           NEW v \in Val, NEW b \in BOOLEAN, NEW f \in BOOLEAN, NEW w,
           Request(o, l, c, v, b, f, w)
    PROVE  InterconnectTypeOK'
BY DEF InterconnectTypeOK, Request, otherWires, MemReq

\* So does taking a response,
LEMMA RespondBus == ASSUME InterconnectTypeOK, Respond PROVE InterconnectTypeOK'
BY NullTypes DEF InterconnectTypeOK, Respond, TakeRsp, otherWires

\* and so does leaving the wires alone.
LEMMA QuietBusTypes == ASSUME InterconnectTypeOK, quietBus PROVE InterconnectTypeOK'
BY DEF InterconnectTypeOK, quietBus, otherWires, arbVars

\* The ways an L1D action may treat the arrays keep their types.
LEMMA InvalidateTypes == ASSUME DArraysOK, NEW s \in DSet, Invalidate(s) PROVE DArraysOK'
BY DEF DArraysOK, Invalidate

LEMMA InvalidateIfTypes ==
    ASSUME DArraysOK, NEW s \in DSet, NEW b \in BOOLEAN, InvalidateIf(b, s) PROVE DArraysOK'
BY InvalidateTypes DEF DArraysOK, InvalidateIf, dArrays

LEMMA SameArrays == ASSUME DArraysOK, UNCHANGED dArrays PROVE DArraysOK'
BY DEF DArraysOK, dArrays

\* FLUSH_CL, whoever asked for it.
LEMMA FlushClTypes ==
    ASSUME InterconnectTypeOK, L1DTypeOK, NEW l \in Line, NEW i \in BOOLEAN, FlushCl(l, i)
    PROVE  /\ DArraysOK' /\ InterconnectTypeOK'
           /\ d_state' \in AnyL1DState
           /\ UNCHANGED <<d_prb_ret, d_req>>
           /\ d_got_req' \in BOOLEAN /\ d_flush_complete' \in BOOLEAN
<1> DEFINE s == SetOf[l][PaColour[l]]
<1>1. s \in DSet /\ PaColour[l] \in Colour /\ ColourOf[s] \in Colour
  BY IndexAssumption
<1>2. DArraysOK
  BY DEF L1DTypeOK, DArraysOK
<1>3. DArraysOK'
  BY <1>1, <1>2, InvalidateTypes, InvalidateIfTypes DEF FlushCl, HitAt, DArraysOK
<1>4. InterconnectTypeOK'
  BY <1>1, <1>2, RequestBus, QuietBusTypes, SizeAssumption DEF FlushCl, DArraysOK, MemOp
<1> QED
  BY <1>3, <1>4 DEF FlushCl, Request, L1DTypeOK, WaitState, AnyL1DState

\* Every action of the L1D keeps the types of the wires and of the L1D.
L1DAction ==
    \/ LoadHit \/ StoreHit \/ VictimWriteback \/ Miss \/ ChopWriteback \/ ChopInvalidate
    \/ UncachedAliasClean \/ UncachedAliasDirty \/ UncachedIssue
    \/ Reload \/ UncachedDone \/ UncacheWb \/ FlushClWait
    \/ CoreFlushCl \/ DmaInval
    \/ FlushPgStart \/ FlushPg \/ FlushPgWait
    \/ FlushCacheStart \/ FlushCache \/ FlushCacheWait
    \/ ProbeTake \/ ProbeChk

L1DTypes == InterconnectTypeOK' /\ L1DTypeOK'

LEMMA L1DActionTypes == ASSUME InterconnectTypeOK, L1DTypeOK, L1DAction PROVE L1DTypes
<1> USE DEF L1DTypes
<1>a. DArraysOK
  BY DEF L1DTypeOK, DArraysOK
<1>b. ReqHit \in BOOLEAN
  BY ReqTypes DEF ReqHit, HitAt, L1DTypeOK
<1>1. CASE LoadHit
  BY <1>1, QuietBusTypes, NullTypes DEF LoadHit, Finish, L1DTypeOK, dArrays, dFlush
<1>2. CASE StoreHit
  <2>1. InterconnectTypeOK'
    BY <1>2, QuietBusTypes DEF StoreHit
  <2> QED
    BY <1>2, <2>1, ReqTypes, NullTypes DEF StoreHit, Finish, L1DTypeOK, dFlush
<1>3. CASE VictimWriteback
  <2>1. InterconnectTypeOK'
    BY <1>3, ReqTypes, RequestBus DEF VictimWriteback, MemOp
  <2> QED
    BY <1>3, <2>1 DEF VictimWriteback, Request, L1DTypeOK, dArrays, dFlush, WaitState
<1>4. CASE Miss
  <2>1. InterconnectTypeOK'
    BY <1>4, ReqTypes, RequestBus, SizeAssumption DEF Miss, MemOp
  <2> QED
    BY <1>4, <2>1 DEF Miss, Request, L1DTypeOK, dArrays, dFlush, WaitState
<1>5. CASE ChopWriteback
  <2>1. InterconnectTypeOK'
    BY <1>5, ReqTypes, RequestBus DEF ChopWriteback, MemOp
  <2>2. DArraysOK'
    BY <1>5, <1>a, ReqTypes, InvalidateTypes DEF ChopWriteback
  <2> QED
    BY <1>5, <2>1, <2>2 DEF ChopWriteback, Request, L1DTypeOK, DArraysOK, dFlush, WaitState
<1>6. CASE ChopInvalidate
  <2>1. InterconnectTypeOK'
    BY <1>6, ReqTypes, RequestBus, SizeAssumption DEF ChopInvalidate, MemOp
  <2>2. DArraysOK'
    BY <1>6, <1>a, <1>b, ReqTypes, InvalidateIfTypes DEF ChopInvalidate
  <2> QED
    BY <1>6, <2>1, <2>2 DEF ChopInvalidate, Request, L1DTypeOK, DArraysOK, dFlush, WaitState
<1>7. CASE UncachedAliasClean
  <2>1. InterconnectTypeOK'
    BY <1>7, QuietBusTypes DEF UncachedAliasClean
  <2>2. DArraysOK'
    BY <1>7, <1>a, ReqTypes, InvalidateTypes DEF UncachedAliasClean
  <2> QED
    BY <1>7, <2>1, <2>2 DEF UncachedAliasClean, L1DTypeOK, DArraysOK, dFlush
<1>8. CASE UncachedAliasDirty
  <2>1. InterconnectTypeOK'
    BY <1>8, ReqTypes, RequestBus DEF UncachedAliasDirty, MemOp
  <2>2. DArraysOK'
    BY <1>8, <1>a, ReqTypes, InvalidateTypes DEF UncachedAliasDirty
  <2> QED
    BY <1>8, <2>1, <2>2 DEF UncachedAliasDirty, Request, L1DTypeOK, DArraysOK, dFlush, WaitState
<1>9. CASE UncachedIssue
  <2>1. InterconnectTypeOK'
    BY <1>9, ReqTypes, RequestBus, SizeAssumption DEF UncachedIssue, SendUncached, MemOp
  <2> QED
    BY <1>9, <2>1
       DEF UncachedIssue, SendUncached, Request, L1DTypeOK, dArrays, dFlush, WaitState
<1>10. CASE Reload
  <2>1. InterconnectTypeOK'
    BY <1>10, RespondBus DEF Reload
  <2> QED
    BY <1>10, <2>1, NullTypes, IndexAssumption
       DEF Reload, Respond, Finish, Rerun, L1DTypeOK, InterconnectTypeOK, MemReq, dFlush
<1>11. CASE UncachedDone
  <2>1. InterconnectTypeOK'
    BY <1>11, RespondBus DEF UncachedDone
  <2> QED
    BY <1>11, <2>1, NullTypes DEF UncachedDone, Respond, Finish, L1DTypeOK, dArrays, dFlush
<1>12. CASE UncacheWb
  <2>1. InterconnectTypeOK'
    BY <1>12, RespondBus DEF UncacheWb
  <2> QED
    BY <1>12, <2>1 DEF UncacheWb, Respond, Rerun, L1DTypeOK, dArrays, dFlush
<1>13. CASE FlushClWait
  <2>1. InterconnectTypeOK'
    BY <1>13, RespondBus DEF FlushClWait
  <2> QED
    BY <1>13, <2>1, NullTypes DEF FlushClWait, Respond, Finish, L1DTypeOK, dArrays
<1>14. CASE CoreFlushCl
  <2>1. d_cl.line \in Line /\ d_cl.inval \in BOOLEAN
    BY DEF L1DTypeOK
  <2>2. PICK l \in Line, i \in BOOLEAN : FlushCl(l, i)
    BY <1>14, <2>1 DEF CoreFlushCl
  <2>3. /\ DArraysOK' /\ InterconnectTypeOK' /\ d_state' \in AnyL1DState
        /\ UNCHANGED <<d_prb_ret, d_req>>
        /\ d_got_req' \in BOOLEAN /\ d_flush_complete' \in BOOLEAN
    BY <2>2, FlushClTypes
  <2> QED
    BY <1>14, <2>3, NullTypes
       DEF CoreFlushCl, L1DTypeOK, DArraysOK, AnyL1DState, FlushReq
<1>15. CASE DmaInval
  <2>1. d_dma_inval.line \in Line
    BY DEF L1DTypeOK
  <2>2. PICK l \in Line, i \in BOOLEAN : FlushCl(l, i)
    BY <1>15, <2>1 DEF DmaInval
  <2> QED
    BY <1>15, <2>2, FlushClTypes, NullTypes DEF DmaInval, L1DTypeOK, DArraysOK, AnyL1DState
<1>16. CASE FlushPgStart
  <2>1. InterconnectTypeOK'
    BY <1>16, QuietBusTypes DEF FlushPgStart
  <2> QED
    BY <1>16, <2>1, PageAssumption DEF FlushPgStart, L1DTypeOK, dArrays, FlushReq
<1>17. CASE FlushPg
  <2> DEFINE l == PgLine[d_pg_off]
             s == SetOf[l][PaColour[l]]
  <2>1. l \in Line
    BY PageAssumption DEF L1DTypeOK
  <2>2. s \in DSet /\ PaColour[l] \in Colour
    BY <2>1, IndexAssumption
  <2>3. DArraysOK'
    BY <1>17, <1>a, <2>2, InvalidateIfTypes DEF FlushPg, HitAt, DArraysOK
  <2>4. InterconnectTypeOK'
    BY <1>17, <1>a, <2>1, <2>2, RequestBus, SizeAssumption DEF FlushPg, DArraysOK, MemOp
  <2>5. d_state' = "FLUSH_PG_WAIT" /\ d_got_req' = FALSE /\ UNCHANGED d_prb_ret
    BY <1>17 DEF FlushPg, Request
  <2>6. d_pg_dirty_cnt' \in 0 .. PgDirtyMax
    BY <1>17 DEF FlushPg, Saturate, PgDirtyMax, L1DTypeOK
  <2> QED
    BY <1>17, <2>3, <2>4, <2>5, <2>6 DEF L1DTypeOK, DArraysOK, FlushPg, WaitState
<1>18. CASE FlushPgWait
  <2>1. InterconnectTypeOK'
    BY <1>18, RespondBus DEF FlushPgWait
  <2>2. d_pg_dirty_cnt' \in 0 .. PgDirtyMax
    BY <1>18 DEF FlushPgWait, Saturate, PgDirtyMax, L1DTypeOK
  <2>3. d_pg_off' \in 0 .. PgLines - 1
    BY <1>18, PageAssumption DEF FlushPgWait, L1DTypeOK
  <2> QED
    BY <1>18, <2>1, <2>2, <2>3, NullTypes DEF FlushPgWait, Respond, L1DTypeOK, dArrays
<1>19. CASE FlushCacheStart
  <2>1. InterconnectTypeOK'
    BY <1>19, QuietBusTypes DEF FlushCacheStart
  <2> QED
    BY <1>19, <2>1, SizeAssumption DEF FlushCacheStart, L1DTypeOK, dArrays, FlushReq, DSet
<1>20. CASE FlushCache
  <2>1. DArraysOK'
    BY <1>20, <1>a, InvalidateTypes DEF FlushCache, L1DTypeOK
  <2>2. d_cache_idx' \in DSet
    BY <1>20, SizeAssumption DEF FlushCache, LastSet, DSet, L1DTypeOK
  <2>3. /\ d_state' \in AnyL1DState /\ UNCHANGED d_prb_ret
        /\ d_got_req' \in BOOLEAN /\ d_flush_complete' \in BOOLEAN
    BY <1>20 DEF FlushCache, Request, L1DTypeOK, WaitState, AnyL1DState
  <2>4. InterconnectTypeOK'
    BY <1>20, <1>a, RequestBus, QuietBusTypes, IndexAssumption
       DEF FlushCache, DArraysOK, L1DTypeOK, MemOp
  <2> QED
    BY <1>20, <2>1, <2>2, <2>3, <2>4 DEF L1DTypeOK, DArraysOK, FlushCache, AnyL1DState
<1>21. CASE FlushCacheWait
  <2>1. InterconnectTypeOK'
    BY <1>21, RespondBus DEF FlushCacheWait
  <2> QED
    BY <1>21, <2>1 DEF FlushCacheWait, Respond, L1DTypeOK, dArrays
<1>22. CASE ProbeTake
  <2>1. InterconnectTypeOK'
    BY <1>22, QuietBusTypes DEF ProbeTake, EnterProbe
  <2> QED
    BY <1>22, <2>1 DEF ProbeTake, EnterProbe, L1DTypeOK, dArrays, dFlush
<1>23. CASE ProbeChk
  <2> DEFINE s == SetOf[probe.line][probe.colour]
  <2>1. s \in DSet
    BY IndexAssumption DEF InterconnectTypeOK
  <2>2. DArraysOK'
    BY <1>23, <1>a, <2>1, InvalidateIfTypes DEF ProbeChk, HitAt, DArraysOK
  <2>3. ack' \in [valid : BOOLEAN, dirty : BOOLEAN, data : Val]
    BY <1>23, <1>a, <2>1 DEF ProbeChk, HitAt, DArraysOK, InTransit, InterconnectTypeOK, MemReq
  <2>4. InterconnectTypeOK'
    BY <1>23, <2>3 DEF ProbeChk, InterconnectTypeOK, arbVars, otherWires
  <2> QED
    BY <1>23, <2>2, <2>4 DEF ProbeChk, L1DTypeOK, DArraysOK, dFlush
<1> QED
  BY <1>1, <1>2, <1>3, <1>4, <1>5, <1>6, <1>7, <1>8, <1>9, <1>10, <1>11, <1>12, <1>13, <1>14,
     <1>15, <1>16, <1>17, <1>18, <1>19, <1>20, <1>21, <1>22, <1>23 DEF L1DAction

-----------------------------------------------------------------------------
(* The L2                                                                  *)

L2ArraysOK ==
    /\ l2_valid \in [L2Idx -> BOOLEAN] /\ l2_dirty \in [L2Idx -> BOOLEAN]
    /\ l2_tag \in [L2Idx -> Line] /\ l2_data \in [L2Idx -> Val]
    /\ l2_pd \in [L2Idx -> BOOLEAN] /\ l2_pidx \in [L2Idx -> Colour]

L2RegsOK ==
    /\ l2_state \in L2State /\ l2_r \in L2Req
    /\ l2_prb \in [done : BOOLEAN, dirty : BOOLEAN, data : Val]
    /\ l2_wb \in [line : Line, data : Val] /\ l2_reload \in BOOLEAN

\* The request's fields and the resident line.
LEMMA L2ReqTypes ==
    ASSUME L2TypeOK
    PROVE  /\ Idx \in L2Idx /\ Resident \in Line /\ l2_data[Idx] \in Val
           /\ Hit \in BOOLEAN /\ MustWrite \in BOOLEAN
           /\ l2_r.line \in Line /\ l2_r.data \in Val /\ l2_r.colour \in Colour
<1>1. l2_r.line \in Line /\ l2_r.data \in Val /\ l2_r.colour \in Colour
  BY DEF L2TypeOK, L2Req
<1>2. Idx \in L2Idx
  BY <1>1, IndexAssumption DEF Idx
<1>3. Resident \in Line /\ l2_data[Idx] \in Val /\ Hit \in BOOLEAN /\ MustWrite \in BOOLEAN
  BY <1>2 DEF L2TypeOK, Resident, Hit, MustWrite
<1> QED
  BY <1>1, <1>2, <1>3

LEMMA DropTypes == ASSUME L2ArraysOK, NEW i \in L2Idx, Drop(i) PROVE L2ArraysOK'
BY DEF L2ArraysOK, Drop

LEMMA DropIfTypes ==
    ASSUME L2ArraysOK, NEW i \in L2Idx, NEW b \in BOOLEAN, DropIf(b, i) PROVE L2ArraysOK'
BY DropTypes DEF L2ArraysOK, DropIf, l2Arrays

\* A line writeback and the end of a service set the registers to typed values.
LEMMA WritebackTypes ==
    ASSUME L2TypeOK, NEW s \in L2State, Writeback(s)
    PROVE  l2_wb' \in [line : Line, data : Val] /\ l2_state' \in L2State
BY L2ReqTypes DEF Writeback, L2TypeOK

LEMMA DoneTypes ==
    ASSUME L2TypeOK, Done, l2_reload' \in BOOLEAN PROVE L2RegsOK'
BY NullTypes DEF Done, L2TypeOK, L2RegsOK, L2State

\* An L2 action that changes no wire but a typed response, snoop_done and DRAM.
LEMMA WireTypes ==
    ASSUME InterconnectTypeOK, UNCHANGED <<l1Wires, probe, ack>>, r_req' \in BOOLEAN,
           snoop' \in {snoop, NoSnoop}, snoop_done' \in BOOLEAN,
           dram' \in [Line -> Val],
           \/ UNCHANGED rsp
           \/ \E v \in Val, b \in BOOLEAN : Answer(v, b)
    PROVE  InterconnectTypeOK'
<1>1. rsp' \in [valid : BOOLEAN, data : Val, dirty : BOOLEAN]
  <2>1. CASE UNCHANGED rsp
    BY <2>1 DEF InterconnectTypeOK
  <2>2. CASE \E v \in Val, b \in BOOLEAN : Answer(v, b)
    BY <2>2 DEF Answer
  <2> QED
    BY <2>1, <2>2
<1> QED
  BY <1>1, NullTypes DEF InterconnectTypeOK, l1Wires

\* A step of the flush walk.
LEMMA WalkOnTypes ==
    ASSUME L2TypeOK, WalkOn
    PROVE  /\ l2_state' \in L2State /\ l2_idx' \in L2Idx
           /\ l2_flush_complete' \in BOOLEAN /\ l2_flush_req' \in BOOLEAN
<1>1. l2_idx' \in L2Idx
  BY SizeAssumption DEF WalkOn, L2TypeOK, L2Idx
<1>2. l2_state' \in L2State
  BY DEF WalkOn, L2State
<1>3. l2_flush_complete' \in BOOLEAN /\ l2_flush_req' \in BOOLEAN
  BY DEF WalkOn, L2TypeOK
<1> QED
  BY <1>1, <1>2, <1>3

\* Every action of the L2 keeps the types of the wires and of the L2.
L2Action ==
    \/ AcceptFlush \/ AcceptSnoop \/ AcceptReq
    \/ ProbeIssue \/ ProbeAnswered
    \/ UncachedPurge \/ Invl \/ PgDrop \/ SnoopWbinv \/ SnoopDrop \/ WriteThrough
    \/ ReadHit \/ WriteHit \/ Evict \/ StartReload
    \/ DirtyStore \/ CleanReload \/ UncacheStore \/ UncacheLoad \/ WbDrain
    \/ FlushTriage \/ FlushStore

L2Types == InterconnectTypeOK' /\ L2TypeOK'

LEMMA L2ActionTypes == ASSUME InterconnectTypeOK, L2TypeOK, L2Action PROVE L2Types
<1> USE DEF L2Types
<1>a. L2ArraysOK /\ L2RegsOK /\ dram \in [Line -> Val] /\ snoop_done \in BOOLEAN /\ r_req \in BOOLEAN
  BY DEF L2TypeOK, L2ArraysOK, L2RegsOK, InterconnectTypeOK
<1>1. CASE AcceptFlush
  <2>1. InterconnectTypeOK'
    BY <1>1 DEF AcceptFlush, InterconnectTypeOK, l1Wires
  <2> QED
    BY <1>1, <2>1, SizeAssumption DEF AcceptFlush, L2TypeOK, L2State, L2Idx, l2Arrays
<1>2. CASE AcceptSnoop
  <2>1. InterconnectTypeOK'
    BY <1>2, <1>a, WireTypes DEF AcceptSnoop
  <2>2. snoop.line \in Line /\ snoop.wbinv \in BOOLEAN
    BY DEF InterconnectTypeOK
  <2>3. l2_r' \in L2Req
    BY <1>2, <2>2, NullTypes DEF AcceptSnoop, L2Req, NoL2Req
  <2> QED
    BY <1>2, <2>1, <2>3 DEF AcceptSnoop, L2TypeOK, L2State, l2Arrays, l2Flush
<1>3. CASE AcceptReq
  <2>1. rsp' = rsp \/ Answer(v0, FALSE)
    BY <1>3 DEF AcceptReq
  <2>2. InterconnectTypeOK'
    BY <1>3, <1>a, <2>1, WireTypes, SizeAssumption DEF AcceptReq
  <2>3. l2_r' \in L2Req
    <3>1. i_mem_req.line \in Line /\ i_mem_req.cacheable \in BOOLEAN
      BY DEF InterconnectTypeOK, IMemReq
    <3>2. d_mem_req \in MemReq
      BY DEF InterconnectTypeOK
    <3>3. CASE arb_state = "GNT_L1I"
      BY <1>3, <3>1, <3>3, NullTypes DEF AcceptReq, L2Req, NoL2Req, MemOp
    <3>4. CASE arb_state # "GNT_L1I"
      BY <1>3, <3>2, <3>4 DEF AcceptReq, L2Req, MemReq, MemOp
    <3> QED
      BY <3>3, <3>4
  <2> QED
    BY <1>3, <2>2, <2>3 DEF AcceptReq, L2TypeOK, L2State, l2Arrays, l2Flush
<1>4. CASE ProbeIssue
  <2>1. probe' \in [req : BOOLEAN, line : Line, colour : Colour]
    BY <1>4, L2ReqTypes DEF ProbeIssue, L2TypeOK
  <2> QED
    BY <1>4, <2>1
       DEF ProbeIssue, InterconnectTypeOK, L2TypeOK, l1Wires, l2Vars, l2Arrays, l2Flush
<1>5. CASE ProbeAnswered
  <2>1. InterconnectTypeOK'
    BY <1>5, NullTypes DEF ProbeAnswered, InterconnectTypeOK, l1Wires
  <2> QED
    BY <1>5, <2>1 DEF ProbeAnswered, InterconnectTypeOK, L2TypeOK, l2Arrays, l2Flush
<1>6. CASE UncachedPurge
  <2>1. InterconnectTypeOK'
    BY <1>6, <1>a, WireTypes DEF UncachedPurge, checkKeeps
  <2>2. L2ArraysOK'
    BY <1>6, <1>a, L2ReqTypes, DropIfTypes DEF UncachedPurge
  <2>3. l2_wb' \in [line : Line, data : Val] /\ l2_state' \in L2State
    BY <1>6, WritebackTypes DEF UncachedPurge, L2TypeOK, L2State
  <2> QED
    BY <1>6, <2>1, <2>2, <2>3 DEF UncachedPurge, checkKeeps, L2TypeOK, L2ArraysOK, l2Flush
<1>7. CASE Invl
  <2>1. InterconnectTypeOK'
    BY <1>7, <1>a, WireTypes, SizeAssumption DEF Invl, checkKeeps
  <2>2. L2ArraysOK'
    BY <1>7, <1>a, L2ReqTypes, DropIfTypes DEF Invl
  <2>3. L2RegsOK'
    BY <1>7, <1>a, WritebackTypes, DoneTypes DEF Invl, L2RegsOK, L2State
  <2> QED
    BY <1>7, <2>1, <2>2, <2>3 DEF Invl, checkKeeps, L2TypeOK, L2ArraysOK, L2RegsOK, l2Flush
<1>8. CASE PgDrop
  <2>1. InterconnectTypeOK'
    BY <1>8, <1>a, WireTypes, L2ReqTypes, SizeAssumption DEF PgDrop, checkKeeps
  <2>2. L2ArraysOK'
    BY <1>8, <1>a, L2ReqTypes, DropIfTypes DEF PgDrop
  <2>3. L2RegsOK'
    BY <1>8, <1>a, DoneTypes DEF PgDrop, L2RegsOK
  <2> QED
    BY <1>8, <2>1, <2>2, <2>3 DEF PgDrop, checkKeeps, L2TypeOK, L2ArraysOK, L2RegsOK, l2Flush
<1>9. CASE SnoopWbinv
  <2>1. InterconnectTypeOK'
    BY <1>9, <1>a, WireTypes DEF SnoopWbinv, checkKeeps
  <2>2. L2ArraysOK'
    BY <1>9, <1>a, L2ReqTypes, DropIfTypes DEF SnoopWbinv
  <2>3. L2RegsOK'
    BY <1>9, <1>a, WritebackTypes, DoneTypes DEF SnoopWbinv, L2RegsOK, L2State
  <2> QED
    BY <1>9, <2>1, <2>2, <2>3 DEF SnoopWbinv, checkKeeps, L2TypeOK, L2ArraysOK, L2RegsOK, l2Flush
<1>10. CASE SnoopDrop
  <2>1. InterconnectTypeOK'
    BY <1>10, <1>a, WireTypes DEF SnoopDrop, checkKeeps
  <2>2. L2ArraysOK'
    BY <1>10, <1>a, L2ReqTypes, DropIfTypes DEF SnoopDrop
  <2>3. L2RegsOK'
    BY <1>10, <1>a, DoneTypes DEF SnoopDrop, L2RegsOK
  <2> QED
    BY <1>10, <2>1, <2>2, <2>3 DEF SnoopDrop, checkKeeps, L2TypeOK, L2ArraysOK, L2RegsOK, l2Flush
<1>11. CASE WriteThrough
  <2>1. InterconnectTypeOK'
    BY <1>11, <1>a, WireTypes DEF WriteThrough, checkKeeps
  <2>2. L2ArraysOK'
    BY <1>11, <1>a, L2ReqTypes DEF WriteThrough, L2ArraysOK, l2Arrays
  <2> QED
    BY <1>11, <2>1, <2>2 DEF WriteThrough, checkKeeps, L2TypeOK, L2ArraysOK, L2State, l2Flush
<1>12. CASE ReadHit
  <2>1. InterconnectTypeOK'
    BY <1>12, <1>a, WireTypes, L2ReqTypes DEF ReadHit, checkKeeps, L2RegsOK
  <2>2. L2ArraysOK'
    BY <1>12, <1>a, L2ReqTypes DEF ReadHit, MarkPresent, L2ArraysOK, L2RegsOK
  <2>3. L2RegsOK'
    BY <1>12, DoneTypes DEF ReadHit
  <2> QED
    BY <1>12, <2>1, <2>2, <2>3 DEF ReadHit, checkKeeps, L2TypeOK, L2ArraysOK, L2RegsOK, l2Flush
<1>13. CASE WriteHit
  <2>1. InterconnectTypeOK'
    BY <1>13, <1>a, WireTypes DEF WriteHit, WriteLine, checkKeeps
  <2>2. L2ArraysOK'
    BY <1>13, <1>a, L2ReqTypes DEF WriteHit, WriteLine, L2ArraysOK
  <2>3. L2RegsOK'
    BY <1>13, DoneTypes DEF WriteHit, WriteLine
  <2> QED
    BY <1>13, <2>1, <2>2, <2>3
       DEF WriteHit, WriteLine, checkKeeps, L2TypeOK, L2ArraysOK, L2RegsOK, l2Flush
<1>14. CASE Evict
  <2>1. InterconnectTypeOK'
    BY <1>14, <1>a, WireTypes DEF Evict, checkKeeps
  <2>2. l2_wb' \in [line : Line, data : Val] /\ l2_state' \in L2State
    BY <1>14, WritebackTypes DEF Evict, L2State
  <2> QED
    BY <1>14, <2>1, <2>2 DEF Evict, checkKeeps, L2TypeOK, l2Arrays, l2Flush
<1>15. CASE StartReload
  <2>1. InterconnectTypeOK'
    BY <1>15, <1>a, WireTypes DEF StartReload, checkKeeps
  <2> QED
    BY <1>15, <2>1 DEF StartReload, checkKeeps, L2TypeOK, L2State, l2Arrays, l2Flush
<1>16. CASE DirtyStore
  <2>1. dram' \in [Line -> Val]
    BY <1>16, <1>a DEF DirtyStore, L2RegsOK
  <2>2. InterconnectTypeOK'
    BY <1>16, <1>a, <2>1, WireTypes DEF DirtyStore, memKeeps
  <2> QED
    BY <1>16, <2>2, NullTypes DEF DirtyStore, L2TypeOK, L2State, l2Arrays, l2Flush
<1>17. CASE CleanReload
  <2>1. InterconnectTypeOK'
    BY <1>17, <1>a, WireTypes DEF CleanReload, memKeeps
  <2>2. L2ArraysOK'
    BY <1>17, <1>a, L2ReqTypes DEF CleanReload, InstallTag, L2ArraysOK
  <2> QED
    BY <1>17, <2>1, <2>2 DEF CleanReload, L2TypeOK, L2ArraysOK, L2State, l2Flush
<1>18. CASE UncacheStore
  <2>1. dram' \in [Line -> Val]
    BY <1>18, <1>a, L2ReqTypes DEF UncacheStore
  <2>2. InterconnectTypeOK'
    BY <1>18, <1>a, <2>1, WireTypes, SizeAssumption DEF UncacheStore, memKeeps
  <2>3. L2RegsOK'
    BY <1>18, <1>a, DoneTypes DEF UncacheStore, L2RegsOK
  <2> QED
    BY <1>18, <2>2, <2>3 DEF UncacheStore, L2TypeOK, L2RegsOK, l2Arrays, l2Flush
<1>19. CASE UncacheLoad
  <2>1. dram[l2_r.line] \in Val
    BY <1>a, L2ReqTypes
  <2>2. InterconnectTypeOK'
    BY <1>19, <1>a, <2>1, WireTypes DEF UncacheLoad, memKeeps
  <2>3. L2RegsOK'
    BY <1>19, <1>a, DoneTypes DEF UncacheLoad, L2RegsOK
  <2> QED
    BY <1>19, <2>2, <2>3 DEF UncacheLoad, L2TypeOK, L2RegsOK, l2Arrays, l2Flush
<1>20. CASE WbDrain
  <2>1. dram' \in [Line -> Val]
    BY <1>20, <1>a DEF WbDrain, L2RegsOK
  <2>2. InterconnectTypeOK'
    BY <1>20, <1>a, <2>1, WireTypes, SizeAssumption DEF WbDrain, memKeeps
  <2>3. L2RegsOK'
    BY <1>20, <1>a, DoneTypes, NullTypes DEF WbDrain, L2RegsOK, L2State
  <2> QED
    BY <1>20, <2>2, <2>3 DEF WbDrain, L2TypeOK, L2RegsOK, l2Arrays, l2Flush
<1>21. CASE FlushTriage
  <2>1. InterconnectTypeOK'
    BY <1>21, <1>a, WireTypes DEF FlushTriage, memKeeps
  <2>2. L2ArraysOK'
    BY <1>21, <1>a, DropTypes DEF FlushTriage, L2TypeOK
  <2>3. l2_wb' \in [line : Line, data : Val]
    BY <1>21, <1>a DEF FlushTriage, L2TypeOK, L2ArraysOK
  <2>4. /\ l2_state' \in L2State /\ l2_idx' \in L2Idx
        /\ l2_flush_complete' \in BOOLEAN /\ l2_flush_req' \in BOOLEAN
    BY <1>21, WalkOnTypes DEF FlushTriage, L2TypeOK, L2State
  <2> QED
    BY <1>21, <2>1, <2>2, <2>3, <2>4 DEF FlushTriage, L2TypeOK, L2ArraysOK
<1>22. CASE FlushStore
  <2>1. dram' \in [Line -> Val]
    BY <1>22, <1>a DEF FlushStore, L2RegsOK
  <2>2. InterconnectTypeOK'
    BY <1>22, <1>a, <2>1, WireTypes DEF FlushStore, memKeeps
  <2>3. /\ l2_state' \in L2State /\ l2_idx' \in L2Idx
        /\ l2_flush_complete' \in BOOLEAN /\ l2_flush_req' \in BOOLEAN
    BY <1>22, WalkOnTypes DEF FlushStore, L2TypeOK, L2State
  <2> QED
    BY <1>22, <2>2, <2>3, NullTypes DEF FlushStore, L2TypeOK, l2Arrays
<1> QED
  BY <1>1, <1>2, <1>3, <1>4, <1>5, <1>6, <1>7, <1>8, <1>9, <1>10, <1>11, <1>12, <1>13, <1>14,
     <1>15, <1>16, <1>17, <1>18, <1>19, <1>20, <1>21, <1>22 DEF L2Action

-----------------------------------------------------------------------------
(* The composition                                                         *)

CoreTypeOK == core_op \in FlushReq /\ core_l1d_done \in BOOLEAN /\ core_l2_done \in BOOLEAN
DmaTypeOK ==
    /\ dma \in [phase : DmaPhase, mode : {"snoop", "xpg"}, dir : {"in", "out"}, line : Line]
    /\ dma_cnt \in 0 .. MaxDma
LatestOK == latest \in [Line -> Val]

LEMMA TypeParts ==
    TypeOK <=> InterconnectTypeOK /\ L1DTypeOK /\ L2TypeOK /\ CoreTypeOK /\ DmaTypeOK /\ LatestOK
BY DEF TypeOK, CoreTypeOK, DmaTypeOK, LatestOK

LEMMA TypeJoin ==
    ASSUME InterconnectTypeOK', L1DTypeOK', L2TypeOK', CoreTypeOK', DmaTypeOK', LatestOK'
    PROVE  TypeOK'
BY DEF TypeOK, CoreTypeOK, DmaTypeOK, LatestOK

\* Components an action leaves alone keep their types.
LEMMA SameBus == ASSUME InterconnectTypeOK, UNCHANGED busVars PROVE InterconnectTypeOK'
BY DEF InterconnectTypeOK, busVars, arbVars
LEMMA SameL1D == ASSUME L1DTypeOK, UNCHANGED l1dVars PROVE L1DTypeOK'
BY DEF L1DTypeOK, l1dVars, dArrays, dFlush
LEMMA SameL2 == ASSUME L2TypeOK, UNCHANGED l2Vars PROVE L2TypeOK'
BY DEF L2TypeOK, l2Vars, l2Arrays, l2Flush
LEMMA SameCore == ASSUME CoreTypeOK, UNCHANGED coreVars PROVE CoreTypeOK'
BY DEF CoreTypeOK, coreVars
LEMMA SameDma == ASSUME DmaTypeOK, UNCHANGED dmaVars PROVE DmaTypeOK'
BY DEF DmaTypeOK, dmaVars
LEMMA SameLatest == ASSUME LatestOK, UNCHANGED latest PROVE LatestOK'
BY DEF LatestOK

\* Discarding a dirty copy sets the history to a typed value.
LEMMA DiscardTypes ==
    ASSUME TypeOK, NEW s \in DSet, NEW l \in Line, Discard(s, l) PROVE LatestOK'
<1>1. Below(l) \in Val
  BY IndexAssumption DEF Below, TypeOK, L2TypeOK, InterconnectTypeOK
<1> QED
  BY <1>1 DEF Discard, LatestOK, TypeOK

\* The start of a flush.
LEMMA StartFlushTypes ==
    ASSUME TypeOK, NEW o \in {"cl", "pg", "all"}, NEW l \in Line, NEW i \in BOOLEAN,
           StartFlush(o, l, i)
    PROVE  InterconnectTypeOK' /\ L1DTypeOK' /\ L2TypeOK' /\ CoreTypeOK' /\ LatestOK'
<1>1. InterconnectTypeOK'
  BY SameBus DEF StartFlush, TypeOK
<1>2. L1DTypeOK'
  <2>1. L1DTypeOK
    BY DEF TypeOK
  <2>2. d_cl' \in [line : Line, inval : BOOLEAN] /\ d_flush_req' \in FlushReq
    BY DEF StartFlush, FlushReq
  <2> QED
    BY <2>1, <2>2 DEF StartFlush, L1DTypeOK, dArrays
<1>3. L2TypeOK'
  BY DEF StartFlush, TypeOK, L2TypeOK, l2Arrays
<1>4. CoreTypeOK' /\ LatestOK'
  BY DEF StartFlush, TypeOK, CoreTypeOK, LatestOK, FlushReq
<1> QED
  BY <1>1, <1>2, <1>3, <1>4

\* TypeOK holds initially,
LEMMA InitTypes == Init => TypeOK
<1> SUFFICES ASSUME Init PROVE TypeOK
  OBVIOUS
<1>1. InterconnectTypeOK
  BY NullTypes, SizeAssumption DEF Init, InterconnectInit, InterconnectTypeOK
<1>2. L1DTypeOK
  <2>1. L1DInit
    BY DEF Init
  <2>2. d_valid \in [DSet -> BOOLEAN] /\ d_dirty \in [DSet -> BOOLEAN]
    BY <2>1 DEF L1DInit
  <2>3. d_tag \in [DSet -> Line] /\ d_data \in [DSet -> Val]
    BY <2>1, Inhabited, SizeAssumption DEF L1DInit
  <2>4. 0 \in DSet /\ 0 \in 0 .. PgLines - 1 /\ 0 \in 0 .. PgDirtyMax
    BY SizeAssumption, PageAssumption DEF DSet, PgDirtyMax
  <2>5. d_flush_req \in FlushReq
    BY <2>1 DEF L1DInit, FlushReq
  <2> QED
    BY <2>1, <2>2, <2>3, <2>4, <2>5, NullTypes DEF L1DInit, L1DTypeOK
<1>3. L2TypeOK
  <2>1. L2Init
    BY DEF Init
  <2>2. /\ l2_valid \in [L2Idx -> BOOLEAN] /\ l2_dirty \in [L2Idx -> BOOLEAN]
        /\ l2_pd \in [L2Idx -> BOOLEAN]
    BY <2>1 DEF L2Init
  <2>3. /\ l2_tag \in [L2Idx -> Line] /\ l2_data \in [L2Idx -> Val]
        /\ l2_pidx \in [L2Idx -> Colour]
    BY <2>1, Inhabited, SizeAssumption DEF L2Init
  <2>4. 0 \in L2Idx
    BY SizeAssumption DEF L2Idx
  <2>5. l2_state \in L2State
    BY <2>1 DEF L2Init, L2State
  <2> QED
    BY <2>1, <2>2, <2>3, <2>4, <2>5, NullTypes DEF L2Init, L2TypeOK
<1>4. CoreTypeOK /\ DmaTypeOK /\ LatestOK
  <2>1. CoreTypeOK
    BY DEF Init, CoreTypeOK, FlushReq
  <2>2. 0 \in 0 .. MaxDma
    BY UseAssumption
  <2>3. DmaTypeOK
    BY <2>2, NullTypes DEF Init, DmaTypeOK
  <2>4. LatestOK
    BY <1>1 DEF Init, LatestOK, InterconnectTypeOK
  <2> QED
    BY <2>1, <2>3, <2>4
<1> QED
  BY <1>1, <1>2, <1>3, <1>4, TypeParts

\* and every step keeps it.
LEMMA NextTypes == TypeOK /\ [Next]_vars => TypeOK'
<1> SUFFICES ASSUME TypeOK, [Next]_vars PROVE TypeOK'
  OBVIOUS
<1>a. /\ InterconnectTypeOK /\ L1DTypeOK /\ L2TypeOK
      /\ CoreTypeOK /\ DmaTypeOK /\ LatestOK
  BY TypeParts
<1> USE <1>a
<1>1. CASE CpuAccept
  <2>1. PICK q \in [op : CpuOps, line : Line, colour : Colour, val : Val, full : BOOLEAN] :
            Accept(q)
    BY <1>1 DEF CpuAccept
  <2>2. q \in CpuReq
    BY UseAssumption DEF CpuReq
  <2>3. InterconnectTypeOK'
    BY <2>1, QuietBusTypes DEF Accept
  <2>4. L1DTypeOK'
    BY <2>1, <2>2 DEF Accept, L1DTypeOK, dArrays, dFlush
  <2> QED
    BY <1>1, <2>3, <2>4, SameL2, SameCore, SameDma, SameLatest, TypeJoin DEF CpuAccept
<1>2. CASE CpuStore
  <2>1. L1DTypes
    BY <1>2, L1DActionTypes DEF CpuStore, L1DAction
  <2>2. LatestOK'
    BY <1>2, ReqTypes DEF CpuStore, LatestOK
  <2> QED
    BY <1>2, <2>1, <2>2, SameL2, SameCore, SameDma, TypeJoin DEF CpuStore, l1dOnly, L1DTypes
<1>3. CASE CpuChopInvalidate
  <2>1. L1DTypes
    BY <1>3, L1DActionTypes DEF CpuChopInvalidate, L1DAction
  <2>2. LatestOK'
    BY <1>3, ReqTypes, DiscardTypes DEF CpuChopInvalidate
  <2> QED
    BY <1>3, <2>1, <2>2, SameL2, SameCore, SameDma, TypeJoin
       DEF CpuChopInvalidate, l1dOnly, L1DTypes
<1>4. CASE CpuFlushCl
  <2>1. L1DTypes
    BY <1>4, L1DActionTypes DEF CpuFlushCl, L1DAction
  <2>2. d_cl.line \in Line /\ SetOf[d_cl.line][PaColour[d_cl.line]] \in DSet
    BY IndexAssumption DEF L1DTypeOK
  <2>3. LatestOK'
    BY <1>4, <2>2, DiscardTypes, SameLatest DEF CpuFlushCl
  <2> QED
    BY <1>4, <2>1, <2>3, SameL2, SameCore, SameDma, TypeJoin DEF CpuFlushCl, l1dOnly, L1DTypes
<1>5. CASE SocDmaInval
  <2>1. L1DTypes
    BY <1>5, L1DActionTypes DEF SocDmaInval, L1DAction
  <2>2. d_dma_inval.line \in Line /\ SetOf[d_dma_inval.line][PaColour[d_dma_inval.line]] \in DSet
    BY IndexAssumption DEF L1DTypeOK
  <2>3. LatestOK'
    BY <1>5, <2>2, DiscardTypes DEF SocDmaInval
  <2> QED
    BY <1>5, <2>1, <2>3, SameL2, SameCore, SameDma, TypeJoin DEF SocDmaInval, l1dOnly, L1DTypes
<1>6. CASE L1DStep
  <2>1. L1DTypes
    BY <1>6, L1DActionTypes DEF L1DStep, L1DAction
  <2> QED
    BY <1>6, <2>1, SameL2, SameCore, SameDma, SameLatest, TypeJoin DEF L1DStep, l1dOnly, L1DTypes
<1>7. CASE L2Step
  <2>1. L2Types
    BY <1>7, L2ActionTypes DEF L2Step, L2Action
  <2> QED
    BY <1>7, <2>1, SameL1D, SameCore, SameDma, SameLatest, TypeJoin DEF L2Step, L2Types
<1>8. CASE L2Store
  <2>1. L2Types
    BY <1>8, L2ActionTypes DEF L2Store, L2Action
  <2>2. LatestOK'
    BY <1>8, L2ReqTypes DEF L2Store, LatestOK
  <2> QED
    BY <1>8, <2>1, <2>2, SameL1D, SameCore, SameDma, TypeJoin DEF L2Store, L2Types
<1>9. CASE Arbiter
  <2>1. InterconnectTypeOK'
    BY <1>9 DEF Arbiter, ArbGrant, Granted, InterconnectTypeOK
  <2> QED
    BY <1>9, <2>1, SameL1D, SameL2, SameCore, SameDma, SameLatest, TypeJoin DEF Arbiter
<1>10. CASE FetchMiss
  <2>1. i_mem_req' \in IMemReq
    BY <1>10, UseAssumption DEF FetchMiss, IMemReq
  <2>2. InterconnectTypeOK'
    BY <1>10, <2>1 DEF FetchMiss, InterconnectTypeOK
  <2> QED
    BY <1>10, <2>2, SameL1D, SameL2, SameCore, SameDma, SameLatest, TypeJoin DEF FetchMiss
<1>11. CASE FetchReload
  <2>1. InterconnectTypeOK'
    BY <1>11, NullTypes DEF FetchReload, TakeRsp, InterconnectTypeOK
  <2> QED
    BY <1>11, <2>1, SameL1D, SameL2, SameCore, SameDma, SameLatest, TypeJoin DEF FetchReload
<1>12. CASE CoreFlush
  <2>1. PICK o \in {"cl", "pg", "all"}, l \in Line, i \in BOOLEAN : StartFlush(o, l, i)
    BY <1>12, Inhabited DEF CoreFlush
  <2> QED
    BY <1>12, <2>1, StartFlushTypes, SameDma, TypeJoin DEF CoreFlush
<1>13. CASE L1DFlushPulse
  <2>1. L1DTypeOK'
    BY <1>13 DEF L1DFlushPulse, L1DTypeOK, dArrays
  <2>2. L2TypeOK'
    BY <1>13 DEF L1DFlushPulse, L1DFlushed, L2TypeOK, l2Arrays
  <2>3. CoreTypeOK'
    BY <1>13 DEF L1DFlushPulse, CoreTypeOK
  <2> QED
    BY <1>13, <2>1, <2>2, <2>3, SameBus, SameDma, SameLatest, TypeJoin DEF L1DFlushPulse
<1>14. CASE L2FlushPulse
  <2>1. L2TypeOK'
    BY <1>14 DEF L2FlushPulse, L2TypeOK, l2Arrays
  <2>2. CoreTypeOK'
    BY <1>14 DEF L2FlushPulse, CoreTypeOK
  <2> QED
    BY <1>14, <2>1, <2>2, SameBus, SameL1D, SameDma, SameLatest, TypeJoin DEF L2FlushPulse
<1>15. CASE CoreFlushEnd
  <2>1. CoreTypeOK'
    BY <1>15 DEF CoreFlushEnd, CoreTypeOK, FlushReq
  <2>2. DmaTypeOK'
    BY <1>15, NullTypes DEF CoreFlushEnd, DmaTypeOK, DmaPhase
  <2> QED
    BY <1>15, <2>1, <2>2, SameBus, SameL1D, SameL2, SameLatest, TypeJoin DEF CoreFlushEnd
<1>16. CASE DmaBegin
  <2>1. PICK x \in DmaXfers :
          /\ dma' = [phase |-> "pre", mode |-> x[1], dir |-> x[2], line |-> x[3]]
          /\ \/ /\ snoop' = [valid |-> TRUE, line |-> x[3], wbinv |-> TRUE]
                /\ UNCHANGED <<arbVars, d_mem_req, i_mem_req, rsp, probe, ack, snoop_done, dram,
                               l1dVars, l2Vars, coreVars, latest>>
             \/ StartFlush("pg", x[3], FALSE)
    BY <1>16 DEF DmaBegin
  <2>2. x[1] \in {"snoop", "xpg"} /\ x[2] \in {"in", "out"} /\ x[3] \in Line
    BY UseAssumption
  <2>3. DmaTypeOK'
    BY <1>16, <2>1, <2>2, UseAssumption DEF DmaBegin, DmaTypeOK, DmaPhase
  <2>4. CASE StartFlush("pg", x[3], FALSE)
    BY <2>2, <2>3, <2>4, StartFlushTypes, TypeJoin
  <2>5. CASE /\ snoop' = [valid |-> TRUE, line |-> x[3], wbinv |-> TRUE]
             /\ UNCHANGED <<arbVars, d_mem_req, i_mem_req, rsp, probe, ack, snoop_done, dram,
                            l1dVars, l2Vars, coreVars, latest>>
    <3>1. InterconnectTypeOK'
      BY <2>2, <2>5 DEF InterconnectTypeOK, arbVars
    <3> QED
      BY <2>3, <2>5, <3>1, SameL1D, SameL2, SameCore, SameLatest, TypeJoin
  <2> QED
    BY <2>1, <2>4, <2>5
<1>17. CASE SnoopEnd
  <2>1. DmaTypeOK'
    BY <1>17, NullTypes DEF SnoopEnd, DmaTypeOK, DmaPhase
  <2>2. InterconnectTypeOK'
    <3>1. /\ snoop_done' \in BOOLEAN
          /\ UNCHANGED <<arbVars, d_mem_req, i_mem_req, rsp, probe, ack, snoop, dram>>
      BY <1>17 DEF SnoopEnd
    <3> QED
      BY <3>1 DEF InterconnectTypeOK, arbVars
  <2> QED
    BY <1>17, <2>1, <2>2, SameL1D, SameL2, SameCore, SameLatest, TypeJoin DEF SnoopEnd
<1>18. CASE DeviceRead
  <2>1. DmaTypeOK'
    BY <1>18, NullTypes DEF DeviceRead, DmaTypeOK
  <2> QED
    BY <1>18, <2>1, SameBus, SameL1D, SameL2, SameCore, SameLatest, TypeJoin DEF DeviceRead
<1>19. CASE DeviceWrite
  <2>1. dma.line \in Line
    BY DEF DmaTypeOK
  <2>2. dram' \in [Line -> Val] /\ LatestOK'
    <3>1. PICK v \in ValOf[dma.line] : /\ dram' = [dram EXCEPT ![dma.line] = v]
                                       /\ latest' = [latest EXCEPT ![dma.line] = v]
      BY <1>19 DEF DeviceWrite
    <3>2. v \in Val
      BY <2>1, <3>1, UseAssumption
    <3> QED
      BY <3>1, <3>2 DEF LatestOK, InterconnectTypeOK
  <2>3. snoop' \in [valid : BOOLEAN, line : Line, wbinv : BOOLEAN]
    BY <1>19, <2>1 DEF DeviceWrite, InterconnectTypeOK
  <2>4. InterconnectTypeOK'
    BY <1>19, <2>2, <2>3 DEF DeviceWrite, InterconnectTypeOK, arbVars
  <2>5. DmaTypeOK'
    BY <1>19 DEF DeviceWrite, DmaTypeOK, DmaPhase
  <2> QED
    BY <1>19, <2>2, <2>4, <2>5, SameL1D, SameL2, SameCore, TypeJoin DEF DeviceWrite
<1>20. CASE DmaPageDrop
  <2>1. StartFlush("pg", dma.line, TRUE) /\ dma.line \in Line
    BY <1>20 DEF DmaPageDrop, DmaTypeOK
  <2> QED
    BY <1>20, <2>1, StartFlushTypes, SameDma, TypeJoin DEF DmaPageDrop
<1>21. CASE DmaInvalReq
  <2>1. L1DTypeOK'
    BY <1>21, UseAssumption DEF DmaInvalReq, L1DTypeOK, dArrays
  <2>2. DmaTypeOK'
    BY <1>21, UseAssumption DEF DmaInvalReq, DmaTypeOK
  <2> QED
    BY <1>21, <2>1, <2>2, SameBus, SameL2, SameCore, SameLatest, TypeJoin DEF DmaInvalReq
<1>22. CASE UNCHANGED vars
  BY <1>22, SameBus, SameL1D, SameL2, SameCore, SameDma, SameLatest, TypeJoin DEF vars
<1> QED
  BY <1>1, <1>2, <1>3, <1>4, <1>5, <1>6, <1>7, <1>8, <1>9, <1>10, <1>11, <1>12, <1>13, <1>14,
     <1>15, <1>16, <1>17, <1>18, <1>19, <1>20, <1>21, <1>22 DEF Next

\* Every reachable state of the memory hierarchy is well typed: every index the
\* FSMs compute is in range, the dirty counter saturates, and a probe never
\* returns the L1D to a state other than the ones it may be taken in.
THEOREM TypeCorrect == Spec => []TypeOK
BY InitTypes, NextTypes, PTL DEF Spec

-----------------------------------------------------------------------------
(* Presence *)

\* The parts of the types the proofs use.
LEMMA ArrayTypes ==
    ASSUME TypeOK
    PROVE  /\ d_valid \in [DSet -> BOOLEAN] /\ d_dirty \in [DSet -> BOOLEAN] /\ d_tag \in [DSet -> Line]
           /\ l2_valid \in [L2Idx -> BOOLEAN] /\ l2_tag \in [L2Idx -> Line]
           /\ l2_pd \in [L2Idx -> BOOLEAN] /\ l2_pidx \in [L2Idx -> Colour]
BY DEF TypeOK, L1DTypeOK, L2TypeOK

LEMMA RegTypes ==
    ASSUME TypeOK
    PROVE  /\ d_mem_req.line \in Line /\ d_mem_req.colour \in Colour /\ d_mem_req.cacheable \in BOOLEAN
           /\ d_req.line \in Line /\ d_req.colour \in Colour
           /\ l2_r.line \in Line /\ l2_r.colour \in Colour /\ l2_r.uncached \in BOOLEAN
           /\ probe.line \in Line /\ probe.colour \in Colour /\ d_dma_inval.line \in Line /\ d_cl.line \in Line
BY DEF TypeOK, L1DTypeOK, L2TypeOK, InterconnectTypeOK, MemReq, CpuReq, L2Req

\* Two copies of a line have the colour the L2 recorded, hence the same set.
LEMMA SynonymFree == ASSUME TypeOK, Presence, PlaceInv PROVE NoSynonym
<1> SUFFICES ASSUME NEW s \in DSet, NEW t \in DSet, d_valid[s], d_valid[t], d_tag[s] = d_tag[t]
             PROVE  s = t
  BY DEF NoSynonym
<1>1. l2_pidx[L2Of[d_tag[s]]] = ColourOf[s] /\ l2_pidx[L2Of[d_tag[t]]] = ColourOf[t]
  BY DEF Presence
<1>2. SetOf[d_tag[s]][ColourOf[s]] = s /\ SetOf[d_tag[t]][ColourOf[t]] = t
  BY DEF PlaceInv
<1> QED
  BY <1>1, <1>2

\* A copy of a line at the colour of a set is in that set.
LEMMA CopyHome ==
    ASSUME TypeOK, PlaceInv, NEW l \in Line, NEW c \in Colour, NEW s \in DSet, HitAt(s, l),
           ColourOf[s] = c
    PROVE  s = SetOf[l][c]
BY DEF PlaceInv, HitAt

-----------------------------------------------------------------------------
(* L1D actions                                                             *)

\* What every L1D action but a fill does to the arrays.
Shrinks ==
    \A s \in DSet : /\ d_valid'[s] => d_valid[s] /\ d_tag'[s] = d_tag[s]
                    /\ d_dirty'[s] => d_valid'[s]

LEMMA SameShrinks == ASSUME PlaceInv, UNCHANGED dArrays PROVE Shrinks
BY DEF Shrinks, PlaceInv, dArrays

LEMMA InvalidateShrinks ==
    ASSUME TypeOK, PlaceInv, NEW s \in DSet, Invalidate(s) PROVE Shrinks /\ ~d_valid'[s]
BY ArrayTypes DEF Shrinks, PlaceInv, Invalidate

LEMMA InvalidateIfShrinks ==
    ASSUME TypeOK, PlaceInv, NEW s \in DSet, NEW b, InvalidateIf(b, s)
    PROVE  Shrinks /\ (b => ~d_valid'[s])
BY InvalidateShrinks, SameShrinks DEF InvalidateIf

\* Removing copies keeps everything that says where copies are.
LEMMA ShrinkKeeps ==
    ASSUME TypeOK, Shrinks
    PROVE  /\ \A l \in Line : NoCopy(l) => NoCopy(l)'
           /\ \A i \in L2Idx : NoCopyAt(i) => NoCopyAt(i)'
           /\ Empty => Empty'
BY DEF Shrinks, NoCopy, NoCopyAt, Empty, HitAt

LEMMA ShrinkPlaces ==
    ASSUME TypeOK, Shrinks, Presence, PlaceInv, UNCHANGED l2Vars PROVE Presence' /\ PlaceInv'
<1>1. UNCHANGED <<l2_valid, l2_tag, l2_pd, l2_pidx>>
  BY DEF l2Vars, l2Arrays
<1> QED
  BY <1>1 DEF Shrinks, Presence, PlaceInv

\* The conjuncts about the wires and the L2, under the three ways an L1D action
\* treats the bus: leave it alone, raise a request, take a response.
WireInv == BusInv /\ ProbeInv /\ FillInv /\ GoneInv

l2Regs == <<l2_state, l2_r, l2_prb, l2_valid, l2_tag, l2_pd, l2_pidx>>

LEMMA IdxType == ASSUME TypeOK PROVE Idx \in L2Idx
BY RegTypes, IndexAssumption DEF Idx

LEMMA QuietWires ==
    ASSUME TypeOK, PresenceInv, Shrinks, quietBus, UNCHANGED l2Vars PROVE WireInv'
<1>1. /\ UNCHANGED <<arb_state, r_l1d_req, r_l1i_req, r_req, d_mem_req, i_mem_req, rsp, probe, ack>>
      /\ UNCHANGED l2Regs
  BY DEF quietBus, arbVars, otherWires, l2Vars, l2Arrays, l2Regs
<1>2. BusInv'
  BY <1>1 DEF PresenceInv, BusInv, LatchInv, AnswerInv, ServeInv, OpInv, l2Regs, Busy, Posted,
     Serving, Matches
<1>3. FillInv'
  BY <1>1 DEF PresenceInv, CopyInv, FillInv, l2Regs, RspToL1D
<1>4. /\ NoCopy(l2_r.line) => NoCopy(l2_r.line)'
      /\ NoCopy(probe.line) => NoCopy(probe.line)'
      /\ NoCopyAt(Idx) => NoCopyAt(Idx)'
  BY <1>1, ShrinkKeeps, RegTypes, IdxType DEF l2Regs, Idx
<1>5. GoneInv'
  BY <1>1, <1>4 DEF PresenceInv, CopyInv, GoneInv, l2Regs, Busy, Posted
<1>6. ProbeInv'
  BY <1>1, <1>4 DEF PresenceInv, ProbeInv, l2Regs, Busy, NeedProbe, Alias, SnoopProbe,
     VictimProbe, Hit, Resident, Idx
<1> QED
  BY <1>2, <1>3, <1>5, <1>6 DEF WireInv

LEMMA RequestWires ==
    ASSUME TypeOK, PresenceInv, Shrinks, UNCHANGED l2Vars, Eff \notin WaitState,
           NEW o \in MemOp, NEW l, NEW c, NEW v, NEW b, NEW f, NEW w, Request(o, l, c, v, b, f, w)
    PROVE  WireInv'
<1>1. /\ UNCHANGED <<arb_state, r_l1i_req, r_req, i_mem_req, rsp, probe, ack>>
      /\ UNCHANGED l2Regs
      /\ d_mem_req'.op = o
  BY DEF Request, otherWires, l2Vars, l2Arrays, l2Regs
<1>2. d_mem_req.op = "none" /\ arb_state # "GNT_L1D"
  BY DEF PresenceInv, FsmInv, BusInv, LatchInv
<1>3. BusInv'
  <2>1. LatchInv'
    BY <1>1, <1>2 DEF PresenceInv, BusInv, LatchInv, MemOp
  <2>2. AnswerInv' /\ ServeInv' /\ OpInv'
    BY <1>1, <1>2 DEF PresenceInv, BusInv, AnswerInv, ServeInv, OpInv, l2Regs, Busy, Posted,
       Serving
  <2> QED
    BY <2>1, <2>2 DEF BusInv
<1>4. FillInv'
  BY <1>1, <1>2 DEF FillInv, RspToL1D
<1>5. /\ NoCopy(l2_r.line) => NoCopy(l2_r.line)'
      /\ NoCopy(probe.line) => NoCopy(probe.line)'
      /\ NoCopyAt(Idx) => NoCopyAt(Idx)'
  BY <1>1, ShrinkKeeps, RegTypes, IdxType DEF l2Regs, Idx
<1>6. GoneInv'
  BY <1>1, <1>5 DEF PresenceInv, CopyInv, GoneInv, l2Regs, Busy, Posted
<1>7. ProbeInv'
  BY <1>1, <1>5 DEF PresenceInv, ProbeInv, l2Regs, Busy, NeedProbe, Alias, SnoopProbe,
     VictimProbe, Hit, Resident, Idx
<1> QED
  BY <1>3, <1>4, <1>6, <1>7 DEF WireInv

\* A response finds no probe waiting, and the L2 idle or busy with a posted write.
LEMMA RespondWires ==
    ASSUME TypeOK, PresenceInv, Respond, UNCHANGED l2Vars,
           Busy => Shrinks, Busy /\ Posted => NoCopy(l2_r.line)'
    PROVE  WireInv'
<1>1. /\ arb_state = "GNT_L1D" /\ rsp.valid /\ arb_state' = "IDLE" /\ r_req' = FALSE
      /\ rsp'.valid = FALSE /\ d_mem_req'.op = "none"
      /\ UNCHANGED <<r_l1d_req, r_l1i_req, i_mem_req, probe, ack>>
      /\ UNCHANGED l2Regs
  BY DEF Respond, RspToL1D, TakeRsp, NoRsp, NoMemReq, otherWires, l2Vars, l2Arrays, l2Regs
<1>2. ~probe.req /\ ~ack.valid /\ ~r_l1d_req /\ ~Serving
  BY <1>1 DEF PresenceInv, ProbeInv, BusInv, LatchInv, ServeInv
<1>3. BusInv'
  <2>1. LatchInv' /\ AnswerInv'
    BY <1>1, <1>2 DEF PresenceInv, BusInv, LatchInv, AnswerInv
  <2>2. ServeInv' /\ OpInv'
    BY <1>1, <1>2 DEF PresenceInv, BusInv, ServeInv, OpInv, l2Regs, Busy, Posted, Serving
  <2> QED
    BY <2>1, <2>2 DEF BusInv
<1>4. FillInv'
  BY <1>1 DEF FillInv, RspToL1D
<1>5. Busy => (NoCopyAt(Idx) => NoCopyAt(Idx)')
  BY <1>1, ShrinkKeeps, IdxType DEF l2Regs, Idx
<1>6. l2_state # "DIRTY_STORE" /\ l2_state # "CLEAN_RELOAD"
  BY <1>1 DEF PresenceInv, BusInv, AnswerInv
<1>7. GoneInv'
  BY <1>1, <1>6 DEF GoneInv, l2Regs, Busy, Posted
<1>8. ProbeInv'
  BY <1>1, <1>2, <1>5 DEF PresenceInv, ProbeInv, l2Regs, Busy
<1> QED
  BY <1>3, <1>4, <1>7, <1>8 DEF WireInv

\* What the L1D itself and the core know.
LocalInv == FsmInv /\ UseInv /\ TokenInv /\ WalkInv

LEMMA Join ==
    ASSUME WireInv', LocalInv', Presence', PlaceInv', RequestInv' PROVE PresenceInv'
BY DEF PresenceInv, CopyInv, WireInv, LocalInv

\* The L1D's registers are at rest in port 1 and while it drains.
LEMMA Rest == ASSUME d_state = "ACTIVE" PROVE Eff = "ACTIVE" /\ Eff \notin WaitState
BY DEF Eff, WaitState

\* FLUSH_CL sends a request after dropping the copy, or drops a clean copy.
Sends(l, o, x, c, v) ==
    LET s == SetOf[l][PaColour[l]]
    IN  /\ o \in {"INVL", "WB"} /\ Request(o, x, c, v, TRUE, TRUE, "FLUSH_CL_WAIT")
        /\ UNCHANGED <<d_req, d_flush_complete>>
        /\ o = "INVL" => x = l /\ c = PaColour[l] /\ InvalidateIf(HitAt(s, l), s)
        /\ o = "WB" => x = d_tag[s] /\ d_dirty[s] /\ Invalidate(s)
ClearsClean(l) ==
    /\ Invalidate(SetOf[l][PaColour[l]]) /\ d_flush_complete' = TRUE
    /\ UNCHANGED <<d_state, d_prb_ret, d_got_req, d_req>> /\ quietBus

LEMMA FlushClCases ==
    ASSUME NEW l, NEW i, FlushCl(l, i)
    PROVE  (\E o, x, c, v : Sends(l, o, x, c, v)) \/ (~i /\ ClearsClean(l))
<1> DEFINE s == SetOf[l][PaColour[l]]
<1>1. CASE i
  <2>1. Sends(l, "INVL", l, PaColour[l], v0)
    BY <1>1 DEF FlushCl, Sends
  <2> QED
    BY <2>1
<1>2. CASE ~i /\ d_dirty[s]
  <2>1. Sends(l, "WB", d_tag[s], ColourOf[s], d_data[s])
    BY <1>2 DEF FlushCl, Sends
  <2> QED
    BY <2>1
<1>3. CASE ~i /\ ~d_dirty[s]
  BY <1>3 DEF FlushCl, ClearsClean
<1> QED
  BY <1>1, <1>2, <1>3

LEMMA L1DKeeps ==
    ASSUME NoUncachedSynonym, TypeOK, PresenceInv, L1DAction, UNCHANGED <<l2Vars, coreVars>>
    PROVE  PresenceInv'
<1> USE DEF PresenceInv, CopyInv
<1>a. UNCHANGED <<core_op, core_l1d_done, core_l2_done>> /\ UNCHANGED l2Vars
      /\ UNCHANGED <<l2_state, l2_need_l1d, l2_flush_req, l2_flush_complete>>
  BY DEF coreVars, l2Vars, l2Flush
<1>b. NoSynonym
  BY SynonymFree
<1>c. ReqSet \in DSet
  BY RegTypes, IndexAssumption DEF ReqSet
<1>1. CASE LoadHit
  <2>1. Shrinks
    BY <1>1, <1>c, SameShrinks DEF LoadHit
  <2>2. WireInv' /\ Presence' /\ PlaceInv'
    BY <1>1, <1>a, <2>1, QuietWires, ShrinkPlaces DEF LoadHit
  <2>3. RequestInv'
    BY <1>1, <2>1, RegTypes, ShrinkKeeps DEF LoadHit, RequestInv, Eff, Drained, Port1, quietBus,
       HitAt, Shrinks, Finish, NoReq, FsmInv, WaitState
  <2>4. LocalInv'
    BY <1>1, <1>a, <2>1 DEF LoadHit, LocalInv, FsmInv, UseInv, TokenInv, WalkInv, InWalk, InPage,
       InLine, Eff, WaitState, dFlush, dArrays, Empty, Drained, Port1, quietBus, Finish, NoReq
  <2> QED
    BY <2>2, <2>3, <2>4, Join
<1>2. CASE StoreHit
  <2>1. Shrinks
    BY <1>2, <1>c, ArrayTypes DEF StoreHit, Shrinks, PlaceInv, ReqHit, HitAt
  <2>2. WireInv' /\ Presence' /\ PlaceInv'
    BY <1>2, <1>a, <2>1, QuietWires, ShrinkPlaces DEF StoreHit
  <2>3. RequestInv'
    BY <1>2 DEF StoreHit, RequestInv, Eff, Port1, quietBus, HitAt, FsmInv, WaitState
  <2>4. LocalInv'
    BY <1>2, <1>a DEF StoreHit, LocalInv, FsmInv, UseInv, TokenInv, WalkInv, InWalk, InPage,
       InLine, Eff, WaitState, dFlush, dArrays, Empty, Port1, quietBus, Finish, NoReq
  <2> QED
    BY <2>2, <2>3, <2>4, Join
<1>3. CASE VictimWriteback
  <2>1. Shrinks /\ Eff \notin WaitState
    BY <1>3, <1>c, Rest, SameShrinks DEF VictimWriteback, Port1
  <2>2. WireInv'
    BY <1>3, <1>a, <2>1, RequestWires DEF VictimWriteback, MemOp
  <2>3. Presence' /\ PlaceInv'
    BY <1>a, <2>1, ShrinkPlaces
  <2>4. RequestInv'
    <3>1. ReqSet = SetOf[d_tag[ReqSet]][d_req.colour]
      BY <1>3, <1>c, RegTypes, ColourAssumption DEF VictimWriteback, PlaceInv, ReqSet
    <3>2. \A s \in DSet : HitAt(s, d_tag[ReqSet]) => s = ReqSet
      BY <1>3, <1>b, <1>c DEF VictimWriteback, NoSynonym, HitAt
    <3> QED
      BY <1>3, <3>1, <3>2 DEF VictimWriteback, RequestInv, Request, Eff, HitAt, dArrays
  <2>5. LocalInv'
    BY <1>3, <1>a, <2>1 DEF VictimWriteback, LocalInv, FsmInv, UseInv, TokenInv, WalkInv, InWalk,
       InPage, InLine, Eff, WaitState, dFlush, dArrays, Empty, Port1, Request, Shrinks
  <2> QED
    BY <2>2, <2>3, <2>4, <2>5, Join
<1>4. CASE Miss
  <2>1. Shrinks /\ Eff \notin WaitState
    BY <1>4, <1>c, Rest, SameShrinks DEF Miss, Port1
  <2>2. WireInv'
    BY <1>4, <1>a, <2>1, RequestWires DEF Miss, MemOp
  <2>3. Presence' /\ PlaceInv'
    BY <1>a, <2>1, ShrinkPlaces
  <2>4. RequestInv'
    BY <1>4 DEF Miss, RequestInv, Request
  <2>5. LocalInv'
    BY <1>4, <1>a, <2>1 DEF Miss, LocalInv, FsmInv, UseInv, TokenInv, WalkInv, InWalk, InPage,
       InLine, Eff, WaitState, dFlush, dArrays, Empty, Port1, Request, Shrinks
  <2> QED
    BY <2>2, <2>3, <2>4, <2>5, Join
<1>5. CASE ChopWriteback
  <2>1. Shrinks /\ Eff \notin WaitState
    BY <1>5, <1>c, Rest, InvalidateShrinks DEF ChopWriteback, Port1
  <2>2. WireInv'
    BY <1>5, <1>a, <2>1, RequestWires DEF ChopWriteback, MemOp
  <2>3. Presence' /\ PlaceInv'
    BY <1>a, <2>1, ShrinkPlaces
  <2>4. RequestInv'
    <3>1. \A s \in DSet : HitAt(s, d_tag[ReqSet]) => s = ReqSet
      BY <1>5, <1>b, <1>c DEF ChopWriteback, NoSynonym, HitAt, ReqHit
    <3>2. ~d_valid'[ReqSet]
      BY <1>5, <1>c, InvalidateShrinks DEF ChopWriteback
    <3> QED
      BY <1>5, <2>1, <3>1, <3>2 DEF ChopWriteback, RequestInv, Request, NoCopy, HitAt, Shrinks
  <2>5. LocalInv'
    BY <1>5, <1>a, <2>1 DEF ChopWriteback, LocalInv, FsmInv, UseInv, TokenInv, WalkInv, InWalk,
       InPage, InLine, Eff, WaitState, dFlush, dArrays, Empty, Port1, Request, Shrinks
  <2> QED
    BY <2>2, <2>3, <2>4, <2>5, Join
<1>6. CASE ChopInvalidate
  <2>1. Shrinks /\ Eff \notin WaitState
    BY <1>6, <1>c, Rest, InvalidateIfShrinks DEF ChopInvalidate, Port1
  <2>2. WireInv'
    BY <1>6, <1>a, <2>1, RequestWires DEF ChopInvalidate, MemOp
  <2>3. Presence' /\ PlaceInv'
    BY <1>a, <2>1, ShrinkPlaces
  <2>4. RequestInv'
    <3>1. ~(d_valid'[ReqSet] /\ d_tag'[ReqSet] = d_req.line)
      BY <1>6, <1>c, <2>1, InvalidateIfShrinks DEF ChopInvalidate, ReqHit, HitAt, Shrinks
    <3> QED
      BY <1>6, <3>1 DEF ChopInvalidate, RequestInv, Request, ReqSet, HitAt
  <2>5. LocalInv'
    BY <1>6, <1>a, <2>1 DEF ChopInvalidate, LocalInv, FsmInv, UseInv, TokenInv, WalkInv, InWalk,
       InPage, InLine, Eff, WaitState, dFlush, dArrays, Empty, Port1, Request, Shrinks
  <2> QED
    BY <2>2, <2>3, <2>4, <2>5, Join
<1>7. CASE UncachedAliasClean
  <2>1. Shrinks
    BY <1>7, <1>c, InvalidateShrinks DEF UncachedAliasClean
  <2>2. WireInv' /\ Presence' /\ PlaceInv'
    BY <1>7, <1>a, <2>1, QuietWires, ShrinkPlaces DEF UncachedAliasClean
  <2>3. RequestInv'
    BY <1>7, <2>1, RegTypes, ShrinkKeeps DEF UncachedAliasClean, RequestInv, Eff, Drained, Port1,
       quietBus, HitAt, Shrinks, FsmInv, WaitState
  <2>4. LocalInv'
    BY <1>7, <1>a, <2>1 DEF UncachedAliasClean, LocalInv, FsmInv, UseInv, TokenInv, WalkInv,
       InWalk, InPage, InLine, Eff, WaitState, dFlush, dArrays, Empty, Drained, Port1, quietBus
  <2> QED
    BY <2>2, <2>3, <2>4, Join
<1>8. CASE UncachedAliasDirty
  <2>1. Shrinks /\ Eff \notin WaitState
    BY <1>8, <1>c, Rest, InvalidateShrinks DEF UncachedAliasDirty, Port1
  <2>2. WireInv'
    BY <1>8, <1>a, <2>1, RequestWires DEF UncachedAliasDirty, MemOp
  <2>3. Presence' /\ PlaceInv'
    BY <1>a, <2>1, ShrinkPlaces
  <2>4. RequestInv'
    <3>1. \A s \in DSet : HitAt(s, d_tag[ReqSet]) => s = ReqSet
      BY <1>8, <1>b, <1>c DEF UncachedAliasDirty, NoSynonym, HitAt, ReqHit
    <3>2. ~d_valid'[ReqSet]
      BY <1>8, <1>c, InvalidateShrinks DEF UncachedAliasDirty
    <3> QED
      BY <1>8, <2>1, <3>1, <3>2 DEF UncachedAliasDirty, RequestInv, Request, NoCopy, HitAt,
         Shrinks
  <2>5. LocalInv'
    BY <1>8, <1>a, <2>1 DEF UncachedAliasDirty, LocalInv, FsmInv, UseInv, TokenInv, WalkInv,
       InWalk, InPage, InLine, Eff, WaitState, dFlush, dArrays, Empty, Port1, Request, Shrinks
  <2> QED
    BY <2>2, <2>3, <2>4, <2>5, Join
<1>9. CASE UncachedIssue
  <2>1. Shrinks /\ Eff \notin WaitState
    BY <1>9, <1>c, Rest, SameShrinks DEF UncachedIssue, SendUncached, Port1
  <2>2. WireInv'
    BY <1>9, <1>a, <2>1, RequestWires DEF UncachedIssue, SendUncached, MemOp
  <2>3. Presence' /\ PlaceInv'
    BY <1>a, <2>1, ShrinkPlaces
  <2>4. RequestInv'
    <3>1. NoCopy(d_req.line)
      <4> SUFFICES ASSUME NEW s \in DSet, HitAt(s, d_req.line) PROVE FALSE
        BY DEF NoCopy
      <4>1. ColourOf[s] = d_req.colour
        BY <1>9 DEF NoUncachedSynonym, PlaceInv, UseInv, UncachedIssue, Port1, HitAt
      <4> QED
        BY <1>9, <4>1, CopyHome, RegTypes DEF UncachedIssue, ReqHit, ReqSet
    <3> QED
      BY <1>9, <3>1 DEF UncachedIssue, SendUncached, RequestInv, Request, NoCopy, HitAt, dArrays
  <2>5. LocalInv'
    BY <1>9, <1>a, <2>1 DEF UncachedIssue, SendUncached, LocalInv, FsmInv, UseInv, TokenInv,
       WalkInv, InWalk, InPage, InLine, Eff, WaitState, dFlush, dArrays, Empty, Port1, Request,
       Shrinks
  <2> QED
    BY <2>2, <2>3, <2>4, <2>5, Join
<1>10. CASE UncachedDone
  <2>1. Shrinks
    BY <1>10, SameShrinks DEF UncachedDone
  <2>2. Busy /\ Posted => NoCopy(l2_r.line)'
    <3>1. Busy /\ Posted => NoCopy(l2_r.line)
      BY <1>10 DEF UncachedDone, Respond, RspToL1D, BusInv, AnswerInv, Busy, Matches, Posted,
         RequestInv, NoCopy, FsmInv, Eff
    <3> QED
      BY <1>a, <2>1, <3>1, ShrinkKeeps, RegTypes DEF l2Vars
  <2>3. WireInv' /\ Presence' /\ PlaceInv'
    BY <1>10, <1>a, <2>1, <2>2, RespondWires, ShrinkPlaces DEF UncachedDone
  <2>4. RequestInv'
    BY <1>10 DEF UncachedDone, Respond, RequestInv, NoMemReq
  <2>5. LocalInv'
    BY <1>10, <1>a DEF UncachedDone, LocalInv, FsmInv, UseInv, TokenInv, WalkInv, InWalk, InPage,
       InLine, Eff, WaitState, dFlush, dArrays, Empty, Respond, NoMemReq, Finish, Rerun, NoReq
  <2> QED
    BY <2>3, <2>4, <2>5, Join
<1>11. CASE UncacheWb
  <2>1. Shrinks
    BY <1>11, SameShrinks DEF UncacheWb
  <2>2. Busy /\ Posted => NoCopy(l2_r.line)'
    <3>1. Busy /\ Posted => NoCopy(l2_r.line)
      BY <1>11 DEF UncacheWb, Respond, RspToL1D, BusInv, AnswerInv, Busy, Matches, Posted,
         RequestInv, NoCopy, FsmInv, Eff
    <3> QED
      BY <1>a, <2>1, <3>1, ShrinkKeeps, RegTypes DEF l2Vars
  <2>3. WireInv' /\ Presence' /\ PlaceInv'
    BY <1>11, <1>a, <2>1, <2>2, RespondWires, ShrinkPlaces DEF UncacheWb
  <2>4. RequestInv'
    BY <1>11 DEF UncacheWb, Respond, RequestInv, NoMemReq
  <2>5. LocalInv'
    BY <1>11, <1>a DEF UncacheWb, LocalInv, FsmInv, UseInv, TokenInv, WalkInv, InWalk, InPage,
       InLine, Eff, WaitState, dFlush, dArrays, Empty, Respond, NoMemReq, Finish, Rerun, NoReq
  <2> QED
    BY <2>3, <2>4, <2>5, Join
<1>12. CASE FlushClWait
  <2>1. Shrinks
    BY <1>12, SameShrinks DEF FlushClWait
  <2>2. Busy /\ Posted => NoCopy(l2_r.line)'
    <3>1. Busy /\ Posted => NoCopy(l2_r.line)
      BY <1>12 DEF FlushClWait, Respond, RspToL1D, BusInv, AnswerInv, Busy, Matches, Posted,
         RequestInv, NoCopy, FsmInv, Eff
    <3> QED
      BY <1>a, <2>1, <3>1, ShrinkKeeps, RegTypes DEF l2Vars
  <2>3. WireInv' /\ Presence' /\ PlaceInv'
    BY <1>12, <1>a, <2>1, <2>2, RespondWires, ShrinkPlaces DEF FlushClWait
  <2>4. RequestInv'
    BY <1>12 DEF FlushClWait, Respond, RequestInv, NoMemReq
  <2>5. LocalInv'
    BY <1>12, <1>a DEF FlushClWait, LocalInv, FsmInv, UseInv, TokenInv, WalkInv, InWalk, InPage,
       InLine, Eff, WaitState, dFlush, dArrays, Empty, Respond, NoMemReq, Finish, Rerun, NoReq
  <2> QED
    BY <2>3, <2>4, <2>5, Join
<1>13. CASE FlushPgWait
  <2>1. Shrinks
    BY <1>13, SameShrinks DEF FlushPgWait
  <2>2. Busy /\ Posted => NoCopy(l2_r.line)'
    <3>1. Busy /\ Posted => NoCopy(l2_r.line)
      BY <1>13 DEF FlushPgWait, Respond, RspToL1D, BusInv, AnswerInv, Busy, Matches, Posted,
         RequestInv, NoCopy, FsmInv, Eff
    <3> QED
      BY <1>a, <2>1, <3>1, ShrinkKeeps, RegTypes DEF l2Vars
  <2>3. WireInv' /\ Presence' /\ PlaceInv'
    BY <1>13, <1>a, <2>1, <2>2, RespondWires, ShrinkPlaces DEF FlushPgWait
  <2>4. RequestInv'
    BY <1>13 DEF FlushPgWait, Respond, RequestInv, NoMemReq
  <2>5. LocalInv'
    BY <1>13, <1>a DEF FlushPgWait, LocalInv, FsmInv, UseInv, TokenInv, WalkInv, InWalk, InPage,
       InLine, Eff, WaitState, dFlush, dArrays, Empty, Respond, NoMemReq, Finish, Rerun, NoReq
  <2> QED
    BY <2>3, <2>4, <2>5, Join
<1>14. CASE FlushCacheWait
  <2>1. Shrinks
    BY <1>14, SameShrinks DEF FlushCacheWait
  <2>2. Busy /\ Posted => NoCopy(l2_r.line)'
    <3>1. Busy /\ Posted => NoCopy(l2_r.line)
      BY <1>14 DEF FlushCacheWait, Respond, RspToL1D, BusInv, AnswerInv, Busy, Matches, Posted,
         RequestInv, NoCopy, FsmInv, Eff
    <3> QED
      BY <1>a, <2>1, <3>1, ShrinkKeeps, RegTypes DEF l2Vars
  <2>3. WireInv' /\ Presence' /\ PlaceInv'
    BY <1>14, <1>a, <2>1, <2>2, RespondWires, ShrinkPlaces DEF FlushCacheWait
  <2>4. RequestInv'
    BY <1>14 DEF FlushCacheWait, Respond, RequestInv, NoMemReq
  <2>5. LocalInv'
    BY <1>14, <1>a DEF FlushCacheWait, LocalInv, FsmInv, UseInv, TokenInv, WalkInv, InWalk,
       InPage, InLine, Eff, WaitState, dFlush, dArrays, Empty, Respond, NoMemReq, Finish, Rerun,
       NoReq
  <2> QED
    BY <2>3, <2>4, <2>5, Join
<1>15. CASE FlushPgStart
  <2>1. Shrinks
    BY <1>15, <1>c, SameShrinks DEF FlushPgStart
  <2>2. WireInv' /\ Presence' /\ PlaceInv'
    BY <1>15, <1>a, <2>1, QuietWires, ShrinkPlaces DEF FlushPgStart
  <2>3. RequestInv'
    BY <1>15, <2>1, RegTypes, ShrinkKeeps DEF FlushPgStart, RequestInv, Eff, Drained, Port1,
       quietBus, HitAt, Shrinks, FsmInv, WaitState
  <2>4. LocalInv'
    BY <1>15, <1>a, <2>1 DEF FlushPgStart, LocalInv, FsmInv, UseInv, TokenInv, WalkInv, InWalk,
       InPage, InLine, Eff, WaitState, dFlush, dArrays, Empty, Drained, Port1, quietBus
  <2> QED
    BY <2>2, <2>3, <2>4, Join
<1>16. CASE FlushCacheStart
  <2>1. Shrinks /\ UNCHANGED dArrays
    BY <1>16, SameShrinks DEF FlushCacheStart
  <2>2. WireInv' /\ Presence' /\ PlaceInv'
    BY <1>16, <1>a, <2>1, QuietWires, ShrinkPlaces DEF FlushCacheStart
  <2>3. RequestInv'
    BY <1>16, Rest DEF FlushCacheStart, RequestInv, FsmInv, Drained, quietBus
  <2>4. \A s \in DSet : ~(s < d_cache_idx')
    BY <1>16, SizeAssumption DEF FlushCacheStart, DSet
  <2>5. WalkInv'
    BY <1>16, <1>a, <2>4 DEF FlushCacheStart, WalkInv, TokenInv, Drained, Eff
  <2>6. FsmInv' /\ UseInv' /\ TokenInv'
    BY <1>16, <1>a DEF FlushCacheStart, FsmInv, UseInv, TokenInv, InWalk, InPage, InLine, Eff,
       WaitState, Drained, quietBus
  <2> QED
    BY <2>2, <2>3, <2>5, <2>6, Join DEF LocalInv
<1>17. CASE ProbeTake
  <2>1. Shrinks /\ quietBus /\ UNCHANGED <<d_got_req, d_req, dArrays, dFlush, d_mem_req>>
    BY <1>17, SameShrinks DEF ProbeTake, EnterProbe, quietBus
  <2>2. WireInv' /\ Presence' /\ PlaceInv'
    BY <1>a, <2>1, QuietWires, ShrinkPlaces
  <2>3. Eff' = Eff
    BY <1>17 DEF ProbeTake, EnterProbe, Eff, WaitState
  <2>4. RequestInv'
    BY <2>1, <2>3 DEF RequestInv, NoCopy, HitAt, dArrays
  <2>5. UseInv' /\ TokenInv' /\ WalkInv'
    BY <1>a, <2>1, <2>3 DEF UseInv, TokenInv, WalkInv, InWalk, InPage, InLine, Empty, dFlush,
       dArrays
  <2>6. FsmInv'
    BY <1>17, <2>1, <2>3 DEF FsmInv, ProbeTake, EnterProbe, ProbePending, quietBus, otherWires
  <2> QED
    BY <2>2, <2>4, <2>5, <2>6, Join DEF LocalInv
<1>18. CASE ProbeChk
  <2> DEFINE s == SetOf[probe.line][probe.colour]
  <2>1. s \in DSet
    BY RegTypes, IndexAssumption
  <2>2. Shrinks /\ (HitAt(s, probe.line) => ~d_valid'[s])
    BY <1>18, <2>1, InvalidateIfShrinks DEF ProbeChk
  <2>3. /\ UNCHANGED <<d_got_req, d_req, dFlush, arb_state, r_l1d_req, r_l1i_req, r_req, d_mem_req, rsp>>
        /\ UNCHANGED <<i_mem_req, probe>>
        /\ ack'.valid /\ d_state' = d_prb_ret /\ d_state = "PROBE_CHK"
    BY <1>18 DEF ProbeChk, arbVars, otherWires
  <2>4. d_prb_ret # "PROBE_CHK"
    BY DEF TypeOK, L1DTypeOK, WaitState
  <2>5. Eff' = Eff
    BY <2>3, <2>4 DEF Eff
  <2>6. probe.req
    BY <2>3 DEF FsmInv, ProbePending
  <2>7. NoCopy(probe.line)'
    <3> SUFFICES ASSUME NEW t \in DSet, d_valid'[t], d_tag'[t] = probe.line PROVE FALSE
      BY <2>3 DEF NoCopy, HitAt
    <3>1. HitAt(t, probe.line) /\ d_valid[t] /\ d_tag[t] = probe.line
      BY <2>2 DEF Shrinks, HitAt
    <3>2. l2_valid[Idx] /\ probe.line = l2_tag[Idx] /\ probe.colour = l2_pidx[Idx]
      BY <2>6 DEF ProbeInv, NeedProbe, Alias, SnoopProbe, VictimProbe, Hit, Resident
    <3>3. L2Of[probe.line] = Idx
      BY <3>2, IdxType DEF PlaceInv
    <3>4. ColourOf[t] = probe.colour
      BY <3>1, <3>2, <3>3 DEF Presence
    <3> QED
      BY <3>1, <3>4, <2>2, CopyHome, RegTypes
  <2>8. Presence' /\ PlaceInv'
    BY <1>a, <2>2, ShrinkPlaces
  <2>9. WireInv'
    <3>1. UNCHANGED l2Regs
      BY <1>a DEF l2Vars, l2Arrays, l2Regs
    <3>2. BusInv'
      BY <2>3, <3>1 DEF BusInv, LatchInv, AnswerInv, ServeInv, OpInv, l2Regs, Busy, Posted,
         Serving, Matches
    <3>3. FillInv'
      BY <2>3, <3>1 DEF FillInv, l2Regs, RspToL1D
    <3>4. /\ NoCopy(l2_r.line) => NoCopy(l2_r.line)'
          /\ NoCopyAt(Idx) => NoCopyAt(Idx)'
      BY <2>2, <3>1, ShrinkKeeps, RegTypes, IdxType DEF l2Regs, Idx
    <3>5. GoneInv'
      BY <2>3, <3>1, <3>4 DEF GoneInv, l2Regs, Busy, Posted
    <3>6. ProbeInv'
      BY <2>3, <2>6, <2>7, <3>1, <3>4 DEF ProbeInv, l2Regs, Busy, NeedProbe, Alias, SnoopProbe,
         VictimProbe, Hit, Resident, Idx
    <3> QED
      BY <3>2, <3>3, <3>5, <3>6 DEF WireInv
  <2>10. RequestInv'
    BY <2>2, <2>3, <2>5, RegTypes, IndexAssumption DEF RequestInv, NoCopy, HitAt, Shrinks
  <2>11. UseInv' /\ TokenInv' /\ WalkInv'
    BY <1>a, <2>2, <2>3, <2>5, ShrinkKeeps DEF UseInv, TokenInv, WalkInv, InWalk, InPage, InLine,
       dFlush, Shrinks
  <2>12. FsmInv'
    BY <2>3, <2>4, <2>5 DEF FsmInv
  <2> QED
    BY <2>8, <2>9, <2>10, <2>11, <2>12, Join DEF LocalInv
<1>19. CASE Reload
  <2> DEFINE s == SetOf[d_mem_req.line][d_mem_req.colour]
  <2>1. s \in DSet /\ ColourOf[s] = d_mem_req.colour
    BY RegTypes, IndexAssumption, ColourAssumption
  <2>2. /\ d_valid' = [d_valid EXCEPT ![s] = (d_mem_req.op = "LW")]
        /\ d_dirty' = [d_dirty EXCEPT ![s] = FALSE]
        /\ d_tag' = [d_tag EXCEPT ![s] = d_mem_req.line]
        /\ Eff = "INJECT_RELOAD" /\ Eff' = "ACTIVE" /\ d_state' = "ACTIVE"
        /\ d_mem_req'.op = "none" /\ RspToL1D /\ UNCHANGED dFlush
        /\ (d_got_req' /\ d_req' = d_req) \/ (~d_got_req' /\ d_req'.op = "none")
    <3>1. (d_got_req' = TRUE /\ d_req' = d_req) \/ (d_got_req' = FALSE /\ d_req' = NoReq)
      BY <1>19 DEF Reload, Finish, Rerun
    <3> QED
      BY <1>19, <3>1 DEF Reload, Eff, Respond, NoMemReq, NoReq
  <2>3. /\ d_req.op \in {"load", "store"} /\ core_op = "none" /\ d_mem_req.op \in {"LW", "SW"}
        /\ d_mem_req.cacheable
    BY <2>2 DEF FsmInv, TokenInv, WaitState
  <2>4. LocalInv'
    BY <1>a, <2>2, <2>3 DEF LocalInv, FsmInv, UseInv, TokenInv, WalkInv, InWalk, InPage, InLine,
       WaitState, dFlush
  <2>5. RequestInv'
    BY <2>2 DEF RequestInv
  <2>6. UNCHANGED <<l2_valid, l2_tag, l2_pd, l2_pidx, l2_state, l2_r>>
    BY <1>a DEF l2Vars, l2Arrays
  <2>7. CASE d_mem_req.op = "LW"
    <3>1. ~Busy
      BY <2>2, <2>7 DEF BusInv, AnswerInv, RspToL1D, Busy, Matches, Posted
    <3>2. WireInv'
      BY <1>19, <1>a, <3>1, RespondWires DEF Reload
    <3>3. FillInv /\ RspToL1D /\ <<d_mem_req.line, d_mem_req.colour>> \in CachedVA
      BY <2>2, <2>3, <2>7 DEF UseInv
    <3>4. Presence'
      <4> SUFFICES ASSUME NEW t \in DSet, d_valid'[t]
                   PROVE  /\ l2_valid[L2Of[d_tag'[t]]] /\ l2_tag[L2Of[d_tag'[t]]] = d_tag'[t]
                          /\ l2_pd[L2Of[d_tag'[t]]] /\ l2_pidx[L2Of[d_tag'[t]]] = ColourOf[t]
        BY <2>6 DEF Presence
      <4>1. CASE t = s
        BY <4>1, <2>1, <2>2, <2>3, <2>7, <3>3, ArrayTypes DEF FillInv
      <4>2. CASE t # s
        BY <4>2, <2>1, <2>2, ArrayTypes DEF Presence
      <4> QED
        BY <4>1, <4>2
    <3>5. PlaceInv'
      <4>1. \A t \in DSet : d_valid'[t] => SetOf[d_tag'[t]][ColourOf[t]] = t /\ <<d_tag'[t], ColourOf[t]>> \in CachedVA
        BY <2>1, <2>2, <3>3, ArrayTypes DEF PlaceInv
      <4>2. \A t \in DSet : d_dirty'[t] => d_valid'[t]
        BY <2>1, <2>2, <2>7, ArrayTypes DEF PlaceInv
      <4> QED
        BY <4>1, <4>2, <2>6 DEF PlaceInv
    <3> QED
      BY <2>4, <2>5, <3>2, <3>4, <3>5, Join
  <2>8. CASE d_mem_req.op = "SW"
    <3>1. Shrinks /\ ~d_valid'[s]
      BY <2>1, <2>2, <2>8, ArrayTypes DEF Shrinks, PlaceInv
    <3>2. Busy /\ Posted => NoCopy(l2_r.line)'
      <4>1. Busy => l2_r.line = d_mem_req.line
        BY <2>2 DEF BusInv, AnswerInv, RspToL1D, Busy, Matches
      <4>2. \A t \in DSet : HitAt(t, d_mem_req.line) => t = s
        BY <2>8 DEF RequestInv
      <4> QED
        BY <2>6, <3>1, <4>1, <4>2 DEF NoCopy, HitAt, Shrinks
    <3>3. WireInv' /\ Presence' /\ PlaceInv'
      BY <1>19, <1>a, <3>1, <3>2, RespondWires, ShrinkPlaces DEF Reload
    <3> QED
      BY <2>4, <2>5, <3>3, Join
  <2> QED
    BY <2>3, <2>7, <2>8
<1>20. CASE FlushPg
  <2> DEFINE l == PgLine[d_pg_off]
             c == PaColour[l]
             s == SetOf[l][c]
  <2>1. l \in Line /\ c \in Colour /\ s \in DSet
    <3>1. d_pg_off \in 0 .. PgLines - 1
      BY DEF TypeOK, L1DTypeOK
    <3> QED
      BY <3>1, IndexAssumption, PageAssumption
  <2>2. Shrinks /\ (HitAt(s, l) => ~d_valid'[s])
    BY <1>20, <2>1, InvalidateIfShrinks DEF FlushPg
  <2>3. Eff = "FLUSH_PG" /\ Eff \notin WaitState
    BY <1>20 DEF FlushPg, Eff, WaitState
  <2>4. PICK o, v : /\ o \in {"WB", "PGDROP", "INVL"} /\ (o = "WB" => HitAt(s, l))
                     /\ Request(o, l, c, v, TRUE, TRUE, "FLUSH_PG_WAIT")
    BY <1>20 DEF FlushPg, PgWb
  <2>5. WireInv' /\ Presence' /\ PlaceInv'
    BY <1>a, <2>2, <2>3, <2>4, RequestWires, ShrinkPlaces DEF MemOp
  <2>6. RequestInv'
    <3>1. \A t \in DSet : HitAt(t, l) /\ HitAt(s, l) => t = s
      BY <1>b, <2>1 DEF NoSynonym, HitAt
    <3> QED
      BY <2>1, <2>2, <2>4, <3>1 DEF RequestInv, Request, NoCopy, HitAt, Shrinks
  <2>7. UNCHANGED <<d_req, d_flush_req, d_cl_is_dma, d_flush_complete, d_prb_ret>> /\ ~d_got_req'
        /\ d_state' = "FLUSH_PG_WAIT" /\ d_mem_req'.op \in {"WB", "PGDROP", "INVL"} /\ d_mem_req'.cacheable
    BY <1>20, <2>4 DEF FlushPg, Request
  <2>8. LocalInv'
    BY <1>a, <2>2, <2>3, <2>7, ShrinkKeeps DEF LocalInv, FsmInv, UseInv, TokenInv, WalkInv,
       InWalk, InPage, InLine, Eff, WaitState
  <2> QED
    BY <2>5, <2>6, <2>8, Join
<1>21. CASE FlushCache
  <2> DEFINE s == d_cache_idx
  <2>1. s \in DSet
    BY DEF TypeOK, L1DTypeOK
  <2>2. Shrinks /\ ~d_valid'[s] /\ d_state = "FLUSH_CACHE" /\ Eff = "FLUSH_CACHE" /\ Eff \notin WaitState
    BY <1>21, <2>1, InvalidateShrinks DEF FlushCache, Eff, WaitState
  <2>3. UNCHANGED <<d_req, d_flush_req, d_cl_is_dma>> /\ core_op = "all" /\ ~d_flush_complete /\ ~core_l1d_done
    BY <1>21, <2>2 DEF FlushCache, TokenInv, InWalk
  <2>4. /\ LastSet => Empty'
        /\ ~LastSet => \A t \in DSet : t < d_cache_idx' => ~d_valid'[t]
    <3>1. \A t \in DSet : t < s => ~d_valid'[t]
      BY <2>2 DEF WalkInv, Shrinks
    <3>2. LastSet => Empty'
      BY <2>1, <2>2, <3>1, SizeAssumption DEF LastSet, Empty, DSet
    <3>3. ~LastSet => d_cache_idx' = s + 1
      BY <1>21 DEF FlushCache
    <3> QED
      BY <2>1, <2>2, <3>1, <3>2, <3>3, SizeAssumption DEF DSet
  <2>5. CASE d_dirty[s]
    <3>1. PICK w \in {"FLUSH_CACHE_LAST_WAIT", "FLUSH_CACHE_WAIT"} :
             /\ Request("SW", d_tag[s], ColourOf[s], d_data[s], TRUE, TRUE, w)
             /\ w = "FLUSH_CACHE_LAST_WAIT" <=> LastSet
      BY <1>21, <2>5 DEF FlushCache
    <3>2. UNCHANGED <<d_flush_complete, d_prb_ret>> /\ ~d_got_req' /\ d_state' = w
          /\ d_mem_req'.op = "SW" /\ d_mem_req'.cacheable
      BY <1>21, <2>5, <3>1 DEF FlushCache, Request
    <3>3. WireInv' /\ Presence' /\ PlaceInv'
      BY <1>a, <2>2, <3>1, RequestWires, ShrinkPlaces DEF MemOp
    <3>4. RequestInv'
      <4>1. \A t \in DSet : HitAt(t, d_tag[s]) => t = s
        BY <1>b, <2>1, <2>5 DEF NoSynonym, HitAt, PlaceInv
      <4> QED
        BY <2>1, <2>2, <3>1, <4>1 DEF RequestInv, Request, HitAt, Shrinks
    <3>5. WalkInv'
      BY <1>a, <2>3, <2>4, <3>1, <3>2 DEF WalkInv, Eff
    <3>6. FsmInv' /\ UseInv' /\ TokenInv'
      BY <1>a, <2>2, <2>3, <3>2 DEF FsmInv, UseInv, TokenInv, InWalk, InPage, InLine, Eff,
         WaitState
    <3> QED
      BY <3>3, <3>4, <3>5, <3>6, Join DEF LocalInv
  <2>6. CASE ~d_dirty[s]
    <3>1. /\ d_state' = (IF LastSet THEN "ACTIVE" ELSE "FLUSH_CACHE")
          /\ d_flush_complete' = (d_flush_complete \/ LastSet) /\ UNCHANGED <<d_prb_ret, d_got_req>>
          /\ quietBus /\ UNCHANGED d_mem_req
      BY <1>21, <2>3, <2>6 DEF FlushCache, quietBus
    <3>2. WireInv' /\ Presence' /\ PlaceInv'
      BY <1>a, <2>2, <3>1, QuietWires, ShrinkPlaces
    <3>3. RequestInv'
      BY <2>2, <3>1 DEF RequestInv, FsmInv
    <3>4. WalkInv'
      BY <1>a, <2>3, <2>4, <3>1 DEF WalkInv, Eff
    <3>5. FsmInv' /\ UseInv' /\ TokenInv'
      BY <1>a, <2>2, <2>3, <3>1 DEF FsmInv, UseInv, TokenInv, InWalk, InPage, InLine, Eff,
         WaitState
    <3> QED
      BY <3>2, <3>3, <3>4, <3>5, Join DEF LocalInv
  <2> QED
    BY <2>5, <2>6
<1>22. CASE CoreFlushCl
  <2> DEFINE l == d_cl.line
             s == SetOf[l][PaColour[l]]
  <2>1. l \in Line /\ PaColour[l] \in Colour /\ s \in DSet
    BY IndexAssumption, RegTypes
  <2>2. FlushCl(l, d_cl.inval) /\ d_state = "ACTIVE" /\ ~d_got_req /\ Eff = "ACTIVE" /\ Eff \notin WaitState
    BY <1>22, Rest DEF CoreFlushCl, Drained
  <2>3. d_req.op = "none" /\ d_mem_req.op = "none"
    BY <2>2 DEF FsmInv
  <2>4. UNCHANGED <<d_cache_idx>> /\ d_flush_req = "cl" /\ d_flush_req' = "none" /\ ~d_cl_is_dma'
        /\ core_op = "cl" /\ ~d_flush_complete /\ ~core_l1d_done
    BY <1>22 DEF CoreFlushCl, TokenInv
  <2>5. CASE \E o, x, c, v : Sends(l, o, x, c, v)
    <3>1. PICK o, x, c, v : Sends(l, o, x, c, v)
      BY <2>5
    <3>2. Shrinks /\ (o = "INVL" => (HitAt(s, l) => ~d_valid'[s])) /\ (o = "WB" => ~d_valid'[s])
      BY <2>1, <3>1, InvalidateShrinks, InvalidateIfShrinks DEF Sends
    <3>3. WireInv' /\ Presence' /\ PlaceInv'
      BY <1>a, <2>2, <3>1, <3>2, RequestWires, ShrinkPlaces DEF MemOp, Sends
    <3>4. RequestInv'
      <4>1. o = "WB" => \A t \in DSet : HitAt(t, d_tag[s]) => t = s
        BY <1>b, <2>1, <3>1 DEF NoSynonym, HitAt, PlaceInv, Sends
      <4> QED
        BY <2>1, <3>1, <3>2, <4>1 DEF RequestInv, Request, HitAt, NoCopy, Shrinks, Sends
    <3>5. UNCHANGED <<d_req, d_flush_complete, d_prb_ret>> /\ ~d_got_req' /\ d_state' = "FLUSH_CL_WAIT"
          /\ d_mem_req'.op \in {"INVL", "WB"} /\ d_mem_req'.cacheable
      BY <3>1 DEF Request, Sends
    <3>6. LocalInv'
      BY <1>a, <2>2, <2>3, <2>4, <3>2, <3>5, ShrinkKeeps DEF LocalInv, FsmInv, UseInv, TokenInv,
         WalkInv, InWalk, InPage, InLine, Eff, WaitState
    <3> QED
      BY <3>3, <3>4, <3>6, Join
  <2>6. CASE ClearsClean(l)
    <3>1. Shrinks /\ UNCHANGED d_mem_req
      BY <2>1, <2>6, InvalidateShrinks DEF quietBus, ClearsClean
    <3>2. WireInv' /\ Presence' /\ PlaceInv'
      BY <1>a, <2>6, <3>1, QuietWires, ShrinkPlaces DEF ClearsClean
    <3>3. RequestInv'
      BY <2>3, <3>1 DEF RequestInv
    <3>4. LocalInv'
      BY <1>a, <2>2, <2>3, <2>4, <2>6, <3>1 DEF ClearsClean, LocalInv, FsmInv, UseInv, TokenInv,
         WalkInv, InWalk, InPage, InLine, Eff, WaitState
    <3> QED
      BY <3>2, <3>3, <3>4, Join
  <2> QED
    BY <2>2, <2>5, <2>6, FlushClCases
<1>23. CASE DmaInval
  <2> DEFINE l == d_dma_inval.line
             s == SetOf[l][PaColour[l]]
  <2>1. l \in Line /\ PaColour[l] \in Colour /\ s \in DSet
    BY IndexAssumption, RegTypes
  <2>2. FlushCl(l, TRUE) /\ d_state = "ACTIVE" /\ ~d_got_req /\ Eff = "ACTIVE" /\ Eff \notin WaitState
    BY <1>23, Rest DEF DmaInval, Drained
  <2>3. d_req.op = "none" /\ d_mem_req.op = "none"
    BY <2>2 DEF FsmInv
  <2>4. UNCHANGED <<d_cache_idx, d_flush_req>> /\ d_cl_is_dma'
    BY <1>23 DEF DmaInval
  <2>5. CASE \E o, x, c, v : Sends(l, o, x, c, v)
    <3>1. PICK o, x, c, v : Sends(l, o, x, c, v)
      BY <2>5
    <3>2. Shrinks /\ (o = "INVL" => (HitAt(s, l) => ~d_valid'[s])) /\ (o = "WB" => ~d_valid'[s])
      BY <2>1, <3>1, InvalidateShrinks, InvalidateIfShrinks DEF Sends
    <3>3. WireInv' /\ Presence' /\ PlaceInv'
      BY <1>a, <2>2, <3>1, <3>2, RequestWires, ShrinkPlaces DEF MemOp, Sends
    <3>4. RequestInv'
      <4>1. o = "WB" => \A t \in DSet : HitAt(t, d_tag[s]) => t = s
        BY <1>b, <2>1, <3>1 DEF NoSynonym, HitAt, PlaceInv, Sends
      <4> QED
        BY <2>1, <3>1, <3>2, <4>1 DEF RequestInv, Request, HitAt, NoCopy, Shrinks, Sends
    <3>5. UNCHANGED <<d_req, d_flush_complete, d_prb_ret>> /\ ~d_got_req' /\ d_state' = "FLUSH_CL_WAIT"
          /\ d_mem_req'.op \in {"INVL", "WB"} /\ d_mem_req'.cacheable
      BY <3>1 DEF Request, Sends
    <3>6. LocalInv'
      BY <1>a, <2>2, <2>3, <2>4, <3>2, <3>5, ShrinkKeeps DEF LocalInv, FsmInv, UseInv, TokenInv,
         WalkInv, InWalk, InPage, InLine, Eff, WaitState
    <3> QED
      BY <3>3, <3>4, <3>6, Join
  <2> QED
    BY <2>2, <2>5, FlushClCases
<1> QED
  BY <1>1, <1>2, <1>3, <1>4, <1>5, <1>6, <1>7, <1>8, <1>9, <1>10, <1>11, <1>12, <1>13, <1>14,
     <1>15, <1>16, <1>17, <1>18, <1>19, <1>20, <1>21, <1>22, <1>23 DEF L1DAction

-----------------------------------------------------------------------------
(* L2 actions                                                              *)

\* A line the L2 holds and of which the L1D has no copy has none at its index.
LEMMA HitGone ==
    ASSUME TypeOK, Presence, Hit, NoCopy(l2_r.line) PROVE NoCopyAt(Idx)
BY DEF Presence, Hit, Resident, NoCopy, NoCopyAt, HitAt

\* An index with no presence bit, or whose probe was answered, has no copy.
LEMMA UnmarkedGone ==
    ASSUME TypeOK, PresenceInv, ~l2_valid[Idx] \/ ~l2_pd[Idx] \/ l2_prb.done PROVE NoCopyAt(Idx)
<1>1. CASE l2_prb.done
  BY <1>1 DEF PresenceInv, ProbeInv
<1>2. CASE ~l2_valid[Idx] \/ ~l2_pd[Idx]
  BY <1>2 DEF PresenceInv, CopyInv, Presence, NoCopyAt
<1> QED
  BY <1>1, <1>2

\* Dropping an index without copies keeps the places of the others.
LEMMA DropKeeps ==
    ASSUME TypeOK, Presence, PlaceInv, UNCHANGED <<d_valid, d_dirty, d_tag>>,
           NEW i \in L2Idx, NoCopyAt(i), UNCHANGED <<l2_tag, l2_pidx>>,
           l2_valid' = [l2_valid EXCEPT ![i] = FALSE], l2_pd' = [l2_pd EXCEPT ![i] = FALSE]
    PROVE  Presence' /\ PlaceInv'
<1>1. Presence'
  BY ArrayTypes, IndexAssumption DEF Presence, NoCopyAt
<1>2. PlaceInv'
  BY ArrayTypes DEF PlaceInv
<1> QED
  BY <1>1, <1>2

LEMMA DropIfKeeps ==
    ASSUME TypeOK, Presence, PlaceInv, UNCHANGED <<d_valid, d_dirty, d_tag>>,
           Hit => NoCopyAt(Idx), DropIf(Hit, Idx)
    PROVE  Presence' /\ PlaceInv'
<1>1. CASE Hit
  BY <1>1, IdxType, DropKeeps DEF DropIf, Drop
<1>2. CASE ~Hit
  BY <1>2 DEF DropIf, l2Arrays, Presence, PlaceInv
<1> QED
  BY <1>1, <1>2

\* The L1D keeps its copies, its state and the request it waits for.
l1dSide == <<d_state, d_prb_ret, d_got_req, d_req, d_valid, d_dirty, d_tag, d_cache_idx, d_flush_req,
             d_cl_is_dma, d_flush_complete, core_op, core_l1d_done, core_l2_done,
             arb_state, r_l1d_req, r_l1i_req, d_mem_req, i_mem_req>>

LEMMA L1DSide ==
    ASSUME L2Action, UNCHANGED <<l1dVars, coreVars>> PROVE UNCHANGED l1dSide
<1>1. UNCHANGED l1Wires
  BY DEF L2Action, AcceptFlush, AcceptSnoop, AcceptReq, ProbeIssue, ProbeAnswered, UncachedPurge,
     Invl, PgDrop, SnoopWbinv, SnoopDrop, WriteThrough, ReadHit, WriteHit, WriteLine, Evict,
     StartReload, DirtyStore, CleanReload, UncacheStore, UncacheLoad, WbDrain, FlushTriage,
     FlushStore, checkKeeps, memKeeps
<1> QED
  BY <1>1 DEF l1Wires, l1dVars, dArrays, dFlush, coreVars, l1dSide

LEMMA L1DSideKeeps ==
    ASSUME PresenceInv, UNCHANGED l1dSide PROVE UseInv' /\ WalkInv' /\ RequestInv'
<1>1. UseInv' /\ WalkInv'
  BY DEF PresenceInv, l1dSide, UseInv, WalkInv, Eff, Empty
<1>2. RequestInv'
  BY DEF PresenceInv, CopyInv, l1dSide, RequestInv, NoCopy, HitAt, Eff
<1> QED
  BY <1>1, <1>2

\* No L2 action is taken while an answer is on the wire.
LEMMA L2Waits == ASSUME PresenceInv, L2Action PROVE ~rsp.valid
<1>1. CASE l2_state \in {"IDLE", "CHECK"}
  BY <1>1 DEF L2Action, AcceptFlush, AcceptSnoop, AcceptReq, ProbeIssue, ProbeAnswered,
     UncachedPurge, Invl, PgDrop, SnoopWbinv, SnoopDrop, WriteThrough, ReadHit, WriteHit,
     WriteLine, Evict, StartReload, DirtyStore, CleanReload, UncacheStore, UncacheLoad, WbDrain,
     FlushTriage, FlushStore, Check
<1>2. CASE l2_state \notin {"IDLE", "CHECK"}
  BY <1>2 DEF PresenceInv, BusInv, AnswerInv
<1> QED
  BY <1>1, <1>2

LEMMA L2Keeps ==
    ASSUME NoUncachedSynonym, TypeOK, PresenceInv, L2Action, UNCHANGED <<l1dVars, coreVars>>
    PROVE  PresenceInv'
<1> USE DEF PresenceInv, CopyInv, l1dSide, l2Arrays, l2Flush, Check, checkKeeps, memKeeps, Done,
            NoL2Req, NoPrb, Answer, Busy, Posted, Serving
<1>a. UNCHANGED l1dSide /\ UseInv' /\ WalkInv' /\ RequestInv' /\ ~rsp.valid
  BY L1DSide, L1DSideKeeps, L2Waits
<1>b. Idx \in L2Idx
  BY IdxType
<1>j. ASSUME BusInv', ProbeInv', FillInv', GoneInv', FsmInv', TokenInv', Presence', PlaceInv'
      PROVE  PresenceInv'
  BY <1>a, <1>j
<1>1. CASE AcceptFlush
  <2>1. BusInv'
    BY <1>1, <1>a DEF AcceptFlush, BusInv, LatchInv, AnswerInv, ServeInv, OpInv, Matches
  <2>2. ProbeInv'
    BY <1>1, <1>a DEF AcceptFlush, ProbeInv, NeedProbe, Alias, SnoopProbe, VictimProbe, Hit,
       Resident, Idx, NoCopy, NoCopyAt, HitAt
  <2>3. FillInv'
    BY <1>1, <1>a DEF AcceptFlush, FillInv, RspToL1D, BusInv, ServeInv, Matches
  <2>4. GoneInv'
    BY <1>1, <1>a, <1>b DEF AcceptFlush, GoneInv, Idx, NoCopy, NoCopyAt, HitAt
  <2>5. FsmInv' /\ TokenInv'
    BY <1>1, <1>a DEF AcceptFlush, FsmInv, TokenInv, Eff, InWalk, InPage, InLine, ProbePending
  <2>6. Presence' /\ PlaceInv'
    BY <1>1, <1>a, <1>b DEF AcceptFlush, l2Vars, Presence, PlaceInv
  <2> QED
    BY <1>j, <2>1, <2>2, <2>3, <2>4, <2>5, <2>6
<1>2. CASE AcceptSnoop
  <2>1. BusInv'
    BY <1>2, <1>a DEF AcceptSnoop, BusInv, LatchInv, AnswerInv, ServeInv, OpInv, Matches
  <2>2. ProbeInv'
    BY <1>2, <1>a DEF AcceptSnoop, ProbeInv, NeedProbe, Alias, SnoopProbe, VictimProbe, Hit,
       Resident, Idx, NoCopy, NoCopyAt, HitAt
  <2>3. FillInv'
    BY <1>2, <1>a DEF AcceptSnoop, FillInv, RspToL1D, BusInv, ServeInv, Matches
  <2>4. GoneInv'
    BY <1>2, <1>a, <1>b DEF AcceptSnoop, GoneInv, Idx, NoCopy, NoCopyAt, HitAt
  <2>5. FsmInv' /\ TokenInv'
    BY <1>2, <1>a DEF AcceptSnoop, FsmInv, TokenInv, Eff, InWalk, InPage, InLine, ProbePending
  <2>6. Presence' /\ PlaceInv'
    BY <1>2, <1>a, <1>b DEF AcceptSnoop, l2Vars, Presence, PlaceInv
  <2> QED
    BY <1>j, <2>1, <2>2, <2>3, <2>4, <2>5, <2>6
<1>3. CASE AcceptReq
  <2>a. /\ arb_state \in {"GNT_L1D", "GNT_L1I"} /\ l2_state' = "CHECK" /\ r_req' = FALSE
        /\ d_mem_req.cacheable \in BOOLEAN /\ i_mem_req.cacheable \in BOOLEAN
    BY <1>3 DEF AcceptReq, BusInv, LatchInv, TypeOK, InterconnectTypeOK, IMemReq, MemReq
  <2>b. ASSUME arb_state = "GNT_L1I" PROVE BusInv' /\ GoneInv'
    <3>1. /\ l2_r'.op = "LW" /\ l2_r'.line = i_mem_req.line /\ l2_r'.uncached = ~i_mem_req.cacheable
          /\ rsp' = rsp
      BY <1>3, <2>b DEF AcceptReq
    <3>2. <<i_mem_req.line, i_mem_req.cacheable>> \in IFetch
      BY <2>b DEF BusInv, LatchInv
    <3>3. l2_r'.uncached => <<l2_r'.line, FALSE>> \in IFetch
      BY <2>a, <3>1, <3>2
    <3>4. BusInv'
      BY <1>a, <2>a, <2>b, <3>1, <3>3 DEF BusInv, LatchInv, AnswerInv, ServeInv, OpInv, Matches
    <3>5. GoneInv'
      BY <2>a, <3>1 DEF GoneInv
    <3> QED
      BY <3>4, <3>5
  <2>c. ASSUME arb_state = "GNT_L1D" PROVE BusInv' /\ GoneInv'
    <3>1. /\ l2_r'.op = d_mem_req.op /\ l2_r'.line = d_mem_req.line /\ l2_r'.from_d
          /\ l2_r'.colour = d_mem_req.colour /\ l2_r'.uncached = ~d_mem_req.cacheable
      BY <1>3, <2>c DEF AcceptReq
    <3>2. IF d_mem_req.op = "SW" /\ d_mem_req.cacheable THEN rsp'.valid ELSE rsp' = rsp
      BY <1>3, <2>c DEF AcceptReq
    <3>3. d_mem_req.op # "none" /\ (~d_mem_req.cacheable => d_mem_req.op \in {"LW", "SW"})
      BY <2>c DEF BusInv, LatchInv, FsmInv, WaitState
    <3>4. BusInv'
      BY <1>a, <2>a, <2>c, <3>1, <3>2, <3>3 DEF BusInv, LatchInv, AnswerInv, ServeInv, OpInv,
         Matches
    <3>5. GoneInv'
      BY <2>a, <3>1, <3>2 DEF GoneInv
    <3> QED
      BY <3>4, <3>5
  <2>1. BusInv' /\ GoneInv'
    BY <2>a, <2>b, <2>c
  <2>2. ProbeInv'
    BY <1>3, <1>a DEF AcceptReq, ProbeInv, NeedProbe, Alias, SnoopProbe, VictimProbe, Hit,
       Resident, Idx, NoCopy, NoCopyAt, HitAt
  <2>3. FillInv'
    BY <1>3, <1>a DEF AcceptReq, FillInv, RspToL1D, BusInv, ServeInv, Matches
  <2>5. FsmInv' /\ TokenInv'
    BY <1>3, <1>a DEF AcceptReq, FsmInv, TokenInv, Eff, InWalk, InPage, InLine, ProbePending
  <2>6. Presence' /\ PlaceInv'
    BY <1>3, <1>a, <1>b DEF AcceptReq, l2Vars, Presence, PlaceInv
  <2> QED
    BY <1>j, <2>1, <2>2, <2>3, <2>5, <2>6
<1>4. CASE ProbeIssue
  <2>1. BusInv'
    BY <1>4, <1>a DEF ProbeIssue, l2Vars, BusInv, LatchInv, AnswerInv, ServeInv, OpInv, Matches
  <2>2. ProbeInv'
    BY <1>4, <1>a DEF ProbeIssue, l2Vars, ProbeInv, NeedProbe, Alias, SnoopProbe, VictimProbe,
       Hit, Resident, Idx, NoCopy, NoCopyAt, HitAt
  <2>3. FillInv'
    BY <1>4, <1>a DEF ProbeIssue, l2Vars, FillInv, RspToL1D, BusInv, ServeInv, Matches
  <2>4. GoneInv'
    BY <1>4, <1>a, <1>b DEF ProbeIssue, l2Vars, GoneInv, Idx, NoCopy, NoCopyAt, HitAt
  <2>5. FsmInv' /\ TokenInv'
    BY <1>4, <1>a DEF ProbeIssue, l2Vars, FsmInv, TokenInv, Eff, InWalk, InPage, InLine,
       ProbePending
  <2>6. Presence' /\ PlaceInv'
    BY <1>4, <1>a, <1>b DEF ProbeIssue, l2Vars, Presence, PlaceInv
  <2> QED
    BY <1>j, <2>1, <2>2, <2>3, <2>4, <2>5, <2>6
<1>5. CASE ProbeAnswered
  <2>a. NoCopyAt(Idx)
    <3>1. NoCopy(l2_tag[Idx])
      BY <1>5 DEF ProbeAnswered, ProbeInv, Resident
    <3>2. \A t \in DSet : d_valid[t] /\ L2Of[d_tag[t]] = Idx => d_tag[t] = l2_tag[Idx]
      BY DEF Presence
    <3> QED
      BY <3>1, <3>2 DEF NoCopy, NoCopyAt, HitAt
  <2>b. NoCopyAt(Idx)'
    BY <1>5, <1>a, <2>a DEF ProbeAnswered, NoCopyAt, Idx
  <2>1. BusInv'
    BY <1>5, <1>a DEF ProbeAnswered, NoProbe, NoAck, BusInv, LatchInv, AnswerInv, ServeInv, OpInv,
       Matches
  <2>2. ProbeInv'
    BY <1>5, <1>a, <2>b DEF ProbeAnswered, ProbeInv, NoProbe, NoAck
  <2>3. FillInv'
    BY <1>5, <1>a DEF ProbeAnswered, NoProbe, NoAck, FillInv, RspToL1D, BusInv, ServeInv, Matches
  <2>4. GoneInv'
    BY <1>5, <1>a, <1>b DEF ProbeAnswered, NoProbe, NoAck, GoneInv, Idx, NoCopy, NoCopyAt, HitAt
  <2>5. FsmInv' /\ TokenInv'
    BY <1>5, <1>a DEF ProbeAnswered, NoProbe, NoAck, FsmInv, TokenInv, Eff, InWalk, InPage,
       InLine, ProbePending
  <2>6. Presence' /\ PlaceInv'
    BY <1>5, <1>a, <1>b DEF ProbeAnswered, l2Vars, Presence, PlaceInv
  <2> QED
    BY <1>j, <2>1, <2>2, <2>3, <2>4, <2>5, <2>6
<1>6. CASE UncachedPurge
  <2>a. Hit => NoCopyAt(Idx)
    <3>1. CASE arb_state = "GNT_L1D" /\ Matches
      <4>1. NoCopy(l2_r.line)
        BY <1>6, <3>1, RegTypes DEF UncachedPurge, Matches, RequestInv, BusInv, OpInv
      <4> QED
        BY <4>1, HitGone
    <3>2. CASE <<l2_r.line, FALSE>> \in IFetch
      <4>1. NoCopy(l2_r.line)
        BY <3>2 DEF NoUncachedSynonym, PlaceInv, NoCopy, HitAt
      <4> QED
        BY <4>1, HitGone
    <3> QED
      BY <1>6, <3>1, <3>2 DEF UncachedPurge, BusInv, ServeInv, OpInv
  <2>1. BusInv'
    BY <1>6, <1>a DEF UncachedPurge, DropIf, Drop, Writeback, BusInv, LatchInv, AnswerInv,
       ServeInv, OpInv, Matches
  <2>2. ProbeInv'
    BY <1>6, <1>a DEF UncachedPurge, DropIf, Drop, Writeback, ProbeInv, NeedProbe, Alias,
       SnoopProbe, VictimProbe, Hit, Resident, Idx, NoCopy, NoCopyAt, HitAt
  <2>3. FillInv'
    BY <1>6, <1>a DEF UncachedPurge, DropIf, Drop, Writeback, FillInv, RspToL1D, BusInv, ServeInv,
       Matches
  <2>4. GoneInv'
    BY <1>6, <1>a, <1>b DEF UncachedPurge, DropIf, Drop, Writeback, GoneInv, Idx, NoCopy,
       NoCopyAt, HitAt
  <2>5. FsmInv' /\ TokenInv'
    BY <1>6, <1>a DEF UncachedPurge, DropIf, Drop, Writeback, FsmInv, TokenInv, Eff, InWalk,
       InPage, InLine, ProbePending
  <2>6. Presence' /\ PlaceInv'
    BY <1>6, <1>a, <1>b, <2>a, DropIfKeeps DEF UncachedPurge
  <2> QED
    BY <1>j, <2>1, <2>2, <2>3, <2>4, <2>5, <2>6
<1>7. CASE Invl
  <2>a. Hit => NoCopyAt(Idx)
    <3> SUFFICES ASSUME Hit, ~l2_prb.done PROVE NoCopy(l2_r.line)
      BY HitGone, UnmarkedGone
    <3>1. Matches /\ l2_r.op = "INVL" /\ ~Alias
      BY <1>7 DEF Invl, NeedProbe, BusInv, ServeInv
    <3> SUFFICES ASSUME NEW t \in DSet, HitAt(t, l2_r.line) PROVE FALSE
      BY DEF NoCopy
    <3>2. l2_pd[Idx] /\ l2_pidx[Idx] = ColourOf[t]
      BY DEF HitAt, Presence, Idx
    <3>3. ColourOf[t] = l2_r.colour
      BY <3>1, <3>2 DEF Alias, Matches
    <3> QED
      BY <3>1, <3>3, CopyHome, RegTypes DEF Matches, RequestInv
  <2>1. BusInv'
    BY <1>7, <1>a DEF Invl, DropIf, Drop, Writeback, BusInv, LatchInv, AnswerInv, ServeInv, OpInv,
       Matches
  <2>2. ProbeInv'
    BY <1>7, <1>a DEF Invl, DropIf, Drop, Writeback, ProbeInv, NeedProbe, Alias, SnoopProbe,
       VictimProbe, Hit, Resident, Idx, NoCopy, NoCopyAt, HitAt
  <2>3. FillInv'
    BY <1>7, <1>a DEF Invl, DropIf, Drop, Writeback, FillInv, RspToL1D, BusInv, ServeInv, Matches
  <2>4. GoneInv'
    BY <1>7, <1>a, <1>b DEF Invl, DropIf, Drop, Writeback, GoneInv, Idx, NoCopy, NoCopyAt, HitAt
  <2>5. FsmInv' /\ TokenInv'
    BY <1>7, <1>a DEF Invl, DropIf, Drop, Writeback, FsmInv, TokenInv, Eff, InWalk, InPage,
       InLine, ProbePending
  <2>6. Presence' /\ PlaceInv'
    BY <1>7, <1>a, <1>b, <2>a, DropIfKeeps DEF Invl
  <2> QED
    BY <1>j, <2>1, <2>2, <2>3, <2>4, <2>5, <2>6
<1>8. CASE PgDrop
  <2>a. Hit => NoCopyAt(Idx)
    <3> SUFFICES ASSUME Hit, ~l2_prb.done PROVE NoCopy(l2_r.line)
      BY HitGone, UnmarkedGone
    <3>1. Matches /\ l2_r.op = "PGDROP" /\ ~Alias
      BY <1>8 DEF PgDrop, NeedProbe, BusInv, ServeInv
    <3> SUFFICES ASSUME NEW t \in DSet, HitAt(t, l2_r.line) PROVE FALSE
      BY DEF NoCopy
    <3>2. l2_pd[Idx] /\ l2_pidx[Idx] = ColourOf[t]
      BY DEF HitAt, Presence, Idx
    <3>3. ColourOf[t] = l2_r.colour
      BY <3>1, <3>2 DEF Alias, Matches
    <3> QED
      BY <3>1, <3>3, CopyHome, RegTypes DEF Matches, RequestInv
  <2>1. BusInv'
    BY <1>8, <1>a DEF PgDrop, DropIf, Drop, Writeback, BusInv, LatchInv, AnswerInv, ServeInv,
       OpInv, Matches
  <2>2. ProbeInv'
    BY <1>8, <1>a DEF PgDrop, DropIf, Drop, Writeback, ProbeInv, NeedProbe, Alias, SnoopProbe,
       VictimProbe, Hit, Resident, Idx, NoCopy, NoCopyAt, HitAt
  <2>3. FillInv'
    BY <1>8, <1>a DEF PgDrop, DropIf, Drop, Writeback, FillInv, RspToL1D, BusInv, ServeInv,
       Matches
  <2>4. GoneInv'
    BY <1>8, <1>a, <1>b DEF PgDrop, DropIf, Drop, Writeback, GoneInv, Idx, NoCopy, NoCopyAt, HitAt
  <2>5. FsmInv' /\ TokenInv'
    BY <1>8, <1>a DEF PgDrop, DropIf, Drop, Writeback, FsmInv, TokenInv, Eff, InWalk, InPage,
       InLine, ProbePending
  <2>6. Presence' /\ PlaceInv'
    BY <1>8, <1>a, <1>b, <2>a, DropIfKeeps DEF PgDrop
  <2> QED
    BY <1>j, <2>1, <2>2, <2>3, <2>4, <2>5, <2>6
<1>9. CASE SnoopWbinv
  <2>a. Hit => NoCopyAt(Idx)
    BY <1>9, UnmarkedGone DEF SnoopWbinv, NeedProbe, SnoopProbe
  <2>1. BusInv'
    BY <1>9, <1>a DEF SnoopWbinv, DropIf, Drop, Writeback, BusInv, LatchInv, AnswerInv, ServeInv,
       OpInv, Matches
  <2>2. ProbeInv'
    BY <1>9, <1>a DEF SnoopWbinv, DropIf, Drop, Writeback, ProbeInv, NeedProbe, Alias, SnoopProbe,
       VictimProbe, Hit, Resident, Idx, NoCopy, NoCopyAt, HitAt
  <2>3. FillInv'
    BY <1>9, <1>a DEF SnoopWbinv, DropIf, Drop, Writeback, FillInv, RspToL1D, BusInv, ServeInv,
       Matches
  <2>4. GoneInv'
    BY <1>9, <1>a, <1>b DEF SnoopWbinv, DropIf, Drop, Writeback, GoneInv, Idx, NoCopy, NoCopyAt,
       HitAt
  <2>5. FsmInv' /\ TokenInv'
    BY <1>9, <1>a DEF SnoopWbinv, DropIf, Drop, Writeback, FsmInv, TokenInv, Eff, InWalk, InPage,
       InLine, ProbePending
  <2>6. Presence' /\ PlaceInv'
    BY <1>9, <1>a, <1>b, <2>a, DropIfKeeps DEF SnoopWbinv
  <2> QED
    BY <1>j, <2>1, <2>2, <2>3, <2>4, <2>5, <2>6
<1>10. CASE SnoopDrop
  <2>a. Hit => NoCopyAt(Idx)
    BY <1>10, UnmarkedGone DEF SnoopDrop, NeedProbe, SnoopProbe
  <2>1. BusInv'
    BY <1>10, <1>a DEF SnoopDrop, DropIf, Drop, Writeback, BusInv, LatchInv, AnswerInv, ServeInv,
       OpInv, Matches
  <2>2. ProbeInv'
    BY <1>10, <1>a DEF SnoopDrop, DropIf, Drop, Writeback, ProbeInv, NeedProbe, Alias, SnoopProbe,
       VictimProbe, Hit, Resident, Idx, NoCopy, NoCopyAt, HitAt
  <2>3. FillInv'
    BY <1>10, <1>a DEF SnoopDrop, DropIf, Drop, Writeback, FillInv, RspToL1D, BusInv, ServeInv,
       Matches
  <2>4. GoneInv'
    BY <1>10, <1>a, <1>b DEF SnoopDrop, DropIf, Drop, Writeback, GoneInv, Idx, NoCopy, NoCopyAt,
       HitAt
  <2>5. FsmInv' /\ TokenInv'
    BY <1>10, <1>a DEF SnoopDrop, DropIf, Drop, Writeback, FsmInv, TokenInv, Eff, InWalk, InPage,
       InLine, ProbePending
  <2>6. Presence' /\ PlaceInv'
    BY <1>10, <1>a, <1>b, <2>a, DropIfKeeps DEF SnoopDrop
  <2> QED
    BY <1>j, <2>1, <2>2, <2>3, <2>4, <2>5, <2>6
<1>11. CASE WriteThrough
  <2>a. Hit => NoCopyAt(Idx)
    BY <1>11, HitGone DEF WriteThrough, BusInv, ServeInv, Matches, RequestInv
  <2>1. BusInv'
    BY <1>11, <1>a DEF WriteThrough, BusInv, LatchInv, AnswerInv, ServeInv, OpInv, Matches
  <2>2. ProbeInv'
    BY <1>11, <1>a DEF WriteThrough, ProbeInv, NeedProbe, Alias, SnoopProbe, VictimProbe, Hit,
       Resident, Idx, NoCopy, NoCopyAt, HitAt
  <2>3. FillInv'
    BY <1>11, <1>a DEF WriteThrough, FillInv, RspToL1D, BusInv, ServeInv, Matches
  <2>4. GoneInv'
    BY <1>11, <1>a, <1>b DEF WriteThrough, GoneInv, Idx, NoCopy, NoCopyAt, HitAt
  <2>5. FsmInv' /\ TokenInv'
    BY <1>11, <1>a DEF WriteThrough, FsmInv, TokenInv, Eff, InWalk, InPage, InLine, ProbePending
  <2>6. Presence' /\ PlaceInv'
    <3>1. CASE Hit
      BY <1>11, <1>a, <1>b, <2>a, <3>1, DropKeeps DEF WriteThrough
    <3>2. CASE ~Hit
      BY <1>11, <1>a, <3>2 DEF WriteThrough, Presence, PlaceInv
    <3> QED
      BY <3>1, <3>2
  <2> QED
    BY <1>j, <2>1, <2>2, <2>3, <2>4, <2>5, <2>6
<1>12. CASE WriteHit
  <2>a. NoCopyAt(Idx)
    BY <1>12, <1>a, HitGone DEF WriteHit, WriteLine, GoneInv
  <2>1. BusInv'
    BY <1>12, <1>a DEF WriteHit, WriteLine, BusInv, LatchInv, AnswerInv, ServeInv, OpInv, Matches
  <2>2. ProbeInv'
    BY <1>12, <1>a DEF WriteHit, WriteLine, ProbeInv, NeedProbe, Alias, SnoopProbe, VictimProbe,
       Hit, Resident, Idx, NoCopy, NoCopyAt, HitAt
  <2>3. FillInv'
    BY <1>12, <1>a DEF WriteHit, WriteLine, FillInv, RspToL1D, BusInv, ServeInv, Matches
  <2>4. GoneInv'
    BY <1>12, <1>a, <1>b DEF WriteHit, WriteLine, GoneInv, Idx, NoCopy, NoCopyAt, HitAt
  <2>5. FsmInv' /\ TokenInv'
    BY <1>12, <1>a DEF WriteHit, WriteLine, FsmInv, TokenInv, Eff, InWalk, InPage, InLine,
       ProbePending
  <2>6. Presence' /\ PlaceInv'
    BY <1>12, <1>a, <1>b, <2>a, ArrayTypes DEF WriteHit, WriteLine, Presence, PlaceInv, NoCopyAt
  <2> QED
    BY <1>j, <2>1, <2>2, <2>3, <2>4, <2>5, <2>6
<1>13. CASE ReadHit
  <2>a. l2_r.from_d => \A t \in DSet : d_valid[t] /\ L2Of[d_tag[t]] = Idx => ColourOf[t] = l2_r.colour
    <3>1. CASE l2_prb.done
      BY <3>1, UnmarkedGone DEF NoCopyAt
    <3>2. CASE ~l2_prb.done
      BY <1>13, <3>2 DEF ReadHit, NeedProbe, Alias, Presence
    <3> QED
      BY <3>1, <3>2
  <2>1. BusInv'
    BY <1>13, <1>a DEF ReadHit, MarkPresent, BusInv, LatchInv, AnswerInv, ServeInv, OpInv, Matches
  <2>2. ProbeInv'
    BY <1>13, <1>a DEF ReadHit, MarkPresent, ProbeInv, NeedProbe, Alias, SnoopProbe, VictimProbe,
       Hit, Resident, Idx, NoCopy, NoCopyAt, HitAt
  <2>3. FillInv'
    <3> SUFFICES ASSUME arb_state = "GNT_L1D"
                 PROVE  /\ d_mem_req.line = l2_r.line /\ d_mem_req.colour = l2_r.colour /\ l2_r.from_d
                        /\ l2_valid'[Idx] /\ l2_tag'[Idx] = l2_r.line /\ l2_pd'[Idx] /\ l2_pidx'[Idx] = l2_r.colour
      BY <1>a DEF FillInv, RspToL1D, Idx
    <3>1. Matches
      BY <1>13 DEF ReadHit, BusInv, ServeInv
    <3> QED
      BY <1>13, <1>b, <3>1, ArrayTypes DEF Matches, ReadHit, Hit, Resident, MarkPresent
  <2>4. GoneInv'
    BY <1>13, <1>a, <1>b DEF ReadHit, MarkPresent, GoneInv, Idx, NoCopy, NoCopyAt, HitAt
  <2>5. FsmInv' /\ TokenInv'
    BY <1>13, <1>a DEF ReadHit, MarkPresent, FsmInv, TokenInv, Eff, InWalk, InPage, InLine,
       ProbePending
  <2>6. Presence' /\ PlaceInv'
    <3>1. UNCHANGED <<l2_valid, l2_tag, d_valid, d_dirty, d_tag>>
      BY <1>13, <1>a DEF ReadHit
    <3>2. PlaceInv'
      BY <3>1 DEF PlaceInv
    <3>3. \A t \in DSet : d_valid[t] => l2_pd'[L2Of[d_tag[t]]] /\ l2_pidx'[L2Of[d_tag[t]]] = ColourOf[t]
      <4> SUFFICES ASSUME NEW t \in DSet, d_valid[t]
                   PROVE  l2_pd'[L2Of[d_tag[t]]] /\ l2_pidx'[L2Of[d_tag[t]]] = ColourOf[t]
        OBVIOUS
      <4>1. l2_pd[L2Of[d_tag[t]]] /\ l2_pidx[L2Of[d_tag[t]]] = ColourOf[t] /\ L2Of[d_tag[t]] \in L2Idx
        BY ArrayTypes, IndexAssumption DEF Presence
      <4>2. CASE l2_r.from_d
        BY <1>13, <1>b, <2>a, <4>1, <4>2, ArrayTypes DEF ReadHit, MarkPresent
      <4>3. CASE ~l2_r.from_d
        BY <1>13, <4>1, <4>3 DEF ReadHit, MarkPresent
      <4> QED
        BY <4>2, <4>3
    <3>4. Presence'
      BY <3>1, <3>3 DEF Presence
    <3> QED
      BY <3>2, <3>4
  <2> QED
    BY <1>j, <2>1, <2>2, <2>3, <2>4, <2>5, <2>6
<1>14. CASE Evict
  <2>a. NoCopyAt(Idx)
    BY <1>14, UnmarkedGone DEF Evict, NeedProbe, VictimProbe
  <2>1. BusInv'
    BY <1>14, <1>a, <2>a DEF Evict, Writeback, BusInv, LatchInv, AnswerInv, ServeInv, OpInv,
       Matches
  <2>2. ProbeInv'
    BY <1>14, <1>a, <2>a DEF Evict, Writeback, ProbeInv, NeedProbe, Alias, SnoopProbe,
       VictimProbe, Hit, Resident, Idx, NoCopy, NoCopyAt, HitAt
  <2>3. FillInv'
    BY <1>14, <1>a, <2>a DEF Evict, Writeback, FillInv, RspToL1D, BusInv, ServeInv, Matches
  <2>4. GoneInv'
    BY <1>14, <1>a, <1>b, <2>a DEF Evict, Writeback, GoneInv, Idx, NoCopy, NoCopyAt, HitAt
  <2>5. FsmInv' /\ TokenInv'
    BY <1>14, <1>a DEF Evict, Writeback, FsmInv, TokenInv, Eff, InWalk, InPage, InLine,
       ProbePending
  <2>6. Presence' /\ PlaceInv'
    BY <1>14, <1>a, <1>b, <2>a DEF Evict, l2Vars, Presence, PlaceInv
  <2> QED
    BY <1>j, <2>1, <2>2, <2>3, <2>4, <2>5, <2>6
<1>15. CASE StartReload
  <2>a. NoCopyAt(Idx)
    BY <1>15, UnmarkedGone DEF StartReload, NeedProbe, VictimProbe
  <2>1. BusInv'
    BY <1>15, <1>a, <2>a DEF StartReload, Writeback, BusInv, LatchInv, AnswerInv, ServeInv, OpInv,
       Matches
  <2>2. ProbeInv'
    BY <1>15, <1>a, <2>a DEF StartReload, Writeback, ProbeInv, NeedProbe, Alias, SnoopProbe,
       VictimProbe, Hit, Resident, Idx, NoCopy, NoCopyAt, HitAt
  <2>3. FillInv'
    BY <1>15, <1>a, <2>a DEF StartReload, Writeback, FillInv, RspToL1D, BusInv, ServeInv, Matches
  <2>4. GoneInv'
    BY <1>15, <1>a, <1>b, <2>a DEF StartReload, Writeback, GoneInv, Idx, NoCopy, NoCopyAt, HitAt
  <2>5. FsmInv' /\ TokenInv'
    BY <1>15, <1>a DEF StartReload, Writeback, FsmInv, TokenInv, Eff, InWalk, InPage, InLine,
       ProbePending
  <2>6. Presence' /\ PlaceInv'
    BY <1>15, <1>a, <1>b, <2>a DEF StartReload, l2Vars, Presence, PlaceInv
  <2> QED
    BY <1>j, <2>1, <2>2, <2>3, <2>4, <2>5, <2>6
<1>16. CASE DirtyStore
  <2>1. BusInv'
    BY <1>16, <1>a DEF DirtyStore, BusInv, LatchInv, AnswerInv, ServeInv, OpInv, Matches
  <2>2. ProbeInv'
    BY <1>16, <1>a DEF DirtyStore, ProbeInv, NeedProbe, Alias, SnoopProbe, VictimProbe, Hit,
       Resident, Idx, NoCopy, NoCopyAt, HitAt
  <2>3. FillInv'
    BY <1>16, <1>a DEF DirtyStore, FillInv, RspToL1D, BusInv, ServeInv, Matches
  <2>4. GoneInv'
    BY <1>16, <1>a, <1>b DEF DirtyStore, GoneInv, Idx, NoCopy, NoCopyAt, HitAt
  <2>5. FsmInv' /\ TokenInv'
    BY <1>16, <1>a DEF DirtyStore, FsmInv, TokenInv, Eff, InWalk, InPage, InLine, ProbePending
  <2>6. Presence' /\ PlaceInv'
    BY <1>16, <1>a, <1>b DEF DirtyStore, l2Vars, Presence, PlaceInv
  <2> QED
    BY <1>j, <2>1, <2>2, <2>3, <2>4, <2>5, <2>6
<1>17. CASE CleanReload
  <2>a. NoCopyAt(Idx)
    BY <1>17 DEF CleanReload, GoneInv
  <2>1. BusInv'
    BY <1>17, <1>a DEF CleanReload, InstallTag, BusInv, LatchInv, AnswerInv, ServeInv, OpInv,
       Matches
  <2>2. ProbeInv'
    BY <1>17, <1>a DEF CleanReload, InstallTag, ProbeInv, NeedProbe, Alias, SnoopProbe,
       VictimProbe, Hit, Resident, Idx, NoCopy, NoCopyAt, HitAt
  <2>3. FillInv'
    BY <1>17, <1>a DEF CleanReload, InstallTag, FillInv, RspToL1D, BusInv, ServeInv, Matches
  <2>4. GoneInv'
    BY <1>17, <1>a, <1>b DEF CleanReload, InstallTag, GoneInv, Idx, NoCopy, NoCopyAt, HitAt
  <2>5. FsmInv' /\ TokenInv'
    BY <1>17, <1>a DEF CleanReload, InstallTag, FsmInv, TokenInv, Eff, InWalk, InPage, InLine,
       ProbePending
  <2>6. Presence' /\ PlaceInv'
    <3>1. Presence'
      BY <1>17, <1>a, <1>b, <2>a, ArrayTypes, IndexAssumption DEF CleanReload, InstallTag,
         Presence, NoCopyAt
    <3>2. PlaceInv'
      BY <1>17, <1>a, <1>b, ArrayTypes, RegTypes DEF CleanReload, InstallTag, PlaceInv, Idx
    <3> QED
      BY <3>1, <3>2
  <2> QED
    BY <1>j, <2>1, <2>2, <2>3, <2>4, <2>5, <2>6
<1>18. CASE UncacheStore
  <2>1. BusInv'
    BY <1>18, <1>a DEF UncacheStore, BusInv, LatchInv, AnswerInv, ServeInv, OpInv, Matches,
       TypeOK, L2TypeOK, L2Req
  <2>2. ProbeInv'
    BY <1>18, <1>a DEF UncacheStore, ProbeInv, NeedProbe, Alias, SnoopProbe, VictimProbe, Hit,
       Resident, Idx, NoCopy, NoCopyAt, HitAt
  <2>3. FillInv'
    BY <1>18, <1>a DEF UncacheStore, FillInv, RspToL1D, BusInv, ServeInv, Matches, OpInv
  <2>4. GoneInv'
    BY <1>18, <1>a, <1>b DEF UncacheStore, GoneInv, Idx, NoCopy, NoCopyAt, HitAt
  <2>5. FsmInv' /\ TokenInv'
    BY <1>18, <1>a DEF UncacheStore, FsmInv, TokenInv, Eff, InWalk, InPage, InLine, ProbePending
  <2>6. Presence' /\ PlaceInv'
    BY <1>18, <1>a, <1>b DEF UncacheStore, l2Vars, Presence, PlaceInv
  <2> QED
    BY <1>j, <2>1, <2>2, <2>3, <2>4, <2>5, <2>6
<1>19. CASE UncacheLoad
  <2>1. BusInv'
    BY <1>19, <1>a DEF UncacheLoad, BusInv, LatchInv, AnswerInv, ServeInv, OpInv, Matches, TypeOK,
       L2TypeOK, L2Req
  <2>2. ProbeInv'
    BY <1>19, <1>a DEF UncacheLoad, ProbeInv, NeedProbe, Alias, SnoopProbe, VictimProbe, Hit,
       Resident, Idx, NoCopy, NoCopyAt, HitAt
  <2>3. FillInv'
    BY <1>19, <1>a DEF UncacheLoad, FillInv, RspToL1D, BusInv, ServeInv, Matches, OpInv
  <2>4. GoneInv'
    BY <1>19, <1>a, <1>b DEF UncacheLoad, GoneInv, Idx, NoCopy, NoCopyAt, HitAt
  <2>5. FsmInv' /\ TokenInv'
    BY <1>19, <1>a DEF UncacheLoad, FsmInv, TokenInv, Eff, InWalk, InPage, InLine, ProbePending
  <2>6. Presence' /\ PlaceInv'
    BY <1>19, <1>a, <1>b DEF UncacheLoad, l2Vars, Presence, PlaceInv
  <2> QED
    BY <1>j, <2>1, <2>2, <2>3, <2>4, <2>5, <2>6
<1>20. CASE WbDrain
  <2>a. UNCHANGED r_req
    BY <1>20 DEF WbDrain
  <2>b. ASSUME l2_state' = "IDLE" PROVE BusInv'
    <3>1. l2_r' = NoL2Req /\ l2_r'.op = "none" /\ ~l2_r'.uncached
      <4>1. l2_r' = NoL2Req
        BY <1>20, <2>b DEF WbDrain
      <4> QED
        BY <4>1
    <3>2. rsp'.valid => ~r_req /\ arb_state # "IDLE"
      BY <1>20, <1>a DEF WbDrain, BusInv, ServeInv, OpInv
    <3> QED
      BY <1>a, <2>a, <2>b, <3>1, <3>2 DEF BusInv, LatchInv, AnswerInv, ServeInv, OpInv
  <2>c. ASSUME l2_state' # "IDLE" PROVE BusInv'
    <3>1. /\ l2_r.uncached /\ UNCHANGED <<l2_r, rsp>> /\ l2_state = "UNCACHE_WB_DRAIN"
          /\ l2_state' \in {"UNCACHE_STORE", "UNCACHE_LOAD"}
      BY <1>20, <2>c DEF WbDrain
    <3> QED
      BY <1>a, <2>a, <3>1 DEF BusInv, LatchInv, AnswerInv, ServeInv, OpInv, Matches
  <2>1. BusInv'
    BY <2>b, <2>c
  <2>2. ProbeInv'
    BY <1>20, <1>a DEF WbDrain, ProbeInv, NeedProbe, Alias, SnoopProbe, VictimProbe, Hit,
       Resident, Idx, NoCopy, NoCopyAt, HitAt
  <2>3. FillInv'
    BY <1>20, <1>a DEF WbDrain, FillInv, RspToL1D, BusInv, ServeInv, Matches, OpInv
  <2>4. GoneInv'
    BY <1>20, <1>a, <1>b DEF WbDrain, GoneInv, Idx, NoCopy, NoCopyAt, HitAt
  <2>5. FsmInv' /\ TokenInv'
    BY <1>20, <1>a DEF WbDrain, FsmInv, TokenInv, Eff, InWalk, InPage, InLine, ProbePending
  <2>6. Presence' /\ PlaceInv'
    BY <1>20, <1>a, <1>b DEF WbDrain, l2Vars, Presence, PlaceInv
  <2> QED
    BY <1>j, <2>1, <2>2, <2>3, <2>4, <2>5, <2>6
<1>21. CASE FlushTriage
  <2>a. NoCopyAt(l2_idx) /\ l2_idx \in L2Idx
    BY <1>21 DEF FlushTriage, TokenInv, WalkInv, Empty, NoCopyAt, TypeOK, L2TypeOK
  <2>1. BusInv'
    BY <1>21, <1>a DEF FlushTriage, Drop, WalkOn, BusInv, LatchInv, AnswerInv, ServeInv, OpInv,
       Matches
  <2>2. ProbeInv'
    BY <1>21, <1>a DEF FlushTriage, Drop, WalkOn, ProbeInv, NeedProbe, Alias, SnoopProbe,
       VictimProbe, Hit, Resident, Idx, NoCopy, NoCopyAt, HitAt
  <2>3. FillInv'
    BY <1>21, <1>a DEF FlushTriage, Drop, WalkOn, FillInv, RspToL1D, BusInv, ServeInv, Matches
  <2>4. GoneInv'
    BY <1>21, <1>a, <1>b DEF FlushTriage, Drop, WalkOn, GoneInv, Idx, NoCopy, NoCopyAt, HitAt
  <2>5. FsmInv' /\ TokenInv'
    BY <1>21, <1>a DEF FlushTriage, Drop, WalkOn, FsmInv, TokenInv, Eff, InWalk, InPage, InLine,
       ProbePending
  <2>6. Presence' /\ PlaceInv'
    BY <1>21, <1>a, <1>b, <2>a, DropKeeps DEF FlushTriage, Drop, TypeOK, L2TypeOK
  <2> QED
    BY <1>j, <2>1, <2>2, <2>3, <2>4, <2>5, <2>6
<1>22. CASE FlushStore
  <2>1. BusInv'
    BY <1>22, <1>a DEF FlushStore, WalkOn, BusInv, LatchInv, AnswerInv, ServeInv, OpInv, Matches
  <2>2. ProbeInv'
    BY <1>22, <1>a DEF FlushStore, WalkOn, ProbeInv, NeedProbe, Alias, SnoopProbe, VictimProbe,
       Hit, Resident, Idx, NoCopy, NoCopyAt, HitAt
  <2>3. FillInv'
    BY <1>22, <1>a DEF FlushStore, WalkOn, FillInv, RspToL1D, BusInv, ServeInv, Matches
  <2>4. GoneInv'
    BY <1>22, <1>a, <1>b DEF FlushStore, WalkOn, GoneInv, Idx, NoCopy, NoCopyAt, HitAt
  <2>5. FsmInv' /\ TokenInv'
    BY <1>22, <1>a DEF FlushStore, WalkOn, FsmInv, TokenInv, Eff, InWalk, InPage, InLine,
       ProbePending
  <2>6. Presence' /\ PlaceInv'
    BY <1>22, <1>a, <1>b DEF FlushStore, l2Vars, Presence, PlaceInv
  <2> QED
    BY <1>j, <2>1, <2>2, <2>3, <2>4, <2>5, <2>6
<1> QED
  BY <1>1, <1>2, <1>3, <1>4, <1>5, <1>6, <1>7, <1>8, <1>9, <1>10, <1>11, <1>12, <1>13, <1>14,
     <1>15, <1>16, <1>17, <1>18, <1>19, <1>20, <1>21, <1>22 DEF L2Action

-----------------------------------------------------------------------------
(* The composition                                                         *)

\* Everything PresenceInv reads.
invVars == <<arb_state, r_l1d_req, r_l1i_req, r_req, d_mem_req, i_mem_req, rsp, probe, ack,
             d_state, d_prb_ret, d_got_req, d_req, d_valid, d_dirty, d_tag, d_cache_idx, d_flush_req,
             d_cl_is_dma, d_flush_complete, l2_state, l2_r, l2_prb, l2_valid, l2_tag, l2_pd, l2_pidx,
             l2_need_l1d, l2_flush_req, l2_flush_complete, core_op, core_l1d_done, core_l2_done>>

\* The parts of it the core's and the L1I's actions leave alone.
wireVars == <<arb_state, r_l1d_req, r_l1i_req, r_req, d_mem_req, i_mem_req, rsp, probe, ack,
              d_valid, d_tag, l2_state, l2_r, l2_prb, l2_valid, l2_tag, l2_pd, l2_pidx>>

LEMMA SameWires == ASSUME WireInv, UNCHANGED wireVars PROVE WireInv'
<1> USE DEF WireInv, wireVars
<1>1. BusInv' /\ FillInv'
  BY DEF BusInv, LatchInv, AnswerInv, ServeInv, OpInv, FillInv, RspToL1D, Busy, Posted, Serving,
     Matches
<1>2. ProbeInv' /\ GoneInv'
  BY DEF ProbeInv, GoneInv, Busy, Posted, NoCopy, NoCopyAt, HitAt, NeedProbe, Alias, SnoopProbe,
     VictimProbe, Hit, Resident, Idx
<1> QED
  BY <1>1, <1>2

LEMMA SamePlaces ==
    ASSUME PresenceInv, UNCHANGED <<d_valid, d_dirty, d_tag, d_mem_req, l2_valid, l2_tag, l2_pd, l2_pidx>>,
           Eff' = Eff
    PROVE  Presence' /\ PlaceInv' /\ RequestInv'
BY DEF PresenceInv, CopyInv, Presence, PlaceInv, RequestInv, NoCopy, HitAt

LEMMA SameInv == ASSUME PresenceInv, UNCHANGED invVars PROVE PresenceInv'
<1>1. UNCHANGED wireVars /\ Eff' = Eff
  BY DEF invVars, wireVars, Eff
<1>2. WireInv' /\ Presence' /\ PlaceInv' /\ RequestInv'
  BY <1>1, SameWires, SamePlaces DEF PresenceInv, CopyInv, WireInv, invVars
<1>3. LocalInv'
  BY <1>1 DEF PresenceInv, LocalInv, FsmInv, UseInv, TokenInv, WalkInv, InWalk, InPage, InLine,
     Empty, ProbePending, invVars
<1> QED
  BY <1>2, <1>3, Join

\* The core starts a flush only with no flush anywhere.
LEMMA StartFlushKeeps ==
    ASSUME PresenceInv, CoreIdle, NEW o \in {"cl", "pg", "all"}, NEW l, NEW i, StartFlush(o, l, i)
    PROVE  PresenceInv'
<1>1. UNCHANGED wireVars /\ UNCHANGED <<d_state, d_prb_ret, d_got_req, d_req, d_dirty, d_cache_idx, d_cl_is_dma>>
      /\ UNCHANGED <<d_flush_complete, core_l1d_done, l2_flush_req, l2_flush_complete>>
  BY DEF StartFlush, busVars, arbVars, dArrays, l2Arrays, wireVars
<1>2. WireInv' /\ Presence' /\ PlaceInv' /\ RequestInv' /\ Eff' = Eff
  BY <1>1, SameWires, SamePlaces DEF PresenceInv, CopyInv, WireInv, wireVars, Eff
<1>3. FsmInv' /\ UseInv'
  BY <1>1, <1>2 DEF PresenceInv, FsmInv, UseInv, ProbePending, wireVars
<1>4. /\ d_req.op = "none" /\ core_op = "none" /\ core_op' = o /\ d_flush_req' = o
      /\ core_l2_done' = (core_l2_done \/ o # "all") /\ l2_need_l1d' = (l2_need_l1d \/ o = "all")
  BY DEF CoreIdle, StartFlush
<1>5. /\ ~InWalk /\ ~InPage /\ ~InLine /\ ~d_flush_complete /\ ~core_l1d_done /\ ~core_l2_done
      /\ ~l2_need_l1d /\ ~l2_flush_req /\ ~l2_flush_complete
  BY <1>4 DEF PresenceInv, TokenInv
<1>6. TokenInv' /\ WalkInv'
  BY <1>1, <1>2, <1>4, <1>5 DEF PresenceInv, TokenInv, WalkInv, InWalk, InPage, InLine, wireVars
<1> QED
  BY <1>2, <1>3, <1>6, Join DEF LocalInv

LEMMA NextKeeps ==
    ASSUME NoUncachedSynonym, TypeOK, PresenceInv, [Next]_vars PROVE PresenceInv'
<1>1. CASE CpuAccept
  <2>1. PICK q \in [op : CpuOps, line : Line, colour : Colour, val : Val, full : BOOLEAN] : Legal(q) /\ Accept(q)
    BY <1>1 DEF CpuAccept
  <2>2. /\ UNCHANGED wireVars /\ UNCHANGED <<d_state, d_prb_ret, d_dirty, d_cache_idx, d_flush_req, d_cl_is_dma>>
        /\ UNCHANGED <<d_flush_complete, core_op, core_l1d_done, core_l2_done>>
        /\ UNCHANGED <<l2_need_l1d, l2_flush_req, l2_flush_complete>>
        /\ d_state = "ACTIVE" /\ core_op = "none" /\ d_got_req' = TRUE /\ d_req' = q
    BY <1>1, <2>1 DEF CpuAccept, Accept, quietBus, otherWires, arbVars, dArrays, dFlush, l2Vars,
       l2Arrays, l2Flush, coreVars, wireVars
  <2>3. WireInv' /\ Presence' /\ PlaceInv' /\ RequestInv' /\ Eff' = Eff
    BY <2>2, SameWires, SamePlaces DEF PresenceInv, CopyInv, WireInv, wireVars, Eff
  <2>4. UseInv'
    BY <2>1, <2>2 DEF PresenceInv, UseInv, Legal, wireVars
  <2>5. FsmInv' /\ TokenInv' /\ WalkInv'
    BY <2>2, <2>3 DEF PresenceInv, FsmInv, TokenInv, WalkInv, InWalk, InPage, InLine, Eff,
       WaitState, wireVars
  <2> QED
    BY <2>3, <2>4, <2>5, Join DEF LocalInv
<1>2. CASE CpuStore \/ CpuChopInvalidate \/ CpuFlushCl \/ SocDmaInval \/ L1DStep
  <2>1. L1DAction /\ l1dOnly
    BY <1>2 DEF CpuStore, CpuChopInvalidate, CpuFlushCl, SocDmaInval, L1DStep, L1DAction
  <2> QED
    BY <2>1, L1DKeeps DEF l1dOnly
<1>3. CASE L2Step \/ L2Store
  <2>1. L2Action /\ UNCHANGED <<l1dVars, coreVars>>
    BY <1>3 DEF L2Step, L2Store, L2Action
  <2> QED
    BY <2>1, L2Keeps
<1>4. CASE Arbiter
  <2>1. /\ UNCHANGED <<d_mem_req, i_mem_req, rsp, probe, ack>> /\ UNCHANGED l1dVars /\ UNCHANGED l2Vars
        /\ UNCHANGED coreVars
    BY <1>4 DEF Arbiter, ArbGrant
  <2>2. UNCHANGED <<d_valid, d_tag, d_dirty, l2_state, l2_r, l2_prb, l2_valid, l2_tag, l2_pd, l2_pidx>> /\ Eff' = Eff
    BY <2>1 DEF l1dVars, dArrays, l2Vars, l2Arrays, Eff
  <2>3. arb_state = "IDLE" /\ arb_state' \in {"GNT_L1D", "GNT_L1I"} /\ ~rsp.valid /\ ~Serving
    BY <1>4 DEF Arbiter, ArbGrant, PresenceInv, BusInv, LatchInv, ServeInv
  <2>4. LatchInv'
    BY <1>4, <2>1 DEF Arbiter, ArbGrant, Granted, PresenceInv, BusInv, LatchInv
  <2>5. AnswerInv' /\ ServeInv' /\ OpInv' /\ FillInv'
    BY <2>1, <2>2, <2>3 DEF PresenceInv, BusInv, AnswerInv, ServeInv, OpInv, FillInv, RspToL1D,
       Busy, Posted, Serving
  <2>6. ProbeInv' /\ GoneInv'
    BY <2>1, <2>2 DEF PresenceInv, CopyInv, ProbeInv, GoneInv, Busy, Posted, NoCopy, NoCopyAt,
       HitAt, NeedProbe, Alias, SnoopProbe, VictimProbe, Hit, Resident, Idx
  <2>7. Presence' /\ PlaceInv' /\ RequestInv'
    BY <2>1, <2>2, SamePlaces
  <2>8. LocalInv'
    BY <2>1, <2>2 DEF PresenceInv, LocalInv, FsmInv, UseInv, TokenInv, WalkInv, InWalk, InPage,
       InLine, Empty, ProbePending, l1dVars, l2Vars, l2Flush, dFlush, coreVars
  <2> QED
    BY <2>4, <2>5, <2>6, <2>7, <2>8, Join DEF WireInv, BusInv
<1>5. CASE FetchMiss \/ FetchReload
  <2>1. /\ UNCHANGED <<d_mem_req, probe, ack, r_l1d_req>> /\ UNCHANGED l1dVars /\ UNCHANGED l2Vars
        /\ UNCHANGED coreVars
    BY <1>5 DEF FetchMiss, FetchReload
  <2>2. UNCHANGED <<d_valid, d_tag, d_dirty, l2_state, l2_r, l2_prb, l2_valid, l2_tag, l2_pd, l2_pidx>> /\ Eff' = Eff
    BY <2>1 DEF l1dVars, dArrays, l2Vars, l2Arrays, Eff
  <2>3. \/ rsp' = rsp /\ arb_state' = arb_state /\ r_req' = r_req
        \/ ~rsp'.valid /\ arb_state' = "IDLE" /\ ~r_req' /\ ~Busy /\ ~probe.req /\ arb_state = "GNT_L1I"
    <3>1. CASE FetchMiss
      BY <3>1 DEF FetchMiss
    <3>2. CASE FetchReload
      <4>1. rsp.valid /\ arb_state = "GNT_L1I"
        BY <3>2 DEF FetchReload, RspToL1I
      <4>2. ~Busy /\ ~probe.req
        BY <4>1 DEF PresenceInv, BusInv, AnswerInv, ProbeInv, Busy
      <4> QED
        BY <3>2, <4>1, <4>2 DEF FetchReload, TakeRsp, NoRsp
    <3> QED
      BY <1>5, <3>1, <3>2
  <2>4. LatchInv'
    <3>1. CASE FetchMiss
      <4>1. PICK f \in IFetch : i_mem_req' = [valid |-> TRUE, line |-> f[1], cacheable |-> f[2]]
        BY <3>1 DEF FetchMiss
      <4>2. <<i_mem_req'.line, i_mem_req'.cacheable>> \in IFetch /\ i_mem_req'.valid
        BY <4>1, UseAssumption
      <4>3. UNCHANGED <<arb_state, r_req, rsp>> /\ ~i_mem_req.valid
        BY <3>1 DEF FetchMiss
      <4> QED
        BY <2>1, <4>2, <4>3 DEF PresenceInv, BusInv, LatchInv
    <3>2. CASE FetchReload
      BY <2>1, <3>2 DEF FetchReload, TakeRsp, NoIMemReq, NoRsp, RspToL1I, PresenceInv, BusInv,
         LatchInv
    <3> QED
      BY <1>5, <3>1, <3>2
  <2>5. AnswerInv' /\ ServeInv' /\ OpInv' /\ FillInv'
    BY <2>1, <2>2, <2>3 DEF PresenceInv, CopyInv, BusInv, AnswerInv, ServeInv, OpInv, FillInv,
       RspToL1D, Busy, Posted, Serving, Matches
  <2>6. ProbeInv' /\ GoneInv'
    BY <2>1, <2>2, <2>3 DEF PresenceInv, CopyInv, ProbeInv, GoneInv, Busy, Posted, NoCopy,
       NoCopyAt, HitAt, NeedProbe, Alias, SnoopProbe, VictimProbe, Hit, Resident, Idx
  <2>7. Presence' /\ PlaceInv' /\ RequestInv'
    BY <2>1, <2>2, SamePlaces
  <2>8. LocalInv'
    BY <2>1, <2>2 DEF PresenceInv, LocalInv, FsmInv, UseInv, TokenInv, WalkInv, InWalk, InPage,
       InLine, Empty, ProbePending, l1dVars, l2Vars, l2Flush, dFlush, coreVars
  <2> QED
    BY <2>4, <2>5, <2>6, <2>7, <2>8, Join DEF WireInv, BusInv
<1>6. CASE CoreFlush
  BY <1>6, StartFlushKeeps DEF CoreFlush
<1>7. CASE L1DFlushPulse \/ L2FlushPulse \/ CoreFlushEnd
  <2>1. UNCHANGED wireVars /\ UNCHANGED <<d_state, d_prb_ret, d_got_req, d_req, d_dirty, d_cache_idx, d_flush_req>>
        /\ UNCHANGED d_cl_is_dma
    BY <1>7 DEF L1DFlushPulse, L2FlushPulse, CoreFlushEnd, busVars, arbVars, l1dVars, dArrays,
       dFlush, l2Vars, l2Arrays, wireVars
  <2>2. WireInv' /\ Presence' /\ PlaceInv' /\ RequestInv' /\ Eff' = Eff
    BY <2>1, SameWires, SamePlaces DEF PresenceInv, CopyInv, WireInv, wireVars, Eff
  <2>3. FsmInv' /\ UseInv'
    BY <2>1, <2>2 DEF PresenceInv, FsmInv, UseInv, ProbePending, wireVars
  <2>4. CASE L1DFlushPulse
    <3>1. /\ d_flush_complete /\ ~d_flush_complete' /\ core_l1d_done' /\ UNCHANGED <<core_op, core_l2_done, l2_flush_complete>>
          /\ l2_need_l1d' = FALSE /\ l2_flush_req' = (l2_flush_req \/ l2_need_l1d)
      BY <2>4 DEF L1DFlushPulse, L1DFlushed
    <3>2. TokenInv' /\ WalkInv'
      BY <2>1, <2>2, <3>1 DEF PresenceInv, TokenInv, WalkInv, InWalk, InPage, InLine, Empty,
         wireVars
    <3> QED
      BY <2>2, <2>3, <3>2, Join DEF LocalInv
  <2>5. CASE L2FlushPulse
    <3>1. /\ l2_flush_complete /\ ~l2_flush_complete' /\ core_l2_done' /\ UNCHANGED <<core_op, core_l1d_done, d_flush_complete>>
          /\ UNCHANGED <<l2_need_l1d, l2_flush_req>>
      BY <2>5 DEF L2FlushPulse, l1dVars, dFlush
    <3>2. TokenInv' /\ WalkInv'
      BY <2>1, <2>2, <3>1 DEF PresenceInv, TokenInv, WalkInv, InWalk, InPage, InLine, Empty,
         wireVars
    <3> QED
      BY <2>2, <2>3, <3>2, Join DEF LocalInv
  <2>6. CASE CoreFlushEnd
    <3>1. /\ core_op # "none" /\ core_l1d_done /\ core_l2_done /\ core_op' = "none" /\ ~core_l1d_done' /\ ~core_l2_done'
          /\ UNCHANGED <<d_flush_complete, l2_need_l1d, l2_flush_req, l2_flush_complete>>
      BY <2>6 DEF CoreFlushEnd, FlushDone, l1dVars, dFlush, l2Vars, l2Flush
    <3>2. TokenInv' /\ WalkInv'
      BY <2>1, <2>2, <3>1 DEF PresenceInv, TokenInv, WalkInv, InWalk, InPage, InLine, Empty,
         wireVars
    <3> QED
      BY <2>2, <2>3, <3>2, Join DEF LocalInv
  <2> QED
    BY <1>7, <2>4, <2>5, <2>6
<1>8. CASE DmaBegin
  <2>1. CASE CoreIdle /\ \E l \in Line : StartFlush("pg", l, FALSE)
    BY <2>1, StartFlushKeeps
  <2>2. CASE UNCHANGED invVars
    BY <2>2, SameInv
  <2>3. \A x \in DmaXfers : x[3] \in Line
    BY UseAssumption
  <2> QED
    BY <1>8, <2>1, <2>2, <2>3 DEF DmaBegin, invVars, arbVars, l1dVars, dArrays, dFlush, l2Vars,
       l2Arrays, l2Flush, coreVars
<1>9. CASE SnoopEnd \/ DeviceRead \/ DeviceWrite \/ DmaInvalReq \/ UNCHANGED vars
  <2>1. UNCHANGED invVars
    BY <1>9 DEF SnoopEnd, DeviceRead, DeviceWrite, DmaInvalReq, vars, busVars, invVars, arbVars,
       l1dVars, dArrays, dFlush, l2Vars, l2Arrays, l2Flush, coreVars
  <2> QED
    BY <2>1, SameInv
<1>10. CASE DmaPageDrop
  BY <1>10, StartFlushKeeps DEF DmaPageDrop
<1> QED
  BY <1>1, <1>2, <1>3, <1>4, <1>5, <1>6, <1>7, <1>8, <1>9, <1>10 DEF Next

\* The invariant holds initially: nothing is valid and nothing is in flight.
LEMMA InitInv == Init => PresenceInv
<1> SUFFICES ASSUME Init PROVE PresenceInv
  OBVIOUS
<1> USE DEF Init, InterconnectInit, L1DInit, L2Init, NoMemReq, NoIMemReq, NoRsp, NoProbe, NoAck, NoReq, NoL2Req, NoPrb
<1>1. BusInv /\ FillInv /\ GoneInv /\ ProbeInv
  BY DEF BusInv, LatchInv, AnswerInv, ServeInv, OpInv, FillInv, RspToL1D, GoneInv, ProbeInv, Busy,
     Serving
<1>2. LocalInv
  BY DEF LocalInv, FsmInv, UseInv, TokenInv, WalkInv, InWalk, InPage, InLine, Eff, WaitState
<1>3. Presence /\ PlaceInv /\ RequestInv
  BY DEF Presence, PlaceInv, RequestInv
<1> QED
  BY <1>1, <1>2, <1>3 DEF PresenceInv, CopyInv, LocalInv

\* Inclusion with presence: whatever the sizes of the caches and the schedule of
\* requests, probes, flushes and snoops, a line in the L1D is in the L2, marked
\* present at its colour, provided software keeps to NoUncachedSynonym.
THEOREM PresenceHolds == ASSUME NoUncachedSynonym PROVE Spec => []Presence
<1>1. Init => TypeOK /\ PresenceInv
  BY InitTypes, InitInv
<1>2. TypeOK /\ PresenceInv /\ [Next]_vars => TypeOK' /\ PresenceInv'
  BY NextTypes, NextKeeps
<1>3. PresenceInv => Presence
  BY DEF PresenceInv, CopyInv
<1> QED
  BY <1>1, <1>2, <1>3, PTL DEF Spec

\* No two L1D sets hold the same physical line: the L2's alias probe makes the
\* virtually indexed cache synonym free.
THEOREM SynonymsExcluded == ASSUME NoUncachedSynonym PROVE Spec => []NoSynonym
<1>1. Init => TypeOK /\ PresenceInv
  BY InitTypes, InitInv
<1>2. TypeOK /\ PresenceInv /\ [Next]_vars => TypeOK' /\ PresenceInv'
  BY NextTypes, NextKeeps
<1>3. TypeOK /\ PresenceInv => NoSynonym
  BY SynonymFree DEF PresenceInv, CopyInv
<1> QED
  BY <1>1, <1>2, <1>3, PTL DEF Spec

\* A response pulse always finds the L1 that waits for it.
THEOREM ResponsesTaken == ASSUME NoUncachedSynonym PROVE Spec => []ResponseTaken
<1>1. Init => TypeOK /\ PresenceInv
  BY InitTypes, InitInv
<1>2. TypeOK /\ PresenceInv /\ [Next]_vars => TypeOK' /\ PresenceInv'
  BY NextTypes, NextKeeps
<1>3. PresenceInv => ResponseTaken
  BY DEF PresenceInv, BusInv, LatchInv, FsmInv, ProbeInv, ResponseTaken, RspToL1D, RspToL1I, Eff,
     ProbePending
<1> QED
  BY <1>1, <1>2, <1>3, PTL DEF Spec
=============================================================================
