----------------------------- MODULE IssProofs -----------------------------
(***************************************************************************)
(* Proofs about the reference interpreter's control and translation, for   *)
(* every TLB and micro-TLB size, page size and address width: type         *)
(* correctness, exactness of the micro-TLB, restartable exceptions, and    *)
(* that translation implements TlbSpec.                                    *)
(***************************************************************************)
EXTENDS Iss, WellFoundedInduction, TLAPS

Op == {"fetch", "load", "store"}

---------------------------------------------------------------------------
(* Arithmetic of addresses *)

(* A page number is below the number of pages of VA[31:0]. *)
LEMMA DivBelow ==
    ASSUME NEW w \in Nat, NEW k \in Nat \ {0}, NEW n \in Nat, w <= n * k - 1
    PROVE  w \div k \in 0..(n - 1)
<1> DEFINE q == w \div k
<1>1. q \in Nat /\ q * k <= w
  BY SMT
<1>2. q < n
  <2> SUFFICES ASSUME q >= n PROVE FALSE
    BY <1>1
  <2>1. q * k >= n * k
    BY <1>1, SMT
  <2> QED
    BY <1>1, <2>1, SMT
<1> QED
  BY <1>1, <1>2

(* Translation cuts an address into fields that stay in their ranges. *)
LEMMA VpnType == \A va \in VA : VpnOf(va) \in Vpn
<1> SUFFICES ASSUME NEW va \in VA PROVE VpnOf(va) \in Vpn
  OBVIOUS
<1>1. LoPages \in Nat /\ WPP \in Nat \ {0}
  BY FormatAssumption DEF LoPages
<1>2. va.w \in Nat /\ va.w <= LoPages * WPP - 1
  BY <1>1 DEF VA
<1>3. va.w \div WPP \in 0..(LoPages - 1)
  BY <1>1, <1>2, DivBelow
<1> QED
  BY <1>3 DEF VA, Vpn, VpnOf

(* Sign extension and the choice of addressing mode give addresses. *)
LEMMA EffVaType == \A va \in VA, wide \in BOOLEAN : SignExt(va) \in VA /\ EffVa(va, wide) \in VA
<1>1. ASSUME NEW va \in VA PROVE SignExt(va) \in VA
  BY FormatAssumption DEF SignExt, VA
<1> QED
  BY <1>1 DEF EffVa

(* The vectors are addresses, and so is the word after or before one. *)
LEMMA VectorType ==
    ASSUME sr \in SR, NEW off \in 0..2
    PROVE  Vector(off) \in VA
<1> DEFINE seg == IF sr.bev THEN 5 ELSE 4
           w   == SegWord(seg) + off
<1>1. w \in 0..(LoPages * WPP - 1)
  BY FormatAssumption, SMT DEF SegWord, LoPages
<1>2. [r |-> 0, x |-> 0, m |-> 0, w |-> w] \in VA
  BY <1>1, FormatAssumption DEF VA
<1> QED
  BY <1>2, EffVaType DEF Vector

(* What the TLB's entries and the unmapped segments yield is a frame number. *)
LEMMA PpnType ==
    ASSUME NEW e \in Entry, NEW vp \in Vpn
    PROVE  /\ LoOf(e, vp) \in EntryLo
           /\ PpnOf(e, vp) \in Nat
           /\ UnmappedPpn(vp) \in Nat
           /\ VPage(vp) \in Nat
<1>1. VPage(vp) \in Nat
  BY FormatAssumption, SMT DEF Vpn, VPage, LoPages
<1>2. LoOf(e, vp) \in EntryLo
  BY DEF LoOf, Entry
<1>3. e.pm \in Nat \ {0} /\ LoOf(e, vp).pfn \in Nat
  BY <1>2, FormatAssumption DEF Entry, EntryLo
<1>4. VPage(vp) % e.pm \in Nat
  BY <1>1, <1>3, SMT
<1>5. UnmappedPpn(vp) \in Nat
  <2>1. vp.p \in Nat
    BY FormatAssumption DEF Vpn, LoPages
  <2> QED
    BY <2>1, FormatAssumption, SMT DEF UnmappedPpn
<1> QED
  BY <1>1, <1>2, <1>3, <1>4, <1>5 DEF PpnOf

(* A physical address is a natural number, and so is its cache line. *)
LEMMA PaType ==
    ASSUME NEW va \in VA, NEW ppn \in Nat
    PROVE  PaOf(ppn, va) \in Nat /\ Line(PaOf(ppn, va)) \in Nat
<1>1. va.w \in Nat
  BY FormatAssumption DEF VA, LoPages
<1>2. PaOf(ppn, va) \in Nat
  BY <1>1, FormatAssumption, SMT DEF PaOf
<1> QED
  BY <1>2, UtlbAssumption, SMT DEF Line
---------------------------------------------------------------------------
(* Steps of the translation state: every action of the interpreter is one of
   these, or leaves the translation state alone. *)

TlbOperation == \/ TLBR \/ TLBWI \/ TLBWR \/ TLBP
                \/ StageHi \/ StageLo \/ StageMask \/ StageIndex \/ StageRandom \/ StageWired

TlbStep == \/ \E va \in VA, op \in Op : va_translate(va, op)
           \/ AccessTaken
           \/ TlbOperation
           \/ \E i \in Idx, e \in Entry : iss_apply_tlb_write(i, e)
           \/ UNCHANGED tlbvars

(* The slots of a flushed micro-TLB have their type. *)
LEMMA FlushType == ASSUME entryhi \in EntryHi
                   PROVE  utlb_flush \in [0..(UTLB_SZ - 1) -> Slot]
<1>1. Asid # {}
  BY DEF EntryHi
<1>2. ZeroVpn \in Vpn
  BY FormatAssumption DEF ZeroVpn, Vpn, LoPages
<1>3. NoSlot \in Slot
  BY <1>1, <1>2 DEF NoSlot, Slot
<1> QED
  BY <1>3 DEF utlb_flush

(* The value of xl between two accesses has the type of an access. *)
LEMMA NoAccessType == NoAccess \in [va : VA, op : Op, exc : {"none", "refill", "invalid", "modified"}, pa : Nat]
<1>1. 0 \in 0..(LoPages * WPP - 1)
  BY FormatAssumption, SMT DEF LoPages
<1> QED
  BY <1>1, FormatAssumption DEF NoAccess, VA, Op

(* First picks a member: an entry of the TLB when something matches. *)
LEMMA FirstIn == ASSUME NEW S \in SUBSET Idx, S # {}
                 PROVE  First(S) \in S
<1> DEFINE R == {ss \in Nat \X Nat : ss[1] < ss[2]}
<1>1. S \subseteq Nat
  BY FormatAssumption DEF Idx
<1>2. PICK x \in S : \A y \in S : ~(<<y, x>> \in R)
  <2>1. IsWellFoundedOn(R, Nat)
    BY NatLessThanWellFounded, Zenon DEF OpToRel
  <2> HIDE DEF R
  <2> QED
    BY <1>1, <2>1, WFMin
<1>3. ASSUME NEW j \in S PROVE x <= j
  <2>1. x \in Nat /\ j \in Nat
    BY <1>1
  <2>2. j < x => <<j, x>> \in R
    BY <2>1
  <2> QED
    BY <1>2, <2>1, <2>2
<1> QED
  BY <1>3 DEF First
(* What the search returns are indices of the TLB. *)
LEMMA HitsIn == \A vp, asid : CamHits(vp, asid) \in SUBSET Idx
  BY DEF CamHits

(* The exceptions an entry can raise. *)
LEMMA ExcType == \A e, vp, op : EntryExc(e, vp, op) \in {"none", "invalid", "modified"}
  BY DEF EntryExc

(* A translation keeps the types of what it may change. *)
LEMMA TranslateType ==
    ASSUME TlbTypeOK, NEW va \in VA, NEW op \in Op, va_translate(va, op)
    PROVE  TlbTypeOK'
<1> DEFINE vp == VpnOf(va)
           H  == CamHits(vp, entryhi.asid)
           e  == tlb[First(H)]
<1> USE DEF TlbTypeOK
<1>1. vp \in Vpn
  BY VpnType
<1>2. \A q \in Nat, x \in {"none", "refill", "invalid", "modified"} :
        Returned(va, op, x, q) \in [va : VA, op : Op, exc : {"none", "refill", "invalid", "modified"}, pa : Nat]
  BY DEF Returned, Op
<1>3. CASE XlUnmapped(va, op)
  <2>1. UnmappedPpn(vp) \in Nat
    <3>1. vp.p \in Nat
      BY <1>1, FormatAssumption DEF Vpn, LoPages
    <3> QED
      BY <3>1, FormatAssumption, SMT DEF UnmappedPpn
  <2>2. PaOf(UnmappedPpn(vp), va) \in Nat
    BY <2>1, PaType
  <2> QED
    BY <1>2, <1>3, <2>2 DEF XlUnmapped, va_translate, Op
<1>4. CASE XlUtlb(va, op)
  <2>1. UtlbSlot(vp) \in 0..(UTLB_SZ - 1)
    BY <1>1, UtlbAssumption, FormatAssumption, SMT DEF UtlbSlot, Vpn, LoPages
  <2>2. utlb[UtlbSlot(vp)].ppn \in Nat
    BY <2>1 DEF Slot
  <2>3. PaOf(utlb[UtlbSlot(vp)].ppn, va) \in Nat
    BY <2>2, PaType
  <2> QED
    BY <1>2, <1>4, <2>3 DEF XlUtlb, va_translate, Op
<1>5. CASE XlCam(va, op)
  <2>1. e \in Entry
    BY <1>5, HitsIn, FirstIn DEF XlCam
  <2>2. PpnOf(e, vp) \in Nat /\ LoOf(e, vp) \in EntryLo
    BY <1>1, <2>1, PpnType
  <2>3. PaOf(PpnOf(e, vp), va) \in Nat
    BY <2>2, PaType
  <2>4. [valid |-> TRUE, vpn |-> vp, asid |-> entryhi.asid, ppn |-> PpnOf(e, vp), dirty |-> LoOf(e, vp).d] \in Slot
    BY <1>1, <2>2 DEF Slot, EntryHi, EntryLo
  <2>5. utlb' \in [0..(UTLB_SZ - 1) -> Slot]
    BY <1>5, <2>4 DEF XlCam
  <2>6. xl' \in [va : VA, op : Op, exc : {"none", "refill", "invalid", "modified"}, pa : Nat]
    BY <1>2, <1>5, <2>3 DEF XlCam
  <2> QED
    BY <1>5, <2>5, <2>6 DEF XlCam, va_translate, Op
<1>6. CASE XlFault(va, op)
  <2>1. FaultHi(entryhi, va) \in EntryHi
    <3>1. VPage(vp) \in Nat
      BY <1>1, FormatAssumption, SMT DEF Vpn, VPage, LoPages
    <3>2. VPage(vp) \div 2 \in Nat
      BY <3>1, SMT
    <3> QED
      BY <3>2, FormatAssumption DEF FaultHi, EntryHi, VA
  <2>2. xl' \in [va : VA, op : Op, exc : {"none", "refill", "invalid", "modified"}, pa : Nat]
    <3> DEFINE x == IF H = {} THEN "refill" ELSE EntryExc(e, vp, op)
    <3>1. x \in {"none", "refill", "invalid", "modified"}
      BY ExcType
    <3>2. xl' = Returned(va, op, x, 0)
      BY <1>6 DEF XlFault
    <3> HIDE DEF x
    <3> QED
      BY <1>2, <3>1, <3>2
  <2> QED
    BY <1>6, <2>1, <2>2 DEF XlFault, va_translate, Op
<1> QED
  BY <1>3, <1>4, <1>5, <1>6 DEF va_translate

(* So does every step of the translation state. *)
LEMMA TlbTypeStep == ASSUME TlbTypeOK, TlbStep PROVE TlbTypeOK'
<1> USE DEF TlbTypeOK
<1>0. Staged \in Entry
  BY DEF Staged, Entry
<1>1. CASE \E va \in VA, op \in Op : va_translate(va, op)
  BY <1>1, TranslateType
<1>2. CASE AccessTaken
  BY <1>2, NoAccessType DEF AccessTaken, Op
<1>3. CASE TLBR
  <2>1. CASE IndexField \in Idx
    <3>1. tlb[IndexField] \in Entry
      BY <2>1
    <3>2. entryhi' \in EntryHi /\ entrylo' \in [{0, 1} -> EntryLo] /\ pagemask' \in PageSize
      BY <1>3, <2>1, <3>1 DEF TLBR, Entry
    <3> QED
      BY <1>3, <3>2 DEF TLBR
  <2>2. CASE ~(IndexField \in Idx)
    BY <1>3, <2>2 DEF TLBR
  <2> QED
    BY <2>1, <2>2
<1>4. CASE TLBWI
  <2>1. tlb' \in [Idx -> Entry]
    BY <1>0, <1>4 DEF TLBWI
  <2> QED
    BY <1>4, <2>1, FlushType DEF TLBWI
<1>5. CASE TLBWR
  <2>1. tlb' \in [Idx -> Entry]
    BY <1>0, <1>5 DEF TLBWR
  <2>2. random' \in Field
    BY <1>5, FormatAssumption, UtlbAssumption DEF TLBWR, Field
  <2> QED
    BY <1>5, <2>1, <2>2, FlushType DEF TLBWR
<1>6. CASE TLBP
  <2> DEFINE H == {i \in Idx : TlbpMatch(tlb[i], entryhi)}
  <2>1. H # {} => First(H) \in Idx
    <3>1. H \in SUBSET Idx
      OBVIOUS
    <3> HIDE DEF H
    <3> QED
      BY <3>1, FirstIn
  <2>2. index' \in Field \cup {-1}
    BY <1>6, <2>1, FormatAssumption, UtlbAssumption DEF TLBP, Idx, Field
  <2> QED
    BY <1>6, <2>2 DEF TLBP
<1>7. CASE StageHi \/ StageLo \/ StageMask \/ StageIndex \/ StageRandom \/ StageWired
  BY <1>7, UtlbAssumption DEF StageHi, StageLo, StageMask, StageIndex, StageRandom, StageWired, Field
<1>8. CASE \E i \in Idx, x \in Entry : iss_apply_tlb_write(i, x)
  BY <1>8, FlushType DEF iss_apply_tlb_write
<1>9. CASE UNCHANGED tlbvars
  BY <1>9 DEF tlbvars
<1> QED
  BY <1>1, <1>2, <1>3, <1>4, <1>5, <1>6, <1>7, <1>8, <1>9 DEF TlbStep, TlbOperation
---------------------------------------------------------------------------
(* The micro-TLB *)

(* A flush leaves nothing to be stale. *)
LEMMA FlushExact == ASSUME utlb' = utlb_flush PROVE UtlbExact'
  BY DEF utlb_flush, NoSlot, UtlbExact

(* Every step keeps the micro-TLB exact: a fill copies what the search has just
   found, and a step that writes the TLB flushes it. *)
LEMMA UtlbExactStep == ASSUME TlbTypeOK, UtlbExact, TlbStep PROVE UtlbExact'
<1>1. ASSUME NEW va \in VA, NEW op \in Op, va_translate(va, op), XlCam(va, op)
      PROVE  UtlbExact'
  <2> DEFINE vp == VpnOf(va)
             s  == UtlbSlot(vp)
             e  == tlb[First(CamHits(vp, entryhi.asid))]
             ce == [valid |-> TRUE, vpn |-> vp, asid |-> entryhi.asid,
                    ppn |-> PpnOf(e, vp), dirty |-> LoOf(e, vp).d]
  <2>1. tlb' = tlb /\ utlb' = [utlb EXCEPT ![s] = ce] /\ utlb \in [0..(UTLB_SZ - 1) -> Slot]
    BY <1>1 DEF XlCam, va_translate, TlbTypeOK
  <2>2. CamHits(vp, entryhi.asid) # {} /\ EntryExc(e, vp, op) = "none"
    BY <1>1 DEF XlCam
  <2>3. LoOf(e, vp).v
    BY <2>2 DEF EntryExc
  <2>4. \A v, a : CamHits(v, a)' = CamHits(v, a)
    BY <2>1 DEF CamHits
  <2>5. SUFFICES ASSUME NEW i \in 0..(UTLB_SZ - 1), utlb'[i].valid
                 PROVE  LET c == utlb'[i]
                            h == CamHits(c.vpn, c.asid)
                            x == tlb[First(h)] IN
                        /\ h # {} /\ LoOf(x, c.vpn).v
                        /\ c.ppn = PpnOf(x, c.vpn) /\ c.dirty = LoOf(x, c.vpn).d
    BY <2>1, <2>4 DEF UtlbExact
  <2>6. CASE i = s
    <3>1. utlb'[i] = ce
      BY <2>1, <2>6
    <3> QED
      BY <2>2, <2>3, <3>1
  <2>7. CASE i # s
    <3>1. utlb'[i] = utlb[i]
      BY <2>1, <2>7
    <3> QED
      BY <2>1, <2>5, <3>1 DEF UtlbExact
  <2> QED
    BY <2>6, <2>7
<1>2. ASSUME UNCHANGED <<tlb, utlb>> PROVE UtlbExact'
  BY <1>2 DEF UtlbExact, CamHits
<1>3. CASE \E va \in VA, op \in Op : va_translate(va, op)
  BY <1>1, <1>2, <1>3 DEF va_translate, XlUnmapped, XlUtlb, XlFault
<1>4. CASE TLBWI \/ TLBWR \/ \E i \in Idx, e \in Entry : iss_apply_tlb_write(i, e)
  BY <1>4, FlushExact DEF TLBWI, TLBWR, iss_apply_tlb_write
<1>5. CASE AccessTaken \/ UNCHANGED tlbvars
  BY <1>2, <1>5 DEF AccessTaken, tlbvars
<1>6. CASE TLBR \/ TLBP \/ StageHi \/ StageLo \/ StageMask \/ StageIndex \/ StageRandom \/ StageWired
  BY <1>2, <1>6 DEF TLBR, TLBP, StageHi, StageLo, StageMask, StageIndex, StageRandom, StageWired
<1> QED
  BY <1>3, <1>4, <1>5, <1>6 DEF TlbStep, TlbOperation
---------------------------------------------------------------------------
(* Refinement *)

(* The format of the abstract specification is the interpreter's. *)
LEMMA SameFormat ==
    /\ Abstract!VA = VA /\ Abstract!Idx = Idx /\ Abstract!Entry = Entry /\ Abstract!EntryHi = EntryHi
    /\ Abstract!NoAccess = NoAccess
    /\ \A va : Abstract!VpnOf(va) = VpnOf(va)
    /\ \A vp : Abstract!Unmapped(vp) = Unmapped(vp) /\ Abstract!UnmappedPpn(vp) = UnmappedPpn(vp)
    /\ \A ppn, va : Abstract!PaOf(ppn, va) = PaOf(ppn, va)
    /\ \A e, vp, asid : Abstract!Match(e, vp, asid) = Match(e, vp, asid)
    /\ \A e, vp, op : Abstract!EntryExc(e, vp, op) = EntryExc(e, vp, op)
    /\ \A e, vp : Abstract!PpnOf(e, vp) = PpnOf(e, vp)
    /\ \A hi, va : Abstract!FaultHi(hi, va) = FaultHi(hi, va)
  BY Zenon DEF Abstract!VA, VA, Abstract!Idx, Idx, Abstract!Entry, Entry, Abstract!EntryHi, EntryHi,
     Abstract!EntryLo, EntryLo, Abstract!LoPages, LoPages, Abstract!NoAccess, NoAccess,
     Abstract!VpnOf, VpnOf, Abstract!Unmapped, Unmapped, Abstract!Narrow, Narrow,
     Abstract!UnmappedPpn, UnmappedPpn, Abstract!PaOf, PaOf, Abstract!Match, Match,
     Abstract!VPage, VPage, Abstract!AsidMatch, AsidMatch, Abstract!Global, Global,
     Abstract!EntryExc, EntryExc, Abstract!LoOf, LoOf, Abstract!PpnOf, PpnOf, Abstract!FaultHi, FaultHi

(* The outcomes of the abstract specification, in the interpreter's terms. *)
LEMMA OutcomeIs ==
    ASSUME NEW va, NEW op, NEW exc, NEW pa
    PROVE  Abstract!Outcome(va, op, exc, pa) <=>
             IF Unmapped(VpnOf(va)) THEN exc = "none" /\ pa = PaOf(UnmappedPpn(VpnOf(va)), va)
             ELSE \/ /\ \A i \in Idx : ~Match(tlb[i], VpnOf(va), entryhi.asid)
                     /\ exc = "refill" /\ pa = 0
                  \/ \E i \in Idx :
                       /\ Match(tlb[i], VpnOf(va), entryhi.asid)
                       /\ exc = EntryExc(tlb[i], VpnOf(va), op)
                       /\ pa = IF exc = "none" THEN PaOf(PpnOf(tlb[i], VpnOf(va)), va) ELSE 0
  BY SameFormat, Zenon DEF Abstract!Outcome

(* A translation of the interpreter is one of the abstract specification.  On a
   micro-TLB hit the slot stands for the first matching entry, by UtlbExact. *)
LEMMA TranslateRefines ==
    ASSUME TlbTypeOK, UtlbExact, NEW va \in VA, NEW op \in Op, va_translate(va, op)
    PROVE  Abstract!Translate(va, op)
<1> DEFINE vp == VpnOf(va)
           H  == CamHits(vp, entryhi.asid)
           f  == First(H)
<1>1. H # {} => f \in Idx /\ Match(tlb[f], vp, entryhi.asid)
  BY HitsIn, FirstIn DEF CamHits
<1>2. H = {} => \A i \in Idx : ~Match(tlb[i], vp, entryhi.asid)
  BY DEF CamHits
<1>3. tlb' = tlb
  BY DEF va_translate
<1>4. ASSUME NEW exc, NEW pa, xl' = Returned(va, op, exc, pa), Abstract!Outcome(va, op, exc, pa),
             entryhi' = IF exc = "none" THEN entryhi ELSE FaultHi(entryhi, va)
      PROVE  Abstract!Translate(va, op)
  BY <1>3, <1>4, SameFormat DEF Abstract!Translate, Returned
<1>5. CASE XlUnmapped(va, op)
  <2>1. Abstract!Outcome(va, op, "none", PaOf(UnmappedPpn(vp), va))
    BY <1>5, OutcomeIs DEF XlUnmapped
  <2> QED
    BY <1>4, <1>5, <2>1 DEF XlUnmapped
<1>6. CASE XlUtlb(va, op)
  <2> DEFINE ce == utlb[UtlbSlot(vp)]
  <2>1. vp \in Vpn
    BY VpnType
  <2>2. UtlbSlot(vp) \in 0..(UTLB_SZ - 1)
    BY <2>1, UtlbAssumption, FormatAssumption, SMT DEF UtlbSlot, Vpn, LoPages
  <2>3. ce.valid /\ ce.vpn = vp /\ ce.asid = entryhi.asid /\ ~(op = "store" /\ ~ce.dirty)
    BY <1>6 DEF XlUtlb, UtlbHit
  <2>4. UtlbSlot(vp) \in DOMAIN utlb
    BY <2>2 DEF TlbTypeOK
  <2>5. /\ H # {} /\ LoOf(tlb[f], vp).v
        /\ ce.ppn = PpnOf(tlb[f], vp) /\ ce.dirty = LoOf(tlb[f], vp).d
    BY <2>3, <2>4 DEF UtlbExact
  <2>6. EntryExc(tlb[f], vp, op) = "none"
    BY <2>3, <2>5 DEF EntryExc
  <2>7. Abstract!Outcome(va, op, "none", PaOf(ce.ppn, va))
    <3>1. ~Unmapped(vp)
      BY <1>6 DEF XlUtlb
    <3> HIDE DEF ce, H, f
    <3> QED
      BY <1>1, <2>5, <2>6, <3>1, OutcomeIs DEF vp
  <2> QED
    BY <1>4, <1>6, <2>7 DEF XlUtlb
<1>7. CASE XlCam(va, op)
  <2>1. Abstract!Outcome(va, op, "none", PaOf(PpnOf(tlb[f], vp), va))
    <3>1. ~Unmapped(vp) /\ H # {} /\ EntryExc(tlb[f], vp, op) = "none"
      BY <1>7 DEF XlCam
    <3> HIDE DEF H, f
    <3> QED
      BY <1>1, <3>1, OutcomeIs DEF vp
  <2> QED
    BY <1>4, <1>7, <2>1 DEF XlCam
<1>8. CASE XlFault(va, op)
  <2> DEFINE x == IF H = {} THEN "refill" ELSE EntryExc(tlb[f], vp, op)
  <2>1. ~Unmapped(vp) /\ x # "none" /\ xl' = Returned(va, op, x, 0) /\ entryhi' = FaultHi(entryhi, va)
    BY <1>8 DEF XlFault
  <2>2. Abstract!Outcome(va, op, x, 0)
    <3> HIDE DEF H, f
    <3> QED
      BY <1>1, <1>2, <2>1, OutcomeIs DEF vp
  <2> HIDE DEF x
  <2> QED
    BY <1>4, <2>1, <2>2
<1> QED
  BY <1>5, <1>6, <1>7, <1>8 DEF va_translate

(* Every step of the translation state is an abstract step or a stutter. *)
LEMMA StepRefines ==
    ASSUME TlbTypeOK, UtlbExact, TlbStep
    PROVE  [Abstract!Next]_(Abstract!vars)
<1> USE DEF Abstract!Next, Abstract!vars
<1>1. CASE \E va \in VA, op \in Op : va_translate(va, op)
  <2>1. PICK va \in VA, op \in Op : va_translate(va, op)
    BY <1>1
  <2>2. Abstract!Translate(va, op)
    BY <2>1, TranslateRefines
  <2>3. xl'.va = va /\ xl'.op = op
    BY <2>2 DEF Abstract!Translate
  <2> QED
    BY <2>2, <2>3, SameFormat DEF Op
<1>2. CASE AccessTaken
  BY <1>2, SameFormat DEF AccessTaken, Abstract!Taken
<1>3. ASSUME NEW i \in Idx, NEW e \in Entry, tlb' = [tlb EXCEPT ![i] = e], UNCHANGED <<entryhi, xl>>
      PROVE  Abstract!Write
  <2>1. tlb \in [Idx -> Entry]
    BY DEF TlbTypeOK
  <2>2. tlb' \in [Idx -> Entry] /\ \A j \in Idx \ {i} : tlb'[j] = tlb[j]
    BY <1>3, <2>1
  <2> QED
    BY <1>3, <2>2, SameFormat DEF Abstract!Write
<1>4. Staged \in Entry
  BY DEF Staged, Entry, TlbTypeOK
<1>5. CASE TLBWI
  BY <1>3, <1>4, <1>5 DEF TLBWI
<1>6. CASE TLBWR
  BY <1>3, <1>4, <1>6 DEF TLBWR
<1>7. CASE \E i \in Idx, e \in Entry : iss_apply_tlb_write(i, e)
  BY <1>3, <1>7 DEF iss_apply_tlb_write
<1>8. CASE TLBR \/ StageHi
  <2>1. entryhi' \in EntryHi /\ UNCHANGED <<tlb, xl>>
    <3>1. TlbTypeOK'
      BY <1>8, TlbTypeStep DEF TlbStep, TlbOperation
    <3> QED
      BY <1>8, <3>1 DEF TLBR, StageHi, TlbTypeOK
  <2> QED
    BY <2>1, SameFormat DEF Abstract!SetHi
<1>9. CASE TLBP \/ StageLo \/ StageMask \/ StageIndex \/ StageRandom \/ StageWired \/ UNCHANGED tlbvars
  BY <1>9 DEF TLBP, StageLo, StageMask, StageIndex, StageRandom, StageWired, tlbvars
<1> QED
  BY <1>1, <1>2, <1>5, <1>6, <1>7, <1>8, <1>9 DEF TlbStep, TlbOperation
---------------------------------------------------------------------------
(* Control *)

Frames == [taken : BOOLEAN, target : VA, exl_before : BOOLEAN, saved : BOOLEAN, from : VA]

(* What makes EPC arithmetic right: a delay slot runs one word after the branch
   whose frame is on the stack, and delay slots do not nest. *)
SlotInv ==
    \/ stack = <<>> /\ ~in_delay_slot
    \/ /\ Len(stack) = 1 /\ in_delay_slot /\ ~stack[1].saved
       /\ ph \in {"fetch", "exec"} => pc = Plus(stack[1].from, 1)

CpuType ==
    /\ pc \in VA /\ ph \in {"fetch", "exec", "ret", "raised"} /\ in_delay_slot \in BOOLEAN
    /\ stack \in Seq(Frames)
    /\ sr \in SR /\ bd \in BOOLEAN
    /\ epc \in VA /\ errorepc \in VA
    /\ link \in [valid : BOOLEAN, line : Nat]
    /\ brk \in {"run", "break", "exit"} /\ steps \in 0..MaxSteps
    /\ resume \in [pc : VA, bd : BOOLEAN]

CpuInv == CpuType /\ SlotInv /\ ResumePoint

(* A broken link has the type of a link. *)
LEMMA NoLinkType == NoLink \in [valid : BOOLEAN, line : Nat]
  BY DEF NoLink

(* Entering an exception, or leaving one, keeps Status a Status. *)
LEMMA SrType == ASSUME NEW s \in SR, NEW b \in BOOLEAN
                PROVE  /\ [s EXCEPT !.erl = b] \in SR /\ [s EXCEPT !.exl = b] \in SR
                       /\ [s EXCEPT !.erl = FALSE, !.exl = TRUE] \in SR
<1>1. \A t \in SR, c \in BOOLEAN : [t EXCEPT !.erl = c] \in SR /\ [t EXCEPT !.exl = c] \in SR
  BY DEF SR
<1> QED
  BY <1>1

(* The word before the word after an address is that address. *)
LEMMA PlusBack == \A a \in VA : Plus(Plus(a, 1), -1) = a
<1> SUFFICES ASSUME NEW a \in VA PROVE Plus(Plus(a, 1), -1) = a
  OBVIOUS
<1> DEFINE At(w) == [r |-> a.r, x |-> a.x, m |-> a.m, w |-> w]
<1>1. a.w \in Int
  BY FormatAssumption DEF VA, LoPages
<1>2. a = At(a.w)
  BY DEF VA
<1>3. \A w, k \in Int : Plus(At(w), k) = At(w + k)
  BY DEF Plus
<1>4. Plus(a, 1) = At(a.w + 1) /\ Plus(At(a.w + 1), -1) = At(a.w + 1 - 1)
  BY <1>1, <1>2, <1>3
<1>5. a.w + 1 - 1 = a.w
  BY <1>1
<1> QED
  BY <1>2, <1>4, <1>5

(* An exception resumes at the instruction that was begun: in a delay slot EPC
   is pc - 1, the branch. *)
LEMMA RaiseInv ==
    ASSUME CpuInv, NEW code, NEW v \in VA, ph \in {"fetch", "exec"}, Raise(code, v)
    PROVE  CpuInv'
<1> USE DEF CpuInv, CpuType
<1>1. CASE stack = <<>> /\ ~in_delay_slot
  <2>1. Interrupted = [pc |-> pc, bd |-> FALSE]
    BY <1>1 DEF Interrupted
  <2>2. epc' = resume'.pc /\ bd' = resume'.bd /\ epc' \in VA /\ bd' \in BOOLEAN
        /\ resume' \in [pc : VA, bd : BOOLEAN]
    BY <1>1, <2>1 DEF Raise, set_exc_pc, ResumePoint
  <2> QED
    BY <1>1, <2>2, SrType, NoLinkType DEF Raise, set_exc_pc, SlotInv, ResumePoint
<1>2. CASE Len(stack) = 1 /\ in_delay_slot /\ ~stack[1].saved /\ pc = Plus(stack[1].from, 1)
  <2>1. stack # <<>> /\ stack[1] \in Frames
    <3> HIDE DEF CpuInv
    <3>1. stack \in Seq(Frames) /\ Len(stack) = 1
      BY <1>2 DEF CpuInv
    <3>2. 1 \in 1..Len(stack) /\ stack # <<>>
      BY <3>1
    <3> HIDE DEF Frames
    <3> QED
      BY <3>1, <3>2
  <2>2. Interrupted = [pc |-> stack[1].from, bd |-> TRUE] /\ stack[1].from \in VA
    BY <2>1 DEF Interrupted, Frames
  <2>3. Plus(pc, -1) = stack[1].from
    BY <1>2, <2>2, PlusBack
  <2>4. epc' = resume'.pc /\ bd' = resume'.bd /\ epc' \in VA /\ bd' \in BOOLEAN
        /\ resume' \in [pc : VA, bd : BOOLEAN]
    BY <1>2, <2>2, <2>3 DEF Raise, set_exc_pc, ResumePoint
  <2>5. SlotInv'
    BY <1>2 DEF Raise, SlotInv
  <2> QED
    BY <2>4, <2>5, SrType, NoLinkType DEF Raise, set_exc_pc, ResumePoint
<1> QED
  BY <1>1, <1>2 DEF SlotInv

(* An exception to the general vector keeps the invariant. *)
LEMMA GeneralInv ==
    ASSUME CpuInv, NEW code, ph \in {"fetch", "exec"}, raise_general(code)
    PROVE  CpuInv'
<1>1. Vector(VecGeneral) \in VA
  BY VectorType DEF CpuInv, CpuType, VecGeneral
<1> QED
  BY <1>1, RaiseInv DEF raise_general

(* A TLB exception keeps the invariant, whichever of the three vectors it takes. *)
LEMMA TlbExcInv ==
    ASSUME CpuInv, NEW op, ph \in {"fetch", "exec"}, raise_tlb(op)
    PROVE  CpuInv'
<1>1. \A off \in {VecRefill, VecXtlb, VecGeneral} : Vector(off) \in VA
  BY VectorType DEF CpuInv, CpuType, VecGeneral, VecRefill, VecXtlb
<1> QED
  BY <1>1, RaiseInv DEF raise_tlb

(* An instruction that completes keeps the invariant. *)
LEMMA CompleteInv ==
    ASSUME CpuInv, Complete, KeepCp0, link' \in [valid : BOOLEAN, line : Nat]
    PROVE  CpuInv'
  BY IssAssumption DEF CpuInv, CpuType, Complete, KeepCp0, SlotInv, ResumePoint

(* The line a probe names is a line number. *)
LEMMA ProbeLineType == ASSUME TlbTypeOK, NEW va \in VA PROVE ProbeLine(va) \in Nat
<1> DEFINE vp   == VpnOf(va)
           hits == {i \in Idx : ProbeMatch(tlb[i], vp, entryhi.asid)}
           e    == tlb[First(hits)]
<1>1. vp \in Vpn
  BY VpnType
<1>2. \A p \in tlb_probe_ro(va) : p \in Nat
  <2>1. Unmapped(vp) => PaOf(UnmappedPpn(vp), va) \in Nat
    <3>1. vp.p \in Nat
      BY <1>1, FormatAssumption DEF Vpn, LoPages
    <3>2. UnmappedPpn(vp) \in Nat
      BY <3>1, FormatAssumption, SMT DEF UnmappedPpn
    <3> QED
      BY <3>2, PaType
  <2>2. hits # {} => PaOf(PpnOf(e, vp), va) \in Nat
    <3>1. hits \in SUBSET Idx
      OBVIOUS
    <3> SUFFICES ASSUME hits # {} PROVE PaOf(PpnOf(e, vp), va) \in Nat
      OBVIOUS
    <3>2. First(hits) \in Idx
      <4> HIDE DEF hits
      <4> QED
        BY <3>1, FirstIn
    <3>3. e \in Entry
      BY <3>2 DEF TlbTypeOK
    <3> HIDE DEF e, vp
    <3> QED
      BY <1>1, <3>3, PpnType, PaType
  <2> QED
    BY <2>1, <2>2 DEF tlb_probe_ro
<1>3. va2pa(va) \in Nat
  BY FormatAssumption, SMT DEF va2pa, SegWord, VA, LoPages
<1> QED
  BY <1>2, <1>3, UtlbAssumption, SMT DEF ProbeLine, Line

(* The address of a data access, in its addressing mode, is an address. *)
LEMMA DataVaType == \A va \in DataVA : va \in VA /\ EffVa(va, is_64b_addr_mode) \in VA
<1>1. is_64b_addr_mode \in BOOLEAN
  BY DEF is_64b_addr_mode
<1> QED
  BY <1>1, IssAssumption, EffVaType

(* The address of a fetch, in its addressing mode, is an address. *)
LEMMA FetchVaType == ASSUME pc \in VA PROVE EffVa(pc, is_64b_addr_mode) \in VA
<1>1. is_64b_addr_mode \in BOOLEAN
  BY DEF is_64b_addr_mode
<1> QED
  BY <1>1, EffVaType

(* Every step of the interpreter is a step of its translation state. *)
LEMMA NextIsTlbStep == ASSUME CpuInv, [Next]_vars PROVE TlbStep
<1>1. CASE Fetch
  BY <1>1, FetchVaType DEF Fetch, TlbStep, Op, CpuInv, CpuType
<1>2. CASE Load \/ CacheOp \/ Store \/ LoadLinked \/ StoreCond
  BY <1>2, DataVaType DEF Load, CacheOp, Store, LoadLinked, StoreCond, TlbStep, Op
<1>3. CASE TlbInsn
  BY <1>3 DEF TlbInsn, TlbStep, TlbOperation
<1>4. CASE Return
  BY <1>4 DEF Return, TlbStep
<1>5. CASE MirrorWrite
  <2>1. \A hi \in HiWrites, l0 \in LoWrites, l1 \in LoWrites, z \in PageSize :
          [hi |-> hi, lo0 |-> l0, lo1 |-> l1, pm |-> z] \in Entry
    BY UtlbAssumption DEF Entry
  <2> QED
    BY <1>5, <2>1 DEF MirrorWrite, TlbStep
<1>6. CASE ExecCompute \/ ExecReserved \/ ExecGated \/ ExecOverflowTrap \/ ExecSyscall
  BY <1>6 DEF ExecCompute, ExecReserved, ExecGated, ExecOverflowTrap, ExecSyscall, TlbStep
<1>7. CASE BranchLikelyNotTaken \/ Branch \/ JumpRegister \/ Jump
  BY <1>7 DEF BranchLikelyNotTaken, Branch, JumpRegister, Jump, RunDelaySlot, TlbStep
<1>8. CASE Eret \/ MoveToCp0 \/ MoveToErrorEpc \/ ExecExit \/ raise_int
  BY <1>8 DEF Eret, MoveToCp0, MoveToErrorEpc, ExecExit, raise_int, TlbStep
<1>9. CASE Stopped \/ UNCHANGED vars
  BY <1>9 DEF Stopped, vars, TlbStep
<1> QED
  BY <1>1, <1>2, <1>3, <1>4, <1>5, <1>6, <1>7, <1>8, <1>9 DEF Next

(* A branch puts its frame on an empty stack. *)
LEMMA SlotEntered ==
    ASSUME CpuInv, ~in_delay_slot, NEW taken \in BOOLEAN, NEW t \in VA, RunDelaySlot(taken, t)
    PROVE  CpuInv'
<1> USE DEF CpuInv, CpuType
<1> DEFINE f == [taken |-> taken, target |-> t, exl_before |-> sr.exl, saved |-> in_delay_slot, from |-> pc]
<1>1. stack = <<>>
  BY DEF SlotInv
<1>2. f \in Frames
  BY DEF Frames, SR
<1>3. stack' = <<f>>
  BY <1>1 DEF RunDelaySlot
<1>4. stack' \in Seq(Frames) /\ Len(stack') = 1 /\ stack'[1] = f
  <2> HIDE DEF f, Frames
  <2> QED
    BY <1>2, <1>3
<1>5. SlotInv'
  <2>1. stack'[1].saved = FALSE /\ stack'[1].from = pc
    BY <1>4
  <2>2. pc' = Plus(pc, 1) /\ in_delay_slot'
    BY DEF RunDelaySlot
  <2> QED
    BY <1>4, <2>1, <2>2 DEF SlotInv, Plus
<1> QED
  BY <1>4, <1>5, IssAssumption DEF RunDelaySlot, KeepCp0, ResumePoint

(* run_delay_slot returns: the frame is popped, and the flag restored. *)
LEMMA ReturnInv == ASSUME CpuInv, Return PROVE CpuInv'
<1> USE DEF CpuInv, CpuType
<1>1. CASE stack = <<>>
  <2>1. ~in_delay_slot
    BY <1>1 DEF SlotInv
  <2> QED
    BY <1>1, <2>1 DEF Return, KeepCp0, SlotInv, ResumePoint
<1>2. CASE stack # <<>>
  <2> DEFINE f == stack[Len(stack)]
  <2>1. Len(stack) = 1 /\ ~stack[1].saved
    BY <1>2 DEF SlotInv
  <2>2. stack[1] \in Frames
    <3> HIDE DEF Frames
    <3>1. stack \in Seq(Frames) /\ 1 \in 1..Len(stack)
      BY <2>1
    <3> HIDE DEF CpuInv, CpuType
    <3> QED
      BY <3>1
  <2>3. f = stack[1] /\ f.saved = FALSE /\ f.target \in VA
    BY <2>1, <2>2 DEF Frames
  <2>4. stack' = <<>> /\ in_delay_slot' = FALSE
    BY <1>2, <2>1, <2>3 DEF Return
  <2>5. pc' \in VA /\ ph' = ph
    BY <1>2, <2>3 DEF Return
  <2>6. stack' \in Seq(Frames) /\ SlotInv'
    BY <2>4 DEF SlotInv
  <2> HIDE DEF Frames
  <2> QED
    BY <2>4, <2>5, <2>6 DEF Return, KeepCp0, ResumePoint
<1> QED
  BY <1>1, <1>2

(* The inductive step: types, the slot invariant and the resume point. *)
LEMMA CpuInvStep == ASSUME TlbTypeOK, CpuInv, [Next]_vars PROVE CpuInv'
<1> USE DEF Executing
<1>0. link \in [valid : BOOLEAN, line : Nat] /\ NoLink \in [valid : BOOLEAN, line : Nat]
  BY NoLinkType DEF CpuInv, CpuType
<1>1. CASE Fetch
  <2>1. CASE xl'.exc = "none"
    <3>1. UNCHANGED <<pc, stack, in_delay_slot, sr, bd, epc, errorepc, link, brk, resume>> /\ ph' = "exec"
          /\ ph = "fetch"
      BY <1>1, <2>1 DEF Fetch, hist
    <3>2. steps' \in 0..MaxSteps
      BY <1>1, <2>1, IssAssumption DEF Fetch, CpuInv, CpuType
    <3> QED
      BY <3>1, <3>2 DEF CpuInv, CpuType, SlotInv, ResumePoint
  <2>2. CASE xl'.exc # "none"
    BY <1>1, <2>2, TlbExcInv DEF Fetch
  <2> QED
    BY <2>1, <2>2
<1>2. CASE ExecCompute
  BY <1>0, <1>2, CompleteInv DEF ExecCompute
<1>3. CASE ExecReserved \/ ExecGated \/ ExecOverflowTrap
  BY <1>3, GeneralInv DEF ExecReserved, ExecGated, ExecOverflowTrap
<1>4. CASE ExecSyscall
  <2>1. CASE os_mode
    BY <1>4, <2>1, GeneralInv DEF ExecSyscall
  <2>2. CASE ~os_mode
    BY <1>4, <2>2, IssAssumption DEF ExecSyscall, KeepCp0, CpuInv, CpuType, SlotInv, ResumePoint
  <2> QED
    BY <2>1, <2>2
<1>5. CASE Load \/ CacheOp
  BY <1>0, <1>5, TlbExcInv, GeneralInv, CompleteInv DEF Load, CacheOp
<1>6. CASE Store
  BY <1>0, <1>6, TlbExcInv, GeneralInv, CompleteInv DEF Store
<1>7. CASE LoadLinked
  <2>1. PICK va \in DataVA, mis \in BOOLEAN :
          IF xl'.exc # "none" THEN raise_tlb("load")
          ELSE IF mis THEN raise_general(4)
          ELSE link' = [valid |-> TRUE, line |-> ProbeLine(va)] /\ Complete /\ KeepCp0
    BY <1>7 DEF LoadLinked
  <2>2. [valid |-> TRUE, line |-> ProbeLine(va)] \in [valid : BOOLEAN, line : Nat]
    BY DataVaType, ProbeLineType
  <2>3. CASE raise_tlb("load") \/ raise_general(4)
    BY <1>7, <2>3, TlbExcInv, GeneralInv DEF LoadLinked
  <2>4. CASE link' = [valid |-> TRUE, line |-> ProbeLine(va)] /\ Complete /\ KeepCp0
    BY <2>2, <2>4, CompleteInv
  <2> QED
    BY <2>1, <2>3, <2>4
<1>8. CASE StoreCond
  BY <1>0, <1>8, TlbExcInv, GeneralInv, CompleteInv DEF StoreCond
<1>9. CASE BranchLikelyNotTaken
  BY <1>9, IssAssumption DEF BranchLikelyNotTaken, KeepCp0, CpuInv, CpuType, SlotInv, ResumePoint
<1>10. CASE Branch \/ JumpRegister \/ Jump
  <2>1. \A t \in Targets : t \in VA
    BY IssAssumption
  <2> QED
    BY <1>10, <2>1, SlotEntered DEF Branch, JumpRegister, Jump
<1>11. CASE Return
  BY <1>11, ReturnInv
<1>12. CASE Eret
  <2>1. SignExt(errorepc) \in VA
    BY EffVaType DEF CpuInv, CpuType
  <2>2. sr' \in SR /\ pc' \in VA
    BY <1>12, <2>1, SrType DEF Eret, CpuInv, CpuType
  <2> QED
    BY <1>0, <1>12, <2>2 DEF Eret, CpuInv, CpuType, SlotInv, ResumePoint
<1>13. CASE MoveToCp0
  <2>1. CASE sr' \in SrWrites /\ UNCHANGED <<epc, resume, bd>>
    BY <1>13, <2>1, IssAssumption, SrAssumption
    DEF MoveToCp0, Complete, CpuInv, CpuType, SlotInv, ResumePoint
  <2>2. CASE \E t \in Targets : epc' = t /\ resume' = [resume EXCEPT !.pc = t] /\ UNCHANGED <<sr, bd>>
    <3>1. PICK t \in Targets : epc' = t /\ resume' = [resume EXCEPT !.pc = t] /\ UNCHANGED <<sr, bd>>
      BY <2>2
    <3>2. resume' \in [pc : VA, bd : BOOLEAN] /\ resume'.pc = t /\ resume'.bd = resume.bd /\ epc' \in VA
      BY <3>1, IssAssumption DEF CpuInv, CpuType
    <3> QED
      BY <1>13, <3>1, <3>2, IssAssumption DEF MoveToCp0, Complete, CpuInv, CpuType, SlotInv, ResumePoint
  <2>3. CASE bd' \in BOOLEAN /\ resume' = [resume EXCEPT !.bd = bd'] /\ UNCHANGED <<sr, epc>>
    <3>1. resume' \in [pc : VA, bd : BOOLEAN] /\ resume'.pc = resume.pc /\ resume'.bd = bd'
      BY <2>3 DEF CpuInv, CpuType
    <3> QED
      BY <1>13, <2>3, <3>1, IssAssumption DEF MoveToCp0, Complete, CpuInv, CpuType, SlotInv, ResumePoint
  <2> QED
    BY <1>13, <2>1, <2>2, <2>3 DEF MoveToCp0
<1>14. CASE MoveToErrorEpc
  BY <1>14, IssAssumption DEF MoveToErrorEpc, KeepCp0, CpuInv, CpuType, SlotInv, ResumePoint
<1>15. CASE TlbInsn
  BY <1>0, <1>15, CompleteInv DEF TlbInsn
<1>16. CASE ExecExit
  BY <1>16 DEF ExecExit, hist, CpuInv, CpuType, SlotInv, ResumePoint
<1>17. CASE raise_int
  <2>1. PICK t \in Targets : epc' = t /\ resume' = [pc |-> t, bd |-> FALSE]
    BY <1>17 DEF raise_int
  <2>2. Vector(VecGeneral) \in VA
    BY VectorType DEF VecGeneral, CpuInv, CpuType
  <2>3. steps' \in 0..MaxSteps
    BY <1>17, IssAssumption DEF raise_int, Counted, CpuInv, CpuType
  <2>4. sr' \in SR
    BY <1>17, SrType DEF raise_int, CpuInv, CpuType
  <2>5. SlotInv'
    BY <1>17 DEF raise_int, Between, SlotInv, CpuInv
  <2> QED
    BY <1>0, <1>17, <2>1, <2>2, <2>3, <2>4, <2>5, IssAssumption DEF raise_int, CpuInv, CpuType, ResumePoint
<1>18. CASE MirrorWrite
  <2>1. steps' \in 0..MaxSteps
    BY <1>18, IssAssumption DEF MirrorWrite, Counted, CpuInv, CpuType
  <2> QED
    BY <1>18, <2>1 DEF MirrorWrite, hist, CpuInv, CpuType, SlotInv, ResumePoint
<1>19. CASE Stopped \/ UNCHANGED vars
  BY <1>19 DEF Stopped, vars, cpu, hist, CpuInv, CpuType, SlotInv, ResumePoint
<1> QED
  BY <1>1, <1>2, <1>3, <1>4, <1>5, <1>6, <1>7, <1>8, <1>9, <1>10, <1>11, <1>12, <1>13, <1>14,
     <1>15, <1>16, <1>17, <1>18, <1>19 DEF Next
---------------------------------------------------------------------------
(* The theorems *)

IInv == TlbTypeOK /\ CpuInv /\ UtlbExact

(* The initial states satisfy the inductive invariant. *)
LEMMA InitInv == Init => IInv
<1> SUFFICES ASSUME Init PROVE IInv
  OBVIOUS
<1> USE DEF Init, InitTlb, initState
<1>1. tlb \in [Idx -> Entry]
  BY UtlbAssumption
<1>2. entryhi \in EntryHi
  BY UtlbAssumption
<1>3. utlb \in [0..(UTLB_SZ - 1) -> Slot]
  BY <1>2, FlushType
<1>4. 0 \in Idx /\ 0 \in Field /\ N - 1 \in Field
  BY FormatAssumption, UtlbAssumption DEF Idx, Field
<1>5. entrylo \in [{0, 1} -> EntryLo]
  BY <1>1, <1>4 DEF Entry
<1>6. TlbTypeOK
  BY <1>1, <1>2, <1>3, <1>4, <1>5, NoAccessType DEF TlbTypeOK, Op
<1>7. UtlbExact
  BY DEF UtlbExact, utlb_flush, NoSlot
<1>8. pc \in VA
  BY IssAssumption
<1>9. CpuType
  <2>1. stack \in Seq(Frames)
    OBVIOUS
  <2>2. sr \in SR
    BY SrAssumption
  <2>3. resume \in [pc : VA, bd : BOOLEAN]
    BY <1>8
  <2>4. steps \in 0..MaxSteps
    BY IssAssumption
  <2> QED
    BY <1>8, <2>1, <2>2, <2>3, <2>4, NoLinkType DEF CpuType
<1> QED
  BY <1>6, <1>7, <1>9 DEF IInv, CpuInv, SlotInv, ResumePoint

(* Every step preserves the inductive invariant. *)
LEMMA NextInv == IInv /\ [Next]_vars => IInv'
<1> SUFFICES ASSUME IInv, [Next]_vars PROVE IInv'
  OBVIOUS
<1>1. TlbStep
  BY NextIsTlbStep DEF IInv
<1> QED
  BY <1>1, TlbTypeStep, UtlbExactStep, CpuInvStep DEF IInv

(* The inductive invariant of the interpreter (interpret.cc execMips): types, the
   shape of the delay-slot stack, the resume point and the micro-TLB. *)
THEOREM Inductive == Spec => []IInv
<1>1. IInv /\ UNCHANGED vars => IInv'
  BY NextInv
<1> QED
  BY <1>1, InitInv, NextInv, PTL DEF Spec

(* Every state of the interpreter has its type: TLBWR's decrement never takes
   Random below zero, whatever software writes to Random and Wired (48 to 63
   included, which are no entries), EPC stays an address though it is computed
   as pc - 1 in a delay slot (set_exc_pc), pc never leaves the map. *)
THEOREM InterpreterTypes == Spec => []TypeOK
<1>1. IInv => TypeOK
  BY DEF IInv, CpuInv, CpuType, TypeOK, Frames
<1> QED
  BY <1>1, Inductive, PTL

(* The micro-TLB is a pure accelerator for every TLB and micro-TLB size
   (interpret.cc:482): a valid slot is what the search would return now. *)
THEOREM MicroTlbExact == Spec => []UtlbExact
<1>1. IInv => UtlbExact
  BY DEF IInv
<1> QED
  BY <1>1, Inductive, PTL

(* Exceptions are restartable: EPC and BD always name the branch of a faulting
   slot, or the faulting instruction, of the outermost exception. *)
THEOREM ExceptionsRestart == Spec => []ResumePoint
<1>1. IInv => ResumePoint
  BY DEF IInv, CpuInv
<1> QED
  BY <1>1, Inductive, PTL

(* The interpreter's translation implements TlbSpec: no access is ever answered
   by anything but an entry that is in the TLB at that moment. *)
THEOREM TranslationRefines == Spec => AbstractSpec
<1>1. Init => Abstract!Init
  <2> SUFFICES ASSUME Init PROVE Abstract!Init
    OBVIOUS
  <2>1. tlb \in [Idx -> Entry] /\ entryhi \in EntryHi
    BY InitInv DEF IInv, TlbTypeOK
  <2>2. xl = NoAccess
    BY DEF Init, InitTlb
  <2> QED
    BY <2>1, <2>2, SameFormat DEF Abstract!Init
<1>2. IInv /\ [Next]_vars => [Abstract!Next]_(Abstract!vars)
  BY NextIsTlbStep, StepRefines DEF IInv
<1> QED
  BY <1>1, <1>2, Inductive, PTL DEF Spec, AbstractSpec, Abstract!Spec
=============================================================================
