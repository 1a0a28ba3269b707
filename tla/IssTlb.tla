------------------------------- MODULE IssTlb -------------------------------
(***************************************************************************)
(* Translation in the reference interpreter: the NUM_TLB_ENTRIES-entry TLB *)
(* searched in order, the direct-mapped micro-TLB in front of it, the CP0  *)
(* staging registers, the TLB instructions and the co-simulation mirror    *)
(* (interpret.cc va_translate, tlb_probe_ro, iss_apply_tlb_write and the   *)
(* CO=1 cases of execMips).                                                *)
(***************************************************************************)
EXTENDS TlbFormat

CONSTANTS
    UTLB_SZ,      \* slots of the micro-TLB
    WPL,          \* words in a cache line (LG_L1D_CL_LEN)
    FIELD,        \* values of the field read from Index, Random and Wired (the & 63)
    HiWrites,     \* EntryHi values software writes
    LoWrites,     \* EntryLo values software writes
    RandomWrites, \* Random fields software writes
    WiredWrites,  \* Wired fields software writes
    Boot          \* entries the TLB may hold when the run begins

ASSUME UtlbAssumption ==
    /\ UTLB_SZ \in Nat \ {0} /\ WPL \in Nat \ {0}
    /\ HiWrites \subseteq EntryHi /\ LoWrites \subseteq EntryLo /\ Boot \subseteq Entry
    /\ FIELD \in Nat /\ N <= FIELD
    /\ RandomWrites \subseteq 0..(FIELD - 1) /\ WiredWrites \subseteq 0..(FIELD - 1)

VARIABLES
    tlb,                        \* s->tlb
    utlb,                       \* g_utlb
    entryhi, entrylo, pagemask, \* the staging registers; entrylo[0], entrylo[1]
    index, random, wired,       \* fields of CP0 Index (-1: the probe failed), Random, Wired
    xl,                         \* va_translate's call and what it returned (s->tlb_fault, the address)
    g_iss_tlb_ext               \* TRUE: the TLB is written by the RTL's mirror only

tlbvars == <<tlb, utlb, entryhi, entrylo, pagemask, index, random, wired, xl, g_iss_tlb_ext>>

Field   == 0..(FIELD - 1)    \* the last entry of the TLB may be below the last of these
ZeroVpn == [r |-> 0, x |-> 0, m |-> 0, p |-> 0]
Slot    == [valid : BOOLEAN, vpn : Vpn, asid : Asid, ppn : Nat, dirty : BOOLEAN]
(* an invalid slot: its other fields are never read *)
NoSlot  == [valid |-> FALSE, vpn |-> ZeroVpn, asid |-> CHOOSE a \in Asid : TRUE,
            ppn |-> 0, dirty |-> FALSE]

utlb_flush == [i \in 0..(UTLB_SZ - 1) |-> NoSlot]

Staged == [hi |-> entryhi, lo0 |-> entrylo[0], lo1 |-> entrylo[1], pm |-> pagemask]

NoAccess == [va |-> [r |-> 0, x |-> 0, m |-> 0, w |-> 0], op |-> "fetch", exc |-> "none", pa |-> 0]

(* the first entry, in index order, that satisfies the comparison *)
First(S) == CHOOSE i \in S : \A j \in S : i <= j

CamHits(vp, asid) == {i \in Idx : Match(tlb[i], vp, asid)}

(* The TLB holds entries of Boot: what software, or a checkpoint, left there *)
InitTlb ==
    /\ tlb \in [Idx -> Boot] /\ utlb = utlb_flush
    /\ entryhi \in HiWrites /\ entrylo = [b \in {0, 1} |-> tlb[0].lo0]
    /\ pagemask \in {z \in PageSize : \A y \in PageSize : z <= y}
    /\ index = 0 /\ random = N - 1 /\ wired = 0
    /\ xl = NoAccess
    /\ g_iss_tlb_ext \in BOOLEAN

---------------------------------------------------------------------------
(* va_translate, by the path it takes.  va is the effective address, already
   sign-extended when the addressing mode is 32 bits wide (EffVa). *)

EffVa(va, wide) == IF wide THEN va ELSE SignExt(va)
PaOf(ppn, va)   == ppn * WPP + (va.w % WPP)
Returned(va, op, exc, pa) == [va |-> va, op |-> op, exc |-> exc, pa |-> pa]

UtlbSlot(vp)       == vp.p % UTLB_SZ
(* a hit that ignores the ASID *)
UtlbHitAnyAsid(vp, op) == LET ce == utlb[UtlbSlot(vp)] IN
                          ce.valid /\ ce.vpn = vp /\ ~(op = "store" /\ ~ce.dirty)
UtlbHit(vp, op)    == LET ce == utlb[UtlbSlot(vp)] IN
                      /\ ce.valid /\ ce.vpn = vp /\ ce.asid = entryhi.asid
                      /\ ~(op = "store" /\ ~ce.dirty)

XlUnmapped(va, op) ==
    /\ Unmapped(VpnOf(va))
    /\ xl' = Returned(va, op, "none", PaOf(UnmappedPpn(VpnOf(va)), va))
    /\ UNCHANGED <<utlb, entryhi>>

XlUtlb(va, op) ==
    /\ ~Unmapped(VpnOf(va)) /\ UtlbHit(VpnOf(va), op)
    /\ xl' = Returned(va, op, "none", PaOf(utlb[UtlbSlot(VpnOf(va))].ppn, va))
    /\ UNCHANGED <<utlb, entryhi>>

XlCam(va, op) ==
    LET vp == VpnOf(va)
        e  == tlb[First(CamHits(vp, entryhi.asid))] IN
    /\ ~Unmapped(vp) /\ ~UtlbHit(vp, op) /\ CamHits(vp, entryhi.asid) # {}
    /\ EntryExc(e, vp, op) = "none"
    /\ xl' = Returned(va, op, "none", PaOf(PpnOf(e, vp), va))
    /\ utlb' = [utlb EXCEPT ![UtlbSlot(vp)] =
                  [valid |-> TRUE, vpn |-> vp, asid |-> entryhi.asid,
                   ppn |-> PpnOf(e, vp), dirty |-> LoOf(e, vp).d]]
    /\ UNCHANGED entryhi

(* Invalid or Modified at the first matching entry, Refill without one;
   tlb_set_fault_state leaves the address in EntryHi *)
XlFault(va, op) ==
    LET vp == VpnOf(va)
        hits == CamHits(vp, entryhi.asid)
        exc == IF hits = {} THEN "refill" ELSE EntryExc(tlb[First(hits)], vp, op) IN
    /\ ~Unmapped(vp) /\ ~UtlbHit(vp, op) /\ exc # "none"
    /\ xl' = Returned(va, op, exc, 0)
    /\ entryhi' = FaultHi(entryhi, va)
    /\ UNCHANGED utlb

va_translate(va, op) ==
    /\ XlUnmapped(va, op) \/ XlUtlb(va, op) \/ XlCam(va, op) \/ XlFault(va, op)
    /\ UNCHANGED <<tlb, entrylo, pagemask, index, random, wired, g_iss_tlb_ext>>

(* the access is over: its result has been used *)
AccessTaken ==
    /\ xl' = NoAccess
    /\ UNCHANGED <<tlb, utlb, entryhi, entrylo, pagemask, index, random, wired, g_iss_tlb_ext>>

(* tlb_probe_ro's set of physical addresses: empty when it returns false.
   It neither reads the micro-TLB nor knows the addressing mode. *)
tlb_probe_ro(va) ==
    LET vp   == VpnOf(va)
        hits == {i \in Idx : ProbeMatch(tlb[i], vp, entryhi.asid)}
        e    == tlb[First(hits)] IN
    CASE Unmapped(vp)                                -> {PaOf(UnmappedPpn(vp), va)}
      [] ~Unmapped(vp) /\ hits # {} /\ LoOf(e, vp).v -> {PaOf(PpnOf(e, vp), va)}
      [] OTHER                                       -> {}

---------------------------------------------------------------------------
(* The TLB instructions and the mirror *)

(* Index & 63: 0 after a failed probe *)
IndexField == IF index = -1 THEN 0 ELSE index

TLBR == /\ IF IndexField \in Idx
           THEN LET e == tlb[IndexField] IN
                /\ entryhi' = e.hi
                /\ entrylo' = [b \in {0, 1} |-> IF b = 0 THEN e.lo0 ELSE e.lo1]
                /\ pagemask' = e.pm
           ELSE UNCHANGED <<entryhi, entrylo, pagemask>>
        /\ UNCHANGED <<tlb, utlb, index, random, wired, xl, g_iss_tlb_ext>>

(* a TLBWI that forgets the micro-TLB *)
TLBWINoFlush ==
         /\ tlb' = IF ~g_iss_tlb_ext /\ IndexField \in Idx
                   THEN [tlb EXCEPT ![IndexField] = Staged] ELSE tlb
         /\ UNCHANGED <<utlb, entryhi, entrylo, pagemask, index, random, wired, xl, g_iss_tlb_ext>>

TLBWI == /\ tlb' = IF ~g_iss_tlb_ext /\ IndexField \in Idx
                   THEN [tlb EXCEPT ![IndexField] = Staged] ELSE tlb
         /\ utlb' = utlb_flush
         /\ UNCHANGED <<entryhi, entrylo, pagemask, index, random, wired, xl, g_iss_tlb_ext>>

(* a Random that wraps only at Wired itself, though Wired may be raised past it *)
TLBWRAtWired ==
         /\ tlb' = IF ~g_iss_tlb_ext /\ random \in Idx
                   THEN [tlb EXCEPT ![random] = Staged] ELSE tlb
         /\ utlb' = utlb_flush
         /\ random' = IF g_iss_tlb_ext THEN random ELSE IF random = wired THEN N - 1 ELSE random - 1
         /\ UNCHANGED <<entryhi, entrylo, pagemask, index, wired, xl, g_iss_tlb_ext>>

TLBWR == /\ tlb' = IF ~g_iss_tlb_ext /\ random \in Idx
                   THEN [tlb EXCEPT ![random] = Staged] ELSE tlb
         /\ utlb' = utlb_flush
         /\ random' = IF g_iss_tlb_ext THEN random
                      ELSE IF random <= wired THEN N - 1 ELSE random - 1
         /\ UNCHANGED <<entryhi, entrylo, pagemask, index, wired, xl, g_iss_tlb_ext>>

TLBP == LET hits == {i \in Idx : TlbpMatch(tlb[i], entryhi)} IN
        /\ index' = IF hits = {} THEN -1 ELSE First(hits)
        /\ UNCHANGED <<tlb, utlb, entryhi, entrylo, pagemask, random, wired, xl, g_iss_tlb_ext>>

(* an RTL TLB write reaches the checker: always a write of one entry *)
iss_apply_tlb_write(i, e) ==
    /\ tlb' = [tlb EXCEPT ![i] = e]
    /\ utlb' = utlb_flush
    /\ UNCHANGED <<entryhi, entrylo, pagemask, index, random, wired, xl, g_iss_tlb_ext>>

(* mtc0 and dmtc0 to the registers of the TLB, Random too: no value is refused,
   a mapping in use is not touched, and neither is the micro-TLB *)
StageHi == /\ entryhi' \in HiWrites
           /\ UNCHANGED <<tlb, utlb, entrylo, pagemask, index, random, wired, xl, g_iss_tlb_ext>>
StageLo == /\ \E b \in {0, 1}, l \in LoWrites : entrylo' = [entrylo EXCEPT ![b] = l]
           /\ UNCHANGED <<tlb, utlb, entryhi, pagemask, index, random, wired, xl, g_iss_tlb_ext>>
StageMask == /\ pagemask' \in PageSize
             /\ UNCHANGED <<tlb, utlb, entryhi, entrylo, index, random, wired, xl, g_iss_tlb_ext>>
StageIndex == /\ index' \in Field
              /\ UNCHANGED <<tlb, utlb, entryhi, entrylo, pagemask, random, wired, xl, g_iss_tlb_ext>>
StageRandom == /\ random' \in RandomWrites
               /\ UNCHANGED <<tlb, utlb, entryhi, entrylo, pagemask, index, wired, xl, g_iss_tlb_ext>>
StageWired == /\ wired' \in WiredWrites
              /\ UNCHANGED <<tlb, utlb, entryhi, entrylo, pagemask, index, random, xl, g_iss_tlb_ext>>
---------------------------------------------------------------------------
(* Type correctness of the translation state. *)
TlbTypeOK ==
    /\ tlb \in [Idx -> Entry]
    /\ utlb \in [0..(UTLB_SZ - 1) -> Slot]
    /\ entryhi \in EntryHi /\ entrylo \in [{0, 1} -> EntryLo] /\ pagemask \in PageSize
    /\ index \in Field \cup {-1} /\ random \in Field /\ wired \in Field
    /\ xl \in [va : VA, op : {"fetch", "load", "store"},
              exc : {"none", "refill", "invalid", "modified"}, pa : Nat]
    /\ g_iss_tlb_ext \in BOOLEAN

(* The micro-TLB is a pure accelerator (interpret.cc:482): a valid slot holds
   what the search of the TLB would return at this moment for its page and
   ASID - the frame and the dirty bit of the first matching entry - whatever
   writes, probes, faults and ASID changes came in between. *)
UtlbExact ==
    \A i \in DOMAIN utlb : utlb[i].valid =>
        LET ce   == utlb[i]
            hits == CamHits(ce.vpn, ce.asid)
            e    == tlb[First(hits)] IN
        /\ hits # {} /\ LoOf(e, ce.vpn).v
        /\ ce.ppn = PpnOf(e, ce.vpn)
        /\ ce.dirty = LoOf(e, ce.vpn).d

(* The abstract specification, of the state it shares with the interpreter:
   the micro-TLB and the registers that stage a write are not in it. *)
Abstract == INSTANCE TlbSpec WITH tlb <- tlb, entryhi <- entryhi, xl <- xl
=============================================================================
