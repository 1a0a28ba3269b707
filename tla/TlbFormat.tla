----------------------------- MODULE TlbFormat -----------------------------
(***************************************************************************)
(* Addresses and TLB entries of the reference interpreter (interpret.cc,   *)
(* interpret.hh), and the three comparisons the code makes between them.   *)
(*                                                                         *)
(* A virtual address is cut where the code cuts it: r is VA[63:62], x is   *)
(* VA[61:SEGBITS], m is VA[SEGBITS-1:32] and w is the word number within   *)
(* VA[31:0].  Page numbers count 4 KB pages; a physical address is a word  *)
(* number.  The field widths are parameters: only their order matters.     *)
(***************************************************************************)
EXTENDS Integers

CONSTANTS
    WPP,          \* words in a 4 KB page
    PGS,          \* pages in one of the eight segments of VA[31:0]
    MMax, XMax,   \* largest value of the fields m and x
    N,            \* NUM_TLB_ENTRIES
    Asid,         \* address-space identifiers
    PageSize,     \* page sizes in 4 KB pages, the meaning of PageMask
    Pfn           \* page frame numbers

ASSUME FormatAssumption ==
    /\ WPP \in Nat \ {0} /\ PGS \in Nat \ {0} /\ MMax \in Nat /\ XMax \in Nat
    /\ N \in Nat \ {0} /\ PageSize \subseteq Nat \ {0} /\ Pfn \subseteq Nat

LoPages == 8 * PGS
VA      == [r : 0..3, x : 0..XMax, m : 0..MMax, w : 0..(LoPages * WPP - 1)]
Vpn     == [r : 0..3, x : 0..XMax, m : 0..MMax, p : 0..(LoPages - 1)]
EntryHi == [r : 0..3, x : 0..XMax, vpn2 : Nat, asid : Asid]
EntryLo == [pfn : Pfn, v : BOOLEAN, d : BOOLEAN, g : BOOLEAN]
Entry   == [hi : EntryHi, lo0 : EntryLo, lo1 : EntryLo, pm : PageSize]
Idx     == 0..(N - 1)

(* va >> 12 *)
VpnOf(va) == [r |-> va.r, x |-> va.x, m |-> va.m, p |-> va.w \div WPP]

(* hi32 == 0 || hi32 == 0xffffffff *)
Narrow(vp) == \/ vp.r = 0 /\ vp.x = 0 /\ vp.m = 0
              \/ vp.r = 3 /\ vp.x = XMax /\ vp.m = MMax

(* (uint64_t)(int64_t)(int32_t)va *)
SignExt(va) == IF va.w \div WPP >= 4 * PGS
               THEN [r |-> 3, x |-> XMax, m |-> MMax, w |-> va.w]
               ELSE [r |-> 0, x |-> 0, m |-> 0, w |-> va.w]

(* kseg0 and kseg1, and xkphys: no lookup.  Their page frame. *)
Unmapped(vp)    == IF Narrow(vp) THEN (vp.p \div PGS) \in {4, 5} ELSE vp.r = 2
UnmappedPpn(vp) == IF Narrow(vp) THEN vp.p % PGS ELSE vp.p

(* VA[SEGBITS-1:12], the page number an EntryHi's VPN2 is compared with *)
VPage(vp) == vp.m * LoPages + vp.p

Global(e) == e.lo0.g /\ e.lo1.g
AsidMatch(e, asid) == Global(e) \/ e.hi.asid = asid

(* va_translate's CAM comparison: R and VPN2 under the page mask; VA[61:40]
   takes no part *)
Match(e, vp, asid) ==
    /\ vp.r = e.hi.r
    /\ VPage(vp) \div (2 * e.pm) = e.hi.vpn2 \div e.pm
    /\ AsidMatch(e, asid)

(* tlb_probe_ro's comparison: a narrow address by VA[31:0] alone, a wide one
   by every bit *)
ProbeMatch(e, vp, asid) ==
    /\ IF Narrow(vp)
       THEN vp.p \div (2 * e.pm) = (e.hi.vpn2 \div e.pm) % (LoPages \div (2 * e.pm))
       ELSE Match(e, vp, asid) /\ vp.x = e.hi.x
    /\ AsidMatch(e, asid)

(* TLBP's comparison of the staged EntryHi with an entry: every bit above the
   page mask *)
TlbpMatch(e, hi) ==
    /\ hi.r = e.hi.r /\ hi.x = e.hi.x
    /\ hi.vpn2 \div e.pm = e.hi.vpn2 \div e.pm
    /\ AsidMatch(e, hi.asid)

(* the half of the pair the address selects, and the frame of its page.  The
   code ORs the frame with the offset in the page, which adds them as software
   aligns a frame to its page size *)
LoOf(e, vp)  == IF (VPage(vp) \div e.pm) % 2 = 1 THEN e.lo1 ELSE e.lo0
PpnOf(e, vp) == LoOf(e, vp).pfn + (VPage(vp) % e.pm)

(* EntryHi as a TLB exception on va leaves it: VPN2 and R of the faulting
   address, the software's ASID *)
FaultHi(hi, va) == [r |-> va.r, x |-> 0, vpn2 |-> VPage(VpnOf(va)) \div 2, asid |-> hi.asid]

(* the address an EntryHi value stands for when software writes it *)
HiOf(va, asid) == [r |-> va.r, x |-> va.x, vpn2 |-> VPage(VpnOf(va)) \div 2, asid |-> asid]

(* the exception an operation meets at a matching entry *)
EntryExc(e, vp, op) == CASE ~LoOf(e, vp).v                   -> "invalid"
                         [] op = "store" /\ LoOf(e, vp).v /\ ~LoOf(e, vp).d -> "modified"
                         [] OTHER                            -> "none"
=============================================================================
