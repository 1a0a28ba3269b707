------------------------------ MODULE TlbSpec ------------------------------
(***************************************************************************)
(* What the interpreter's address translation promises: an access to a     *)
(* mapped page is answered by an entry that is in the TLB now and matches  *)
(* the address under the current ASID, and raises TLB Refill when there is *)
(* none.  There is no cache of translations here.  Which of several        *)
(* matching entries answers is left open, as the architecture leaves it.   *)
(***************************************************************************)
EXTENDS TlbFormat

VARIABLES tlb, entryhi, xl

vars == <<tlb, entryhi, xl>>

(* xl is the access being answered and its outcome, NoAccess between two *)
NoAccess == [va |-> [r |-> 0, x |-> 0, m |-> 0, w |-> 0], op |-> "fetch", exc |-> "none", pa |-> 0]

Init == tlb \in [Idx -> Entry] /\ entryhi \in EntryHi /\ xl = NoAccess

PaOf(ppn, va) == ppn * WPP + (va.w % WPP)

(* the outcomes an access may have: an exception, or a physical address *)
Outcome(va, op, exc, pa) ==
    LET vp == VpnOf(va) IN
    IF Unmapped(vp) THEN exc = "none" /\ pa = PaOf(UnmappedPpn(vp), va)
    ELSE \/ /\ \A i \in Idx : ~Match(tlb[i], vp, entryhi.asid)
            /\ exc = "refill" /\ pa = 0
         \/ \E i \in Idx :
              /\ Match(tlb[i], vp, entryhi.asid)
              /\ exc = EntryExc(tlb[i], vp, op)
              /\ pa = IF exc = "none" THEN PaOf(PpnOf(tlb[i], vp), va) ELSE 0

Translate(va, op) ==
    /\ xl' = [va |-> va, op |-> op, exc |-> xl'.exc, pa |-> xl'.pa]
    /\ Outcome(va, op, xl'.exc, xl'.pa)
    /\ entryhi' = IF xl'.exc = "none" THEN entryhi ELSE FaultHi(entryhi, va)
    /\ UNCHANGED tlb

(* software, or the co-simulated hardware, rewrites the TLB or EntryHi *)
Write == /\ tlb' \in [Idx -> Entry]
         /\ \E i \in Idx : \A j \in Idx \ {i} : tlb'[j] = tlb[j]
         /\ UNCHANGED <<entryhi, xl>>
SetHi == entryhi' \in EntryHi /\ UNCHANGED <<tlb, xl>>
Taken == xl' = NoAccess /\ UNCHANGED <<tlb, entryhi>>

Next == \/ xl'.va \in VA /\ xl'.op \in {"fetch", "load", "store"} /\ Translate(xl'.va, xl'.op)
        \/ Write
        \/ SetHi
        \/ Taken

Spec == Init /\ [][Next]_vars
=============================================================================
