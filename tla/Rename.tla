------------------------------ MODULE Rename ------------------------------
(***************************************************************************)
(* Register renaming in core.sv: the speculative and the retirement RATs,   *)
(* the speculative and the retirement free lists, and the part of the ROB   *)
(* entry they use.                                                         *)
(*                                                                         *)
(* The four register files (GPR, FP, HILO, FCR) have a RAT and two free     *)
(* lists each.  Their registers have different names here, so that one      *)
(* function and two sets stand for the four copies side by side; LFile and  *)
(* PFile tell the files apart.                                               *)
(*                                                                         *)
(* A clock cycle in ACTIVE may both rename and retire, each from the state  *)
(* at the start of the cycle.  Renaming only takes registers that were free *)
(* then, and retiring looks at entries that were there then, so the cycle   *)
(* is the Alloc step followed by the Retire step.                           *)
(***************************************************************************)
EXTENDS Naturals, Sequences, FiniteSets

CONSTANTS
    LReg,       \* logical registers of all files
    PReg,       \* physical registers of all files, numbered
    None,       \* no register
    LFile,      \* the file of a logical register
    PFile,      \* the file of a physical register
    MemBank,    \* physical registers of the upper half (ptr MSB = 1)
    Reset,      \* the mapping after reset
    Uops,       \* the uops the decoder may hand over
    RobEntries  \* ROB_ENTRIES

File == {"gpr", "fp", "hilo", "fcr"}

LRegOrNone == LReg \cup {None}
PRegOrNone == PReg \cup {None}

\* uop_t, as far as renaming reads it.
Uop == [dst : LRegOrNone, srcA : LRegOrNone, srcB : LRegOrNone,
        is_mem : BOOLEAN, is_store : BOOLEAN]

ASSUME RegAssumption ==
    /\ PReg \subseteq Nat
    /\ None \notin LReg /\ None \notin PReg
    /\ LFile \in [LReg -> File]
    /\ PFile \in [PReg -> File]
    /\ MemBank \subseteq PReg
    /\ Uops \subseteq Uop
    /\ RobEntries \in Nat \ {0}

ASSUME ResetAssumption ==
    /\ Reset \in [LReg -> PReg]
    /\ \A l, m \in LReg : Reset[l] = Reset[m] => l = m
    /\ \A l \in LReg : PFile[Reset[l]] = LFile[l]

VARIABLES
    rat,        \* r_alloc_rat and the FP, HILO, FCR ones
    free,       \* r_prf_free ...
    rrat,       \* r_retire_rat ...
    rfree,      \* r_retire_prf_free ...
    rob,        \* live ROB entries, oldest first
    late,       \* store data left unread by stores that have retired
    phase       \* "active", or waiting for the RAT state: "drain", "fault"

vars == <<rat, free, rrat, rfree, rob, late, phase>>

\* The fields of a ROB entry that renaming and retirement use, and the operands
\* of its uop.  srcA and srcB are read at execution; data is the operand that
\* the store-data path has still to read.
Entry == [dst : LRegOrNone, pdst : PRegOrNone, old : PRegOrNone,
          srcA : PRegOrNone, srcA_arch : LRegOrNone,
          srcB : PRegOrNone, data : PRegOrNone,
          complete : BOOLEAN, sd_complete : BOOLEAN]

TypeOK ==
    /\ rat \in [LReg -> PReg]
    /\ rrat \in [LReg -> PReg]
    /\ free \subseteq PReg
    /\ rfree \subseteq PReg
    /\ rob \in Seq(Entry)
    /\ late \subseteq PReg
    /\ phase \in {"active", "drain", "fault"}

Init ==
    /\ rat = Reset
    /\ rrat = Reset
    /\ free = PReg \ {Reset[l] : l \in LReg}
    /\ rfree = PReg \ {Reset[l] : l \in LReg}
    /\ rob = <<>>
    /\ late = {}
    /\ phase = "active"

-----------------------------------------------------------------------------
(* Free-list pools.                                                         *)

EvenBank == {p \in PReg : p % 2 = 0}

\* The registers a uop's result may be renamed to: GPRs by half (is_mem) and
\* parity, FP registers by half, HILO and FCR from the whole list.
Pool(u, even) ==
    {p \in PReg :
        /\ PFile[p] = LFile[u.dst]
        /\ PFile[p] \in {"gpr", "fp"} => (p \in MemBank <=> u.is_mem)
        /\ PFile[p] = "gpr" => (p \in EvenBank <=> even)}

\* Each half of a file has more registers than the file has logical ones: 64 for
\* 32 GPRs or FP registers; HILO and FCR have 4 for one.
ASSUME CapacityAssumption ==
    /\ IsFiniteSet(LReg)
    /\ \A u \in Uops : u.dst # None =>
          Cardinality({l \in LReg : LFile[l] = LFile[u.dst]})
              < Cardinality(Pool(u, TRUE) \cup Pool(u, FALSE))

\* find_lowest_set_bit over a pool.
Lowest(S) == CHOOSE p \in S : \A q \in S : p <= q

HasDst(u) == u.dst # None

\* t_enough_iprfs, t_enough_fprfs, t_enough_hlprfs, t_enough_fcrprfs.
Enough(u, even) == HasDst(u) => Pool(u, even) \cap free # {}

\* n_prf_entry, n_fp_prf_entry, n_hilo_prf_entry, n_fcr_prf_entry.
NewReg(u, even) == IF HasDst(u) THEN Lowest(Pool(u, even) \cap free) ELSE None

-----------------------------------------------------------------------------
(* Renaming.                                                                *)

Mapped(l) == IF l = None THEN None ELSE rat[l]

BypassedStale(l, u1, p1) == Mapped(l)

\* Lookup for the second uop of a pair: the first one's result bypasses the RAT.
Bypassed(l, u1, p1) == IF l # None /\ l = u1.dst THEN p1 ELSE Mapped(l)

\* exec.sv: a memory uop's integer srcB and the FP srcB of a store are read by
\* the store-data path.
HasStoreData(u) ==
    u.is_mem /\ u.srcB # None /\ (LFile[u.srcB] = "gpr" \/ u.is_store)

SdCompleteIntOnly(u) == ~(u.is_mem /\ u.srcB # None /\ LFile[u.srcB] = "gpr")

\* core.sv's r_rob_sd_complete at allocation, which must match.
SdCompleteAtAlloc(u) ==
    ~(u.is_mem /\ u.srcB # None /\ (LFile[u.srcB] = "gpr" \/ u.is_store))

\* t_fold_uop: NOP, J and the pseudo-uops of fetch faults and interrupts are
\* complete as they enter the ROB.
Fold(u) == u.dst = None /\ u.srcA = None /\ u.srcB = None /\ ~u.is_mem

\* t_rob_tail and t_rob_next_tail: u renamed to p; old, a and b are what its
\* logical registers map to.
NewEntry(u, p, old, a, b) ==
    [dst |-> u.dst, pdst |-> p, old |-> old,
     srcA |-> a, srcA_arch |-> u.srcA,
     srcB |-> IF HasStoreData(u) THEN None ELSE b,
     data |-> IF HasStoreData(u) THEN b ELSE None,
     complete |-> Fold(u), sd_complete |-> SdCompleteAtAlloc(u)]

FirstEntry(u, p) == NewEntry(u, p, Mapped(u.dst), Mapped(u.srcA), Mapped(u.srcB))

SecondEntry(u1, p1, u, p) ==
    NewEntry(u, p, Bypassed(u.dst, u1, p1), Bypassed(u.srcA, u1, p1),
                   Bypassed(u.srcB, u1, p1))

Remap(r, u, p) == IF HasDst(u) THEN [r EXCEPT ![u.dst] = p] ELSE r

\* t_alloc.  even is r_bank_sel, which toggles every cycle.
Alloc(u, even) ==
    /\ phase = "active"
    /\ Len(rob) < RobEntries
    /\ Enough(u, even)
    /\ LET p == NewReg(u, even)
       IN  /\ rat' = Remap(rat, u, p)
           /\ free' = free \ {p}
           /\ rob' = Append(rob, FirstEntry(u, p))
    /\ UNCHANGED <<rrat, rfree, late, phase>>

SecondFitsTwoFp(u1, u2, even) ==
    /\ Enough(u2, ~even)
    /\ HasDst(u2) => LFile[u2.dst] \in {"gpr", "fp"}

\* The second uop of a pair needs a free register of its own: GPRs from the
\* other parity; at most one FP result a cycle; no HILO or FCR result.
SecondFits(u1, u2, even) ==
    /\ Enough(u2, ~even)
    /\ HasDst(u2) => /\ LFile[u2.dst] \in {"gpr", "fp"}
                     /\ LFile[u2.dst] = "fp" =>
                            ~(HasDst(u1) /\ LFile[u1.dst] = "fp")

\* t_alloc_two.
AllocTwo(u1, u2, even) ==
    /\ phase = "active"
    /\ Len(rob) + 1 < RobEntries
    /\ Enough(u1, even)
    /\ SecondFits(u1, u2, even)
    /\ LET p1 == NewReg(u1, even)
           p2 == NewReg(u2, ~even)
       IN  /\ rat' = Remap(Remap(rat, u1, p1), u2, p2)
           /\ free' = free \ {p1, p2}
           /\ rob' = Append(Append(rob, FirstEntry(u1, p1)),
                            SecondEntry(u1, p1, u2, p2))
    /\ UNCHANGED <<rrat, rfree, late, phase>>

-----------------------------------------------------------------------------
(* Execution reads the operands and marks the entry.                        *)

\* complete_bundle_1/2 or core_mem_rsp.
Complete(i) ==
    /\ ~rob[i].complete
    /\ rob' = [rob EXCEPT ![i].complete = TRUE]
    /\ UNCHANGED <<rat, free, rrat, rfree, late, phase>>

\* core_store_data_ptr: the data half of a store has been read.
StoreData(i) ==
    /\ rob[i].data # None
    /\ rob' = [rob EXCEPT ![i].data = None, ![i].sd_complete = TRUE]
    /\ UNCHANGED <<rat, free, rrat, rfree, late, phase>>

-----------------------------------------------------------------------------
(* Retirement.                                                              *)

HeadComplete(e) == e.complete /\ e.sd_complete

\* n_retire_rat, n_retire_prf_free and the freed old_pdst for one entry.
RetireRat(r, e) == IF e.dst = None THEN r ELSE [r EXCEPT ![e.dst] = e.pdst]
RetireFreeKeepsPdst(f, e) == IF e.dst = None THEN f ELSE f \cup {e.old}
RetireFree(f, e) == IF e.dst = None THEN f ELSE (f \ {e.pdst}) \cup {e.old}
Released(f, e) == IF e.dst = None THEN f ELSE f \cup {e.old}

\* A store that retires without its data (exec.sv keeps retired stores in the
\* memory scheduler until they commit) would still have to read this.
DataLeft(e) == {e.data} \ {None}

\* t_retire.  A retired faulted entry (a mispredicted branch) starts a drain,
\* in which only its delay slot may still retire.
Retire(next) ==
    /\ phase \in {"active", "drain"}
    /\ rob # <<>>
    /\ HeadComplete(Head(rob))
    /\ rrat' = RetireRat(rrat, Head(rob))
    /\ rfree' = RetireFree(rfree, Head(rob))
    /\ free' = Released(free, Head(rob))
    /\ rob' = Tail(rob)
    /\ late' = late \cup DataLeft(Head(rob))
    /\ phase' = next
    /\ UNCHANGED rat

\* t_retire_two: never a HILO or FCR result in the second place.
RetireTwo ==
    /\ phase = "active"
    /\ Len(rob) >= 2
    /\ HeadComplete(rob[1]) /\ HeadComplete(rob[2])
    /\ rob[2].dst # None => LFile[rob[2].dst] \in {"gpr", "fp"}
    /\ rrat' = RetireRat(RetireRat(rrat, rob[1]), rob[2])
    /\ rfree' = RetireFree(RetireFree(rfree, rob[1]), rob[2])
    /\ free' = Released(Released(free, rob[1]), rob[2])
    /\ rob' = Tail(Tail(rob))
    /\ late' = late \cup DataLeft(rob[1]) \cup DataLeft(rob[2])
    /\ UNCHANGED <<rat, phase>>

\* t_bump_rob_head without t_retire (ARCH_FAULT): the faulting entry leaves the
\* ROB and changes no register state.
Bump ==
    /\ rob # <<>>
    /\ HeadComplete(Head(rob))
    /\ rob' = Tail(rob)
    /\ phase' = "fault"
    /\ UNCHANGED <<rat, free, rrat, rfree, late>>

RatCopyKeepsFree ==
    /\ phase # "active"
    /\ rat' = rrat
    /\ rob' = <<>>
    /\ phase' = "active"
    /\ UNCHANGED <<free, rrat, rfree, late>>

\* The RAT state: t_rat_copy and t_clr_rob.
RatCopy ==
    /\ phase # "active"
    /\ rat' = rrat
    /\ free' = rfree
    /\ rob' = <<>>
    /\ phase' = "active"
    /\ UNCHANGED <<rrat, rfree, late>>

-----------------------------------------------------------------------------
Next ==
    \/ \E u \in Uops, even \in BOOLEAN : Alloc(u, even)
    \/ \E u1, u2 \in Uops, even \in BOOLEAN : AllocTwo(u1, u2, even)
    \/ \E i \in 1 .. Len(rob) : Complete(i)
    \/ \E i \in 1 .. Len(rob) : StoreData(i)
    \/ \E next \in {phase, "drain"} : Retire(next)
    \/ RetireTwo
    \/ Bump
    \/ RatCopy

Spec == Init /\ [][Next]_vars

-----------------------------------------------------------------------------
(* Properties.                                                              *)

Held(r) == {r[l] : l \in LReg}
Writers(b) == {i \in 1 .. Len(b) : b[i].dst # None}
Old(b) == {b[i].old : i \in Writers(b)}
Injective(r) == \A l, m \in LReg : r[l] = r[m] => l = m

Partition(r, f, b) ==
    /\ \A p \in PReg : p \in f \/ p \in Held(r) \/ p \in Old(b)
    /\ f \cap Held(r) = {} /\ f \cap Old(b) = {} /\ Held(r) \cap Old(b) = {}
    /\ Injective(r)
    /\ \A i, j \in Writers(b) : b[i].old = b[j].old => i = j

\* Every physical register is in exactly one place: free, mapped by the RAT, or
\* the previous mapping an in-flight entry will release.  (The [DBLFREE] and
\* [DBLALLOC] checks of core.sv, which a register handed out twice on silicon
\* led to.)  After a fault bumps its entry the list is not used again before
\* the copy.
Ownership == phase # "fault" => Partition(rat, free, rob)

\* So is every register on the retirement side, in every phase: what the RAT
\* state copies is a consistent map and free list, and no register of a
\* squashed instruction is lost.
RetiredOwnership == rfree = PReg \ Held(rrat) /\ Injective(rrat)

\* The operands an entry has still to read.
Unread(e) == {e.data} \cup (IF e.complete THEN {} ELSE {e.srcA, e.srcB})

\* A register that an instruction, in flight or retired, has still to read is
\* not on the free list, so no younger one is given it.  The data operand of an
\* FP store was once freed early (core.sv's comment at r_rob_sd_complete).
OperandHeld ==
    /\ \A i \in 1 .. Len(rob) : Unread(rob[i]) \cap free = {}
    /\ late \cap free = {}

\* The retire trace's self-check (rob.vh: srcA_ptr is the producer's pdst): the
\* operand of the oldest instruction is the register that holds the committed
\* value of its logical name.
SourceCurrent ==
    rob # <<>> /\ phase # "fault" /\ Head(rob).srcA_arch # None =>
        Head(rob).srcA = rrat[Head(rob).srcA_arch]

\* With nothing in flight, one of the two parities has a register for any uop:
\* renaming cannot wedge however results were spread over the banks before.
NeverWedged ==
    rob = <<>> /\ phase = "active" =>
        \A u \in Uops : \E even \in BOOLEAN : Enough(u, even)

-----------------------------------------------------------------------------
(* The inductive invariant: what the maps, the lists and the entries in      *)
(* flight say of each other while the ROB is whole.                         *)

\* p is the committed mapping of l, or the result of an entry before n that
\* writes l.
Linked(rr, b, n, l, p) ==
    p = rr[l] \/ \E j \in 1 .. n - 1 : b[j].dst = l /\ p = b[j].pdst

\* Operand s of entry n is still mapped, or is released by n or a younger entry.
Kept(r, b, n, s) ==
    s = None \/ s \in Held(r) \/ \E k \in n .. Len(b) : b[k].dst # None /\ s = b[k].old

\* No store retires without its data.
DataFirst ==
    /\ late = {}
    /\ \A i \in 1 .. Len(rob) : rob[i].sd_complete => rob[i].data = None

Consistent(r, f, rr, rf, b) ==
    /\ r \in [LReg -> PReg] /\ rr \in [LReg -> PReg]
    /\ f \subseteq rf /\ rf \subseteq PReg
    /\ b \in Seq(Entry)
    /\ Partition(r, f, b)
    /\ rf = PReg \ Held(rr) /\ Injective(rr)
    /\ \A i \in Writers(b) : b[i].pdst \in rf \ f /\ b[i].old \in PReg
    /\ \A i, j \in Writers(b) : b[i].pdst = b[j].pdst => i = j
    /\ \A l \in LReg : Linked(rr, b, Len(b) + 1, l, r[l])
    /\ \A n \in Writers(b) : Linked(rr, b, n, b[n].dst, b[n].old)
    /\ \A n \in 1 .. Len(b) :
           b[n].srcA_arch # None => Linked(rr, b, n, b[n].srcA_arch, b[n].srcA)
    /\ \A n \in 1 .. Len(b) : /\ Kept(r, b, n, b[n].srcA)
                               /\ Kept(r, b, n, b[n].srcB)
                               /\ Kept(r, b, n, b[n].data)

\* While no fault has broken the ROB, the two sides agree entry by entry (the
\* RAT is the committed map with the in-flight writes applied); in every phase
\* the committed side is whole and pending operands are held.
RenameInv ==
    /\ TypeOK
    /\ RetiredOwnership
    /\ DataFirst
    /\ OperandHeld
    /\ phase # "fault" => Consistent(rat, free, rrat, rfree, rob)

\* A logical register is mapped to a physical one of its file, in both maps and
\* by every entry in flight.
InFile(r) == \A l \in LReg : PFile[r[l]] = LFile[l]
WritesInFile(b) == \A i \in 1 .. Len(b) : b[i].dst # None => PFile[b[i].pdst] = LFile[b[i].dst]
FilesKept == InFile(rat) /\ InFile(rrat) /\ WritesInFile(rob)
=============================================================================
