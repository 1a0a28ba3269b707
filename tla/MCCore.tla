------------------------------ MODULE MCCore ------------------------------
(***************************************************************************)
(* TLC instances of Core: programs of four instructions, with the exception *)
(* vector at address 4 and an ERET there.  Address 3 may miss in the TLB.   *)
(***************************************************************************)
EXTENDS CoreInv, TLC

I(op) == [op |-> op, tgt |-> 0]
B(op, t) == [op |-> op, tgt |-> t]

Prog(a, b, c, d) ==
    (0 :> a) @@ (1 :> b) @@ (2 :> c) @@ (3 :> d)
    @@ (4 :> I("eret")) @@ [n \in 5 .. 7 |-> I("alu")]

mcPrograms ==
    { Prog(B("br", 3), I("mem"), I("trap"), I("of")),
      Prog(B("likely", 3), I("of"), I("ser"), I("cfc1")),
      Prog(B("linklikely", 3), I("nop"), I("cached"), I("mem")),
      Prog(B("br", 2), I("ctc1"), I("cachei"), I("sys")),
      Prog(I("cachei"), B("br", 0), I("sys"), I("alu")),
      Prog(I("nop"), B("likely", 0), I("mem"), I("ctc1")) }

\* The slot of a branch-likely that may be predicted not taken faults.
mcLikelySlot == {Prog(B("linklikely", 3), I("mem"), I("alu"), I("alu"))}

\* A CACHE instruction in a delay slot.
mcCacheSlot == {Prog(B("br", 3), I("cachei"), I("alu"), I("alu"))}
=============================================================================
