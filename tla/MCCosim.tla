------------------------------ MODULE MCCosim ------------------------------
(* Instance of Cosim: four programs, the command lines that matter together *)
EXTENDS Cosim

I(o, r, v) == [op |-> o, r |-> r, v |-> v]
Nop == I("nop", 1, 0)

(* 10..12 is the vector, 13 and 14 the code a wrong branch leads to *)
Tail5 == <<Nop, I("tlbw", 1, 1), I("eret", 1, 0), Nop, Nop>>

(* a load in the delay slot faults until the handler writes the TLB *)
pSlot == <<I("tlbw", 1, 0), I("set", 1, 1), I("br", 1, 6), I("ld", 2, 0), Nop,
           I("cnt", 1, 0), I("inc", 2, 0), I("br", 1, 1), I("inc", 1, 0)>> \o Tail5
(* a load faults on its own, a branch follows the vector's return *)
pLoad == <<I("set", 1, 2), I("ld", 2, 0), I("inc", 2, 0), I("br", 1, 7), I("inc", 1, 0), Nop,
           I("tlbw", 1, 0), I("br", 1, 2), Nop>> \o Tail5
pSys  == <<I("inc", 1, 0), I("sys", 1, 0), I("br", 1, 5), Nop, I("cnt", 2, 0), Nop,
           Nop, Nop, Nop>> \o Tail5
(* a core that waits: only replies of the memory hold off the watchdog *)
pIdle == <<I("nop", 1, 0), I("wait", 1, 0), Nop, Nop, Nop, Nop, Nop, Nop, Nop>> \o Tail5

mcMem == \h800000
mcMc  == \h1fa000c
mcHpc == \h1fb3000
mcScc == \h1fbd983
mcMag == \h1fd0000
mcLines == {mcMem, mcMc, mcHpc, mcScc, mcMag}
D(x) == [b \in 0..15 |-> x]
Rq(o, l, m, x) == [op |-> o, line |-> l, mask |-> m, data |-> IF o = "load" THEN <<>> ELSE D(x)]
DeviceAccesses == {Rq("load", mcMc, 4..7, 0), Rq("store", mcMc, 4..7, 5), Rq("store", mcMc, 4..5, 5),
                   Rq("store", mcHpc, 4..7, 1), Rq("store", mcHpc, 0..3, 1), Rq("load", mcScc, 0..15, 0),
                   Rq("store", mcScc, 7..8, 9), Rq("store", mcMag, 8..8, 1)}
MemoryAccesses == {Rq("load", mcMem, 0..15, 0), Rq("load", mcMem, 1..5, 0), Rq("store", mcMem, 4..9, 3),
                   Rq("store", mcMem, 0..5, 4)}

Base == [checker |-> TRUE, os_mode |-> FALSE, faulty |-> FALSE, irq |-> FALSE, mem |-> {},
         indy |-> FALSE, magic_halt |-> FALSE, snoop_delay |-> 0, snoop_every |-> 1,
         topdown |-> FALSE]
Checked == {[Base EXCEPT !.os_mode = TRUE, !.irq = TRUE], [Base EXCEPT !.faulty = TRUE],
            [Base EXCEPT !.checker = FALSE]}
Port == {[Base EXCEPT !.checker = FALSE, !.mem = DeviceAccesses, !.indy = TRUE, !.magic_halt = TRUE],
         [Base EXCEPT !.checker = FALSE, !.mem = MemoryAccesses, !.snoop_delay = 1],
         [Base EXCEPT !.checker = FALSE, !.mem = MemoryAccesses, !.snoop_delay = 3, !.snoop_every = 2]}
Profile == {[Base EXCEPT !.checker = FALSE, !.topdown = TRUE]}
mcCmdLines == {pSlot, pLoad, pSys} \X Checked \cup {pIdle} \X (Port \cup Profile)
mcLost == <<13, 14>>
=============================================================================
