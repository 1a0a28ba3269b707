------------------------------ MODULE Topdown ------------------------------
(***************************************************************************)
(* The top-down profile of top.cc (--topdown): hooks the core calls at     *)
(* every negative clock edge, which classify the two allocation slots of   *)
(* the cycle and join the stage stamps of a micro-operation by the index   *)
(* of its reorder-buffer entry.                                            *)
(*                                                                         *)
(* The core is external (core.sv, exec.sv under TOPDOWN): a small reorder  *)
(* buffer whose entries are reused, also after a squash.  Its entries      *)
(* carry their own stage times, with which the joined ones are compared.   *)
(***************************************************************************)
EXTENDS Integers, Sequences

CONSTANTS
    TdRob,                \* entries of the reorder buffer (64)
    TdCycles, TdOps,      \* bounds: profiled cycles, operations allocated in them
    TdKinds,              \* kinds of operations
    pipestart, pipeend,   \* the window, in retired instructions
    Skew                  \* the core's r_cycle lags globals::cycle by this

ASSUME TopdownAssumption ==
    /\ TdRob \in Nat \ {0} /\ TdCycles \in Nat /\ TdOps \in Nat /\ Skew \in Nat
    /\ TdKinds \subseteq {"alu", "branch", "load", "store", "nop"}
    /\ pipestart \in Nat /\ pipeend \in Nat

VARIABLES
    tdc,     \* external: the core
    td,      \* the counters and the stamps
    tdh      \* history: allocations in ACTIVE, and the segments of the operations themselves

TX == INSTANCE SequencesExt

tdvars == <<tdc, td, tdh>>

Classes  == {"alu", "branch", "load", "store"}
Reasons  == 1..7
ACTIVE   == 2
RAT      == 4
DELAY_SLOT == 5
NoStamp  == [a |-> 0, q |-> 0, i |-> 0, m |-> 0]
NoSegs   == [k \in Classes |-> [n |-> 0, seg |-> <<0, 0, 0, 0, 0>>]]

TdInit ==
    /\ tdc = [clk |-> 1, st |-> ACTIVE, rob |-> <<>>, tail |-> 0, ops |-> 0]
    /\ td = [slot |-> [i \in 0..(TdRob - 1) |-> NoStamp], cycles |-> 0, retired |-> 0, allocated |-> 0,
             fe_lat |-> 0, fe_bw |-> 0, be |-> [r \in Reasons |-> 0],
             state_cyc |-> [s \in {ACTIVE, RAT, DELAY_SLOT} |-> 0], cls |-> NoSegs,
             record_insns_retired |-> 0, lrc |-> -1, outoforder |-> FALSE, tip |-> 0]
    /\ tdh = [alloc |-> 0, cls |-> NoSegs]

(* n: record_insns_retired when the hook runs *)
InWindow(n) == n >= pipestart /\ n < pipeend
---------------------------------------------------------------------------
(* The hooks: functions of the counters t *)

topdown_cycle(t, n, st, avail, nalloc, nret, be0, be1) ==
    IF ~InWindow(n) THEN t ELSE
    LET u == [t EXCEPT !.cycles = @ + 1, !.retired = @ + nret, !.allocated = @ + nalloc,
                       !.state_cyc[st] = @ + 1]
        slots(r) == (IF be0 = r THEN avail ELSE 0) + (IF be1 = r THEN 1 ELSE 0) IN
    IF st # ACTIVE THEN u
    ELSE [u EXCEPT !.fe_lat = @ + (IF avail = 0 THEN 2 ELSE 0),
                   !.fe_bw  = @ + (IF avail = 1 THEN 1 ELSE 0),
                   !.be = [r \in Reasons |-> @[r] + slots(r)]]

(* an allocation that keeps the other stamps of the entry *)
topdown_uopKeeps(t, c, ev, idx) ==
    [t EXCEPT !.slot[idx] = CASE ev = 0 -> [@ EXCEPT !.a = c]
                              [] ev = 1 -> [@ EXCEPT !.q = c]
                              [] ev = 2 -> [@ EXCEPT !.i = c]
                              [] ev = 3 -> [@ EXCEPT !.m = c]]

(* ev 0: allocation clears the entry's stamps *)
topdown_uop(t, c, ev, idx) ==
    [t EXCEPT !.slot[idx] = CASE ev = 0 -> [NoStamp EXCEPT !.a = c]
                              [] ev = 1 -> [@ EXCEPT !.q = c]
                              [] ev = 2 -> [@ EXCEPT !.i = c]
                              [] ev = 3 -> [@ EXCEPT !.m = c]]

(* the segments alloc-sched-issue-complete, alloc-complete, complete-retire;
   an operation that was never issued is skipped *)
Segments(e, c, r) ==
    LET start == IF e.m # 0 THEN e.m ELSE e.i
        q == IF e.m # 0 THEN e.m ELSE IF e.q # 0 THEN e.q ELSE start IN
    <<q - e.a, start - q, c - start, c - e.a, r - c>>
ClassOf(e, is_br, is_store) == IF e.m # 0 THEN (IF is_store THEN "store" ELSE "load")
                               ELSE IF is_br THEN "branch" ELSE "alu"
Accumulate(cls, k, seg) == [cls EXCEPT ![k] = [n |-> @.n + 1, seg |-> [j \in 1..5 |-> @.seg[j] + seg[j]]]]

topdown_retire_uop(t, n, now, idx, complete_c, retire_c, is_br, is_store) ==
    LET e == t.slot[idx]
        c == complete_c + (now - retire_c) IN
    IF ~InWindow(n) \/ e.a = 0 \/ c < e.a \/ (e.m = 0 /\ e.i = 0) THEN t
    ELSE [t EXCEPT !.cls = Accumulate(@, ClassOf(e, is_br, is_store), Segments(e, c, now))]

(* retirement cycles out of order end the simulator *)
record_retirement(t, retire_cycle) ==
    [t EXCEPT !.outoforder = @ \/ retire_cycle < t.lrc, !.lrc = retire_cycle,
              !.record_insns_retired = @ + 1]
---------------------------------------------------------------------------
(* One negative edge of the core (core.sv).  An operation is [idx, kind, a, q,
   i, m, c], with 0 for a stage it has not reached. *)

IsMem(u) == u.kind \in {"load", "store"}

(* the next stage of an operation: the event its stamp is reported with, 4 when
   it completes *)
StageEv(u) == CASE u.c # 0                                     -> 0
                [] u.kind = "nop" /\ u.c = 0                   -> 4
                [] IsMem(u) /\ u.c = 0                         -> IF u.m = 0 THEN 3 ELSE 4
                [] u.kind \in {"alu", "branch"} /\ u.c = 0     -> IF u.q = 0 THEN 1 ELSE IF u.i = 0 THEN 2 ELSE 4
StageNow(u, c) == CASE StageEv(u) = 1 -> [u EXCEPT !.q = c]
                    [] StageEv(u) = 2 -> [u EXCEPT !.i = c]
                    [] StageEv(u) = 3 -> [u EXCEPT !.m = c]
                    [] StageEv(u) = 4 -> [u EXCEPT !.c = c]
                    [] StageEv(u) = 0 -> u

Fresh(idx, k, c) == [idx |-> idx, kind |-> k, a |-> c, q |-> 0, i |-> 0, m |-> 0, c |-> 0]
Own(u) == [a |-> u.a, q |-> u.q, i |-> u.i, m |-> u.m]

(* core.sv: a reason is reported for slot 0 when something was offered and
   nothing allocated, for slot 1 when two were offered and one allocated *)
Why0(avail, nalloc, r) == IF avail # 0 /\ nalloc = 0 THEN r ELSE 0
Why1(avail, nalloc, r) == IF avail = 2 /\ nalloc = 1 THEN r ELSE 0

Retirable(rob, clk, n) == Len(rob) >= n /\ \A j \in 1..n : rob[j].c # 0 /\ rob[j].c < clk

(* the hooks of one edge, in an order: seen is the count they find *)
RetireHook(t, seen, u) ==
    topdown_retire_uop(t, seen, tdc.clk, u.idx, u.c - Skew, tdc.clk - Skew,
                       u.kind = "branch", u.kind = "store")
AllocHook(t, nalloc) ==
    LET one == IF nalloc > 0 THEN topdown_uop(t, tdc.clk, 0, tdc.tail) ELSE t IN
    IF nalloc > 1 THEN topdown_uop(one, tdc.clk, 0, (tdc.tail + 1) % TdRob) ELSE one
StageHook(t, rob) == TX!FoldLeft(LAMBDA x, u : IF StageEv(u) \in {0, 4} THEN x
                                               ELSE topdown_uop(x, tdc.clk, StageEv(u), u.idx), t, rob)
Retired(t, n) == LET one == IF n > 0 THEN record_retirement(t, tdc.clk - Skew) ELSE t IN
                 IF n > 1 THEN record_retirement(one, tdc.clk - Skew) ELSE one

TdClock ==
    /\ tdc.clk <= TdCycles
    /\ \E avail \in 0..2, nret \in 0..2, before \in BOOLEAN, k \in TdKinds :
       \E nalloc \in 0..avail :
         /\ Len(tdc.rob) + nalloc <= TdRob /\ tdc.ops + avail <= TdOps
         /\ tdc.st = RAT => nalloc = 0 /\ nret = 0
         /\ tdc.st = DELAY_SLOT => nalloc <= 1
         /\ Retirable(tdc.rob, tdc.clk, nret)
         /\ nret = 0 => ~before
         /\ nalloc = 0 => k = CHOOSE x \in TdKinds : TRUE
         /\ LET busy == IF tdc.st = RAT THEN <<>> ELSE tdc.rob
                rob1 == IF busy = <<>> THEN tdc.rob ELSE [j \in DOMAIN busy |-> StageNow(busy[j], tdc.clk)]
                new  == [x \in 1..nalloc |-> Fresh((tdc.tail + x - 1) % TdRob, k, tdc.clk)]
                seen == IF before THEN td.record_insns_retired + nret ELSE td.record_insns_retired
                t1 == AllocHook(StageHook(td, busy), nalloc)
                t2 == IF nret > 0 THEN RetireHook(t1, seen, tdc.rob[1]) ELSE t1
                t3 == IF nret > 1 THEN RetireHook(t2, seen, tdc.rob[2]) ELSE t2
                counted(x) == InWindow(seen) /\ x.kind # "nop" IN
            /\ td' = Retired(topdown_cycle(t3, seen, tdc.st, avail, nalloc, nret,
                                           Why0(avail, nalloc, 1), Why1(avail, nalloc, 7)), nret)
            /\ \E st \in IF tdc.st = ACTIVE THEN {ACTIVE, DELAY_SLOT}
                         ELSE IF tdc.st = DELAY_SLOT THEN {RAT} ELSE {ACTIVE} :
                 tdc' = [clk |-> tdc.clk + 1, st |-> st,
                         rob |-> IF tdc.st = RAT THEN <<>> ELSE SubSeq(rob1, nret + 1, Len(rob1)) \o new,
                         tail |-> IF tdc.st = RAT THEN 0 ELSE (tdc.tail + nalloc) % TdRob,
                         ops |-> tdc.ops + nalloc]
            /\ LET add(cls, x) == IF counted(x)
                                  THEN Accumulate(cls, x.kind, Segments(Own(x), x.c, tdc.clk)) ELSE cls
                   c1 == IF nret > 0 THEN add(tdh.cls, tdc.rob[1]) ELSE tdh.cls IN
               tdh' = [alloc |-> tdh.alloc + (IF tdc.st = ACTIVE /\ InWindow(seen) THEN nalloc ELSE 0),
                       cls |-> IF nret > 1 THEN add(c1, tdc.rob[2]) ELSE c1]

(* the loop's own attribution of the cycle (tip_map), in halves of a cycle: to
   the last retired pc, to the head, or to the retiring operations *)
Tip(empty, one, two) == CASE empty                    -> 2
                          [] ~empty /\ ~(one \/ two)  -> 2
                          [] ~empty /\ one /\ two     -> 1 + 1
                          [] OTHER                    -> 2
---------------------------------------------------------------------------
(* Every allocation slot of an ACTIVE cycle in the window is accounted for
   once: filled, not offered (frontend), or offered and blocked for a reason
   (backend).  The stage times joined by reorder-buffer index are those of the
   operation that retires, never of an earlier owner of the entry; the five
   segments partition its life; and TIP adds up to the cycles. *)
SlotsAccounted ==
    /\ td.fe_lat + td.fe_bw + td.be[1] + td.be[7] + tdh.alloc = 2 * td.state_cyc[ACTIVE]
    /\ td.cycles = td.state_cyc[ACTIVE] + td.state_cyc[RAT] + td.state_cyc[DELAY_SLOT]
    /\ td.cls = tdh.cls
    /\ \A k \in Classes : LET s == td.cls[k].seg IN s[1] + s[2] + s[3] = s[4]
    /\ ~td.outoforder
=============================================================================
