------------------------------- MODULE Cosim -------------------------------
(***************************************************************************)
(* The simulation loop of top.cc: the RTL is clocked, what it retires is   *)
(* replayed in the reference interpreter and compared, its TLB writes and  *)
(* interrupts are mirrored, and its memory port and snoop port are served. *)
(*                                                                         *)
(* The core and its L2 are abstract: an in-order machine that retires up   *)
(* to two instructions a cycle, takes exceptions and interrupts, executes  *)
(* a TLB write before it retires, and may be wrong once (flt).  Programs   *)
(* are small tables of instructions; the interpreter's step is the one of  *)
(* module Iss reduced to what the comparison sees: a branch and its delay  *)
(* slot are one step.                                                      *)
(***************************************************************************)
EXTENDS Devices, Topdown, FiniteSets

CONSTANTS
    CmdLines,       \* pairs of a program (a sequence of instructions) and options; opt.mem
                    \* is the set of accesses the core may make, opt.faulty and opt.irq
                    \* whether it may err or be interrupted
    RtlVec, SimVec, \* the vector areas as the loop tests them for the RTL and the interpreter
    VecPc,          \* the vector
    Lost,           \* where a mis-resolved branch leads: code the program never reaches
    GMax,           \* general registers hold 0..GMax
    WATCHDOG,       \* cycles without a retirement or a reply (2^16)
    SNOOPQ,         \* length of the snoop queue (256)
    Lat,            \* latencies of the memory
    MaxReq          \* bound: requests in a run

ASSUME CosimAssumption ==
    /\ RtlVec \subseteq SimVec /\ VecPc \in RtlVec /\ GMax \in Nat
    /\ WATCHDOG \in Nat /\ SNOOPQ \in Nat /\ Lat \subseteq Nat \ {0} /\ MaxReq \in Nat

(* a command line: what the core may ask of its memory port, one load in
   snoop_every is snooped snoop_delay cycles later *)
IsRequest(q) ==
    /\ DOMAIN q = {"op", "line", "mask", "data"}
    /\ q.op \in {"load", "store"} /\ q.line \in Lines /\ q.mask \subseteq Bytes16

ASSUME CmdAssumption ==
    \A c \in CmdLines : /\ \A q \in c[2].mem : IsRequest(q)
                        /\ c[2].snoop_every \in Nat \ {0} /\ c[2].snoop_delay \in Nat

VARIABLES
    prog, opt,                   \* the program and the options, fixed
    ph,                          \* the step of the loop body that comes next
    rtl, out,                    \* the abstract core, and what it shows this cycle
    sgpr, ss,                    \* s->gpr (the RTL's registers) and ss (the interpreter)
    g_pend_tlb,                  \* the TLB mirror queue
    last_check, last_retire,     \* counters of the checker and of the watchdog
    verdict,                     \* "run", or why the loop ended
    req, mem_reply,              \* the memory request, cycles to its reply (mem_reply_cycle)
    rsp, soc, sim_halted,        \* the reply on the wires; memory and devices; magic halt stored
    snoop, l2snoop, nreq,        \* the snoop injector; the L2's side; requests so far
    want, flt                    \* history: what memory must hold; the RTL's error and its age

core == <<rtl, out>>
chk  == <<sgpr, ss, g_pend_tlb, last_check>>
memp == <<req, mem_reply, rsp, soc, sim_halted, nreq, want>>
snp  == <<snoop, l2snoop>>
vars == <<prog, opt, ph, core, chk, last_retire, verdict, memp, snp, flt, tdvars>>
---------------------------------------------------------------------------
(* The instruction set the comparison tells apart *)

Reg    == 1..2
NoTgt  == -1
Insn(pc) == prog[pc]
IsBranch(i) == i.op = "br"
Straight(i) == i.op \notin {"br", "eret"}

(* the tlb holds one mapping: 0 is invalid *)
Faults(i, st) == \/ i.op = "ld" /\ st.tlb = 0
                 \/ i.op = "sys" /\ opt.os_mode

(* c: what a read of Count or Random returns *)
Written(i, st, c) == CASE i.op = "set" -> i.v
                       [] i.op = "inc" -> (st.gpr[i.r] + 1) % (GMax + 1)
                       [] i.op = "ld"  -> st.tlb
                       [] i.op = "cnt" -> c
Writes(i) == i.op \in {"set", "inc", "ld", "cnt"}
Regs(i, st, c) == IF Writes(i) THEN [st.gpr EXCEPT ![i.r] = Written(i, st, c)] ELSE st.gpr

Trap(st, epc) == [st EXCEPT !.pc = VecPc, !.epc = IF st.exl THEN @ ELSE epc, !.exl = TRUE]

(* execMips: the branch with its slot; the interpreter does not write its own
   TLB (g_iss_tlb_ext) *)
execMips(st, c) ==
    LET i == Insn(st.pc)
        j == Insn(st.pc + 1) IN
    CASE Faults(i, st)                    -> Trap(st, st.pc)
      [] IsBranch(i) /\ Faults(j, st)     -> Trap(st, st.pc)
      [] IsBranch(i) /\ ~Faults(j, st)    -> [st EXCEPT !.pc = i.v, !.gpr = Regs(j, st, c)]
      [] i.op = "eret"                    -> [st EXCEPT !.pc = st.epc, !.exl = FALSE]
      [] i.op = "sys" /\ ~opt.os_mode     -> [st EXCEPT !.pc = @ + 1, !.brk = TRUE]
      [] OTHER                            -> [st EXCEPT !.pc = @ + 1, !.gpr = Regs(i, st, c)]

NoOutput == [retired |-> <<>>, irq |-> FALSE, flush |-> FALSE, stop |-> FALSE]
NoReq    == [op |-> "none", line |-> 0, mask |-> {}, data |-> <<>>]
NoRsp    == [op |-> "none", line |-> 0, mask |-> {}, data |-> <<>>]
NoFault  == [kind |-> "none", r |-> 0, n |-> 0]

Init ==
    /\ \E c \in CmdLines : prog = c[1] /\ opt = c[2]
    /\ ph = "snoop"
    /\ rtl = [pc |-> 1, tgt |-> NoTgt, gpr |-> [r \in Reg |-> 0], tlb |-> 0, epc |-> 1,
              exl |-> FALSE, wrote |-> FALSE]
    /\ out = NoOutput
    /\ sgpr = rtl.gpr
    /\ ss = [pc |-> 1, gpr |-> rtl.gpr, tlb |-> 0, epc |-> 1, exl |-> FALSE, brk |-> FALSE]
    /\ g_pend_tlb = <<>> /\ last_check = 0 /\ last_retire = 0 /\ verdict = "run"
    /\ req = NoReq /\ mem_reply = -1 /\ rsp = NoRsp /\ soc = SocReset([b \in Bytes16 |-> 0])
    /\ sim_halted = FALSE /\ nreq = 0
    /\ snoop = [busy |-> FALSE, acked |-> FALSE, q |-> <<>>, seen |-> 0, issued |-> 0,
                done |-> 0, dropped |-> 0]
    /\ l2snoop = [valid |-> FALSE, ack |-> FALSE, done |-> FALSE, taken |-> 0]
    /\ want = [mem |-> soc.mem, replies |-> 0]
    /\ flt = NoFault /\ TdInit

Goto(p)   == ph' = p /\ UNCHANGED verdict
Break(v)  == ph' = "end" /\ verdict' = v
Steps(p)  == ph = p /\ UNCHANGED <<prog, opt>>
---------------------------------------------------------------------------
(* The snoop injector (--snoop-delay): one WBINV outstanding.  A due time is
   kept as the cycles left. *)
InjectSnoop ==
    /\ Steps("snoop")
    /\ LET acked == snoop.acked \/ (snoop.busy /\ l2snoop.ack) IN
       CASE snoop.busy ->
              /\ snoop' = IF acked /\ l2snoop.done
                          THEN [snoop EXCEPT !.busy = FALSE, !.acked = TRUE, !.done = @ + 1]
                          ELSE [snoop EXCEPT !.acked = acked]
              /\ l2snoop' = [l2snoop EXCEPT !.valid = @ /\ ~acked]
         [] ~snoop.busy /\ snoop.q # <<>> /\ snoop.q[1] = 0 ->
              /\ snoop' = [snoop EXCEPT !.q = Tail(@), !.busy = TRUE, !.acked = FALSE, !.issued = @ + 1]
              /\ l2snoop' = [l2snoop EXCEPT !.valid = TRUE]
         [] OTHER -> UNCHANGED snp
    /\ Goto("eval")
    /\ UNCHANGED <<core, chk, last_retire, memp, flt, tdvars>>
---------------------------------------------------------------------------
(* The core at the positive clock edge, reduced to what its ports show *)

(* one instruction retires.  e: "none", or the error it is retired with *)
CanRetire(st) == LET i == Insn(st.pc) IN
    ~Faults(i, st) /\ i.op # "wait" /\ (i.op = "tlbw" => st.wrote)
Retire(st, c, e) ==
    LET i == Insn(st.pc)
        v == IF e = "value" THEN (Written(i, st, c) + 1) % (GMax + 1) ELSE Written(i, st, c)
        next == IF e = "path" THEN Lost[1]
                ELSE IF st.pc = Lost[1] THEN Lost[2] ELSE IF st.pc = Lost[2] THEN Lost[1]
                ELSE IF st.tgt # NoTgt THEN st.tgt ELSE st.pc + 1 IN
    [st EXCEPT !.pc  = CASE IsBranch(i) -> st.pc + 1 [] i.op = "eret" -> st.epc [] OTHER -> next,
               !.tgt = IF IsBranch(i) THEN i.v ELSE NoTgt,
               !.exl = IF i.op = "eret" THEN FALSE ELSE @,
               !.gpr = IF Writes(i) THEN [@ EXCEPT ![i.r] = v] ELSE @,
               !.wrote = FALSE]
Shown(st, t) == LET i == Insn(st.pc) IN
    [pc |-> st.pc, w |-> IF Writes(i) THEN {[r |-> i.r, v |-> t.gpr[i.r]]} ELSE {}]

(* an instruction whose result the checker compares when it retires first *)
Compared(st) == Straight(Insn(st.pc)) /\ st.tgt = NoTgt /\ st.pc # VecPc

Errors(st) == {"none"} \cup (IF flt # NoFault \/ ~opt.faulty THEN {} ELSE
    {e \in {"value", "path"} : IF e = "value" THEN Writes(Insn(st.pc)) /\ Insn(st.pc).op # "cnt"
                               ELSE st.tgt # NoTgt})

(* history: the error retired, the compared retirements it has survived; a
   wrong register that is overwritten is forgotten *)
Overwrites(i, r) == Writes(i) /\ i.op # "inc" /\ i.r = r
Aged(f, st, e, first) ==
    LET g == IF e = "none" THEN f ELSE [kind |-> e, r |-> Insn(st.pc).r, n |-> 0] IN
    IF g.kind = "value" /\ e = "none" /\ Overwrites(Insn(st.pc), g.r) THEN [g EXCEPT !.kind = "masked"]
    ELSE IF first /\ ((g.kind = "value" /\ Compared(st)) \/ (g.kind = "path" /\ e = "none"))
    THEN [g EXCEPT !.n = @ + 1] ELSE g

Idle == /\ UNCHANGED <<rtl, flt, tdvars>>
        /\ \E f \in BOOLEAN, b \in BOOLEAN :
             /\ b => Insn(rtl.pc).op = "sys" /\ ~opt.os_mode
             /\ out' = [NoOutput EXCEPT !.flush = f, !.stop = b]
TakeFault == /\ Faults(Insn(rtl.pc), rtl)
             /\ rtl' = [Trap(rtl, IF rtl.tgt = NoTgt THEN rtl.pc ELSE rtl.pc - 1) EXCEPT !.tgt = NoTgt]
             /\ out' = NoOutput /\ UNCHANGED flt
TakeIrq == /\ rtl.tgt = NoTgt /\ ~rtl.exl /\ ~rtl.wrote /\ opt.irq
           /\ rtl' = Trap(rtl, rtl.pc)
           /\ out' = [NoOutput EXCEPT !.irq = TRUE] /\ UNCHANGED flt
RetireOne == /\ CanRetire(rtl)
             /\ \E c \in 0..1, e \in Errors(rtl) :
                  LET t == Retire(rtl, c, e) IN
                  /\ rtl' = t /\ flt' = Aged(flt, rtl, e, TRUE)
                  /\ out' = [NoOutput EXCEPT !.retired = <<Shown(rtl, t)>>]
RetireTwo == /\ CanRetire(rtl)
             /\ \E c \in 0..1, e \in Errors(rtl) :
                  LET t == Retire(rtl, c, e) IN
                  /\ CanRetire(t) /\ Insn(rtl.pc).op # "eret"
                  /\ Insn(t.pc).op # "tlbw"
                  /\ \E e2 \in IF e = "none" THEN Errors(t) ELSE {"none"} :
                     LET u == Retire(t, c, e2) IN
                     /\ rtl' = u /\ flt' = Aged(Aged(flt, rtl, e, TRUE), t, e2, FALSE)
                     /\ out' = [NoOutput EXCEPT !.retired = <<Shown(rtl, t), Shown(t, u)>>]

(* the core takes a reply and drops its request, and may make another *)
CoreRequests ==
    LET free == req = NoReq \/ rsp # NoRsp IN
    \/ /\ req' = (IF free THEN NoReq ELSE req) /\ UNCHANGED <<nreq, want>>
    \/ /\ free /\ nreq < MaxReq
       /\ \E q \in opt.mem :
            /\ req' = q /\ nreq' = nreq + 1
            /\ want' = IF q.op = "store"
                       THEN [want EXCEPT !.mem[q.line] = [b \in Bytes16 |-> IF b \in q.mask THEN q.data[b] ELSE @[b]]]
                       ELSE want

(* the L2 acknowledges a snoop it sees, and reports its end later or at once *)
L2Snoop ==
    \/ /\ l2snoop' = [l2snoop EXCEPT !.ack = FALSE, !.done = FALSE]
    \/ /\ l2snoop.valid /\ l2snoop.taken = snoop.issued - 1
       /\ \E fin \in BOOLEAN : l2snoop' = [l2snoop EXCEPT !.ack = TRUE, !.done = fin, !.taken = @ + 1]
    \/ /\ l2snoop.taken = snoop.issued /\ snoop.busy /\ ~l2snoop.valid
       /\ l2snoop' = [l2snoop EXCEPT !.ack = FALSE, !.done = TRUE]

Posedge ==
    /\ Steps("eval")
    /\ Idle \/ TakeFault \/ TakeIrq \/ RetireOne \/ RetireTwo
    /\ CoreRequests /\ L2Snoop
    /\ Goto("regs")
    /\ UNCHANGED <<chk, last_retire, mem_reply, rsp, soc, sim_halted, snoop, tdvars>>
---------------------------------------------------------------------------
(* The registers of retirement port 1, an interrupt the core took, and TIP *)

Retiring == out.retired # <<>>
Pc1 == out.retired[1].pc

Apply(gpr, e) == [r \in Reg |-> IF \E x \in e.w : x.r = r THEN (CHOOSE x \in e.w : x.r = r).v ELSE gpr[r]]

raise_int(st, epc) == [st EXCEPT !.pc = VecPc, !.epc = epc, !.exl = TRUE]

RetireReg ==
    /\ Steps("regs")
    /\ sgpr' = IF out.retired = <<>> THEN sgpr ELSE Apply(sgpr, out.retired[1])
    /\ ss' = IF out.irq /\ opt.checker THEN raise_int(ss, rtl.epc) ELSE ss
    /\ IF ~opt.topdown THEN UNCHANGED td
       ELSE \E empty \in BOOLEAN : td' = [td EXCEPT !.tip = @ + Tip(empty, Retiring, Len(out.retired) = 2)]
    /\ Goto("port1")
    /\ UNCHANGED <<core, g_pend_tlb, last_check, last_retire, memp, snp, flt, tdc, tdh>>
---------------------------------------------------------------------------
(* Retirement port 1: the checker *)

(* iss_step: the whole mirror queue first, then one step.  Count, which the
   interpreter may read, is any value of the register when it is sampled. *)
Mirrored(st, q) == IF q = <<>> THEN st ELSE [st EXCEPT !.tlb = q[Len(q)]]
(* a checker that empties the mirror queue without applying it *)
iss_stepUnmirrored(st, q, c) == execMips(st, c)
iss_step(st, q, c) == execMips(Mirrored(st, q), c)

(* insn: the word at the retired pc; g: the RTL's registers *)
adopt_timing_cp0(insn, g, st) ==
    IF insn.op = "cnt" THEN [st EXCEPT !.gpr[insn.r] = g[insn.r]] ELSE st

Samples == {c \in 0..1 : c = 0 \/ \E d \in {0, 1} : ss.pc + d \in DOMAIN prog /\ Insn(ss.pc + d).op = "cnt"}

NoRetire ==
    /\ Steps("port1") /\ ~Retiring
    /\ Goto("port2") /\ UNCHANGED <<core, chk, last_retire, memp, snp, flt, tdvars>>

(* without the checker a retired BREAK or SYSCALL ends the run *)
Unchecked ==
    /\ Steps("port1") /\ Retiring /\ ~opt.checker
    /\ last_retire' = 0
    /\ IF Insn(Pc1).op = "sys" THEN Break("break") ELSE Goto("port2")
    /\ UNCHANGED <<core, chk, memp, snp, flt, tdvars>>

(* registers are compared when the interpreter went to the next instruction,
   not after a branch and its slot or an exception *)
Check ==
    /\ Steps("port1") /\ Retiring /\ opt.checker /\ Pc1 = ss.pc
    /\ \E c \in Samples : ss' = adopt_timing_cp0(Insn(Pc1), sgpr, iss_step(ss, g_pend_tlb, c))
    /\ g_pend_tlb' = <<>> /\ last_retire' = 0
    /\ CASE ss'.brk -> Break("break") /\ UNCHANGED last_check
         [] ~ss'.brk /\ ss'.pc = Pc1 + 1 /\ ss'.gpr # sgpr -> Break("incorrect") /\ UNCHANGED last_check
         [] OTHER -> Goto("port2") /\ last_check' = 0
    /\ UNCHANGED <<sgpr, core, memp, snp, flt, tdvars>>

rtl_in_exc_handler == Pc1 \in RtlVec
sim_in_user_code   == ss.pc \notin SimVec

(* a mismatch is counted; a pending BREAK or SYSCALL ends the run, the third
   mismatch in a row condemns it *)
UncaughtNever(st) == last_check' = 0 /\ Goto("port2")   \* a mismatch that is not counted
Uncaught(st) ==
    /\ last_check' = last_check + 1
    /\ CASE Insn(st.pc).op = "sys" -> Break("break")
         [] Insn(st.pc).op # "sys" /\ last_check' > 2 -> Break("incorrect")
         [] OTHER -> Goto("port2")

CatchUp ==
    /\ Steps("port1") /\ Retiring /\ opt.checker /\ Pc1 # ss.pc
    /\ rtl_in_exc_handler /\ sim_in_user_code
    /\ \E c \in Samples :
         LET t == iss_step(ss, g_pend_tlb, c) IN
         CASE t.brk -> ss' = t /\ Break("break") /\ UNCHANGED last_check
           [] ~t.brk /\ t.pc = Pc1 ->
                /\ ss' = execMips(t, c)
                /\ IF ss'.brk THEN Break("break") /\ UNCHANGED last_check
                   ELSE Goto("port2") /\ last_check' = 0
           [] OTHER -> ss' = t /\ Uncaught(t)
    /\ g_pend_tlb' = <<>> /\ last_retire' = 0
    /\ UNCHANGED <<sgpr, core, memp, snp, flt, tdvars>>

Mismatch ==
    /\ Steps("port1") /\ Retiring /\ opt.checker /\ Pc1 # ss.pc
    /\ ~(rtl_in_exc_handler /\ sim_in_user_code)
    /\ Uncaught(ss) /\ last_retire' = 0
    /\ UNCHANGED <<sgpr, ss, g_pend_tlb, core, memp, snp, flt, tdvars>>
---------------------------------------------------------------------------
(* Retirement port 2: stepped when it matches, never compared *)

RetireTwoReg ==
    /\ Steps("port2")
    /\ IF Len(out.retired) < 2
       THEN Goto("stops") /\ UNCHANGED chk
       ELSE /\ sgpr' = Apply(sgpr, out.retired[2])
            /\ IF opt.checker /\ out.retired[2].pc = ss.pc
               THEN /\ \E c \in Samples :
                         ss' = adopt_timing_cp0(Insn(ss.pc), sgpr', iss_step(ss, g_pend_tlb, c))
                    /\ g_pend_tlb' = <<>>
                    /\ IF ss'.brk THEN Break("break") /\ UNCHANGED last_check
                       ELSE Goto("stops") /\ last_check' = 0
               ELSE Goto("stops") /\ UNCHANGED <<ss, g_pend_tlb, last_check>>
    /\ UNCHANGED <<core, last_retire, memp, snp, flt, tdvars>>
---------------------------------------------------------------------------
(* The watchdog and the other reasons to stop.  last_retire saturates: the code
   only compares it with the limit. *)

Stops ==
    /\ Steps("stops")
    /\ last_retire' = IF last_retire > WATCHDOG THEN last_retire ELSE last_retire + 1
    /\ CASE last_retire' > WATCHDOG /\ ~out.flush -> Break("watchdog")
         [] ~(last_retire' > WATCHDOG /\ ~out.flush) /\ sim_halted -> Break("halt")
         [] ~(last_retire' > WATCHDOG /\ ~out.flush) /\ ~sim_halted /\ out.stop -> Break("stop")
         [] OTHER -> Goto("memory")
    /\ g_pend_tlb' = IF ph' = "memory" /\ ~opt.checker THEN <<>> ELSE g_pend_tlb
    /\ UNCHANGED <<core, sgpr, ss, last_check, memp, snp, flt, tdvars>>
---------------------------------------------------------------------------
(* The memory port: one request at a time, answered after its latency *)

MagicHalt(q) == opt.magic_halt /\ q.line % \h2000000 = \h1fd0000 /\ \E b \in Word(0) : q.data[b] # 0

StoreLine(st, q) == LET S1 == StoreWord(st, q.line, 0, q.mask, q.data, opt.indy)
                        S2 == StoreWord(S1, q.line, 1, q.mask, q.data, opt.indy)
                        S3 == StoreWord(S2, q.line, 2, q.mask, q.data, opt.indy) IN
                    StoreWord(S3, q.line, 3, q.mask, q.data, opt.indy)

(* the snoop of a loaded line, every snoop_every-th load, queued for later *)
Selected == opt.snoop_delay # 0 /\ req.op = "load" /\ snoop.seen % opt.snoop_every = 0
Passed(q) == [i \in DOMAIN q |-> IF q[i] = 0 THEN 0 ELSE q[i] - 1]
(* a full queue that forgets to count what it drops *)
QueueSnoopSilent(sn) ==
    LET seen == IF opt.snoop_delay # 0 /\ req.op = "load" THEN [sn EXCEPT !.seen = @ + 1] ELSE sn IN
    IF Selected /\ Len(sn.q) < SNOOPQ THEN [seen EXCEPT !.q = Append(@, opt.snoop_delay)] ELSE seen
QueueSnoop(sn) ==
    LET seen == IF opt.snoop_delay # 0 /\ req.op = "load" THEN [sn EXCEPT !.seen = @ + 1] ELSE sn IN
    IF ~Selected THEN seen
    ELSE IF Len(sn.q) < SNOOPQ THEN [seen EXCEPT !.q = Append(@, opt.snoop_delay)]
    ELSE [seen EXCEPT !.dropped = @ + 1]

Memory ==
    /\ Steps("memory")
    /\ IF req # NoReq /\ mem_reply = -1
       THEN /\ \E lat \in Lat : mem_reply' = (IF req.op = "load" THEN 1 ELSE 2) * lat
            /\ snoop' = QueueSnoop(snoop)
            /\ rsp' = NoRsp /\ UNCHANGED <<last_retire, soc, sim_halted, want>>
       ELSE /\ snoop' = snoop
            /\ IF mem_reply # 0
               THEN rsp' = NoRsp /\ UNCHANGED <<last_retire, soc, sim_halted, mem_reply, want>>
               ELSE /\ last_retire' = 0 /\ mem_reply' = -1
                    /\ IF req.op = "load"
                       THEN /\ \E icnt \in 0..1 :
                                 rsp' = [req EXCEPT !.data = LoadLine(soc, req.line, req.mask, opt.indy, icnt)]
                            /\ UNCHANGED <<soc, sim_halted>>
                       ELSE /\ soc' = StoreLine(soc, req) /\ rsp' = req
                            /\ sim_halted' = (sim_halted \/ MagicHalt(req))
                    /\ want' = [want EXCEPT !.replies = @ + 1]
    /\ IF soc'.aborted THEN Break("abort") ELSE Goto("negedge")   \* assert(false) in sgi_hpc
    /\ UNCHANGED <<core, chk, req, nreq, l2snoop, flt, tdvars>>

(* The negative edge: the core may write its TLB, which tlb_wr_log hands to
   the mirror queue, and calls the profile's hooks; then the next cycle begins.
   A run with a cycle limit is the profiled one. *)
Negedge ==
    /\ Steps("negedge")
    /\ LET i == Insn(rtl.pc) IN
       \/ /\ i.op = "tlbw" /\ rtl.tgt = NoTgt /\ ~rtl.wrote
          /\ rtl' = [rtl EXCEPT !.tlb = i.v, !.wrote = TRUE]
          /\ g_pend_tlb' = Append(g_pend_tlb, i.v)
       \/ UNCHANGED <<rtl, g_pend_tlb>>
    /\ out' = NoOutput
    /\ mem_reply' = IF mem_reply > 0 THEN mem_reply - 1 ELSE mem_reply
    /\ snoop' = [snoop EXCEPT !.q = Passed(@)]
    /\ IF opt.topdown THEN TdClock ELSE UNCHANGED tdvars
    /\ IF tdc'.clk > TdCycles THEN Break("max_cycle") ELSE Goto("snoop")
    /\ UNCHANGED <<sgpr, ss, last_check, last_retire, req, rsp, soc, sim_halted, nreq, want, l2snoop, flt>>

(* the loop has ended *)
Ended == ph = "end" /\ UNCHANGED vars

Next == \/ InjectSnoop \/ Posedge \/ RetireReg \/ NoRetire \/ Unchecked \/ Check \/ CatchUp \/ Mismatch
        \/ RetireTwoReg \/ Stops \/ Memory \/ Negedge \/ Ended

Spec == Init /\ [][Next]_vars
---------------------------------------------------------------------------
(* Properties *)

CycleStart == ph = "snoop"

(* The core's architectural state as the interpreter would hold it. *)
Arch == [pc |-> rtl.pc, gpr |-> rtl.gpr, tlb |-> rtl.tlb, epc |-> rtl.epc, exl |-> rtl.exl, brk |-> FALSE]
AfterSlot == IF Faults(Insn(rtl.pc), rtl) THEN {Trap(Arch, rtl.pc - 1)}
             ELSE {[Arch EXCEPT !.pc = rtl.tgt, !.gpr = Regs(Insn(rtl.pc), rtl, c)] : c \in 0..1}

(* While the core makes no error the checker follows it: at the start of every
   cycle the interpreter, with the queued TLB writes applied, is where the core
   is, or past the delay slot of a retired branch, or one step before the
   exception the core has taken; and the run is never reported as incorrect.
   Interrupts, TLB writes and timing registers are all mirrored for this. *)
Lockstep ==
    opt.checker /\ flt = NoFault =>
      /\ verdict # "incorrect" /\ last_check <= 1
      /\ CycleStart =>
           LET eff == Mirrored(ss, g_pend_tlb) IN
           /\ sgpr = rtl.gpr
           /\ \/ rtl.tgt = NoTgt /\ eff = Arch
              \/ rtl.tgt # NoTgt /\ eff \in AfterSlot
              \/ Faults(Insn(eff.pc), eff) /\ execMips(eff, 0) = Arch

(* An error of the core does not escape: a wrong register value ends the run
   at the first retirement whose registers are compared unless it has been
   overwritten, and a wrong path within three retirements of port 1. *)
DivergenceReported ==
    opt.checker /\ CycleStart =>
      /\ flt.kind = "value" => flt.n = 0
      /\ flt.kind = "path"  => flt.n <= 2

Plain(l) == Range(l, opt.indy) \notin {"mc_regs", "hpc_regs", "scc_regs"}
Outstanding == req # NoReq /\ rsp = NoRsp

(* Each request of the memory port is answered exactly once, with the bytes it
   enables as the latest stores left them; a store changes those bytes only,
   and never memory under a device register. *)
AnsweredExactly ==
    /\ CycleStart => want.replies + (IF Outstanding THEN 1 ELSE 0) = nreq
    /\ CycleStart /\ rsp.op = "load" /\ Plain(rsp.line) =>
         rsp.data = [b \in Bytes16 |-> IF b \in rsp.mask THEN want.mem[rsp.line][b] ELSE 0]
    /\ \A l \in Lines : Plain(l) /\ ~(Outstanding /\ req.line = l) /\ CycleStart =>
         soc.mem[l] = want.mem[l]
    /\ \A l \in Lines : ~Plain(l) => soc.mem[l] = [b \in Bytes16 |-> 0]

(* of the first n loads, one in every is selected *)
Chosen(n, every) == (n + every - 1) \div every

(* No snoop is lost, repeated or overlapped: those selected are queued, issued
   or counted as dropped, the L2 accepts each issued one once, and a second is
   issued only after the first is done. *)
SnoopsConserved ==
    /\ snoop.issued = snoop.done + (IF snoop.busy THEN 1 ELSE 0)
    /\ Chosen(snoop.seen, opt.snoop_every) = snoop.issued + Len(snoop.q) + snoop.dropped
    /\ l2snoop.taken \in {snoop.issued, snoop.issued - 1}
    /\ ~snoop.busy => l2snoop.taken = snoop.issued /\ ~l2snoop.valid
    /\ Len(snoop.q) <= SNOOPQ

MemoryPorts == AnsweredExactly /\ SnoopsConserved

(* The profile loses no slot and no cycle (see SlotsAccounted), whatever the
   loop does meanwhile; "sum(tip) == total cycles". *)
ProfileExact == SlotsAccounted /\ (CycleStart => td.tip = IF opt.topdown THEN 2 * (tdc.clk - 1) ELSE 0)
---------------------------------------------------------------------------
(* The inductive invariant behind MemoryPorts *)

SnoopType   == [busy : BOOLEAN, acked : BOOLEAN, q : Seq(Nat), seen : Nat, issued : Nat,
                done : Nat, dropped : Nat]
L2SnoopType == [valid : BOOLEAN, ack : BOOLEAN, done : BOOLEAN, taken : Nat]

PortTypes ==
    /\ \A q \in opt.mem : IsRequest(q)
    /\ opt.snoop_every \in Nat \ {0} /\ opt.snoop_delay \in Nat
    /\ snoop \in SnoopType /\ l2snoop \in L2SnoopType
    /\ nreq \in Nat /\ mem_reply \in Nat \cup {-1}
    /\ DOMAIN want = {"mem", "replies"} /\ want.replies \in Nat /\ DOMAIN want.mem = Lines
    /\ DOMAIN soc = {"mem", "mc", "ee", "hpc", "tx", "aborted"} /\ DOMAIN soc.mem = Lines

(* The request has not been answered.  Between the positive edge and the memory
   port the reply on the wires is that of the request before. *)
Pending == req # NoReq /\ (ph \in {"negedge", "snoop", "eval"} => rsp = NoRsp)

Loaded(line, q) == [b \in Bytes16 |-> IF b \in q.mask THEN line[b] ELSE 0]
Stored(old, q) == [b \in Bytes16 |-> IF b \in q.mask THEN q.data[b] ELSE old[b]]

(* what memory must hold is what it holds, but for the store that waits *)
ReplyInv ==
    /\ req # NoReq => IsRequest(req)
    /\ want.replies + (IF Pending THEN 1 ELSE 0) = nreq
    /\ mem_reply # -1 => Pending
    /\ \A l \in Lines : Plain(l) =>
         want.mem[l] = IF Pending /\ req.op = "store" /\ req.line = l THEN Stored(soc.mem[l], req)
                       ELSE soc.mem[l]
    /\ ph \in {"negedge", "snoop"} /\ rsp.op = "load" /\ Plain(rsp.line) =>
         rsp.data = Loaded(want.mem[rsp.line], rsp)

(* an acknowledge on the wires, or remembered, is that of the snoop issued last *)
SnoopInv ==
    /\ l2snoop.ack /\ ph # "eval" => snoop.busy /\ l2snoop.taken = snoop.issued
    /\ snoop.busy /\ snoop.acked => l2snoop.taken = snoop.issued

PortInv ==
    /\ PortTypes /\ SnoopsConserved /\ SnoopInv
    /\ ph # "end" => ReplyInv
    /\ \A l \in Lines : ~Plain(l) => soc.mem[l] = [b \in Bytes16 |-> 0]
=============================================================================
