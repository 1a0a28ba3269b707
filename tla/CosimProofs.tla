---------------------------- MODULE CosimProofs ----------------------------
(***************************************************************************)
(* The memory and snoop ports of the simulator's loop, for every program,    *)
(* every set of accesses, every latency and any snoop rate and queue.        *)
(***************************************************************************)
EXTENDS Cosim, TLAPS

-----------------------------------------------------------------------------
(* One load in e is selected: the number selected after s of them is s / e     *)
(* rounded up.                                                               *)

LEMMA SelectCounts ==
    ASSUME NEW s \in Nat, NEW e \in Nat \ {0}
    PROVE  /\ Chosen(s, e) \in Int
           /\ Chosen(s + 1, e) = Chosen(s, e) + (IF s % e = 0 THEN 1 ELSE 0)
<1>1. (s + e) \div e = (s \div e) + 1
  OBVIOUS
<1>2. s % e = 0 => (s + e - 1) \div e = s \div e
  OBVIOUS
<1>3. s % e # 0 => (s + e - 1) \div e = (s \div e) + 1
  OBVIOUS
<1>4. s + 1 + e - 1 = s + e /\ s \div e \in Int /\ (s + e - 1) \div e \in Int
  OBVIOUS
<1> QED
  BY <1>1, <1>2, <1>3, <1>4 DEF Chosen

-----------------------------------------------------------------------------
(* The sections of the loop that touch neither port.                        *)

Inner == {"regs", "port1", "port2", "stops"}

LEMMA InnerFrame ==
    ASSUME RetireReg \/ NoRetire \/ Unchecked \/ Check \/ CatchUp \/ Mismatch \/ RetireTwoReg \/ Stops
    PROVE  /\ ph \in Inner /\ ph' \in Inner \cup {"memory", "end"}
           /\ opt' = opt /\ UNCHANGED memp /\ UNCHANGED snp
<1>1. CASE RetireReg
  BY <1>1 DEF RetireReg, Steps, Goto, Inner
<1>2. CASE NoRetire
  BY <1>2 DEF NoRetire, Steps, Goto, Inner
<1>3. CASE Unchecked
  BY <1>3 DEF Unchecked, Steps, Goto, Break, Inner
<1>4. CASE Check
  BY <1>4 DEF Check, Steps, Goto, Break, Inner
<1>5. CASE CatchUp
  BY <1>5 DEF CatchUp, Steps, Goto, Break, Uncaught, Inner
<1>6. CASE Mismatch
  BY <1>6 DEF Mismatch, Steps, Goto, Break, Uncaught, Inner
<1>7. CASE RetireTwoReg
  BY <1>7 DEF RetireTwoReg, Steps, Goto, Break, Inner
<1>8. CASE Stops
  BY <1>8 DEF Stops, Steps, Goto, Break, Inner
<1> QED
  BY <1>1, <1>2, <1>3, <1>4, <1>5, <1>6, <1>7, <1>8

(* Neither the request, its reply nor memory changes.                        *)

LEMMA ReplyFrame ==
    ASSUME ReplyInv, opt' = opt, UNCHANGED <<req, rsp, soc, nreq, want>>,
           mem_reply' # -1 => mem_reply # -1, Pending' <=> Pending,
           ph' \in {"negedge", "snoop"} => ph \in {"negedge", "snoop"}
    PROVE  ReplyInv'
<1>1. (req # NoReq => IsRequest(req))' /\ (mem_reply # -1 => Pending)'
  BY DEF ReplyInv, IsRequest
<1>2. (want.replies + (IF Pending THEN 1 ELSE 0) = nreq)'
  BY DEF ReplyInv
<1>3. ASSUME NEW l \in Lines, Plain(l)'
      PROVE  want'.mem[l] = IF Pending' /\ req'.op = "store" /\ req'.line = l
                            THEN Stored(soc'.mem[l], req') ELSE soc'.mem[l]
  BY <1>3 DEF ReplyInv, Plain
<1>4. ph' \in {"negedge", "snoop"} /\ rsp'.op = "load" /\ (Plain(rsp.line))' =>
        rsp'.data = Loaded(want'.mem[rsp'.line], rsp')
  BY DEF ReplyInv, Plain
<1> QED
  BY <1>1, <1>2, <1>3, <1>4 DEF ReplyInv

LEMMA SnoopFrame ==
    ASSUME PortTypes, SnoopsConserved, SnoopInv, opt' = opt, UNCHANGED snp, ph # "eval"
    PROVE  SnoopsConserved' /\ SnoopInv'
BY DEF SnoopsConserved, SnoopInv, snp

LEMMA InnerStep ==
    ASSUME PortInv,
           RetireReg \/ NoRetire \/ Unchecked \/ Check \/ CatchUp \/ Mismatch \/ RetireTwoReg \/ Stops
    PROVE  PortInv'
<1>1. /\ ph \in Inner /\ ph' \in Inner \cup {"memory", "end"}
      /\ opt' = opt /\ UNCHANGED memp /\ UNCHANGED snp
  BY InnerFrame
<1>2. PortTypes' /\ (\A l \in Lines : ~Plain(l) => soc.mem[l] = [b \in Bytes16 |-> 0])'
  BY <1>1 DEF PortInv, memp, snp, PortTypes, Plain, IsRequest
<1>3. SnoopsConserved' /\ SnoopInv'
  BY <1>1, SnoopFrame DEF PortInv, Inner
<1>4. ph' # "end" => ReplyInv'
  <2> HAVE ph' # "end"
  <2>1. Pending' <=> Pending
    BY <1>1 DEF Pending, Inner, memp, NoReq, NoRsp
  <2>2. ReplyInv
    BY <1>1 DEF PortInv, Inner
  <2>3. UNCHANGED <<req, rsp, soc, nreq, want>> /\ (mem_reply' # -1 => mem_reply # -1)
    BY <1>1 DEF memp
  <2>4. ph' \notin {"negedge", "snoop"}
    BY <1>1 DEF Inner
  <2> QED
    BY <1>1, <2>1, <2>2, <2>3, <2>4, ReplyFrame
<1> QED
  BY <1>2, <1>3, <1>4 DEF PortInv

-----------------------------------------------------------------------------
(* The injector: a snoop is done only when it was acknowledged, and one is     *)
(* issued only when none is busy.                                            *)

LEMMA InjectStep ==
    ASSUME PortInv, InjectSnoop
    PROVE  PortInv'
<1>1. ph = "snoop" /\ ph' = "eval" /\ opt' = opt /\ UNCHANGED memp
  BY DEF InjectSnoop, Steps, Goto
<1>2. PortTypes /\ SnoopsConserved /\ SnoopInv /\ ReplyInv
  BY <1>1 DEF PortInv
<1>3. ReplyInv' /\ (\A l \in Lines : ~Plain(l) => soc.mem[l] = [b \in Bytes16 |-> 0])'
  <2>1. Pending' <=> Pending
    BY <1>1 DEF Pending, memp, NoReq, NoRsp
  <2>2. UNCHANGED <<req, rsp, soc, nreq, want>> /\ (mem_reply' # -1 => mem_reply # -1)
    BY <1>1 DEF memp
  <2>3. ph' \notin {"negedge", "snoop"}
    BY <1>1
  <2>4. ReplyInv'
    BY <1>1, <1>2, <2>1, <2>2, <2>3, ReplyFrame
  <2>5. (\A l \in Lines : ~Plain(l) => soc.mem[l] = [b \in Bytes16 |-> 0])'
    BY <1>1, <2>2 DEF PortInv, Plain
  <2> QED
    BY <2>4, <2>5
<1>4. PortTypes' /\ SnoopsConserved' /\ SnoopInv'
  <2>1. snoop \in SnoopType /\ l2snoop \in L2SnoopType
    BY <1>2 DEF PortTypes
  <2>2. SUFFICES snoop' \in SnoopType /\ l2snoop' \in L2SnoopType /\ SnoopsConserved' /\ SnoopInv'
    BY <1>1, <1>2 DEF PortTypes, memp, IsRequest
  <2>3. CASE snoop.busy /\ (snoop.acked \/ l2snoop.ack) /\ l2snoop.done
    <3>1. /\ snoop' = [snoop EXCEPT !.busy = FALSE, !.acked = TRUE, !.done = @ + 1]
          /\ l2snoop' = [l2snoop EXCEPT !.valid = FALSE]
      BY <2>1, <2>3 DEF InjectSnoop, SnoopType, L2SnoopType
    <3>2. snoop' \in SnoopType /\ l2snoop' \in L2SnoopType
      <4>1. snoop' \in SnoopType
        <5>1. snoop' = [busy |-> FALSE, acked |-> TRUE, q |-> snoop.q, seen |-> snoop.seen,
                        issued |-> snoop.issued, done |-> snoop.done + 1, dropped |-> snoop.dropped]
          BY <2>1, <3>1 DEF SnoopType
        <5> QED
          BY <2>1, <5>1 DEF SnoopType
      <4>2. l2snoop' \in L2SnoopType
        BY <2>1, <3>1 DEF L2SnoopType
      <4> QED
        BY <4>1, <4>2
    <3>3. ~snoop'.busy /\ ~l2snoop'.valid
      BY <2>1, <3>1, Zenon DEF SnoopType, L2SnoopType
    <3>4. /\ snoop'.done = snoop.done + 1 /\ snoop'.issued = snoop.issued
          /\ snoop'.q = snoop.q /\ snoop'.seen = snoop.seen /\ snoop'.dropped = snoop.dropped
          /\ l2snoop'.taken = l2snoop.taken
      BY <2>1, <3>1 DEF SnoopType, L2SnoopType
    <3>5. l2snoop.taken = snoop.issued /\ snoop.issued = snoop.done + 1
      BY <1>1, <1>2, <2>1, <2>3 DEF SnoopsConserved, SnoopInv, SnoopType
    <3>6. SnoopsConserved'
      BY <1>1, <1>2, <2>1, <3>3, <3>4, <3>5 DEF SnoopsConserved, SnoopType
    <3>7. SnoopInv'
      BY <1>1, <3>3 DEF SnoopInv
    <3> QED
      BY <3>2, <3>6, <3>7
  <2>4. CASE snoop.busy /\ ~((snoop.acked \/ l2snoop.ack) /\ l2snoop.done)
    <3>1. /\ snoop' = [snoop EXCEPT !.acked = snoop.acked \/ l2snoop.ack]
          /\ l2snoop' = [l2snoop EXCEPT !.valid = @ /\ ~(snoop.acked \/ l2snoop.ack)]
      BY <2>1, <2>4 DEF InjectSnoop, SnoopType, L2SnoopType
    <3> QED
      BY <1>1, <1>2, <2>1, <2>4, <3>1 DEF SnoopsConserved, SnoopInv, SnoopType, L2SnoopType
  <2>5. CASE ~snoop.busy /\ snoop.q # <<>> /\ snoop.q[1] = 0
    <3>1. /\ snoop' = [snoop EXCEPT !.q = Tail(@), !.busy = TRUE, !.acked = FALSE, !.issued = @ + 1]
          /\ l2snoop' = [l2snoop EXCEPT !.valid = TRUE]
      BY <2>1, <2>5 DEF InjectSnoop
    <3>2. Tail(snoop.q) \in Seq(Nat) /\ Len(Tail(snoop.q)) = Len(snoop.q) - 1 /\ Len(snoop.q) \in Nat
      BY <2>1, <2>5 DEF SnoopType
    <3>3. snoop' \in SnoopType /\ l2snoop' \in L2SnoopType
      <4>1. snoop' \in SnoopType
        <5>1. snoop' = [busy |-> TRUE, acked |-> FALSE, q |-> Tail(snoop.q), seen |-> snoop.seen,
                        issued |-> snoop.issued + 1, done |-> snoop.done, dropped |-> snoop.dropped]
          BY <2>1, <3>1 DEF SnoopType
        <5> QED
          BY <2>1, <3>2, <5>1 DEF SnoopType
      <4>2. l2snoop' \in L2SnoopType
        BY <2>1, <3>1 DEF L2SnoopType
      <4> QED
        BY <4>1, <4>2
    <3>4. snoop'.busy /\ ~snoop'.acked
      BY <2>1, <3>1, Zenon DEF SnoopType
    <3>5. /\ snoop'.done = snoop.done /\ snoop'.issued = snoop.issued + 1
          /\ Len(snoop'.q) = Len(snoop.q) - 1 /\ snoop'.seen = snoop.seen /\ snoop'.dropped = snoop.dropped
          /\ l2snoop'.taken = l2snoop.taken
      BY <2>1, <3>1, <3>2 DEF SnoopType, L2SnoopType
    <3>6. l2snoop.taken = snoop.issued /\ snoop.issued = snoop.done
      BY <1>1, <1>2, <2>1, <2>5 DEF SnoopsConserved, SnoopType
    <3>7. SnoopsConserved'
      <4>1. PICK c, n : c = Chosen(snoop.seen, opt.snoop_every) /\ n = Len(snoop.q)
        OBVIOUS
      <4>2. c = snoop.issued + n + snoop.dropped /\ n <= SNOOPQ /\ n \in Nat
        BY <1>2, <3>2, <4>1 DEF SnoopsConserved
      <4>3. /\ snoop.issued \in Nat /\ snoop.dropped \in Nat /\ SNOOPQ \in Nat
        BY <2>1, CosimAssumption DEF SnoopType
      <4>4. c = (snoop.issued + 1) + (n - 1) + snoop.dropped /\ n - 1 <= SNOOPQ
        BY <4>2, <4>3
      <4>5. /\ Chosen(snoop'.seen, opt'.snoop_every) = snoop'.issued + Len(snoop'.q) + snoop'.dropped
            /\ Len(snoop'.q) <= SNOOPQ
        BY <1>1, <3>5, <4>1, <4>4
      <4>6. /\ snoop'.issued = snoop'.done + (IF snoop'.busy THEN 1 ELSE 0)
            /\ l2snoop'.taken = snoop'.issued - 1
        BY <3>4, <3>5, <3>6, <4>3
      <4> QED
        BY <3>4, <4>5, <4>6 DEF SnoopsConserved
    <3>8. SnoopInv'
      BY <1>1, <3>4 DEF SnoopInv
    <3> QED
      BY <3>3, <3>7, <3>8
  <2>6. CASE ~snoop.busy /\ ~(snoop.q # <<>> /\ snoop.q[1] = 0)
    <3>1. UNCHANGED snp
      BY <2>1, <2>6 DEF InjectSnoop
    <3> QED
      BY <1>1, <1>2, <2>1, <3>1, SnoopFrame DEF snp
  <2> QED
    BY <2>3, <2>4, <2>5, <2>6
<1> QED
  BY <1>3, <1>4 DEF PortInv

-----------------------------------------------------------------------------
(* The positive edge: the core replaces a request that has been answered, and  *)
(* the L2 acknowledges a snoop only while one is on its port.                  *)

LEMMA L2SnoopStep ==
    ASSUME PortTypes, SnoopsConserved, SnoopInv, opt' = opt, snoop' = snoop, L2Snoop
    PROVE  l2snoop' \in L2SnoopType /\ SnoopsConserved' /\ SnoopInv'
<1>1. snoop \in SnoopType /\ l2snoop \in L2SnoopType
  BY DEF PortTypes
<1>2. CASE l2snoop' = [l2snoop EXCEPT !.ack = FALSE, !.done = FALSE]
  <2>1. l2snoop' \in L2SnoopType
    BY <1>1, <1>2 DEF L2SnoopType
  <2>2. ~l2snoop'.ack /\ (l2snoop'.valid <=> l2snoop.valid) /\ l2snoop'.taken = l2snoop.taken
    BY <1>1, <1>2, Zenon DEF L2SnoopType
  <2> QED
    BY <1>1, <2>1, <2>2 DEF SnoopsConserved, SnoopInv, SnoopType
<1>3. ASSUME NEW fin \in BOOLEAN, l2snoop.valid, l2snoop.taken = snoop.issued - 1,
             l2snoop' = [l2snoop EXCEPT !.ack = TRUE, !.done = fin, !.taken = @ + 1]
      PROVE  l2snoop' \in L2SnoopType /\ SnoopsConserved' /\ SnoopInv'
  <2>1. l2snoop' \in L2SnoopType
    <3>1. l2snoop.taken + 1 \in Nat /\ l2snoop.valid \in BOOLEAN
      BY <1>1 DEF L2SnoopType
    <3>2. l2snoop' = [valid |-> l2snoop.valid, ack |-> TRUE, done |-> fin, taken |-> l2snoop.taken + 1]
      BY <1>1, <1>3 DEF L2SnoopType
    <3> QED
      BY <3>1, <3>2 DEF L2SnoopType
  <2>2. l2snoop'.taken = snoop.issued
    BY <1>1, <1>3 DEF L2SnoopType, SnoopType
  <2>3. snoop.busy
    BY <1>3 DEF SnoopsConserved
  <2> QED
    BY <1>1, <2>1, <2>2, <2>3 DEF SnoopsConserved, SnoopInv, SnoopType
<1>4. CASE /\ l2snoop.taken = snoop.issued /\ snoop.busy /\ ~l2snoop.valid
           /\ l2snoop' = [l2snoop EXCEPT !.ack = FALSE, !.done = TRUE]
  <2>1. l2snoop' \in L2SnoopType
    BY <1>1, <1>4 DEF L2SnoopType
  <2>2. ~l2snoop'.ack /\ l2snoop'.taken = snoop.issued
    BY <1>1, <1>4, Zenon DEF L2SnoopType
  <2> QED
    BY <1>1, <1>4, <2>1, <2>2 DEF SnoopsConserved, SnoopInv, SnoopType
<1> QED
  BY <1>2, <1>3, <1>4 DEF L2Snoop

LEMMA CoreRequestsStep ==
    ASSUME PortTypes, ReplyInv, ph = "eval", ph' = "regs", opt' = opt,
           UNCHANGED <<mem_reply, rsp, soc>>, CoreRequests
    PROVE  /\ ReplyInv' /\ nreq' \in Nat
           /\ DOMAIN want' = {"mem", "replies"} /\ want'.replies \in Nat /\ DOMAIN want'.mem = Lines
<1> DEFINE free == req = NoReq \/ rsp # NoRsp
<1>1. Pending <=> ~free
  BY DEF Pending
<1>2. Pending' <=> req' # NoReq
  BY DEF Pending, NoReq
<1>3. CASE req' = (IF free THEN NoReq ELSE req) /\ UNCHANGED <<nreq, want>>
  <2>1. Pending' <=> Pending
    BY <1>1, <1>2, <1>3
  <2>2. CASE free
    <3>1. req' = NoReq /\ ~Pending /\ ~Pending'
      BY <1>1, <1>3, <2>1, <2>2
    <3>2. (req # NoReq => IsRequest(req))' /\ (mem_reply # -1 => Pending)'
      BY <3>1 DEF ReplyInv, NoReq
    <3>3. (want.replies + (IF Pending THEN 1 ELSE 0) = nreq)'
      BY <1>3, <3>1 DEF ReplyInv
    <3>4. ASSUME NEW l \in Lines, Plain(l)'
          PROVE  want'.mem[l] = soc'.mem[l]
      BY <1>3, <3>1, <3>4 DEF ReplyInv, Plain
    <3>5. ReplyInv'
      BY <3>1, <3>2, <3>3, <3>4 DEF ReplyInv
    <3> QED
      BY <1>3, <3>5 DEF PortTypes
  <2>3. CASE ~free
    <3>1. UNCHANGED <<req, rsp, soc, nreq, want>> /\ ph' \notin {"negedge", "snoop"}
      BY <1>3, <2>3
    <3>2. ReplyInv'
      BY <2>1, <3>1, ReplyFrame
    <3> QED
      BY <1>3, <3>2 DEF PortTypes
  <2> QED
    BY <2>2, <2>3
<1>4. ASSUME NEW q \in opt.mem, free, req' = q, nreq' = nreq + 1,
             want' = IF q.op = "store"
                     THEN [want EXCEPT !.mem[q.line] = [b \in Bytes16 |-> IF b \in q.mask THEN q.data[b] ELSE @[b]]]
                     ELSE want
      PROVE  /\ ReplyInv' /\ nreq' \in Nat
             /\ DOMAIN want' = {"mem", "replies"} /\ want'.replies \in Nat /\ DOMAIN want'.mem = Lines
  <2>1. IsRequest(q)
    BY DEF PortTypes
  <2>2. q # NoReq /\ q.line \in Lines
    BY <2>1 DEF IsRequest, NoReq
  <2>3. ~Pending /\ Pending' /\ mem_reply = -1
    BY <1>1, <1>2, <1>4, <2>2 DEF ReplyInv
  <2>4. want' = IF q.op = "store" THEN [want EXCEPT !.mem[q.line] = Stored(want.mem[q.line], q)] ELSE want
    BY <1>4 DEF Stored, PortTypes
  <2>5. /\ DOMAIN want' = {"mem", "replies"} /\ want'.replies = want.replies
        /\ DOMAIN want'.mem = Lines
    BY <2>4 DEF PortTypes
  <2>6. nreq' \in Nat /\ want'.replies \in Nat /\ want'.replies + 1 = nreq'
    BY <1>4, <2>3, <2>5 DEF PortTypes, ReplyInv
  <2>7. ASSUME NEW l \in Lines, Plain(l)'
        PROVE  want'.mem[l] = IF req'.op = "store" /\ req'.line = l
                              THEN Stored(soc'.mem[l], req') ELSE soc'.mem[l]
    <3>1. want.mem[l] = soc.mem[l]
      BY <2>3, <2>7 DEF ReplyInv, Plain
    <3>2. want'.mem[l] = IF q.op = "store" /\ q.line = l THEN Stored(want.mem[l], q) ELSE want.mem[l]
      BY <2>2, <2>4 DEF PortTypes
    <3> QED
      BY <1>4, <3>1, <3>2
  <2>8. ReplyInv'
    BY <1>4, <2>1, <2>3, <2>6, <2>7 DEF ReplyInv
  <2> QED
    BY <2>5, <2>6, <2>8
<1> QED
  BY <1>3, <1>4 DEF CoreRequests

LEMMA PosedgeStep ==
    ASSUME PortInv, Posedge
    PROVE  PortInv'
<1>1. /\ ph = "eval" /\ ph' = "regs" /\ opt' = opt /\ snoop' = snoop
      /\ UNCHANGED <<mem_reply, rsp, soc>> /\ CoreRequests /\ L2Snoop
  BY DEF Posedge, Steps, Goto
<1>2. PortTypes /\ SnoopsConserved /\ SnoopInv /\ ReplyInv
  BY <1>1 DEF PortInv
<1>3. l2snoop' \in L2SnoopType /\ SnoopsConserved' /\ SnoopInv'
  BY <1>1, <1>2, L2SnoopStep
<1>4. /\ ReplyInv' /\ nreq' \in Nat
      /\ DOMAIN want' = {"mem", "replies"} /\ want'.replies \in Nat /\ DOMAIN want'.mem = Lines
  BY <1>1, <1>2, CoreRequestsStep
<1>5. PortTypes'
  BY <1>1, <1>2, <1>3, <1>4 DEF PortTypes, IsRequest
<1>6. (\A l \in Lines : ~Plain(l) => soc.mem[l] = [b \in Bytes16 |-> 0])'
  BY <1>1 DEF PortInv, Plain
<1> QED
  BY <1>3, <1>4, <1>5, <1>6 DEF PortInv

-----------------------------------------------------------------------------
(* The negative edge only lets time pass.                                      *)

LEMMA NegedgeStep ==
    ASSUME PortInv, Negedge
    PROVE  PortInv'
<1>1. /\ ph = "negedge" /\ ph' \in {"end", "snoop"} /\ opt' = opt /\ l2snoop' = l2snoop
      /\ UNCHANGED <<req, rsp, soc, nreq, want>>
      /\ mem_reply' = IF mem_reply > 0 THEN mem_reply - 1 ELSE mem_reply
      /\ snoop' = [snoop EXCEPT !.q = Passed(@)]
  BY DEF Negedge, Steps, Goto, Break
<1>2. PortTypes /\ SnoopsConserved /\ SnoopInv /\ ReplyInv
  BY <1>1 DEF PortInv
<1>3. snoop \in SnoopType /\ mem_reply \in Nat \cup {-1}
  BY <1>2 DEF PortTypes
<1>4. Passed(snoop.q) \in Seq(Nat) /\ Len(Passed(snoop.q)) = Len(snoop.q)
  <2>1. PICK n \in Nat : n = Len(snoop.q) /\ DOMAIN snoop.q = 1..n
    BY <1>3 DEF SnoopType
  <2>2. Passed(snoop.q) \in [1..n -> Nat]
    BY <1>3, <2>1 DEF SnoopType, Passed
  <2> QED
    BY <2>1, <2>2
<1>5. snoop' \in SnoopType
  BY <1>1, <1>3, <1>4 DEF SnoopType
<1>6. /\ snoop'.busy = snoop.busy /\ snoop'.acked = snoop.acked /\ snoop'.issued = snoop.issued
      /\ snoop'.done = snoop.done /\ snoop'.seen = snoop.seen /\ snoop'.dropped = snoop.dropped
      /\ Len(snoop'.q) = Len(snoop.q)
  BY <1>1, <1>3, <1>4 DEF SnoopType
<1>7. SnoopsConserved' /\ SnoopInv'
  BY <1>1, <1>2, <1>6 DEF SnoopsConserved, SnoopInv
<1>8. PortTypes'
  BY <1>1, <1>2, <1>3, <1>5 DEF PortTypes, IsRequest
<1>9. ph' # "end" => ReplyInv'
  <2> HAVE ph' # "end"
  <2>1. Pending' <=> Pending
    BY <1>1 DEF Pending, NoReq, NoRsp
  <2>2. mem_reply' # -1 => mem_reply # -1
    BY <1>1, <1>3
  <2> QED
    BY <1>1, <1>2, <2>1, <2>2, ReplyFrame
<1>10. (\A l \in Lines : ~Plain(l) => soc.mem[l] = [b \in Bytes16 |-> 0])'
  BY <1>1 DEF PortInv, Plain
<1> QED
  BY <1>7, <1>8, <1>9, <1>10 DEF PortInv

-----------------------------------------------------------------------------
(* The memory port.  A store of a line is four stores of words.               *)

Spans(st) == DOMAIN st = {"mem", "mc", "ee", "hpc", "tx", "aborted"} /\ DOMAIN st.mem = Lines

WordIn(old, w, q) == [b \in Bytes16 |-> IF b \in Word(w) \cap q.mask THEN q.data[b] ELSE old[b]]

LEMMA StoreWordIn ==
    ASSUME NEW st, Spans(st), NEW q, q.line \in Lines, NEW w
    PROVE  LET t == StoreWord(st, q.line, w, q.mask, q.data, opt.indy) IN
           /\ Spans(t)
           /\ Plain(q.line)  => t.mem = [st.mem EXCEPT ![q.line] = WordIn(@, w, q)]
           /\ ~Plain(q.line) => t.mem = st.mem
<1> DEFINE r == Range(q.line, opt.indy)
           x == [j \in 0..3 |-> q.data[4 * w + j]]
           t == StoreWord(st, q.line, w, q.mask, q.data, opt.indy)
<1>1. CASE Plain(q.line)
  <2>1. t = [st EXCEPT !.mem[q.line] = [b \in Bytes16 |-> IF b \in Word(w) \cap q.mask THEN q.data[b] ELSE @[b]]]
    BY <1>1, Zenon DEF StoreWord, Plain
  <2>2. t = [st EXCEPT !.mem = [st.mem EXCEPT ![q.line] = WordIn(@, w, q)]]
    BY <2>1 DEF WordIn, Spans
  <2> QED
    BY <1>1, <2>2 DEF Spans
<1>2. CASE ~Plain(q.line)
  <2>1. CASE r = "mc_regs"
    <3>1. \/ t = [st EXCEPT !.mc = McWrite(@, McOffs(q.line, w), x), !.ee = EeWrite(@, McOffs(q.line, w), x)]
          \/ t = st
      BY <2>1 DEF StoreWord
    <3> QED
      BY <1>2, <3>1 DEF Spans
  <2>2. CASE r = "hpc_regs"
    <3>1. \/ t = [st EXCEPT !.hpc = HpcWrite(@, HpcOffs(q.line, w), x),
                            !.aborted = @ \/ HpcAborts(HpcOffs(q.line, w))]
          \/ t = st
      BY <2>2 DEF StoreWord
    <3> QED
      BY <1>2, <3>1 DEF Spans
  <2>3. CASE r = "scc_regs"
    <3>1. t = [st EXCEPT !.tx = @ \o Sent(w, q.mask, q.data)]
      BY <2>3 DEF StoreWord
    <3> QED
      BY <1>2, <3>1 DEF Spans
  <2> QED
    BY <1>2, <2>1, <2>2, <2>3 DEF Plain
<1> QED
  BY <1>1, <1>2

LEMMA WordsAreLine ==
    ASSUME NEW old, NEW q
    PROVE  WordIn(WordIn(WordIn(WordIn(old, 0, q), 1, q), 2, q), 3, q) = Stored(old, q)
<1> DEFINE a == WordIn(old, 0, q)
           b == WordIn(a, 1, q)
           c == WordIn(b, 2, q)
<1>1. ASSUME NEW i \in Bytes16
      PROVE  WordIn(c, 3, q)[i] = Stored(old, q)[i]
  <2>1. a[i] = IF i \in Word(0) \cap q.mask THEN q.data[i] ELSE old[i]
    BY DEF WordIn
  <2>2. b[i] = IF i \in Word(1) \cap q.mask THEN q.data[i] ELSE a[i]
    BY DEF WordIn
  <2>3. c[i] = IF i \in Word(2) \cap q.mask THEN q.data[i] ELSE b[i]
    BY DEF WordIn
  <2>4. WordIn(c, 3, q)[i] = IF i \in Word(3) \cap q.mask THEN q.data[i] ELSE c[i]
    BY DEF WordIn
  <2>5. Stored(old, q)[i] = IF i \in q.mask THEN q.data[i] ELSE old[i]
    BY DEF Stored
  <2>6. i \in Word(0) \cup Word(1) \cup Word(2) \cup Word(3)
    BY DEF Word, Bytes16
  <2> HIDE DEF a, b, c
  <2> QED
    BY <2>1, <2>2, <2>3, <2>4, <2>5, <2>6
<1> HIDE DEF c
<1>2. \A i \in Bytes16 : WordIn(c, 3, q)[i] = Stored(old, q)[i]
  BY <1>1
<1>3. WordIn(c, 3, q) = Stored(old, q)
  BY <1>2 DEF WordIn, Stored
<1> QED
  BY <1>3 DEF c

LEMMA StoreLineIn ==
    ASSUME NEW st, Spans(st), NEW q, q.line \in Lines
    PROVE  /\ Spans(StoreLine(st, q))
           /\ Plain(q.line)  => StoreLine(st, q).mem = [st.mem EXCEPT ![q.line] = Stored(@, q)]
           /\ ~Plain(q.line) => StoreLine(st, q).mem = st.mem
<1> DEFINE S(x, w) == StoreWord(x, q.line, w, q.mask, q.data, opt.indy)
           S1 == S(st, 0)
           S2 == S(S1, 1)
           S3 == S(S2, 2)
           S4 == S(S3, 3)
<1>1. StoreLine(st, q) = S4
  BY Zenon DEF StoreLine
<1>2. \A x, w : Spans(x) => /\ Spans(S(x, w))
                            /\ Plain(q.line)  => S(x, w).mem = [x.mem EXCEPT ![q.line] = WordIn(@, w, q)]
                            /\ ~Plain(q.line) => S(x, w).mem = x.mem
  BY StoreWordIn
<1> HIDE DEF S
<1>3. Spans(S1) /\ Spans(S2) /\ Spans(S3) /\ Spans(S4)
  BY <1>2
<1>4. CASE ~Plain(q.line)
  <2>1. S1.mem = st.mem
    BY <1>2, <1>4
  <2>2. S2.mem = S1.mem
    BY <1>2, <1>3, <1>4
  <2>3. S3.mem = S2.mem
    BY <1>2, <1>3, <1>4
  <2>4. S4.mem = S3.mem
    BY <1>2, <1>3, <1>4
  <2> QED
    BY <1>1, <1>3, <1>4, <2>1, <2>2, <2>3, <2>4, Zenon
<1>5. CASE Plain(q.line)
  <2>1. S1.mem = [st.mem EXCEPT ![q.line] = WordIn(@, 0, q)]
    BY <1>2, <1>5
  <2>2. S2.mem = [S1.mem EXCEPT ![q.line] = WordIn(@, 1, q)]
    BY <1>2, <1>3, <1>5
  <2>3. S3.mem = [S2.mem EXCEPT ![q.line] = WordIn(@, 2, q)]
    BY <1>2, <1>3, <1>5
  <2>4. S4.mem = [S3.mem EXCEPT ![q.line] = WordIn(@, 3, q)]
    BY <1>2, <1>3, <1>5
  <2> HIDE DEF S1, S2, S3, S4
  <2>5. S4.mem = [st.mem EXCEPT ![q.line] = WordIn(WordIn(WordIn(WordIn(@, 0, q), 1, q), 2, q), 3, q)]
    BY <2>1, <2>2, <2>3, <2>4 DEF Spans
  <2> QED
    BY <1>1, <1>3, <1>5, <2>5, WordsAreLine
<1> QED
  BY <1>4, <1>5

LEMMA PlainLoad ==
    ASSUME NEW st, NEW q, Plain(q.line), NEW icnt
    PROVE  LoadLine(st, q.line, q.mask, opt.indy, icnt) = Loaded(st.mem[q.line], q)
BY DEF LoadLine, Loaded, Plain

LEMMA QueueStep ==
    ASSUME PortTypes, SnoopsConserved, SnoopInv, ph # "eval", opt' = opt, l2snoop' = l2snoop,
           snoop' = QueueSnoop(snoop)
    PROVE  snoop' \in SnoopType /\ SnoopsConserved' /\ SnoopInv'
<1> DEFINE e == opt.snoop_every
           counted == opt.snoop_delay # 0 /\ req.op = "load"
           n  == IF counted THEN snoop.seen + 1 ELSE snoop.seen
           q1 == IF Selected /\ Len(snoop.q) < SNOOPQ THEN Append(snoop.q, opt.snoop_delay) ELSE snoop.q
           d1 == IF Selected /\ ~(Len(snoop.q) < SNOOPQ) THEN snoop.dropped + 1 ELSE snoop.dropped
<1>1. /\ snoop \in SnoopType /\ e \in Nat \ {0} /\ opt.snoop_delay \in Nat /\ SNOOPQ \in Nat
      /\ snoop.seen \in Nat /\ snoop.q \in Seq(Nat) /\ snoop.dropped \in Nat /\ snoop.issued \in Nat
  BY CosimAssumption DEF PortTypes, SnoopType
<1>2. snoop' = [snoop EXCEPT !.seen = n, !.q = q1, !.dropped = d1]
  BY <1>1 DEF QueueSnoop, Selected, SnoopType
<1>3. n \in Nat /\ q1 \in Seq(Nat) /\ d1 \in Nat
  BY <1>1
<1>4. PICK c, c1, k, k1 : /\ c = Chosen(snoop.seen, e) /\ c1 = Chosen(n, e)
                          /\ k = Len(snoop.q) /\ k1 = Len(q1)
  OBVIOUS
<1>5. c1 = c + (IF Selected THEN 1 ELSE 0) /\ c \in Int
  <2>1. c \in Int /\ Chosen(snoop.seen + 1, e) = c + (IF snoop.seen % e = 0 THEN 1 ELSE 0)
    BY <1>1, <1>4, SelectCounts
  <2>2. CASE counted
    <3>1. Selected <=> snoop.seen % e = 0
      BY <2>2 DEF Selected
    <3> QED
      BY <1>4, <2>1, <2>2, <3>1
  <2>3. CASE ~counted
    <3>1. ~Selected
      BY <2>3 DEF Selected
    <3> QED
      BY <1>4, <2>1, <2>3, <3>1
  <2> QED
    BY <2>2, <2>3
<1>6. /\ k \in Nat /\ k <= SNOOPQ /\ c = snoop.issued + k + snoop.dropped
      /\ k1 = IF Selected /\ k < SNOOPQ THEN k + 1 ELSE k
      /\ d1 = IF Selected /\ ~(k < SNOOPQ) THEN snoop.dropped + 1 ELSE snoop.dropped
  BY <1>1, <1>4 DEF SnoopsConserved
<1> HIDE DEF n, q1, d1
<1>7. /\ k \in Nat /\ k <= SNOOPQ /\ c = snoop.issued + k + snoop.dropped /\ SNOOPQ \in Nat
       /\ snoop.issued \in Nat /\ snoop.dropped \in Nat
  BY <1>1, <1>6
<1>8. c1 = snoop.issued + k1 + d1 /\ k1 <= SNOOPQ
  <2>1. CASE ~Selected
    BY <1>1, <1>5, <1>6, <2>1
  <2>2. CASE Selected /\ k < SNOOPQ
    <3>1. c1 = c + 1 /\ k1 = k + 1 /\ d1 = snoop.dropped
      BY <1>5, <1>6, <2>2
    <3> QED
      BY <1>7, <2>2, <3>1
  <2>3. CASE Selected /\ ~(k < SNOOPQ)
    <3>1. c1 = c + 1 /\ k1 = k /\ d1 = snoop.dropped + 1
      BY <1>5, <1>6, <2>3
    <3> QED
      BY <1>7, <3>1
  <2> QED
    BY <2>1, <2>2, <2>3
<1>9. snoop' \in SnoopType
  BY <1>1, <1>2, <1>3 DEF SnoopType
<1>10. /\ snoop'.seen = n /\ snoop'.q = q1 /\ snoop'.dropped = d1 /\ snoop'.issued = snoop.issued
      /\ snoop'.done = snoop.done /\ snoop'.busy = snoop.busy /\ snoop'.acked = snoop.acked
  BY <1>1, <1>2 DEF SnoopType
<1>11. SnoopsConserved' /\ SnoopInv'
  BY <1>4, <1>8, <1>10 DEF SnoopsConserved, SnoopInv
<1> QED
  BY <1>9, <1>11

LEMMA Unanswered ==
    ASSUME ReplyInv, opt' = opt, UNCHANGED <<req, soc, nreq, want>>, rsp' = NoRsp,
           Pending <=> req # NoReq, Pending' <=> req # NoReq /\ rsp' = NoRsp,
           mem_reply' # -1 => req # NoReq
    PROVE  ReplyInv'
<1>1. (Pending' <=> Pending) /\ rsp'.op # "load"
  BY DEF NoRsp
<1>2. (req # NoReq => IsRequest(req))' /\ (mem_reply # -1 => Pending)'
  BY <1>1 DEF ReplyInv, IsRequest
<1>3. (want.replies + (IF Pending THEN 1 ELSE 0) = nreq)'
  BY <1>1 DEF ReplyInv
<1>4. ASSUME NEW l \in Lines, Plain(l)'
      PROVE  want'.mem[l] = IF Pending' /\ req'.op = "store" /\ req'.line = l
                            THEN Stored(soc'.mem[l], req') ELSE soc'.mem[l]
  BY <1>1, <1>4 DEF ReplyInv, Plain
<1> QED
  BY <1>1, <1>2, <1>3, <1>4 DEF ReplyInv

LEMMA MemoryStep ==
    ASSUME PortInv, Memory
    PROVE  PortInv'
<1>1. /\ ph = "memory" /\ ph' \in {"end", "negedge"} /\ opt' = opt
      /\ UNCHANGED <<req, nreq, l2snoop>>
  BY DEF Memory, Steps, Goto, Break
<1>2. PortTypes /\ SnoopsConserved /\ SnoopInv /\ ReplyInv
  BY <1>1 DEF PortInv
<1>3. Pending <=> req # NoReq
  BY <1>1 DEF Pending
<1>4. ph' # "end" => (Pending' <=> req # NoReq /\ rsp' = NoRsp)
  BY <1>1 DEF Pending, NoReq, NoRsp
<1>5. CASE req # NoReq /\ mem_reply = -1
  <2>1. /\ \E lat \in Lat : mem_reply' = (IF req.op = "load" THEN 1 ELSE 2) * lat
        /\ snoop' = QueueSnoop(snoop) /\ rsp' = NoRsp /\ UNCHANGED <<soc, want>>
    BY <1>5 DEF Memory
  <2>2. mem_reply' \in Nat
    BY <2>1, CosimAssumption
  <2>3. snoop' \in SnoopType /\ SnoopsConserved' /\ SnoopInv'
    BY <1>1, <1>2, <2>1, QueueStep
  <2>4. PortTypes'
    BY <1>1, <1>2, <2>1, <2>2, <2>3 DEF PortTypes, IsRequest
  <2>5. ph' # "end" => ReplyInv'
    BY <1>1, <1>2, <1>3, <1>4, <1>5, <2>1, Unanswered
  <2>6. (\A l \in Lines : ~Plain(l) => soc.mem[l] = [b \in Bytes16 |-> 0])'
    BY <1>1, <2>1 DEF PortInv, Plain
  <2> QED
    BY <2>3, <2>4, <2>5, <2>6 DEF PortInv
<1>6. CASE ~(req # NoReq /\ mem_reply = -1) /\ mem_reply # 0
  <2>1. snoop' = snoop /\ rsp' = NoRsp /\ UNCHANGED <<soc, want, mem_reply>>
    BY <1>6 DEF Memory
  <2>2. SnoopsConserved' /\ SnoopInv'
    BY <1>1, <1>2, <2>1, SnoopFrame DEF snp
  <2>3. PortTypes'
    BY <1>1, <1>2, <2>1 DEF PortTypes, IsRequest
  <2>4. mem_reply # -1 => req # NoReq
    BY <1>2, <1>3 DEF ReplyInv
  <2>5. ph' # "end" => ReplyInv'
    BY <1>1, <1>2, <1>3, <1>4, <1>6, <2>1, <2>4, Unanswered
  <2>6. (\A l \in Lines : ~Plain(l) => soc.mem[l] = [b \in Bytes16 |-> 0])'
    BY <1>1, <2>1 DEF PortInv, Plain
  <2> QED
    BY <2>2, <2>3, <2>5, <2>6 DEF PortInv
<1>7. CASE ~(req # NoReq /\ mem_reply = -1) /\ mem_reply = 0
  <2>1. /\ snoop' = snoop /\ mem_reply' = -1 /\ want' = [want EXCEPT !.replies = @ + 1]
        /\ IF req.op = "load"
           THEN /\ \E icnt \in 0..1 :
                     rsp' = [req EXCEPT !.data = LoadLine(soc, req.line, req.mask, opt.indy, icnt)]
                /\ soc' = soc
           ELSE soc' = StoreLine(soc, req) /\ rsp' = req
    BY <1>7 DEF Memory
  <2>2. Pending /\ req # NoReq /\ IsRequest(req)
    BY <1>2, <1>3, <1>7 DEF ReplyInv
  <2>3. SnoopsConserved' /\ SnoopInv'
    BY <1>1, <1>2, <2>1, SnoopFrame DEF snp
  <2>4. Spans(soc) /\ req.line \in Lines
    BY <1>2, <2>2 DEF PortTypes, Spans, IsRequest
  <2>5. CASE req.op = "load"
    <3>1. soc' = soc
      BY <2>1, <2>5
    <3>2. PICK icnt \in 0..1 : rsp' = [req EXCEPT !.data = LoadLine(soc, req.line, req.mask, opt.indy, icnt)]
      BY <2>1, <2>5
    <3>3. rsp' # NoRsp /\ rsp'.line = req.line /\ rsp'.mask = req.mask
          /\ rsp'.data = LoadLine(soc, req.line, req.mask, opt.indy, icnt)
      BY <2>2, <2>5, <3>2 DEF IsRequest, NoRsp
    <3>4. Plain(req.line) => rsp'.data = Loaded(soc.mem[req.line], req)
      BY <3>3, PlainLoad
    <3>5. Loaded(soc.mem[req.line], rsp') = Loaded(soc.mem[req.line], req)
      BY <3>3 DEF Loaded
    <3>6. PortTypes'
      BY <1>1, <1>2, <2>1, <3>1 DEF PortTypes, IsRequest
    <3>7. want'.mem = want.mem /\ want'.replies = want.replies + 1
      BY <1>2, <2>1 DEF PortTypes
    <3>8. ASSUME NEW l \in Lines, Plain(l)
          PROVE  want.mem[l] = soc.mem[l]
      BY <1>2, <2>5, <3>8 DEF ReplyInv
    <3>9. ph' # "end" => ReplyInv'
      <4> HAVE ph' # "end"
      <4>1. ~Pending'
        BY <1>4, <3>3
      <4>2. (want.replies + (IF Pending THEN 1 ELSE 0) = nreq)'
        BY <1>1, <1>2, <2>2, <3>7, <4>1 DEF ReplyInv, PortTypes
      <4>3. (req # NoReq => IsRequest(req))' /\ (mem_reply # -1 => Pending)'
        BY <1>1, <2>1, <2>2 DEF IsRequest
      <4>4. \A l \in Lines : Plain(l)' => want'.mem[l] = soc'.mem[l]
        BY <1>1, <3>1, <3>7, <3>8 DEF Plain
      <4>5. (Plain(rsp.line))' => rsp'.data = Loaded(want'.mem[rsp'.line], rsp')
        <5>1. (Plain(rsp.line))' => Plain(req.line)
          BY <1>1, <3>3 DEF Plain
        <5> QED
          BY <2>4, <3>3, <3>4, <3>5, <3>7, <3>8, <5>1
      <4> QED
        BY <4>1, <4>2, <4>3, <4>4, <4>5 DEF ReplyInv
    <3>10. (\A l \in Lines : ~Plain(l) => soc.mem[l] = [b \in Bytes16 |-> 0])'
      BY <1>1, <3>1 DEF PortInv, Plain
    <3> QED
      BY <2>3, <3>6, <3>9, <3>10 DEF PortInv
  <2>6. CASE req.op # "load"
    <3>1. soc' = StoreLine(soc, req) /\ rsp' = req
      BY <2>1, <2>6
    <3>2. req.op = "store"
      BY <2>2, <2>6 DEF IsRequest
    <3>3. /\ Spans(soc')
          /\ Plain(req.line)  => soc'.mem = [soc.mem EXCEPT ![req.line] = Stored(@, req)]
          /\ ~Plain(req.line) => soc'.mem = soc.mem
      BY <2>4, <3>1, StoreLineIn
    <3>4. rsp' # NoRsp
      BY <3>1, <3>2 DEF NoRsp
    <3>5. PortTypes'
      BY <1>1, <1>2, <2>1, <3>3 DEF PortTypes, IsRequest, Spans
    <3>6. want'.mem = want.mem /\ want'.replies = want.replies + 1
      BY <1>2, <2>1 DEF PortTypes
    <3>7. ASSUME NEW l \in Lines, Plain(l)
          PROVE  want.mem[l] = soc'.mem[l]
      <4>1. want.mem[l] = IF req.line = l THEN Stored(soc.mem[l], req) ELSE soc.mem[l]
        BY <1>2, <2>2, <3>2, <3>7 DEF ReplyInv
      <4>2. soc'.mem[l] = IF req.line = l THEN Stored(soc.mem[l], req) ELSE soc.mem[l]
        BY <2>4, <3>3, <3>7 DEF Spans
      <4> QED
        BY <4>1, <4>2
    <3>8. ph' # "end" => ReplyInv'
      <4> HAVE ph' # "end"
      <4>1. ~Pending'
        BY <1>4, <3>4
      <4>2. (want.replies + (IF Pending THEN 1 ELSE 0) = nreq)'
        BY <1>1, <1>2, <2>2, <3>6, <4>1 DEF ReplyInv, PortTypes
      <4>3. (req # NoReq => IsRequest(req))' /\ (mem_reply # -1 => Pending)'
        BY <1>1, <2>1, <2>2 DEF IsRequest
      <4>4. \A l \in Lines : Plain(l)' => want'.mem[l] = soc'.mem[l]
        BY <1>1, <3>6, <3>7 DEF Plain
      <4>5. rsp'.op # "load"
        BY <3>1, <3>2
      <4> QED
        BY <4>1, <4>2, <4>3, <4>4, <4>5 DEF ReplyInv
    <3>9. (\A l \in Lines : ~Plain(l) => soc.mem[l] = [b \in Bytes16 |-> 0])'
      <4>1. ASSUME NEW l \in Lines, ~Plain(l)
            PROVE  soc'.mem[l] = [b \in Bytes16 |-> 0]
        <5>1. soc'.mem[l] = soc.mem[l]
          BY <2>4, <3>3, <4>1 DEF Spans
        <5> QED
          BY <4>1, <5>1 DEF PortInv
      <4> QED
        BY <1>1, <4>1 DEF Plain
    <3> QED
      BY <2>3, <3>5, <3>8, <3>9 DEF PortInv
  <2> QED
    BY <2>5, <2>6
<1> QED
  BY <1>5, <1>6, <1>7

-----------------------------------------------------------------------------
LEMMA PortInit == Init => PortInv
<1> SUFFICES ASSUME Init PROVE PortInv
  OBVIOUS
<1>1. PICK c \in CmdLines : opt = c[2]
  BY DEF Init
<1>2. /\ \A q \in opt.mem : IsRequest(q)
      /\ opt.snoop_every \in Nat \ {0} /\ opt.snoop_delay \in Nat
  BY <1>1, CmdAssumption
<1>3. /\ snoop = [busy |-> FALSE, acked |-> FALSE, q |-> <<>>, seen |-> 0, issued |-> 0,
                  done |-> 0, dropped |-> 0]
      /\ l2snoop = [valid |-> FALSE, ack |-> FALSE, done |-> FALSE, taken |-> 0]
      /\ nreq = 0 /\ mem_reply = -1 /\ req = NoReq /\ rsp = NoRsp
      /\ want = [mem |-> soc.mem, replies |-> 0] /\ soc = SocReset([b \in Bytes16 |-> 0])
  BY DEF Init
<1>4. /\ DOMAIN soc = {"mem", "mc", "ee", "hpc", "tx", "aborted"}
      /\ soc.mem = [l \in Lines |-> [b \in Bytes16 |-> 0]]
  BY <1>3 DEF SocReset
<1>5. PortTypes
  <2>1. snoop \in SnoopType /\ l2snoop \in L2SnoopType
    BY <1>3 DEF SnoopType, L2SnoopType
  <2> QED
    BY <1>2, <1>3, <1>4, <2>1 DEF PortTypes
<1>6. SnoopsConserved /\ SnoopInv
  <2>1. Chosen(0, opt.snoop_every) = 0
    BY <1>2 DEF Chosen
  <2> QED
    BY <1>3, <2>1, CosimAssumption DEF SnoopsConserved, SnoopInv
<1>7. ReplyInv
  BY <1>3 DEF ReplyInv, Pending, NoRsp
<1> QED
  BY <1>4, <1>5, <1>6, <1>7 DEF PortInv

LEMMA PortNext == PortInv /\ [Next]_vars => PortInv'
<1> SUFFICES ASSUME PortInv, [Next]_vars PROVE PortInv'
  OBVIOUS
<1>1. CASE RetireReg \/ NoRetire \/ Unchecked \/ Check \/ CatchUp \/ Mismatch \/ RetireTwoReg \/ Stops
  BY <1>1, InnerStep
<1>2. CASE InjectSnoop
  BY <1>2, InjectStep
<1>3. CASE Posedge
  BY <1>3, PosedgeStep
<1>4. CASE Memory
  BY <1>4, MemoryStep
<1>5. CASE Negedge
  BY <1>5, NegedgeStep
<1>6. CASE UNCHANGED vars
  <2>1. opt' = opt /\ ph' = ph /\ UNCHANGED memp /\ UNCHANGED snp
    BY <1>6 DEF vars, core, chk, memp, snp
  <2>2. PortTypes' /\ SnoopsConserved' /\ SnoopInv'
    BY <2>1 DEF PortInv, PortTypes, SnoopsConserved, SnoopInv, memp, snp, IsRequest
  <2>3. ph' # "end" => ReplyInv'
    <3> HAVE ph' # "end"
    <3>1. Pending' <=> Pending
      BY <2>1 DEF Pending, memp, NoReq, NoRsp
    <3>2. UNCHANGED <<req, rsp, soc, nreq, want>> /\ (mem_reply' # -1 => mem_reply # -1)
      BY <2>1 DEF memp
    <3> QED
      BY <2>1, <3>1, <3>2, ReplyFrame DEF PortInv
  <2>4. (\A l \in Lines : ~Plain(l) => soc.mem[l] = [b \in Bytes16 |-> 0])'
    BY <2>1 DEF PortInv, Plain, memp
  <2> QED
    BY <2>2, <2>3, <2>4 DEF PortInv
<1> QED
  BY <1>1, <1>2, <1>3, <1>4, <1>5, <1>6 DEF Next, Ended

(* The invariant says at every step of the loop what MemoryPorts says at the   *)
(* start of a cycle.                                                           *)
LEMMA PortImplies == PortInv => MemoryPorts
<1> SUFFICES ASSUME PortInv PROVE MemoryPorts
  OBVIOUS
<1>1. SnoopsConserved /\ \A l \in Lines : ~Plain(l) => soc.mem[l] = [b \in Bytes16 |-> 0]
  BY DEF PortInv
<1>2. CASE ~CycleStart
  BY <1>1, <1>2 DEF MemoryPorts, AnsweredExactly
<1>3. CASE CycleStart
  <2>1. ReplyInv /\ (Pending <=> Outstanding)
    BY <1>3 DEF PortInv, CycleStart, Pending, Outstanding
  <2>2. want.replies + (IF Outstanding THEN 1 ELSE 0) = nreq
    BY <2>1 DEF ReplyInv
  <2>3. rsp.op = "load" /\ Plain(rsp.line) =>
          rsp.data = [b \in Bytes16 |-> IF b \in rsp.mask THEN want.mem[rsp.line][b] ELSE 0]
    BY <1>3, <2>1 DEF ReplyInv, CycleStart, Loaded
  <2>4. \A l \in Lines : Plain(l) /\ ~(Outstanding /\ req.line = l) => soc.mem[l] = want.mem[l]
    BY <2>1 DEF ReplyInv
  <2> QED
    BY <1>1, <2>2, <2>3, <2>4 DEF MemoryPorts, AnsweredExactly
<1> QED
  BY <1>2, <1>3

(* Every request of the memory port is answered exactly once with the bytes     *)
(* the latest stores left, and no snoop is lost, repeated or overlapped: the    *)
(* memory and snoop sections of top.cc's loop, for any program and accesses.   *)
THEOREM PortsServed == Spec => []MemoryPorts
<1>1. Init => PortInv
  BY PortInit
<1>2. PortInv /\ [Next]_vars => PortInv'
  BY PortNext
<1>3. PortInv => MemoryPorts
  BY PortImplies
<1> QED
  BY <1>1, <1>2, <1>3, PTL DEF Spec

=============================================================================
