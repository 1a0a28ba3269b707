----------------------------- MODULE CoreProofs -----------------------------
(***************************************************************************)
(* Proofs about Core, for every program and every size of the queues: the   *)
(* instructions in flight are those of the reference machine in order,      *)
(* exceptions are precise, a retired CACHE instruction was performed, and   *)
(* the fetch colours of uops and resolutions are the eras they stand for.   *)
(***************************************************************************)
EXTENDS CoreInv, SequenceTheorems, WellFoundedInduction, TLAPS

-----------------------------------------------------------------------------
(* Addresses and programs.                                                  *)

LEMMA SuccType == \A a \in Pc : Succ(a) \in Pc
BY ProgramAssumption DEF Succ, Pc

LEMMA PredType == \A a \in Pc : Pred(a) \in Pc
BY ProgramAssumption DEF Pred, Pc

LEMMA ProgType ==
    ASSUME NEW p \in Programs, NEW a \in Pc
    PROVE  p[a].op \in Op /\ p[a].tgt \in Pc
BY ProgramAssumption

\* The slot of a branch holds no branch and no ERET.
LEMMA SlotLegal ==
    ASSUME NEW p \in Programs, NEW a \in Pc, IsBr(p[a].op)
    PROVE  ~IsBr(p[Succ(a)].op) /\ p[Succ(a)].op # "eret"
BY ProgramAssumption DEF Legal

-----------------------------------------------------------------------------
(* Streams.                                                                 *)

LEMMA LiveFirst == ASSUME NEW s PROVE Live(s, 1)
BY DEF Live

LEMMA LiveStep ==
    ASSUME NEW s, NEW k \in Nat \ {0}
    PROVE  Live(s, k + 1) <=> Live(s, k) /\ ~Ends(s[k].op)
BY DEF Live

LEMMA LivePrefix ==
    ASSUME NEW s, NEW k \in Nat, NEW j \in 1 .. k, Live(s, k)
    PROVE  Live(s, j)
BY DEF Live

LEMMA LiveSame ==
    ASSUME NEW s, NEW t, NEW k \in Nat, \A j \in 1 .. k - 1 : s[j].op = t[j].op
    PROVE  Live(s, k) <=> Live(t, k)
BY DEF Live

LEMMA LiveShift ==
    ASSUME NEW s, NEW t, NEW k \in Nat \ {0}, ~Ends(s[1].op),
           \A j \in 1 .. k - 1 : t[j] = s[j + 1], Live(t, k)
    PROVE  Live(s, k + 1)
<1> SUFFICES ASSUME NEW j \in 1 .. k PROVE ~Ends(s[j].op)
  BY DEF Live
<1>1. CASE j = 1
  BY <1>1
<1>2. CASE j # 1
  <2>1. j - 1 \in 1 .. k - 1 /\ (j - 1) + 1 = j
    BY <1>2
  <2> QED
    BY <2>1 DEF Live
<1> QED
  BY <1>1, <1>2

\* The first instruction of a path retires as predicted.
LEMMA PathDrop ==
    ASSUME NEW p \in Programs, NEW w, NEW w2, NEW n \in Nat \ {0}, NEW s, NEW t, NEW c, NEW nx, NEW ds,
           Path(p, w, n, s, c, nx, ds), ~Ends(s[1].op),
           \A k \in 1 .. n - 1 : t[k] = s[k + 1],
           w2.pc = w.npc, w2.slot <=> IsBr(s[1].op),
           w2.npc = IF IsBr(s[1].op) /\ s[1].pred THEN p[s[1].pc].tgt ELSE Succ(w.npc)
    PROVE  Path(p, w2, n - 1, t, c, nx, ds)
<1>a. \A k \in 1 .. n : Live(t, k) => Live(s, k + 1)
  BY LiveShift
<1>b. Live(s, 2)
  BY DEF Live
<1>c. ASSUME NEW k \in 1 .. n, Live(t, k)
      PROVE  /\ PcOf(p, w2, t, k) = PcOf(p, w, s, k + 1)
             /\ InSlot(w2, t, k) <=> InSlot(w, s, k + 1)
  <2>1. CASE k = 1
    BY <2>1 DEF PcOf, After, InSlot
  <2>2. CASE k = 2
    <3>1. s[2].pc = w.npc
      BY <2>2, <1>b DEF Path, PcOf, After
    <3>2. t[1] = s[2]
      BY <2>2
    <3> QED
      BY <2>2, <3>1, <3>2 DEF PcOf, After, InSlot
  <2>3. CASE k > 2
    <3>1. t[k - 1] = s[k] /\ t[k - 2] = s[k - 1]
      BY <2>3
    <3> QED
      BY <2>3, <3>1 DEF PcOf, After, InSlot
  <2> QED
    BY <2>1, <2>2, <2>3
<1>1. ASSUME NEW k \in 1 .. n - 1, Live(t, k)
      PROVE  /\ t[k].pc = PcOf(p, w2, t, k)
             /\ InSlot(w2, t, k) => ~IsBr(t[k].op) /\ t[k].op \notin {"irq", "xflush"}
  <2>1. Live(s, k + 1) /\ t[k] = s[k + 1] /\ k + 1 \in 1 .. n
    BY <1>1, <1>a
  <2> QED
    BY <2>1, <1>1, <1>c DEF Path
<1>2. ASSUME Live(t, n)
      PROVE  IF c = NoPc THEN n - 1 = 0 /\ nx = w2.pc /\ ~w2.slot /\ ~ds
             ELSE /\ c = PcOf(p, w2, t, n)
                  /\ nx = After(p, w2, t, n, c)
                  /\ ds \/ nx = Succ(c)
                  /\ IF n - 1 = 0 THEN ds => w2.slot ELSE ds <=> IsBr(t[n - 1].op) /\ t[n - 1].pred
  <2>1. Live(s, n + 1)
    BY <1>2, <1>a
  <2>2. /\ c # NoPc
        /\ c = PcOf(p, w, s, n + 1)
        /\ nx = After(p, w, s, n + 1, c)
        /\ ds \/ nx = Succ(c)
        /\ ds <=> IsBr(s[n].op) /\ s[n].pred
    BY <2>1 DEF Path
  <2>3. c = PcOf(p, w2, t, n)
    BY <2>2, <1>2, <1>c
  <2>4. CASE n = 1
    BY <2>2, <2>3, <2>4 DEF After, PcOf
  <2>5. CASE n > 1
    <3>1. t[n - 1] = s[n]
      BY <2>5
    <3> QED
      BY <2>2, <2>3, <2>5, <3>1 DEF After
  <2> QED
    BY <2>4, <2>5
<1> QED
  BY <1>1, <1>2 DEF Path

\* Decode puts an interrupt, a flush or a fetch fault in an instruction's place.
LEMMA PathRelabel ==
    ASSUME NEW p \in Programs, NEW w, NEW n \in Nat, NEW s, NEW t, NEW c, NEW nx, NEW ds,
           Path(p, w, n, s, c, nx, ds),
           \A k \in 1 .. n : t[k].pc = s[k].pc /\ t[k].pred = s[k].pred,
           \A k \in 1 .. n : Live(t, k) =>
               t[k].op = s[k].op \/ (Ends(t[k].op) /\ ~InSlot(w, s, k))
    PROVE  Path(p, w, n, t, c, nx, ds)
<1>a. \A k \in 1 .. n + 1 : Live(t, k) => \A j \in 1 .. k - 1 : t[j].op = s[j].op
  <2> SUFFICES ASSUME NEW k \in 1 .. n + 1, Live(t, k), NEW j \in 1 .. k - 1
               PROVE  t[j].op = s[j].op
    OBVIOUS
  <2>1. Live(t, j) /\ ~Ends(t[j].op)
    BY DEF Live
  <2> QED
    BY <2>1
<1>b. ASSUME NEW k \in 1 .. n + 1, Live(t, k)
      PROVE  /\ Live(s, k)
             /\ PcOf(p, w, t, k) = PcOf(p, w, s, k)
             /\ InSlot(w, t, k) <=> InSlot(w, s, k)
             /\ \A a : After(p, w, t, k, a) = After(p, w, s, k, a)
  <2>1. \A j \in 1 .. k - 1 : t[j].op = s[j].op
    BY <1>a, <1>b
  <2>2. Live(s, k)
    BY <1>b, <2>1 DEF Live
  <2>3. k > 1 => t[k - 1].op = s[k - 1].op /\ t[k - 1].pc = s[k - 1].pc /\ t[k - 1].pred = s[k - 1].pred
    BY <2>1
  <2>4. k > 2 => t[k - 2].op = s[k - 2].op /\ t[k - 2].pc = s[k - 2].pc /\ t[k - 2].pred = s[k - 2].pred
    BY <2>1
  <2> QED
    BY <2>2, <2>3, <2>4 DEF PcOf, After, InSlot
<1>1. ASSUME NEW k \in 1 .. n, Live(t, k)
      PROVE  /\ t[k].pc = PcOf(p, w, t, k)
             /\ InSlot(w, t, k) => ~IsBr(t[k].op) /\ t[k].op \notin {"irq", "xflush"}
  <2>1. Live(s, k) /\ PcOf(p, w, t, k) = PcOf(p, w, s, k) /\ (InSlot(w, t, k) <=> InSlot(w, s, k))
    BY <1>1, <1>b
  <2>2. /\ s[k].pc = PcOf(p, w, s, k)
        /\ InSlot(w, s, k) => ~IsBr(s[k].op) /\ s[k].op \notin {"irq", "xflush"}
    BY <2>1 DEF Path
  <2>3. t[k].op = s[k].op \/ ~InSlot(w, s, k)
    BY <1>1
  <2> QED
    BY <2>1, <2>2, <2>3
<1>2. ASSUME Live(t, n + 1)
      PROVE  IF c = NoPc THEN n = 0 /\ nx = w.pc /\ ~w.slot /\ ~ds
             ELSE /\ c = PcOf(p, w, t, n + 1)
                  /\ nx = After(p, w, t, n + 1, c)
                  /\ ds \/ nx = Succ(c)
                  /\ IF n = 0 THEN ds => w.slot ELSE ds <=> IsBr(t[n].op) /\ t[n].pred
  <2>1. /\ Live(s, n + 1)
        /\ PcOf(p, w, t, n + 1) = PcOf(p, w, s, n + 1)
        /\ After(p, w, t, n + 1, c) = After(p, w, s, n + 1, c)
    BY <1>2, <1>b
  <2>2. n > 0 => t[n].op = s[n].op /\ t[n].pred = s[n].pred
    BY <1>2, <1>a
  <2> QED
    BY <2>1, <2>2 DEF Path
<1> QED
  BY <1>1, <1>2 DEF Path

\* No slot follows a slot.
LEMMA SlotFollows ==
    ASSUME NEW p \in Programs, NEW w, Sound(p, w), w.pc \in Pc,
           NEW n \in Nat, NEW s, NEW c, NEW nx, NEW ds,
           \A k \in 1 .. n : s[k].pc \in Pc /\ Right(p, s[k]),
           Path(p, w, n, s, c, nx, ds),
           NEW k \in 1 .. n + 1, Live(s, k), InSlot(w, s, k)
    PROVE  \E a \in Pc : IsBr(p[a].op) /\ PcOf(p, w, s, k) = Succ(a)
<1>1. CASE k = 1
  BY <1>1 DEF InSlot, Sound, PcOf
<1>2. CASE k > 1
  <2> DEFINE j == k - 1
  <2>1. j \in 1 .. n /\ IsBr(s[j].op)
    BY <1>2 DEF InSlot
  <2>2. Live(s, j)
    BY <1>2, LivePrefix
  <2>3. ~InSlot(w, s, j) /\ s[j].pc = PcOf(p, w, s, j)
    BY <2>1, <2>2 DEF Path
  <2>4. p[s[j].pc].op = s[j].op
    BY <2>1 DEF Right, IsBr, Nullifying
  <2>5. After(p, w, s, j, s[j].pc) = Succ(s[j].pc)
    BY <2>3 DEF After, InSlot, PcOf, Sound
  <2> QED
    BY <1>2, <2>1, <2>4, <2>5 DEF PcOf
<1> QED
  BY <1>1, <1>2

\* Fetch pushes the instruction it is at, predicted as pred says.
LEMMA PathExtend ==
    ASSUME NEW p \in Programs, NEW w, Sound(p, w), w.pc \in Pc,
           NEW n \in Nat, NEW s, NEW c, NEW nx, NEW ds, NEW t, NEW nx2, NEW ds2,
           \A k \in 1 .. n : s[k].pc \in Pc /\ Right(p, s[k]),
           Path(p, w, n, s, c, nx, ds), c # NoPc, nx # NoPc,
           \A k \in 1 .. n : t[k] = s[k],
           t[n + 1].pc = c, t[n + 1].op \in {"ftlb", p[c].op},
           p[c].op \notin {"irq", "xflush"},
           t[n + 1].op # "ftlb" =>
               IF IsBr(t[n + 1].op) /\ t[n + 1].pred
               THEN nx2 = p[c].tgt /\ (ds2 <=> ~ds) ELSE nx2 = Succ(nx) /\ ~ds2
    PROVE  Path(p, w, n + 1, t, nx, nx2, ds2)
<1> DEFINE m == n + 1
<1>a. \A k \in 1 .. m : Live(t, k) <=> Live(s, k)
  BY DEF Live
<1>b. \A k \in 1 .. m : Live(t, k) =>
         /\ PcOf(p, w, t, k) = PcOf(p, w, s, k)
         /\ InSlot(w, t, k) <=> InSlot(w, s, k)
  BY DEF PcOf, After, InSlot
<1>1. ASSUME NEW k \in 1 .. n, Live(t, k)
      PROVE  /\ t[k].pc = PcOf(p, w, t, k)
             /\ InSlot(w, t, k) => ~IsBr(t[k].op) /\ t[k].op \notin {"irq", "xflush"}
  BY <1>1, <1>a, <1>b DEF Path
<1>2. ASSUME Live(t, m)
      PROVE  /\ t[m].pc = PcOf(p, w, t, m)
             /\ InSlot(w, t, m) => ~IsBr(t[m].op) /\ t[m].op \notin {"irq", "xflush"}
  <2>1. Live(s, m)
    BY <1>2, <1>a
  <2>2. c = PcOf(p, w, s, m)
    BY <2>1 DEF Path
  <2>3. PcOf(p, w, t, m) = PcOf(p, w, s, m) /\ (InSlot(w, t, m) <=> InSlot(w, s, m))
    BY <1>2, <1>b
  <2>4. ASSUME InSlot(w, s, m) PROVE ~IsBr(t[m].op)
    <3>1. \E a \in Pc : IsBr(p[a].op) /\ c = Succ(a)
      BY <2>1, <2>2, <2>4, SlotFollows
    <3>2. ~IsBr(p[c].op)
      BY <3>1, SlotLegal
    <3> QED
      BY <3>2 DEF IsBr, Nullifying
  <2> QED
    BY <2>2, <2>3, <2>4
<1>3. ASSUME Live(t, m + 1)
      PROVE  IF nx = NoPc THEN m = 0 /\ nx2 = w.pc /\ ~w.slot /\ ~ds2
             ELSE /\ nx = PcOf(p, w, t, m + 1)
                  /\ nx2 = After(p, w, t, m + 1, nx)
                  /\ ds2 \/ nx2 = Succ(nx)
                  /\ IF m = 0 THEN ds2 => w.slot ELSE ds2 <=> IsBr(t[m].op) /\ t[m].pred
  <2>1. Live(t, m) /\ ~Ends(t[m].op)
    BY <1>3, LiveStep
  <2>2. Live(s, m)
    BY <2>1, <1>a
  <2>3. /\ nx = After(p, w, s, m, c)
        /\ ds \/ nx = Succ(c)
        /\ IF n = 0 THEN ds => w.slot ELSE ds <=> IsBr(s[n].op) /\ s[n].pred
    BY <2>2 DEF Path
  <2>4. nx = PcOf(p, w, t, m + 1)
    BY <2>3 DEF PcOf, After
  <2>5. t[m].op = p[c].op /\ t[m].op # "ftlb"
    BY <2>1 DEF Ends
  <2>6. CASE IsBr(t[m].op) /\ t[m].pred
    <3>1. ~InSlot(w, t, m)
      BY <1>2, <2>1, <2>6
    <3>2. ~ds
      BY <2>3, <3>1 DEF InSlot
    <3> QED
      BY <2>4, <2>5, <2>6, <3>2 DEF After
  <2>7. CASE ~(IsBr(t[m].op) /\ t[m].pred)
    BY <2>4, <2>5, <2>7 DEF After
  <2> QED
    BY <2>6, <2>7
<1>4. \A k \in 1 .. m : k \in 1 .. n \/ k = m
  OBVIOUS
<1> HIDE DEF m
<1>5. Path(p, w, m, t, nx, nx2, ds2)
  BY <1>1, <1>2, <1>3, <1>4 DEF Path
<1> QED
  BY <1>5 DEF m

\* Behind a restart nothing has been looked up yet.
LEMMA PathBegin ==
    ASSUME NEW p, NEW w, NEW s, NEW a, w.pc = a, ~w.slot
    PROVE  Path(p, w, 0, s, NoPc, a, FALSE)
BY DEF Path

LEMMA PathLookup ==
    ASSUME NEW p, NEW w, Sound(p, w), NEW n \in Nat, NEW s, NEW nx, NEW ds,
           Path(p, w, n, s, NoPc, nx, ds), nx # NoPc, n = 0
    PROVE  Path(p, w, n, s, nx, Succ(nx), ds)
<1>1. Live(s, n + 1)
  BY DEF Live
<1>2. nx = w.pc /\ ~w.slot /\ ~ds
  BY <1>1 DEF Path
<1> QED
  BY <1>2 DEF Path, PcOf, After, Sound

-----------------------------------------------------------------------------
(* Sequences.                                                               *)

LEMMA DropFacts ==
    ASSUME NEW S, NEW s \in Seq(S), NEW n \in 0 .. Len(s)
    PROVE  /\ SubSeq(s, n + 1, Len(s)) \in Seq(S)
           /\ Len(SubSeq(s, n + 1, Len(s))) = Len(s) - n
           /\ \A k \in 1 .. Len(s) - n : SubSeq(s, n + 1, Len(s))[k] = s[n + k]
<1>1. \A k \in n + 1 .. Len(s) : s[k] \in S
  BY ElementOfSeq
<1> QED
  BY <1>1, SubSeqProperties

\* A queue is advanced by n and added to.
LEMMA QueueNext ==
    ASSUME NEW S, NEW s \in Seq(S), NEW n \in 0 .. Len(s), NEW t \in Seq(S),
           NEW r, r = SubSeq(s, n + 1, Len(s)) \o t
    PROVE  /\ r \in Seq(S)
           /\ Len(r) = Len(s) - n + Len(t)
           /\ \A k \in 1 .. Len(r) : r[k] = IF k <= Len(s) - n THEN s[n + k] ELSE t[k - (Len(s) - n)]
<1>1. PICK q \in Seq(S) : q = SubSeq(s, n + 1, Len(s))
  BY DropFacts
<1>2. Len(q) = Len(s) - n /\ \A k \in 1 .. Len(s) - n : q[k] = s[n + k]
  BY <1>1, DropFacts
<1>3. r = q \o t
  BY <1>1
<1>4. r \in Seq(S)
  BY <1>3, ConcatProperties
<1>5. Len(r) = Len(q) + Len(t)
  BY <1>3, ConcatProperties
<1>6. \A k \in 1 .. Len(q) + Len(t) : r[k] = IF k <= Len(q) THEN q[k] ELSE t[k - Len(q)]
  BY <1>3, ConcatProperties, SMTT(60)
<1> QED
  BY <1>2, <1>4, <1>5, <1>6, SMTT(60)

-----------------------------------------------------------------------------
(* The fetch FSM.                                                           *)

Serves(acked) ==
    \/ l1i_state \notin {"IDLE", "FLUSH_CACHE"} /\ TakeFlush
    \/ l1i_state \notin {"IDLE", "FLUSH_CACHE"} /\ TakeRestart
    \/ l1i_state = "IDLE" /\ IdleRestart
    \/ l1i_state = "IDLE" /\ IdleWait(acked)
    \/ l1i_state = "FLUSH_CACHE" /\ FlushLine(acked)

Held(acked) ==
    /\ l1i_state \notin {"IDLE", "FLUSH_CACHE"}
    /\ l1i_state = "ACTIVE" => ~Served /\ cache_pc # NoPc
    /\ \E s \in L1IState \ {"IDLE", "FLUSH_CACHE"} : Latched(s, acked)
    /\ UNCHANGED <<pc, cache_pc, delay_slot>>

Fetches(acked) ==
    /\ l1i_state = "ACTIVE"
    /\ Lookup(acked) \/ FetchFault(acked) \/ Hit(acked)

LEMMA L1ICases ==
    ASSUME NEW acked, L1ICycle(acked)
    PROVE  Serves(acked) \/ Held(acked) \/ Fetches(acked)
<1>1. CASE l1i_state = "ACTIVE"
  <2>1. ASSUME TlbWait(acked) \/ Miss(acked) \/ HitFull(acked) PROVE Held(acked)
    BY <1>1, <2>1, ProgramAssumption DEF TlbWait, Miss, HitFull, Held, L1IState
  <2> QED
    BY <1>1, <2>1 DEF L1ICycle, Serves, Fetches
<1>2. CASE l1i_state = "INJECT_RELOAD"
  BY <1>2 DEF L1ICycle, ReloadWait, Held, L1IState
<1>3. CASE l1i_state = "RELOAD_TURNAROUND"
  BY <1>3 DEF L1ICycle, Again, Held, Serves, L1IState
<1>4. CASE l1i_state = "WAIT_FOR_TLB"
  BY <1>4 DEF L1ICycle, TlbReady, Held, Serves, L1IState
<1>5. CASE l1i_state = "WAIT_FOR_NOT_FULL"
  BY <1>5 DEF L1ICycle, NotFull, StillFull, Held, Serves, L1IState
<1>6. CASE l1i_state \in {"FLUSH_CACHE", "IDLE"}
  BY <1>6 DEF L1ICycle, Serves
<1> QED
  BY <1>1, <1>2, <1>3, <1>4, <1>5, <1>6 DEF L1ICycle

\* A fetch group is pushed.
LEMMA PushFacts ==
    ASSUME L1ITypeOK, NEW acked \in 0 .. Len(fq), NEW insns \in Seq(Fetched), fq' = Popped(acked) \o insns
    PROVE  /\ fq' \in Seq(Fetched)
           /\ Len(fq') = Len(fq) - acked + Len(insns)
           /\ \A k \in 1 .. Len(fq') : fq'[k] = IF k <= Len(fq) - acked THEN fq[acked + k] ELSE insns[k - (Len(fq) - acked)]
<1>1. fq \in Seq(Fetched)
  BY DEF L1ITypeOK
<1>a. fq' = SubSeq(fq, acked + 1, Len(fq)) \o insns
  BY DEF L1ITypeOK, Popped
<1> QED
  BY <1>1, <1>a, QueueNext, SMTT(60)

\* Nothing is pushed.
LEMMA PopFacts ==
    ASSUME L1ITypeOK, NEW acked \in 0 .. Len(fq), fq' = Popped(acked)
    PROVE  /\ fq' \in Seq(Fetched)
           /\ Len(fq') = Len(fq) - acked
           /\ \A k \in 1 .. Len(fq) - acked : fq'[k] = fq[acked + k]
BY DropFacts DEF Popped, L1ITypeOK

\* One instruction is pushed.
LEMMA PushedOne ==
    ASSUME L1ITypeOK, NEW acked \in 0 .. Len(fq), NEW x \in Fetched, Push(acked, <<x>>)
    PROVE  LET g == Len(fq) - acked
           IN  /\ fq' \in Seq(Fetched) /\ Len(fq') = g + 1
               /\ \A k \in 1 .. g : fq'[k] = fq[acked + k]
               /\ fq'[g + 1] = x
<1> DEFINE g == Len(fq) - acked
<1>0. g \in Nat /\ Len(fq) \in Nat
  BY DEF L1ITypeOK
<1>9. <<x>> \in Seq(Fetched)
  OBVIOUS
<1>1. PICK i \in Seq(Fetched) : i = <<x>>
  BY <1>9, Zenon
<1>2. Len(i) = 1 /\ i[1] = x
  BY <1>1
<1>7. fq' = Popped(acked) \o i
  BY <1>1 DEF Push
<1>8. /\ fq' \in Seq(Fetched)
      /\ Len(fq') = g + Len(i)
      /\ \A k \in 1 .. Len(fq') : fq'[k] = IF k <= g THEN fq[acked + k] ELSE i[k - g]
  BY <1>7, PushFacts
<1>3. Len(fq') = g + 1
  BY <1>2, <1>8
<1>4. ASSUME NEW k \in 1 .. g
      PROVE  fq'[k] = fq[acked + k]
  <2>1. k \in 1 .. Len(fq') /\ k <= g
    BY <1>0, <1>3
  <2> QED
    BY <1>8, <2>1
<1>5. fq'[g + 1] = x
  <2>1. PICK e : e = g + 1
    OBVIOUS
  <2>2. e \in 1 .. Len(fq') /\ ~(e <= g) /\ e - g = 1
    BY <1>0, <1>3, <2>1
  <2>3. fq'[e] = i[1]
    BY <1>8, <2>2
  <2> QED
    BY <1>2, <2>1, <2>3
<1> QED
  BY <1>3, <1>4, <1>5, <1>8

\* Two are.
LEMMA PushedTwo ==
    ASSUME L1ITypeOK, NEW acked \in 0 .. Len(fq), NEW x \in Fetched, NEW y \in Fetched, Push(acked, <<x, y>>)
    PROVE  LET g == Len(fq) - acked
           IN  /\ fq' \in Seq(Fetched) /\ Len(fq') = g + 2
               /\ \A k \in 1 .. g : fq'[k] = fq[acked + k]
               /\ fq'[g + 1] = x /\ fq'[g + 2] = y
<1> DEFINE g == Len(fq) - acked
<1>0. g \in Nat /\ Len(fq) \in Nat
  BY DEF L1ITypeOK
<1>9. <<x, y>> \in Seq(Fetched)
  OBVIOUS
<1>1. PICK i \in Seq(Fetched) : i = <<x, y>>
  BY <1>9, Zenon
<1>2. Len(i) = 2 /\ i[1] = x /\ i[2] = y
  BY <1>1
<1>7. fq' = Popped(acked) \o i
  BY <1>1 DEF Push
<1>8. /\ fq' \in Seq(Fetched)
      /\ Len(fq') = g + Len(i)
      /\ \A k \in 1 .. Len(fq') : fq'[k] = IF k <= g THEN fq[acked + k] ELSE i[k - g]
  BY <1>7, PushFacts
<1> QED
  <2>1. Len(fq') = g + 2
    BY <1>2, <1>8, <1>0
  <2>2. \A k \in 1 .. g : fq'[k] = fq[acked + k]
    BY <2>1, <1>8, <1>0
  <2>6. g + 1 \in 1 .. Len(fq') /\ ~(g + 1 <= g) /\ (g + 1) - g = 1
    BY <2>1, <1>0
  <2>3. fq'[g + 1] = x
    BY <2>6, <1>2, <1>8
  <2>4. g + 2 \in 1 .. Len(fq') /\ ~(g + 2 <= g) /\ (g + 2) - g = 2
    BY <2>1, <1>0
  <2>5. fq'[g + 2] = i[(g + 2) - g]
    BY <2>4, <1>8
  <2> QED
    BY <2>1, <2>2, <2>3, <2>4, <2>5, <1>2, <1>8

\* What one or two instructions pushed are.
LEMMA InsnType == \A a \in Pc, t \in BOOLEAN : Insn(a, t) \in Fetched
BY DEF Insn, Fetched

\* The invariant of a fetch-queue entry.
FqSound(f) ==
    /\ f.tlb_miss => f.pc \in Mapped
    /\ ~f.tlb_miss /\ OpAt(f.pc) = "likely" => f.pred

\* What is not acknowledged stays, and what comes behind it is sound.
FqGrows(acked) ==
    /\ Len(fq') >= Len(fq) - acked
    /\ \A k \in 1 .. Len(fq) - acked : fq'[k] = fq[acked + k]
    /\ \A k \in Len(fq) - acked + 1 .. Len(fq') :
          /\ fq'[k].tlb_miss => fq'[k].pc \in Mapped
          /\ ~fq'[k].tlb_miss /\ OpAt(fq'[k].pc) = "likely" => fq'[k].pred

\* The new end of the fetch queue, as fetch moves on.
LEMMA FetchStep ==
    ASSUME L1ITypeOK, prog \in Programs, NEW acked \in 0 .. Len(fq), Fetches(acked)
    PROVE  /\ L1ITypeOK'
           /\ FqGrows(acked)
<1> DEFINE g == Len(fq) - acked
<1>a. /\ pc \in Pc /\ cache_pc \in Pc \cup {NoPc} /\ g \in Nat /\ Len(fq) <= FqEntries /\ Len(fq) \in Nat
      /\ FqEntries \in Nat
  BY CoreAssumption DEF L1ITypeOK
<1>b. /\ {Succ(pc)} \subseteq Pc
      /\ cache_pc # NoPc => {Succ(cache_pc), Succ(Succ(cache_pc)), Succ(Succ(Succ(cache_pc)))} \subseteq Pc
  BY <1>a, SuccType
<1>c. cache_pc # NoPc => Target(cache_pc) \in Pc /\ Target(Succ(cache_pc)) \in Pc
  BY <1>a, <1>b, ProgType DEF Target
<1>1. CASE Lookup(acked)
  <2>1. fq' = Popped(acked)
    BY <1>1 DEF Lookup, Latched
  <2>2. fq' \in Seq(Fetched) /\ Len(fq') = g /\ \A k \in 1 .. g : fq'[k] = fq[acked + k]
    BY <2>1, PopFacts
  <2>3. L1ITypeOK'
    <3>1. restart_req' = FALSE /\ fline_req' = FALSE
      <4>1. ~n_restart_req /\ ~n_fline_req
        BY <1>1 DEF Lookup, Served
      <4> QED
        BY <1>1, <4>1 DEF Lookup, Latched, n_restart_req, n_fline_req
    <3>2. /\ l1i_state' = "ACTIVE" /\ restart_ack' = FALSE /\ fline_complete' = FALSE
          /\ pc' \in Pc /\ cache_pc' \in Pc /\ delay_slot' = delay_slot
      BY <1>1, <1>a, <1>b DEF Lookup, Latched
    <3>3. Len(fq') <= FqEntries
      BY <2>2, <1>a
    <3>4. fq' \in Seq(Fetched)
      BY <2>2
    <3> QED
      BY <3>1, <3>2, <3>3, <3>4 DEF L1ITypeOK, L1IState
  <2> QED
    BY <2>2, <2>3, <1>a DEF FqGrows
<1>2. ASSUME NEW x \in Fetched, ~Served, Push(acked, <<x>>), ~fq_full, pc' \in Pc, cache_pc' \in Pc,
             delay_slot' \in BOOLEAN, FqSound(x)
      PROVE  L1ITypeOK' /\ FqGrows(acked)
  <2>3. /\ fq' \in Seq(Fetched) /\ Len(fq') = g + 1
        /\ \A k \in 1 .. g : fq'[k] = fq[acked + k]
        /\ fq'[g + 1] = x
    BY <1>2, PushedOne
  <2>4. Len(fq') <= FqEntries
    BY <2>3, <1>2, <1>a DEF fq_full
  <2>5. L1ITypeOK'
    BY <1>2, <2>3, <2>4 DEF L1ITypeOK, Push, L1IState
  <2>6. \A k \in g + 1 .. Len(fq') : k = g + 1
    BY <2>3, <1>a
  <2> QED
    BY <2>3, <2>5, <2>6, <1>2, <1>a DEF FqSound, FqGrows
<1>3. ASSUME NEW x \in Fetched, NEW y \in Fetched, ~Served, Push(acked, <<x, y>>), ~fq_full2, pc' \in Pc,
             cache_pc' \in Pc, delay_slot' \in BOOLEAN, FqSound(x), FqSound(y)
      PROVE  L1ITypeOK' /\ FqGrows(acked)
  <2>3. /\ fq' \in Seq(Fetched) /\ Len(fq') = g + 2
        /\ \A k \in 1 .. g : fq'[k] = fq[acked + k]
        /\ fq'[g + 1] = x /\ fq'[g + 2] = y
    BY <1>3, PushedTwo
  <2>4. Len(fq') <= FqEntries
    BY <2>3, <1>3, <1>a DEF fq_full2
  <2>5. L1ITypeOK'
    BY <1>3, <2>3, <2>4 DEF L1ITypeOK, Push, L1IState
  <2>6. \A k \in g + 1 .. Len(fq') : k = g + 1 \/ k = g + 2
    BY <2>3, <1>a
  <2>7a. \A k \in g + 1 .. Len(fq') : FqSound(fq'[k])
    BY <2>3, <2>6, <1>3
  <2> QED
    BY <2>3, <2>5, <2>7a, <1>a DEF FqSound, FqGrows
<1>4. CASE FetchFault(acked)
  <2> DEFINE x == [pc |-> cache_pc, pred |-> FALSE, tlb_miss |-> TRUE]
  <2>1. cache_pc \in Mapped /\ cache_pc # NoPc /\ cache_pc \in Pc
    BY <1>4, ProgramAssumption DEF FetchFault
  <2>2. x \in Fetched /\ FqSound(x)
    BY <2>1 DEF Fetched, FqSound
  <2>3. delay_slot' \in BOOLEAN /\ pc' \in Pc /\ cache_pc' \in Pc
    BY <1>4, <1>a, <1>b, <2>1 DEF FetchFault, L1ITypeOK
  <2>4. ~Served /\ ~fq_full /\ Push(acked, <<x>>)
    BY <1>4 DEF FetchFault
  <2> HIDE DEF x
  <2> QED
    BY <2>2, <2>3, <2>4, <1>2
<1>5. CASE Hit(acked)
  <2>1. ~Served /\ cache_pc # NoPc /\ cache_pc \in Pc /\ ~fq_full
    BY <1>5, <1>a DEF Hit
  <2>2. CASE PushTaken(acked)
    <3>1. delay_slot' \in BOOLEAN /\ pc' \in Pc /\ cache_pc' \in Pc
      BY <2>1, <2>2, <1>a, <1>c DEF PushTaken
    <3>2. Insn(cache_pc, TRUE) \in Fetched /\ FqSound(Insn(cache_pc, TRUE))
      BY <2>1, InsnType DEF FqSound, Insn
    <3> QED
      BY <2>1, <2>2, <3>1, <3>2, <1>2, Zenon DEF PushTaken
  <2>3. CASE OpAt(cache_pc) # "likely" /\ PushOne(acked)
    <3>1. delay_slot' \in BOOLEAN /\ pc' \in Pc /\ cache_pc' \in Pc
      BY <2>1, <2>3, <1>a, <1>b DEF PushOne
    <3>2. Insn(cache_pc, FALSE) \in Fetched /\ FqSound(Insn(cache_pc, FALSE))
      BY <2>1, <2>3, InsnType DEF FqSound, Insn
    <3> QED
      BY <2>1, <2>3, <3>1, <3>2, <1>2, Zenon DEF PushOne
  <2>4. CASE ~EndsGroup(OpAt(cache_pc)) /\ ~fq_full2 /\ PushPair(acked)
    <3>1. delay_slot' \in BOOLEAN /\ pc' \in Pc /\ cache_pc' \in Pc
      BY <2>1, <2>4, <1>b, <1>c DEF PushPair
    <3>2. /\ Insn(cache_pc, FALSE) \in Fetched /\ FqSound(Insn(cache_pc, FALSE))
          /\ Insn(Succ(cache_pc), TRUE) \in Fetched /\ FqSound(Insn(Succ(cache_pc), TRUE))
      BY <2>1, <2>4, <1>b, InsnType DEF FqSound, Insn, EndsGroup, Nullifying
    <3> QED
      BY <2>1, <2>4, <3>1, <3>2, <1>3, Zenon DEF PushPair
  <2>5. CASE ~EndsGroup(OpAt(cache_pc)) /\ ~fq_full2 /\ PushSequential(acked)
    <3>1. delay_slot' \in BOOLEAN /\ pc' \in Pc /\ cache_pc' \in Pc
      BY <2>1, <2>5, <1>b DEF PushSequential, L1ITypeOK
    <3>2. /\ Insn(cache_pc, FALSE) \in Fetched /\ FqSound(Insn(cache_pc, FALSE))
          /\ Insn(Succ(cache_pc), FALSE) \in Fetched /\ FqSound(Insn(Succ(cache_pc), FALSE))
      BY <2>1, <2>5, <1>b, InsnType DEF FqSound, Insn, EndsGroup, Nullifying, PushSequential
    <3> QED
      BY <2>1, <2>5, <3>1, <3>2, <1>3, Zenon DEF PushSequential
  <2> QED
    BY <1>5, <2>2, <2>3, <2>4, <2>5 DEF Hit
<1> QED
  BY <1>1, <1>4, <1>5 DEF Fetches

\* A stream that is dead at its end stays a path, whatever is fetched.
LEMMA PathDead ==
    ASSUME NEW p, NEW w, NEW n \in Nat, NEW s, NEW c, NEW nx, NEW ds, NEW d \in Nat, NEW c2, NEW nx2, NEW ds2,
           Path(p, w, n, s, c, nx, ds), ~Live(s, n + 1)
    PROVE  Path(p, w, n + d, s, c2, nx2, ds2)
<1>1. \A k \in n + 1 .. n + d + 1 : ~Live(s, k)
  BY DEF Live
<1>2. \A k \in 1 .. n + d : k \in 1 .. n \/ k \in n + 1 .. n + d + 1
  OBVIOUS
<1> QED
  BY <1>1, <1>2 DEF Path

\* What is fetched follows the predicted path.
LEMMA FetchPath ==
    ASSUME L1ITypeOK, prog \in Programs, NEW acked \in 0 .. Len(fq), Fetches(acked),
           NEW w, Sound(prog, w), w.pc \in Pc, NEW m \in Nat, NEW t,
           \A k \in 1 .. m : t[k].pc \in Pc /\ Right(prog, t[k]),
           Path(prog, w, m, t, cache_pc, pc, delay_slot),
           NEW g, g = Len(fq) - acked,
           \A k \in 1 .. Len(fq') - g : t[m + k] = OfFetched(prog, fq'[g + k])
    PROVE  Path(prog, w, m + (Len(fq') - g), t, cache_pc', pc', delay_slot')
<1>a. /\ pc \in Pc /\ cache_pc \in Pc \cup {NoPc} /\ g \in Nat /\ pc # NoPc
      /\ Len(fq') >= g /\ Len(fq') \in Nat
  BY ProgramAssumption, FetchStep DEF L1ITypeOK, FqGrows
<1>b. \A a \in Pc : /\ prog[a].op \notin {"irq", "xflush", "ftlb"} /\ Succ(a) \in Pc /\ Succ(a) # NoPc
                    /\ prog[a].tgt \in Pc
  BY ProgType, SuccType, ProgramAssumption DEF Op
<1> SUFFICES ASSUME Live(t, m + 1)
             PROVE  Path(prog, w, m + (Len(fq') - g), t, cache_pc', pc', delay_slot')
  <2>1. Len(fq') - g \in Nat
    BY <1>a
  <2> QED
    BY <2>1, PathDead, Zenon
<1>1. CASE Lookup(acked)
  <2>1. Len(fq') = g
    BY <1>1, PopFacts DEF Lookup, Latched
  <2>2. cache_pc = NoPc /\ m = 0
    BY <1>1 DEF Lookup, Path
  <2>3. Path(prog, w, m, t, pc, Succ(pc), delay_slot)
    BY <2>2, <1>a, PathLookup
  <2>4. cache_pc' = pc /\ pc' = Succ(pc) /\ delay_slot' = delay_slot
    BY <1>1 DEF Lookup
  <2> QED
    BY <2>1, <2>3, <2>4, <1>a
<1>2. ASSUME cache_pc \in Pc, NEW x \in Fetched, Push(acked, <<x>>), x.pc = cache_pc,
             cache_pc' = pc,
             ~x.tlb_miss => IF IsBr(prog[cache_pc].op) /\ x.pred
                            THEN pc' = prog[cache_pc].tgt /\ (delay_slot' <=> ~delay_slot)
                            ELSE pc' = Succ(pc) /\ ~delay_slot'
      PROVE  Path(prog, w, m + (Len(fq') - g), t, cache_pc', pc', delay_slot')
  <2>1. Len(fq') = g + 1 /\ fq'[g + 1] = x
    BY <1>2, PushedOne
  <2>2. t[m + 1] = OfFetched(prog, x)
    BY <2>1, <1>a
  <2>3. /\ t[m + 1].pc = cache_pc /\ t[m + 1].pred = x.pred
        /\ t[m + 1].op = IF x.tlb_miss THEN "ftlb" ELSE prog[cache_pc].op
    BY <2>2, <1>2 DEF OfFetched
  <2>4. cache_pc # NoPc /\ prog[cache_pc].op \notin {"irq", "xflush", "ftlb"}
    BY <1>2, <1>b, ProgramAssumption
  <2>5. Path(prog, w, m + 1, t, pc, pc', delay_slot')
    BY <2>3, <2>4, <1>2, <1>a, PathExtend
  <2> QED
    BY <2>1, <2>5, <1>2, <1>a
<1>3. ASSUME cache_pc \in Pc, ~delay_slot, NEW x \in Fetched, NEW y \in Fetched, Push(acked, <<x, y>>),
             x.pc = cache_pc, ~x.pred, ~x.tlb_miss, y.pc = Succ(cache_pc), ~y.tlb_miss,
             cache_pc' = Succ(Succ(cache_pc)),
             IF IsBr(prog[Succ(cache_pc)].op) /\ y.pred
             THEN pc' = prog[Succ(cache_pc)].tgt /\ delay_slot'
             ELSE pc' = Succ(Succ(Succ(cache_pc))) /\ ~delay_slot'
      PROVE  Path(prog, w, m + (Len(fq') - g), t, cache_pc', pc', delay_slot')
  <2>1. Len(fq') = g + 2 /\ fq'[g + 1] = x /\ fq'[g + 2] = y
    BY <1>3, PushedTwo
  <2>2. t[m + 1] = OfFetched(prog, x) /\ t[m + 2] = OfFetched(prog, y)
    BY <2>1, <1>a
  <2>3. /\ t[m + 1].pc = cache_pc /\ t[m + 1].op = prog[cache_pc].op /\ t[m + 1].pred = x.pred
        /\ t[m + 2].pc = Succ(cache_pc) /\ t[m + 2].op = prog[Succ(cache_pc)].op /\ t[m + 2].pred = y.pred
    BY <2>2, <1>3 DEF OfFetched
  <2> DEFINE c == cache_pc
  <2>4. /\ c # NoPc /\ prog[c].op \notin {"irq", "xflush", "ftlb"}
        /\ Succ(c) \in Pc /\ Succ(c) # NoPc /\ prog[Succ(c)].op \notin {"irq", "xflush", "ftlb"}
        /\ Succ(Succ(c)) # NoPc
    BY <1>3, <1>b, ProgramAssumption
  <2>5. pc = Succ(c)
    BY <1>3, <2>4 DEF Path
  <2>6. Path(prog, w, m + 1, t, Succ(c), Succ(Succ(c)), FALSE)
    BY <2>3, <2>4, <2>5, <1>3, <1>a, PathExtend
  <2>7. \A k \in 1 .. m + 1 : t[k].pc \in Pc /\ Right(prog, t[k])
    <3>1. t[m + 1].pc \in Pc /\ Right(prog, t[m + 1])
      BY <2>3, <1>3 DEF Right
    <3>2. \A k \in 1 .. m + 1 : k \in 1 .. m \/ k = m + 1
      OBVIOUS
    <3> QED
      BY <3>1, <3>2
  <2>8. (m + 1) + 1 = m + 2 /\ m + 1 \in Nat
    OBVIOUS
  <2>9. Path(prog, w, (m + 1) + 1, t, Succ(Succ(c)), pc', delay_slot')
    BY <2>3, <2>4, <2>6, <2>7, <2>8, <1>3, PathExtend, ZenonT(60)
  <2> QED
    BY <2>1, <2>8, <2>9, <1>3, <1>a
<1>4. CASE FetchFault(acked)
  <2> DEFINE x == [pc |-> cache_pc, pred |-> FALSE, tlb_miss |-> TRUE]
  <2>1. cache_pc \in Pc /\ cache_pc' = pc /\ Push(acked, <<x>>)
    BY <1>4, ProgramAssumption DEF FetchFault
  <2>2. x \in Fetched /\ x.pc = cache_pc /\ x.tlb_miss
    BY <2>1 DEF Fetched
  <2> HIDE DEF x
  <2> QED
    BY <2>1, <2>2, <1>2
<1>5. CASE Hit(acked)
  <2>1. cache_pc \in Pc
    BY <1>5, <1>a DEF Hit
  <2>2. CASE PushTaken(acked)
    <3>1. PICK x \in Fetched : x = [pc |-> cache_pc, pred |-> TRUE, tlb_miss |-> FALSE]
      BY <2>1 DEF Fetched
    <3>2. Push(acked, <<x>>) /\ x.pc = cache_pc /\ x.pred /\ ~x.tlb_miss
      BY <2>2, <3>1 DEF PushTaken, Insn
    <3>3. /\ IsBr(prog[cache_pc].op) /\ cache_pc' = pc /\ pc' = prog[cache_pc].tgt
          /\ delay_slot' <=> ~delay_slot
      BY <2>2 DEF PushTaken, OpAt, Target
    <3> QED
      BY <2>1, <3>2, <3>3, <1>2
  <2>3. CASE PushOne(acked)
    <3>1. PICK x \in Fetched : x = [pc |-> cache_pc, pred |-> FALSE, tlb_miss |-> FALSE]
      BY <2>1 DEF Fetched
    <3>2. Push(acked, <<x>>) /\ x.pc = cache_pc /\ ~x.pred /\ ~x.tlb_miss
      BY <2>3, <3>1 DEF PushOne, Insn
    <3>3. cache_pc' = pc /\ pc' = Succ(pc) /\ ~delay_slot'
      BY <2>3 DEF PushOne
    <3> QED
      BY <2>1, <3>2, <3>3, <1>2
  <2>4. CASE ~delay_slot /\ PushPair(acked)
    <3>1. PICK x \in Fetched : x = [pc |-> cache_pc, pred |-> FALSE, tlb_miss |-> FALSE]
      BY <2>1 DEF Fetched
    <3>2. PICK y \in Fetched : y = [pc |-> Succ(cache_pc), pred |-> TRUE, tlb_miss |-> FALSE]
      BY <2>1, <1>b DEF Fetched
    <3>3. /\ Push(acked, <<x, y>>) /\ x.pc = cache_pc /\ ~x.pred /\ ~x.tlb_miss
          /\ y.pc = Succ(cache_pc) /\ y.pred /\ ~y.tlb_miss
      BY <2>4, <3>1, <3>2 DEF PushPair, Insn
    <3>4. /\ cache_pc' = Succ(Succ(cache_pc)) /\ pc' = prog[Succ(cache_pc)].tgt /\ delay_slot'
          /\ IsBr(prog[Succ(cache_pc)].op)
      BY <2>4 DEF PushPair, Target, OpAt, IsBr, Nullifying
    <3> QED
      BY <2>1, <2>4, <3>3, <3>4, <1>3
  <2>5. CASE ~delay_slot /\ PushSequential(acked)
    <3>1. PICK x \in Fetched : x = [pc |-> cache_pc, pred |-> FALSE, tlb_miss |-> FALSE]
      BY <2>1 DEF Fetched
    <3>2. PICK y \in Fetched : y = [pc |-> Succ(cache_pc), pred |-> FALSE, tlb_miss |-> FALSE]
      BY <2>1, <1>b DEF Fetched
    <3>3. /\ Push(acked, <<x, y>>) /\ x.pc = cache_pc /\ ~x.pred /\ ~x.tlb_miss
          /\ y.pc = Succ(cache_pc) /\ ~y.pred /\ ~y.tlb_miss
      BY <2>5, <3>1, <3>2 DEF PushSequential, Insn
    <3>4. cache_pc' = Succ(Succ(cache_pc)) /\ pc' = Succ(Succ(Succ(cache_pc))) /\ ~delay_slot'
      BY <2>5 DEF PushSequential
    <3> QED
      BY <2>1, <2>5, <3>3, <3>4, <1>3
  <2> QED
    BY <1>5, <2>2, <2>3, <2>4, <2>5 DEF Hit
<1> QED
  BY <1>1, <1>4, <1>5 DEF Fetches

-----------------------------------------------------------------------------
(* One clock: the ROB and the decode queue.                                 *)

\* Entry e is f a cycle later.
Kept(e, f) ==
    /\ f.pc = e.pc /\ f.op = e.op /\ f.pred = e.pred /\ f.slot = e.slot
    /\ Done(e) => Done(f) /\ (state # "CACHE_FLUSH" => f = e)

LEMMA MovedFacts ==
    ASSUME TypeOK, NEW adv \in SUBSET Movable, NEW out
    PROVE  /\ Moved(adv, out) \in Seq(Entry)
           /\ Len(Moved(adv, out)) = Len(rob)
           /\ \A i \in 1 .. Len(rob) : Kept(rob[i], Moved(adv, out)[i])
<1> DEFINE M == Moved(adv, out)
<1>1. rob \in Seq(Entry) /\ Len(rob) \in Nat
  BY DEF TypeOK
<1>2. ASSUME NEW i \in 1 .. Len(rob)
      PROVE  M[i] \in Entry /\ Kept(rob[i], M[i])
  <2>1. rob[i] \in Entry
    BY <1>1, ElementOfSeq
  <2>2. M[i] = IF i \in adv
               THEN IF rob[i].at = "sched" THEN [rob[i] EXCEPT !.at = "exec"]
                    ELSE [rob[i] EXCEPT !.at = "done", !.out = i \in out]
               ELSE IF i = 1 /\ state = "CACHE_FLUSH" THEN [rob[i] EXCEPT !.out = FlushesDone]
               ELSE rob[i]
    BY DEF Moved
  <2>3. CASE i \in adv /\ rob[i].at = "sched"
    <3>1. M[i] = [rob[i] EXCEPT !.at = "exec"]
      BY <2>2, <2>3
    <3> QED
      BY <2>1, <2>3, <3>1 DEF Entry, Kept, Done
  <2>4. CASE i \in adv /\ rob[i].at # "sched"
    <3>1. \E b \in BOOLEAN : M[i] = [rob[i] EXCEPT !.at = "done", !.out = b]
      <4>1. M[i] = [rob[i] EXCEPT !.at = "done", !.out = i \in out]
        BY <2>2, <2>4
      <4>2. (i \in out) \in BOOLEAN
        OBVIOUS
      <4> QED
        BY <4>1, <4>2, Zenon
    <3>2. ~Done(rob[i])
      BY <2>4 DEF Movable, CanIssue, Done
    <3> QED
      BY <2>1, <3>1, <3>2 DEF Entry, Kept, Done
  <2>5. CASE i \notin adv /\ i = 1 /\ state = "CACHE_FLUSH"
    <3>1. \E b \in BOOLEAN : M[i] = [rob[i] EXCEPT !.out = b]
      BY <2>2, <2>5 DEF FlushesDone
    <3> QED
      BY <2>1, <2>5, <3>1 DEF Entry, Kept, Done
  <2>6. CASE i \notin adv /\ ~(i = 1 /\ state = "CACHE_FLUSH")
    BY <2>1, <2>2, <2>6 DEF Kept, Done
  <2> QED
    BY <2>3, <2>4, <2>5, <2>6
<1>3. M \in [1 .. Len(rob) -> Entry]
  BY <1>2 DEF Moved
<1>4. M \in Seq(Entry)
  BY <1>1, <1>3, SeqDef
<1>5. Len(M) = Len(rob)
  BY <1>1, <1>3
<1> QED
  BY <1>2, <1>4, <1>5

\* f is a new entry for the uop u.
Enters(u, f) ==
    /\ f.pc = u.pc /\ f.op = u.op /\ f.pred = u.pred
    /\ f.at = "done" <=> Fold(u.op)

LEMMA NewFacts ==
    ASSUME TypeOK, NEW n \in 0 .. 2, n <= Len(dq)
    PROVE  /\ NewEntries(n) \in Seq(Entry)
           /\ Len(NewEntries(n)) = n
           /\ \A i \in 1 .. n : Enters(dq[i], NewEntries(n)[i])
           /\ n > 0 => (NewEntries(n)[1].slot <=> in_delay_slot)
           /\ n > 1 => (NewEntries(n)[2].slot <=> IsBr(dq[1].op))
<1> DEFINE E == NewEntries(n)
<1>1. \A i \in 1 .. n : dq[i] \in Uop
  BY ElementOfSeq DEF TypeOK
<1>2. in_delay_slot \in BOOLEAN /\ IsBr(dq[1].op) \in BOOLEAN
  BY DEF TypeOK, IsBr, Nullifying
<1>3. ASSUME NEW i \in 1 .. n
      PROVE  E[i] \in Entry /\ Enters(dq[i], E[i])
  <2>1. \E b \in BOOLEAN :
          E[i] = [pc |-> dq[i].pc, op |-> dq[i].op, pred |-> dq[i].pred, slot |-> b,
                  at |-> IF Fold(dq[i].op) THEN "done" ELSE "sched", out |-> FALSE]
    BY <1>2 DEF NewEntries, NewEntry
  <2> QED
    BY <2>1, <1>1 DEF Uop, Entry, Enters
<1>4. E \in [1 .. n -> Entry]
  BY <1>3 DEF NewEntries
<1>5. E \in Seq(Entry)
  BY <1>4, SeqDef
<1>6. Len(E) = n
  BY <1>4
<1>7. n > 0 => (E[1].slot <=> in_delay_slot)
  BY DEF NewEntries, NewEntry
<1>8. n > 1 => (E[2].slot <=> IsBr(dq[1].op))
  BY DEF NewEntries, NewEntry
<1> QED
  BY <1>3, <1>5, <1>6, <1>7, <1>8

\* u is what decode makes of entry i of the fetch queue.
DecodesTo(i, u) ==
    /\ u.pc = fq[i].pc /\ u.pred = fq[i].pred
    /\ \/ u.op = IF fq[i].tlb_miss THEN "ftlb" ELSE OpAt(fq[i].pc)
       \/ u.op \in {"irq", "xflush"} /\ ~DecSlot(i)

LEMMA PushesFacts ==
    ASSUME TypeOK
    PROVE  /\ Pushes \in 0 .. 2 /\ Pushes <= Len(fq) /\ Len(dq) + Pushes <= DqEntries
           /\ fq = <<>> => Pushes = 0
           /\ Acked \in 0 .. Len(fq)
<1>1. /\ fq \in Seq(Fetched) /\ Len(fq) \in Nat /\ Len(dq) \in Nat /\ DqEntries \in Nat /\ Len(dq) <= DqEntries
      /\ fq # <<>> => Len(fq) > 0
  BY CoreAssumption DEF TypeOK, L1ITypeOK
<1> QED
  BY <1>1 DEF Pushes, Acked

LEMMA DecodedFacts ==
    ASSUME TypeOK, NEW irq \in BOOLEAN
    PROVE  /\ DecodedUops(irq) \in Seq(Uop)
           /\ Len(DecodedUops(irq)) = Pushes
           /\ \A i \in 1 .. Pushes : DecodesTo(i, DecodedUops(irq)[i])
<1> DEFINE D == DecodedUops(irq)
<1>1. Pushes \in Nat /\ \A i \in 1 .. Pushes : i \in 1 .. Len(fq)
  BY PushesFacts DEF TypeOK, L1ITypeOK
<1>2. \A i \in 1 .. Pushes : fq[i] \in Fetched
  BY <1>1, ElementOfSeq DEF TypeOK, L1ITypeOK
<1>3. ASSUME NEW i \in 1 .. Pushes
      PROVE  D[i] \in Uop /\ DecodesTo(i, D[i])
  <2>1. /\ D[i].pc = fq[i].pc /\ D[i].pred = fq[i].pred
        /\ D[i] = [pc |-> D[i].pc, pred |-> D[i].pred, op |-> D[i].op]
        /\ D[i].op = IF irq /\ ~DecSlot(i) THEN "irq"
                     ELSE IF xflush_pend /\ ~DecSlot(i) THEN "xflush"
                     ELSE IF fq[i].tlb_miss THEN "ftlb" ELSE OpAt(fq[i].pc)
    BY DEF DecodedUops, Decoded
  <2>2. fq[i].pc \in Pc /\ fq[i].pred \in BOOLEAN /\ OpAt(fq[i].pc) \in Op
    BY <1>2, ProgType DEF Fetched, OpAt, TypeOK
  <2>3. D[i].op \in Op \cup Pseudo
    BY <2>1, <2>2 DEF Pseudo
  <2>4. D[i] \in Uop
    BY <2>1, <2>2, <2>3 DEF Uop
  <2> QED
    BY <2>1, <2>4 DEF DecodesTo
<1>4. D \in [1 .. Pushes -> Uop]
  BY <1>3 DEF DecodedUops
<1>5. D \in Seq(Uop)
  BY <1>1, <1>4, SeqDef
<1>6. Len(D) = Pushes
  BY <1>1, <1>4
<1> QED
  BY <1>3, <1>5, <1>6

\* The ROB and the decode queue a cycle later.
RobNext(drop, alloc) ==
    /\ rob' \in Seq(Entry)
    /\ Len(rob') = Len(rob) - drop + alloc
    /\ \A k \in 1 .. Len(rob') :
          IF k <= Len(rob) - drop THEN Kept(rob[drop + k], rob'[k])
          ELSE Enters(dq[k - (Len(rob) - drop)], rob'[k])
    /\ alloc > 0 => (rob'[Len(rob) - drop + 1].slot <=> in_delay_slot)
    /\ alloc > 1 => (rob'[Len(rob) - drop + 2].slot <=> IsBr(dq[1].op))

DqNext(alloc) ==
    /\ dq' \in Seq(Uop)
    /\ Len(dq') = Len(dq) - alloc + Pushes
    /\ \A k \in 1 .. Len(dq') :
          IF k <= Len(dq) - alloc THEN dq'[k] = dq[alloc + k]
          ELSE DecodesTo(k - (Len(dq) - alloc), dq'[k])

LEMMA ClockRob ==
    ASSUME TypeOK, NEW retire, NEW drop \in 0 .. Len(rob), NEW alloc \in 0 .. 2, alloc <= Len(dq),
           NEW clr, clr # "rob", NEW settle, Clock(retire, drop, alloc, clr, settle)
    PROVE  RobNext(drop, alloc)
<1>1. PICK adv \in SUBSET Movable : \E out :
          rob' = SubSeq(Moved(adv, out), drop + 1, Len(rob)) \o NewEntries(alloc)
  BY DEF Clock
<1>1a. PICK out : rob' = SubSeq(Moved(adv, out), drop + 1, Len(rob)) \o NewEntries(alloc)
  BY <1>1
<1>2. PICK M \in Seq(Entry) : M = Moved(adv, out)
  BY MovedFacts
<1>3. Len(M) = Len(rob) /\ \A i \in 1 .. Len(rob) : Kept(rob[i], M[i])
  BY <1>2, MovedFacts
<1>4. PICK N \in Seq(Entry) : N = NewEntries(alloc)
  BY NewFacts
<1>5. /\ Len(N) = alloc /\ \A i \in 1 .. alloc : Enters(dq[i], N[i])
      /\ alloc > 0 => (N[1].slot <=> in_delay_slot)
      /\ alloc > 1 => (N[2].slot <=> IsBr(dq[1].op))
  BY <1>4, NewFacts
<1>6. rob' = SubSeq(M, drop + 1, Len(M)) \o N /\ drop \in 0 .. Len(M)
  BY <1>1a, <1>2, <1>3, <1>4
<1>7. /\ rob' \in Seq(Entry)
      /\ Len(rob') = Len(M) - drop + Len(N)
      /\ \A k \in 1 .. Len(rob') : rob'[k] = IF k <= Len(M) - drop THEN M[drop + k] ELSE N[k - (Len(M) - drop)]
  BY <1>6, QueueNext, SMTT(60)
<1>8. Len(rob') = Len(rob) - drop + alloc
  BY <1>7, <1>3, <1>5
<1>a. Len(rob) \in Nat
  BY DEF TypeOK
<1>9. ASSUME NEW k \in 1 .. Len(rob')
      PROVE  IF k <= Len(rob) - drop THEN Kept(rob[drop + k], rob'[k])
             ELSE Enters(dq[k - (Len(rob) - drop)], rob'[k])
  <2>1. CASE k <= Len(rob) - drop
    <3>1. rob'[k] = M[drop + k] /\ drop + k \in 1 .. Len(rob)
      BY <2>1, <1>a, <1>3, <1>7
    <3> QED
      BY <2>1, <3>1, <1>3
  <2>2. CASE ~(k <= Len(rob) - drop)
    <3> DEFINE j == k - (Len(rob) - drop)
    <3>1. rob'[k] = N[j] /\ j \in 1 .. alloc
      BY <2>2, <1>a, <1>3, <1>7, <1>8
    <3> HIDE DEF j
    <3>2. Enters(dq[j], rob'[k])
      BY <3>1, <1>5
    <3> QED
      BY <2>2, <3>2 DEF j
  <2> QED
    BY <2>1, <2>2
<1>10. ASSUME NEW j \in 1 .. alloc PROVE rob'[Len(rob) - drop + j] = N[j]
  <2>1. Len(rob) - drop + j \in 1 .. Len(rob') /\ ~(Len(rob) - drop + j <= Len(rob) - drop)
    BY <1>8, <1>a
  <2>2. (Len(rob) - drop + j) - (Len(rob) - drop) = j
    BY <1>a
  <2> QED
    BY <2>1, <2>2, <1>3, <1>7
<1>11. alloc > 0 => (rob'[Len(rob) - drop + 1].slot <=> in_delay_slot)
  BY <1>5, <1>10
<1>12. alloc > 1 => (rob'[Len(rob) - drop + 2].slot <=> IsBr(dq[1].op))
  BY <1>5, <1>10
<1> QED
  BY <1>7, <1>8, <1>9, <1>11, <1>12 DEF RobNext

LEMMA ClockDq ==
    ASSUME TypeOK, NEW retire, NEW drop, NEW alloc \in 0 .. 2, alloc <= Len(dq), NEW settle,
           Clock(retire, drop, alloc, "none", settle)
    PROVE  DqNext(alloc)
<1>1. PICK irq \in BOOLEAN : dq' = SubSeq(dq, alloc + 1, Len(dq)) \o DecodedUops(irq)
  BY DEF Clock
<1>2. PICK D \in Seq(Uop) : D = DecodedUops(irq)
  BY DecodedFacts
<1>3. Len(D) = Pushes /\ \A i \in 1 .. Pushes : DecodesTo(i, D[i])
  BY <1>2, DecodedFacts
<1>4. dq \in Seq(Uop) /\ Len(dq) \in Nat /\ alloc \in 0 .. Len(dq)
  BY DEF TypeOK
<1>5. dq' = SubSeq(dq, alloc + 1, Len(dq)) \o D
  BY <1>1, <1>2
<1>6. /\ dq' \in Seq(Uop)
      /\ Len(dq') = Len(dq) - alloc + Len(D)
      /\ \A k \in 1 .. Len(dq') : dq'[k] = IF k <= Len(dq) - alloc THEN dq[alloc + k] ELSE D[k - (Len(dq) - alloc)]
  BY <1>4, <1>5, QueueNext
<1>7. ASSUME NEW k \in 1 .. Len(dq'), ~(k <= Len(dq) - alloc)
      PROVE  DecodesTo(k - (Len(dq) - alloc), dq'[k])
  <2> DEFINE j == k - (Len(dq) - alloc)
  <2>0. Pushes \in Nat
    BY PushesFacts
  <2>1. dq'[k] = D[j] /\ j \in 1 .. Pushes
    BY <1>3, <1>4, <1>6, <1>7, <2>0
  <2> HIDE DEF j
  <2>2. DecodesTo(j, dq'[k])
    BY <2>1, <1>3
  <2> QED
    BY <2>2 DEF j
<1> QED
  BY <1>3, <1>6, <1>7 DEF DqNext

\* Everything else Clock says that the invariant is about.
LEMMA ClockRest ==
    ASSUME NEW retire, NEW drop, NEW alloc, NEW clr, NEW settle, Clock(retire, drop, alloc, clr, settle)
    PROVE  /\ prog' = prog
           /\ clr = "rob" => rob' = <<>>
           /\ clr # "none" => dq' = <<>>
           /\ dec_delay_slot' = (clr = "none" /\ n_dec_delay_slot)
           /\ in_delay_slot' = IF alloc > 0 THEN IsBr(dq[alloc].op) ELSE clr = "none" /\ in_delay_slot
           /\ last_branch_target' =
                  IF retire = 2 /\ IsBr(rob[2].op) THEN TargetPc(rob[2])
                  ELSE IF retire > 0 /\ IsBr(rob[1].op) THEN TargetPc(rob[1])
                  ELSE last_branch_target
           /\ want' = IF state = "WRITE_EPC" THEN Begin(Vec)
                      ELSE IF retire = 0 THEN want
                      ELSE IF retire = 1 THEN Step(want, rob[1])
                      ELSE Step(Step(want, rob[1]), rob[2])
           /\ epc' = IF state = "WRITE_EPC" /\ ~exl THEN fault_epc ELSE epc
           /\ skipped' = (skipped \/ \E e \in Retired(retire) : IsFlush(e.op) /\ ~e.out)
<1>1. (clr = "rob" => rob' = <<>>) /\ (clr # "none" => dq' = <<>>) /\ prog' = prog
  BY DEF Clock
<1>2. dec_delay_slot' = (clr = "none" /\ n_dec_delay_slot)
  BY Zenon DEF Clock
<1>3. in_delay_slot' = IF alloc > 0 THEN IsBr(dq[alloc].op) ELSE clr = "none" /\ in_delay_slot
  BY Zenon DEF Clock
<1>4. last_branch_target' =
          IF retire = 2 /\ IsBr(rob[2].op) THEN TargetPc(rob[2])
          ELSE IF retire > 0 /\ IsBr(rob[1].op) THEN TargetPc(rob[1])
          ELSE last_branch_target
  BY DEF Clock
<1>5. want' = IF state = "WRITE_EPC" THEN Begin(Vec)
              ELSE IF retire = 0 THEN want
              ELSE IF retire = 1 THEN Step(want, rob[1])
              ELSE Step(Step(want, rob[1]), rob[2])
  BY DEF Clock
<1>6. epc' = IF state = "WRITE_EPC" /\ ~exl THEN fault_epc ELSE epc
  BY DEF Clock
<1>7. skipped' = (skipped \/ \E e \in Retired(retire) : IsFlush(e.op) /\ ~e.out)
  BY Zenon DEF Clock
<1> QED
  BY <1>1, <1>2, <1>3, <1>4, <1>5, <1>6, <1>7, Zenon

LEMMA ClockTypes ==
    ASSUME TypeOK, NEW retire, NEW drop, NEW alloc, NEW clr, NEW settle \in BOOLEAN,
           Clock(retire, drop, alloc, clr, settle)
    PROVE  /\ {oldest_first_pending', pending_fault', exl', undone', skipped', dec_delay_slot'} \subseteq BOOLEAN
           /\ epc' \in Pc
           /\ dead' \subseteq {0, 1}
<1>2. epc' \in Pc
  BY DEF TypeOK, Clock
<1>3. dead' \subseteq {0, 1}
  BY DEF TypeOK, Clock
<1>4. oldest_first_pending' \in BOOLEAN
  BY Zenon DEF Clock
<1>5. pending_fault' \in BOOLEAN
  BY Zenon DEF Clock
<1>6. exl' \in BOOLEAN
  BY Zenon DEF Clock
<1>7. undone' \in BOOLEAN
  BY Zenon DEF Clock
<1>8. skipped' \in BOOLEAN
  BY Zenon DEF Clock
<1>9. dec_delay_slot' \in BOOLEAN
  BY Zenon DEF Clock
<1> QED
  BY <1>2, <1>3, <1>4, <1>5, <1>6, <1>7, <1>8, <1>9

-----------------------------------------------------------------------------
(* The fetch FSM when no line is being flushed.                             *)

\* Fetch restarts, has yet to restart, or goes on.
Restarts ==
    /\ n_restart_req /\ restart_ack' /\ ~restart_req' /\ l1i_state' = "ACTIVE"
    /\ pc' = restart_pc /\ cache_pc' = NoPc /\ ~delay_slot' /\ fq' = <<>>

Defers(acked) ==
    /\ n_restart_req /\ l1i_state # "ACTIVE" /\ ~restart_ack' /\ restart_req'
    /\ l1i_state' \notin {"IDLE", "FLUSH_CACHE"} /\ fq' = Popped(acked)

GoesOn(acked) ==
    /\ ~n_restart_req /\ ~restart_ack' /\ ~restart_req'
    /\ l1i_state' \notin {"IDLE", "FLUSH_CACHE"}
    /\ l1i_state' # "ACTIVE" => fq' = Popped(acked)
    /\ l1i_state = "ACTIVE" /\ cache_pc = NoPc => l1i_state' = "ACTIVE" /\ fq' = Popped(acked)
    /\ Fetches(acked) \/ Held(acked)

LEMMA L1INormal ==
    ASSUME TypeOK, NEW acked, L1ICycle(acked), ~n_fline_req, l1i_state \notin {"IDLE", "FLUSH_CACHE"}
    PROVE  /\ ~fline_req' /\ ~fline_complete'
           /\ Restarts \/ Defers(acked) \/ GoesOn(acked)
<1>1. CASE Serves(acked)
  <2>1. TakeRestart
    BY <1>1 DEF Serves, TakeFlush
  <2> QED
    BY <2>1 DEF TakeRestart, RestartTo, Restarts
<1>2. CASE Held(acked)
  <2>1. PICK s \in L1IState \ {"IDLE", "FLUSH_CACHE"} : Latched(s, acked)
    BY <1>2 DEF Held
  <2>2. CASE n_restart_req
    BY <1>2, <2>1, <2>2 DEF Held, Latched, Defers, Served
  <2>3. CASE ~n_restart_req
    BY <1>2, <2>1, <2>3 DEF Held, Latched, GoesOn
  <2> QED
    BY <2>2, <2>3
<1>3. CASE Fetches(acked)
  <2>1. CASE Lookup(acked)
    BY <1>3, <2>1 DEF Lookup, Latched, GoesOn, Served
  <2>2. CASE FetchFault(acked)
    BY <1>3, <2>2, ProgramAssumption DEF FetchFault, Push, GoesOn, Served
  <2>3. CASE Hit(acked)
    <3>1. \E q : Push(acked, q)
      BY <2>3 DEF Hit, PushTaken, PushOne, PushPair, PushSequential
    <3>2. ~n_restart_req /\ cache_pc # NoPc
      BY <2>3 DEF Hit, Served
    <3> QED
      BY <1>3, <3>1, <3>2 DEF Push, GoesOn
  <2> QED
    BY <1>3, <2>1, <2>2, <2>3 DEF Fetches
<1> QED
  BY <1>1, <1>2, <1>3, L1ICases

\* The fetch FSM keeps its type, and what the fetch queue holds is sound.
LEMMA L1IStep ==
    ASSUME TypeOK, NEW acked \in 0 .. Len(fq), L1ICycle(acked)
    PROVE  /\ L1ITypeOK'
           /\ fq' = <<>> \/ FqGrows(acked)
<1>0. L1ITypeOK /\ prog \in Programs /\ restart_pc \in Pc /\ {restart_valid, flush_line_req} \subseteq BOOLEAN
  BY DEF TypeOK
<1>a. /\ Len(fq) \in Nat /\ FqEntries \in Nat /\ Len(fq) <= FqEntries
      /\ pc \in Pc /\ cache_pc \in Pc \cup {NoPc}
      /\ n_restart_req \in BOOLEAN /\ n_fline_req \in BOOLEAN /\ delay_slot \in BOOLEAN
  BY <1>0, CoreAssumption DEF L1ITypeOK, n_restart_req, n_fline_req
<1>b. ASSUME fq' = Popped(acked)
      PROVE  FqGrows(acked) /\ fq' \in Seq(Fetched) /\ Len(fq') <= FqEntries
  <2>1. /\ fq' \in Seq(Fetched) /\ Len(fq') = Len(fq) - acked
        /\ \A k \in 1 .. Len(fq) - acked : fq'[k] = fq[acked + k]
    BY <1>0, <1>b, PopFacts
  <2>2. \A k \in Len(fq) - acked + 1 .. Len(fq') : FALSE
    BY <2>1, <1>a
  <2> QED
    BY <2>1, <2>2, <1>a DEF FqGrows
<1>c. ASSUME fq' = <<>> PROVE fq' \in Seq(Fetched) /\ Len(fq') <= FqEntries
  BY <1>c, <1>a
<1>1. CASE Fetches(acked)
  BY <1>0, <1>1, FetchStep
<1>2. CASE Held(acked)
  <2>1. PICK s \in L1IState \ {"IDLE", "FLUSH_CACHE"} : Latched(s, acked)
    BY <1>2 DEF Held
  <2>2. fq' = Popped(acked)
    BY <2>1 DEF Latched
  <2>3. L1ITypeOK'
    BY <1>2, <2>1, <2>2, <1>a, <1>b DEF Held, Latched, L1ITypeOK
  <2> QED
    BY <2>2, <2>3, <1>b
<1>3. CASE Serves(acked)
  <2>1. ASSUME TakeFlush PROVE L1ITypeOK' /\ fq' = <<>>
    BY <2>1, <1>a, <1>c DEF TakeFlush, L1ITypeOK, L1IState
  <2>2. ASSUME NEW b \in BOOLEAN, RestartTo(b) PROVE L1ITypeOK' /\ fq' = <<>>
    BY <2>2, <1>a, <1>c, <1>0 DEF RestartTo, L1ITypeOK, L1IState
  <2>3. ASSUME IdleWait(acked) PROVE L1ITypeOK' /\ FqGrows(acked)
    BY <2>3, <1>a, <1>b DEF IdleWait, Latched, L1ITypeOK, L1IState
  <2>4. ASSUME FlushLine(acked) PROVE L1ITypeOK' /\ FqGrows(acked)
    BY <2>4, <1>a, <1>b DEF FlushLine, L1ITypeOK, L1IState
  <2>5. ASSUME TakeRestart PROVE L1ITypeOK' /\ fq' = <<>>
    BY <2>2, <2>5, Zenon DEF TakeRestart
  <2>6. ASSUME IdleRestart PROVE L1ITypeOK' /\ fq' = <<>>
    BY <2>2, <2>6, <1>a, Zenon DEF IdleRestart
  <2> QED
    BY <1>3, <2>1, <2>3, <2>4, <2>5, <2>6 DEF Serves
<1> QED
  BY <1>1, <1>2, <1>3, L1ICases

\* A path is still one after a cycle without a restart.
LEMMA PathStep ==
    ASSUME TypeOK, NEW acked \in 0 .. Len(fq), GoesOn(acked),
           NEW w, Sound(prog, w), w.pc \in Pc, NEW m \in Nat, NEW t,
           \A k \in 1 .. m : t[k].pc \in Pc /\ Right(prog, t[k]),
           Path(prog, w, m, t, cache_pc, pc, delay_slot),
           NEW g, g = Len(fq) - acked,
           \A k \in 1 .. Len(fq') - g : t[m + k] = OfFetched(prog, fq'[g + k])
    PROVE  Path(prog, w, m + (Len(fq') - g), t, cache_pc', pc', delay_slot')
<1>1. CASE Fetches(acked)
  BY <1>1, FetchPath DEF TypeOK
<1>2. CASE Held(acked)
  <2>1. fq' = Popped(acked) /\ cache_pc' = cache_pc /\ pc' = pc /\ delay_slot' = delay_slot
    BY <1>2 DEF Held, Latched
  <2>2. Len(fq') = g /\ Len(fq') \in Nat
    BY <2>1, PopFacts DEF TypeOK
  <2>3. m + (Len(fq') - g) = m
    BY <2>2
  <2> QED
    BY <2>1, <2>3, Zenon
<1> QED
  BY <1>1, <1>2 DEF GoesOn

-----------------------------------------------------------------------------
(* Types.                                                                   *)

\* Every action is a Clock with arguments within the queues.
Shape ==
    \E retire \in 0 .. 2, drop \in 0 .. 2, alloc \in 0 .. 2, clr \in {"none", "dq", "rob"}, settle \in BOOLEAN :
        /\ retire <= drop /\ drop <= Len(rob) /\ alloc <= Len(dq) /\ Len(rob) - drop + alloc <= RobEntries
        /\ Clock(retire, drop, alloc, clr, settle)

LEMMA SizeFacts ==
    ASSUME TypeOK
    PROVE  /\ Len(rob) \in Nat /\ Len(dq) \in Nat /\ Len(fq) \in Nat
           /\ Len(rob) <= RobEntries /\ RobEntries \in Nat /\ RobEntries >= 2
           /\ rob # <<>> <=> Len(rob) >= 1
           /\ dq # <<>> <=> Len(dq) >= 1
           /\ \A k \in 1 .. Len(rob) : rob[k] \in Entry
           /\ \A k \in 1 .. Len(dq) : dq[k] \in Uop
           /\ \A k \in 1 .. Len(fq) : fq[k] \in Fetched
<1>1. rob \in Seq(Entry) /\ dq \in Seq(Uop) /\ fq \in Seq(Fetched)
  BY DEF TypeOK, L1ITypeOK
<1>2. \A k \in 1 .. Len(rob) : rob[k] \in Entry
  BY <1>1, ElementOfSeq
<1>3. \A k \in 1 .. Len(dq) : dq[k] \in Uop
  BY <1>1, ElementOfSeq
<1>4. \A k \in 1 .. Len(fq) : fq[k] \in Fetched
  BY <1>1, ElementOfSeq
<1>5. Len(rob) \in Nat /\ Len(dq) \in Nat /\ Len(fq) \in Nat /\ Len(rob) <= RobEntries
  BY <1>1 DEF TypeOK
<1>6. RobEntries \in Nat /\ RobEntries >= 2
  BY CoreAssumption
<1>7. (rob # <<>> <=> Len(rob) >= 1) /\ (dq # <<>> <=> Len(dq) >= 1)
  BY <1>1
<1> QED
  BY <1>2, <1>3, <1>4, <1>5, <1>6, <1>7

LEMMA AllocFacts ==
    ASSUME TypeOK, NEW n \in Allocs
    PROVE  /\ n \in 0 .. 2 /\ n <= Len(dq) /\ Len(rob) + n <= RobEntries
           /\ n > 0 => ~Serializing(dq[1].op)
           /\ n > 1 => ~Serializing(dq[2].op)
BY SizeFacts DEF Allocs, CanAlloc, CanAllocTwo

LEMMA RetireFacts ==
    ASSUME TypeOK, CanRetire, NEW r \in Retires
    PROVE  r \in 1 .. 2 /\ r <= Len(rob)
BY SizeFacts DEF Retires, CanRetire, CanRetireTwo

LEMMA ShapeHolds ==
    ASSUME TypeOK, HeadInv, CoreCycle
    PROVE  Shape
<1>0. /\ Len(rob) \in Nat /\ Len(dq) \in Nat /\ Len(rob) <= RobEntries /\ RobEntries \in Nat /\ RobEntries >= 2
      /\ rob # <<>> <=> Len(rob) >= 1
      /\ dq # <<>> <=> Len(dq) >= 1
  BY SizeFacts
<1>a. ASSUME NEW retire \in 0 .. 2, NEW drop \in 0 .. 2, NEW alloc \in 0 .. 2, NEW settle \in BOOLEAN,
             retire <= drop /\ drop <= Len(rob) /\ alloc <= Len(dq) /\ Len(rob) - drop + alloc <= RobEntries,
             Clock(retire, drop, alloc, "none", settle)
      PROVE  Shape
  BY <1>a DEF Shape
<1>b. 0 \in 0 .. 2 /\ 1 \in 0 .. 2 /\ 0 <= 1 /\ 1 <= 1 /\ 0 <= 0 /\ FALSE \in BOOLEAN
  OBVIOUS
<1>1. ASSUME NEW clr \in {"none", "dq", "rob"}, NEW settle \in BOOLEAN, Clock(0, 0, 0, clr, settle)
      PROVE  Shape
  BY <1>0, <1>1 DEF Shape
<1>2. CASE \/ EnterSerializeInSlot \/ EnterArchFault \/ EnterSerialize \/ DrainNullified \/ DrainSlotFaults
           \/ DrainEnds \/ DrainWaits \/ WaitForSerialize \/ StartFlush \/ FlushWaits
  <2>1. Clock(0, 0, 0, "none", FALSE)
    BY <1>2 DEF EnterSerializeInSlot, EnterArchFault, EnterSerialize, DrainNullified, DrainSlotFaults,
                DrainEnds, DrainWaits, WaitForSerialize, StartFlush, FlushWaits
  <2> QED
    BY <2>1, <1>1
<1>3. CASE RatWaits \/ RatEnds
  <2>1. \E b \in BOOLEAN : Clock(0, 0, 0, "rob", b)
    BY <1>3, Zenon DEF RatWaits, RatEnds
  <2> QED
    BY <2>1, <1>1, Zenon
<1>4. CASE SerializeRestarts \/ FlushRestarts \/ WriteEpc
  <2>1. \E b \in BOOLEAN : Clock(0, 0, 0, "dq", b)
    BY <1>4, Zenon DEF SerializeRestarts, FlushRestarts, RestartBehind, WriteEpc
  <2> QED
    BY <2>1, <1>1, Zenon
<1>5. CASE WaitSlotSerialize
  <2>1. Clock(0, 0, 0, "none", Done(rob[2])) /\ Done(rob[2]) \in BOOLEAN
    BY <1>5, Zenon DEF WaitSlotSerialize, Done
  <2> QED
    BY <2>1, <1>1, Zenon
<1>6. CASE RetireMispredict \/ DrainSlotRetires
  <2>1. Clock(1, 1, 0, "none", FALSE) /\ rob # <<>>
    BY <1>6 DEF RetireMispredict, DrainSlotRetires, CanRetire, SlotComplete
  <2>2. 1 <= Len(rob) /\ 0 <= Len(dq) /\ Len(rob) - 1 + 0 <= RobEntries
    BY <2>1, <1>0
  <2> QED
    BY <2>1, <2>2, <1>a, <1>b, Zenon
<1>7. CASE TakeFault
  <2>1. Clock(0, 1, 0, "none", FALSE) /\ rob # <<>>
    BY <1>7 DEF TakeFault, HeadInv
  <2>2. 1 <= Len(rob) /\ 0 <= Len(dq) /\ Len(rob) - 1 + 0 <= RobEntries
    BY <2>1, <1>0
  <2> QED
    BY <2>1, <2>2, <1>a, <1>b, Zenon
<1>8. CASE RetireAndAlloc
  <2>1. PICK r \in Retires, n \in Allocs : Clock(r, r, n, "none", FALSE)
    BY <1>8 DEF RetireAndAlloc
  <2>2. r \in 1 .. 2 /\ r <= Len(rob)
    BY <1>8, RetireFacts DEF RetireAndAlloc
  <2>3. n \in 0 .. 2 /\ n <= Len(dq) /\ Len(rob) + n <= RobEntries
    BY AllocFacts
  <2>4. r \in 0 .. 2 /\ r <= r /\ Len(rob) - r + n <= RobEntries
    BY <2>2, <2>3, <1>0
  <2> QED
    BY <2>1, <2>2, <2>3, <2>4, <1>a, <1>b, Zenon
<1>9. CASE AllocOnly
  <2>1. PICK n \in Allocs : Clock(0, 0, n, "none", FALSE)
    BY <1>9 DEF AllocOnly
  <2>3. n \in 0 .. 2 /\ n <= Len(dq) /\ Len(rob) + n <= RobEntries
    BY AllocFacts
  <2>4. 0 <= Len(rob) /\ Len(rob) - 0 + n <= RobEntries
    BY <2>3, <1>0
  <2> QED
    BY <2>1, <2>3, <2>4, <1>a, <1>b, Zenon
<1>10. CASE AllocForSerialize
  <2>1. rob = <<>> /\ dq # <<>>
    BY <1>10 DEF AllocForSerialize, HeadInv
  <2>2. Clock(0, 0, 1, "none", FALSE) \/ Clock(0, 0, 0, "none", FALSE)
    BY <1>10 DEF AllocForSerialize
  <2>3. 0 <= Len(rob) /\ 1 <= Len(dq) /\ 0 <= Len(dq) /\ Len(rob) - 0 + 1 <= RobEntries /\ Len(rob) - 0 + 0 <= RobEntries
    BY <2>1, <1>0
  <2> QED
    BY <2>2, <2>3, <1>a, <1>b, Zenon
<1>11. CASE AllocSlotSerialize
  <2>1. Len(rob) = 1 /\ dq # <<>>
    BY <1>11 DEF AllocSlotSerialize, HeadInv
  <2>2. Clock(0, 0, 1, "none", FALSE) \/ Clock(0, 0, 0, "none", FALSE)
    BY <1>11 DEF AllocSlotSerialize
  <2>3. 0 <= Len(rob) /\ 1 <= Len(dq) /\ 0 <= Len(dq) /\ Len(rob) - 0 + 1 <= RobEntries /\ Len(rob) - 0 + 0 <= RobEntries
    BY <2>1, <1>0
  <2> QED
    BY <2>2, <2>3, <1>a, <1>b, Zenon
<1> QED
  BY <1>2, <1>3, <1>4, <1>5, <1>6, <1>7, <1>8, <1>9, <1>10, <1>11 DEF CoreCycle

LEMMA TargetType ==
    ASSUME TypeOK, NEW e \in Entry
    PROVE  TargetPc(e) \in Pc /\ RestartPc(e) \in Pc /\ ReportedPc(e) \in Pc
<1>1. e.pc \in Pc /\ e.slot \in BOOLEAN /\ epc \in Pc /\ last_branch_target \in Pc /\ Target(e.pc) \in Pc
  BY ProgType DEF TypeOK, Entry, Target
<1>2. TargetPc(e) \in Pc
  BY <1>1, SuccType DEF TargetPc
<1> QED
  BY <1>1, <1>2, PredType DEF RestartPc, ReportedPc

LEMMA StepType ==
    ASSUME TypeOK, NEW w \in Reference, NEW e \in Entry
    PROVE  Step(w, e) \in Reference
<1>1. w.pc \in Pc /\ w.npc \in Pc /\ epc \in Pc /\ Target(w.pc) \in Pc
  BY ProgType DEF TypeOK, Reference, Target
<1>2. Succ(w.npc) \in Pc /\ Succ(epc) \in Pc /\ Succ(Succ(w.npc)) \in Pc
  BY <1>1, SuccType
<1> QED
  BY <1>1, <1>2 DEF Step, Begin, Reference

LEMMA XflushTypes ==
    ASSUME TypeOK, XflushArrives
    PROVE  xflush_pend' \in BOOLEAN /\ xflush_left' \in 0 .. MaxXflush
<1>1. xflush_pend \in BOOLEAN /\ xflush_left \in 0 .. MaxXflush
  BY DEF TypeOK
<1>2. CASE UNCHANGED <<xflush_pend, xflush_left>>
  BY <1>1, <1>2
<1>3. CASE xflush_left > 0 /\ xflush_pend' = TRUE /\ xflush_left' = xflush_left - 1
  <2>1. xflush_left - 1 \in 0 .. MaxXflush
    BY <1>1, <1>3, CoreAssumption
  <2> QED
    BY <1>3, <2>1
<1> QED
  BY <1>2, <1>3 DEF XflushArrives

LEMMA QuietTypes ==
    ASSUME TypeOK, Quiet
    PROVE  /\ xflush_pend' \in BOOLEAN /\ xflush_left' \in 0 .. MaxXflush /\ flush_line_req' \in BOOLEAN
           /\ flushing' \subseteq {"d", "i"} /\ colour' \in {0, 1} /\ fault_epc' \in Pc
BY XflushTypes DEF TypeOK, Quiet

\* What a core action sets that is not in Clock.
LEMMA CoreTypes ==
    ASSUME TypeOK, HeadInv, CoreCycle
    PROVE  /\ state' \in State
           /\ {got_restart_ack', restart_valid', flush_line_req', ds_done', xflush_pend'} \subseteq BOOLEAN
           /\ restart_pc' \in Pc /\ fault_epc' \in Pc
           /\ drain' \in [slot : BOOLEAN, nullify : BOOLEAN, taken : BOOLEAN]
           /\ colour' \in {0, 1} /\ flushing' \subseteq {"d", "i"} /\ xflush_left' \in 0 .. MaxXflush
<1> DEFINE DrainType == [slot : BOOLEAN, nullify : BOOLEAN, taken : BOOLEAN]
<1>a. /\ restart_pc \in Pc /\ fault_epc \in Pc /\ drain \in DrainType /\ ds_done \in BOOLEAN
      /\ colour \in {0, 1} /\ flushing \subseteq {"d", "i"} /\ state \in State
  BY DEF TypeOK
<1>b. got_restart_ack' \in BOOLEAN /\ state' \in State
  <2>1. \E s \in State : Goto(s)
    BY <1>a DEF CoreCycle, EnterSerializeInSlot, EnterArchFault, RetireMispredict, RetireAndAlloc,
       EnterSerialize, AllocOnly, DrainNullified, DrainSlotRetires, DrainSlotFaults, DrainEnds, DrainWaits,
       RatWaits, RatEnds, AllocForSerialize, WaitForSerialize, SerializeRestarts, StartFlush, FlushWaits,
       FlushRestarts, AllocSlotSerialize, WaitSlotSerialize, TakeFault, WriteEpc, RestartBehind, State
  <2> QED
    BY <2>1 DEF Goto, LatchAck
<1>c. ASSUME XflushArrives PROVE xflush_pend' \in BOOLEAN /\ xflush_left' \in 0 .. MaxXflush
  BY <1>c, XflushTypes
<1>d. \A e \in Entry : SlotOf(e) \in DrainType /\ RestartPc(e) \in Pc /\ ReportedPc(e) \in Pc
  <2> SUFFICES ASSUME NEW e \in Entry PROVE SlotOf(e) \in DrainType
    BY TargetType
  <2>1. IsBr(e.op) \in BOOLEAN /\ Nullifying(e.op) \in BOOLEAN /\ (IsBr(e.op) /\ e.out) \in BOOLEAN
    BY DEF IsBr, Nullifying
  <2> QED
    BY <2>1 DEF SlotOf
<1>e. rob # <<>> => rob[1] \in Entry
  BY SizeFacts
<1>1. CASE \/ EnterSerializeInSlot \/ RetireAndAlloc \/ EnterSerialize \/ AllocOnly
           \/ DrainEnds \/ DrainWaits \/ RatWaits \/ AllocForSerialize \/ WaitForSerialize
           \/ AllocSlotSerialize \/ WaitSlotSerialize
  <2>1. Quiet /\ NoRestart /\ UNCHANGED <<ds_done, drain>>
    BY <1>1 DEF EnterSerializeInSlot, RetireAndAlloc, EnterSerialize, AllocOnly,
       DrainEnds, DrainWaits, RatWaits, AllocForSerialize, WaitForSerialize,
       AllocSlotSerialize, WaitSlotSerialize
  <2> QED
    BY <2>1, <1>a, <1>b, QuietTypes DEF NoRestart, Aim
<1>2. CASE EnterArchFault \/ RetireMispredict
  <2>1. /\ Quiet /\ rob # <<>> /\ restart_pc' = RestartPc(rob[1]) /\ restart_valid' \in BOOLEAN
        /\ drain' = SlotOf(rob[1]) /\ ds_done' \in {ds_done, ~IsBr(rob[1].op)}
    BY <1>2 DEF EnterArchFault, RetireMispredict, CanRetire, Restart, Aim
  <2>2. (~IsBr(rob[1].op)) \in BOOLEAN
    OBVIOUS
  <2>3. ds_done' \in BOOLEAN
    BY <2>1, <2>2, <1>a
  <2> QED
    BY <2>1, <2>3, <1>b, <1>d, <1>e, QuietTypes
<1>3. CASE DrainNullified \/ DrainSlotRetires \/ WriteEpc
  <2>1. /\ Quiet /\ restart_pc' \in {restart_pc, Vec} /\ restart_valid' \in BOOLEAN /\ drain' = drain
        /\ ds_done' = TRUE
    BY <1>3 DEF DrainNullified, DrainSlotRetires, WriteEpc, NoRestart, Restart, Aim
  <2> QED
    BY <2>1, <1>a, <1>b, QuietTypes, ProgramAssumption
<1>4. CASE DrainSlotFaults
  <2>1. /\ Quiet /\ restart_pc' \in {restart_pc, RestartPc(rob[1])} /\ restart_valid' \in BOOLEAN /\ drain' = drain
        /\ ds_done' = TRUE /\ rob # <<>>
    BY <1>4 DEF DrainSlotFaults, SlotComplete, NoRestart, Aim
  <2> QED
    BY <2>1, <1>a, <1>b, <1>d, <1>e, QuietTypes
<1>5. CASE RatEnds
  <2>1. 1 - colour \in {0, 1}
    BY <1>a
  <2> QED
    BY <1>5, <2>1, <1>a, <1>b, <1>c DEF RatEnds, NoRestart, Aim
<1>6. CASE SerializeRestarts
  <2>1. /\ Quiet /\ restart_pc' = RestartPc(rob[1]) /\ restart_valid' = TRUE /\ drain' = drain
        /\ ds_done' = ds_done /\ rob # <<>>
    BY <1>6 DEF SerializeRestarts, RestartBehind, Restart, HeadInv, SerialHead
  <2> QED
    BY <2>1, <1>a, <1>b, <1>d, <1>e, QuietTypes
<1>7. CASE StartFlush
  <2>1. flush_line_req' \in BOOLEAN /\ flushing' \subseteq {"d", "i"} /\ xflush_pend' \in BOOLEAN /\ xflush_left' \in 0 .. MaxXflush
    BY <1>7, <1>c DEF StartFlush
  <2> QED
    BY <1>7, <2>1, <1>a, <1>b DEF StartFlush, NoRestart, Aim
<1>8. CASE FlushWaits
  BY <1>8, <1>a, <1>b, <1>c DEF FlushWaits, NoRestart, Aim
<1>9. CASE FlushRestarts
  <2>1. /\ restart_pc' = RestartPc(rob[1]) /\ restart_valid' = TRUE /\ drain' = drain
        /\ ds_done' = ds_done /\ rob # <<>> /\ flushing' = {} /\ flush_line_req' = FALSE
        /\ colour' = colour /\ fault_epc' = fault_epc
    BY <1>9 DEF FlushRestarts, RestartBehind, Restart, HeadInv, SerialHead
  <2>2. xflush_pend' \in BOOLEAN /\ xflush_left' \in 0 .. MaxXflush
    BY <1>9, <1>c DEF FlushRestarts, TypeOK
  <2> QED
    BY <2>1, <2>2, <1>a, <1>b, <1>d, <1>e
<1>10. CASE TakeFault
  <2>1. rob # <<>>
    BY <1>10 DEF TakeFault, HeadInv
  <2> QED
    BY <1>10, <2>1, <1>a, <1>b, <1>c, <1>d, <1>e DEF TakeFault, NoRestart, Aim
<1> QED
  BY <1>1, <1>2, <1>3, <1>4, <1>5, <1>6, <1>7, <1>8, <1>9, <1>10 DEF CoreCycle

\* Types are kept.
LEMMA TypeStep ==
    ASSUME TypeOK, HeadInv, Next
    PROVE  TypeOK'
<1>0. CoreCycle /\ L1ICycle(Acked)
  BY DEF Next
<1>1. L1ITypeOK'
  BY <1>0, L1IStep, PushesFacts
<1>2. PICK retire \in 0 .. 2, drop \in 0 .. 2, alloc \in 0 .. 2, clr \in {"none", "dq", "rob"}, settle \in BOOLEAN :
        /\ retire <= drop /\ drop <= Len(rob) /\ alloc <= Len(dq) /\ Len(rob) - drop + alloc <= RobEntries
        /\ Clock(retire, drop, alloc, clr, settle)
  BY <1>0, ShapeHolds DEF Shape
<1>3. /\ Len(rob) \in Nat /\ Len(dq) \in Nat /\ drop \in 0 .. Len(rob) /\ RobEntries \in Nat /\ DqEntries \in Nat
      /\ \A k \in 1 .. Len(rob) : rob[k] \in Entry
      /\ \A k \in 1 .. Len(dq) : dq[k] \in Uop
  BY <1>2, SizeFacts, CoreAssumption
<1>4. rob' \in Seq(Entry) /\ Len(rob') <= RobEntries
  <2>1. CASE clr = "rob"
    <3>1. rob' = <<>>
      BY <1>2, <2>1, ClockRest
    <3> QED
      BY <3>1, <1>3
  <2>2. CASE clr # "rob"
    <3>1. RobNext(drop, alloc)
      BY <1>2, <1>3, <2>2, ClockRob
    <3> QED
      BY <3>1, <1>2 DEF RobNext
  <2> QED
    BY <2>1, <2>2
<1>5. dq' \in Seq(Uop) /\ Len(dq') <= DqEntries
  <2>1. CASE clr # "none"
    <3>1. dq' = <<>>
      BY <1>2, <2>1, ClockRest
    <3> QED
      BY <3>1, <1>3
  <2>2. CASE clr = "none"
    <3>1. DqNext(alloc)
      BY <1>2, <2>2, ClockDq
    <3> QED
      BY <3>1, <1>2, <1>3, PushesFacts, SMTT(60) DEF DqNext
  <2> QED
    BY <2>1, <2>2
<1>6. prog' \in Programs
  BY <1>2, ClockRest DEF TypeOK
<1>7. last_branch_target' \in Pc
  <2>1. retire > 0 => rob[1] \in Entry
    BY <1>2, <1>3
  <2>2. retire = 2 => rob[2] \in Entry
    BY <1>2, <1>3
  <2> QED
    BY <1>2, <2>1, <2>2, ClockRest, TargetType DEF TypeOK
<1>8. want' \in Reference
  <2>1. retire > 0 => rob[1] \in Entry
    BY <1>2, <1>3
  <2>2. retire = 2 => rob[2] \in Entry
    BY <1>2, <1>3
  <2>3. Begin(Vec) \in Reference
    BY SuccType, ProgramAssumption DEF Begin, Reference
  <2>4. want \in Reference
    BY DEF TypeOK
  <2>5. retire > 0 => Step(want, rob[1]) \in Reference
    BY <2>1, <2>4, StepType
  <2>6. retire = 2 => Step(Step(want, rob[1]), rob[2]) \in Reference
    BY <2>2, <2>5, StepType
  <2>7. retire = 0 \/ retire = 1 \/ retire = 2
    BY <1>2
  <2> QED
    BY <1>2, <2>3, <2>4, <2>5, <2>6, <2>7, ClockRest
<1>9. in_delay_slot' \in BOOLEAN
  <2>1. in_delay_slot' = IF alloc > 0 THEN IsBr(dq[alloc].op) ELSE clr = "none" /\ in_delay_slot
    BY <1>2, ClockRest
  <2> QED
    BY <2>1, Zenon DEF IsBr
<1>10. /\ {oldest_first_pending', pending_fault', exl', undone', skipped', dec_delay_slot'} \subseteq BOOLEAN
       /\ epc' \in Pc
       /\ dead' \subseteq {0, 1}
  BY <1>2, ClockTypes
<1>11. /\ state' \in State
       /\ {got_restart_ack', restart_valid', flush_line_req', ds_done', xflush_pend'} \subseteq BOOLEAN
       /\ restart_pc' \in Pc /\ fault_epc' \in Pc
       /\ drain' \in [slot : BOOLEAN, nullify : BOOLEAN, taken : BOOLEAN]
       /\ colour' \in {0, 1} /\ flushing' \subseteq {"d", "i"} /\ xflush_left' \in 0 .. MaxXflush
  BY <1>0, CoreTypes
<1> QED
  BY <1>1, <1>4, <1>5, <1>6, <1>7, <1>8, <1>9, <1>10, <1>11 DEF TypeOK

-----------------------------------------------------------------------------
(* What decode makes of an instruction stays what it is.                    *)

LEMMA OpStep ==
    ASSUME TypeOK, HeadInv, OpInv, Next
    PROVE  OpInv'
<1>0. CoreCycle /\ L1ICycle(Acked) /\ Acked \in 0 .. Len(fq) /\ Pushes \in 0 .. 2 /\ Pushes <= Len(fq)
  BY PushesFacts DEF Next
<1>1. PICK retire \in 0 .. 2, drop \in 0 .. 2, alloc \in 0 .. 2, clr \in {"none", "dq", "rob"}, settle \in BOOLEAN :
        /\ retire <= drop /\ drop <= Len(rob) /\ alloc <= Len(dq) /\ Len(rob) - drop + alloc <= RobEntries
        /\ Clock(retire, drop, alloc, clr, settle)
  BY <1>0, ShapeHolds DEF Shape
<1>2. prog' = prog
  BY <1>1, ClockRest
<1>3. Len(rob) \in Nat /\ Len(dq) \in Nat /\ Len(fq) \in Nat /\ drop \in 0 .. Len(rob)
  BY <1>1, SizeFacts
<1>4. ASSUME NEW k \in 1 .. Len(rob')
      PROVE  Right(prog, rob'[k]) /\ (rob'[k].op = "likely" => rob'[k].pred)
  <2>1. CASE clr = "rob"
    BY <1>1, <1>4, <2>1, ClockRest
  <2>2. CASE clr # "rob"
    <3>1. RobNext(drop, alloc)
      BY <1>1, <1>3, <2>2, ClockRob
    <3>2. CASE k <= Len(rob) - drop
      <4>1. Kept(rob[drop + k], rob'[k]) /\ drop + k \in 1 .. Len(rob)
        BY <3>1, <3>2, <1>3 DEF RobNext
      <4> QED
        BY <4>1 DEF Kept, OpInv, Right
    <3>3. CASE ~(k <= Len(rob) - drop)
      <4> DEFINE j == k - (Len(rob) - drop)
      <4>1. Enters(dq[j], rob'[k]) /\ j \in 1 .. Len(dq)
        BY <3>1, <3>3, <1>1, <1>3, SMTT(60) DEF RobNext
      <4> QED
        BY <4>1 DEF Enters, OpInv, Right
    <3> QED
      BY <3>2, <3>3
  <2> QED
    BY <2>1, <2>2
<1>5. ASSUME NEW k \in 1 .. Len(dq')
      PROVE  Right(prog, dq'[k]) /\ (dq'[k].op = "likely" => dq'[k].pred)
  <2>1. CASE clr # "none"
    BY <1>1, <1>5, <2>1, ClockRest
  <2>2. CASE clr = "none"
    <3>1. DqNext(alloc)
      BY <1>1, <2>2, ClockDq
    <3>2. CASE k <= Len(dq) - alloc
      <4>1. dq'[k] = dq[alloc + k] /\ alloc + k \in 1 .. Len(dq)
        BY <3>1, <3>2, <1>3 DEF DqNext
      <4> QED
        BY <4>1 DEF OpInv
    <3>3. CASE ~(k <= Len(dq) - alloc)
      <4> DEFINE j == k - (Len(dq) - alloc)
      <4>1. DecodesTo(j, dq'[k]) /\ j \in 1 .. Len(fq)
        BY <3>1, <3>3, <1>0, <1>1, <1>3 DEF DqNext
      <4> QED
        BY <4>1 DEF DecodesTo, OpInv, Right, OpAt
    <3> QED
      BY <3>2, <3>3
  <2> QED
    BY <2>1, <2>2
<1>6. ASSUME NEW k \in 1 .. Len(fq')
      PROVE  /\ fq'[k].tlb_miss => fq'[k].pc \in Mapped
             /\ ~fq'[k].tlb_miss /\ OpAt(fq'[k].pc) = "likely" => fq'[k].pred
  <2>1. CASE fq' = <<>>
    BY <1>6, <2>1
  <2>2. CASE FqGrows(Acked)
    <3>1. CASE k <= Len(fq) - Acked
      <4>1. fq'[k] = fq[Acked + k] /\ Acked + k \in 1 .. Len(fq)
        BY <2>2, <3>1, <1>0, <1>3 DEF FqGrows
      <4> QED
        BY <4>1 DEF OpInv
    <3>2. CASE ~(k <= Len(fq) - Acked)
      <4>1. k \in Len(fq) - Acked + 1 .. Len(fq')
        BY <3>2, <1>0, <1>3
      <4> QED
        BY <2>2, <4>1 DEF FqGrows
    <3> QED
      BY <3>1, <3>2
  <2> QED
    BY <1>0, <2>1, <2>2, L1IStep
<1> QED
  BY <1>2, <1>4, <1>5, <1>6 DEF OpInv, OpAt, Right

-----------------------------------------------------------------------------
(* Facts common to the proofs of the actions.                               *)

\* Outside CACHE_FLUSH no line is being flushed.
LEMMA NormalStep ==
    ASSUME TypeOK, FlushLineInv, state # "CACHE_FLUSH", L1ICycle(Acked), flush_line_req' = FALSE,
           state' # "CACHE_FLUSH"
    PROVE  FlushLineInv' /\ (Restarts \/ Defers(Acked) \/ GoesOn(Acked))
<1>1. ~n_fline_req /\ l1i_state \notin {"IDLE", "FLUSH_CACHE"}
  BY DEF FlushLineInv, n_fline_req
<1>2. ~fline_req' /\ ~fline_complete' /\ (Restarts \/ Defers(Acked) \/ GoesOn(Acked))
  BY <1>1, L1INormal
<1>3. l1i_state' \notin {"IDLE", "FLUSH_CACHE"}
  BY <1>2 DEF Restarts, Defers, GoesOn
<1> QED
  BY <1>2, <1>3 DEF FlushLineInv

LEMMA StillFacts ==
    ASSUME TypeOK, NEW clr \in {"none", "dq"}, NEW settle, Clock(0, 0, 0, clr, settle),
           state # "WRITE_EPC"
    PROVE  /\ prog' = prog /\ want' = want /\ last_branch_target' = last_branch_target /\ epc' = epc
           /\ Len(rob') = Len(rob) /\ \A k \in 1 .. Len(rob) : Kept(rob[k], rob'[k])
           /\ clr = "dq" => dq' = <<>> /\ ~dec_delay_slot' /\ ~in_delay_slot'
           /\ clr = "none" => /\ in_delay_slot' <=> in_delay_slot
                              /\ dq # <<>> => dq' # <<>> /\ dq'[1] = dq[1]
           /\ skipped' <=> skipped
<1>0. Len(rob) \in Nat /\ Len(dq) \in Nat /\ (dq # <<>> <=> Len(dq) >= 1)
  BY SizeFacts
<1>a. PICK z \in 0 .. 2 : z = 0 /\ Clock(z, z, z, clr, settle)
  OBVIOUS
<1>b. z \in 0 .. Len(rob) /\ z <= Len(dq) /\ clr # "rob"
  BY <1>0, <1>a
<1>1. prog' = prog /\ want' = want /\ last_branch_target' = last_branch_target /\ epc' = epc
  BY ClockRest
<1>2. RobNext(z, z)
  BY <1>a, <1>b, ClockRob, Zenon
<1>3. Len(rob') = Len(rob) /\ \A k \in 1 .. Len(rob) : Kept(rob[k], rob'[k])
  BY <1>0, <1>a, <1>2 DEF RobNext
<1>c. in_delay_slot' = IF z > 0 THEN IsBr(dq[z].op) ELSE clr = "none" /\ in_delay_slot
  BY <1>a, ClockRest, Zenon
<1>d. dec_delay_slot' = (clr = "none" /\ n_dec_delay_slot)
  BY <1>a, ClockRest, Zenon
<1>e. in_delay_slot' = (clr = "none" /\ in_delay_slot)
  BY <1>a, <1>c
<1>4. clr = "dq" => dq' = <<>> /\ ~dec_delay_slot' /\ ~in_delay_slot'
  <2>1. clr = "dq" => dq' = <<>>
    BY ClockRest
  <2> QED
    BY <2>1, <1>d, <1>e
<1>5. ASSUME clr = "none"
      PROVE  in_delay_slot' <=> in_delay_slot
  BY <1>5, <1>e
<1>6. ASSUME clr = "none", dq # <<>>
      PROVE  dq' # <<>> /\ dq'[1] = dq[1]
  <2>1. DqNext(0) /\ Pushes \in Nat
    BY <1>0, <1>6, ClockDq, PushesFacts
  <2>2. Len(dq') >= 1 /\ dq'[1] = dq[1]
    BY <2>1, <1>0, <1>6 DEF DqNext
  <2> QED
    BY <2>1, <2>2 DEF DqNext
<1>7. skipped' <=> skipped
  <2>1. Retired(0) = {}
    BY DEF Retired
  <2>2. skipped' = (skipped \/ \E e \in Retired(0) : IsFlush(e.op) /\ ~e.out)
    BY ClockRest
  <2> QED
    BY <2>1, <2>2
<1> QED
  BY <1>1, <1>3, <1>4, <1>5, <1>6, <1>7

\* A kept entry that is done is unchanged.
LEMMA KeptFacts ==
    ASSUME NEW e, NEW f, Kept(e, f)
    PROVE  /\ f.pc = e.pc /\ f.op = e.op /\ f.pred = e.pred /\ f.slot = e.slot
           /\ Done(e) => Done(f)
           /\ Done(e) /\ state # "CACHE_FLUSH" => f = e
BY DEF Kept

\* Where fetch is, while the core drains.
LEMMA FetchInvStep ==
    ASSUME TypeOK, TypeOK', OpInv, FetchInv, state # "ACTIVE", restart_pc' = restart_pc, prog' = prog,
           Restarts \/ Defers(Acked) \/ GoesOn(Acked)
    PROVE  FetchInv'
<1>0. Acked = 0 /\ Len(fq) \in Nat /\ fq' \in Seq(Fetched) /\ Len(fq') \in Nat /\ prog \in Programs
      /\ restart_pc \in Pc /\ delay_slot' \in BOOLEAN
  BY DEF Acked, TypeOK, L1ITypeOK
<1>1. CASE Restarts
  <2>1. Len(fq') = 0 /\ cache_pc' = NoPc /\ pc' = restart_pc /\ delay_slot' = FALSE
    BY <1>0, <1>1 DEF Restarts
  <2>2. Begin(restart_pc).pc = restart_pc /\ ~Begin(restart_pc).slot
    BY DEF Begin
  <2>3. Path(prog', Begin(restart_pc), 0, FetchStream', NoPc, restart_pc, FALSE)
    BY <2>2, PathBegin
  <2> QED
    BY <2>1, <2>3, Zenon DEF FetchInv
<1>2. CASE Defers(Acked)
  BY <1>2 DEF Defers, FetchInv, PendingRestart
<1>3. CASE GoesOn(Acked)
  <2> DEFINE w == Begin(restart_pc)
             m == Len(fq)
             t == FetchStream'
  <2>1. ~PendingRestart
    BY <1>3 DEF GoesOn, n_restart_req, PendingRestart
  <2>2. Path(prog, w, m, FetchStream, cache_pc, pc, delay_slot)
    BY <2>1 DEF FetchInv
  <2>4. Len(fq') >= Len(fq) /\ \A k \in 1 .. Len(fq) : fq'[k] = fq[k]
    <3>1. CASE Fetches(Acked)
      BY <1>0, <3>1, FetchStep DEF FqGrows, TypeOK
    <3>2. CASE Held(Acked)
      <4>1. fq' = Popped(0)
        BY <1>0, <3>2 DEF Held, Latched
      <4> QED
        BY <1>0, <4>1, PopFacts DEF TypeOK
    <3> QED
      BY <1>3, <3>1, <3>2 DEF GoesOn
  <2>5. \A k \in 1 .. m : t[k] = FetchStream[k]
    BY <1>0, <2>4 DEF FetchStream
  <2>6. \A k \in 1 .. m : t[k].pc = FetchStream[k].pc /\ t[k].pred = FetchStream[k].pred /\ t[k].op = FetchStream[k].op
    BY <2>5
  <2>7. Path(prog, w, m, t, cache_pc, pc, delay_slot)
    <3> HIDE DEF t, w, m
    <3> QED
      BY <1>0, <2>2, <2>6, PathRelabel DEF m
  <2>8. \A k \in 1 .. m : t[k].pc \in Pc /\ Right(prog, t[k])
    <3>1. \A k \in 1 .. m : fq[k] \in Fetched
      BY SizeFacts
    <3>2. \A k \in 1 .. m : t[k] = OfFetched(prog, fq[k])
      BY <2>5 DEF FetchStream
    <3>3. ASSUME NEW k \in 1 .. m
          PROVE  OfFetched(prog, fq[k]).pc \in Pc /\ Right(prog, OfFetched(prog, fq[k]))
      BY <3>1 DEF OfFetched, Right, OpInv, Fetched
    <3> HIDE DEF t, m
    <3> QED
      BY <3>2, <3>3
  <2>9. \A k \in 1 .. Len(fq') - m : t[m + k] = OfFetched(prog, fq'[m + k])
    BY <1>0 DEF FetchStream
  <2>10. Sound(prog, w) /\ w.pc \in Pc
    BY <1>0 DEF Begin, Sound
  <2>11. m = Len(fq) - Acked /\ m + (Len(fq') - m) = Len(fq')
    BY <1>0
  <2>12. Path(prog, w, m + (Len(fq') - m), t, cache_pc', pc', delay_slot')
    <3>1. m \in Nat /\ Acked \in 0 .. Len(fq)
      BY <1>0
    <3> HIDE DEF t, w, m
    <3>2. PICK g : g = m
      OBVIOUS
    <3>3. g = Len(fq) - Acked /\ \A k \in 1 .. Len(fq') - g : t[m + k] = OfFetched(prog, fq'[g + k])
      BY <3>2, <2>9, <2>11
    <3>4. Path(prog, w, m + (Len(fq') - g), t, cache_pc', pc', delay_slot')
      BY <1>3, <2>7, <2>8, <2>10, <3>1, <3>3, PathStep
    <3> QED
      BY <3>2, <3>4
  <2> QED
    BY <2>11, <2>12, Zenon DEF FetchInv
<1> QED
  BY <1>1, <1>2, <1>3

\* The state of a cycle in which nothing enters or leaves the ROB.
Still ==
    /\ prog' = prog /\ want' = want /\ last_branch_target' = last_branch_target /\ epc' = epc
    /\ Len(rob') = Len(rob) /\ \A k \in 1 .. Len(rob) : Kept(rob[k], rob'[k])

LEMMA StillNone ==
    ASSUME TypeOK, NEW settle, Clock(0, 0, 0, "none", settle), state # "WRITE_EPC"
    PROVE  Still /\ (in_delay_slot' <=> in_delay_slot) /\ (dq # <<>> => dq' # <<>> /\ dq'[1] = dq[1])
<1>1. PICK clr \in {"none", "dq"} : clr = "none" /\ Clock(0, 0, 0, clr, settle)
  OBVIOUS
<1> QED
  BY <1>1, StillFacts DEF Still

LEMMA StillDq ==
    ASSUME TypeOK, NEW settle, Clock(0, 0, 0, "dq", settle), state # "WRITE_EPC"
    PROVE  Still /\ dq' = <<>> /\ ~dec_delay_slot' /\ ~in_delay_slot'
<1>1. PICK clr \in {"none", "dq"} : clr = "dq" /\ Clock(0, 0, 0, clr, settle)
  OBVIOUS
<1> QED
  BY <1>1, StillFacts DEF Still

LEMMA StillWant ==
    ASSUME WantInv, Still
    PROVE  WantInv'
BY DEF WantInv, Still, Sound

LEMMA NextSizes ==
    ASSUME TypeOK'
    PROVE  /\ rob' \in Seq(Entry) /\ Len(rob') \in Nat /\ Len(dq') \in Nat /\ Len(fq') \in Nat
           /\ rob' # <<>> <=> Len(rob') >= 1
           /\ dq' # <<>> <=> Len(dq') >= 1
           /\ \A k \in 1 .. Len(rob') : rob'[k] \in Entry
           /\ \A k \in 1 .. Len(dq') : dq'[k] \in Uop
           /\ \A k \in 1 .. Len(fq') : fq'[k] \in Fetched
<1>1. rob' \in Seq(Entry) /\ dq' \in Seq(Uop) /\ fq' \in Seq(Fetched)
  BY DEF TypeOK, L1ITypeOK
<1>2. \A k \in 1 .. Len(rob') : rob'[k] \in Entry
  BY <1>1, ElementOfSeq
<1>3. \A k \in 1 .. Len(dq') : dq'[k] \in Uop
  BY <1>1, ElementOfSeq
<1>4. \A k \in 1 .. Len(fq') : fq'[k] \in Fetched
  BY <1>1, ElementOfSeq
<1>5. Len(rob') \in Nat /\ Len(dq') \in Nat /\ Len(fq') \in Nat
  BY <1>1
<1>7. (rob' # <<>> <=> Len(rob') >= 1) /\ (dq' # <<>> <=> Len(dq') >= 1)
  BY <1>1
<1> QED
  BY <1>1, <1>2, <1>3, <1>4, <1>5, <1>7

\* The head of the ROB, if it stays there.
LEMMA StillHead ==
    ASSUME TypeOK, TypeOK', Still, rob # <<>>
    PROVE  /\ rob' # <<>> /\ Kept(rob[1], rob'[1])
           /\ rob'[1].pc = rob[1].pc /\ rob'[1].op = rob[1].op /\ rob'[1].slot = rob[1].slot
           /\ IsNext(rob[1]) => (rob'[1].pc = want'.pc /\ (rob'[1].slot <=> want'.slot))
           /\ Done(rob[1]) => Done(rob'[1])
           /\ Done(rob[1]) /\ state # "CACHE_FLUSH" => rob'[1] = rob[1]
<1>1. Len(rob) >= 1 /\ Len(rob) \in Nat
  BY SizeFacts
<1>2. rob' # <<>> /\ Kept(rob[1], rob'[1])
  BY <1>1, NextSizes DEF Still
<1>3. want' = want
  BY DEF Still
<1> QED
  BY <1>2, <1>3, KeptFacts DEF IsNext

-----------------------------------------------------------------------------
(* Draining and exceptions.                                                 *)

Keeps == WantInv' /\ HandshakeInv' /\ HeadInv'

\* The handshake of a restart that has been asked for.
LEMMA DrainHandshake ==
    ASSUME TypeOK, TypeOK', FlowInv, L1ICycle(Acked), state \in {"DRAIN", "EXCEPTION_DRAIN"},
           state' \in {"DRAIN", "EXCEPTION_DRAIN", "RAT"}, state = "EXCEPTION_DRAIN" => state' # "DRAIN",
           LatchAck, flush_line_req' = FALSE, NoRestart, prog' = prog
    PROVE  HandshakeInv' /\ FetchInv'
<1>0. FlushLineInv /\ RestartInv /\ FetchInv /\ OpInv
  BY DEF FlowInv, HandshakeInv, HeadInv
<1>1. FlushLineInv' /\ (Restarts \/ Defers(Acked) \/ GoesOn(Acked))
  BY <1>0, NormalStep
<1>2. FetchInv'
  BY <1>0, <1>1, FetchInvStep DEF NoRestart, Aim
<1>3. restart_valid' = FALSE /\ got_restart_ack' = (got_restart_ack \/ restart_ack)
  BY DEF NoRestart, Aim, LatchAck, n_got_restart_ack
<1>4. Defers(Acked) /\ fq = <<>> => fq' = <<>>
  <2>1. Defers(Acked) => fq' = Popped(0)
    BY DEF Defers, Acked
  <2>2. fq = <<>> => Popped(0) = <<>>
    BY DEF Popped
  <2> QED
    BY <2>1, <2>2
<1>5. CASE state = "DRAIN"
  <2>1. (AckSeen => ~PendingRestart) /\ (restart_valid => ~restart_req)
    BY <1>0, <1>5 DEF RestartInv
  <2>2. AckSeen' => ~PendingRestart'
    BY <1>1, <1>3, <2>1 DEF AckSeen, PendingRestart, Restarts, Defers, GoesOn, n_restart_req
  <2> QED
    BY <1>1, <1>2, <1>3, <2>2 DEF HandshakeInv, RestartInv, PendingRestart
<1>6. CASE state = "EXCEPTION_DRAIN"
  <2>1. AckSeen /\ PendingRestart => fq = <<>> \/ (restart_valid /\ l1i_state = "ACTIVE")
    BY <1>0, <1>6 DEF RestartInv
  <2>2. AckSeen' /\ restart_req' => fq' = <<>>
    BY <1>1, <1>3, <1>4, <2>1 DEF AckSeen, PendingRestart, Restarts, Defers, GoesOn, n_restart_req
  <2>3. RestartInv'
    BY <1>3, <1>6, <2>2 DEF RestartInv, PendingRestart
  <2> QED
    BY <1>1, <1>2, <2>3 DEF HandshakeInv
<1> QED
  BY <1>5, <1>6

LEMMA DrainNullifiedKeeps ==
    ASSUME TypeOK, TypeOK', FlowInv, L1ICycle(Acked), DrainNullified
    PROVE  Keeps
<1>1. /\ state = "DRAIN" /\ state' = "DRAIN" /\ LatchAck /\ NoRestart /\ Clock(0, 0, 0, "none", FALSE)
      /\ flush_line_req' = FALSE /\ ds_done' = TRUE /\ drain' = drain /\ drain.nullify /\ ~drain.taken
  BY DEF DrainNullified, Goto, Quiet
<1>2. Still
  BY <1>1, StillNone
<1>3. WantInv'
  BY <1>2, StillWant DEF FlowInv
<1>4. HandshakeInv' /\ FetchInv'
  BY <1>1, <1>2, DrainHandshake DEF Still
<1>5. want = Begin(restart_pc)
  BY <1>1 DEF FlowInv, HeadInv, DrainInv
<1>6. DrainInv'
  <2>1. want' = Begin(restart_pc')
    BY <1>1, <1>2, <1>5 DEF Still, NoRestart, Aim
  <2> QED
    BY <1>1, <2>1 DEF DrainInv, Begin
<1> QED
  BY <1>1, <1>3, <1>4, <1>6 DEF Keeps, HeadInv

LEMMA DrainEndsKeeps ==
    ASSUME TypeOK, TypeOK', FlowInv, L1ICycle(Acked), DrainEnds
    PROVE  Keeps
<1>1. /\ state \in {"DRAIN", "EXCEPTION_DRAIN"} /\ state' = "RAT" /\ LatchAck /\ NoRestart /\ Clock(0, 0, 0, "none", FALSE)
      /\ flush_line_req' = FALSE /\ ds_done' = ds_done /\ ds_done
  BY DEF DrainEnds, Goto, Quiet, Drained
<1>2. Still
  BY <1>1, StillNone
<1>3. WantInv'
  BY <1>2, StillWant DEF FlowInv
<1>4. HandshakeInv' /\ FetchInv'
  BY <1>1, <1>2, DrainHandshake DEF Still
<1>5. want = Begin(restart_pc)
  BY <1>1 DEF FlowInv, HeadInv, DrainInv
<1>6. want' = Begin(restart_pc')
  BY <1>1, <1>2, <1>5 DEF Still, NoRestart, Aim
<1> QED
  BY <1>1, <1>3, <1>4, <1>6 DEF Keeps, HeadInv, Begin

LEMMA DrainWaitsKeeps ==
    ASSUME TypeOK, TypeOK', FlowInv, L1ICycle(Acked), DrainWaits
    PROVE  Keeps
<1>1. /\ state \in {"DRAIN", "EXCEPTION_DRAIN"} /\ state' = state /\ LatchAck /\ NoRestart /\ Clock(0, 0, 0, "none", FALSE)
      /\ flush_line_req' = FALSE /\ ds_done' = ds_done /\ drain' = drain
  BY DEF DrainWaits, Goto, Quiet
<1>2. Still
  BY <1>1, StillNone
<1>3. WantInv'
  BY <1>2, StillWant DEF FlowInv
<1>4. HandshakeInv' /\ FetchInv'
  BY <1>1, <1>2, DrainHandshake DEF Still
<1>a. want' = want /\ restart_pc' = restart_pc /\ Begin(restart_pc)' = Begin(restart_pc)
  BY <1>1, <1>2 DEF Still, NoRestart, Aim, Begin
<1>5. CASE state = "EXCEPTION_DRAIN"
  BY <1>1, <1>3, <1>4, <1>5, <1>a DEF Keeps, HeadInv, FlowInv
<1>6. CASE state = "DRAIN"
  <2>1. DrainInv
    BY <1>6 DEF FlowInv, HeadInv
  <2>2. CASE ds_done \/ (drain.nullify /\ ~drain.taken)
    <3>1. DrainInv'
      BY <1>1, <1>a, <2>1, <2>2 DEF DrainInv
    <3> QED
      BY <1>1, <1>3, <1>4, <1>6, <3>1 DEF Keeps, HeadInv
  <2>3. CASE ~(ds_done \/ (drain.nullify /\ ~drain.taken))
    <3>1. /\ rob # <<>> /\ IsNext(rob[1]) /\ rob[1].op # "xflush" /\ drain.slot
          /\ IF drain.nullify THEN rob[1].op \notin {"mem", "trap", "sys", "irq", "ftlb"}
             ELSE Done(rob[1]) /\ restart_valid
      BY <2>1, <2>3 DEF DrainInv
    <3>2. ~(rob # <<>> /\ Done(rob[1]))
      BY <1>6, <2>3, <3>1 DEF DrainWaits, SlotComplete, SlotPending
    <3>3. drain.nullify
      BY <3>1, <3>2
    <3>4. /\ rob' # <<>> /\ rob'[1].op = rob[1].op
          /\ rob'[1].pc = want'.pc /\ (rob'[1].slot <=> want'.slot)
      BY <1>2, <3>1, StillHead
    <3>5. DrainInv'
      BY <1>1, <1>a, <2>1, <2>3, <3>1, <3>3, <3>4 DEF DrainInv, IsNext
    <3> QED
      BY <1>1, <1>3, <1>4, <1>6, <3>5 DEF Keeps, HeadInv
  <2> QED
    BY <2>2, <2>3
<1> QED
  BY <1>1, <1>5, <1>6

\* What is in the slot of a branch is neither a branch nor an ERET.
LEMMA SlotOp ==
    ASSUME TypeOK, Sound(prog, want), want.slot, NEW e, e.pc = want.pc, Right(prog, e)
    PROVE  ~IsBr(e.op) /\ e.op # "eret"
<1>1. PICK a \in Pc : IsBr(prog[a].op) /\ want.pc = Succ(a)
  BY DEF Sound
<1>2. ~IsBr(prog[want.pc].op) /\ prog[want.pc].op # "eret"
  BY <1>1, SlotLegal DEF TypeOK
<1> QED
  BY <1>2 DEF Right, IsBr, Nullifying

LEMMA OneRetires ==
    ASSUME TypeOK, TypeOK', rob # <<>>, NEW settle, Clock(1, 1, 0, "none", settle), state # "WRITE_EPC"
    PROVE  /\ prog' = prog /\ want' = Step(want, rob[1]) /\ epc' = epc
           /\ last_branch_target' = IF IsBr(rob[1].op) THEN TargetPc(rob[1]) ELSE last_branch_target
           /\ Len(rob') = Len(rob) - 1 /\ \A k \in 1 .. Len(rob) - 1 : Kept(rob[k + 1], rob'[k])
<1>0. Len(rob) \in Nat /\ Len(rob) >= 1 /\ Len(dq) \in Nat
  BY SizeFacts
<1>a. PICK u, z, clr : u \in 0 .. 2 /\ z \in 0 .. 2 /\ u = 1 /\ z = 0 /\ clr = "none" /\ Clock(u, u, z, clr, settle)
  OBVIOUS
<1>b. u \in 0 .. Len(rob) /\ z <= Len(dq) /\ clr # "rob"
  BY <1>0, <1>a
<1>1. RobNext(u, z)
  BY <1>a, <1>b, ClockRob, Zenon
<1>2. Len(rob') = Len(rob) - 1 /\ \A k \in 1 .. Len(rob) - 1 : Kept(rob[k + 1], rob'[k])
  BY <1>0, <1>a, <1>1 DEF RobNext
<1>3. prog' = prog /\ want' = Step(want, rob[1]) /\ epc' = epc
  BY ClockRest
<1>4. last_branch_target' = IF IsBr(rob[1].op) THEN TargetPc(rob[1]) ELSE last_branch_target
  BY ClockRest
<1> QED
  BY <1>2, <1>3, <1>4

LEMMA DrainSlotRetiresKeeps ==
    ASSUME TypeOK, TypeOK', FlowInv, L1ICycle(Acked), DrainSlotRetires
    PROVE  Keeps
<1>1. /\ state = "DRAIN" /\ state' = "DRAIN" /\ LatchAck /\ NoRestart /\ Clock(1, 1, 0, "none", FALSE)
      /\ flush_line_req' = FALSE /\ ds_done' = TRUE /\ drain' = drain /\ rob # <<>>
      /\ ~ds_done /\ ~(drain.nullify /\ ~drain.taken)
  BY DEF DrainSlotRetires, Goto, Quiet, SlotComplete, SlotPending
<1>2. /\ prog' = prog /\ want' = Step(want, rob[1])
      /\ last_branch_target' = IF IsBr(rob[1].op) THEN TargetPc(rob[1]) ELSE last_branch_target
  BY <1>1, OneRetires
<1>3. want.slot /\ want.npc = restart_pc /\ IsNext(rob[1]) /\ rob[1].op # "xflush"
  BY <1>1 DEF FlowInv, HeadInv, DrainInv
<1>4. Right(prog, rob[1]) /\ Sound(prog, want)
  BY <1>1, SizeFacts DEF FlowInv, OpInv, WantInv
<1>5. ~IsBr(rob[1].op) /\ rob[1].op # "eret"
  BY <1>3, <1>4, SlotOp DEF IsNext
<1>6. want' = Begin(restart_pc)
  BY <1>2, <1>3, <1>5 DEF Step, IsBr
<1>7. restart_pc' = restart_pc
  BY <1>1 DEF NoRestart, Aim
<1>8. WantInv'
  BY <1>6 DEF WantInv, Sound, Begin
<1>9. HandshakeInv' /\ FetchInv'
  BY <1>1, <1>2, DrainHandshake
<1>10. DrainInv'
  BY <1>1, <1>6, <1>7 DEF DrainInv, Begin
<1> QED
  BY <1>1, <1>8, <1>9, <1>10 DEF Keeps, HeadInv

LEMMA DrainSlotFaultsKeeps ==
    ASSUME TypeOK, TypeOK', FlowInv, L1ICycle(Acked), DrainSlotFaults
    PROVE  Keeps
<1>1. /\ state = "DRAIN" /\ state' = "ARCH_FAULT" /\ LatchAck /\ Clock(0, 0, 0, "none", FALSE)
      /\ flush_line_req' = FALSE /\ restart_valid' = FALSE /\ rob # <<>> /\ ArchFault(rob[1])
      /\ ~ds_done /\ ~(drain.nullify /\ ~drain.taken)
  BY DEF DrainSlotFaults, Goto, Quiet, SlotComplete, SlotPending, NoRestart, Aim
<1>2. Still
  BY <1>1, StillNone
<1>3. WantInv'
  BY <1>2, StillWant DEF FlowInv
<1>4. IsNext(rob[1]) /\ IF drain.nullify THEN rob[1].op \notin {"mem", "trap", "sys", "irq", "ftlb"}
                        ELSE restart_valid
  BY <1>1 DEF FlowInv, HeadInv, DrainInv
<1>5. restart_valid
  BY <1>1, <1>4 DEF ArchFault
<1>6. ~AckSeen /\ ~restart_req
  BY <1>1, <1>5 DEF FlowInv, HandshakeInv, RestartInv, PendingRestart
<1>7. FlushLineInv' /\ (Restarts \/ Defers(Acked) \/ GoesOn(Acked))
  BY <1>1, NormalStep DEF FlowInv, HandshakeInv
<1>8. ~got_restart_ack'
  BY <1>1, <1>6 DEF LatchAck, n_got_restart_ack, AckSeen
<1>9. RestartInv'
  BY <1>1, <1>7, <1>8 DEF RestartInv, Restarts, Defers, GoesOn
<1>10. HeadInv'
  <2>1. rob' # <<>> /\ rob'[1] = rob[1] /\ rob'[1].pc = want'.pc /\ (rob'[1].slot <=> want'.slot)
    BY <1>1, <1>2, <1>4, StillHead DEF ArchFault, Faulted
  <2> QED
    BY <1>1, <2>1 DEF HeadInv, IsNext
<1> QED
  BY <1>3, <1>7, <1>9, <1>10 DEF Keeps, HandshakeInv

LEMMA TakeFaultKeeps ==
    ASSUME TypeOK, TypeOK', FlowInv, L1ICycle(Acked), TakeFault
    PROVE  Keeps
<1>1. /\ state = "ARCH_FAULT" /\ state' = "WRITE_EPC" /\ LatchAck /\ Clock(0, 1, 0, "none", FALSE)
      /\ flush_line_req' = FALSE /\ restart_valid' = FALSE /\ fault_epc' = ReportedPc(rob[1])
  BY DEF TakeFault, Goto, NoRestart, Aim
<1>2. prog' = prog /\ want' = want /\ last_branch_target' = last_branch_target
  <2>1. PICK z, u, clr, settle : z = 0 /\ Clock(z, u, z, clr, settle)
    BY <1>1, Zenon
  <2> QED
    BY <1>1, <2>1, ClockRest
<1>3. WantInv'
  BY <1>2 DEF FlowInv, WantInv, Sound
<1>4. IsNext(rob[1])
  BY <1>1 DEF FlowInv, HeadInv
<1>5. HeadInv'
  BY <1>1, <1>2, <1>4 DEF HeadInv, ReportedPc, IsNext
<1>6. /\ ~restart_valid /\ ~got_restart_ack
      /\ restart_ack => ~restart_req /\ l1i_state = "ACTIVE" /\ cache_pc = NoPc /\ fq = <<>>
  BY <1>1 DEF FlowInv, HandshakeInv, RestartInv
<1>7. FlushLineInv' /\ (Restarts \/ Defers(Acked) \/ GoesOn(Acked))
  BY <1>1, NormalStep DEF FlowInv, HandshakeInv
<1>8. fq = <<>> => Popped(Acked) = <<>>
  BY <1>1 DEF Popped, Acked
<1>9. AckSeen' => ~restart_req' /\ l1i_state' = "ACTIVE" /\ fq' = <<>>
  <2>1. CASE restart_ack
    BY <2>1, <1>6, <1>7, <1>8 DEF Restarts, Defers, GoesOn, n_restart_req
  <2>2. CASE ~restart_ack
    BY <2>2, <1>1, <1>6, <1>7 DEF AckSeen, LatchAck, n_got_restart_ack, Restarts, Defers, GoesOn
  <2> QED
    BY <2>1, <2>2
<1>10. RestartInv'
  BY <1>1, <1>9 DEF RestartInv
<1> QED
  BY <1>3, <1>5, <1>7, <1>10 DEF Keeps, HandshakeInv

LEMMA WriteEpcKeeps ==
    ASSUME TypeOK, TypeOK', FlowInv, L1ICycle(Acked), WriteEpc
    PROVE  Keeps
<1>1. /\ state = "WRITE_EPC" /\ state' = "EXCEPTION_DRAIN" /\ LatchAck /\ Clock(0, 0, 0, "dq", FALSE)
      /\ flush_line_req' = FALSE /\ restart_valid' = TRUE /\ restart_pc' = Vec /\ ds_done' = TRUE
  BY DEF WriteEpc, Goto, Quiet, Restart
<1>2. prog' = prog /\ want' = Begin(Vec)
  BY <1>1, ClockRest
<1>3. WantInv'
  BY <1>2 DEF WantInv, Sound, Begin
<1>4. HeadInv'
  <2>1. FetchInv'
    BY <1>1 DEF FetchInv, PendingRestart
  <2> QED
    BY <1>1, <1>2, <2>1 DEF HeadInv, Begin
<1>6. /\ ~restart_valid
      /\ AckSeen => ~restart_req /\ l1i_state = "ACTIVE" /\ fq = <<>>
  BY <1>1 DEF FlowInv, HandshakeInv, RestartInv
<1>7. FlushLineInv' /\ (Restarts \/ Defers(Acked) \/ GoesOn(Acked))
  BY <1>1, NormalStep DEF FlowInv, HandshakeInv
<1>8. fq = <<>> => Popped(Acked) = <<>>
  BY <1>1 DEF Popped, Acked
<1>9. AckSeen' => fq' = <<>> \/ l1i_state' = "ACTIVE"
  <2>1. CASE AckSeen
    BY <2>1, <1>6, <1>7, <1>8 DEF Restarts, Defers, GoesOn, n_restart_req
  <2>2. CASE ~AckSeen
    BY <2>2, <1>1, <1>7 DEF AckSeen, LatchAck, n_got_restart_ack, Restarts, Defers, GoesOn
  <2> QED
    BY <2>1, <2>2
<1>10. RestartInv'
  BY <1>1, <1>9 DEF RestartInv
<1> QED
  BY <1>3, <1>4, <1>7, <1>10 DEF Keeps, HandshakeInv

-----------------------------------------------------------------------------
(* Serializing instructions.                                                *)

\* No restart is under way.
LEMMA NoHandshakeStep ==
    ASSUME TypeOK, FlushLineInv, NoHandshake, state # "CACHE_FLUSH", L1ICycle(Acked),
           flush_line_req' = FALSE, state' # "CACHE_FLUSH", LatchAck, NoRestart
    PROVE  FlushLineInv' /\ NoHandshake' /\ GoesOn(Acked)
<1>1. FlushLineInv' /\ (Restarts \/ Defers(Acked) \/ GoesOn(Acked))
  BY NormalStep
<1>2. GoesOn(Acked)
  BY <1>1 DEF Restarts, Defers, n_restart_req, NoHandshake, PendingRestart
<1>3. NoHandshake'
  BY <1>2 DEF GoesOn, NoHandshake, PendingRestart, AckSeen, LatchAck, n_got_restart_ack, NoRestart, Aim
<1> QED
  BY <1>1, <1>2, <1>3

\* One uop enters the ROB.
LEMMA OneEnters ==
    ASSUME TypeOK, TypeOK', dq # <<>>, NEW settle, Clock(0, 0, 1, "none", settle), state # "WRITE_EPC"
    PROVE  /\ prog' = prog /\ want' = want /\ last_branch_target' = last_branch_target /\ epc' = epc
           /\ Len(rob') = Len(rob) + 1 /\ \A k \in 1 .. Len(rob) : Kept(rob[k], rob'[k])
           /\ Enters(dq[1], rob'[Len(rob) + 1])
           /\ rob'[Len(rob) + 1].slot <=> in_delay_slot
           /\ in_delay_slot' <=> IsBr(dq[1].op)
<1>0. Len(rob) \in Nat /\ Len(dq) >= 1 /\ Len(dq) \in Nat
  BY SizeFacts
<1>a. PICK u, z, clr : u \in 0 .. 2 /\ z \in 0 .. 2 /\ u = 1 /\ z = 0 /\ clr = "none" /\ Clock(z, z, u, clr, settle)
  OBVIOUS
<1>b. z \in 0 .. Len(rob) /\ u <= Len(dq) /\ clr # "rob"
  BY <1>0, <1>a
<1>1. RobNext(z, u)
  BY <1>a, <1>b, ClockRob, Zenon
<1>2. Len(rob') = Len(rob) + 1 /\ \A k \in 1 .. Len(rob) : Kept(rob[k], rob'[k])
  BY <1>0, <1>a, <1>1 DEF RobNext
<1>3. prog' = prog /\ want' = want /\ last_branch_target' = last_branch_target /\ epc' = epc
  BY <1>a, ClockRest
<1>4. Enters(dq[1], rob'[Len(rob) + 1])
  <2>0. PICK n : n = Len(rob) + 1
    OBVIOUS
  <2>1. n \in 1 .. Len(rob') /\ ~(n <= Len(rob) - z) /\ n - (Len(rob) - z) = 1
    BY <1>0, <1>2, <1>a, <2>0
  <2>2. \A k \in 1 .. Len(rob') : ~(k <= Len(rob) - z) => Enters(dq[k - (Len(rob) - z)], rob'[k])
    BY <1>1, Zenon DEF RobNext
  <2>3. Enters(dq[n - (Len(rob) - z)], rob'[n])
    BY <2>1, <2>2, Zenon
  <2> QED
    BY <2>0, <2>1, <2>3, Zenon
<1>5. rob'[Len(rob) + 1].slot <=> in_delay_slot
  <2>1. Len(rob) - z + 1 = Len(rob) + 1 /\ u > 0
    BY <1>0, <1>a
  <2> QED
    BY <2>1, <1>1 DEF RobNext
<1>6. in_delay_slot' <=> IsBr(dq[1].op)
  <2>1. in_delay_slot' = IF u > 0 THEN IsBr(dq[u].op) ELSE clr = "none" /\ in_delay_slot
    BY <1>a, ClockRest, Zenon
  <2> QED
    BY <2>1, <1>a
<1> QED
  BY <1>2, <1>3, <1>4, <1>5, <1>6

LEMMA AllocForSerializeKeeps ==
    ASSUME TypeOK, TypeOK', FlowInv, L1ICycle(Acked), AllocForSerialize
    PROVE  Keeps
<1>1. /\ state = "ALLOC_FOR_SERIALIZE" /\ LatchAck /\ NoRestart /\ flush_line_req' = FALSE
      /\ \/ state' = "WAIT_FOR_SERIALIZE_AND_RESTART" /\ Clock(0, 0, 1, "none", FALSE)
         \/ state' = state /\ Clock(0, 0, 0, "none", FALSE)
  BY DEF AllocForSerialize, Goto, Quiet
<1>2. FlushLineInv' /\ NoHandshake'
  BY <1>1, NoHandshakeStep DEF FlowInv, HandshakeInv, RestartInv
<1>3. /\ rob = <<>> /\ dq # <<>>
      /\ Serializing(dq[1].op) /\ dq[1].pc = want.pc /\ (in_delay_slot <=> want.slot)
      /\ dq[1].op = "xflush" => ~want.slot
  BY <1>1 DEF FlowInv, HeadInv
<1>4. CASE state' = "WAIT_FOR_SERIALIZE_AND_RESTART" /\ Clock(0, 0, 1, "none", FALSE)
  <2>0. Len(rob) = 0
    BY <1>3
  <2>1. /\ prog' = prog /\ want' = want /\ last_branch_target' = last_branch_target
        /\ Len(rob') = 0 + 1 /\ Enters(dq[1], rob'[0 + 1]) /\ (rob'[0 + 1].slot <=> in_delay_slot)
    BY <1>1, <1>3, <1>4, <2>0, OneEnters
  <2>2. SerialHead'
    BY <1>3, <2>1 DEF SerialHead, IsNext, Enters
  <2>3. HeadInv'
    BY <1>4, <2>2 DEF HeadInv
  <2>4. RestartInv'
    BY <1>2, <1>4 DEF RestartInv, NoHandshake, PendingRestart, AckSeen
  <2>5. WantInv'
    BY <2>1 DEF FlowInv, WantInv, Sound
  <2> QED
    BY <1>2, <2>3, <2>4, <2>5 DEF Keeps, HandshakeInv
<1>5. CASE state' = state /\ Clock(0, 0, 0, "none", FALSE)
  <2>1. Still /\ (in_delay_slot' <=> in_delay_slot) /\ dq' # <<>> /\ dq'[1] = dq[1]
    BY <1>1, <1>3, <1>5, StillNone
  <2>2. rob' = <<>>
    BY <1>3, <2>1, NextSizes DEF Still
  <2>3. HeadInv'
    BY <1>1, <1>3, <1>5, <2>1, <2>2 DEF HeadInv, Still
  <2>4. RestartInv'
    BY <1>1, <1>2, <1>5 DEF RestartInv
  <2> QED
    BY <1>2, <2>1, <2>3, <2>4, StillWant DEF Keeps, HandshakeInv, FlowInv
<1> QED
  BY <1>1, <1>4, <1>5

LEMMA WaitForSerializeKeeps ==
    ASSUME TypeOK, TypeOK', FlowInv, L1ICycle(Acked), WaitForSerialize
    PROVE  Keeps
<1>1. /\ state = "WAIT_FOR_SERIALIZE_AND_RESTART" /\ state' = state /\ LatchAck /\ NoRestart
      /\ flush_line_req' = FALSE /\ Clock(0, 0, 0, "none", FALSE) /\ ~Done(rob[1])
  BY DEF WaitForSerialize, Goto, Quiet
<1>2. NoHandshake
  BY <1>1 DEF FlowInv, HandshakeInv, RestartInv, NoHandshake, PendingRestart
<1>3. FlushLineInv' /\ NoHandshake'
  BY <1>1, <1>2, NoHandshakeStep DEF FlowInv, HandshakeInv
<1>4. Still
  BY <1>1, StillNone
<1>5. SerialHead /\ rob # <<>>
  BY <1>1 DEF FlowInv, HeadInv, SerialHead
<1>6. SerialHead'
  <2>1. /\ rob'[1].op = rob[1].op /\ rob'[1].pc = want'.pc /\ (rob'[1].slot <=> want'.slot)
    BY <1>4, <1>5, StillHead DEF SerialHead
  <2> QED
    BY <1>4, <1>5, <2>1 DEF SerialHead, Still, IsNext
<1>7. HeadInv'
  BY <1>1, <1>6 DEF HeadInv
<1>8. RestartInv'
  BY <1>1, <1>3 DEF RestartInv, NoHandshake, PendingRestart, AckSeen
<1> QED
  BY <1>3, <1>4, <1>7, <1>8, StillWant DEF Keeps, HandshakeInv, FlowInv

LEMMA AllocSlotSerializeKeeps ==
    ASSUME TypeOK, TypeOK', FlowInv, L1ICycle(Acked), AllocSlotSerialize
    PROVE  Keeps
<1>1. /\ state = "SERIALIZE_IN_FAULTED_DELAY_SLOT" /\ LatchAck /\ NoRestart /\ flush_line_req' = FALSE
      /\ \/ state' = "WAIT_FOR_SERIALIZE_IN_FAULTED_DELAY_SLOT" /\ Clock(0, 0, 1, "none", FALSE)
         \/ state' = state /\ Clock(0, 0, 0, "none", FALSE)
  BY DEF AllocSlotSerialize, Goto, Quiet
<1>2. FlushLineInv' /\ NoHandshake'
  BY <1>1, NoHandshakeStep DEF FlowInv, HandshakeInv, RestartInv
<1>3. BranchHead /\ Len(rob) = 1 /\ dq # <<>> /\ SerialSlot(dq[1]) /\ in_delay_slot /\ Done(rob[1]) /\ rob # <<>>
  BY <1>1 DEF FlowInv, HeadInv, BranchHead, Faulted
<1>a. RestartInv'
  BY <1>1, <1>2 DEF RestartInv
<1>4. CASE state' = "WAIT_FOR_SERIALIZE_IN_FAULTED_DELAY_SLOT" /\ Clock(0, 0, 1, "none", FALSE)
  <2>1. /\ prog' = prog /\ want' = want /\ last_branch_target' = last_branch_target
        /\ Len(rob') = 1 + 1 /\ Enters(dq[1], rob'[1 + 1]) /\ (rob'[1 + 1].slot <=> in_delay_slot)
        /\ in_delay_slot' <=> IsBr(dq[1].op)
        /\ Kept(rob[1], rob'[1])
    <3>1. /\ prog' = prog /\ want' = want /\ last_branch_target' = last_branch_target
          /\ Len(rob') = Len(rob) + 1 /\ \A k \in 1 .. Len(rob) : Kept(rob[k], rob'[k])
          /\ Enters(dq[1], rob'[Len(rob) + 1])
          /\ rob'[Len(rob) + 1].slot <=> in_delay_slot
          /\ in_delay_slot' <=> IsBr(dq[1].op)
      BY <1>1, <1>3, <1>4, OneEnters
    <3> QED
      BY <1>3, <3>1
  <2>2. rob'[1] = rob[1] /\ rob' # <<>>
    BY <1>1, <1>3, <2>1, NextSizes DEF Kept
  <2>3. BranchHead'
    BY <1>3, <2>1, <2>2 DEF BranchHead, IsNext
  <2>4. /\ rob'[2].pc = want'.npc /\ Serializing(rob'[2].op) /\ rob'[2].op # "xflush"
        /\ rob'[2].slot /\ ~in_delay_slot'
    BY <1>3, <2>1 DEF SerialSlot, Enters, Serializing, IsBr, Nullifying
  <2>5. HeadInv'
    BY <1>4, <2>1, <2>3, <2>4 DEF HeadInv, SerialSlot
  <2>6. WantInv'
    BY <2>1 DEF FlowInv, WantInv, Sound
  <2> QED
    BY <1>2, <1>a, <2>5, <2>6 DEF Keeps, HandshakeInv
<1>5. CASE state' = state /\ Clock(0, 0, 0, "none", FALSE)
  <2>1. Still /\ (in_delay_slot' <=> in_delay_slot) /\ dq' # <<>> /\ dq'[1] = dq[1]
    BY <1>1, <1>3, <1>5, StillNone
  <2>2. rob'[1] = rob[1] /\ rob' # <<>> /\ Len(rob') = 1 /\ want' = want
    BY <1>1, <1>3, <2>1, StillHead DEF Still
  <2>3. BranchHead'
    BY <1>3, <2>1, <2>2 DEF BranchHead, IsNext
  <2>4. HeadInv'
    BY <1>1, <1>3, <1>5, <2>1, <2>2, <2>3 DEF HeadInv, SerialSlot
  <2> QED
    BY <1>2, <1>a, <2>1, <2>4, StillWant DEF Keeps, HandshakeInv, FlowInv
<1> QED
  BY <1>1, <1>4, <1>5

\* A flush that is done is marked so.
LEMMA FlushMarked ==
    ASSUME TypeOK, state = "CACHE_FLUSH", Len(rob) = 1, Done(rob[1]), FlushesDone,
           NEW settle, Clock(0, 0, 0, "dq", settle)
    PROVE  rob'[1].out
<1>0. PICK z, clr : z \in 0 .. 2 /\ z = 0 /\ clr = "dq" /\ Clock(z, z, z, clr, settle)
  OBVIOUS
<1>1. PICK adv \in SUBSET Movable : \E out :
          rob' = SubSeq(Moved(adv, out), z + 1, Len(rob)) \o NewEntries(z)
  BY <1>0 DEF Clock
<1>2. PICK out : rob' = SubSeq(Moved(adv, out), z + 1, Len(rob)) \o NewEntries(z)
  BY <1>1
<1>3. PICK M \in Seq(Entry) : M = Moved(adv, out)
  BY MovedFacts
<1>4. Len(M) = 1
  BY <1>3, MovedFacts
<1>5. PICK N \in Seq(Entry) : N = NewEntries(z)
  BY <1>0, NewFacts, SizeFacts
<1>6. rob' = SubSeq(M, z + 1, Len(M)) \o N /\ z \in 0 .. Len(M)
  BY <1>0, <1>2, <1>3, <1>4, <1>5
<1>7. /\ rob' \in Seq(Entry)
      /\ Len(rob') = Len(M) - z + Len(N)
      /\ \A k \in 1 .. Len(rob') : rob'[k] = IF k <= Len(M) - z THEN M[z + k] ELSE N[k - (Len(M) - z)]
  BY <1>6, QueueNext, SMTT(60)
<1>8. rob'[1] = M[1]
  BY <1>0, <1>4, <1>7
<1>9. 1 \notin adv
  BY DEF Movable, CanIssue, Done
<1>10. M[1] = [rob[1] EXCEPT !.out = FlushesDone]
  <2>1. M = [i \in 1 .. Len(rob) |->
                IF i \in adv
                THEN IF rob[i].at = "sched" THEN [rob[i] EXCEPT !.at = "exec"]
                     ELSE [rob[i] EXCEPT !.at = "done", !.out = i \in out]
                ELSE IF i = 1 /\ state = "CACHE_FLUSH" THEN [rob[i] EXCEPT !.out = FlushesDone]
                ELSE rob[i]]
    BY <1>3, Zenon DEF Moved
  <2>2. 1 \in 1 .. Len(rob)
    OBVIOUS
  <2>3. M[1] = IF 1 \in adv
                THEN IF rob[1].at = "sched" THEN [rob[1] EXCEPT !.at = "exec"]
                     ELSE [rob[1] EXCEPT !.at = "done", !.out = 1 \in out]
                ELSE IF 1 = 1 /\ state = "CACHE_FLUSH" THEN [rob[1] EXCEPT !.out = FlushesDone]
                ELSE rob[1]
    BY <2>1, <2>2, Zenon
  <2> QED
    BY <2>3, <1>9, Zenon
<1>11. PICK b \in BOOLEAN : b /\ M[1] = [rob[1] EXCEPT !.out = b]
  <2>1. FlushesDone \in BOOLEAN
    BY DEF FlushesDone
  <2> QED
    BY <1>10, <2>1, Zenon
<1>12. rob[1] \in Entry
  BY SizeFacts
<1> QED
  BY <1>8, <1>11, <1>12 DEF Entry

LEMMA RestartBehindKeeps ==
    ASSUME TypeOK, TypeOK', FlowInv, state \in {"WAIT_FOR_SERIALIZE_AND_RESTART", "CACHE_FLUSH"},
           Done(rob[1]), RestartBehind, FlushLineInv',
           n_got_restart_ack => Restarts, restart_ack' => l1i_state' = "ACTIVE",
           IF state = "CACHE_FLUSH" THEN rob'[1].out ELSE ~IsFlush(rob[1].op)
    PROVE  Keeps
<1>1. /\ LatchAck /\ restart_valid' = TRUE /\ restart_pc' = RestartPc(rob[1])
      /\ Clock(0, 0, 0, "dq", TRUE)
      /\ state' = IF n_got_restart_ack THEN "ACTIVE" ELSE state
  BY DEF RestartBehind, Goto, Restart
<1>2. Still /\ dq' = <<>> /\ ~dec_delay_slot' /\ ~in_delay_slot'
  BY <1>1, StillDq
<1>3. SerialHead /\ rob # <<>>
  <2>1. SerialHead
    BY DEF FlowInv, HeadInv
  <2> QED
    BY <2>1, SizeFacts DEF SerialHead
<1>4. /\ rob' # <<>> /\ rob'[1].op = rob[1].op /\ rob'[1].pc = rob[1].pc /\ rob'[1].slot = rob[1].slot
      /\ rob'[1].pc = want'.pc /\ (rob'[1].slot <=> want'.slot)
      /\ Done(rob'[1])
  BY <1>2, <1>3, StillHead DEF SerialHead
<1>5. SerialHead' /\ Len(rob') = 1
  BY <1>2, <1>3, <1>4 DEF SerialHead, Still, IsNext
<1>6. restart_pc' = RestartPc(rob[1])'
  <2>1. prog' = prog /\ last_branch_target' = last_branch_target /\ epc' = epc
    BY <1>2 DEF Still
  <2>2. ~IsBr(rob[1].op) /\ rob[1].op # "eret"
    BY <1>3 DEF SerialHead, Serializing, IsBr, Nullifying
  <2> QED
    BY <1>1, <1>4, <2>1, <2>2 DEF RestartPc, TargetPc
<1>a. IsFlush(rob'[1].op) => rob'[1].out \/ state = "WAIT_FOR_SERIALIZE_AND_RESTART"
  OBVIOUS
<1>7. CASE n_got_restart_ack
  <2>1. state' = "ACTIVE" /\ fq' = <<>> /\ PendingRestart'
    BY <1>1, <1>7 DEF Restarts, PendingRestart
  <2>2. RestartInv'
    BY <1>2, <2>1 DEF RestartInv
  <2>3. SlotMarks'
    <3>1. ~IsBr(rob'[1].op)
      BY <1>5 DEF SerialHead, Serializing, IsBr, Nullifying
    <3> QED
      BY <1>2, <1>4, <1>5, <3>1 DEF SlotMarks
  <2>4. RestartingInv'
    BY <1>2, <1>4, <1>5, <1>6, <1>a DEF RestartingInv
  <2>5. HeadInv'
    BY <2>1, <2>3, <2>4 DEF HeadInv, ActiveInv
  <2> QED
    BY <1>2, <2>2, <2>5, StillWant DEF Keeps, HandshakeInv, FlowInv
<1>8. CASE ~n_got_restart_ack
  <2>1. state' = state /\ ~got_restart_ack'
    BY <1>1, <1>8 DEF LatchAck
  <2>2. RestartInv'
    BY <1>1, <1>4, <1>6, <2>1 DEF RestartInv
  <2>3. HeadInv'
    BY <1>4, <1>5, <2>1 DEF HeadInv
  <2> QED
    BY <1>2, <2>2, <2>3, StillWant DEF Keeps, HandshakeInv, FlowInv
<1> QED
  BY <1>7, <1>8

LEMMA SerializeRestartsKeeps ==
    ASSUME TypeOK, TypeOK', FlowInv, L1ICycle(Acked), SerializeRestarts
    PROVE  Keeps
<1>1. /\ state = "WAIT_FOR_SERIALIZE_AND_RESTART" /\ Done(rob[1]) /\ ~IsFlush(rob[1].op)
      /\ RestartBehind /\ flush_line_req' = FALSE
  BY DEF SerializeRestarts, Quiet, NeedsFlush
<1>2. /\ restart_req \/ AckSeen => restart_valid
      /\ restart_ack => l1i_state = "ACTIVE"
      /\ ~got_restart_ack
  BY <1>1 DEF FlowInv, HandshakeInv, RestartInv
<1>3. state' \in {"ACTIVE", "WAIT_FOR_SERIALIZE_AND_RESTART"}
  BY <1>1 DEF RestartBehind, Goto
<1>4. FlushLineInv' /\ (Restarts \/ Defers(Acked) \/ GoesOn(Acked))
  BY <1>1, <1>3, NormalStep DEF FlowInv, HandshakeInv
<1>5. n_got_restart_ack => Restarts
  BY <1>2, <1>4 DEF n_got_restart_ack, AckSeen, Defers, GoesOn, n_restart_req
<1>6. restart_ack' => l1i_state' = "ACTIVE"
  BY <1>4 DEF Restarts, Defers, GoesOn
<1> QED
  BY <1>1, <1>4, <1>5, <1>6, RestartBehindKeeps

LEMMA FlushRestartsKeeps ==
    ASSUME TypeOK, TypeOK', FlowInv, L1ICycle(Acked), FlushRestarts
    PROVE  Keeps
<1>1. state = "CACHE_FLUSH" /\ FlushesDone /\ RestartBehind /\ flush_line_req' = FALSE /\ flushing' = {}
  BY DEF FlushRestarts
<1>2. /\ restart_req \/ AckSeen => restart_valid
      /\ restart_ack => l1i_state = "ACTIVE"
      /\ ~got_restart_ack
  BY <1>1 DEF FlowInv, HandshakeInv, RestartInv
<1>3. FlushLineInv /\ Done(rob[1]) /\ Len(rob) = 1
  BY <1>1 DEF FlowInv, HandshakeInv, HeadInv, SerialHead
<1>4. rob'[1].out
  <2>1. PICK s : Clock(0, 0, 0, "dq", s)
    BY <1>1, Zenon DEF RestartBehind
  <2> QED
    BY <1>1, <1>3, <2>1, FlushMarked
<1>5. ~n_fline_req /\ l1i_state # "FLUSH_CACHE"
  BY <1>1, <1>3 DEF FlushLineInv, FlushesDone, n_fline_req
<1>a. restart_valid' = TRUE /\ state' = IF n_got_restart_ack THEN "ACTIVE" ELSE "CACHE_FLUSH"
  BY <1>1 DEF RestartBehind, Restart, Goto
<1>b. got_restart_ack' <=> n_got_restart_ack
  BY <1>1 DEF RestartBehind, Goto, LatchAck
<1>6. CASE l1i_state # "IDLE"
  <2>1. ~fline_req' /\ ~fline_complete' /\ (Restarts \/ Defers(Acked) \/ GoesOn(Acked))
    BY <1>5, <1>6, L1INormal
  <2>2. l1i_state' \notin {"IDLE", "FLUSH_CACHE"}
    BY <2>1 DEF Restarts, Defers, GoesOn
  <2>3. FlushLineInv'
    BY <1>1, <2>1, <2>2 DEF FlushLineInv
  <2>4. n_got_restart_ack => Restarts
    BY <1>2, <2>1 DEF n_got_restart_ack, AckSeen, Defers, GoesOn, n_restart_req
  <2>5. restart_ack' => l1i_state' = "ACTIVE"
    BY <2>1 DEF Restarts, Defers, GoesOn
  <2> QED
    BY <1>1, <1>3, <1>4, <2>3, <2>4, <2>5, RestartBehindKeeps
<1>7. CASE l1i_state = "IDLE"
  <2>1. ~n_got_restart_ack
    BY <1>3, <1>7 DEF FlushLineInv, NoHandshake, AckSeen, n_got_restart_ack
  <2>2. IdleRestart \/ IdleWait(Acked)
    BY <1>7 DEF L1ICycle
  <2>3. CASE IdleRestart
    <3>1. l1i_state' = "ACTIVE" /\ ~fline_req' /\ ~fline_complete'
      BY <1>5, <2>3 DEF IdleRestart, RestartTo
    <3>2. FlushLineInv'
      BY <1>1, <3>1 DEF FlushLineInv
    <3> QED
      BY <1>1, <1>3, <1>4, <2>1, <3>1, <3>2, RestartBehindKeeps
  <2>4. CASE IdleWait(Acked)
    <3>1. l1i_state' = "IDLE" /\ ~fline_req' /\ ~fline_complete' /\ ~restart_ack'
      BY <1>5, <2>4 DEF IdleWait, Latched
    <3>2. ~AckSeen' /\ state' = "CACHE_FLUSH"
      BY <1>a, <1>b, <2>1, <3>1 DEF AckSeen
    <3>3. FlushLineInv'
      BY <1>1, <1>a, <3>1, <3>2 DEF FlushLineInv
    <3> QED
      BY <1>1, <1>3, <1>4, <2>1, <3>1, <3>3, RestartBehindKeeps
  <2> QED
    BY <2>2, <2>3, <2>4
<1> QED
  BY <1>6, <1>7

LEMMA StillSerial ==
    ASSUME TypeOK, TypeOK', SerialHead, Still
    PROVE  SerialHead' /\ (Done(rob[1]) => Done(rob'[1]))
<1>1. rob # <<>>
  BY SizeFacts DEF SerialHead
<1>2. /\ rob'[1].op = rob[1].op /\ rob'[1].pc = want'.pc /\ (rob'[1].slot <=> want'.slot)
      /\ Done(rob[1]) => Done(rob'[1])
  BY <1>1, StillHead DEF SerialHead
<1> QED
  BY <1>2 DEF SerialHead, Still, IsNext

LEMMA StartFlushKeeps ==
    ASSUME TypeOK, TypeOK', FlowInv, L1ICycle(Acked), StartFlush
    PROVE  Keeps
<1>1. /\ state = "WAIT_FOR_SERIALIZE_AND_RESTART" /\ Done(rob[1]) /\ IsFlush(rob[1].op)
      /\ state' = "CACHE_FLUSH" /\ LatchAck /\ NoRestart /\ Clock(0, 0, 0, "none", FALSE)
      /\ flush_line_req' => flushing' = {"i"}
  BY DEF StartFlush, NeedsFlush, Goto
<1>2. ~restart_valid /\ ~restart_req /\ ~AckSeen
  BY <1>1 DEF FlowInv, HandshakeInv, RestartInv
<1>3. ~n_fline_req /\ l1i_state \notin {"IDLE", "FLUSH_CACHE"}
  BY <1>1 DEF FlowInv, HandshakeInv, FlushLineInv, n_fline_req
<1>4. ~fline_req' /\ ~fline_complete' /\ (Restarts \/ Defers(Acked) \/ GoesOn(Acked))
  BY <1>3, L1INormal
<1>5. GoesOn(Acked)
  BY <1>2, <1>4 DEF Restarts, Defers, n_restart_req
<1>6. NoHandshake'
  BY <1>1, <1>2, <1>5 DEF NoHandshake, PendingRestart, AckSeen, GoesOn, LatchAck, n_got_restart_ack, NoRestart, Aim
<1>7. FlushLineInv'
  BY <1>1, <1>4, <1>5, <1>6 DEF FlushLineInv, GoesOn, NoHandshake
<1>8. RestartInv'
  BY <1>1, <1>6 DEF RestartInv, NoHandshake, PendingRestart, AckSeen
<1>9. Still
  BY <1>1, StillNone
<1>10. SerialHead' /\ Done(rob'[1])
  BY <1>1, <1>9, StillSerial DEF FlowInv, HeadInv
<1>11. HeadInv'
  BY <1>1, <1>10 DEF HeadInv
<1> QED
  BY <1>7, <1>8, <1>9, <1>11, StillWant DEF Keeps, HandshakeInv, FlowInv

LEMMA FlushWaitsKeeps ==
    ASSUME TypeOK, TypeOK', FlowInv, L1ICycle(Acked), FlushWaits
    PROVE  Keeps
<1>1. /\ state = "CACHE_FLUSH" /\ ~FlushesDone /\ state' = state /\ LatchAck /\ NoRestart
      /\ Clock(0, 0, 0, "none", FALSE) /\ flush_line_req' = FALSE
      /\ flushing' \in {flushing, flushing \ {"d"}}
  BY DEF FlushWaits, Goto
<1>0. FlushLineInv /\ RestartInv /\ SerialHead /\ Done(rob[1])
  BY <1>1 DEF FlowInv, HandshakeInv, HeadInv
<1>2. ~PendingRestart /\ ~AckSeen /\ ~fline_complete /\ l1i_state # "IDLE"
  <2>1. flushing # {} /\ (fline_complete => flushing # {"i"})
    BY <1>1 DEF FlushesDone
  <2>2. ~PendingRestart /\ ~fline_complete
    BY <1>0, <1>1, <2>1 DEF FlushLineInv
  <2> QED
    BY <1>0, <1>1, <2>1, <2>2 DEF FlushLineInv, RestartInv, PendingRestart
<1>3. ~n_restart_req
  BY <1>2 DEF n_restart_req, PendingRestart
<1>4. flushing = {"i"} => flushing' = {"i"}
  BY <1>1
<1>5. /\ ~restart_req' /\ ~restart_ack'
      /\ \/ n_fline_req /\ ~fline_complete' /\ (fline_req' => l1i_state' # "FLUSH_CACHE") /\ l1i_state' # "IDLE"
         \/ l1i_state = "FLUSH_CACHE" /\ ~fline_req' /\ l1i_state' = "IDLE"
         \/ ~fline_req' /\ ~fline_complete' /\ l1i_state' \notin {"IDLE", "FLUSH_CACHE"}
  <2>1. CASE l1i_state = "FLUSH_CACHE"
    <3>1. FlushLine(Acked)
      BY <2>1 DEF L1ICycle
    <3>2. ~n_fline_req
      BY <1>0, <2>1 DEF FlushLineInv, n_fline_req
    <3> QED
      BY <1>3, <2>1, <3>1, <3>2 DEF FlushLine
  <2>2. CASE l1i_state # "FLUSH_CACHE" /\ n_fline_req
    <3>1. Serves(Acked) \/ Held(Acked) \/ Fetches(Acked)
      BY L1ICases
    <3>2. CASE Serves(Acked)
      BY <1>2, <1>3, <2>2, <3>2 DEF Serves, TakeFlush, TakeRestart
    <3>3. CASE Held(Acked)
      BY <1>3, <2>2, <3>3 DEF Held, Latched
    <3>4. CASE Fetches(Acked)
      BY <2>2, <3>4 DEF Fetches, Lookup, FetchFault, Hit, Served
    <3> QED
      BY <3>1, <3>2, <3>3, <3>4
  <2>3. CASE l1i_state # "FLUSH_CACHE" /\ ~n_fline_req
    <3>1. ~fline_req' /\ ~fline_complete' /\ (Restarts \/ Defers(Acked) \/ GoesOn(Acked))
      BY <1>2, <2>3, L1INormal
    <3> QED
      BY <1>3, <3>1 DEF Restarts, Defers, GoesOn
  <2> QED
    BY <2>1, <2>2, <2>3
<1>6. NoHandshake'
  BY <1>1, <1>2, <1>5 DEF NoHandshake, PendingRestart, AckSeen, LatchAck, n_got_restart_ack, NoRestart, Aim
<1>7. FlushLineInv'
  <2>1. n_fline_req \/ l1i_state = "FLUSH_CACHE" => flushing' = {"i"}
    BY <1>0, <1>4 DEF FlushLineInv, n_fline_req
  <2>2. l1i_state = "FLUSH_CACHE" => fline_complete'
    BY <1>1 DEF L1ICycle, FlushLine
  <2> QED
    BY <1>1, <1>5, <1>6, <2>1, <2>2 DEF FlushLineInv, NoHandshake
<1>8. RestartInv'
  BY <1>1, <1>6 DEF RestartInv, NoHandshake, PendingRestart, AckSeen
<1>9. Still
  BY <1>1, StillNone
<1>10. SerialHead' /\ Done(rob'[1])
  BY <1>0, <1>9, StillSerial
<1>11. HeadInv'
  BY <1>1, <1>10 DEF HeadInv
<1> QED
  BY <1>7, <1>8, <1>9, <1>11, StillWant DEF Keeps, HandshakeInv, FlowInv

\* The ROB is emptied.
LEMMA RobCleared ==
    ASSUME NEW settle, Clock(0, 0, 0, "rob", settle), state # "WRITE_EPC"
    PROVE  /\ prog' = prog /\ want' = want /\ last_branch_target' = last_branch_target
           /\ rob' = <<>> /\ dq' = <<>> /\ ~dec_delay_slot' /\ ~in_delay_slot'
<1>1. PICK z \in 0 .. 2, clr \in {"none", "rob"} : z = 0 /\ clr = "rob" /\ Clock(z, z, z, clr, settle)
  OBVIOUS
<1>2. prog' = prog /\ want' = want /\ last_branch_target' = last_branch_target /\ rob' = <<>> /\ dq' = <<>>
  BY <1>1, ClockRest
<1>3. in_delay_slot' = IF z > 0 THEN IsBr(dq[z].op) ELSE clr = "none" /\ in_delay_slot
  BY <1>1, ClockRest, Zenon
<1>4. dec_delay_slot' = (clr = "none" /\ n_dec_delay_slot)
  BY <1>1, ClockRest, Zenon
<1>5. in_delay_slot' = (clr = "none" /\ in_delay_slot)
  BY <1>1, <1>3
<1> QED
  BY <1>1, <1>2, <1>4, <1>5

LEMMA RatWaitsKeeps ==
    ASSUME TypeOK, TypeOK', FlowInv, L1ICycle(Acked), RatWaits
    PROVE  Keeps
<1>1. /\ state = "RAT" /\ ~n_got_restart_ack /\ state' = "RAT" /\ LatchAck /\ NoRestart
      /\ Clock(0, 0, 0, "rob", FALSE) /\ flush_line_req' = FALSE /\ ds_done' = ds_done
  BY DEF RatWaits, Goto, Quiet
<1>2. prog' = prog /\ want' = want /\ last_branch_target' = last_branch_target
  BY <1>1, RobCleared
<1>3. FlushLineInv' /\ (Restarts \/ Defers(Acked) \/ GoesOn(Acked))
  BY <1>1, NormalStep DEF FlowInv, HandshakeInv
<1>4. want = Begin(restart_pc) /\ FetchInv /\ ds_done /\ OpInv
  BY <1>1 DEF FlowInv, HeadInv
<1>5. restart_pc' = restart_pc /\ restart_valid' = FALSE /\ ~got_restart_ack'
  BY <1>1 DEF NoRestart, Aim, LatchAck
<1>6. FetchInv'
  BY <1>1, <1>2, <1>3, <1>4, <1>5, FetchInvStep
<1>7. HeadInv'
  BY <1>1, <1>2, <1>4, <1>5, <1>6 DEF HeadInv, Begin
<1>8. RestartInv'
  BY <1>1, <1>3, <1>5 DEF RestartInv, AckSeen, Restarts, Defers, GoesOn
<1> QED
  BY <1>2, <1>3, <1>7, <1>8 DEF Keeps, HandshakeInv, FlowInv, WantInv, Sound

LEMMA RatEndsKeeps ==
    ASSUME TypeOK, TypeOK', FlowInv, L1ICycle(Acked), RatEnds
    PROVE  Keeps
<1>1. /\ state = "RAT" /\ n_got_restart_ack /\ state' = "ACTIVE" /\ NoRestart
      /\ Clock(0, 0, 0, "rob", TRUE) /\ flush_line_req' = FALSE
  BY DEF RatEnds, Goto
<1>2. /\ prog' = prog /\ want' = want /\ last_branch_target' = last_branch_target
      /\ rob' = <<>> /\ dq' = <<>>
  BY <1>1, RobCleared
<1>a. ~dec_delay_slot' /\ ~in_delay_slot'
  BY <1>1, RobCleared
<1>3. FlushLineInv' /\ (Restarts \/ Defers(Acked) \/ GoesOn(Acked))
  BY <1>1, NormalStep DEF FlowInv, HandshakeInv
<1>4. want = Begin(restart_pc) /\ FetchInv /\ OpInv
  BY <1>1 DEF FlowInv, HeadInv
<1>5. restart_pc' = restart_pc /\ restart_valid' = FALSE
  BY <1>1 DEF NoRestart, Aim
<1>6. FetchInv'
  BY <1>1, <1>2, <1>3, <1>4, <1>5, FetchInvStep
<1>7. RestartInv'
  <2>1. ~restart_valid /\ (AckSeen /\ restart_req => fq = <<>>) /\ AckSeen
    BY <1>1 DEF FlowInv, HandshakeInv, RestartInv, AckSeen, n_got_restart_ack
  <2>2. fq = <<>> => Popped(Acked) = <<>>
    BY <1>1 DEF Popped, Acked
  <2>3. restart_req' => fq' = <<>>
    BY <1>3, <2>1, <2>2 DEF Restarts, Defers, GoesOn, n_restart_req
  <2> QED
    BY <1>1, <1>2, <1>5, <2>3 DEF RestartInv, PendingRestart
<1>8. want'.pc = restart_pc' /\ ~want'.slot /\ want' = Begin(restart_pc)'
  BY <1>2, <1>4, <1>5 DEF Begin
<1>9. SlotMarks'
  BY <1>2, <1>8, <1>a DEF SlotMarks
<1>10. CASE PendingRestart'
  <2>1. RestartingInv'
    BY <1>2, <1>8, <1>a DEF RestartingInv
  <2>2. HeadInv'
    BY <1>1, <1>9, <1>10, <2>1 DEF HeadInv, ActiveInv
  <2> QED
    BY <1>2, <1>3, <1>7, <2>2 DEF Keeps, HandshakeInv, FlowInv, WantInv, Sound
<1>11. CASE ~PendingRestart'
  <2>0. Len(rob') = 0 /\ Len(dq') = 0 /\ Len(fq') \in Nat
    BY <1>2, NextSizes
  <2>1. StreamLen' = Len(fq')
    BY <2>0 DEF StreamLen
  <2>2. Stream' = FetchStream'
    BY <2>0, <2>1 DEF Stream, FetchStream
  <2>3. Path(prog', want', StreamLen', Stream', cache_pc', pc', delay_slot')
    BY <1>6, <1>8, <1>11, <2>1, <2>2, Zenon DEF FetchInv
  <2>4. StreamInv'
    <3>1. ~InSlot(want', Stream', 0 + 0 + 1)
      BY <1>8 DEF InSlot
    <3> QED
      BY <2>0, <2>3, <3>1, <1>a DEF StreamInv
  <2>5. HeadInv'
    BY <1>1, <1>9, <1>11, <2>4 DEF HeadInv, ActiveInv
  <2> QED
    BY <1>2, <1>3, <1>7, <2>5 DEF Keeps, HandshakeInv, FlowInv, WantInv, Sound
<1> QED
  BY <1>10, <1>11

-----------------------------------------------------------------------------
(* The front of the stream.                                                 *)

LEMMA PathFirst ==
    ASSUME NEW p, NEW w, NEW n \in Nat \ {0}, NEW s, NEW c, NEW nx, NEW ds, Path(p, w, n, s, c, nx, ds)
    PROVE  s[1].pc = w.pc /\ (w.slot => ~IsBr(s[1].op) /\ s[1].op \notin {"irq", "xflush"})
<1>1. Live(s, 1) /\ 1 \in 1 .. n
  BY LiveFirst
<1>2. s[1].pc = PcOf(p, w, s, 1) /\ (InSlot(w, s, 1) => ~IsBr(s[1].op) /\ s[1].op \notin {"irq", "xflush"})
  BY <1>1 DEF Path
<1> QED
  BY <1>2 DEF PcOf, InSlot

LEMMA PathSecond ==
    ASSUME NEW p, NEW w, NEW n \in Nat, n >= 2, NEW s, NEW c, NEW nx, NEW ds, Path(p, w, n, s, c, nx, ds),
           ~Ends(s[1].op)
    PROVE  s[2].pc = w.npc /\ (IsBr(s[1].op) => ~IsBr(s[2].op) /\ s[2].op \notin {"irq", "xflush"})
<1>1. Live(s, 2) /\ 2 \in 1 .. n
  BY DEF Live
<1>2. s[2].pc = PcOf(p, w, s, 2) /\ (InSlot(w, s, 2) => ~IsBr(s[2].op) /\ s[2].op \notin {"irq", "xflush"})
  BY <1>1 DEF Path
<1> QED
  BY <1>2 DEF PcOf, InSlot, After

LEMMA StreamFacts ==
    ASSUME TypeOK
    PROVE  /\ StreamLen \in Nat /\ StreamLen = Len(rob) + Len(dq) + Len(fq)
           /\ \A k \in 1 .. StreamLen :
                 /\ k <= Len(rob) => /\ Stream[k].pc = rob[k].pc /\ Stream[k].op = rob[k].op
                                     /\ Stream[k].pred = rob[k].pred
                 /\ Len(rob) < k /\ k <= Len(rob) + Len(dq) => Stream[k] = dq[k - Len(rob)]
                 /\ Len(rob) + Len(dq) < k => Stream[k] = OfFetched(prog, fq[k - Len(rob) - Len(dq)])
<1>1. Len(rob) \in Nat /\ Len(dq) \in Nat /\ Len(fq) \in Nat
  BY SizeFacts
<1>2. StreamLen \in Nat /\ StreamLen = Len(rob) + Len(dq) + Len(fq)
  BY <1>1 DEF StreamLen
<1>3. ASSUME NEW k \in 1 .. StreamLen
      PROVE  Stream[k] = IF k <= Len(rob) THEN OfEntry(rob[k])
                         ELSE IF k <= Len(rob) + Len(dq) THEN dq[k - Len(rob)]
                         ELSE OfFetched(prog, fq[k - Len(rob) - Len(dq)])
  BY DEF Stream
<1>4. \A k : OfEntry(rob[k]).pc = rob[k].pc /\ OfEntry(rob[k]).op = rob[k].op /\ OfEntry(rob[k]).pred = rob[k].pred
  BY DEF OfEntry
<1> QED
  BY <1>1, <1>2, <1>3, <1>4

\* In ACTIVE, with no restart to come, the head is where the reference machine is.
LEMMA ActiveHead ==
    ASSUME TypeOK, FlowInv, state = "ACTIVE", ~PendingRestart
    PROVE  /\ SlotMarks /\ StreamInv
           /\ rob # <<>> => /\ IsNext(rob[1])
                            /\ want.slot => ~IsBr(rob[1].op) /\ rob[1].op \notin {"irq", "xflush"}
                            /\ ~Serializing(rob[1].op)
           /\ rob = <<>> /\ dq # <<>> => /\ dq[1].pc = want.pc /\ (in_delay_slot <=> want.slot)
                                         /\ want.slot => dq[1].op # "xflush"
           /\ Len(rob) >= 2 /\ ~Ends(rob[1].op) =>
                 /\ rob[2].pc = want.npc /\ (rob[2].slot <=> IsBr(rob[1].op))
                 /\ IsBr(rob[1].op) => ~IsBr(rob[2].op) /\ rob[2].op \notin {"irq", "xflush"}
           /\ Len(rob) = 1 /\ dq # <<>> /\ ~Ends(rob[1].op) =>
                 /\ dq[1].pc = want.npc /\ (in_delay_slot <=> IsBr(rob[1].op))
                 /\ IsBr(rob[1].op) => dq[1].op # "xflush"
<1>1. SlotMarks /\ StreamInv
  BY DEF FlowInv, HeadInv, ActiveInv
<1>2. Path(prog, want, StreamLen, Stream, cache_pc, pc, delay_slot)
  BY <1>1 DEF StreamInv
<1>0. /\ Len(rob) \in Nat /\ Len(dq) \in Nat /\ Len(fq) \in Nat /\ (rob # <<>> <=> Len(rob) >= 1)
      /\ (dq # <<>> <=> Len(dq) >= 1) /\ StreamLen \in Nat /\ StreamLen = Len(rob) + Len(dq) + Len(fq)
  BY SizeFacts, StreamFacts
<1>a. ASSUME StreamLen >= 1
      PROVE  Stream[1].pc = want.pc /\ (want.slot => ~IsBr(Stream[1].op) /\ Stream[1].op \notin {"irq", "xflush"})
  BY <1>0, <1>2, <1>a, PathFirst
<1>b. ASSUME StreamLen >= 2, ~Ends(Stream[1].op)
      PROVE  /\ Stream[2].pc = want.npc
             /\ IsBr(Stream[1].op) => ~IsBr(Stream[2].op) /\ Stream[2].op \notin {"irq", "xflush"}
  BY <1>0, <1>2, <1>b, PathSecond
<1>3. ASSUME rob # <<>>
      PROVE  /\ IsNext(rob[1])
             /\ want.slot => ~IsBr(rob[1].op) /\ rob[1].op \notin {"irq", "xflush"}
             /\ ~Serializing(rob[1].op)
  <2>1. Stream[1].pc = rob[1].pc /\ Stream[1].op = rob[1].op /\ StreamLen >= 1
    BY <1>0, <1>3, StreamFacts
  <2>2. rob[1].slot <=> want.slot
    BY <1>0, <1>1, <1>3 DEF SlotMarks
  <2>3. ~Serializing(rob[1].op)
    BY <1>0, <1>1, <1>3 DEF StreamInv
  <2> QED
    BY <1>a, <2>1, <2>2, <2>3 DEF IsNext
<1>4. ASSUME rob = <<>>, dq # <<>>
      PROVE  /\ dq[1].pc = want.pc /\ (in_delay_slot <=> want.slot)
             /\ want.slot => dq[1].op # "xflush"
  <2>1. Len(rob) = 0 /\ Len(dq) >= 1
    BY <1>0, <1>4
  <2>2. Stream[1] = dq[1] /\ StreamLen >= 1
    BY <1>0, <2>1, StreamFacts
  <2> QED
    BY <1>1, <1>a, <1>4, <2>2 DEF SlotMarks
<1>5. ASSUME Len(rob) >= 2, ~Ends(rob[1].op)
      PROVE  /\ rob[2].pc = want.npc /\ (rob[2].slot <=> IsBr(rob[1].op))
             /\ IsBr(rob[1].op) => ~IsBr(rob[2].op) /\ rob[2].op \notin {"irq", "xflush"}
  <2>1. /\ Stream[1].op = rob[1].op /\ StreamLen >= 2
        /\ Stream[2].pc = rob[2].pc /\ Stream[2].op = rob[2].op
    BY <1>0, <1>5, StreamFacts
  <2>2. rob[2].slot <=> IsBr(rob[1].op)
    BY <1>0, <1>1, <1>5 DEF SlotMarks
  <2> QED
    BY <1>b, <1>5, <2>1, <2>2
<1>6. ASSUME Len(rob) = 1, dq # <<>>, ~Ends(rob[1].op)
      PROVE  /\ dq[1].pc = want.npc /\ (in_delay_slot <=> IsBr(rob[1].op))
             /\ IsBr(rob[1].op) => dq[1].op # "xflush"
  <2>1. Stream[1].op = rob[1].op /\ StreamLen >= 2 /\ Stream[2] = dq[1]
    BY <1>0, <1>6, StreamFacts
  <2>2. in_delay_slot <=> IsBr(rob[1].op)
    BY <1>0, <1>1, <1>6 DEF SlotMarks
  <2> QED
    BY <1>b, <1>6, <2>1, <2>2
<1> QED
  BY <1>1, <1>3, <1>4, <1>5, <1>6

\* The fetch FSM goes on when no restart is asked for.
LEMMA ActiveGoesOn ==
    ASSUME TypeOK, FlowInv, L1ICycle(Acked), state = "ACTIVE", ~PendingRestart, LatchAck,
           flush_line_req' = FALSE, state' # "CACHE_FLUSH"
    PROVE  FlushLineInv' /\ GoesOn(Acked) /\ ~restart_req' /\ ~restart_ack' /\ ~got_restart_ack'
<1>1. FlushLineInv' /\ (Restarts \/ Defers(Acked) \/ GoesOn(Acked))
  BY NormalStep DEF FlowInv, HandshakeInv
<1>2. GoesOn(Acked)
  BY <1>1 DEF Restarts, Defers, n_restart_req, PendingRestart
<1>3. ~got_restart_ack'
  BY DEF LatchAck
<1> QED
  BY <1>1, <1>2, <1>3 DEF GoesOn

LEMMA EnterSerializeInSlotKeeps ==
    ASSUME TypeOK, TypeOK', FlowInv, L1ICycle(Acked), EnterSerializeInSlot
    PROVE  Keeps
<1>1. /\ state = "ACTIVE" /\ SerializingSlot /\ state' = "SERIALIZE_IN_FAULTED_DELAY_SLOT"
      /\ LatchAck /\ NoRestart /\ flush_line_req' = FALSE /\ Clock(0, 0, 0, "none", FALSE)
  BY DEF EnterSerializeInSlot, Goto, Quiet
<1>2. /\ Len(rob) = 1 /\ rob # <<>> /\ Faulted(rob[1]) /\ Done(rob[1]) /\ IsBr(rob[1].op) /\ ~Ends(rob[1].op)
      /\ dq # <<>> /\ Serializing(dq[1].op)
  BY <1>1, SizeFacts DEF SerializingSlot, Faulted, Ends, IsBr, Nullifying, Serializing
<1>3. ~PendingRestart
  BY <1>1, <1>2 DEF FlowInv, HandshakeInv, RestartInv
<1>4. /\ FlushLineInv' /\ ~restart_req' /\ ~restart_ack' /\ ~got_restart_ack'
  BY <1>1, <1>3, ActiveGoesOn
<1>5. RestartInv'
  BY <1>1, <1>4 DEF RestartInv, NoHandshake, PendingRestart, AckSeen, NoRestart, Aim
<1>6. /\ IsNext(rob[1]) /\ ~want.slot /\ dq[1].pc = want.npc /\ in_delay_slot /\ dq[1].op # "xflush"
  BY <1>1, <1>2, <1>3, ActiveHead
<1>7. Still /\ (in_delay_slot' <=> in_delay_slot) /\ dq' # <<>> /\ dq'[1] = dq[1]
  BY <1>1, <1>2, StillNone
<1>8. rob' # <<>> /\ rob'[1] = rob[1] /\ Len(rob') = 1 /\ want' = want
  BY <1>1, <1>2, <1>7, StillHead DEF Still
<1>9. HeadInv'
  BY <1>1, <1>2, <1>6, <1>7, <1>8 DEF HeadInv, BranchHead, IsNext, SerialSlot
<1> QED
  BY <1>4, <1>5, <1>7, <1>9, StillWant DEF Keeps, HandshakeInv, FlowInv

LEMMA EnterSerializeKeeps ==
    ASSUME TypeOK, TypeOK', FlowInv, L1ICycle(Acked), EnterSerialize
    PROVE  Keeps
<1>1. /\ state = "ACTIVE" /\ SerializeAtHead /\ state' = "ALLOC_FOR_SERIALIZE"
      /\ LatchAck /\ NoRestart /\ flush_line_req' = FALSE /\ Clock(0, 0, 0, "none", FALSE)
  BY DEF EnterSerialize, Goto, Quiet
<1>2. dq # <<>> /\ Serializing(dq[1].op) /\ rob = <<>>
  BY <1>1 DEF SerializeAtHead
<1>3. ~PendingRestart
  BY <1>1, <1>2 DEF FlowInv, HandshakeInv, RestartInv
<1>4. /\ FlushLineInv' /\ ~restart_req' /\ ~restart_ack' /\ ~got_restart_ack'
  BY <1>1, <1>3, ActiveGoesOn
<1>5. RestartInv'
  BY <1>1, <1>4 DEF RestartInv, NoHandshake, PendingRestart, AckSeen, NoRestart, Aim
<1>6. /\ dq[1].pc = want.pc /\ (in_delay_slot <=> want.slot) /\ (want.slot => dq[1].op # "xflush")
  BY <1>1, <1>2, <1>3, ActiveHead
<1>7. Still /\ (in_delay_slot' <=> in_delay_slot) /\ dq' # <<>> /\ dq'[1] = dq[1]
  BY <1>1, <1>2, StillNone
<1>8. rob' = <<>> /\ want' = want
  BY <1>2, <1>7, NextSizes DEF Still
<1>9. HeadInv'
  BY <1>1, <1>2, <1>6, <1>7, <1>8 DEF HeadInv
<1> QED
  BY <1>4, <1>5, <1>7, <1>9, StillWant DEF Keeps, HandshakeInv, FlowInv

\* An instruction that restarts fetch is not a serializing one.
LEMMA FaultedActive ==
    ASSUME TypeOK, FlowInv, state = "ACTIVE", rob # <<>>, Faulted(rob[1])
    PROVE  ~PendingRestart
<1>1. ~Serializing(rob[1].op)
  BY DEF Faulted, Serializing, Nullifying
<1> QED
  BY <1>1 DEF FlowInv, HeadInv, ActiveInv, RestartingInv, SerialHead

LEMMA EnterArchFaultKeeps ==
    ASSUME TypeOK, TypeOK', FlowInv, L1ICycle(Acked), EnterArchFault
    PROVE  Keeps
<1>1. /\ state = "ACTIVE" /\ rob # <<>> /\ ArchFault(rob[1]) /\ state' = "ARCH_FAULT" /\ restart_valid' = FALSE
      /\ LatchAck /\ flush_line_req' = FALSE /\ Clock(0, 0, 0, "none", FALSE)
  BY DEF EnterArchFault, Goto, Quiet, CanRetire, Aim
<1>2. Faulted(rob[1]) /\ Done(rob[1])
  BY <1>1 DEF ArchFault, Faulted
<1>3. ~PendingRestart
  BY <1>1, <1>2, FaultedActive
<1>4. /\ FlushLineInv' /\ ~restart_req' /\ ~restart_ack' /\ ~got_restart_ack'
  BY <1>1, <1>3, ActiveGoesOn
<1>5. RestartInv'
  BY <1>1, <1>4 DEF RestartInv
<1>6. IsNext(rob[1])
  BY <1>1, <1>3, ActiveHead
<1>7. Still
  BY <1>1, StillNone
<1>8. rob' # <<>> /\ rob'[1] = rob[1] /\ want' = want
  BY <1>1, <1>2, <1>7, StillHead DEF Still
<1>9. HeadInv'
  BY <1>1, <1>6, <1>8 DEF HeadInv, IsNext
<1> QED
  BY <1>4, <1>5, <1>7, <1>9, StillWant DEF Keeps, HandshakeInv, FlowInv

\* A branch is followed by its slot: where the reference machine is behind it.
LEMMA BranchStep ==
    ASSUME TypeOK, Sound(prog, want), ~want.slot, NEW e \in Entry, e.pc = want.pc, IsBr(e.op), Right(prog, e),
           e.out \/ e.op = "br"
    PROVE  /\ Step(want, e) = [pc |-> want.npc, npc |-> TargetPc(e), slot |-> TRUE]
           /\ Sound(prog, Step(want, e)) /\ IsBr(prog[want.pc].op) /\ prog[want.pc].op = e.op
           /\ want.npc = Succ(want.pc) /\ want.pc \in Pc
<1>1. want.npc = Succ(want.pc) /\ want.pc \in Pc
  BY DEF Sound, TypeOK, Reference
<1>2. prog[want.pc].op = e.op /\ e.op # "xflush" /\ e.op # "eret"
  BY DEF Right, IsBr, Nullifying
<1>3. Step(want, e) = [pc |-> want.npc, npc |-> TargetPc(e), slot |-> TRUE]
  BY <1>1, <1>2 DEF Step, TargetPc, IsBr, Nullifying
<1>4. Sound(prog, Step(want, e))
  BY <1>1, <1>2, <1>3 DEF Sound
<1> QED
  BY <1>1, <1>2, <1>3, <1>4

LEMMA RetireMispredictKeeps ==
    ASSUME LikelySlotsSafe, TypeOK, TypeOK', FlowInv, L1ICycle(Acked), RetireMispredict
    PROVE  Keeps
<1>1. /\ state = "ACTIVE" /\ CanRetire /\ rob # <<>> /\ Faulted(rob[1]) /\ ~ArchFault(rob[1]) /\ state' = "DRAIN"
      /\ restart_valid' = TRUE /\ restart_pc' = RestartPc(rob[1]) /\ drain' = SlotOf(rob[1])
      /\ LatchAck /\ flush_line_req' = FALSE /\ Clock(1, 1, 0, "none", FALSE)
      /\ ds_done' <=> ~IsBr(rob[1].op)
  BY DEF RetireMispredict, Goto, Quiet, CanRetire, Restart
<1>2. Done(rob[1]) /\ rob[1] \in Entry /\ Right(prog, rob[1]) /\ (rob[1].op = "likely" => rob[1].pred)
  BY <1>1, SizeFacts DEF Faulted, FlowInv, OpInv
<1>3. ~PendingRestart
  BY <1>1, <1>2, FaultedActive
<1>4. /\ FlushLineInv' /\ ~restart_req' /\ ~restart_ack' /\ ~got_restart_ack'
  BY <1>1, <1>3, ActiveGoesOn
<1>5. RestartInv'
  BY <1>1, <1>4 DEF RestartInv, AckSeen
<1>6. /\ IsNext(rob[1])
      /\ want.slot => ~IsBr(rob[1].op) /\ rob[1].op \notin {"irq", "xflush"}
  BY <1>1, <1>3, ActiveHead
<1>7. /\ prog' = prog /\ want' = Step(want, rob[1])
      /\ last_branch_target' = IF IsBr(rob[1].op) THEN TargetPc(rob[1]) ELSE last_branch_target
      /\ Len(rob') = Len(rob) - 1 /\ \A k \in 1 .. Len(rob) - 1 : Kept(rob[k + 1], rob'[k])
  BY <1>1, OneRetires
<1>8. FetchInv'
  BY <1>1 DEF FetchInv, PendingRestart
<1>9. Sound(prog, want) /\ (want.slot => last_branch_target = want.npc)
  BY DEF FlowInv, WantInv
<1>10. rob[1].op = "eret" \/ rob[1].op = "of" \/ IsBr(rob[1].op)
  BY <1>1 DEF ArchFault, Faulted, IsBr
<1>a. ASSUME want' = Begin(restart_pc'), ds_done' \/ (drain'.nullify /\ ~drain'.taken), ~drain'.slot => ds_done'
      PROVE  Keeps
  <2>1. WantInv'
    BY <1>a DEF WantInv, Sound, Begin
  <2>2. DrainInv'
    BY <1>a DEF DrainInv, Begin
  <2> QED
    BY <1>1, <1>4, <1>5, <1>8, <2>1, <2>2 DEF Keeps, HandshakeInv, HeadInv
<1>11. CASE rob[1].op = "eret"
  <2>1. ~want.slot
    BY <1>2, <1>6, <1>9, <1>11, SlotOp DEF IsNext
  <2>2. want' = Begin(restart_pc') /\ ~IsBr(rob[1].op)
    BY <1>1, <1>6, <1>7, <1>11, <2>1 DEF Step, RestartPc, TargetPc, IsNext, IsBr, Nullifying
  <2> QED
    BY <1>a, <1>1, <2>2
<1>12. CASE rob[1].op = "of"
  <2>1. restart_pc' = want.npc
    BY <1>1, <1>6, <1>9, <1>12 DEF RestartPc, TargetPc, IsNext, IsBr, Nullifying, Sound
  <2>2. want' = Begin(restart_pc') /\ ~IsBr(rob[1].op)
    BY <1>7, <1>12, <2>1 DEF Step, IsBr, Nullifying
  <2> QED
    BY <1>a, <1>1, <2>2
<1>13. CASE IsBr(rob[1].op)
  <2>1. ~want.slot /\ rob[1].slot = FALSE /\ rob[1].op # "xflush"
    BY <1>2, <1>6, <1>13 DEF IsNext, IsBr, Nullifying, Entry
  <2>2. restart_pc' = TargetPc(rob[1]) /\ last_branch_target' = TargetPc(rob[1])
    BY <1>1, <1>7, <1>13, <2>1 DEF RestartPc
  <2>3. drain'.slot /\ (drain'.nullify <=> Nullifying(rob[1].op)) /\ (drain'.taken <=> rob[1].out)
    BY <1>1, <1>13 DEF SlotOf
  <2>4. Len(rob) >= 2 /\ Len(rob) \in Nat
    BY <1>1, <1>13, SizeFacts DEF CanRetire, SlotReady, IsBr
  <2>5. CASE Nullifying(rob[1].op) /\ ~rob[1].out
    <3>1. want.npc = Succ(want.pc)
      BY <1>9, <2>1 DEF Sound
    <3>2. want' = Begin(restart_pc')
      BY <1>6, <1>7, <2>2, <2>5, <3>1 DEF Step, TargetPc, IsNext, IsBr, Nullifying
    <3> QED
      BY <1>a, <2>3, <2>5, <3>2
  <2>6. CASE rob[1].out \/ rob[1].op = "br"
    <3>1. /\ want' = [pc |-> want.npc, npc |-> TargetPc(rob[1]), slot |-> TRUE]
          /\ Sound(prog, want') /\ prog[want.pc].op = rob[1].op
          /\ want.npc = Succ(want.pc) /\ want.pc \in Pc
      BY <1>2, <1>6, <1>7, <1>9, <1>13, <2>1, <2>6, BranchStep DEF IsNext
    <3>2. WantInv'
      BY <1>7, <2>2, <3>1 DEF WantInv
    <3>3. ~Ends(rob[1].op)
      BY <1>13 DEF Ends, IsBr, Nullifying, Serializing
    <3>4. /\ rob[2].pc = want.npc /\ (rob[2].slot <=> IsBr(rob[1].op))
          /\ ~IsBr(rob[2].op) /\ rob[2].op \notin {"irq", "xflush"}
      BY <1>1, <1>3, <1>13, <2>4, <3>3, ActiveHead
    <3>5. Kept(rob[2], rob'[1]) /\ rob' # <<>>
      <4>1. 1 \in 1 .. Len(rob) - 1 /\ 1 + 1 = 2 /\ Len(rob') >= 1
        BY <1>7, <2>4
      <4> QED
        BY <1>7, <4>1, NextSizes
    <3>6. rob'[1].pc = want'.pc /\ (rob'[1].slot <=> want'.slot) /\ rob'[1].op = rob[2].op
      BY <1>13, <3>1, <3>4, <3>5, KeptFacts
    <3>7. IF drain'.nullify
          THEN rob'[1].op \notin {"mem", "trap", "sys", "irq", "ftlb"}
          ELSE Done(rob'[1]) /\ restart_valid'
      <4>1. CASE Nullifying(rob[1].op)
        <5>1. rob[1].op = "linklikely"
          BY <1>1, <1>2, <2>6, <4>1 DEF Faulted, Nullifying
        <5>2. prog[want.npc].op \notin {"mem", "trap", "sys"} /\ want.npc \notin Mapped
          BY <3>1, <5>1 DEF LikelySlotsSafe, TypeOK
        <5>3. Right(prog, rob[2])
          BY <2>4 DEF FlowInv, OpInv
        <5>4. rob[2].op \notin {"mem", "trap", "sys", "irq", "ftlb"}
          <6>1. prog[want.npc].op \in Op
            BY ProgType DEF TypeOK, Reference
          <6> QED
            BY <3>4, <5>2, <5>3, <6>1 DEF Right, Op
        <5> QED
          BY <2>3, <3>6, <4>1, <5>4
      <4>2. CASE ~Nullifying(rob[1].op)
        <5>1. Done(rob[2])
          BY <1>1, <1>13, <4>2 DEF CanRetire, SlotReady, IsBr, Nullifying
        <5> QED
          BY <1>1, <2>3, <3>5, <4>2, <5>1, KeptFacts
      <4> QED
        BY <4>1, <4>2
    <3>8. DrainInv'
      <4>1. ~ds_done' /\ ~(drain'.nullify /\ ~drain'.taken)
        BY <1>1, <1>13, <2>3, <2>6 DEF Nullifying
      <4>2. want'.slot /\ want'.npc = restart_pc' /\ rob'[1].op # "xflush"
        BY <2>2, <3>1, <3>4, <3>6
      <4> QED
        BY <2>3, <3>5, <3>6, <3>7, <4>1, <4>2 DEF DrainInv, IsNext
    <3> QED
      BY <1>1, <1>4, <1>5, <1>8, <3>2, <3>8 DEF Keeps, HandshakeInv, HeadInv
  <2> QED
    BY <1>13, <2>5, <2>6 DEF IsBr
<1> QED
  BY <1>10, <1>11, <1>12, <1>13

LEMMA WaitSlotSerializeKeeps ==
    ASSUME TypeOK, TypeOK', FlowInv, L1ICycle(Acked), WaitSlotSerialize
    PROVE  Keeps
<1>1. /\ state = "WAIT_FOR_SERIALIZE_IN_FAULTED_DELAY_SLOT" /\ LatchAck /\ NoRestart /\ flush_line_req' = FALSE
      /\ state' = IF Done(rob[2]) THEN "ACTIVE" ELSE state
  BY DEF WaitSlotSerialize, Goto, Quiet
<1>2. /\ BranchHead /\ Len(rob) = 2 /\ SerialSlot(rob[2]) /\ rob[2].slot /\ ~in_delay_slot
      /\ Done(rob[1]) /\ rob # <<>>
  BY <1>1 DEF FlowInv, HeadInv, BranchHead, Faulted
<1>3. Still /\ (in_delay_slot' <=> in_delay_slot)
  <2>1. PICK s : Clock(0, 0, 0, "none", s)
    BY Zenon DEF WaitSlotSerialize
  <2> QED
    BY <1>1, <2>1, StillNone
<1>4. FlushLineInv' /\ NoHandshake'
  BY <1>1, NoHandshakeStep DEF FlowInv, HandshakeInv, RestartInv
<1>5. RestartInv'
  BY <1>1, <1>4 DEF RestartInv, NoHandshake
<1>6. rob'[1] = rob[1] /\ rob' # <<>> /\ Len(rob') = 2 /\ want' = want /\ prog' = prog
  BY <1>1, <1>2, <1>3, StillHead DEF Still
<1>7. /\ Kept(rob[2], rob'[2]) /\ rob'[2].pc = rob[2].pc /\ rob'[2].op = rob[2].op /\ rob'[2].slot = rob[2].slot
      /\ Done(rob[2]) => Done(rob'[2])
  <2>1. Kept(rob[2], rob'[2])
    BY <1>2, <1>3 DEF Still
  <2> QED
    BY <2>1, KeptFacts
<1>8. BranchHead'
  BY <1>2, <1>6 DEF BranchHead, IsNext
<1>9. CASE ~Done(rob[2])
  <2>1. HeadInv'
    BY <1>1, <1>2, <1>3, <1>6, <1>7, <1>8, <1>9 DEF HeadInv, SerialSlot
  <2> QED
    BY <1>3, <1>4, <1>5, <2>1, StillWant DEF Keeps, HandshakeInv, FlowInv
<1>10. CASE Done(rob[2])
  <2>1. IsNext(rob[1]) /\ Faulted(rob[1]) /\ IsBr(rob[1].op) /\ ~want.slot
    BY <1>2 DEF BranchHead
  <2>2. /\ rob[2].pc = want.npc /\ Serializing(rob[2].op) /\ rob[2].op # "xflush"
        /\ ~IsBr(rob[2].op) /\ rob[2].op # "irq" /\ Ends(rob[2].op)
    BY <1>2 DEF SerialSlot, Ends, Serializing, IsBr, Nullifying
  <2>3. SlotMarks'
    <3>1. rob'[1].slot <=> want'.slot
      BY <1>6, <2>1 DEF IsNext
    <3>2. rob'[2].slot <=> IsBr(rob'[1].op)
      BY <1>2, <1>6, <1>7, <2>1
    <3>3. in_delay_slot' <=> IsBr(rob'[2].op)
      BY <1>2, <1>3, <1>7, <2>2
    <3> QED
      BY <1>6, <3>1, <3>2, <3>3 DEF SlotMarks
  <2>4. /\ StreamLen' \in Nat /\ StreamLen' >= 2 /\ Len(dq') \in Nat
        /\ Stream'[1].pc = want'.pc /\ Stream'[1].op = rob[1].op
        /\ Stream'[2].pc = want'.npc /\ Stream'[2].op = rob[2].op
    <3>0. Len(dq') \in Nat /\ Len(fq') \in Nat
      BY NextSizes
    <3>1. StreamLen' \in Nat /\ StreamLen' >= 2
      BY <1>6, <3>0 DEF StreamLen
    <3>2. Stream'[1] = OfEntry(rob'[1]) /\ Stream'[2] = OfEntry(rob'[2])
      BY <1>6, <3>1 DEF Stream
    <3> QED
      BY <1>6, <1>7, <2>1, <2>2, <3>0, <3>1, <3>2 DEF OfEntry, IsNext
  <2>5. \A k \in Nat : k >= 3 => ~Live(Stream', k)
    BY <2>2, <2>4 DEF Live
  <2>6. Path(prog', want', StreamLen', Stream', cache_pc', pc', delay_slot')
    <3> DEFINE s == Stream'
               w == want'
               n == StreamLen'
    <3>1. ASSUME NEW k \in 1 .. n, Live(s, k)
          PROVE  /\ s[k].pc = PcOf(prog', w, s, k)
                 /\ InSlot(w, s, k) => ~IsBr(s[k].op) /\ s[k].op \notin {"irq", "xflush"}
      <4>1. CASE k = 1
        BY <1>6, <2>1, <2>4, <4>1 DEF PcOf, InSlot
      <4>2. CASE k = 2
        BY <2>2, <2>4, <4>2 DEF PcOf, InSlot, After
      <4> QED
        BY <2>5, <3>1, <4>1, <4>2
    <3>2. ~Live(s, n + 1)
      BY <2>4, <2>5
    <3> HIDE DEF s, w, n
    <3>3. Path(prog', w, n, s, cache_pc', pc', delay_slot')
      BY <3>1, <3>2 DEF Path
    <3> QED
      BY <3>3 DEF s, w, n
  <2>7. StreamInv'
    <3>1. ~Live(Stream', Len(rob') + Len(dq') + 1)
      BY <1>6, <2>4, <2>5
    <3>2. \A k \in 1 .. Len(rob') : Serializing(rob'[k].op) =>
             k = 2 /\ Len(rob') = 2 /\ Faulted(rob'[1]) /\ IsBr(rob'[1].op) /\ Done(rob'[2])
      <4>1. ~Serializing(rob'[1].op)
        BY <1>6, <2>1 DEF IsBr, Nullifying, Serializing
      <4> QED
        BY <1>6, <1>7, <1>10, <2>1, <4>1
    <3> QED
      BY <2>6, <3>1, <3>2 DEF StreamInv
  <2>8. HeadInv'
    BY <1>1, <1>4, <1>10, <2>3, <2>7 DEF HeadInv, ActiveInv, NoHandshake
  <2> QED
    BY <1>3, <1>4, <1>5, <2>8, StillWant DEF Keeps, HandshakeInv, FlowInv
<1> QED
  BY <1>9, <1>10

-----------------------------------------------------------------------------
(* ACTIVE: the stream moves on.                                             *)

LEMMA GoesOnQueue ==
    ASSUME TypeOK, NEW acked \in 0 .. Len(fq), GoesOn(acked)
    PROVE  /\ Len(fq') \in Nat /\ Len(fq') >= Len(fq) - acked
           /\ \A k \in 1 .. Len(fq) - acked : fq'[k] = fq[acked + k]
<1>0. Len(fq) \in Nat
  BY SizeFacts
<1>1. CASE Fetches(acked)
  BY <1>1, FetchStep DEF FqGrows, TypeOK, L1ITypeOK
<1>2. CASE Held(acked)
  <2>1. fq' = Popped(acked)
    BY <1>2 DEF Held, Latched
  <2> QED
    BY <1>0, <2>1, PopFacts DEF TypeOK
<1> QED
  BY <1>1, <1>2 DEF GoesOn

\* An instruction retires as predicted.
LEMMA RetireOne ==
    ASSUME TypeOK, NEW w \in Reference, Sound(prog, w), NEW e \in Entry, e.pc = w.pc, Right(prog, e),
           Done(e), ~Faulted(e), ~Serializing(e.op), IsBr(e.op) => ~w.slot, NEW v, v = Step(w, e)
    PROVE  /\ v \in Reference /\ Sound(prog, v) /\ ~Ends(e.op)
           /\ v.pc = w.npc /\ (v.slot <=> IsBr(e.op))
           /\ v.npc = IF IsBr(e.op) /\ e.pred THEN prog[e.pc].tgt ELSE Succ(w.npc)
           /\ IsBr(e.op) => v.npc = TargetPc(e)
<1>1. v \in Reference
  BY StepType
<1>2. ~Ends(e.op) /\ e.op \notin {"xflush", "eret"}
  BY DEF Faulted, Ends, Serializing
<1>3. CASE IsBr(e.op)
  <2>1. w.npc = Succ(w.pc) /\ w.pc \in Pc /\ prog[w.pc].op = e.op
    BY <1>3 DEF Sound, Reference, Right, IsBr, Nullifying
  <2>2. e.out \/ e.op = "br"
    BY <1>3 DEF Faulted, IsBr
  <2>3. v = [pc |-> w.npc, npc |-> TargetPc(e), slot |-> TRUE]
    BY <1>2, <1>3, <2>1, <2>2 DEF Step, TargetPc, IsBr, Nullifying
  <2>4. TargetPc(e) = IF e.pred THEN prog[e.pc].tgt ELSE Succ(w.npc)
    <3>1. e.pred <=> e.out
      BY <1>3 DEF Faulted, IsBr, Entry
    <3> QED
      BY <1>2, <1>3, <2>1, <3>1 DEF TargetPc, Target
  <2>5. Sound(prog, v)
    BY <1>3, <2>1, <2>3 DEF Sound
  <2> QED
    BY <1>1, <1>2, <1>3, <2>3, <2>4, <2>5
<1>4. CASE ~IsBr(e.op)
  <2>1. v = Begin(w.npc)
    BY <1>2, <1>4 DEF Step, IsBr
  <2> QED
    BY <1>1, <1>2, <1>4, <2>1 DEF Begin, Sound
<1> QED
  BY <1>3, <1>4

\* What retires of the ROB.
Retiring(r) ==
    /\ r \in 0 .. 2 /\ r <= Len(rob)
    /\ r >= 1 => Done(rob[1]) /\ ~Faulted(rob[1])
    /\ r = 2 => Done(rob[2]) /\ ~Faulted(rob[2])

Reached(r) == IF r = 0 THEN want
              ELSE IF r = 1 THEN Step(want, rob[1]) ELSE Step(Step(want, rob[1]), rob[2])

LEMMA RetirePath ==
    ASSUME TypeOK, FlowInv, state = "ACTIVE", ~PendingRestart, NEW r, Retiring(r), NEW v, v = Reached(r),
           NEW t, \A k \in 1 .. StreamLen - r : t[k] = Stream[r + k]
    PROVE  /\ v \in Reference /\ Sound(prog, v)
           /\ Path(prog, v, StreamLen - r, t, cache_pc, pc, delay_slot)
           /\ \A j \in 1 .. r : ~Ends(rob[j].op)
           /\ r > 0 => (v.slot <=> IsBr(rob[r].op)) /\ (IsBr(rob[r].op) => v.npc = TargetPc(rob[r]))
<1>0. /\ Len(rob) \in Nat /\ StreamLen \in Nat /\ StreamLen >= Len(rob) /\ r \in 0 .. 2 /\ r <= Len(rob)
      /\ want \in Reference /\ Sound(prog, want) /\ prog \in Programs
  BY SizeFacts, StreamFacts DEF Retiring, FlowInv, WantInv, TypeOK
<1>1. StreamInv
  BY ActiveHead
<1>2. Path(prog, want, StreamLen, Stream, cache_pc, pc, delay_slot)
  BY <1>1 DEF StreamInv
<1>3. CASE r = 0
  <2>1. v = want /\ StreamLen - r = StreamLen
    BY <1>0, <1>3 DEF Reached
  <2>2. \A k \in 1 .. StreamLen : t[k] = Stream[k]
    BY <1>0, <1>3
  <2>3. \A k \in 1 .. StreamLen : t[k].pc = Stream[k].pc /\ t[k].pred = Stream[k].pred /\ t[k].op = Stream[k].op
    BY <2>2
  <2>4. Path(prog, want, StreamLen, t, cache_pc, pc, delay_slot)
    BY <1>0, <1>2, <2>3, PathRelabel
  <2> QED
    BY <1>0, <1>3, <2>1, <2>4
<1>4. CASE r >= 1
  <2> DEFINE v1 == Step(want, rob[1])
             e == rob[1]
             u == [k \in 1 .. StreamLen - 1 |-> Stream[k + 1]]
  <2>0. rob # <<>> /\ Len(rob) >= 1 /\ e \in Entry /\ Right(prog, e) /\ StreamLen \in Nat \ {0}
    BY <1>0, <1>4, SizeFacts DEF FlowInv, OpInv
  <2>1. /\ e.pc = want.pc /\ ~Serializing(e.op) /\ (IsBr(e.op) => ~want.slot)
    BY <2>0, ActiveHead DEF IsNext
  <2>2. Done(e) /\ ~Faulted(e)
    BY <1>4 DEF Retiring
  <2>3. /\ v1 \in Reference /\ Sound(prog, v1) /\ ~Ends(e.op)
        /\ v1.pc = want.npc /\ (v1.slot <=> IsBr(e.op))
        /\ v1.npc = IF IsBr(e.op) /\ e.pred THEN prog[e.pc].tgt ELSE Succ(want.npc)
        /\ IsBr(e.op) => v1.npc = TargetPc(e)
    <3>1. v1 = Step(want, e)
      OBVIOUS
    <3> HIDE DEF e, v1
    <3> QED
      BY <1>0, <2>0, <2>1, <2>2, <3>1, RetireOne
  <2>4. Stream[1].pc = e.pc /\ Stream[1].op = e.op /\ Stream[1].pred = e.pred
    BY <1>0, <2>0, StreamFacts
  <2>5. \A k \in 1 .. StreamLen - 1 : u[k] = Stream[k + 1]
    OBVIOUS
  <2>6. Path(prog, v1, StreamLen - 1, u, cache_pc, pc, delay_slot)
    <3> HIDE DEF e, u, v1
    <3> QED
      BY <1>0, <1>2, <2>0, <2>3, <2>4, <2>5, PathDrop
  <2>7. CASE r = 1
    <3>1. v = v1
      BY <2>7 DEF Reached
    <3>2. \A k \in 1 .. StreamLen - 1 : t[k] = u[k]
      BY <1>0, <2>7
    <3>3. \A k \in 1 .. StreamLen - 1 : t[k].pc = u[k].pc /\ t[k].pred = u[k].pred /\ t[k].op = u[k].op
      BY <3>2
    <3>4. Path(prog, v1, StreamLen - 1, t, cache_pc, pc, delay_slot)
      <4>1. StreamLen - 1 \in Nat
        BY <2>0
      <4> HIDE DEF e, u, v1
      <4> QED
        BY <1>0, <2>6, <3>3, <4>1, PathRelabel
    <3> QED
      BY <2>3, <2>7, <3>1, <3>4
  <2>8. CASE r = 2
    <3> DEFINE f == rob[2]
    <3>0. Len(rob) >= 2 /\ f \in Entry /\ Right(prog, f) /\ StreamLen - 1 \in Nat \ {0}
      BY <1>0, <2>8, SizeFacts DEF FlowInv, OpInv
    <3>1. /\ f.pc = v1.pc /\ (IsBr(f.op) => ~v1.slot)
      BY <2>3, <3>0, ActiveHead
    <3>2. Done(f) /\ ~Faulted(f)
      BY <2>8 DEF Retiring
    <3>3. ~Serializing(f.op)
      BY <1>1, <2>2, <3>0 DEF StreamInv
    <3>4. v = Step(v1, f)
      BY <2>8 DEF Reached
    <3>5. /\ v \in Reference /\ Sound(prog, v) /\ ~Ends(f.op)
          /\ v.pc = v1.npc /\ (v.slot <=> IsBr(f.op))
          /\ v.npc = IF IsBr(f.op) /\ f.pred THEN prog[f.pc].tgt ELSE Succ(v1.npc)
          /\ IsBr(f.op) => v.npc = TargetPc(f)
      <4> HIDE DEF e, f, v1, u
      <4> QED
        BY <2>3, <3>0, <3>1, <3>2, <3>3, <3>4, RetireOne
    <3>6. u[1].pc = f.pc /\ u[1].op = f.op /\ u[1].pred = f.pred
      <4>1. 2 \in 1 .. StreamLen /\ 1 \in 1 .. StreamLen - 1 /\ 1 + 1 = 2
        BY <1>0, <3>0
      <4>2. u[1] = Stream[2]
        BY <2>5, <4>1
      <4> QED
        BY <3>0, <4>1, <4>2, StreamFacts
    <3>7. \A k \in 1 .. (StreamLen - 1) - 1 : t[k] = u[k + 1]
      BY <1>0, <2>8
    <3>8. Path(prog, v, (StreamLen - 1) - 1, t, cache_pc, pc, delay_slot)
      <4>1. PICK n \in Nat \ {0} : n = StreamLen - 1
        BY <3>0
      <4> HIDE DEF e, f, v1, u
      <4>2. Path(prog, v, n - 1, t, cache_pc, pc, delay_slot)
        BY <1>0, <2>6, <3>5, <3>6, <3>7, <4>1, PathDrop
      <4> QED
        BY <4>1, <4>2
    <3>9. (StreamLen - 1) - 1 = StreamLen - r
      BY <1>0, <2>8
    <3>10. \A j \in 1 .. r : ~Ends(rob[j].op)
      BY <2>3, <2>8, <3>5
    <3> QED
      BY <2>8, <3>5, <3>8, <3>9, <3>10
  <2> QED
    BY <1>0, <1>4, <2>7, <2>8
<1> QED
  BY <1>0, <1>3, <1>4

\* Where the entries of the stream are a cycle later: r have retired, P have been
\* decoded behind the a that were, and g stay in the fetch queue.
Shifted(r, P, g, a) ==
    /\ g \in Nat /\ a \in Nat /\ Len(fq') >= g /\ Len(fq') \in Nat
    /\ Len(rob') + Len(dq') = a + P
    /\ StreamLen' = StreamLen - r + (Len(fq') - g) /\ StreamLen - r = a + P + g
    /\ \A k \in 1 .. StreamLen - r :
          /\ Stream'[k].pc = Stream[r + k].pc /\ Stream'[k].pred = Stream[r + k].pred
          /\ k <= a \/ a + P < k => Stream'[k].op = Stream[r + k].op
          /\ a < k /\ k <= a + P => DecodesTo(k - a, Stream'[k])
    /\ \A k \in 1 .. P : Stream[r + a + k] = OfFetched(prog, fq[k])
    /\ \A k \in 1 .. Len(fq') - g : Stream'[StreamLen - r + k] = OfFetched(prog, fq'[g + k])

LEMMA StreamMoves ==
    ASSUME TypeOK, TypeOK', prog' = prog, NEW r \in 0 .. 2, r <= Len(rob), NEW n \in 0 .. 2, n <= Len(dq),
           RobNext(r, n), DqNext(n), NEW P \in 0 .. 2, P = Pushes, P <= Len(fq), GoesOn(P),
           NEW g, g = Len(fq) - P, NEW a, a = Len(rob) - r + Len(dq)
    PROVE  Shifted(r, P, g, a)
<1>0. /\ Len(rob) \in Nat /\ Len(dq) \in Nat /\ Len(fq) \in Nat /\ StreamLen \in Nat
      /\ StreamLen = Len(rob) + Len(dq) + Len(fq)
  BY SizeFacts, StreamFacts
<1>1. g \in Nat /\ a \in Nat
  BY <1>0
<1>2. Len(fq') \in Nat /\ Len(fq') >= g /\ \A k \in 1 .. g : fq'[k] = fq[P + k]
  BY <1>0, GoesOnQueue
<1>3. /\ Len(rob') = Len(rob) - r + n /\ Len(dq') = Len(dq) - n + P
      /\ Len(rob') \in Nat /\ Len(dq') \in Nat
  BY NextSizes DEF RobNext, DqNext
<1>a. StreamLen' = Len(rob') + Len(dq') + Len(fq')
  BY DEF StreamLen
<1>4. /\ Len(rob') + Len(dq') = a + P
      /\ StreamLen' = StreamLen - r + (Len(fq') - g) /\ StreamLen - r = a + P + g
  <2>1. Len(rob') + Len(dq') = a + P
    BY <1>0, <1>3
  <2>2. StreamLen - r = a + P + g
    BY <1>0
  <2>3. StreamLen' = a + P + Len(fq')
    BY <1>a, <2>1
  <2>4. a + P + Len(fq') = (a + P + g) + (Len(fq') - g)
    BY <1>1, <1>2
  <2> QED
    BY <2>1, <2>2, <2>3, <2>4
<1>c. StreamLen' = a + P + Len(fq') /\ StreamLen = r + a + P + g
  BY <1>0, <1>1, <1>4, <1>a
<1>b. ASSUME NEW k \in 1 .. StreamLen - r
      PROVE  k \in 1 .. StreamLen' /\ r + k \in 1 .. StreamLen /\ k \in Nat
  <2>1. StreamLen - r = a + P + g
    BY <1>0, <1>1, <1>c
  <2>2. k \in Nat /\ k >= 1 /\ k <= a + P + g
    BY <1>1, <2>1
  <2>3. k <= a + P + Len(fq') /\ a + P + Len(fq') \in Nat
    BY <1>1, <1>2, <2>2, SMTT(60)
  <2>4. r + k <= r + a + P + g /\ r + k >= 1 /\ r + k \in Nat /\ r + a + P + g \in Nat
    BY <1>1, <2>2
  <2>5. k \in 1 .. StreamLen'
    BY <1>c, <2>2, <2>3
  <2>6. r + k \in 1 .. StreamLen
    BY <1>c, <2>4
  <2> QED
    BY <2>2, <2>5, <2>6
<1>5. ASSUME NEW k \in 1 .. StreamLen'
      PROVE  Stream'[k] = IF k <= Len(rob') THEN OfEntry(rob'[k])
                          ELSE IF k <= a + P THEN dq'[k - Len(rob')]
                          ELSE OfFetched(prog, fq'[k - (a + P)])
  <2>1. Stream'[k] = IF k <= Len(rob') THEN OfEntry(rob'[k])
                     ELSE IF k <= Len(rob') + Len(dq') THEN dq'[k - Len(rob')]
                     ELSE OfFetched(prog', fq'[k - Len(rob') - Len(dq')])
    BY DEF Stream
  <2>2. k - Len(rob') - Len(dq') = k - (a + P)
    BY <1>0, <1>1, <1>3
  <2> QED
    BY <1>4, <2>1, <2>2
<1>6. ASSUME NEW k \in 1 .. StreamLen
      PROVE  Stream[k] = IF k <= Len(rob) THEN OfEntry(rob[k])
                         ELSE IF k <= Len(rob) + Len(dq) THEN dq[k - Len(rob)]
                         ELSE OfFetched(prog, fq[k - (Len(rob) + Len(dq))])
  <2>2. k - Len(rob) - Len(dq) = k - (Len(rob) + Len(dq))
    BY <1>0
  <2> QED
    BY <2>2 DEF Stream
<1>7. ASSUME NEW k \in 1 .. StreamLen - r, k <= a
      PROVE  Stream'[k].pc = Stream[r + k].pc /\ Stream'[k].pred = Stream[r + k].pred /\ Stream'[k].op = Stream[r + k].op
  <2>0. k \in 1 .. StreamLen' /\ r + k \in 1 .. StreamLen /\ k \in Nat
    BY <1>b
  <2>1. CASE k <= Len(rob) - r
    <3>a. PICK q : q = r + k
      OBVIOUS
    <3>b. q \in 1 .. StreamLen /\ q <= Len(rob)
      BY <1>0, <2>0, <2>1, <3>a
    <3>c. k <= Len(rob')
      BY <1>0, <1>3, <2>0, <2>1, SMTT(60)
    <3>d. Stream'[k] = OfEntry(rob'[k])
      BY <1>5, <2>0, <3>c
    <3>e. Stream[q] = OfEntry(rob[q])
      BY <1>6, <3>b
    <3>1. Stream'[k] = OfEntry(rob'[k]) /\ Stream[r + k] = OfEntry(rob[r + k])
      BY <3>a, <3>d, <3>e
    <3>2. Kept(rob[r + k], rob'[k])
      BY <1>0, <1>3, <2>1, SMTT(60) DEF RobNext
    <3> QED
      BY <3>1, <3>2 DEF OfEntry, Kept
  <2>2. CASE ~(k <= Len(rob) - r) /\ k <= Len(rob')
    <3>1. r + k - Len(rob) = k - (Len(rob) - r)
      BY <1>0, <2>0
    <3>2. Stream'[k] = OfEntry(rob'[k]) /\ Stream[r + k] = dq[k - (Len(rob) - r)]
      BY <1>0, <1>3, <1>5, <1>6, <1>7, <2>0, <2>2, <3>1, SMTT(60)
    <3>3. Enters(dq[k - (Len(rob) - r)], rob'[k])
      BY <2>0, <2>2 DEF RobNext
    <3> QED
      BY <3>2, <3>3 DEF OfEntry, Enters
  <2>3. CASE ~(k <= Len(rob'))
    <3> DEFINE j == k - Len(rob')
    <3>1. r + k - Len(rob) = n + j /\ j \in 1 .. Len(dq') /\ j <= Len(dq) - n
      BY <1>0, <1>3, <1>7, <2>0, <2>3, SMTT(60)
    <3>4. k <= a + P /\ ~(r + k <= Len(rob)) /\ r + k <= Len(rob) + Len(dq)
      BY <1>0, <1>1, <1>3, <1>7, <2>0, <2>3, SMTT(60)
    <3>5. Stream'[k] = dq'[j]
      BY <1>5, <2>0, <2>3, <3>4
    <3>6. Stream[r + k] = dq[r + k - Len(rob)]
      BY <1>6, <2>0, <3>4
    <3>2. Stream'[k] = dq'[j] /\ Stream[r + k] = dq[n + j]
      BY <3>1, <3>5, <3>6
    <3> HIDE DEF j
    <3>3. dq'[j] = dq[n + j]
      BY <3>1 DEF DqNext
    <3> QED
      BY <3>2, <3>3
  <2> QED
    BY <2>1, <2>2, <2>3
<1>8. ASSUME NEW k \in 1 .. StreamLen - r, a < k, k <= a + P
      PROVE  /\ DecodesTo(k - a, Stream'[k])
             /\ Stream'[k].pc = Stream[r + k].pc /\ Stream'[k].pred = Stream[r + k].pred
             /\ Stream[r + k] = OfFetched(prog, fq[k - a])
  <2>0. k \in 1 .. StreamLen' /\ r + k \in 1 .. StreamLen /\ k \in Nat
    BY <1>b
  <2> DEFINE j == k - Len(rob')
             i == k - a
  <2>1. j \in 1 .. Len(dq') /\ ~(j <= Len(dq) - n) /\ j - (Len(dq) - n) = i /\ r + k - (Len(rob) + Len(dq)) = i
    BY <1>0, <1>1, <1>3, <1>8, <2>0, SMTT(60)
  <2>a. ~(k <= Len(rob')) /\ ~(r + k <= Len(rob)) /\ ~(r + k <= Len(rob) + Len(dq))
    BY <1>0, <1>1, <1>3, <1>8, <2>0, SMTT(60)
  <2>b. Stream'[k] = dq'[j]
    BY <1>5, <1>8, <2>0, <2>a
  <2>c. Stream[r + k] = OfFetched(prog, fq[r + k - (Len(rob) + Len(dq))])
    BY <1>6, <2>0, <2>a
  <2>2. Stream'[k] = dq'[j] /\ Stream[r + k] = OfFetched(prog, fq[i])
    BY <2>1, <2>b, <2>c
  <2> HIDE DEF j, i
  <2>3. DecodesTo(i, dq'[j])
    BY <2>1 DEF DqNext
  <2>4. DecodesTo(i, Stream'[k]) /\ Stream[r + k] = OfFetched(prog, fq[i])
    BY <2>2, <2>3
  <2>5. Stream'[k].pc = Stream[r + k].pc /\ Stream'[k].pred = Stream[r + k].pred
    BY <2>4 DEF DecodesTo, OfFetched
  <2> QED
    BY <2>4, <2>5 DEF i
<1>9. ASSUME NEW k \in 1 .. StreamLen - r, a + P < k
      PROVE  Stream'[k] = Stream[r + k]
  <2>0. k \in 1 .. StreamLen' /\ r + k \in 1 .. StreamLen /\ k \in Nat
    BY <1>b
  <2> DEFINE j == k - (a + P)
  <2>1. j \in 1 .. g /\ P + j = r + k - (Len(rob) + Len(dq))
    BY <1>0, <1>1, <1>4, <1>9, <2>0
  <2>a. ~(k <= Len(rob')) /\ ~(k <= a + P) /\ ~(r + k <= Len(rob)) /\ ~(r + k <= Len(rob) + Len(dq))
    BY <1>0, <1>1, <1>3, <1>9, <2>0, SMTT(60)
  <2>b. Stream'[k] = OfFetched(prog, fq'[j])
    BY <1>5, <2>0, <2>a
  <2>c. Stream[r + k] = OfFetched(prog, fq[r + k - (Len(rob) + Len(dq))])
    <3> HIDE DEF j
    <3>1. PICK q : q = r + k
      OBVIOUS
    <3>2. q \in 1 .. StreamLen /\ ~(q <= Len(rob)) /\ ~(q <= Len(rob) + Len(dq))
      BY <2>0, <2>a, <3>1
    <3>3. Stream[q] = OfFetched(prog, fq[q - (Len(rob) + Len(dq))])
      BY <1>6, <3>2
    <3> QED
      BY <3>1, <3>3
  <2>2. Stream'[k] = OfFetched(prog, fq'[j]) /\ Stream[r + k] = OfFetched(prog, fq[P + j])
    BY <2>1, <2>b, <2>c
  <2> HIDE DEF j
  <2> QED
    BY <1>2, <2>1, <2>2
<1>10. ASSUME NEW k \in 1 .. P
       PROVE  Stream[r + a + k] = OfFetched(prog, fq[k])
  <2>1. r + a + k \in 1 .. StreamLen /\ ~(r + a + k <= Len(rob) + Len(dq)) /\ ~(r + a + k <= Len(rob))
        /\ r + a + k - (Len(rob) + Len(dq)) = k
    BY <1>0, <1>1
  <2> QED
    BY <1>6, <2>1
<1>11. ASSUME NEW k \in 1 .. Len(fq') - g
       PROVE  Stream'[StreamLen - r + k] = OfFetched(prog, fq'[g + k])
  <2> DEFINE q == StreamLen - r + k
  <2>1. q = a + P + g + k /\ k \in Nat \ {0}
    <3>1. k \in Nat \ {0}
      BY <1>1, <1>2
    <3>2. StreamLen - r = a + P + g
      BY <1>4
    <3>3. q = (a + P + g) + k
      BY <3>2
    <3> QED
      BY <3>1, <3>3
  <2> HIDE DEF q
  <2>a. q \in Nat /\ q >= 1 /\ ~(q <= a + P) /\ q - (a + P) = g + k
    BY <1>1, <2>1
  <2>b. q <= a + P + Len(fq') /\ a + P + Len(fq') \in Nat
    BY <1>1, <1>2, <2>1
  <2>c. q \in 1 .. StreamLen'
    BY <1>c, <2>a, <2>b
  <2>d. ~(q <= Len(rob'))
    BY <1>1, <1>3, <1>4, <2>a, SMTT(60)
  <2>2. q \in 1 .. StreamLen' /\ ~(q <= a + P) /\ ~(q <= Len(rob')) /\ q - (a + P) = g + k
    BY <2>a, <2>c, <2>d
  <2>3. Stream'[q] = OfFetched(prog, fq'[q - (a + P)])
    BY <1>5, <2>2
  <2>4. Stream'[q] = OfFetched(prog, fq'[g + k])
    BY <2>2, <2>3
  <2> QED
    BY <2>4 DEF q
<1>12. ASSUME NEW k \in 1 .. StreamLen - r
       PROVE  /\ Stream'[k].pc = Stream[r + k].pc /\ Stream'[k].pred = Stream[r + k].pred
              /\ k <= a \/ a + P < k => Stream'[k].op = Stream[r + k].op
              /\ a < k /\ k <= a + P => DecodesTo(k - a, Stream'[k])
  <2>1. CASE k <= a
    BY <1>1, <1>7, <1>b, <2>1
  <2>2. CASE a < k /\ k <= a + P
    BY <1>1, <1>8, <1>b, <2>2, SMTT(60)
  <2>3. CASE a + P < k
    BY <1>1, <1>9, <1>b, <2>3
  <2> QED
    BY <1>1, <1>b, <2>1, <2>2, <2>3
<1> QED
  BY <1>1, <1>2, <1>4, <1>10, <1>11, <1>12 DEF Shifted

LEMMA StreamSound ==
    ASSUME TypeOK, OpInv
    PROVE  \A k \in 1 .. StreamLen : Stream[k].pc \in Pc /\ Right(prog, Stream[k])
<1>0. /\ Len(rob) \in Nat /\ Len(dq) \in Nat /\ Len(fq) \in Nat
      /\ StreamLen = Len(rob) + Len(dq) + Len(fq)
  BY SizeFacts, StreamFacts
<1> SUFFICES ASSUME NEW k \in 1 .. StreamLen
             PROVE  Stream[k].pc \in Pc /\ Right(prog, Stream[k])
  OBVIOUS
<1>1. CASE k <= Len(rob)
  <2>1. Stream[k].pc = rob[k].pc /\ Stream[k].op = rob[k].op /\ k \in 1 .. Len(rob)
    BY <1>0, <1>1, StreamFacts
  <2>2. rob[k].pc \in Pc /\ Right(prog, rob[k])
    BY <2>1, SizeFacts DEF Entry, OpInv
  <2> QED
    BY <2>1, <2>2 DEF Right
<1>2. CASE Len(rob) < k /\ k <= Len(rob) + Len(dq)
  <2>1. Stream[k] = dq[k - Len(rob)] /\ k - Len(rob) \in 1 .. Len(dq)
    BY <1>0, <1>2, StreamFacts
  <2>2. \A j \in 1 .. Len(dq) : dq[j].pc \in Pc /\ Right(prog, dq[j])
    BY SizeFacts DEF Uop, OpInv
  <2> QED
    BY <2>1, <2>2
<1>3. CASE Len(rob) + Len(dq) < k
  <2> DEFINE j == k - Len(rob) - Len(dq)
  <2>1. Stream[k] = OfFetched(prog, fq[j]) /\ j \in 1 .. Len(fq)
    BY <1>0, <1>3, StreamFacts
  <2> HIDE DEF j
  <2>2. fq[j].pc \in Pc /\ (fq[j].tlb_miss => fq[j].pc \in Mapped)
    BY <2>1, SizeFacts DEF Fetched, OpInv
  <2> QED
    BY <2>1, <2>2 DEF OfFetched, Right
<1> QED
  BY <1>0, <1>1, <1>2, <1>3

\* The slot bit of decode, seen from where the stream now starts.
LEMMA DecodeSlot ==
    ASSUME TypeOK, FlowInv, state = "ACTIVE", ~PendingRestart, NEW r, Retiring(r), NEW v, v = Reached(r),
           NEW u, \A k \in 1 .. StreamLen - r : u[k] = Stream[r + k],
           NEW a, a = Len(rob) - r + Len(dq), Live(u, a + 1)
    PROVE  dec_delay_slot <=> InSlot(v, u, a + 1)
<1>0. /\ Len(rob) \in Nat /\ Len(dq) \in Nat /\ StreamLen \in Nat /\ StreamLen >= Len(rob) + Len(dq)
      /\ r \in 0 .. 2 /\ r <= Len(rob)
  BY SizeFacts, StreamFacts DEF Retiring
<1>1. a \in Nat /\ r + a = Len(rob) + Len(dq)
  BY <1>0
<1>2. /\ \A j \in 1 .. r : ~Ends(rob[j].op)
      /\ r > 0 => (v.slot <=> IsBr(rob[r].op))
  BY RetirePath
<1>3. \A k \in 1 .. a : u[k] = Stream[r + k]
  BY <1>0, <1>1
<1>4. \A j \in 1 .. r : Stream[j].op = rob[j].op
  BY <1>0, StreamFacts
<1>5. Live(Stream, Len(rob) + Len(dq) + 1)
  <2>1. ASSUME NEW j \in 1 .. r + a
        PROVE  ~Ends(Stream[j].op)
    <3>1. CASE j <= r
      BY <1>0, <1>1, <1>2, <1>4, <3>1
    <3>2. CASE ~(j <= r)
      <4>1. PICK k \in 1 .. a : j = r + k
        <5>1. j - r \in 1 .. a /\ j = r + (j - r)
          BY <1>0, <1>1, <3>2
        <5> QED
          BY <5>1
      <4>2. ~Ends(u[k].op)
        BY <1>1 DEF Live
      <4> QED
        BY <1>3, <4>1, <4>2
    <3> QED
      BY <3>1, <3>2
  <2> QED
    BY <1>0, <1>1, <2>1 DEF Live
<1>6. dec_delay_slot <=> InSlot(want, Stream, Len(rob) + Len(dq) + 1)
  BY <1>5, ActiveHead DEF StreamInv
<1>7. InSlot(want, Stream, r + a + 1) <=> InSlot(v, u, a + 1)
  <2>1. CASE a = 0 /\ r = 0
    <3>1. v = want
      BY <2>1 DEF Reached
    <3> QED
      BY <2>1, <3>1 DEF InSlot
  <2>2. CASE a = 0 /\ r > 0
    <3>1. r \in 1 .. r /\ r + a + 1 # 1 /\ r + a + 1 - 1 = r /\ a + 1 = 1
      BY <1>0, <2>2
    <3>2. InSlot(want, Stream, r + a + 1) <=> IsBr(Stream[r].op)
      <4>1. PICK q : q = r + a + 1
        OBVIOUS
      <4>2. q # 1 /\ q - 1 = r
        BY <1>0, <2>2, <4>1
      <4>3. InSlot(want, Stream, q) <=> IsBr(Stream[q - 1].op)
        BY <4>2 DEF InSlot
      <4> QED
        BY <4>1, <4>2, <4>3
    <3>3. InSlot(v, u, a + 1) <=> v.slot
      BY <3>1 DEF InSlot
    <3>4. Stream[r].op = rob[r].op
      BY <1>4, <3>1
    <3> QED
      BY <1>2, <2>2, <3>2, <3>3, <3>4
  <2>3. CASE a # 0
    <3>1. a \in 1 .. a /\ r + a + 1 # 1 /\ r + a + 1 - 1 = r + a /\ a + 1 # 1 /\ a + 1 - 1 = a
      BY <1>0, <1>1, <2>3
    <3>2. InSlot(want, Stream, r + a + 1) <=> IsBr(Stream[r + a].op)
      <4>1. PICK q : q = r + a + 1
        OBVIOUS
      <4>2. q # 1 /\ q - 1 = r + a
        BY <1>0, <1>1, <2>3, <4>1
      <4>3. InSlot(want, Stream, q) <=> IsBr(Stream[q - 1].op)
        BY <4>2 DEF InSlot
      <4> QED
        BY <4>1, <4>2, <4>3
    <3>3. InSlot(v, u, a + 1) <=> IsBr(u[a].op)
      BY <3>1 DEF InSlot
    <3>4. u[a] = Stream[r + a]
      BY <1>3, <3>1
    <3> QED
      BY <3>2, <3>3, <3>4
  <2> QED
    BY <1>0, <2>1, <2>2, <2>3
<1> QED
  BY <1>1, <1>6, <1>7

Relabels(v, N, u, t, m) ==
    /\ \A k \in 1 .. N : t[k].op = u[k].op \/ t[k].op \in {"irq", "xflush"}
    /\ Live(t, m + 1) => (n_dec_delay_slot <=> InSlot(v, t, m + 1))

\* P entries of t behind the first a are what decode makes of those of u.
DecodesInto(N, u, t, a, P) ==
    /\ a + P <= N
    /\ \A k \in 1 .. N : /\ t[k].pc = u[k].pc /\ t[k].pred = u[k].pred
                         /\ k <= a \/ a + P < k => t[k].op = u[k].op
                         /\ a < k /\ k <= a + P => DecodesTo(k - a, t[k])
    /\ \A i \in 1 .. P : u[a + i] = OfFetched(prog, fq[i])

\* Decode changes the kind of an instruction only outside a delay slot, and knows
\* where it is.
LEMMA DecodeLabels ==
    ASSUME TypeOK, NEW v, NEW N \in Nat, NEW u, NEW t, NEW c, NEW nx, NEW ds,
           Path(prog, v, N, u, c, nx, ds),
           NEW P \in 0 .. 2, P = Pushes, NEW a \in Nat, DecodesInto(N, u, t, a, P),
           Live(u, a + 1) => (dec_delay_slot <=> InSlot(v, u, a + 1))
    PROVE  /\ Path(prog, v, N, t, c, nx, ds)
           /\ Relabels(v, N, u, t, a + P)
<1>0. prog \in Programs
  BY DEF TypeOK
<1>a. /\ a + P <= N
      /\ \A k \in 1 .. N : /\ t[k].pc = u[k].pc /\ t[k].pred = u[k].pred
                           /\ k <= a \/ a + P < k => t[k].op = u[k].op
                           /\ a < k /\ k <= a + P => DecodesTo(k - a, t[k])
      /\ \A i \in 1 .. P : u[a + i] = OfFetched(prog, fq[i])
  BY DEF DecodesInto
<1>1. \A k \in 1 .. a : t[k].op = u[k].op
  BY <1>a
<1>2. Live(t, a + 1) => (dec_delay_slot <=> InSlot(v, u, a + 1)) /\ Live(u, a + 1)
  BY <1>1 DEF Live
<1>3. ASSUME NEW i \in 1 .. P
      PROVE  /\ a + i \in 1 .. N
             /\ u[a + i].op = IF fq[i].tlb_miss THEN "ftlb" ELSE OpAt(fq[i].pc)
             /\ t[a + i].op = u[a + i].op \/ (t[a + i].op \in {"irq", "xflush"} /\ ~DecSlot(i))
  <2>1. a + i \in 1 .. N /\ a < a + i /\ a + i <= a + P /\ a + i - a = i
    BY <1>a
  <2>2. DecodesTo(i, t[a + i])
    BY <1>a, <2>1
  <2>3. u[a + i].op = IF fq[i].tlb_miss THEN "ftlb" ELSE OpAt(fq[i].pc)
    <3>1. u[a + i] = OfFetched(prog, fq[i])
      BY <1>a
    <3> QED
      BY <3>1 DEF OfFetched, OpAt
  <2> QED
    BY <2>1, <2>2, <2>3 DEF DecodesTo
<1>4. ASSUME NEW i \in 1 .. P, Live(t, a + i), ~DecSlot(i)
      PROVE  ~InSlot(v, u, a + i)
  <2>1. CASE i = 1
    BY <1>2, <1>4, <2>1 DEF DecSlot
  <2>2. CASE i = 2
    <3>1. Live(t, a + 1)
      BY <1>4, <2>2 DEF Live
    <3>2. a + 1 \in 1 .. N /\ a + 2 # 1 /\ a + 2 - 1 = a + 1 /\ 1 \in 1 .. P
      BY <1>a, <2>2
    <3>3. InSlot(v, u, a + 1) => ~IsBr(u[a + 1].op)
      BY <1>2, <3>1, <3>2 DEF Path
    <3>4. InSlot(v, u, a + 2) <=> IsBr(u[a + 1].op)
      BY <3>2 DEF InSlot
    <3>5. IsBr(u[a + 1].op) => IsBr(OpAt(fq[1].pc))
      BY <1>3, <3>2 DEF IsBr, Nullifying
    <3> QED
      BY <1>2, <1>4, <2>2, <3>1, <3>3, <3>4, <3>5 DEF DecSlot
  <2> QED
    BY <2>1, <2>2
<1>5. ASSUME NEW k \in 1 .. N
      PROVE  k <= a \/ a + P < k \/ \E i \in 1 .. P : k = a + i
  <2>1. CASE a < k /\ k <= a + P
    <3>1. k - a \in 1 .. P /\ k = a + (k - a)
      BY <2>1
    <3> QED
      BY <3>1
  <2> QED
    BY <2>1
<1>6. \A k \in 1 .. N : t[k].op = u[k].op \/ t[k].op \in {"irq", "xflush"}
  BY <1>3, <1>5, <1>a
<1>7. ASSUME NEW k \in 1 .. N, Live(t, k)
      PROVE  t[k].op = u[k].op \/ (Ends(t[k].op) /\ ~InSlot(v, u, k))
  <2>1. CASE k <= a \/ a + P < k
    BY <1>a, <2>1
  <2>2. ASSUME NEW i \in 1 .. P, k = a + i
        PROVE  t[k].op = u[k].op \/ (Ends(t[k].op) /\ ~InSlot(v, u, k))
    BY <1>3, <1>4, <1>7, <2>2 DEF Ends, Serializing
  <2> QED
    BY <1>5, <2>1, <2>2
<1>8. Path(prog, v, N, t, c, nx, ds)
  <2>1. \A k \in 1 .. N : t[k].pc = u[k].pc /\ t[k].pred = u[k].pred
    BY <1>a
  <2> QED
    BY <1>0, <1>7, <2>1, PathRelabel
<1>9. ASSUME Live(t, a + P + 1)
      PROVE  n_dec_delay_slot <=> InSlot(v, t, a + P + 1)
  <2>a. Live(t, a + 1)
    BY <1>9 DEF Live
  <2>b. InSlot(v, t, a + 1) <=> InSlot(v, u, a + 1)
    BY <1>1 DEF InSlot
  <2>c. dec_delay_slot <=> InSlot(v, t, a + 1)
    BY <1>2, <2>a, <2>b
  <2>d. ASSUME NEW i \in 1 .. P
        PROVE  /\ a + i \in 1 .. N /\ t[a + i].op = OpAt(fq[i].pc) /\ Live(t, a + i)
               /\ InSlot(v, t, a + i) => ~IsBr(t[a + i].op)
    <3>1. ~Ends(t[a + i].op) /\ Live(t, a + i)
      BY <1>9 DEF Live
    <3>2. a + i \in 1 .. N /\ t[a + i].op = OpAt(fq[i].pc)
      <4>1. a + i \in 1 .. N
        BY <1>3
      <4>2. t[a + i].op \notin {"irq", "ftlb", "xflush"}
        BY <3>1 DEF Ends, Serializing
      <4> QED
        BY <1>3, <4>1, <4>2
    <3> QED
      BY <1>8, <3>1, <3>2 DEF Path
  <2>1. CASE P = 0
    BY <2>1, <2>c DEF n_dec_delay_slot
  <2>2. CASE P = 1
    <3>1. InSlot(v, t, a + 2) <=> IsBr(t[a + 1].op)
      BY DEF InSlot
    <3>2. n_dec_delay_slot <=> ~dec_delay_slot /\ IsBr(OpAt(fq[1].pc))
      BY <2>2 DEF n_dec_delay_slot, DecSlot
    <3>3. /\ t[a + 1].op = OpAt(fq[1].pc)
          /\ InSlot(v, t, a + 1) => ~IsBr(t[a + 1].op)
      BY <2>2, <2>d
    <3>4. a + P + 1 = a + 2
      BY <2>2
    <3> QED
      BY <2>c, <3>1, <3>2, <3>3, <3>4
  <2>3. CASE P = 2
    <3>1. (InSlot(v, t, a + 3) <=> IsBr(t[a + 2].op)) /\ (InSlot(v, t, a + 2) <=> IsBr(t[a + 1].op))
      BY DEF InSlot
    <3>2. n_dec_delay_slot <=> ~(~dec_delay_slot /\ IsBr(OpAt(fq[1].pc))) /\ IsBr(OpAt(fq[2].pc))
      BY <2>3 DEF n_dec_delay_slot, DecSlot
    <3>3. /\ t[a + 1].op = OpAt(fq[1].pc) /\ t[a + 2].op = OpAt(fq[2].pc)
          /\ InSlot(v, t, a + 2) => ~IsBr(t[a + 2].op)
      BY <2>3, <2>d
    <3>4. a + P + 1 = a + 3
      BY <2>3
    <3> QED
      BY <3>1, <3>2, <3>3, <3>4
  <2> QED
    BY <2>1, <2>2, <2>3
<1> QED
  BY <1>6, <1>8, <1>9 DEF Relabels

\* A cycle in ACTIVE in which the stream moves on: r entries retire, n are
\* allocated.
Moves(r, n) ==
    /\ state = "ACTIVE" /\ ~PendingRestart
    /\ Retiring(r) /\ n \in 0 .. 2 /\ n <= Len(dq)
    /\ RobNext(r, n) /\ DqNext(n) /\ GoesOn(Pushes)
    /\ prog' = prog /\ want' = Reached(r)
    /\ dec_delay_slot' <=> n_dec_delay_slot
    /\ in_delay_slot' <=> IF n > 0 THEN IsBr(dq[n].op) ELSE in_delay_slot

LEMMA MovesPath ==
    ASSUME TypeOK, TypeOK', FlowInv, NEW r, NEW n, Moves(r, n)
    PROVE  /\ want' \in Reference /\ Sound(prog, want')
           /\ Path(prog, want', StreamLen', Stream', cache_pc', pc', delay_slot')
           /\ Live(Stream', Len(rob') + Len(dq') + 1) =>
                 (dec_delay_slot' <=> InSlot(want', Stream', Len(rob') + Len(dq') + 1))
           /\ \A j \in 1 .. r : ~Ends(rob[j].op)
           /\ r > 0 => /\ want'.slot <=> IsBr(rob[r].op)
                       /\ IsBr(rob[r].op) => want'.npc = TargetPc(rob[r])
<1> DEFINE v == want'
           P == Pushes
           g == Len(fq) - P
           a == Len(rob) - r + Len(dq)
           N == StreamLen - r
           u == [k \in 1 .. N |-> Stream[r + k]]
           t == Stream'
<1>0. /\ Len(rob) \in Nat /\ Len(dq) \in Nat /\ Len(fq) \in Nat /\ StreamLen \in Nat
      /\ StreamLen = Len(rob) + Len(dq) + Len(fq)
  BY SizeFacts, StreamFacts
<1>1. /\ state = "ACTIVE" /\ ~PendingRestart /\ Retiring(r) /\ n \in 0 .. 2 /\ n <= Len(dq)
      /\ RobNext(r, n) /\ DqNext(n) /\ GoesOn(P) /\ prog' = prog /\ v = Reached(r)
      /\ dec_delay_slot' <=> n_dec_delay_slot
  BY DEF Moves
<1>2. r \in 0 .. 2 /\ r <= Len(rob)
  BY <1>1 DEF Retiring
<1>3. P \in 0 .. 2 /\ P <= Len(fq) /\ P = Pushes /\ P \in 0 .. Len(fq)
  BY <1>0, PushesFacts
<1>4. g = Len(fq) - P /\ a = Len(rob) - r + Len(dq) /\ N \in Nat /\ N = StreamLen - r
  BY <1>0, <1>2
<1>5. \A k \in 1 .. StreamLen - r : u[k] = Stream[r + k]
  OBVIOUS
<1>a. Shifted(r, P, g, a)
  <2> HIDE DEF P, g, a
  <2>1. P \in 0 .. 2 /\ P = Pushes /\ P <= Len(fq)
    BY <1>3
  <2>2. g = Len(fq) - P /\ a = Len(rob) - r + Len(dq)
    BY <1>4
  <2> QED
    BY <1>1, <1>2, <2>1, <2>2, StreamMoves
<1>6. /\ g \in Nat /\ a \in Nat /\ Len(fq') >= g /\ Len(fq') \in Nat
      /\ Len(rob') + Len(dq') = a + P
      /\ StreamLen' = StreamLen - r + (Len(fq') - g) /\ StreamLen - r = a + P + g
      /\ \A k \in 1 .. StreamLen - r :
            /\ t[k].pc = Stream[r + k].pc /\ t[k].pred = Stream[r + k].pred
            /\ k <= a \/ a + P < k => t[k].op = Stream[r + k].op
            /\ a < k /\ k <= a + P => DecodesTo(k - a, t[k])
      /\ \A k \in 1 .. P : Stream[r + a + k] = OfFetched(prog, fq[k])
      /\ \A k \in 1 .. Len(fq') - g : t[StreamLen - r + k] = OfFetched(prog, fq'[g + k])
  <2> HIDE DEF P, g, a
  <2> QED
    BY <1>a DEF Shifted
<1>7. /\ v \in Reference /\ Sound(prog, v)
      /\ Path(prog, v, StreamLen - r, u, cache_pc, pc, delay_slot)
      /\ \A j \in 1 .. r : ~Ends(rob[j].op)
      /\ r > 0 => (v.slot <=> IsBr(rob[r].op)) /\ (IsBr(rob[r].op) => v.npc = TargetPc(rob[r]))
  <2> HIDE DEF u, v
  <2> QED
    BY <1>1, <1>5, RetirePath
<1>8. Live(u, a + 1) => (dec_delay_slot <=> InSlot(v, u, a + 1))
  <2> HIDE DEF u, v, a
  <2> QED
    BY <1>1, <1>4, <1>5, DecodeSlot
<1>9. \A k \in 1 .. N : /\ t[k].pc = u[k].pc /\ t[k].pred = u[k].pred
                        /\ k <= a \/ a + P < k => t[k].op = u[k].op
                        /\ a < k /\ k <= a + P => DecodesTo(k - a, t[k])
  <2> HIDE DEF u, t, a, P
  <2> QED
    BY <1>4, <1>5, <1>6
<1>10. \A i \in 1 .. P : u[a + i] = OfFetched(prog, fq[i])
  <2> SUFFICES ASSUME NEW i \in 1 .. P PROVE u[a + i] = OfFetched(prog, fq[i])
    OBVIOUS
  <2> HIDE DEF u, a, P, g, N
  <2>1. a + i \in 1 .. StreamLen - r /\ r + (a + i) = r + a + i
    <3>1. a \in Nat /\ g \in Nat /\ P \in Nat /\ i \in Nat /\ i >= 1 /\ i <= P /\ StreamLen - r = a + P + g /\ r \in Nat
      BY <1>2, <1>3, <1>6, SMTT(60)
    <3>2. a + i \in 1 .. a + P + g /\ r + (a + i) = r + a + i
      BY <3>1
    <3> QED
      BY <3>1, <3>2
  <2> QED
    BY <1>5, <1>6, <2>1
<1>11. Path(prog, v, N, t, cache_pc, pc, delay_slot) /\ Relabels(v, N, u, t, a + P)
  <2>1. Path(prog, v, N, u, cache_pc, pc, delay_slot)
    BY <1>7
  <2> HIDE DEF u, v, a, P, g, N, t
  <2>2. a + P <= N /\ a \in Nat
    BY <1>3, <1>4, <1>6, SMTT(60)
  <2>3. DecodesInto(N, u, t, a, P)
    BY <1>9, <1>10, <2>2 DEF DecodesInto
  <2>4. N \in Nat /\ P \in 0 .. 2 /\ P = Pushes /\ a \in Nat
    BY <1>3, <1>4, <2>2
  <2> QED
    BY <1>8, <2>1, <2>3, <2>4, DecodeLabels, Zenon
<1>12. \A k \in 1 .. N : t[k].pc \in Pc /\ Right(prog, t[k])
  <2> SUFFICES ASSUME NEW k \in 1 .. N PROVE t[k].pc \in Pc /\ Right(prog, t[k])
    OBVIOUS
  <2>1. u[k] = Stream[r + k] /\ r + k \in 1 .. StreamLen
    BY <1>0, <1>2
  <2> HIDE DEF u, N, t
  <2>2. u[k].pc \in Pc /\ Right(prog, u[k])
    BY <2>1, StreamSound DEF FlowInv
  <2>3. t[k].pc = u[k].pc
    BY <1>9
  <2> QED
    BY <1>11, <2>2, <2>3 DEF Right, Relabels
<1>13. Path(prog, v, N + (Len(fq') - g), t, cache_pc', pc', delay_slot')
  <2>1. v.pc \in Pc
    BY <1>7 DEF Reference
  <2>2. \A k \in 1 .. Len(fq') - g : t[N + k] = OfFetched(prog, fq'[g + k])
    BY <1>6
  <2> HIDE DEF u, v, a, P, g, N, t
  <2> QED
    BY <1>1, <1>3, <1>4, <1>7, <1>11, <1>12, <2>1, <2>2, PathStep
<1>14. Path(prog, v, StreamLen', t, cache_pc', pc', delay_slot')
  <2>1. N + (Len(fq') - g) = StreamLen'
    BY <1>6
  <2> HIDE DEF u, v, a, P, g, N, t
  <2> QED
    BY <1>13, <2>1
<1>15. a + P + 1 = Len(rob') + Len(dq') + 1
  BY <1>6
<1> HIDE DEF u, v, a, P, g, N, t
<1>16. Live(t, Len(rob') + Len(dq') + 1) => (dec_delay_slot' <=> InSlot(v, t, Len(rob') + Len(dq') + 1))
  BY <1>1, <1>11, <1>15 DEF Relabels
<1> QED
  BY <1>7, <1>14, <1>16 DEF v, t


LEMMA MovesMarks ==
    ASSUME TypeOK, TypeOK', FlowInv, NEW r, NEW n, Moves(r, n)
    PROVE  SlotMarks'
<1>0. /\ Len(rob) \in Nat /\ Len(rob') \in Nat /\ (rob # <<>> <=> Len(rob) >= 1) /\ (rob' # <<>> <=> Len(rob') >= 1)
      /\ r \in 0 .. 2 /\ r <= Len(rob) /\ n \in 0 .. 2
  BY SizeFacts, NextSizes DEF Moves, Retiring
<1> DEFINE L == Len(rob) - r
<1>1. L \in Nat /\ Len(rob') = L + n /\ L = Len(rob) - r
  BY <1>0 DEF Moves, RobNext
<1> HIDE DEF L
<1>2. ASSUME NEW k \in 1 .. Len(rob), k <= L
      PROVE  /\ rob'[k].op = rob[r + k].op /\ (rob'[k].slot <=> rob[r + k].slot)
             /\ r + k \in 1 .. Len(rob) /\ k \in 1 .. Len(rob')
  <2>1. k \in 1 .. Len(rob') /\ k <= Len(rob) - r /\ r + k \in 1 .. Len(rob)
    BY <1>0, <1>1, <1>2
  <2>2. Kept(rob[r + k], rob'[k])
    BY <2>1 DEF Moves, RobNext
  <2> QED
    BY <2>1, <2>2 DEF Kept
<1>3. ASSUME NEW i \in 1 .. n
      PROVE  rob'[L + i].op = dq[i].op /\ L + i \in 1 .. Len(rob')
  <2> DEFINE k == L + i
  <2>1. k \in 1 .. Len(rob') /\ ~(k <= Len(rob) - r) /\ k - (Len(rob) - r) = i
    BY <1>0, <1>1
  <2> HIDE DEF k
  <2>2. Enters(dq[k - (Len(rob) - r)], rob'[k])
    BY <2>1 DEF Moves, RobNext
  <2>3. Enters(dq[i], rob'[k])
    BY <2>1, <2>2
  <2> QED
    BY <2>1, <2>3 DEF Enters, k
<1>4. /\ n > 0 => (rob'[L + 1].slot <=> in_delay_slot)
      /\ n > 1 => (rob'[L + 2].slot <=> IsBr(dq[1].op))
  BY <1>1 DEF Moves, RobNext
<1>5. /\ \A k \in 1 .. Len(rob) : rob[k].slot <=> IF k = 1 THEN want.slot ELSE IsBr(rob[k - 1].op)
      /\ in_delay_slot <=> IF rob = <<>> THEN want.slot ELSE IsBr(rob[Len(rob)].op)
  BY ActiveHead DEF Moves, SlotMarks
<1>6. r > 0 => (want'.slot <=> IsBr(rob[r].op))
  BY MovesPath
<1>7. r = 0 => want' = want
  BY DEF Moves, Reached
<1>8. in_delay_slot <=> IF L = 0 THEN want'.slot ELSE IsBr(rob'[L].op)
  <2>1. CASE L = 0 /\ r = 0
    BY <1>0, <1>1, <1>5, <1>7, <2>1
  <2>2. CASE L = 0 /\ r > 0
    <3>1. Len(rob) = r /\ rob # <<>>
      BY <1>0, <1>1, <2>2
    <3> QED
      BY <1>5, <1>6, <2>2, <3>1
  <2>3. CASE L # 0
    <3>1. L \in 1 .. Len(rob) /\ L <= L /\ r + L = Len(rob) /\ rob # <<>>
      BY <1>0, <1>1, <2>3
    <3>2. rob'[L].op = rob[Len(rob)].op
      BY <1>2, <3>1
    <3> QED
      BY <1>5, <2>3, <3>1, <3>2
  <2> QED
    BY <1>0, <2>1, <2>2, <2>3
<1>9. ASSUME NEW k \in 1 .. Len(rob')
      PROVE  rob'[k].slot <=> IF k = 1 THEN want'.slot ELSE IsBr(rob'[k - 1].op)
  <2>1. CASE k <= L
    <3>0. k \in 1 .. Len(rob)
      BY <1>0, <1>1, <2>1
    <3>1. (rob'[k].slot <=> rob[r + k].slot) /\ r + k \in 1 .. Len(rob)
      BY <1>2, <2>1, <3>0
    <3>a. PICK q \in 1 .. Len(rob) : q = r + k
      BY <3>1
    <3>b. (rob'[k].slot <=> rob[q].slot) /\ (rob[q].slot <=> IF q = 1 THEN want.slot ELSE IsBr(rob[q - 1].op))
      BY <1>5, <3>1, <3>a
    <3>2. CASE k = 1 /\ r = 0
      <4>1. r + k = 1
        BY <3>2
      <4> QED
        BY <1>5, <1>7, <3>1, <3>2, <4>1
    <3>3. CASE k = 1 /\ r > 0
      <4>1. q # 1 /\ q - 1 = r
        BY <1>0, <3>3, <3>a
      <4> QED
        BY <1>6, <3>3, <3>b, <4>1
    <3>4. CASE k # 1
      <4>1. k - 1 \in 1 .. Len(rob) /\ k - 1 <= L /\ q # 1 /\ q - 1 = r + (k - 1)
        BY <1>0, <1>1, <2>1, <3>0, <3>4, <3>a
      <4>2. rob'[k - 1].op = rob[r + (k - 1)].op
        BY <1>2, <4>1
      <4>3. rob[q].slot <=> IsBr(rob[q - 1].op)
        BY <3>b, <4>1
      <4> QED
        BY <3>4, <3>b, <4>1, <4>2, <4>3
    <3> QED
      BY <1>0, <3>2, <3>3, <3>4
  <2>2. CASE k = L + 1
    <3>1. n > 0 /\ k - 1 = L /\ (k = 1 <=> L = 0)
      BY <1>0, <1>1, <2>2
    <3> QED
      BY <1>4, <1>8, <2>2, <3>1
  <2>3. CASE k = L + 2
    <3>1. n > 1 /\ k # 1 /\ k - 1 = L + 1 /\ 1 \in 1 .. n
      BY <1>0, <1>1, <2>3
    <3>2. rob'[L + 1].op = dq[1].op
      BY <1>3, <3>1
    <3> QED
      BY <1>4, <2>3, <3>1, <3>2
  <2> QED
    BY <1>0, <1>1, <2>1, <2>2, <2>3
<1>10. in_delay_slot' <=> IF rob' = <<>> THEN want'.slot ELSE IsBr(rob'[Len(rob')].op)
  <2>0. in_delay_slot' <=> IF n > 0 THEN IsBr(dq[n].op) ELSE in_delay_slot
    BY DEF Moves
  <2>1. CASE n > 0
    <3>1. n \in 1 .. n /\ rob' # <<>> /\ Len(rob') = L + n
      BY <1>0, <1>1, <2>1
    <3>2. rob'[L + n].op = dq[n].op
      BY <1>3, <3>1
    <3> QED
      BY <2>0, <2>1, <3>1, <3>2
  <2>2. CASE n = 0
    <3>1. Len(rob') = L /\ (rob' = <<>> <=> L = 0)
      BY <1>0, <1>1, <2>2
    <3> QED
      BY <1>8, <2>0, <2>2, <3>1
  <2> QED
    BY <1>0, <2>1, <2>2
<1> QED
  BY <1>9, <1>10 DEF SlotMarks

\* No serializing instruction is in the ROB of such a cycle, nor afterwards.
LEMMA NoneSerial ==
    ASSUME TypeOK, FlowInv, NEW r, NEW n, Moves(r, n), r = 0 => ~CanRetire
    PROVE  \A k \in 1 .. Len(rob) : ~Serializing(rob[k].op)
<1>0. Len(rob) \in Nat /\ (rob # <<>> <=> Len(rob) >= 1) /\ r \in 0 .. 2
  BY SizeFacts DEF Moves, Retiring
<1> SUFFICES ASSUME NEW k \in 1 .. Len(rob), Serializing(rob[k].op) PROVE FALSE
  OBVIOUS
<1>1. k = 2 /\ Len(rob) = 2 /\ Faulted(rob[1]) /\ IsBr(rob[1].op) /\ Done(rob[2])
  BY ActiveHead DEF Moves, StreamInv
<1>2. CanRetire
  <2>1. Done(rob[1]) /\ rob # <<>>
    BY <1>0, <1>1 DEF Faulted
  <2>2. SlotReady(rob[1])
    BY <1>1 DEF SlotReady, IsBr
  <2> QED
    BY <2>1, <2>2 DEF CanRetire
<1>3. r >= 1 => ~Faulted(rob[1])
  BY DEF Moves, Retiring
<1> QED
  BY <1>0, <1>1, <1>2, <1>3

LEMMA MovesNotSerial ==
    ASSUME TypeOK, TypeOK', FlowInv, NEW r, NEW n, Moves(r, n), r = 0 => ~CanRetire,
           n > 0 => ~Serializing(dq[1].op), n > 1 => ~Serializing(dq[2].op)
    PROVE  \A k \in 1 .. Len(rob') : ~Serializing(rob'[k].op)
<1>0. /\ Len(rob) \in Nat /\ Len(rob') \in Nat /\ (rob # <<>> <=> Len(rob) >= 1)
      /\ r \in 0 .. 2 /\ r <= Len(rob) /\ n \in 0 .. 2 /\ Len(rob') = Len(rob) - r + n
  BY SizeFacts, NextSizes DEF Moves, Retiring, RobNext
<1>1. \A k \in 1 .. Len(rob) : ~Serializing(rob[k].op)
  BY NoneSerial
<1> SUFFICES ASSUME NEW k \in 1 .. Len(rob') PROVE ~Serializing(rob'[k].op)
  OBVIOUS
<1>2. CASE k <= Len(rob) - r
  <2>1. Kept(rob[r + k], rob'[k]) /\ r + k \in 1 .. Len(rob)
    BY <1>0, <1>2 DEF Moves, RobNext
  <2> QED
    BY <1>1, <2>1 DEF Kept
<1>3. CASE ~(k <= Len(rob) - r)
  <2>1. Enters(dq[k - (Len(rob) - r)], rob'[k])
    BY <1>3 DEF Moves, RobNext
  <2>2. (k - (Len(rob) - r) = 1 /\ n > 0) \/ (k - (Len(rob) - r) = 2 /\ n > 1)
    BY <1>0, <1>3
  <2> QED
    BY <2>1, <2>2 DEF Enters
<1> QED
  BY <1>2, <1>3

\* A cycle that stays in ACTIVE moves the stream on.
LEMMA ActiveMoves ==
    ASSUME TypeOK, FlowInv, L1ICycle(Acked), state = "ACTIVE", state' = "ACTIVE",
           ~PendingRestart, LatchAck, flush_line_req' = FALSE,
           NEW r, Retiring(r), NEW n \in Allocs, Clock(r, r, n, "none", FALSE)
    PROVE  Moves(r, n)
<1>0. n \in 0 .. 2 /\ n <= Len(dq) /\ (n > 0 => ~Serializing(dq[1].op)) /\ (n > 1 => ~Serializing(dq[2].op))
  BY AllocFacts
<1>1. FlushLineInv' /\ GoesOn(Acked) /\ ~restart_req' /\ ~restart_ack' /\ ~got_restart_ack'
  BY ActiveGoesOn
<1>2. GoesOn(Pushes)
  BY <1>1 DEF Acked
<1>3. r \in 0 .. 2 /\ r \in 0 .. Len(rob) /\ r <= Len(rob)
  BY SizeFacts DEF Retiring
<1>4. PICK clr, settle : clr = "none" /\ Clock(r, r, n, clr, settle)
  BY Zenon
<1>5. RobNext(r, n)
  BY <1>0, <1>3, <1>4, ClockRob
<1>6. DqNext(n)
  BY <1>0, ClockDq
<1>7. /\ prog' = prog
      /\ dec_delay_slot' = (clr = "none" /\ n_dec_delay_slot)
      /\ in_delay_slot' = IF n > 0 THEN IsBr(dq[n].op) ELSE clr = "none" /\ in_delay_slot
      /\ last_branch_target' = IF r = 2 /\ IsBr(rob[2].op) THEN TargetPc(rob[2])
                               ELSE IF r > 0 /\ IsBr(rob[1].op) THEN TargetPc(rob[1])
                               ELSE last_branch_target
      /\ want' = IF state = "WRITE_EPC" THEN Begin(Vec)
                 ELSE IF r = 0 THEN want
                 ELSE IF r = 1 THEN Step(want, rob[1])
                 ELSE Step(Step(want, rob[1]), rob[2])
  BY <1>4, ClockRest
<1>8. want' = Reached(r)
  BY <1>7 DEF Reached
<1>9. (dec_delay_slot' <=> n_dec_delay_slot) /\ (in_delay_slot' <=> IF n > 0 THEN IsBr(dq[n].op) ELSE in_delay_slot)
  BY <1>4, <1>7
<1> QED
  BY <1>0, <1>2, <1>5, <1>6, <1>7, <1>8, <1>9 DEF Moves

LEMMA StreamKeeps ==
    ASSUME TypeOK, TypeOK', FlowInv, L1ICycle(Acked), state = "ACTIVE", state' = "ACTIVE",
           ~PendingRestart, LatchAck, NoRestart, flush_line_req' = FALSE,
           NEW r, Retiring(r), r = 0 => ~CanRetire, NEW n \in Allocs, Clock(r, r, n, "none", FALSE)
    PROVE  Keeps
<1>0. n \in 0 .. 2 /\ n <= Len(dq) /\ (n > 0 => ~Serializing(dq[1].op)) /\ (n > 1 => ~Serializing(dq[2].op))
  BY AllocFacts
<1>1. FlushLineInv' /\ GoesOn(Acked) /\ ~restart_req' /\ ~restart_ack' /\ ~got_restart_ack'
  BY ActiveGoesOn
<1>2. r \in 0 .. 2
  BY DEF Retiring
<1>3. PICK clr, settle : clr = "none" /\ Clock(r, r, n, clr, settle)
  BY Zenon
<1>4. /\ prog' = prog
      /\ dec_delay_slot' = (clr = "none" /\ n_dec_delay_slot)
      /\ in_delay_slot' = IF n > 0 THEN IsBr(dq[n].op) ELSE clr = "none" /\ in_delay_slot
      /\ last_branch_target' = IF r = 2 /\ IsBr(rob[2].op) THEN TargetPc(rob[2])
                               ELSE IF r > 0 /\ IsBr(rob[1].op) THEN TargetPc(rob[1])
                               ELSE last_branch_target
      /\ want' = IF state = "WRITE_EPC" THEN Begin(Vec)
                 ELSE IF r = 0 THEN want
                 ELSE IF r = 1 THEN Step(want, rob[1])
                 ELSE Step(Step(want, rob[1]), rob[2])
  BY <1>3, ClockRest
<1>5. Moves(r, n)
  BY ActiveMoves
<1>6. /\ want' \in Reference /\ Sound(prog, want')
      /\ Path(prog, want', StreamLen', Stream', cache_pc', pc', delay_slot')
      /\ Live(Stream', Len(rob') + Len(dq') + 1) =>
            (dec_delay_slot' <=> InSlot(want', Stream', Len(rob') + Len(dq') + 1))
      /\ r > 0 => (want'.slot <=> IsBr(rob[r].op)) /\ (IsBr(rob[r].op) => want'.npc = TargetPc(rob[r]))
  BY <1>5, MovesPath
<1>7. SlotMarks'
  BY <1>5, MovesMarks
<1>8. \A k \in 1 .. Len(rob') : ~Serializing(rob'[k].op)
  BY <1>0, <1>5, MovesNotSerial
<1>9. StreamInv'
  BY <1>4, <1>6, <1>8 DEF StreamInv
<1>10. ~restart_valid'
  BY DEF NoRestart, Aim
<1>11. HeadInv'
  BY <1>1, <1>7, <1>9, <1>10 DEF HeadInv, ActiveInv, PendingRestart
<1>12. RestartInv'
  BY <1>1, <1>10 DEF RestartInv, PendingRestart
<1>13. want'.slot => last_branch_target' = want'.npc
  <2>1. CASE r = 0
    BY <1>4, <2>1 DEF FlowInv, WantInv
  <2>2. CASE r = 1
    BY <1>4, <1>6, <2>2
  <2>3. CASE r = 2
    BY <1>4, <1>6, <2>3
  <2> QED
    BY <1>2, <2>1, <2>2, <2>3
<1>14. WantInv'
  BY <1>4, <1>6, <1>13 DEF WantInv
<1> QED
  BY <1>1, <1>11, <1>12, <1>14 DEF Keeps, HandshakeInv


\* The ROB is empty and fetch has yet to restart, or restarts now.
LEMMA EmptyRestarts ==
    ASSUME TypeOK, TypeOK', FlowInv, L1ICycle(Acked), state = "ACTIVE", state' = "ACTIVE", PendingRestart,
           LatchAck, NoRestart, flush_line_req' = FALSE, prog' = prog, rob' = <<>>, dq' = <<>>,
           ~dec_delay_slot', ~in_delay_slot', Sound(prog, want'), ~want'.slot, want'.pc = restart_pc
    PROVE  Keeps
<1>1. FlushLineInv' /\ (Restarts \/ Defers(Acked) \/ GoesOn(Acked))
  BY NormalStep DEF FlowInv, HandshakeInv
<1>2. Restarts \/ Defers(Acked)
  BY <1>1 DEF GoesOn, PendingRestart, n_restart_req
<1>3. fq = <<>> /\ dq = <<>>
  BY DEF FlowInv, HandshakeInv, RestartInv
<1>4. Acked = 0 /\ Acked \in 0 .. Len(fq)
  BY <1>3, PushesFacts DEF Acked
<1>5. fq' = <<>>
  <2>1. CASE Restarts
    BY <2>1 DEF Restarts
  <2>2. CASE Defers(Acked)
    <3>1. fq' \in Seq(Fetched) /\ Len(fq') = Len(fq) - Acked
      BY <1>4, <2>2, PopFacts DEF Defers, TypeOK
    <3> QED
      BY <1>3, <1>4, <3>1
  <2> QED
    BY <1>2, <2>1, <2>2
<1>6. SlotMarks'
  BY DEF SlotMarks
<1>7. ~restart_valid' /\ restart_pc' = restart_pc /\ ~got_restart_ack'
  BY DEF NoRestart, Aim, LatchAck
<1>8. RestartInv'
  BY <1>5 DEF RestartInv
<1>9. WantInv'
  BY DEF WantInv
<1>10. CASE Restarts
  <2>1. ~restart_req' /\ cache_pc' = NoPc /\ pc' = restart_pc /\ delay_slot' = FALSE
    BY <1>10 DEF Restarts, TypeOK, L1ITypeOK
  <2>2. Len(rob') = 0 /\ Len(dq') = 0 /\ Len(fq') = 0
    BY <1>5
  <2>3. StreamLen' = 0
    BY <2>2 DEF StreamLen
  <2>4. Path(prog, want', 0, Stream', NoPc, restart_pc, FALSE)
    BY PathBegin
  <2>5. Path(prog', want', StreamLen', Stream', cache_pc', pc', delay_slot')
    BY <2>1, <2>3, <2>4
  <2>6. ~InSlot(want', Stream', 1)
    BY DEF InSlot
  <2>7. Len(rob') + Len(dq') + 1 = 1
    BY <2>2
  <2>8. StreamInv'
    BY <2>2, <2>5, <2>6, <2>7 DEF StreamInv
  <2>9. HeadInv'
    BY <1>6, <1>7, <2>1, <2>8 DEF HeadInv, ActiveInv, PendingRestart
  <2> QED
    BY <1>1, <1>8, <1>9, <2>9 DEF Keeps, HandshakeInv
<1>11. CASE Defers(Acked)
  <2>1. restart_req'
    BY <1>11 DEF Defers
  <2>2. RestartingInv'
    BY <1>7 DEF RestartingInv
  <2>3. HeadInv'
    BY <1>6, <2>1, <2>2 DEF HeadInv, ActiveInv, PendingRestart
  <2> QED
    BY <1>1, <1>8, <1>9, <2>3 DEF Keeps, HandshakeInv
<1> QED
  BY <1>2, <1>10, <1>11

\* A serializing instruction retires: fetch restarts where the reference machine
\* then is.
LEMMA SerialStep ==
    ASSUME TypeOK, WantInv, SerialHead, NEW v, v = Step(want, rob[1])
    PROVE  Sound(prog, v) /\ ~v.slot /\ v.pc = RestartPc(rob[1])
<1> DEFINE e == rob[1]
<1>1. e.pc = want.pc /\ (e.slot <=> want.slot) /\ Serializing(e.op) /\ (e.op = "xflush" => ~want.slot)
  BY DEF SerialHead, IsNext
<1>2. ~IsBr(e.op) /\ e.op # "eret"
  BY <1>1 DEF Serializing, IsBr, Nullifying
<1> HIDE DEF e
<1>a. v = Step(want, e) /\ RestartPc(e) = RestartPc(rob[1])
  BY DEF e
<1>3. CASE e.op = "xflush"
  <2>1. v = want
    BY <1>3, <1>a DEF Step, IsBr, Nullifying
  <2> QED
    BY <1>1, <1>3, <1>a, <2>1 DEF WantInv, RestartPc
<1>4. CASE e.op # "xflush"
  <2>1. v = Begin(want.npc)
    BY <1>2, <1>4, <1>a DEF Step, IsBr
  <2>2. v.pc = want.npc /\ ~v.slot /\ Sound(prog, v)
    BY <2>1 DEF Begin, Sound
  <2>3. RestartPc(e) = IF want.slot THEN last_branch_target ELSE Succ(want.pc)
    BY <1>1, <1>2, <1>4 DEF RestartPc, TargetPc
  <2> QED
    BY <1>a, <2>2, <2>3 DEF WantInv, Sound
<1> QED
  BY <1>3, <1>4

LEMMA PendingRetireKeeps ==
    ASSUME TypeOK, TypeOK', FlowInv, L1ICycle(Acked), state = "ACTIVE", state' = "ACTIVE", PendingRestart,
           LatchAck, NoRestart, flush_line_req' = FALSE, rob # <<>>, Clock(1, 1, 0, "none", FALSE)
    PROVE  Keeps
<1>1. SlotMarks /\ RestartingInv /\ WantInv
  BY DEF FlowInv, HeadInv, ActiveInv
<1>2. SerialHead /\ restart_pc = RestartPc(rob[1]) /\ ~dec_delay_slot /\ Len(rob) = 1
  BY <1>1 DEF RestartingInv, SerialHead
<1>3. /\ prog' = prog /\ want' = Step(want, rob[1]) /\ Len(rob') = Len(rob) - 1
  BY OneRetires
<1>4. Sound(prog, want') /\ ~want'.slot /\ want'.pc = restart_pc
  BY <1>1, <1>2, <1>3, SerialStep
<1>5. rob' = <<>>
  BY <1>2, <1>3, NextSizes
<1>6. fq = <<>> /\ dq = <<>> /\ Pushes = 0
  BY PushesFacts DEF FlowInv, HandshakeInv, RestartInv
<1>7. PICK u, z, clr, settle : u = 1 /\ z = 0 /\ clr = "none" /\ Clock(u, u, z, clr, settle)
  BY Zenon
<1>8. z \in 0 .. 2 /\ z <= Len(dq)
  BY <1>7, SizeFacts
<1>9. DqNext(z)
  BY <1>7, <1>8, ClockDq
<1>10. dq' = <<>>
  <2>1. Len(dq') = Len(dq) - z + Pushes
    BY <1>9 DEF DqNext
  <2>2. Len(dq') = 0
    BY <1>6, <1>7, <2>1
  <2> QED
    BY <2>2, NextSizes
<1>11. ~dec_delay_slot'
  <2>1. dec_delay_slot' = (clr = "none" /\ n_dec_delay_slot)
    BY <1>7, ClockRest, Zenon
  <2> QED
    BY <1>2, <1>6, <2>1 DEF n_dec_delay_slot
<1>12. ~in_delay_slot'
  <2>1. in_delay_slot' = IF z > 0 THEN IsBr(dq[z].op) ELSE clr = "none" /\ in_delay_slot
    BY <1>7, ClockRest, Zenon
  <2>2. in_delay_slot' = (clr = "none" /\ in_delay_slot)
    BY <1>7, <2>1
  <2>3. in_delay_slot <=> IsBr(rob[1].op)
    BY <1>1, <1>2 DEF SlotMarks
  <2>4. ~IsBr(rob[1].op)
    BY <1>2 DEF SerialHead, Serializing, IsBr, Nullifying
  <2> QED
    BY <2>2, <2>3, <2>4
<1> QED
  BY <1>3, <1>4, <1>5, <1>10, <1>11, <1>12, EmptyRestarts

LEMMA PendingWaitKeeps ==
    ASSUME TypeOK, TypeOK', FlowInv, L1ICycle(Acked), state = "ACTIVE", state' = "ACTIVE", PendingRestart,
           LatchAck, NoRestart, flush_line_req' = FALSE, rob = <<>>, Clock(0, 0, 0, "none", FALSE)
    PROVE  Keeps
<1>1. SlotMarks /\ RestartingInv /\ WantInv
  BY DEF FlowInv, HeadInv, ActiveInv
<1>2. restart_pc = want.pc /\ ~want.slot /\ ~dec_delay_slot /\ ~in_delay_slot
  BY <1>1 DEF RestartingInv, SlotMarks
<1>3. Still /\ (in_delay_slot' <=> in_delay_slot)
  BY StillNone
<1>4. prog' = prog /\ want' = want /\ Len(rob') = Len(rob)
  BY <1>3 DEF Still
<1>5. rob' = <<>>
  BY <1>4, SizeFacts, NextSizes
<1>6. fq = <<>> /\ dq = <<>> /\ Pushes = 0
  BY PushesFacts DEF FlowInv, HandshakeInv, RestartInv
<1>7. PICK z, clr, settle : z = 0 /\ clr = "none" /\ Clock(z, z, z, clr, settle)
  BY Zenon
<1>8. z \in 0 .. 2 /\ z <= Len(dq)
  BY <1>7, SizeFacts
<1>9. DqNext(z)
  BY <1>7, <1>8, ClockDq
<1>10. dq' = <<>>
  <2>1. Len(dq') = Len(dq) - z + Pushes
    BY <1>9 DEF DqNext
  <2>2. Len(dq') = 0
    BY <1>6, <1>7, <2>1
  <2> QED
    BY <2>2, NextSizes
<1>11. ~dec_delay_slot'
  <2>1. dec_delay_slot' = (clr = "none" /\ n_dec_delay_slot)
    BY <1>7, ClockRest, Zenon
  <2> QED
    BY <1>2, <1>6, <2>1 DEF n_dec_delay_slot
<1>12. Sound(prog, want')
  BY <1>1, <1>4 DEF WantInv
<1> QED
  BY <1>2, <1>3, <1>4, <1>5, <1>10, <1>11, <1>12, EmptyRestarts

LEMMA RetireAndAllocKeeps ==
    ASSUME TypeOK, TypeOK', FlowInv, L1ICycle(Acked), RetireAndAlloc
    PROVE  Keeps
<1>1. /\ state = "ACTIVE" /\ state' = "ACTIVE" /\ CanRetire /\ ~Faulted(rob[1]) /\ rob # <<>> /\ Done(rob[1])
      /\ LatchAck /\ NoRestart /\ flush_line_req' = FALSE
  BY DEF RetireAndAlloc, Goto, Quiet, CanRetire
<1>2. PICK r \in Retires, n \in Allocs : Clock(r, r, n, "none", FALSE)
  BY DEF RetireAndAlloc
<1>3. r \in 1 .. 2 /\ r <= Len(rob)
  BY <1>1, RetireFacts
<1>4. CASE PendingRestart
  <2>1. Len(rob) = 1 /\ dq = <<>>
    BY <1>1, <1>4 DEF FlowInv, HeadInv, ActiveInv, RestartingInv, SerialHead, HandshakeInv, RestartInv
  <2>2. r = 1
    BY <1>3, <2>1
  <2>3. n = 0
    BY <2>1 DEF Allocs, CanAlloc, CanAllocTwo
  <2>4. Clock(1, 1, 0, "none", FALSE)
    BY <1>2, <2>2, <2>3
  <2> QED
    BY <1>1, <1>4, <2>4, PendingRetireKeeps
<1>5. CASE ~PendingRestart
  <2>1. r = 2 => Done(rob[2]) /\ ~Faulted(rob[2])
    BY DEF Retires, CanRetireTwo
  <2>2. Retiring(r)
    BY <1>1, <1>3, <2>1 DEF Retiring
  <2>3. r = 0 => ~CanRetire
    BY <1>3
  <2> QED
    BY <1>1, <1>2, <1>5, <2>2, <2>3, StreamKeeps
<1> QED
  BY <1>4, <1>5

LEMMA AllocOnlyKeeps ==
    ASSUME TypeOK, TypeOK', FlowInv, L1ICycle(Acked), AllocOnly
    PROVE  Keeps
<1>1. /\ state = "ACTIVE" /\ state' = "ACTIVE" /\ ~CanRetire
      /\ LatchAck /\ NoRestart /\ flush_line_req' = FALSE
  BY DEF AllocOnly, Goto, Quiet
<1>2. PICK n \in Allocs : Clock(0, 0, n, "none", FALSE)
  BY DEF AllocOnly
<1>3. CASE PendingRestart
  <2>1. dq = <<>>
    BY <1>1, <1>3 DEF FlowInv, HandshakeInv, RestartInv
  <2>2. n = 0
    BY <2>1 DEF Allocs, CanAlloc, CanAllocTwo
  <2>3. RestartingInv
    BY <1>1, <1>3 DEF FlowInv, HeadInv, ActiveInv
  <2>4. rob = <<>>
    <3> SUFFICES ASSUME rob # <<>> PROVE FALSE
      OBVIOUS
    <3>1. Serializing(rob[1].op) /\ Done(rob[1])
      BY <2>3 DEF RestartingInv, SerialHead
    <3>2. ~Faulted(rob[1])
      BY <3>1 DEF Faulted, Serializing, Nullifying
    <3> QED
      BY <1>1, <3>1, <3>2 DEF CanRetire
  <2>5. Clock(0, 0, 0, "none", FALSE)
    BY <1>2, <2>2
  <2> QED
    BY <1>1, <1>3, <2>4, <2>5, PendingWaitKeeps
<1>4. CASE ~PendingRestart
  <2>1. PICK r : r = 0 /\ Clock(r, r, n, "none", FALSE)
    BY <1>2, Zenon
  <2>2. Retiring(r)
    BY <2>1, SizeFacts DEF Retiring
  <2> QED
    BY <1>1, <1>4, <2>1, <2>2, StreamKeeps
<1> QED
  BY <1>3, <1>4

-----------------------------------------------------------------------------
(* The invariant.                                                           *)

LEMMA FlowStep ==
    ASSUME LikelySlotsSafe, TypeOK, FlowInv, Next
    PROVE  TypeOK' /\ FlowInv'
<1>0. CoreCycle /\ L1ICycle(Acked) /\ HeadInv /\ OpInv
  BY DEF Next, FlowInv
<1>1. TypeOK' /\ OpInv'
  BY <1>0, TypeStep, OpStep
<1>2. Keeps
  <2>1. CASE EnterSerializeInSlot
    BY <1>0, <1>1, <2>1, EnterSerializeInSlotKeeps
  <2>2. CASE EnterArchFault
    BY <1>0, <1>1, <2>2, EnterArchFaultKeeps
  <2>3. CASE RetireMispredict
    BY <1>0, <1>1, <2>3, RetireMispredictKeeps
  <2>4. CASE RetireAndAlloc
    BY <1>0, <1>1, <2>4, RetireAndAllocKeeps
  <2>5. CASE EnterSerialize
    BY <1>0, <1>1, <2>5, EnterSerializeKeeps
  <2>6. CASE AllocOnly
    BY <1>0, <1>1, <2>6, AllocOnlyKeeps
  <2>7. CASE DrainNullified
    BY <1>0, <1>1, <2>7, DrainNullifiedKeeps
  <2>8. CASE DrainSlotRetires
    BY <1>0, <1>1, <2>8, DrainSlotRetiresKeeps
  <2>9. CASE DrainSlotFaults
    BY <1>0, <1>1, <2>9, DrainSlotFaultsKeeps
  <2>10. CASE DrainEnds
    BY <1>0, <1>1, <2>10, DrainEndsKeeps
  <2>11. CASE DrainWaits
    BY <1>0, <1>1, <2>11, DrainWaitsKeeps
  <2>12. CASE RatWaits
    BY <1>0, <1>1, <2>12, RatWaitsKeeps
  <2>13. CASE RatEnds
    BY <1>0, <1>1, <2>13, RatEndsKeeps
  <2>14. CASE AllocForSerialize
    BY <1>0, <1>1, <2>14, AllocForSerializeKeeps
  <2>15. CASE WaitForSerialize
    BY <1>0, <1>1, <2>15, WaitForSerializeKeeps
  <2>16. CASE SerializeRestarts
    BY <1>0, <1>1, <2>16, SerializeRestartsKeeps
  <2>17. CASE StartFlush
    BY <1>0, <1>1, <2>17, StartFlushKeeps
  <2>18. CASE FlushWaits
    BY <1>0, <1>1, <2>18, FlushWaitsKeeps
  <2>19. CASE FlushRestarts
    BY <1>0, <1>1, <2>19, FlushRestartsKeeps
  <2>20. CASE AllocSlotSerialize
    BY <1>0, <1>1, <2>20, AllocSlotSerializeKeeps
  <2>21. CASE WaitSlotSerialize
    BY <1>0, <1>1, <2>21, WaitSlotSerializeKeeps
  <2>22. CASE TakeFault
    BY <1>0, <1>1, <2>22, TakeFaultKeeps
  <2>23. CASE WriteEpc
    BY <1>0, <1>1, <2>23, WriteEpcKeeps
  <2> QED
    BY <1>0, <2>1, <2>2, <2>3, <2>4, <2>5, <2>6, <2>7, <2>8, <2>9, <2>10, <2>11, <2>12, <2>13, <2>14,
       <2>15, <2>16, <2>17, <2>18, <2>19, <2>20, <2>21, <2>22, <2>23 DEF CoreCycle
<1> QED
  BY <1>1, <1>2 DEF Keeps, FlowInv

LEMMA FlowStutter ==
    ASSUME TypeOK, FlowInv, UNCHANGED vars
    PROVE  TypeOK' /\ FlowInv'
<1>1. /\ UNCHANGED <<prog, restart_valid, restart_pc, flush_line_req, l1i_state, pc, cache_pc, delay_slot, fq,
                     restart_req, fline_req, restart_ack, fline_complete>>
      /\ UNCHANGED <<state, dq, dec_delay_slot, rob, in_delay_slot, pending_fault, oldest_first_pending, ds_done,
                     drain, last_branch_target, got_restart_ack, colour, dead, flushing, xflush_pend, xflush_left,
                     fault_epc, epc, exl, want, undone, skipped>>
  BY DEF vars, corevars, l1ivars
<1>2. TypeOK'
  BY <1>1 DEF TypeOK, L1ITypeOK
<1>3. WantInv' /\ FlushLineInv'
  BY <1>1 DEF FlowInv, HandshakeInv, WantInv, FlushLineInv, Sound, NoHandshake, PendingRestart, AckSeen
<1>4. RestartInv'
  BY <1>1 DEF FlowInv, HandshakeInv, RestartInv, NoHandshake, PendingRestart, AckSeen, RestartPc, TargetPc, Target, Done
<1>5. OpInv'
  BY <1>1 DEF FlowInv, OpInv, OpAt
<1>6. StreamLen' = StreamLen /\ Stream' = Stream /\ FetchStream' = FetchStream
  BY <1>1 DEF StreamLen, Stream, FetchStream
<1>7. SlotMarks' <=> SlotMarks
  BY <1>1 DEF SlotMarks
<1>8. StreamInv' <=> StreamInv
  BY <1>1, <1>6 DEF StreamInv
<1>9. RestartingInv' <=> RestartingInv
  BY <1>1 DEF RestartingInv, SerialHead, IsNext, RestartPc, TargetPc, Target
<1>10. (PendingRestart' <=> PendingRestart) /\ (DrainInv' <=> DrainInv) /\ (FetchInv' <=> FetchInv)
  BY <1>1, <1>6 DEF PendingRestart, DrainInv, FetchInv, IsNext
<1>11. HeadInv'
  BY <1>1, <1>7, <1>8, <1>9, <1>10 DEF FlowInv, HeadInv, ActiveInv, SerialHead, IsNext, BranchHead, SerialSlot
<1> QED
  BY <1>2, <1>3, <1>4, <1>5, <1>11 DEF FlowInv, HandshakeInv

LEMMA FlowInit ==
    ASSUME Init
    PROVE  TypeOK /\ FlowInv
<1>0. 0 \in Pc /\ Succ(0) \in Pc
  BY ProgramAssumption, SuccType DEF Pc
<1>1. TypeOK
  <2>1. want \in Reference
    BY <1>0 DEF Init, Begin, Reference
  <2>2. L1ITypeOK
    <3>1. FqEntries \in Nat
      BY CoreAssumption
    <3>2. fq \in Seq(Fetched) /\ Len(fq) <= FqEntries
      BY <3>1 DEF Init, L1IInit
    <3>3. l1i_state \in L1IState /\ pc \in Pc /\ cache_pc \in Pc \cup {NoPc}
      BY <1>0 DEF Init, L1IInit, L1IState
    <3>4. {delay_slot, restart_req, fline_req, restart_ack, fline_complete} \subseteq BOOLEAN
      BY DEF Init, L1IInit
    <3> QED
      BY <3>2, <3>3, <3>4 DEF L1ITypeOK
  <2>3. dq \in Seq(Uop) /\ Len(dq) <= DqEntries /\ rob \in Seq(Entry) /\ Len(rob) <= RobEntries
    BY CoreAssumption DEF Init
  <2>4. xflush_left \in 0 .. MaxXflush
    BY CoreAssumption DEF Init
  <2> QED
    BY <1>0, <2>1, <2>2, <2>3, <2>4 DEF Init, TypeOK, State
<1>2. want.pc = 0 /\ ~want.slot /\ Sound(prog, want)
  BY DEF Init, Begin, Sound
<1>3. WantInv /\ HandshakeInv /\ OpInv
  <2>1. WantInv
    BY <1>2 DEF WantInv
  <2>2. HandshakeInv
    BY DEF Init, L1IInit, HandshakeInv, FlushLineInv, RestartInv, NoHandshake, PendingRestart, AckSeen
  <2>3. OpInv
    BY DEF Init, L1IInit, OpInv
  <2> QED
    BY <2>1, <2>2, <2>3
<1>4. Len(rob) = 0 /\ Len(dq) = 0 /\ Len(fq) = 0 /\ rob = <<>>
  BY DEF Init, L1IInit
<1>5. StreamLen = 0
  BY <1>4 DEF StreamLen
<1>6. StreamInv
  <2>1. Path(prog, want, 0, Stream, NoPc, 0, FALSE)
    BY <1>2, PathBegin
  <2>2. Path(prog, want, StreamLen, Stream, cache_pc, pc, delay_slot)
    BY <1>5, <2>1 DEF Init, L1IInit
  <2>3. ~InSlot(want, Stream, 1) /\ ~dec_delay_slot
    BY <1>2 DEF InSlot, Init
  <2>4. Len(rob) + Len(dq) + 1 = 1
    BY <1>4
  <2> QED
    BY <1>4, <2>2, <2>3, <2>4 DEF StreamInv
<1>7. SlotMarks
  BY <1>2, <1>4 DEF SlotMarks, Init
<1>8. HeadInv
  BY <1>6, <1>7 DEF HeadInv, ActiveInv, PendingRestart, Init, L1IInit
<1> QED
  BY <1>1, <1>3, <1>8 DEF FlowInv

\* Types are kept, and what is fetched, decoded and in the ROB is the predicted path
\* from where the reference machine is, until fetch restarts there.
THEOREM FlowHolds == ASSUME LikelySlotsSafe PROVE Spec => [](TypeOK /\ FlowInv)
<1>1. Init => TypeOK /\ FlowInv
  BY FlowInit
<1>2. TypeOK /\ FlowInv /\ [Next]_vars => (TypeOK /\ FlowInv)'
  BY FlowStep, FlowStutter
<1> QED
  BY <1>1, <1>2, PTL DEF Spec

\* An exception reports the instruction the reference machine has reached.
THEOREM ExceptionsPrecise == ASSUME LikelySlotsSafe PROVE Spec => []PreciseException
<1>1. FlowInv => PreciseException
  BY DEF FlowInv, HeadInv, PreciseException
<1> QED
  BY <1>1, FlowHolds, PTL

-----------------------------------------------------------------------------
(* The entries that will retire.                                            *)

LEMMA LeastOf ==
    ASSUME NEW R, NEW S, IsWellFoundedOn(R, S), NEW T, T \subseteq S, T # {}
    PROVE  S = Nat /\ (\A x, y \in Nat : x < y => <<x, y>> \in R) => \E n \in T : \A m \in T : n <= m
<1>1. PICK x \in T : \A y \in T : ~ (<<y, x>> \in R)
  BY WFMin, SMTT(60)
<1> HAVE S = Nat /\ \A y, z \in Nat : y < z => <<y, z>> \in R
<1>2. \A y \in T : ~(y < x)
  BY <1>1, Zenon
<1> QED
  BY <1>2

LEMMA LessRel == \A x, y \in Nat : x < y => <<x, y>> \in OpToRel(<, Nat)
BY DEF OpToRel

LEMMA LeastNat ==
    ASSUME NEW T, T \subseteq Nat, T # {} PROVE \E n \in T : \A m \in T : n <= m
BY NatLessThanWellFounded, LessRel, LeastOf, Zenon

\* w follows the reference machine along the first n entries of the ROB.
Follows(n, w) == w = [j \in 1 .. n |-> IF j = 1 THEN want ELSE Step(w[j - 1], rob[j - 1])]

LEMMA FollowsExists == \A n \in Nat : \E w : Follows(n, w)
<1> DEFINE T == {n \in Nat : ~\E w : Follows(n, w)}
<1> SUFFICES ASSUME T # {} PROVE FALSE
  OBVIOUS
<1>1. PICK n \in T : \A m \in T : n <= m
  BY LeastNat
<1>2. n \in Nat /\ ~\E w : Follows(n, w)
  OBVIOUS
<1>3. CASE n = 0
  <2> DEFINE w == [j \in 1 .. 0 |-> want]
  <2>1. Follows(0, w)
    BY DEF Follows
  <2> HIDE DEF w
  <2> QED
    BY <1>2, <1>3, <2>1
<1>4. CASE n # 0
  <2>1. n - 1 \in Nat /\ ~(n - 1 \in T)
    <3>1. n - 1 \in Nat /\ ~(n <= n - 1)
      BY <1>2, <1>4
    <3> HIDE DEF T
    <3> QED
      BY <1>1, <3>1
  <2>2. PICK f : Follows(n - 1, f)
    BY <2>1
  <2> DEFINE w == [j \in 1 .. n |-> IF j < n THEN f[j] ELSE IF n = 1 THEN want ELSE Step(f[n - 1], rob[n - 1])]
  <2>3. \A j \in 1 .. n - 1 : f[j] = IF j = 1 THEN want ELSE Step(f[j - 1], rob[j - 1])
    BY <2>2 DEF Follows
  <2>4. ASSUME NEW j \in 1 .. n
        PROVE  w[j] = IF j = 1 THEN want ELSE Step(w[j - 1], rob[j - 1])
    <3>1. CASE j < n /\ j = 1
      BY <1>2, <2>3, <3>1
    <3>2. CASE j < n /\ j # 1
      <4>1. j \in 1 .. n - 1 /\ j - 1 \in 1 .. n /\ j - 1 < n
        BY <1>2, <3>2
      <4>2. w[j] = f[j] /\ w[j - 1] = f[j - 1]
        BY <3>2, <4>1
      <4> HIDE DEF w
      <4> QED
        BY <2>3, <3>2, <4>1, <4>2
    <3>3. CASE j = n /\ n = 1
      BY <3>3
    <3>4. CASE j = n /\ n # 1
      <4>1. n - 1 \in 1 .. n /\ n - 1 < n /\ ~(n < n)
        BY <1>2, <1>4, <3>4
      <4>2. w[n - 1] = f[n - 1] /\ w[n] = Step(f[n - 1], rob[n - 1])
        BY <1>2, <3>4, <4>1
      <4> HIDE DEF w
      <4> QED
        BY <3>4, <4>2
    <3> QED
      BY <1>2, <3>1, <3>2, <3>3, <3>4
  <2>5. w = [j \in 1 .. n |-> w[j]]
    OBVIOUS
  <2> HIDE DEF w
  <2>6. w = [j \in 1 .. n |-> IF j = 1 THEN want ELSE Step(w[j - 1], rob[j - 1])]
    BY <2>4, <2>5
  <2>7. Follows(n, w)
    BY <2>6 DEF Follows
  <2> QED
    BY <1>2, <2>7
<1> QED
  BY <1>3, <1>4

LEMMA WantAtFollows ==
    ASSUME NEW i \in Nat
    PROVE  \E w : WantAt(i) = w[i] /\ \A j \in 1 .. i : w[j] = IF j = 1 THEN want ELSE Step(w[j - 1], rob[j - 1])
<1> DEFINE v == CHOOSE w : Follows(i, w)
<1>1. Follows(i, v)
  BY FollowsExists
<1>2. v = [j \in 1 .. i |-> IF j = 1 THEN want ELSE Step(v[j - 1], rob[j - 1])]
  BY <1>1 DEF Follows
<1>3. WantAt(i) = v[i]
  BY DEF WantAt, Follows
<1> HIDE DEF v
<1>4. \A j \in 1 .. i : v[j] = IF j = 1 THEN want ELSE Step(v[j - 1], rob[j - 1])
  BY <1>2
<1> QED
  BY <1>3, <1>4


\* The entry behind e, for the reference machine at w.
LEMMA LeadsOn ==
    ASSUME TypeOK, NEW w \in Reference, Sound(prog, w), NEW e \in Entry, e.pc = w.pc, Right(prog, e),
           Leads(e), ~Serializing(e.op), IsBr(e.op) => ~w.slot, NEW v, v = Step(w, e)
    PROVE  /\ v.pc = w.npc /\ (v.slot <=> IsBr(e.op)) /\ v \in Reference /\ ~Ends(e.op)
           /\ ~Faulted(e) => /\ Sound(prog, v)
                             /\ v.npc = IF IsBr(e.op) /\ e.pred THEN prog[e.pc].tgt ELSE Succ(w.npc)
<1>0. Done(e) /\ v \in Reference
  BY StepType DEF Leads
<1>1. CASE ~Faulted(e)
  BY <1>0, <1>1, RetireOne
<1>2. CASE Faulted(e)
  <2>1. IsBr(e.op) /\ (e.out \/ e.op = "br") /\ e.op \notin {"xflush", "eret"} /\ ~Ends(e.op)
    BY <1>2 DEF Leads, IsBr, Nullifying, Ends
  <2>2. v = [pc |-> w.npc, npc |-> v.npc, slot |-> TRUE]
    <3>1. CASE e.out
      BY <2>1, <3>1 DEF Step, IsBr, Nullifying
    <3>2. CASE ~e.out
      BY <2>1, <3>2 DEF Step, IsBr, Nullifying
    <3> QED
      BY <3>1, <3>2
  <2>3. v.pc = w.npc /\ v.slot
    BY <2>2
  <2> QED
    BY <1>0, <1>2, <2>1, <2>3
<1> QED
  BY <1>1, <1>2

\* In ACTIVE, with no restart to come, the entries on the path are what the
\* reference machine executes.
LEMMA ActiveInOrder ==
    ASSUME TypeOK, FlowInv, state = "ACTIVE", ~PendingRestart,
           NEW i \in 1 .. Len(rob), OnPath(i), NEW w,
           \A j \in 1 .. i : w[j] = IF j = 1 THEN want ELSE Step(w[j - 1], rob[j - 1])
    PROVE  w[i] \in Reference /\ rob[i].pc = w[i].pc /\ (rob[i].slot <=> w[i].slot)
<1>0. /\ Len(rob) \in Nat /\ StreamLen \in Nat /\ StreamLen >= Len(rob)
      /\ want \in Reference /\ Sound(prog, want) /\ prog \in Programs
      /\ \A k \in 1 .. Len(rob) : rob[k] \in Entry /\ Right(prog, rob[k])
  BY SizeFacts, StreamFacts DEF FlowInv, WantInv, OpInv, TypeOK
<1>1. SlotMarks /\ StreamInv
  BY ActiveHead
<1>2. Path(prog, want, StreamLen, Stream, cache_pc, pc, delay_slot)
  BY <1>1 DEF StreamInv
<1>3. \A k \in 1 .. Len(rob) : Stream[k].pc = rob[k].pc /\ Stream[k].op = rob[k].op /\ Stream[k].pred = rob[k].pred
  BY <1>0, StreamFacts
<1>4. ASSUME NEW j \in 1 .. i - 1
      PROVE  /\ j \in 1 .. Len(rob) /\ j + 1 \in 1 .. Len(rob) /\ j + 1 \in 1 .. i /\ j \in 1 .. i
             /\ Leads(rob[j]) /\ ~Serializing(rob[j].op) /\ (j + 1 < i => ~Faulted(rob[j]))
  <2>1. j \in 1 .. Len(rob) /\ j + 1 \in 1 .. Len(rob) /\ j + 1 \in 1 .. i /\ j \in 1 .. i
    BY <1>0
  <2>2. Leads(rob[j])
    BY DEF OnPath
  <2>3. j + 1 < i => ~Faulted(rob[j])
    BY DEF OnPath
  <2>4. ~Serializing(rob[j].op)
    BY <1>0, <1>1, <2>1 DEF StreamInv
  <2> QED
    BY <2>1, <2>2, <2>3, <2>4
<1>5. ASSUME NEW j \in 1 .. i - 1
      PROVE  ~Ends(rob[j].op)
  <2>1. Leads(rob[j]) /\ ~Serializing(rob[j].op)
    BY <1>4
  <2> QED
    BY <2>1 DEF Leads, Faulted, Ends, IsBr, Nullifying
<1>6. ASSUME NEW j \in 1 .. i
      PROVE  /\ j \in 1 .. Len(rob) /\ Live(Stream, j) /\ rob[j].pc = PcOf(prog, want, Stream, j)
             /\ InSlot(want, Stream, j) => ~IsBr(rob[j].op)
             /\ rob[j].slot <=> InSlot(want, Stream, j)
  <2>1. j \in 1 .. Len(rob) /\ j \in 1 .. StreamLen
    BY <1>0
  <2>2. Live(Stream, j)
    <3> SUFFICES ASSUME NEW k \in 1 .. j - 1 PROVE ~Ends(Stream[k].op)
      BY DEF Live
    <3>1. k \in 1 .. i - 1 /\ k \in 1 .. Len(rob)
      BY <1>0
    <3> QED
      BY <1>3, <1>5, <3>1
  <2>3. /\ Stream[j].pc = PcOf(prog, want, Stream, j)
        /\ InSlot(want, Stream, j) => ~IsBr(Stream[j].op)
    BY <1>2, <2>1, <2>2 DEF Path
  <2>4. rob[j].slot <=> InSlot(want, Stream, j)
    <3>1. rob[j].slot <=> IF j = 1 THEN want.slot ELSE IsBr(rob[j - 1].op)
      BY <1>1, <2>1 DEF SlotMarks
    <3>2. CASE j = 1
      BY <3>1, <3>2 DEF InSlot
    <3>3. CASE j # 1
      <4>1. j - 1 \in 1 .. Len(rob)
        BY <1>0, <2>1, <3>3
      <4>2. Stream[j - 1].op = rob[j - 1].op
        BY <1>3, <4>1
      <4> QED
        BY <3>1, <3>3, <4>2 DEF InSlot
    <3> QED
      BY <3>2, <3>3
  <2> QED
    BY <1>3, <2>1, <2>2, <2>3, <2>4
<1> DEFINE Good(j) == /\ w[j] \in Reference /\ rob[j].pc = w[j].pc /\ (rob[j].slot <=> w[j].slot)
                      /\ j < i => /\ Sound(prog, w[j])
                                  /\ w[j].npc = After(prog, want, Stream, j, rob[j].pc)
<1>7. Good(1)
  <2>1. 1 \in 1 .. i /\ w[1] = want
    BY <1>0
  <2>2. rob[1].pc = want.pc /\ (rob[1].slot <=> want.slot)
    BY <1>6, <2>1 DEF PcOf, InSlot
  <2>3. want.npc = After(prog, want, Stream, 1, rob[1].pc)
    BY DEF After
  <2> QED
    BY <1>0, <2>1, <2>2, <2>3
<1>8. ASSUME NEW j \in 1 .. i - 1, Good(j)
      PROVE  Good(j + 1)
  <2> DEFINE q == j + 1
  <2>0. /\ j \in 1 .. Len(rob) /\ q \in 1 .. Len(rob) /\ q \in 1 .. i /\ j \in 1 .. i
        /\ Leads(rob[j]) /\ ~Serializing(rob[j].op) /\ (q < i => ~Faulted(rob[j]))
    BY <1>4
  <2>a. j < i /\ q # 1 /\ q - 1 = j
    BY <1>0
  <2>1. w[j] \in Reference /\ rob[j].pc = w[j].pc /\ (rob[j].slot <=> w[j].slot) /\ Sound(prog, w[j])
        /\ w[j].npc = After(prog, want, Stream, j, rob[j].pc)
    BY <1>8, <2>a
  <2> HIDE DEF q, Good
  <2>2. w[q] = Step(w[j], rob[j])
    BY <2>0, <2>a
  <2>3. rob[j] \in Entry /\ Right(prog, rob[j])
    BY <1>0, <2>0
  <2>4. IsBr(rob[j].op) => ~w[j].slot
    BY <1>6, <2>0, <2>1
  <2>5. /\ w[q].pc = w[j].npc /\ (w[q].slot <=> IsBr(rob[j].op)) /\ w[q] \in Reference
        /\ ~Faulted(rob[j]) => /\ Sound(prog, w[q])
                               /\ w[q].npc = IF IsBr(rob[j].op) /\ rob[j].pred THEN prog[rob[j].pc].tgt
                                             ELSE Succ(w[j].npc)
    <3>1. PICK x, e, v : x = w[j] /\ e = rob[j] /\ v = w[q]
      OBVIOUS
    <3>2. /\ v.pc = x.npc /\ (v.slot <=> IsBr(e.op)) /\ v \in Reference
          /\ ~Faulted(e) => /\ Sound(prog, v)
                            /\ v.npc = IF IsBr(e.op) /\ e.pred THEN prog[e.pc].tgt ELSE Succ(x.npc)
      <4>1. /\ x \in Reference /\ Sound(prog, x) /\ e \in Entry /\ e.pc = x.pc /\ Right(prog, e)
            /\ Leads(e) /\ ~Serializing(e.op) /\ (IsBr(e.op) => ~x.slot) /\ v = Step(x, e)
        BY <2>0, <2>1, <2>2, <2>3, <2>4, <3>1
      <4> QED
        BY <4>1, LeadsOn
    <3> QED
      BY <3>1, <3>2
  <2>6. Stream[j].op = rob[j].op /\ Stream[j].pc = rob[j].pc /\ Stream[j].pred = rob[j].pred
    BY <1>3, <2>0
  <2>7. PcOf(prog, want, Stream, q) = After(prog, want, Stream, j, Stream[j].pc)
    BY <2>a DEF PcOf
  <2>8. rob[q].pc = w[q].pc
    BY <1>6, <2>0, <2>1, <2>5, <2>6, <2>7
  <2>9. InSlot(want, Stream, q) <=> IsBr(rob[j].op)
    BY <2>6, <2>a DEF InSlot
  <2>10. rob[q].slot <=> w[q].slot
    BY <1>6, <2>0, <2>5, <2>9
  <2>11. After(prog, want, Stream, q, rob[q].pc) =
            IF IsBr(rob[j].op) /\ rob[j].pred THEN prog[rob[j].pc].tgt ELSE Succ(rob[q].pc)
    BY <2>6, <2>a DEF After
  <2>12. q < i => Sound(prog, w[q]) /\ w[q].npc = After(prog, want, Stream, q, rob[q].pc)
    BY <2>0, <2>5, <2>8, <2>11
  <2>13. Good(q)
    BY <2>5, <2>8, <2>10, <2>12 DEF Good
  <2> QED
    BY <2>13 DEF q
<1> HIDE DEF Good
<1>9. Good(i)
  <2> DEFINE T == {j \in Nat : j \in 1 .. i /\ ~Good(j)}
  <2> SUFFICES ASSUME T # {} PROVE FALSE
    <3>1. i \in Nat /\ i \in 1 .. i
      BY <1>0
    <3> QED
      BY <3>1
  <2>1. PICK m \in T : \A k \in T : m <= k
    BY LeastNat
  <2>2. m \in Nat /\ m \in 1 .. i /\ ~Good(m)
    OBVIOUS
  <2>3. m # 1
    BY <1>7, <2>2
  <2>4. m - 1 \in Nat /\ m - 1 \in 1 .. i - 1 /\ m - 1 \in 1 .. i /\ ~(m <= m - 1) /\ (m - 1) + 1 = m
    BY <1>0, <2>2, <2>3
  <2>5. Good(m - 1)
    BY <2>1, <2>4
  <2>6. Good((m - 1) + 1)
    BY <1>8, <2>4, <2>5
  <2> QED
    BY <2>2, <2>4, <2>6
<1> QED
  BY <1>9 DEF Good

LEMMA InOrderHolds ==
    ASSUME TypeOK, FlowInv
    PROVE  InOrder
<1> SUFFICES ASSUME HeadIsNext, NEW i \in 1 .. Len(rob), OnPath(i)
             PROVE  rob[i].pc = WantAt(i).pc /\ rob[i].slot = WantAt(i).slot
  BY DEF InOrder
<1>0. Len(rob) \in Nat /\ i \in Nat /\ rob[i] \in Entry /\ rob[1] \in Entry /\ rob # <<>> /\ Len(rob) >= 1
      /\ want \in Reference /\ WantInv /\ HeadInv
  BY SizeFacts DEF TypeOK, FlowInv
<1>1. PICK w : WantAt(i) = w[i] /\ \A j \in 1 .. i : w[j] = IF j = 1 THEN want ELSE Step(w[j - 1], rob[j - 1])
  BY <1>0, WantAtFollows
<1>2. w[1] = want
  BY <1>0, <1>1
<1>3. SUFFICES w[i] \in Reference /\ rob[i].pc = w[i].pc /\ (rob[i].slot <=> w[i].slot)
  <2>1. w[i].slot \in BOOLEAN /\ rob[i].slot \in BOOLEAN
    BY <1>0, <1>3 DEF Reference, Entry
  <2> QED
    BY <1>1, <1>3, <2>1
<1>4. ASSUME i = 1, IsNext(rob[1])
      PROVE  w[i] \in Reference /\ rob[i].pc = w[i].pc /\ (rob[i].slot <=> w[i].slot)
  BY <1>0, <1>2, <1>4 DEF IsNext
<1>5. CASE state = "ACTIVE"
  <2>1. CASE PendingRestart
    <3>1. SerialHead
      BY <1>0, <1>5, <2>1 DEF HeadInv, ActiveInv, RestartingInv
    <3> QED
      BY <1>0, <1>4, <3>1 DEF SerialHead
  <2>2. CASE ~PendingRestart
    BY <1>1, <1>5, <2>2, ActiveInOrder
  <2> QED
    BY <2>1, <2>2
<1>6. CASE state \in {"WAIT_FOR_SERIALIZE_AND_RESTART", "CACHE_FLUSH"}
  <2>1. SerialHead
    BY <1>0, <1>6 DEF HeadInv
  <2> QED
    BY <1>0, <1>4, <2>1 DEF SerialHead
<1>7. CASE state = "ARCH_FAULT"
  <2>1. IsNext(rob[1]) /\ ArchFault(rob[1])
    BY <1>0, <1>7 DEF HeadInv
  <2>2. i = 1
    <3> SUFFICES ASSUME i # 1 PROVE FALSE
      OBVIOUS
    <3>1. 1 \in 1 .. i - 1
      BY <1>0
    <3>2. Leads(rob[1])
      BY <3>1 DEF OnPath
    <3> QED
      BY <2>1, <3>2 DEF Leads, ArchFault, IsBr, Nullifying
  <2> QED
    BY <1>4, <2>1, <2>2
<1>8. CASE state = "SERIALIZE_IN_FAULTED_DELAY_SLOT"
  <2>1. BranchHead /\ Len(rob) = 1
    BY <1>0, <1>8 DEF HeadInv
  <2> QED
    BY <1>0, <1>4, <2>1 DEF BranchHead
<1>9. CASE state = "WAIT_FOR_SERIALIZE_IN_FAULTED_DELAY_SLOT"
  <2>1. BranchHead /\ Len(rob) = 2 /\ SerialSlot(rob[2]) /\ rob[2].slot
    BY <1>0, <1>9 DEF HeadInv
  <2>2. CASE i = 1
    BY <1>4, <2>1, <2>2 DEF BranchHead
  <2>3. CASE i = 2
    <3>1. 1 \in 1 .. i - 1 /\ 1 \in 1 .. Len(rob) /\ 2 \in 1 .. i
      BY <1>0, <2>3
    <3>2. Leads(rob[1])
      BY <3>1 DEF OnPath
    <3>3. w[2] = Step(want, rob[1])
      BY <1>1, <1>2, <3>1
    <3>4. Right(prog, rob[1])
      BY <3>1 DEF FlowInv, OpInv
    <3>5. /\ rob[1].pc = want.pc /\ Faulted(rob[1]) /\ IsBr(rob[1].op) /\ ~want.slot /\ ~Serializing(rob[1].op)
      BY <2>1 DEF BranchHead, IsNext, IsBr, Nullifying, Serializing
    <3>6. w[2].pc = want.npc /\ w[2].slot /\ w[2] \in Reference
      <4>1. PICK v, e : v = w[2] /\ e = rob[1]
        OBVIOUS
      <4>2. v.pc = want.npc /\ (v.slot <=> IsBr(e.op)) /\ v \in Reference
        <5>1. /\ e \in Entry /\ e.pc = want.pc /\ Right(prog, e) /\ Leads(e) /\ ~Serializing(e.op)
              /\ (IsBr(e.op) => ~want.slot) /\ v = Step(want, e) /\ Sound(prog, want)
          BY <1>0, <3>2, <3>3, <3>4, <3>5, <4>1 DEF WantInv
        <5> QED
          BY <1>0, <5>1, LeadsOn
      <4> QED
        BY <3>5, <4>1, <4>2
    <3> QED
      BY <2>1, <2>3, <3>6 DEF SerialSlot
  <2> QED
    BY <1>0, <2>1, <2>2, <2>3
<1>10. CASE state = "DRAIN" /\ SlotPending /\ ~(drain.nullify /\ ~drain.taken)
  <2>1. i = 1
    BY <1>10 DEF OnPath
  <2>2. IsNext(rob[1])
    BY <1>0, <1>10 DEF HeadInv, DrainInv, SlotPending
  <2> QED
    BY <1>4, <2>1, <2>2
<1> QED
  BY <1>5, <1>6, <1>7, <1>8, <1>9, <1>10 DEF HeadIsNext

\* The entries of the ROB that will retire are, in order, the instructions the
\* reference machine executes.
THEOREM RetiresInOrder == ASSUME LikelySlotsSafe PROVE Spec => []InOrder
BY InOrderHolds, FlowHolds, PTL

-----------------------------------------------------------------------------
(* CACHE operations.                                                        *)

\* A cycle in which nothing retires.
NoRetire == \E drop, alloc, clr, settle : Clock(0, drop, alloc, clr, settle)

LEMMA RetireCases ==
    ASSUME CoreCycle
    PROVE  NoRetire \/ RetireMispredict \/ RetireAndAlloc \/ DrainSlotRetires
<1>1. CASE EnterSerializeInSlot \/ EnterArchFault \/ EnterSerialize
  BY <1>1, Zenon DEF EnterSerializeInSlot, EnterArchFault, EnterSerialize, NoRetire
<1>2. CASE AllocOnly
  BY <1>2, Zenon DEF AllocOnly, NoRetire
<1>3. CASE DrainNullified \/ DrainSlotFaults \/ DrainEnds \/ DrainWaits
  BY <1>3, Zenon DEF DrainNullified, DrainSlotFaults, DrainEnds, DrainWaits, NoRetire
<1>4. CASE RatWaits \/ RatEnds
  BY <1>4, Zenon DEF RatWaits, RatEnds, NoRetire
<1>5. CASE AllocForSerialize \/ WaitForSerialize \/ AllocSlotSerialize \/ WaitSlotSerialize
  BY <1>5, Zenon DEF AllocForSerialize, WaitForSerialize, AllocSlotSerialize, WaitSlotSerialize, NoRetire
<1>6. CASE SerializeRestarts \/ FlushRestarts
  BY <1>6, Zenon DEF SerializeRestarts, FlushRestarts, RestartBehind, NoRetire
<1>7. CASE StartFlush \/ FlushWaits \/ TakeFault \/ WriteEpc
  BY <1>7, Zenon DEF StartFlush, FlushWaits, TakeFault, WriteEpc, NoRetire
<1> QED
  BY <1>1, <1>2, <1>3, <1>4, <1>5, <1>6, <1>7 DEF CoreCycle

\* skipped stays FALSE if every flush that retires has been done.
LEMMA SkippedStep ==
    ASSUME ~skipped, NEW retire, NEW drop, NEW alloc, NEW clr, NEW settle,
           Clock(retire, drop, alloc, clr, settle),
           \A i \in 1 .. retire : IsFlush(rob[i].op) => rob[i].out
    PROVE  ~skipped'
<1>1. skipped' = (skipped \/ \E e \in Retired(retire) : IsFlush(e.op) /\ ~e.out)
  BY ClockRest, Zenon
<1>2. ~\E e \in Retired(retire) : IsFlush(e.op) /\ ~e.out
  BY DEF Retired
<1> QED
  BY <1>1, <1>2

LEMMA FlushesPerformed ==
    ASSUME NoCacheInSlot, TypeOK, FlowInv, CoreCycle, ~skipped
    PROVE  ~skipped'
<1>0. Len(rob) \in Nat /\ HeadInv /\ WantInv /\ \A k \in 1 .. Len(rob) : Right(prog, rob[k])
  BY SizeFacts DEF FlowInv, OpInv
<1>1. CASE NoRetire
  <2>1. PICK retire, drop, alloc, clr, settle : retire = 0 /\ Clock(retire, drop, alloc, clr, settle)
    BY <1>1, Zenon DEF NoRetire
  <2>2. \A i \in 1 .. retire : IsFlush(rob[i].op) => rob[i].out
    BY <2>1
  <2> QED
    BY <2>1, <2>2, SkippedStep
<1>2. CASE RetireMispredict
  <2>1. Faulted(rob[1]) /\ Clock(1, 1, 0, "none", FALSE)
    BY <1>2 DEF RetireMispredict
  <2>2. PICK retire, drop, alloc, clr, settle : retire = 1 /\ Clock(retire, drop, alloc, clr, settle)
    BY <2>1, Zenon
  <2>3. ~IsFlush(rob[1].op)
    BY <2>1 DEF Faulted, IsFlush, Nullifying
  <2>4. \A i \in 1 .. retire : IsFlush(rob[i].op) => rob[i].out
    BY <2>2, <2>3
  <2> QED
    BY <2>2, <2>4, SkippedStep
<1>3. CASE RetireAndAlloc
  <2>1. state = "ACTIVE" /\ CanRetire /\ rob # <<>> /\ ~Faulted(rob[1])
    BY <1>3 DEF RetireAndAlloc, CanRetire
  <2>2. PICK r \in Retires, n \in Allocs : Clock(r, r, n, "none", FALSE)
    BY <1>3 DEF RetireAndAlloc
  <2>3. r \in 1 .. 2 /\ r <= Len(rob)
    BY <2>1, RetireFacts
  <2>4. \A i \in 1 .. r : IsFlush(rob[i].op) => rob[i].out
    <3>1. CASE PendingRestart
      <4>1. RestartingInv
        BY <1>0, <2>1, <3>1 DEF HeadInv, ActiveInv
      <4>2. Len(rob) = 1 /\ (IsFlush(rob[1].op) => rob[1].out)
        BY <2>1, <4>1 DEF RestartingInv, SerialHead
      <4> QED
        BY <2>3, <4>2
    <3>2. CASE ~PendingRestart
      <4>1. StreamInv
        BY <1>0, <2>1, <3>2 DEF HeadInv, ActiveInv
      <4>2. \A i \in 1 .. Len(rob) : ~Serializing(rob[i].op)
        BY <2>1, <4>1 DEF StreamInv
      <4>3. \A op : IsFlush(op) => Serializing(op)
        BY DEF IsFlush, Serializing
      <4>4. \A i \in 1 .. r : i \in 1 .. Len(rob)
        BY <1>0, <2>3
      <4> QED
        BY <4>2, <4>3, <4>4
    <3> QED
      BY <3>1, <3>2
  <2>5. PICK retire, drop, alloc, clr, settle : retire = r /\ Clock(retire, drop, alloc, clr, settle)
    BY <2>2, Zenon
  <2> QED
    BY <2>4, <2>5, SkippedStep
<1>4. CASE DrainSlotRetires
  <2>1. /\ state = "DRAIN" /\ rob # <<>> /\ ~ds_done /\ ~(drain.nullify /\ ~drain.taken)
        /\ Clock(1, 1, 0, "none", FALSE)
    BY <1>4 DEF DrainSlotRetires, SlotComplete, SlotPending
  <2>2. want.slot /\ rob[1].pc = want.pc /\ rob[1].op # "xflush"
    BY <1>0, <2>1 DEF HeadInv, DrainInv, IsNext
  <2>3. PICK a \in Pc : IsBr(prog[a].op) /\ want.pc = Succ(a)
    BY <1>0, <2>2 DEF WantInv, Sound
  <2>4. prog[want.pc].op \notin {"cached", "cachei"}
    BY <2>3 DEF NoCacheInSlot, TypeOK
  <2>5. Right(prog, rob[1])
    BY <1>0, <2>1, SizeFacts
  <2>6. ~IsFlush(rob[1].op)
    BY <2>2, <2>4, <2>5 DEF Right, IsFlush
  <2>7. PICK retire, drop, alloc, clr, settle : retire = 1 /\ Clock(retire, drop, alloc, clr, settle)
    BY <2>1, Zenon
  <2>8. \A i \in 1 .. retire : IsFlush(rob[i].op) => rob[i].out
    BY <2>6, <2>7
  <2> QED
    BY <2>7, <2>8, SkippedStep
<1> QED
  BY <1>1, <1>2, <1>3, <1>4, RetireCases

\* A CACHE instruction or an injected flush that retires has been performed, if no
\* delay slot holds a CACHE instruction.
THEOREM CacheOpsPerformed == ASSUME LikelySlotsSafe, NoCacheInSlot PROVE Spec => []CacheOpPerformed
<1>1. Init => CacheOpPerformed
  BY DEF Init, CacheOpPerformed
<1>2. TypeOK /\ FlowInv /\ CacheOpPerformed /\ [Next]_vars => CacheOpPerformed'
  <2> SUFFICES ASSUME TypeOK, FlowInv, ~skipped, [Next]_vars PROVE ~skipped'
    BY DEF CacheOpPerformed
  <2>1. CASE Next
    BY <2>1, FlushesPerformed DEF Next
  <2>2. CASE UNCHANGED vars
    BY <2>2 DEF vars, corevars
  <2> QED
    BY <2>1, <2>2
<1> QED
  BY <1>1, <1>2, FlowHolds, PTL DEF Spec

-----------------------------------------------------------------------------
(* The colours of memory operations.                                        *)

\* In RAT the dead operations have the colour that is given up.
ColourInv ==
    colour \in {0, 1} /\ dead \subseteq {IF state = "RAT" THEN colour ELSE 1 - colour}

LEMMA DeadStep ==
    ASSUME NEW retire, NEW drop, NEW alloc, NEW clr, NEW settle, Clock(retire, drop, alloc, clr, settle)
    PROVE  dead' \subseteq dead \cup (IF clr = "rob" THEN {colour} ELSE {})
BY DEF Clock

\* A cycle in which no operation dies and the colour stays.
Keeping == /\ dead' \subseteq dead /\ colour' = colour
           /\ state # "RAT" /\ state' # "RAT"

LEMMA ClockKeeps ==
    ASSUME NEW retire, NEW drop, NEW alloc, NEW clr, NEW settle, Clock(retire, drop, alloc, clr, settle),
           clr # "rob"
    PROVE  dead' \subseteq dead
BY DeadStep

\* Only RAT empties the ROB.
LEMMA ClockCases ==
    ASSUME CoreCycle
    PROVE  \/ RatWaits \/ RatEnds
           \/ \E retire, drop, alloc, settle : Clock(retire, drop, alloc, "none", settle)
           \/ \E retire, drop, alloc, settle : Clock(retire, drop, alloc, "dq", settle)
<1>1. CASE EnterSerializeInSlot \/ EnterArchFault \/ EnterSerialize \/ RetireMispredict
  BY <1>1, Zenon DEF EnterSerializeInSlot, EnterArchFault, EnterSerialize, RetireMispredict
<1>2. CASE AllocOnly \/ RetireAndAlloc
  BY <1>2, Zenon DEF AllocOnly, RetireAndAlloc
<1>3. CASE DrainNullified \/ DrainSlotFaults \/ DrainSlotRetires \/ DrainEnds \/ DrainWaits
  BY <1>3, Zenon DEF DrainNullified, DrainSlotFaults, DrainSlotRetires, DrainEnds, DrainWaits
<1>4. CASE AllocForSerialize \/ WaitForSerialize \/ AllocSlotSerialize \/ WaitSlotSerialize
  BY <1>4, Zenon DEF AllocForSerialize, WaitForSerialize, AllocSlotSerialize, WaitSlotSerialize
<1>5. CASE SerializeRestarts \/ FlushRestarts
  BY <1>5, Zenon DEF SerializeRestarts, FlushRestarts, RestartBehind
<1>6. CASE StartFlush \/ FlushWaits \/ TakeFault \/ WriteEpc
  BY <1>6, Zenon DEF StartFlush, FlushWaits, TakeFault, WriteEpc
<1> QED
  BY <1>1, <1>2, <1>3, <1>4, <1>5, <1>6 DEF CoreCycle

LEMMA ColourCases ==
    ASSUME CoreCycle
    PROVE  Keeping \/ DrainEnds \/ RatWaits \/ RatEnds
<1>1. \/ RatWaits \/ RatEnds
      \/ \E retire, drop, alloc, settle : Clock(retire, drop, alloc, "none", settle)
      \/ \E retire, drop, alloc, settle : Clock(retire, drop, alloc, "dq", settle)
  BY ClockCases
<1>2. DrainEnds \/ RatWaits \/ RatEnds \/ dead' \subseteq dead
  <2>1. ASSUME NEW retire, NEW drop, NEW alloc, NEW clr, NEW settle, clr \in {"none", "dq"},
               Clock(retire, drop, alloc, clr, settle)
        PROVE  dead' \subseteq dead
    BY <2>1, ClockKeeps
  <2> QED
    BY <1>1, <2>1
<1>3. \/ DrainEnds \/ RatWaits \/ RatEnds
      \/ colour' = colour /\ state # "RAT" /\ state' # "RAT"
  <2>1. CASE EnterSerializeInSlot \/ EnterArchFault \/ EnterSerialize \/ RetireMispredict
    BY <2>1 DEF EnterSerializeInSlot, EnterArchFault, EnterSerialize, RetireMispredict, Goto, Quiet
  <2>2. CASE AllocOnly \/ RetireAndAlloc
    BY <2>2 DEF AllocOnly, RetireAndAlloc, Goto, Quiet
  <2>3. CASE DrainNullified \/ DrainSlotFaults \/ DrainSlotRetires \/ DrainWaits
    BY <2>3 DEF DrainNullified, DrainSlotFaults, DrainSlotRetires, DrainWaits, Goto, Quiet
  <2>4. CASE AllocForSerialize \/ WaitForSerialize \/ AllocSlotSerialize \/ WaitSlotSerialize
    BY <2>4 DEF AllocForSerialize, WaitForSerialize, AllocSlotSerialize, WaitSlotSerialize, Goto, Quiet
  <2>5. CASE SerializeRestarts \/ FlushRestarts
    BY <2>5 DEF SerializeRestarts, FlushRestarts, RestartBehind, Goto, Quiet
  <2>6. CASE StartFlush \/ FlushWaits \/ TakeFault \/ WriteEpc
    BY <2>6 DEF StartFlush, FlushWaits, TakeFault, WriteEpc, Goto, Quiet
  <2> QED
    BY <2>1, <2>2, <2>3, <2>4, <2>5, <2>6 DEF CoreCycle
<1> QED
  BY <1>2, <1>3 DEF Keeping

LEMMA ColourStep ==
    ASSUME ColourInv, CoreCycle
    PROVE  ColourInv'
<1>1. CASE Keeping
  BY <1>1 DEF Keeping, ColourInv
<1>2. CASE DrainEnds
  <2>1. /\ state \in {"DRAIN", "EXCEPTION_DRAIN"} /\ state' = "RAT" /\ colour' = colour /\ (1 - colour) \notin dead
        /\ Clock(0, 0, 0, "none", FALSE)
    BY <1>2 DEF DrainEnds, Drained, Goto, Quiet
  <2>2. dead = {}
    BY <2>1 DEF ColourInv
  <2>3. PICK z, clr, settle : clr = "none" /\ Clock(z, z, z, clr, settle)
    BY <2>1, Zenon
  <2>4. dead' \subseteq dead
    BY <2>3, ClockKeeps
  <2> QED
    BY <2>1, <2>2, <2>4 DEF ColourInv
<1>3. CASE RatWaits \/ RatEnds
  <2>1. /\ state = "RAT" /\ \E settle \in BOOLEAN : Clock(0, 0, 0, "rob", settle)
        /\ (state' = "RAT" /\ colour' = colour) \/ (state' = "ACTIVE" /\ colour' = 1 - colour)
    BY <1>3 DEF RatWaits, RatEnds, Goto, Quiet
  <2>2. PICK z, clr, settle : clr = "rob" /\ Clock(z, z, z, clr, settle)
    BY <2>1, Zenon
  <2>3. dead' \subseteq dead \cup {colour}
    BY <2>2, DeadStep
  <2> QED
    BY <2>1, <2>3 DEF ColourInv
<1> QED
  BY <1>1, <1>2, <1>3, ColourCases

\* A colour is given to new memory operations only when no dead one has it.
THEOREM ColoursAreEras == Spec => []ColourIsEra
<1>1. Init => ColourInv
  BY DEF Init, ColourInv
<1>2. ColourInv /\ [Next]_vars => ColourInv'
  <2> SUFFICES ASSUME ColourInv, [Next]_vars PROVE ColourInv'
    OBVIOUS
  <2>1. CASE Next
    BY <2>1, ColourStep DEF Next
  <2>2. CASE UNCHANGED vars
    BY <2>2 DEF vars, corevars, ColourInv
  <2> QED
    BY <2>1, <2>2
<1>3. ColourInv => ColourIsEra
  BY DEF ColourInv, ColourIsEra
<1> QED
  BY <1>1, <1>2, <1>3, PTL DEF Spec

-----------------------------------------------------------------------------
(* Effects: what follows a branch in the stream.                            *)

\* A branch on the path is followed by its slot.
LEMMA SlotIsNext ==
    ASSUME TlbWritesApart, NEW p \in Programs, NEW w, Sound(p, w), w.pc \in Pc,
           NEW n \in Nat, NEW s, NEW c, NEW nx, NEW ds,
           \A k \in 1 .. n : s[k].pc \in Pc /\ Right(p, s[k]),
           Path(p, w, n, s, c, nx, ds), NEW m \in 1 .. n, Live(s, m), s[m].op = "br"
    PROVE  /\ m + 1 <= n => s[m + 1].op # "of"
           /\ m = n => c # NoPc /\ p[c].op # "of"
<1>1. ~Ends(s[m].op) /\ IsBr(s[m].op)
  BY DEF Ends, Serializing, IsBr
<1>2. Live(s, m + 1)
  BY <1>1, LiveStep
<1>3. s[m].pc = PcOf(p, w, s, m) /\ ~InSlot(w, s, m)
  BY <1>1 DEF Path
<1>4. PcOf(p, w, s, m + 1) = After(p, w, s, m, s[m].pc)
  BY DEF PcOf
<1>5. After(p, w, s, m, s[m].pc) = Succ(s[m].pc)
  BY <1>3 DEF After, InSlot, PcOf, Sound
<1>6. p[s[m].pc].op = "br" /\ s[m].pc \in Pc
  BY DEF Right
<1>7. p[Succ(s[m].pc)].op # "of"
  BY <1>6 DEF TlbWritesApart
<1>8. ASSUME m + 1 <= n
      PROVE  s[m + 1].op # "of"
  <2>1. s[m + 1].pc = Succ(s[m].pc) /\ Right(p, s[m + 1])
    BY <1>2, <1>4, <1>5, <1>8 DEF Path
  <2> QED
    BY <1>7, <2>1 DEF Right
<1>9. ASSUME m = n
      PROVE  c # NoPc /\ p[c].op # "of"
  <2>1. Live(s, n + 1) /\ n # 0
    BY <1>2, <1>9
  <2>2. c # NoPc /\ c = PcOf(p, w, s, n + 1)
    BY <2>1 DEF Path
  <2> QED
    BY <1>4, <1>5, <1>7, <1>9, <2>2
<1> QED
  BY <1>8, <1>9

\* So is one that fetch has come to.
LEMMA FetchedSlot ==
    ASSUME TlbWritesApart, NEW p \in Programs, NEW w, Sound(p, w), w.pc \in Pc,
           NEW n \in Nat, NEW s, NEW c, NEW nx, NEW ds,
           \A k \in 1 .. n : s[k].pc \in Pc /\ Right(p, s[k]),
           Path(p, w, n, s, c, nx, ds), Live(s, n + 1), c # NoPc, c \in Pc, p[c].op = "br"
    PROVE  p[nx].op # "of"
<1>1. c = PcOf(p, w, s, n + 1) /\ nx = After(p, w, s, n + 1, c)
  BY DEF Path
<1>2. ~InSlot(w, s, n + 1)
  <2> SUFFICES ASSUME InSlot(w, s, n + 1) PROVE FALSE
    OBVIOUS
  <2>1. PICK a \in Pc : IsBr(p[a].op) /\ PcOf(p, w, s, n + 1) = Succ(a)
    BY SlotFollows
  <2>2. ~IsBr(p[c].op)
    BY <1>1, <2>1, SlotLegal
  <2> QED
    BY <2>2 DEF IsBr
<1>3. nx = Succ(c)
  BY <1>1, <1>2 DEF After, InSlot, PcOf, Sound
<1> QED
  BY <1>3 DEF TlbWritesApart

\* Entries that are not the end of the stream leave it.
LEMMA EndDrop ==
    ASSUME NEW p, NEW n \in Nat, NEW s, NEW t, NEW c, NEW nx, NEW r \in 0 .. n,
           EndSafe(p, n, s, c, nx), \A j \in 1 .. r : ~Ends(s[j].op),
           \A k \in 1 .. n - r : t[k].op = s[r + k].op
    PROVE  EndSafe(p, n - r, t, c, nx)
<1> SUFFICES ASSUME NEW k \in 1 .. n - r, Live(t, k), Ends(t[k].op)
             PROVE  /\ k = n - r /\ c # NoPc /\ p[c].op = "br" => p[nx].op # "of"
                    /\ k = n - r - 1 /\ t[n - r].op = "br" => c # NoPc /\ p[c].op # "of"
                    /\ k <= n - r - 2 /\ t[k + 1].op = "br" => t[k + 2].op # "of"
  BY DEF EndSafe
<1> DEFINE m == r + k
<1>1. m \in 1 .. n /\ Ends(s[m].op)
  OBVIOUS
<1>2. Live(s, m)
  <2> SUFFICES ASSUME NEW j \in 1 .. m - 1 PROVE ~Ends(s[j].op)
    BY DEF Live
  <2>1. CASE j <= r
    BY <2>1
  <2>2. CASE j > r
    <3> DEFINE i == j - r
    <3>1. i \in 1 .. k - 1 /\ i \in 1 .. n - r /\ r + i = j
      BY <2>2
    <3>2. ~Ends(t[i].op)
      BY <3>1 DEF Live
    <3> HIDE DEF i
    <3> QED
      BY <3>1, <3>2
  <2> QED
    BY <2>1, <2>2
<1>3. /\ m = n /\ c # NoPc /\ p[c].op = "br" => p[nx].op # "of"
      /\ m = n - 1 /\ s[n].op = "br" => c # NoPc /\ p[c].op # "of"
      /\ m <= n - 2 /\ s[m + 1].op = "br" => s[m + 2].op # "of"
  <2> HIDE DEF m
  <2> QED
    BY <1>1, <1>2 DEF EndSafe
<1>4. k = n - r - 1 => t[n - r].op = s[n].op
  <2>1. k = n - r - 1 => n - r \in 1 .. n - r /\ r + (n - r) = n
    OBVIOUS
  <2> QED
    BY <2>1
<1>5. k <= n - r - 2 => t[k + 1].op = s[m + 1].op /\ t[k + 2].op = s[m + 2].op
  <2>1. k <= n - r - 2 => /\ k + 1 \in 1 .. n - r /\ k + 2 \in 1 .. n - r
                          /\ r + (k + 1) = m + 1 /\ r + (k + 2) = m + 2
    OBVIOUS
  <2> HIDE DEF m
  <2> QED
    BY <2>1
<1>6. /\ k = n - r => m = n
      /\ k = n - r - 1 => m = n - 1
      /\ k <= n - r - 2 => m <= n - 2
  OBVIOUS
<1> HIDE DEF m
<1> QED
  BY <1>3, <1>4, <1>5, <1>6

\* Decode makes an end of an instruction of the path.
LEMMA EndRelabel ==
    ASSUME TlbWritesApart, NEW p \in Programs, NEW w, Sound(p, w), w.pc \in Pc,
           NEW n \in Nat, NEW s, NEW c, NEW nx, NEW ds, c \in Pc \cup {NoPc},
           \A k \in 1 .. n : s[k].pc \in Pc /\ Right(p, s[k]),
           Path(p, w, n, s, c, nx, ds), EndSafe(p, n, s, c, nx),
           NEW t, \A k \in 1 .. n : t[k].op = s[k].op \/ t[k].op \in {"irq", "xflush"}
    PROVE  EndSafe(p, n, t, c, nx)
<1> SUFFICES ASSUME NEW k \in 1 .. n, Live(t, k), Ends(t[k].op)
             PROVE  /\ k = n /\ c # NoPc /\ p[c].op = "br" => p[nx].op # "of"
                    /\ k = n - 1 /\ t[n].op = "br" => c # NoPc /\ p[c].op # "of"
                    /\ k <= n - 2 /\ t[k + 1].op = "br" => t[k + 2].op # "of"
  BY DEF EndSafe
<1>0. \A op : op \in {"irq", "xflush"} => Ends(op)
  BY DEF Ends, Serializing
<1>1. \A j \in 1 .. k - 1 : t[j].op = s[j].op
  BY <1>0 DEF Live
<1>2. Live(s, k)
  BY <1>1 DEF Live
<1>3. \A j \in 1 .. n : (t[j].op = "br" => s[j].op = "br") /\ (t[j].op = "of" => s[j].op = "of")
  OBVIOUS
<1>4. CASE Ends(s[k].op)
  <2>1. /\ k = n /\ c # NoPc /\ p[c].op = "br" => p[nx].op # "of"
        /\ k = n - 1 /\ s[n].op = "br" => c # NoPc /\ p[c].op # "of"
        /\ k <= n - 2 /\ s[k + 1].op = "br" => s[k + 2].op # "of"
    BY <1>2, <1>4 DEF EndSafe
  <2> QED
    BY <1>3, <2>1
<1>5. CASE ~Ends(s[k].op)
  <2>1. Live(s, k + 1)
    BY <1>2, <1>5, LiveStep
  <2>2. k = n /\ c # NoPc /\ p[c].op = "br" => p[nx].op # "of"
    BY <2>1, FetchedSlot
  <2>3. ASSUME k = n - 1, t[n].op = "br"
        PROVE  c # NoPc /\ p[c].op # "of"
    <3>1. n \in 1 .. n /\ Live(s, n) /\ s[n].op = "br"
      BY <1>3, <2>1, <2>3
    <3> QED
      BY <3>1, SlotIsNext
  <2>4. ASSUME k <= n - 2, t[k + 1].op = "br"
        PROVE  t[k + 2].op # "of"
    <3>1. PICK m \in 1 .. n : m = k + 1
      BY <2>4
    <3>2. Live(s, m) /\ s[m].op = "br" /\ m + 1 <= n /\ m + 1 = k + 2 /\ k + 2 \in 1 .. n
      BY <1>3, <2>1, <2>4, <3>1
    <3>3. s[m + 1].op # "of"
      BY <3>2, SlotIsNext
    <3> QED
      BY <1>3, <3>2, <3>3
  <2> QED
    BY <2>2, <2>3, <2>4
<1> QED
  BY <1>4, <1>5

\* Fetch pushes one instruction or the fault of its fetch.
LEMMA EndPushed ==
    ASSUME TlbWritesApart, NEW p \in Programs, NEW n \in Nat, NEW s, NEW c \in Pc, NEW nx \in Pc, NEW nx2,
           EndSafe(p, n, s, c, nx), s[n + 1].op \in {"ftlb", p[c].op}, c # NoPc, nx # NoPc,
           s[n + 1].op = "ftlb" => c \in Mapped /\ nx2 = Succ(c),
           Ends(s[n + 1].op) /\ s[n + 1].op # "ftlb" => nx2 = Succ(nx)
    PROVE  EndSafe(p, n + 1, s, nx, nx2)
<1> SUFFICES ASSUME NEW k \in 1 .. n + 1, Live(s, k), Ends(s[k].op)
             PROVE  /\ k = n + 1 /\ p[nx].op = "br" => p[nx2].op # "of"
                    /\ k = n /\ s[n + 1].op = "br" => p[nx].op # "of"
                    /\ k <= n - 1 /\ s[k + 1].op = "br" => s[k + 2].op # "of"
  BY DEF EndSafe
<1>1. CASE k = n + 1
  BY <1>1 DEF TlbWritesApart
<1>2. CASE k <= n
  <2>1. /\ k = n /\ p[c].op = "br" => p[nx].op # "of"
        /\ k = n - 1 /\ s[n].op = "br" => p[c].op # "of"
        /\ k <= n - 2 /\ s[k + 1].op = "br" => s[k + 2].op # "of"
    BY <1>2 DEF EndSafe
  <2>2. k = n - 1 => k + 1 = n /\ k + 2 = n + 1
    OBVIOUS
  <2>3. k <= n - 1 => k <= n - 2 \/ k = n - 1
    OBVIOUS
  <2> QED
    BY <1>2, <2>1, <2>2, <2>3
<1> QED
  BY <1>1, <1>2

\* Fetch pushes two instructions.
LEMMA EndPushedTwo ==
    ASSUME TlbWritesApart, NEW p \in Programs, NEW n \in Nat, NEW s, NEW c \in Pc, NEW nx, NEW nx2,
           EndSafe(p, n, s, c, nx), c # NoPc, Succ(Succ(c)) # NoPc,
           s[n + 1].op = p[c].op, s[n + 2].op = p[Succ(c)].op,
           ~IsBr(s[n + 2].op) => nx2 = Succ(Succ(Succ(c)))
    PROVE  EndSafe(p, n + 2, s, Succ(Succ(c)), nx2)
<1> DEFINE d == Succ(Succ(c))
<1>0. Succ(c) \in Pc /\ d \in Pc
  BY SuccType
<1> SUFFICES ASSUME NEW k \in 1 .. n + 2, Live(s, k), Ends(s[k].op)
             PROVE  /\ k = n + 2 /\ p[d].op = "br" => p[nx2].op # "of"
                    /\ k = n + 1 /\ s[n + 2].op = "br" => p[d].op # "of"
                    /\ k <= n /\ s[k + 1].op = "br" => s[k + 2].op # "of"
  BY DEF EndSafe
<1>1. CASE k = n + 2
  <2>1. nx2 = Succ(d)
    BY <1>1 DEF Ends, Serializing, IsBr, Nullifying
  <2> HIDE DEF d
  <2> QED
    BY <1>0, <1>1, <2>1 DEF TlbWritesApart
<1>2. CASE k = n + 1
  BY <1>0, <1>2 DEF TlbWritesApart
<1>3. CASE k <= n
  <2>1. /\ k = n - 1 /\ s[n].op = "br" => p[c].op # "of"
        /\ k <= n - 2 /\ s[k + 1].op = "br" => s[k + 2].op # "of"
    BY <1>3 DEF EndSafe
  <2>2. p[c].op = "br" => p[Succ(c)].op # "of"
    BY DEF TlbWritesApart
  <2>3. CASE k = n
    BY <2>2, <2>3
  <2>4. CASE k = n - 1
    <3>1. k + 1 = n /\ k + 2 = n + 1
      BY <2>4
    <3> QED
      BY <2>1, <2>4, <3>1
  <2>5. CASE k <= n - 2
    BY <2>1, <2>5
  <2> QED
    BY <1>3, <2>3, <2>4, <2>5
<1> QED
  BY <1>1, <1>2, <1>3

\* A cycle of fetch without a restart.
LEMMA EndStep ==
    ASSUME TlbWritesApart, TypeOK, NEW acked \in 0 .. Len(fq), GoesOn(acked), NEW m \in Nat, NEW t,
           EndSafe(prog, m, t, cache_pc, pc), NEW g, g = Len(fq) - acked,
           \A k \in 1 .. Len(fq') - g : t[m + k] = OfFetched(prog, fq'[g + k])
    PROVE  EndSafe(prog, m + (Len(fq') - g), t, cache_pc', pc')
<1>a. /\ pc \in Pc /\ pc # NoPc /\ cache_pc \in Pc \cup {NoPc} /\ g \in Nat /\ prog \in Programs
      /\ L1ITypeOK /\ \A a \in Pc : a # NoPc
  BY ProgramAssumption, SizeFacts DEF TypeOK, L1ITypeOK
<1>1. ASSUME fq' = Popped(acked)
      PROVE  m + (Len(fq') - g) = m
  <2>1. Len(fq') = g
    BY <1>a, <1>1, PopFacts
  <2> QED
    BY <1>a, <2>1
<1>2. CASE Held(acked)
  <2>1. fq' = Popped(acked) /\ cache_pc' = cache_pc /\ pc' = pc
    BY <1>2 DEF Held, Latched
  <2> QED
    BY <1>1, <2>1, Zenon
<1>3. CASE Lookup(acked)
  <2>1. fq' = Popped(acked) /\ cache_pc = NoPc /\ cache_pc' = pc /\ pc' = Succ(pc)
    BY <1>3 DEF Lookup, Latched
  <2>2. EndSafe(prog, m, t, pc, Succ(pc))
    <3>1. prog[pc].op = "br" => prog[Succ(pc)].op # "of"
      BY <1>a DEF TlbWritesApart
    <3> QED
      BY <2>1, <3>1 DEF EndSafe
  <2> QED
    BY <1>1, <2>1, <2>2, Zenon
<1>4. ASSUME cache_pc \in Pc, NEW x \in Fetched, Push(acked, <<x>>), x.pc = cache_pc, cache_pc' = pc,
             x.tlb_miss => cache_pc \in Mapped /\ pc' = Succ(cache_pc),
             ~x.tlb_miss /\ ~IsBr(prog[cache_pc].op) => pc' = Succ(pc)
      PROVE  EndSafe(prog, m + (Len(fq') - g), t, cache_pc', pc')
  <2>1. Len(fq') = g + 1 /\ fq'[g + 1] = x
    BY <1>a, <1>4, PushedOne
  <2>2. t[m + 1] = OfFetched(prog, x)
    BY <1>a, <2>1
  <2>3. t[m + 1].op = IF x.tlb_miss THEN "ftlb" ELSE prog[cache_pc].op
    BY <1>4, <2>2 DEF OfFetched
  <2>4. prog[cache_pc].op # "ftlb"
    BY <1>a, <1>4, ProgType DEF Op
  <2>5. \A op : Ends(op) => ~IsBr(op)
    BY DEF Ends, Serializing, IsBr, Nullifying
  <2>6. /\ t[m + 1].op \in {"ftlb", prog[cache_pc].op}
        /\ t[m + 1].op = "ftlb" => cache_pc \in Mapped /\ pc' = Succ(cache_pc)
        /\ Ends(t[m + 1].op) /\ t[m + 1].op # "ftlb" => pc' = Succ(pc)
    BY <1>4, <2>3, <2>4, <2>5
  <2>7. EndSafe(prog, m + 1, t, pc, pc')
    BY <1>a, <1>4, <2>6, EndPushed
  <2>8. m + (Len(fq') - g) = m + 1
    BY <1>a, <2>1
  <2> QED
    BY <1>4, <2>7, <2>8
<1>5. ASSUME cache_pc \in Pc, NEW x \in Fetched, NEW y \in Fetched, Push(acked, <<x, y>>),
             x.pc = cache_pc, ~x.tlb_miss, y.pc = Succ(cache_pc), ~y.tlb_miss,
             cache_pc' = Succ(Succ(cache_pc)),
             ~IsBr(prog[Succ(cache_pc)].op) => pc' = Succ(Succ(Succ(cache_pc)))
      PROVE  EndSafe(prog, m + (Len(fq') - g), t, cache_pc', pc')
  <2>1. Len(fq') = g + 2 /\ fq'[g + 1] = x /\ fq'[g + 2] = y
    BY <1>a, <1>5, PushedTwo
  <2>2. t[m + 1] = OfFetched(prog, x) /\ t[m + 2] = OfFetched(prog, y)
    BY <1>a, <2>1
  <2>3. t[m + 1].op = prog[cache_pc].op /\ t[m + 2].op = prog[Succ(cache_pc)].op
    BY <1>5, <2>2 DEF OfFetched
  <2>4. cache_pc # NoPc /\ Succ(Succ(cache_pc)) # NoPc
    BY <1>a, <1>5, SuccType
  <2>5. EndSafe(prog, m + 2, t, Succ(Succ(cache_pc)), pc')
    BY <1>a, <1>5, <2>3, <2>4, EndPushedTwo
  <2>6. m + (Len(fq') - g) = m + 2
    BY <1>a, <2>1
  <2> QED
    BY <1>5, <2>5, <2>6
<1>6. CASE FetchFault(acked)
  <2> DEFINE x == [pc |-> cache_pc, pred |-> FALSE, tlb_miss |-> TRUE]
  <2>1. cache_pc \in Mapped /\ cache_pc \in Pc /\ cache_pc' = pc /\ pc' = Succ(cache_pc)
    BY <1>6, ProgramAssumption DEF FetchFault
  <2>2. x \in Fetched /\ x.pc = cache_pc /\ x.tlb_miss
    BY <2>1 DEF Fetched
  <2>3. Push(acked, <<x>>)
    BY <1>6 DEF FetchFault
  <2> HIDE DEF x
  <2> QED
    BY <1>4, <2>1, <2>2, <2>3
<1>7. CASE Hit(acked)
  <2>1. cache_pc \in Pc /\ Succ(cache_pc) \in Pc
    BY <1>7, <1>a, SuccType DEF Hit
  <2>2. \A a \in Pc, b \in BOOLEAN : Insn(a, b) \in Fetched /\ Insn(a, b).pc = a /\ ~Insn(a, b).tlb_miss
    BY InsnType DEF Insn
  <2>3. ASSUME NEW b \in BOOLEAN, Push(acked, <<Insn(cache_pc, b)>>), cache_pc' = pc,
               ~IsBr(prog[cache_pc].op) => pc' = Succ(pc)
        PROVE  EndSafe(prog, m + (Len(fq') - g), t, cache_pc', pc')
    <3>1. PICK x \in Fetched : x = Insn(cache_pc, b)
      BY <2>1, <2>2
    <3>2. x.pc = cache_pc /\ ~x.tlb_miss /\ Push(acked, <<x>>)
      BY <2>1, <2>2, <2>3, <3>1
    <3> QED
      BY <1>4, <2>1, <2>3, <3>2
  <2>4. ASSUME NEW b \in BOOLEAN, Push(acked, <<Insn(cache_pc, FALSE), Insn(Succ(cache_pc), b)>>),
               cache_pc' = Succ(Succ(cache_pc)),
               ~IsBr(prog[Succ(cache_pc)].op) => pc' = Succ(Succ(Succ(cache_pc)))
        PROVE  EndSafe(prog, m + (Len(fq') - g), t, cache_pc', pc')
    <3>1. PICK x \in Fetched, y \in Fetched : x = Insn(cache_pc, FALSE) /\ y = Insn(Succ(cache_pc), b)
      BY <2>1, <2>2
    <3>2. x.pc = cache_pc /\ ~x.tlb_miss /\ y.pc = Succ(cache_pc) /\ ~y.tlb_miss /\ Push(acked, <<x, y>>)
      BY <2>1, <2>2, <2>4, <3>1
    <3> QED
      BY <1>5, <2>1, <2>4, <3>2
  <2>5. CASE PushTaken(acked)
    <3>1. IsBr(prog[cache_pc].op) /\ Push(acked, <<Insn(cache_pc, TRUE)>>) /\ cache_pc' = pc
      BY <2>5 DEF PushTaken, OpAt
    <3> QED
      BY <2>3, <3>1
  <2>6. CASE PushOne(acked)
    <3>1. Push(acked, <<Insn(cache_pc, FALSE)>>) /\ cache_pc' = pc /\ pc' = Succ(pc)
      BY <2>6 DEF PushOne
    <3> QED
      BY <2>3, <3>1
  <2>7. CASE PushPair(acked)
    <3>1. /\ IsBr(prog[Succ(cache_pc)].op) /\ Push(acked, <<Insn(cache_pc, FALSE), Insn(Succ(cache_pc), TRUE)>>)
          /\ cache_pc' = Succ(Succ(cache_pc))
      BY <2>7 DEF PushPair, OpAt, IsBr, Nullifying
    <3> QED
      BY <2>4, <3>1
  <2>8. CASE PushSequential(acked)
    <3>1. /\ Push(acked, <<Insn(cache_pc, FALSE), Insn(Succ(cache_pc), FALSE)>>)
          /\ cache_pc' = Succ(Succ(cache_pc)) /\ pc' = Succ(Succ(Succ(cache_pc)))
      BY <2>8 DEF PushSequential
    <3> QED
      BY <2>4, <3>1
  <2> QED
    BY <1>7, <2>5, <2>6, <2>7, <2>8 DEF Hit
<1> QED
  BY <1>2, <1>3, <1>6, <1>7 DEF GoesOn, Fetches

\* The fetch queue alone, while the core drains.
LEMMA FetchSafeStep ==
    ASSUME TlbWritesApart, TypeOK, TypeOK', FetchSafe, state # "ACTIVE", prog' = prog,
           Restarts \/ Defers(Acked) \/ GoesOn(Acked)
    PROVE  FetchSafe'
<1>0. Acked = 0 /\ Len(fq) \in Nat /\ Len(fq') \in Nat /\ Acked \in 0 .. Len(fq)
  BY SizeFacts, NextSizes DEF Acked
<1>1. CASE Restarts
  <2>1. Len(fq') = 0
    BY <1>1 DEF Restarts
  <2> QED
    BY <2>1 DEF FetchSafe, EndSafe
<1>2. CASE Defers(Acked)
  BY <1>2 DEF Defers, FetchSafe, PendingRestart
<1>3. CASE GoesOn(Acked)
  <2> DEFINE m == Len(fq)
             t == FetchStream'
  <2>1. EndSafe(prog, m, FetchStream, cache_pc, pc)
    BY <1>3 DEF GoesOn, n_restart_req, PendingRestart, FetchSafe
  <2>2. Len(fq') >= m /\ \A k \in 1 .. m : fq'[k] = fq[k]
    BY <1>0, <1>3, GoesOnQueue
  <2>3. \A k \in 1 .. m : t[k].op = FetchStream[k].op
    BY <1>0, <2>2 DEF FetchStream
  <2>4. EndSafe(prog, m, t, cache_pc, pc)
    <3>0. PICK n \in Nat : n = m
      BY <1>0
    <3>1. PICK r \in 0 .. n : n = m /\ r = 0
      BY <3>0
    <3>2. /\ EndSafe(prog, n, FetchStream, cache_pc, pc) /\ \A j \in 1 .. r : ~Ends(FetchStream[j].op)
          /\ \A k \in 1 .. n - r : t[k].op = FetchStream[r + k].op
      BY <2>1, <2>3, <3>1
    <3> HIDE DEF t, m
    <3>3. EndSafe(prog, n - r, t, cache_pc, pc)
      BY <3>2, EndDrop
    <3>4. n - r = m
      BY <3>1
    <3> QED
      BY <3>3, <3>4
  <2>5. \A k \in 1 .. Len(fq') - m : t[m + k] = OfFetched(prog, fq'[m + k])
    BY <1>0 DEF FetchStream
  <2>6. m \in Nat /\ m = Len(fq) - Acked /\ m + (Len(fq') - m) = Len(fq')
    BY <1>0
  <2>7. EndSafe(prog, m + (Len(fq') - m), t, cache_pc', pc')
    <3> HIDE DEF t, m
    <3>1. PICK g : g = m
      OBVIOUS
    <3>2. g = Len(fq) - Acked /\ \A k \in 1 .. Len(fq') - g : t[m + k] = OfFetched(prog, fq'[g + k])
      BY <3>1, <2>5, <2>6
    <3>3. EndSafe(prog, m + (Len(fq') - g), t, cache_pc', pc')
      BY <1>0, <1>3, <2>4, <2>6, <3>2, EndStep
    <3> QED
      BY <3>1, <3>3
  <2> QED
    BY <2>6, <2>7, Zenon DEF FetchSafe
<1> QED
  BY <1>1, <1>2, <1>3

\* A cycle in ACTIVE in which the stream moves on.
LEMMA MovesEnd ==
    ASSUME TlbWritesApart, TypeOK, TypeOK', FlowInv, NEW r, NEW n, Moves(r, n),
           EndSafe(prog, StreamLen, Stream, cache_pc, pc)
    PROVE  EndSafe(prog, StreamLen', Stream', cache_pc', pc')
<1> DEFINE v == want'
           P == Pushes
           g == Len(fq) - P
           a == Len(rob) - r + Len(dq)
           N == StreamLen - r
           u == [k \in 1 .. N |-> Stream[r + k]]
           t == Stream'
<1>0. /\ Len(rob) \in Nat /\ Len(dq) \in Nat /\ Len(fq) \in Nat /\ StreamLen \in Nat
      /\ StreamLen = Len(rob) + Len(dq) + Len(fq) /\ prog \in Programs /\ cache_pc \in Pc \cup {NoPc}
  BY SizeFacts, StreamFacts DEF TypeOK, L1ITypeOK
<1>1. /\ state = "ACTIVE" /\ ~PendingRestart /\ Retiring(r) /\ n \in 0 .. 2 /\ n <= Len(dq)
      /\ RobNext(r, n) /\ DqNext(n) /\ GoesOn(P) /\ prog' = prog /\ v = Reached(r)
  BY DEF Moves
<1>2. r \in 0 .. 2 /\ r <= Len(rob) /\ r \in 0 .. StreamLen
  BY <1>0, <1>1 DEF Retiring
<1>3. P \in 0 .. 2 /\ P <= Len(fq) /\ P = Pushes /\ P \in 0 .. Len(fq)
  BY <1>0, PushesFacts
<1>4. g = Len(fq) - P /\ a = Len(rob) - r + Len(dq) /\ N \in Nat /\ N = StreamLen - r
  BY <1>0, <1>2
<1>5. \A k \in 1 .. StreamLen - r : u[k] = Stream[r + k]
  OBVIOUS
<1>a. Shifted(r, P, g, a)
  <2> HIDE DEF P, g, a
  <2>1. P \in 0 .. 2 /\ P = Pushes /\ P <= Len(fq)
    BY <1>3
  <2>2. g = Len(fq) - P /\ a = Len(rob) - r + Len(dq)
    BY <1>4
  <2> QED
    BY <1>1, <1>2, <2>1, <2>2, StreamMoves
<1>6. /\ StreamLen' = StreamLen - r + (Len(fq') - g) /\ StreamLen - r = a + P + g
      /\ \A k \in 1 .. StreamLen - r :
            /\ k <= a \/ a + P < k => t[k].op = Stream[r + k].op
            /\ a < k /\ k <= a + P => DecodesTo(k - a, t[k])
      /\ \A k \in 1 .. P : Stream[r + a + k] = OfFetched(prog, fq[k])
      /\ \A k \in 1 .. Len(fq') - g : t[StreamLen - r + k] = OfFetched(prog, fq'[g + k])
  <2> HIDE DEF P, g, a
  <2> QED
    BY <1>a DEF Shifted
<1>7. /\ v \in Reference /\ Sound(prog, v)
      /\ Path(prog, v, StreamLen - r, u, cache_pc, pc, delay_slot)
      /\ \A j \in 1 .. r : ~Ends(rob[j].op)
  <2> HIDE DEF u, v
  <2> QED
    BY <1>1, <1>5, RetirePath
<1>8. \A j \in 1 .. r : ~Ends(Stream[j].op)
  BY <1>0, <1>2, <1>7, StreamFacts
<1>9. EndSafe(prog, N, u, cache_pc, pc)
  <2> HIDE DEF u, v, a, P, g, N, t
  <2>1. \A k \in 1 .. StreamLen - r : u[k].op = Stream[r + k].op
    BY <1>5
  <2>2. EndSafe(prog, StreamLen - r, u, cache_pc, pc)
    BY <1>0, <1>2, <1>8, <2>1, EndDrop
  <2> QED
    BY <1>4, <2>2
<1>10. \A k \in 1 .. N : u[k].pc \in Pc /\ Right(prog, u[k])
  <2> SUFFICES ASSUME NEW k \in 1 .. N PROVE u[k].pc \in Pc /\ Right(prog, u[k])
    OBVIOUS
  <2>1. u[k] = Stream[r + k] /\ r + k \in 1 .. StreamLen
    BY <1>0, <1>2
  <2> HIDE DEF u, N, t
  <2> QED
    BY <2>1, StreamSound DEF FlowInv
<1>11. \A k \in 1 .. N : t[k].op = u[k].op \/ t[k].op \in {"irq", "xflush"}
  <2> SUFFICES ASSUME NEW k \in 1 .. N PROVE t[k].op = u[k].op \/ t[k].op \in {"irq", "xflush"}
    OBVIOUS
  <2>1. u[k] = Stream[r + k] /\ k \in 1 .. StreamLen - r
    OBVIOUS
  <2>b. a \in Nat /\ g \in Nat
    BY <1>0, <1>2, <1>3
  <2> HIDE DEF u, v, a, P, g, N, t
  <2>2. CASE k <= a \/ a + P < k
    BY <1>6, <2>1, <2>2
  <2>3. CASE a < k /\ k <= a + P
    <3>1. PICK i \in 1 .. P : i = k - a /\ k = a + i
      BY <1>3, <2>b, <2>3
    <3>2. DecodesTo(i, t[k])
      BY <1>6, <2>1, <2>3, <3>1
    <3>3. r + k = r + a + i
      BY <1>2, <2>b, <3>1
    <3>4. u[k] = OfFetched(prog, fq[i])
      BY <1>6, <2>1, <3>1, <3>3
    <3> QED
      BY <3>2, <3>4 DEF DecodesTo, OfFetched, OpAt
  <2> QED
    BY <1>3, <2>b, <2>2, <2>3
<1>12. EndSafe(prog, N, t, cache_pc, pc)
  <2>1. v.pc \in Pc
    BY <1>7 DEF Reference
  <2>2. Path(prog, v, N, u, cache_pc, pc, delay_slot)
    BY <1>7
  <2> HIDE DEF u, v, a, P, g, N, t
  <2> QED
    BY <1>0, <1>4, <1>7, <1>9, <1>10, <1>11, <2>1, <2>2, EndRelabel
<1>13. \A k \in 1 .. Len(fq') - g : t[N + k] = OfFetched(prog, fq'[g + k])
  BY <1>6
<1>14. EndSafe(prog, N + (Len(fq') - g), t, cache_pc', pc')
  <2> HIDE DEF u, v, a, P, g, N, t
  <2> QED
    BY <1>1, <1>3, <1>4, <1>12, <1>13, EndStep
<1>15. N + (Len(fq') - g) = StreamLen'
  BY <1>6
<1> HIDE DEF u, v, a, P, g, N, t
<1> QED
  BY <1>14, <1>15 DEF t

\* The stream is empty once fetch has yet to restart, or restarts now.
LEMMA EmptyStream ==
    ASSUME TypeOK, TypeOK', FlowInv, L1ICycle(Acked), state = "ACTIVE", state' = "ACTIVE", PendingRestart,
           flush_line_req' = FALSE, NEW r \in 0 .. 1, Len(rob) = r, NEW n \in 0 .. 2, n = 0,
           NEW clr, clr = "none", NEW settle, Clock(r, r, n, clr, settle)
    PROVE  StreamLen' = 0
<1>1. FlushLineInv' /\ (Restarts \/ Defers(Acked) \/ GoesOn(Acked))
  BY NormalStep DEF FlowInv, HandshakeInv
<1>2. Restarts \/ Defers(Acked)
  BY <1>1 DEF GoesOn, PendingRestart, n_restart_req
<1>3. fq = <<>> /\ dq = <<>> /\ Pushes = 0
  BY PushesFacts DEF FlowInv, HandshakeInv, RestartInv
<1>4. Acked = 0 /\ Acked \in 0 .. Len(fq)
  BY <1>3, PushesFacts DEF Acked
<1>5. Len(fq') = 0
  <2>1. CASE Restarts
    BY <2>1 DEF Restarts
  <2>2. CASE Defers(Acked)
    <3>1. Len(fq') = Len(fq) - Acked
      BY <1>4, <2>2, PopFacts DEF Defers, TypeOK
    <3> QED
      BY <1>3, <1>4, <3>1
  <2> QED
    BY <1>2, <2>1, <2>2
<1>6. Len(rob') = 0
  <2>1. r \in 0 .. Len(rob) /\ n <= Len(dq) /\ clr # "rob"
    BY SizeFacts
  <2>2. RobNext(r, n)
    BY <2>1, ClockRob
  <2> QED
    BY <2>2 DEF RobNext
<1>7. Len(dq') = 0
  <2>1. n <= Len(dq)
    BY SizeFacts
  <2>2. DqNext(n)
    BY <2>1, ClockDq
  <2> QED
    BY <1>3, <2>2 DEF DqNext
<1> QED
  BY <1>5, <1>6, <1>7 DEF StreamLen

\* A cycle that stays in ACTIVE.
LEMMA ActiveEnds ==
    ASSUME TlbWritesApart, TypeOK, TypeOK', FlowInv, EndsSafe, L1ICycle(Acked), RetireAndAlloc \/ AllocOnly
    PROVE  EndSafe(prog, StreamLen', Stream', cache_pc', pc')
<1>1. /\ state = "ACTIVE" /\ state' = "ACTIVE" /\ LatchAck /\ NoRestart /\ flush_line_req' = FALSE
  BY DEF RetireAndAlloc, AllocOnly, Goto, Quiet
<1>2. \E r \in 0 .. 2, n \in Allocs :
          Clock(r, r, n, "none", FALSE) /\ Retiring(r) /\ (r = 0 => ~CanRetire) /\ (r > 0 => CanRetire /\ ~Faulted(rob[1]))
  <2>1. CASE RetireAndAlloc
    <3>1. CanRetire /\ ~Faulted(rob[1]) /\ Done(rob[1])
      BY <2>1 DEF RetireAndAlloc, CanRetire
    <3>2. PICK r \in Retires, n \in Allocs : Clock(r, r, n, "none", FALSE)
      BY <2>1 DEF RetireAndAlloc
    <3>3. r \in 1 .. 2 /\ r <= Len(rob)
      BY <3>1, RetireFacts
    <3>4. r = 2 => Done(rob[2]) /\ ~Faulted(rob[2])
      BY DEF Retires, CanRetireTwo
    <3>5. Retiring(r) /\ r \in 0 .. 2 /\ r # 0
      BY <3>1, <3>3, <3>4 DEF Retiring
    <3> QED
      BY <3>1, <3>2, <3>5, Zenon
  <2>2. CASE AllocOnly
    <3>1. PICK n \in Allocs : Clock(0, 0, n, "none", FALSE)
      BY <2>2 DEF AllocOnly
    <3>a. 0 \in 0 .. 2
      OBVIOUS
    <3>2. PICK r \in 0 .. 2 : r = 0 /\ Clock(r, r, n, "none", FALSE)
      BY <3>1, <3>a, Zenon
    <3>3. Retiring(r) /\ ~CanRetire /\ ~(r > 0)
      BY <2>2, <3>2, SizeFacts DEF Retiring, AllocOnly
    <3> QED
      BY <3>2, <3>3, Zenon
  <2> QED
    BY <2>1, <2>2
<1>3. PICK r \in 0 .. 2, n \in Allocs :
          Clock(r, r, n, "none", FALSE) /\ Retiring(r) /\ (r = 0 => ~CanRetire) /\ (r > 0 => CanRetire /\ ~Faulted(rob[1]))
  BY <1>2
<1>4. CASE PendingRestart
  <2>1. dq = <<>> /\ RestartingInv
    BY <1>1, <1>4 DEF FlowInv, HeadInv, ActiveInv, HandshakeInv, RestartInv
  <2>2. n \in 0 .. 2 /\ n = 0
    BY <2>1 DEF Allocs, CanAlloc, CanAllocTwo
  <2>3. Len(rob) = r /\ r \in 0 .. 1
    <3>1. CASE rob = <<>>
      BY <1>3, <3>1 DEF Retiring
    <3>2. CASE rob # <<>>
      <4>1. Len(rob) = 1 /\ Serializing(rob[1].op) /\ Done(rob[1])
        BY <2>1, <3>2 DEF RestartingInv, SerialHead
      <4>2. CanRetire
        BY <3>2, <4>1 DEF CanRetire, Faulted, Serializing, Nullifying
      <4> QED
        BY <1>3, <4>1, <4>2 DEF Retiring
    <3> QED
      BY <3>1, <3>2
  <2>4. PICK clr, settle : clr = "none" /\ Clock(r, r, n, clr, settle)
    BY <1>3, Zenon
  <2>5. StreamLen' = 0
    BY <1>1, <1>4, <2>2, <2>3, <2>4, EmptyStream
  <2> QED
    BY <2>5 DEF EndSafe
<1>5. CASE ~PendingRestart
  <2>1. Moves(r, n)
    BY <1>1, <1>3, <1>5, ActiveMoves
  <2>2. \A k \in 1 .. Len(rob) : ~Serializing(rob[k].op)
    BY <1>3, <2>1, NoneSerial
  <2>3. EndSafe(prog, StreamLen, Stream, cache_pc, pc)
    BY <1>1, <1>5, <2>2 DEF EndsSafe
  <2> QED
    BY <2>1, <2>3, MovesEnd
<1> QED
  BY <1>4, <1>5

\* A cycle in which the core drains or rebuilds the rename table.
LEMMA DrainSafe ==
    ASSUME TlbWritesApart, TypeOK, TypeOK', FlowInv, EndsSafe, L1ICycle(Acked), prog' = prog,
           state \in {"DRAIN", "EXCEPTION_DRAIN", "RAT"}, state' # "CACHE_FLUSH", flush_line_req' = FALSE
    PROVE  FetchSafe'
<1>1. Restarts \/ Defers(Acked) \/ GoesOn(Acked)
  BY NormalStep DEF FlowInv, HandshakeInv
<1>2. FetchSafe
  BY DEF EndsSafe
<1> QED
  BY <1>1, <1>2, FetchSafeStep

LEMMA ProgStays ==
    ASSUME TypeOK, HeadInv, CoreCycle
    PROVE  prog' = prog
BY ShapeHolds, ClockRest DEF Shape

LEMMA EndsSafeStep ==
    ASSUME TlbWritesApart, TypeOK, TypeOK', FlowInv, EndsSafe, CoreCycle, L1ICycle(Acked)
    PROVE  EndsSafe'
<1>0. prog' = prog
  BY ProgStays DEF FlowInv
<1>1. CASE RetireAndAlloc \/ AllocOnly
  <2>1. state' = "ACTIVE"
    BY <1>1 DEF RetireAndAlloc, AllocOnly, Goto
  <2>2. EndSafe(prog, StreamLen', Stream', cache_pc', pc')
    BY <1>1, ActiveEnds
  <2> QED
    BY <1>0, <2>1, <2>2 DEF EndsSafe
<1>2. CASE DrainNullified \/ DrainSlotRetires \/ DrainEnds \/ DrainWaits \/ RatWaits
  <2>1. /\ state \in {"DRAIN", "EXCEPTION_DRAIN", "RAT"} /\ state' \in {"DRAIN", "EXCEPTION_DRAIN", "RAT"}
        /\ flush_line_req' = FALSE
    BY <1>2 DEF DrainNullified, DrainSlotRetires, DrainEnds, DrainWaits, RatWaits, Goto, Quiet
  <2>2. FetchSafe'
    BY <1>0, <2>1, DrainSafe
  <2> QED
    BY <2>1, <2>2 DEF EndsSafe
<1>3. CASE RatEnds
  <2>1. /\ state = "RAT" /\ state' = "ACTIVE" /\ flush_line_req' = FALSE /\ Clock(0, 0, 0, "rob", TRUE)
    BY <1>3 DEF RatEnds, Goto
  <2>2. FetchSafe'
    BY <1>0, <2>1, DrainSafe
  <2>3. rob' = <<>> /\ dq' = <<>>
    BY <2>1, RobCleared
  <2>4. Len(rob') = 0 /\ Len(dq') = 0 /\ Len(fq') \in Nat
    BY <2>3, NextSizes
  <2>5. StreamLen' = Len(fq') /\ Stream' = FetchStream'
    BY <2>4 DEF StreamLen, Stream, FetchStream
  <2>6. ~PendingRestart' => EndSafe(prog', StreamLen', Stream', cache_pc', pc')
    BY <2>2, <2>5 DEF FetchSafe
  <2> QED
    BY <2>1, <2>6 DEF EndsSafe
<1>4. CASE RetireMispredict \/ WriteEpc \/ SerializeRestarts \/ FlushRestarts
  <2>1. restart_valid'
    BY <1>4 DEF RetireMispredict, WriteEpc, SerializeRestarts, FlushRestarts, RestartBehind, Restart
  <2> QED
    BY <2>1 DEF EndsSafe, FetchSafe, PendingRestart
<1>5. CASE WaitSlotSerialize
  <2>1. /\ state = "WAIT_FOR_SERIALIZE_IN_FAULTED_DELAY_SLOT" /\ Len(rob) = 2 /\ SerialSlot(rob[2])
        /\ state' \in {"ACTIVE", state} /\ \E settle : Clock(0, 0, 0, "none", settle)
    BY <1>5 DEF WaitSlotSerialize, FlowInv, HeadInv, Goto
  <2>2. Still
    BY <2>1, StillNone
  <2>3. 2 \in 1 .. Len(rob') /\ Serializing(rob'[2].op)
    BY <2>1, <2>2 DEF Still, Kept, SerialSlot
  <2> QED
    BY <2>1, <2>3 DEF EndsSafe
<1>6. CASE \/ EnterSerializeInSlot \/ EnterArchFault \/ EnterSerialize \/ DrainSlotFaults
           \/ AllocForSerialize \/ WaitForSerialize \/ StartFlush \/ FlushWaits \/ AllocSlotSerialize \/ TakeFault
  <2>1. state' \notin {"ACTIVE", "DRAIN", "EXCEPTION_DRAIN", "RAT"}
    BY <1>6 DEF EnterSerializeInSlot, EnterArchFault, EnterSerialize, DrainSlotFaults,
                AllocForSerialize, WaitForSerialize, StartFlush, FlushWaits, AllocSlotSerialize, TakeFault, Goto
  <2> QED
    BY <2>1 DEF EndsSafe
<1> QED
  BY <1>1, <1>2, <1>3, <1>4, <1>5, <1>6 DEF CoreCycle

\* Behind an instruction that faults, no branch is followed by a TLB write.
LEMMA SecondSafe ==
    ASSUME TlbWritesApart, TypeOK, FlowInv, EndsSafe, state = "ACTIVE", rob # <<>>, ArchFault(rob[1])
    PROVE  PairSafe(2)
<1>1. Faulted(rob[1]) /\ rob[1].op \in {"mem", "trap", "sys", "irq", "ftlb"}
  BY DEF ArchFault
<1>2. ~PendingRestart
  BY <1>1, FaultedActive
<1>3. StreamInv /\ Sound(prog, want) /\ want.pc \in Pc /\ prog \in Programs
  BY <1>2, ActiveHead DEF FlowInv, WantInv, TypeOK, Reference
<1>4. Path(prog, want, StreamLen, Stream, cache_pc, pc, delay_slot)
  BY <1>3 DEF StreamInv
<1>5. \A k \in 1 .. Len(rob) : ~Serializing(rob[k].op)
  BY <1>1, <1>3 DEF StreamInv, IsBr, Nullifying
<1>6. EndSafe(prog, StreamLen, Stream, cache_pc, pc)
  BY <1>2, <1>5 DEF EndsSafe
<1> SUFFICES ASSUME 2 + 1 <= Len(rob), rob[2].op = "br" PROVE rob[2 + 1].op # "of"
  BY DEF PairSafe
<1>7. Len(rob) \in Nat /\ StreamLen \in Nat /\ StreamLen >= 3
  BY StreamFacts, SizeFacts
<1>8. Stream[1].op = rob[1].op /\ Stream[2].op = rob[2].op /\ Stream[3].op = rob[3].op
  BY <1>7, StreamFacts
<1>9. CASE Ends(rob[1].op)
  <2>1. PICK k \in 1 .. StreamLen : k = 1
    BY <1>7
  <2>2. Live(Stream, k) /\ Ends(Stream[k].op)
    BY <1>8, <1>9, <2>1, LiveFirst
  <2>3. k <= StreamLen - 2 /\ k + 1 = 2 /\ k + 2 = 3
    BY <1>7, <2>1
  <2>4. Stream[k + 1].op = "br" => Stream[k + 2].op # "of"
    BY <1>6, <2>2, <2>3 DEF EndSafe
  <2> QED
    BY <1>8, <2>3, <2>4
<1>10. CASE ~Ends(rob[1].op)
  <2>1. PICK m \in 1 .. StreamLen : m = 2
    BY <1>7
  <2>2. Live(Stream, m)
    <3>1. Live(Stream, 1) /\ ~Ends(Stream[1].op)
      BY <1>8, <1>10, LiveFirst
    <3> QED
      BY <2>1, <3>1 DEF Live
  <2>3. m + 1 <= StreamLen /\ m + 1 = 3 /\ Stream[m].op = "br"
    BY <1>7, <1>8, <2>1
  <2>4. Stream[m + 1].op # "of"
    BY <1>3, <1>4, <1>7, <2>2, <2>3, StreamSound, SlotIsNext DEF FlowInv
  <2> QED
    BY <1>8, <2>3, <2>4
<1> QED
  BY <1>9, <1>10

LEMMA PairsSafeStep ==
    ASSUME TlbWritesApart, TypeOK, TypeOK', FlowInv, EndsSafe, PairsSafe, CoreCycle
    PROVE  PairsSafe'
<1>0. Len(rob) \in Nat /\ (rob # <<>> <=> Len(rob) >= 1)
  BY SizeFacts
<1>1. CASE RetireMispredict
  <2>1. /\ state = "ACTIVE" /\ CanRetire /\ rob # <<>> /\ Faulted(rob[1]) /\ state' = "DRAIN"
        /\ Clock(1, 1, 0, "none", FALSE) /\ (ds_done' <=> ~IsBr(rob[1].op))
    BY <1>1 DEF RetireMispredict, CanRetire, Goto
  <2>2. ASSUME IsBr(rob[1].op)
        PROVE  rob'[1].op # "br"
    <3>1. Len(rob) >= 2 /\ ~Ends(rob[1].op)
      BY <1>0, <2>1, <2>2 DEF CanRetire, SlotReady, IsBr, Ends, Nullifying, Serializing
    <3>2. ~PendingRestart
      BY <2>1, FaultedActive
    <3>3. ~IsBr(rob[2].op)
      BY <2>1, <2>2, <3>1, <3>2, ActiveHead
    <3>4. \A k \in 1 .. Len(rob) - 1 : Kept(rob[k + 1], rob'[k])
      BY <2>1, OneRetires
    <3>5. 1 \in 1 .. Len(rob) - 1 /\ 1 + 1 = 2
      BY <1>0, <3>1
    <3>6. rob'[1].op = rob[2].op
      BY <3>4, <3>5 DEF Kept
    <3> QED
      BY <3>3, <3>6 DEF IsBr
  <2> QED
    BY <2>1, <2>2 DEF PairsSafe
<1>2. CASE DrainWaits
  <2>1. /\ state \in {"DRAIN", "EXCEPTION_DRAIN"} /\ state' = state /\ ds_done' = ds_done
        /\ Clock(0, 0, 0, "none", FALSE) /\ (state = "DRAIN" /\ SlotPending => ~drain.nullify \/ drain.taken)
    BY <1>2 DEF DrainWaits, Goto
  <2>2. ASSUME state = "DRAIN", ~ds_done
        PROVE  rob'[1].op # "br"
    <3>1. rob # <<>>
      BY <2>1, <2>2 DEF FlowInv, HeadInv, DrainInv, SlotPending
    <3>2. Still
      BY <2>1, StillNone
    <3>3. rob'[1].op = rob[1].op
      BY <3>1, <3>2, StillHead
    <3> QED
      BY <2>2, <3>3 DEF PairsSafe
  <2> QED
    BY <2>1, <2>2 DEF PairsSafe
<1>3. CASE EnterArchFault
  <2>1. /\ state = "ACTIVE" /\ rob # <<>> /\ ArchFault(rob[1]) /\ state' = "ARCH_FAULT"
        /\ Clock(0, 0, 0, "none", FALSE)
    BY <1>3 DEF EnterArchFault, CanRetire, Goto
  <2>2. PairSafe(2) /\ Still
    BY <2>1, SecondSafe, StillNone
  <2>3. ASSUME 2 + 1 <= Len(rob')
        PROVE  rob'[2].op = rob[2].op /\ rob'[2 + 1].op = rob[2 + 1].op /\ 2 + 1 <= Len(rob)
    BY <1>0, <2>2, <2>3 DEF Still, Kept
  <2>4. PairSafe(2)'
    BY <2>2, <2>3 DEF PairSafe
  <2> QED
    BY <2>1, <2>4 DEF PairsSafe
<1>4. CASE TakeFault
  <2>1. /\ state = "ARCH_FAULT" /\ rob # <<>> /\ state' = "WRITE_EPC" /\ ds_done' = ds_done
        /\ Clock(0, 1, 0, "none", FALSE)
    BY <1>4 DEF TakeFault, Goto, FlowInv, HeadInv
  <2>2. PICK z, u, clr, settle : z = 0 /\ u = 1 /\ clr = "none" /\ Clock(z, u, z, clr, settle)
    BY <2>1, Zenon
  <2>3. RobNext(u, z)
    <3>1. u \in 0 .. Len(rob) /\ z \in 0 .. 2 /\ z <= Len(dq) /\ clr # "rob"
      BY <1>0, <2>1, <2>2, SizeFacts
    <3> QED
      BY <2>2, <3>1, ClockRob
  <2>4. Len(rob') = Len(rob) - 1 /\ \A k \in 1 .. Len(rob') : rob'[k].op = rob[u + k].op
    BY <1>0, <2>2, <2>3 DEF RobNext, Kept
  <2>5. ASSUME ~ds_done, 1 + 1 <= Len(rob'), rob'[1].op = "br"
        PROVE  rob'[1 + 1].op # "of"
    <3>1. PairSafe(2)
      BY <2>1, <2>5 DEF PairsSafe
    <3>2. 2 + 1 <= Len(rob) /\ 1 \in 1 .. Len(rob') /\ 1 + 1 \in 1 .. Len(rob') /\ u + 1 = 2 /\ u + (1 + 1) = 2 + 1
      BY <1>0, <2>2, <2>4, <2>5
    <3>3. rob'[1].op = rob[2].op /\ rob'[1 + 1].op = rob[2 + 1].op
      BY <2>4, <3>2
    <3> QED
      BY <2>5, <3>1, <3>2, <3>3 DEF PairSafe
  <2> QED
    BY <2>1, <2>5 DEF PairsSafe, PairSafe
<1>5. CASE DrainNullified \/ DrainSlotRetires \/ DrainSlotFaults
  BY <1>5 DEF DrainNullified, DrainSlotRetires, DrainSlotFaults, PairsSafe
<1>6. CASE RetireAndAlloc \/ AllocOnly \/ EnterSerializeInSlot \/ EnterSerialize \/ DrainEnds \/ RatWaits \/ RatEnds
  <2>1. state' \notin {"DRAIN", "ARCH_FAULT", "WRITE_EPC"}
    BY <1>6 DEF RetireAndAlloc, AllocOnly, EnterSerializeInSlot, EnterSerialize, DrainEnds, RatWaits, RatEnds, Goto
  <2> QED
    BY <2>1 DEF PairsSafe
<1>7. CASE \/ AllocForSerialize \/ WaitForSerialize \/ SerializeRestarts \/ StartFlush \/ FlushWaits
           \/ FlushRestarts \/ AllocSlotSerialize \/ WaitSlotSerialize \/ WriteEpc
  <2>1. state' \notin {"DRAIN", "ARCH_FAULT", "WRITE_EPC"}
    BY <1>7 DEF AllocForSerialize, WaitForSerialize, SerializeRestarts, StartFlush, FlushWaits, FlushRestarts,
                AllocSlotSerialize, WaitSlotSerialize, WriteEpc, RestartBehind, Goto
  <2> QED
    BY <2>1 DEF PairsSafe
<1> QED
  BY <1>1, <1>2, <1>3, <1>4, <1>5, <1>6, <1>7 DEF CoreCycle

\* A TLB write issues at the head only: SlotCommittable never lets one out.
LEMMA OfIssues ==
    ASSUME TlbWritesApart, TypeOK, FlowInv, PairsSafe, NEW i \in 1 .. Len(rob), rob[i].op = "of", CanIssue(i)
    PROVE  i = 1 /\ HeadValid
<1>0. Len(rob) \in Nat
  BY SizeFacts
<1>1. ~ds_done /\ ((i = 1 /\ HeadValid) \/ (i = 2 /\ SlotCommittable))
  BY DEF CanIssue, OldestFirst
<1> SUFFICES ASSUME i = 2, SlotCommittable PROVE FALSE
  BY <1>1
<1>2. /\ Len(rob) >= 2 /\ rob # <<>> /\ Faulted(rob[1]) /\ rob[1].op = "br" /\ rob[2].op = "of"
      /\ ~Serializing(rob[2].op) /\ ~Serializing(rob[1].op)
  BY <1>0 DEF SlotCommittable, Serializing
<1>3. CASE state = "ACTIVE"
  <2>1. ~PendingRestart
    BY <1>2, <1>3, FaultedActive
  <2>2. Path(prog, want, StreamLen, Stream, cache_pc, pc, delay_slot)
    BY <1>3, <2>1, ActiveHead DEF StreamInv
  <2>3. StreamLen \in Nat /\ Stream[1].op = rob[1].op /\ Stream[2].op = rob[2].op /\ StreamLen >= 2
    BY <1>0, <1>2, StreamFacts, SizeFacts
  <2>4. PICK m \in 1 .. StreamLen : m = 1
    BY <2>3
  <2>5. Live(Stream, m) /\ m + 1 <= StreamLen /\ m + 1 = 2 /\ Stream[m].op = "br"
    BY <1>2, <2>3, <2>4, LiveFirst
  <2>6. Sound(prog, want) /\ want.pc \in Pc /\ prog \in Programs
    BY DEF FlowInv, WantInv, TypeOK, Reference
  <2>7. Stream[m + 1].op # "of"
    BY <2>2, <2>3, <2>5, <2>6, StreamSound, SlotIsNext DEF FlowInv
  <2> QED
    BY <1>2, <2>3, <2>5, <2>7
<1>4. CASE state \in {"DRAIN", "WRITE_EPC"}
  BY <1>1, <1>2, <1>4 DEF PairsSafe, PairSafe
<1>5. CASE state \in {"EXCEPTION_DRAIN", "RAT"}
  BY <1>1, <1>5 DEF FlowInv, HeadInv
<1>6. CASE state = "ARCH_FAULT"
  BY <1>2, <1>6 DEF FlowInv, HeadInv, ArchFault
<1>7. CASE state \in {"ALLOC_FOR_SERIALIZE", "WAIT_FOR_SERIALIZE_AND_RESTART", "CACHE_FLUSH",
                      "SERIALIZE_IN_FAULTED_DELAY_SLOT", "WAIT_FOR_SERIALIZE_IN_FAULTED_DELAY_SLOT"}
  <2>1. \/ rob = <<>> \/ Len(rob) = 1 \/ Serializing(rob[2].op)
    BY <1>7 DEF FlowInv, HeadInv, SerialHead, SerialSlot
  <2> QED
    BY <1>2, <2>1
<1> QED
  BY <1>3, <1>4, <1>5, <1>6, <1>7 DEF TypeOK, State

\* The entries a cycle later: M has moved on, t enters.
RobMoves(M, t, drop) ==
    /\ Len(rob') = Len(rob) - drop + Len(t)
    /\ \A k \in 1 .. Len(rob') :
          rob'[k] = IF k <= Len(rob) - drop THEN M[drop + k] ELSE t[k - (Len(rob) - drop)]

LEMMA ClockMoves ==
    ASSUME TypeOK, NEW retire, NEW drop \in 0 .. Len(rob), NEW alloc \in 0 .. 2, alloc <= Len(dq),
           NEW clr, clr # "rob", NEW settle, Clock(retire, drop, alloc, clr, settle)
    PROVE  \E adv \in SUBSET Movable : \E out : RobMoves(Moved(adv, out), NewEntries(alloc), drop)
<1>1. PICK adv \in SUBSET Movable : \E out :
          rob' = SubSeq(Moved(adv, out), drop + 1, Len(rob)) \o NewEntries(alloc)
  BY DEF Clock
<1>2. PICK out : rob' = SubSeq(Moved(adv, out), drop + 1, Len(rob)) \o NewEntries(alloc)
  BY <1>1
<1>3. PICK M \in Seq(Entry) : M = Moved(adv, out)
  BY MovedFacts
<1>4. PICK N \in Seq(Entry) : N = NewEntries(alloc)
  BY NewFacts
<1>5. Len(M) = Len(rob)
  BY <1>3, MovedFacts
<1>6. rob' = SubSeq(M, drop + 1, Len(M)) \o N /\ drop \in 0 .. Len(M)
  BY <1>2, <1>3, <1>4, <1>5
<1>7. /\ rob' \in Seq(Entry)
      /\ Len(rob') = Len(M) - drop + Len(N)
      /\ \A k \in 1 .. Len(rob') : rob'[k] = IF k <= Len(M) - drop THEN M[drop + k] ELSE N[k - (Len(M) - drop)]
  BY <1>6, QueueNext, SMTT(60)
<1>8. RobMoves(M, N, drop)
  BY <1>5, <1>7 DEF RobMoves
<1> QED
  BY <1>3, <1>4, <1>8

\* An entry has an effect when it issues.
LEMMA Issues ==
    ASSUME TypeOK, NEW retire, NEW drop \in 0 .. Len(rob), NEW alloc \in 0 .. 2, alloc <= Len(dq),
           NEW clr, clr # "rob", NEW settle, Clock(retire, drop, alloc, clr, settle),
           NEW k \in 1 .. Len(rob'), HasEffect(rob'[k])
    PROVE  /\ k <= Len(rob) - drop
           /\ HasEffect(rob[drop + k]) \/ (rob[drop + k].op = rob'[k].op /\ CanIssue(drop + k))
<1>1. PICK adv \in SUBSET Movable : \E out : RobMoves(Moved(adv, out), NewEntries(alloc), drop)
  BY ClockMoves
<1>2. PICK out : RobMoves(Moved(adv, out), NewEntries(alloc), drop)
  BY <1>1
<1>3. PICK M, t : M = Moved(adv, out) /\ t = NewEntries(alloc) /\ Len(t) = alloc
  BY NewFacts
<1>4. Len(rob) \in Nat
  BY SizeFacts
<1>5. /\ Len(rob') = Len(rob) - drop + alloc
      /\ rob'[k] = IF k <= Len(rob) - drop THEN M[drop + k] ELSE t[k - (Len(rob) - drop)]
  BY <1>2, <1>3 DEF RobMoves
<1>6. k <= Len(rob) - drop
  <2> SUFFICES ASSUME ~(k <= Len(rob) - drop) PROVE FALSE
    OBVIOUS
  <2>a. PICK L \in Nat : L = Len(rob) - drop
    <3>1. Len(rob) - drop \in Nat
      BY <1>4
    <3> QED
      BY <3>1
  <2>b. k \in 1 .. L + alloc /\ ~(k <= L)
    <3>1. Len(rob') = L + alloc
      BY <1>5, <2>a
    <3> QED
      BY <2>a, <3>1
  <2>1. PICK i \in 1 .. alloc : i = k - (Len(rob) - drop)
    BY <2>a, <2>b
  <2>2. rob'[k] = t[i]
    BY <1>5, <2>1
  <2>3. t[i].op = dq[i].op /\ t[i].at = IF Fold(dq[i].op) THEN "done" ELSE "sched"
    BY <1>3 DEF NewEntries, NewEntry
  <2> QED
    BY <2>2, <2>3 DEF HasEffect, Fold
<1>7. PICK i \in 1 .. Len(rob) : i = drop + k
  BY <1>4, <1>6
<1>8. rob'[k] = M[i] /\ rob[i] \in Entry
  BY <1>5, <1>6, <1>7, SizeFacts
<1>9. M[i] = IF i \in adv
             THEN IF rob[i].at = "sched" THEN [rob[i] EXCEPT !.at = "exec"]
                  ELSE [rob[i] EXCEPT !.at = "done", !.out = i \in out]
             ELSE IF i = 1 /\ state = "CACHE_FLUSH" THEN [rob[i] EXCEPT !.out = FlushesDone]
             ELSE rob[i]
  BY <1>3 DEF Moved
<1>10. M[i].op = rob[i].op
  BY <1>8, <1>9 DEF Entry
<1>11. CASE rob[i].at = "sched"
  <2>1. i \in adv
    <3> SUFFICES ASSUME i \notin adv PROVE FALSE
      OBVIOUS
    <3>1. M[i].at = "sched"
      BY <1>8, <1>9, <1>11 DEF Entry
    <3> QED
      BY <1>8, <3>1 DEF HasEffect
  <2>2. CanIssue(i)
    BY <1>11, <2>1 DEF Movable
  <2> QED
    BY <1>6, <1>7, <1>8, <1>10, <2>2
<1>12. CASE rob[i].at # "sched"
  <2>1. HasEffect(rob[i])
    BY <1>8, <1>10, <1>12 DEF HasEffect
  <2> QED
    BY <1>6, <1>7, <2>1
<1> QED
  BY <1>11, <1>12

\* Entry e has had an effect, or may have one at any time.
Binds(e) == e.op = "ctc1" \/ HasEffect(e)

\* It was one that may stay, or it is a CTC1 that enters.
LEMMA EffectFrom ==
    ASSUME TlbWritesApart, TypeOK, FlowInv, PairsSafe, EffectsKept,
           NEW retire, NEW drop \in 0 .. Len(rob), NEW alloc \in 0 .. 2, alloc <= Len(dq),
           NEW clr, clr # "rob", NEW settle, Clock(retire, drop, alloc, clr, settle),
           NEW k \in 1 .. Len(rob'), Binds(rob'[k])
    PROVE  /\ rob'[k].op \in {"of", "ctc1"}
           /\ IF k <= Len(rob) - drop
              THEN drop + k \in 1 .. Len(rob) /\ rob'[k].op = rob[drop + k].op /\ MayKeep(drop + k)
              ELSE rob'[k].op = "ctc1"
<1>0. Len(rob) \in Nat
  BY SizeFacts
<1>1. rob'[k].op \in {"of", "ctc1"}
  BY DEF Binds, HasEffect
<1>2. RobNext(drop, alloc)
  BY ClockRob
<1>3. CASE k <= Len(rob) - drop
  <2>1. PICK i \in 1 .. Len(rob) : i = drop + k
    BY <1>0, <1>3
  <2>2. rob'[k].op = rob[i].op
    BY <1>2, <1>3, <2>1 DEF RobNext, Kept
  <2>3. CASE rob'[k].op = "ctc1" \/ HasEffect(rob[i])
    BY <1>1, <1>3, <2>1, <2>2, <2>3 DEF EffectsKept
  <2>4. CASE rob'[k].op # "ctc1" /\ ~HasEffect(rob[i])
    <3>1. HasEffect(rob'[k])
      BY <2>4 DEF Binds
    <3>2. CanIssue(i) /\ rob[i].op = "of"
      BY <1>1, <2>1, <2>2, <2>4, <3>1, Issues
    <3>3. i = 1 /\ HeadValid
      BY <3>2, OfIssues
    <3>4. MayKeep(i)
      BY <3>3 DEF MayKeep, HeadValid
    <3> QED
      BY <1>1, <1>3, <2>1, <2>2, <3>4
  <2> QED
    BY <2>3, <2>4
<1>4. CASE ~(k <= Len(rob) - drop)
  BY <1>1, <1>4, Issues DEF Binds
<1> QED
  BY <1>3, <1>4

\* While the core is not about to discard anything, whatever binds may stay.
LEMMA EffectsKeptStep ==
    ASSUME TlbWritesApart, NoCtc1InLikelySlot, TypeOK, TypeOK', FlowInv, PairsSafe, EffectsKept, CoreCycle
    PROVE  EffectsKept'
<1>0. Len(rob) \in Nat /\ (rob # <<>> <=> Len(rob) >= 1) /\ Len(rob') \in Nat
  BY SizeFacts, NextSizes
<1> SUFFICES ASSUME NEW k \in 1 .. Len(rob'), Binds(rob'[k])
             PROVE  MayKeep(k)'
  BY Zenon DEF EffectsKept, Binds
<1>a. rob'[k].op \in {"of", "ctc1"}
  BY DEF Binds, HasEffect
<1>b. \A op \in {"of", "ctc1"} : ~IsBr(op) /\ op \notin {"mem", "trap", "sys", "irq", "ftlb"}
                                 /\ (Serializing(op) => op = "ctc1")
  BY DEF IsBr, Nullifying, Serializing
<1>c. ASSUME NEW clr \in {"none", "dq"}, NEW settle, Clock(0, 0, 0, clr, settle)
      PROVE  k \in 1 .. Len(rob) /\ rob'[k].op = rob[k].op /\ MayKeep(k)
  <2>1. PICK z \in 0 .. 2 : z = 0 /\ Clock(z, z, z, clr, settle)
    <3>1. 0 \in 0 .. 2
      OBVIOUS
    <3> QED
      BY <1>c, <3>1, Zenon
  <2>2. z \in 0 .. Len(rob) /\ z <= Len(dq) /\ clr # "rob"
    BY <1>0, <2>1, SizeFacts
  <2>3. RobNext(z, z)
    BY <2>1, <2>2, ClockRob
  <2>4. Len(rob') = Len(rob)
    BY <1>0, <2>1, <2>3 DEF RobNext
  <2>5. k <= Len(rob) - z /\ z + k = k
    BY <1>0, <2>1, <2>4
  <2>6. z + k \in 1 .. Len(rob) /\ rob'[k].op = rob[z + k].op /\ MayKeep(z + k)
    BY <2>1, <2>2, <2>5, EffectFrom
  <2> QED
    BY <2>5, <2>6
<1>d. ASSUME NEW retire, Clock(retire, 1, 0, "none", FALSE), rob # <<>>
      PROVE  k + 1 \in 1 .. Len(rob) /\ rob'[k].op = rob[k + 1].op /\ MayKeep(k + 1)
  <2>1. PICK u \in 0 .. Len(rob), z \in 0 .. 2 : u = 1 /\ z = 0 /\ Clock(retire, u, z, "none", FALSE)
    <3>1. 1 \in 0 .. Len(rob) /\ 0 \in 0 .. 2
      BY <1>0, <1>d
    <3> QED
      BY <1>d, <3>1, Zenon
  <2>2. PICK clr, settle : clr = "none" /\ Clock(retire, u, z, clr, settle)
    BY <2>1, Zenon
  <2>3. z <= Len(dq) /\ clr # "rob"
    BY <2>1, <2>2, SizeFacts
  <2>4. RobNext(u, z)
    BY <2>2, <2>3, ClockRob
  <2>5. Len(rob') = Len(rob) - 1
    BY <1>0, <2>1, <2>4 DEF RobNext
  <2>6. k <= Len(rob) - u /\ u + k = k + 1
    BY <1>0, <2>1, <2>5
  <2>7. u + k \in 1 .. Len(rob) /\ rob'[k].op = rob[u + k].op /\ MayKeep(u + k)
    BY <2>2, <2>3, <2>6, EffectFrom
  <2> QED
    BY <2>6, <2>7
<1>1. CASE RetireAndAlloc \/ AllocOnly
  <2>1. /\ state = "ACTIVE" /\ state' = "ACTIVE"
        /\ \E r \in 0 .. Len(rob), n \in Allocs : Clock(r, r, n, "none", FALSE)
    <3>1. CASE RetireAndAlloc
      <4>1. PICK r \in Retires, n \in Allocs : Clock(r, r, n, "none", FALSE)
        BY <3>1 DEF RetireAndAlloc
      <4>2. r \in 0 .. Len(rob)
        BY <1>0, <3>1, RetireFacts DEF RetireAndAlloc
      <4> QED
        BY <3>1, <4>1, <4>2, Zenon DEF RetireAndAlloc, Goto
    <3>2. CASE AllocOnly
      <4>1. 0 \in 0 .. Len(rob)
        BY <1>0
      <4> QED
        BY <3>2, <4>1, Zenon DEF AllocOnly, Goto
    <3> QED
      BY <1>1, <3>1, <3>2
  <2>2. PICK r \in 0 .. Len(rob), n \in Allocs : Clock(r, r, n, "none", FALSE)
    BY <2>1
  <2>3. PICK clr, settle : clr = "none" /\ Clock(r, r, n, clr, settle)
    BY <2>2, Zenon
  <2>4. n \in 0 .. 2 /\ n <= Len(dq) /\ clr # "rob"
    BY <2>3, AllocFacts
  <2>5. IF k <= Len(rob) - r
        THEN r + k \in 1 .. Len(rob) /\ rob'[k].op = rob[r + k].op /\ MayKeep(r + k)
        ELSE rob'[k].op = "ctc1"
    BY <2>3, <2>4, EffectFrom
  <2>6. k = 1 \/ rob'[k].op = "ctc1"
    <3>1. r + k = 1 => k = 1
      BY <1>0
    <3> QED
      BY <2>1, <2>5, <3>1 DEF MayKeep
  <2> QED
    BY <2>1, <2>6 DEF MayKeep
<1>2. CASE \/ EnterSerializeInSlot \/ EnterSerialize \/ AllocForSerialize \/ WaitForSerialize
           \/ StartFlush \/ FlushWaits \/ AllocSlotSerialize
  <2>1. state' \in {"SERIALIZE_IN_FAULTED_DELAY_SLOT", "ALLOC_FOR_SERIALIZE", "WAIT_FOR_SERIALIZE_AND_RESTART",
                    "CACHE_FLUSH", "WAIT_FOR_SERIALIZE_IN_FAULTED_DELAY_SLOT"}
    BY <1>2 DEF EnterSerializeInSlot, EnterSerialize, AllocForSerialize, WaitForSerialize,
                StartFlush, FlushWaits, AllocSlotSerialize, Goto
  <2> QED
    BY <2>1 DEF MayKeep
<1>3. CASE SerializeRestarts \/ FlushRestarts
  <2>1. /\ state \in {"WAIT_FOR_SERIALIZE_AND_RESTART", "CACHE_FLUSH"} /\ state' \in {"ACTIVE", state}
        /\ Clock(0, 0, 0, "dq", TRUE) /\ Len(rob) = 1
    BY <1>3 DEF SerializeRestarts, FlushRestarts, RestartBehind, Goto, FlowInv, HeadInv, SerialHead
  <2>2. PICK clr \in {"none", "dq"}, settle \in BOOLEAN : Clock(0, 0, 0, clr, settle)
    BY <2>1
  <2>3. k \in 1 .. Len(rob)
    BY <1>c, <2>2
  <2>4. k = 1
    BY <2>1, <2>3
  <2> QED
    BY <2>1, <2>4 DEF MayKeep
<1>4. CASE WaitSlotSerialize
  <2>1. /\ state = "WAIT_FOR_SERIALIZE_IN_FAULTED_DELAY_SLOT" /\ state' \in {"ACTIVE", state}
        /\ Clock(0, 0, 0, "none", Done(rob[2])) /\ BranchHead /\ Len(rob) = 2 /\ SerialSlot(rob[2])
    BY <1>4 DEF WaitSlotSerialize, Goto, FlowInv, HeadInv
  <2>2. k \in 1 .. 2 /\ rob'[k].op = rob[k].op
    BY <1>c, <2>1
  <2>3. k = 2
    BY <1>a, <1>b, <2>1, <2>2 DEF BranchHead
  <2>4. rob'[k].op = "ctc1"
    BY <1>a, <1>b, <2>1, <2>2, <2>3 DEF SerialSlot
  <2> QED
    BY <2>1, <2>4 DEF MayKeep
<1>5. CASE EnterArchFault
  <2>1. state = "ACTIVE" /\ rob # <<>> /\ ArchFault(rob[1]) /\ Clock(0, 0, 0, "none", FALSE)
    BY <1>5 DEF EnterArchFault, CanRetire
  <2>2. Faulted(rob[1]) /\ rob[1].op \in {"mem", "trap", "sys", "irq", "ftlb"}
    BY <2>1 DEF ArchFault
  <2>3. k \in 1 .. Len(rob) /\ rob'[k].op = rob[k].op /\ (k = 1 \/ rob[k].op = "ctc1")
    BY <1>c, <2>1 DEF MayKeep
  <2>4. k # 1
    BY <1>a, <1>b, <2>2, <2>3
  <2>5. StreamInv /\ Serializing(rob[k].op)
    BY <2>1, <2>2, <2>3, <2>4, FaultedActive, ActiveHead DEF Serializing
  <2>6. IsBr(rob[1].op)
    BY <2>3, <2>5 DEF StreamInv
  <2> QED
    BY <2>2, <2>6 DEF IsBr, Nullifying
<1>6. CASE RetireMispredict
  <2>1. /\ state = "ACTIVE" /\ rob # <<>> /\ Faulted(rob[1]) /\ state' = "DRAIN"
        /\ Clock(1, 1, 0, "none", FALSE) /\ (ds_done' <=> ~IsBr(rob[1].op)) /\ drain' = SlotOf(rob[1])
    BY <1>6 DEF RetireMispredict, CanRetire, Goto
  <2>2. k + 1 \in 1 .. Len(rob) /\ MayKeep(k + 1)
    BY <1>d, <2>1
  <2>3. rob[k + 1].op = "ctc1"
    BY <2>1, <2>2 DEF MayKeep
  <2>4. ~PendingRestart
    BY <2>1, FaultedActive
  <2>5. StreamInv /\ SlotMarks
    BY <2>1, <2>4, ActiveHead
  <2>6. k + 1 = 2 /\ Len(rob) = 2 /\ IsBr(rob[1].op)
    BY <2>2, <2>3, <2>5 DEF StreamInv, Serializing
  <2>7. k = 1 /\ rob[2].op = "ctc1"
    BY <2>3, <2>6
  <2>8. ~Nullifying(rob[1].op)
    <3> SUFFICES ASSUME Nullifying(rob[1].op) PROVE FALSE
      OBVIOUS
    <3>1. ~Ends(rob[1].op)
      BY <2>6 DEF Ends, IsBr, Nullifying, Serializing
    <3>2. IsNext(rob[1]) /\ ~want.slot /\ rob[2].pc = want.npc
      BY <2>1, <2>4, <2>6, <3>1, ActiveHead
    <3>3. rob[1].pc = want.pc /\ want.npc = Succ(want.pc) /\ want.pc \in Pc /\ prog \in Programs
      BY <3>2 DEF IsNext, FlowInv, WantInv, Sound, TypeOK, Reference
    <3>4. Right(prog, rob[1]) /\ Right(prog, rob[2])
      BY <2>6 DEF FlowInv, OpInv
    <3>5. prog[want.pc].op = rob[1].op /\ prog[want.npc].op = "ctc1"
      BY <2>7, <3>2, <3>3, <3>4 DEF Right, Nullifying
    <3> QED
      BY <3>3, <3>5 DEF NoCtc1InLikelySlot
  <2>9. ~ds_done' /\ ~drain'.nullify
    BY <2>1, <2>6, <2>8 DEF SlotOf
  <2> QED
    BY <2>1, <2>7, <2>9 DEF MayKeep, HeadValid
<1>7. CASE DrainNullified \/ DrainSlotFaults \/ DrainEnds
  <2>1. /\ state \in {"DRAIN", "EXCEPTION_DRAIN"} /\ Clock(0, 0, 0, "none", FALSE)
        /\ \/ drain.nullify /\ ~drain.taken
           \/ ds_done
           \/ ArchFault(rob[1])
    BY <1>7 DEF DrainNullified, DrainSlotFaults, DrainEnds, Drained
  <2>2. k = 1 /\ rob'[k].op = rob[k].op /\ HeadValid /\ state = "DRAIN"
    BY <1>c, <2>1 DEF MayKeep
  <2>3. ArchFault(rob[1])
    BY <2>1, <2>2 DEF HeadValid
  <2> QED
    BY <1>a, <1>b, <2>2, <2>3 DEF ArchFault
<1>8. CASE DrainSlotRetires
  <2>1. state = "DRAIN" /\ rob # <<>> /\ Clock(1, 1, 0, "none", FALSE)
    BY <1>8 DEF DrainSlotRetires, SlotComplete
  <2>2. MayKeep(k + 1)
    BY <1>d, <2>1
  <2>3. k + 1 # 1
    BY <1>0
  <2> QED
    BY <2>1, <2>2, <2>3 DEF MayKeep
<1>9. CASE DrainWaits
  <2>1. /\ state \in {"DRAIN", "EXCEPTION_DRAIN"} /\ state' = state /\ ds_done' = ds_done /\ drain' = drain
        /\ Clock(0, 0, 0, "none", FALSE)
    BY <1>9 DEF DrainWaits, Goto
  <2>2. k = 1 /\ HeadValid /\ state = "DRAIN"
    BY <1>c, <2>1 DEF MayKeep
  <2> QED
    BY <2>1, <2>2 DEF MayKeep, HeadValid
<1>10. CASE RatWaits \/ RatEnds
  <2>1. state = "RAT" /\ \E settle : Clock(0, 0, 0, "rob", settle)
    BY <1>10, Zenon DEF RatWaits, RatEnds
  <2>2. rob' = <<>>
    BY <2>1, RobCleared
  <2> QED
    BY <2>2, NextSizes
<1>11. CASE TakeFault
  <2>1. state = "ARCH_FAULT" /\ rob # <<>> /\ Clock(0, 1, 0, "none", FALSE)
    BY <1>11 DEF TakeFault, FlowInv, HeadInv
  <2>2. MayKeep(k + 1)
    BY <1>d, <2>1
  <2> QED
    BY <2>1, <2>2 DEF MayKeep
<1>12. CASE WriteEpc
  <2>1. state = "WRITE_EPC" /\ Clock(0, 0, 0, "dq", FALSE)
    BY <1>12 DEF WriteEpc
  <2>2. MayKeep(k)
    BY <1>c, <2>1
  <2> QED
    BY <2>1, <2>2 DEF MayKeep
<1> QED
  BY <1>1, <1>2, <1>3, <1>4, <1>5, <1>6, <1>7, <1>8, <1>9, <1>10, <1>11, <1>12 DEF CoreCycle

\* What is discarded in RAT has had no effect.
LEMMA UndoneStep ==
    ASSUME TypeOK, HeadInv, EffectsKept, ~undone, CoreCycle
    PROVE  ~undone'
<1>1. PICK retire, drop, alloc, clr, settle : Clock(retire, drop, alloc, clr, settle) /\ (clr = "rob" => state = "RAT")
  <2>1. CASE RatWaits \/ RatEnds
    <3>1. state = "RAT" /\ \E settle : Clock(0, 0, 0, "rob", settle)
      BY <2>1, Zenon DEF RatWaits, RatEnds
    <3> QED
      BY <3>1, Zenon
  <2>2. CASE \E retire, drop, alloc, settle : Clock(retire, drop, alloc, "none", settle)
    <3>1. "none" # "rob"
      OBVIOUS
    <3> QED
      BY <2>2, <3>1, Zenon
  <2>3. CASE \E retire, drop, alloc, settle : Clock(retire, drop, alloc, "dq", settle)
    <3>1. "dq" # "rob"
      OBVIOUS
    <3> QED
      BY <2>3, <3>1, Zenon
  <2> QED
    BY <2>1, <2>2, <2>3, ClockCases
<1>2. undone' = (undone \/ (clr = "rob" /\ \E i \in 1 .. Len(rob) : HasEffect(rob[i])))
  BY <1>1, Zenon DEF Clock
<1>3. state = "RAT" => \A i \in 1 .. Len(rob) : ~HasEffect(rob[i])
  BY DEF EffectsKept, MayKeep
<1> QED
  BY <1>1, <1>2, <1>3

LEMMA EffectStep ==
    ASSUME TlbWritesApart, NoCtc1InLikelySlot, TypeOK, TypeOK', FlowInv, EffectInv, Next
    PROVE  EffectInv'
<1>1. CoreCycle /\ L1ICycle(Acked)
  BY DEF Next
<1>2. EndsSafe /\ PairsSafe /\ EffectsKept /\ ~undone /\ HeadInv
  BY DEF EffectInv, NonSpeculativeEffect, FlowInv
<1>3. EndsSafe'
  BY <1>1, <1>2, EndsSafeStep
<1>4. PairsSafe'
  BY <1>1, <1>2, PairsSafeStep
<1>5. EffectsKept'
  BY <1>1, <1>2, EffectsKeptStep
<1>6. ~undone'
  BY <1>1, <1>2, UndoneStep
<1> QED
  BY <1>3, <1>4, <1>5, <1>6 DEF EffectInv, NonSpeculativeEffect

LEMMA EffectStutter ==
    ASSUME EffectInv, UNCHANGED vars
    PROVE  EffectInv'
<1>1. /\ prog' = prog /\ rob' = rob /\ dq' = dq /\ fq' = fq /\ state' = state /\ cache_pc' = cache_pc /\ pc' = pc
      /\ restart_valid' = restart_valid /\ restart_req' = restart_req /\ ds_done' = ds_done /\ drain' = drain
      /\ undone' = undone
  BY DEF vars, corevars, l1ivars
<1>2. StreamLen' = StreamLen /\ Stream' = Stream /\ FetchStream' = FetchStream /\ PendingRestart' = PendingRestart
  BY <1>1 DEF StreamLen, Stream, FetchStream, PendingRestart
<1>3. EndsSafe'
  BY <1>1, <1>2 DEF EffectInv, EndsSafe, FetchSafe
<1>4. PairsSafe'
  BY <1>1 DEF EffectInv, PairsSafe, PairSafe
<1>5. EffectsKept'
  BY <1>1 DEF EffectInv, EffectsKept, MayKeep, HeadValid
<1> QED
  BY <1>1, <1>3, <1>4, <1>5 DEF EffectInv, NonSpeculativeEffect

\* An instruction whose effect cannot be undone (a TLB write, a move to a control
\* register) has it only if it retires: for programs in which no TLB write is in the
\* slot of an ordinary branch or behind a mapped address, and no CTC1 in the slot of
\* a branch-likely.
THEOREM EffectsNotSpeculative ==
    ASSUME LikelySlotsSafe, TlbWritesApart, NoCtc1InLikelySlot
    PROVE  Spec => []NonSpeculativeEffect
<1>1. Init => EffectInv
  <2> SUFFICES ASSUME Init PROVE EffectInv
    OBVIOUS
  <2>1. Len(rob) = 0 /\ Len(dq) = 0 /\ Len(fq) = 0 /\ state = "ACTIVE" /\ ~undone
    BY DEF Init, L1IInit
  <2>2. StreamLen = 0
    BY <2>1 DEF StreamLen
  <2> QED
    BY <2>1, <2>2 DEF EffectInv, EndsSafe, EndSafe, PairsSafe, EffectsKept, NonSpeculativeEffect
<1>2. TypeOK /\ TypeOK' /\ FlowInv /\ EffectInv /\ [Next]_vars => EffectInv'
  BY EffectStep, EffectStutter
<1>3. EffectInv => NonSpeculativeEffect
  BY DEF EffectInv
<1> QED
  BY <1>1, <1>2, <1>3, FlowHolds, PTL DEF Spec
=============================================================================
