------------------------------- MODULE IssFp -------------------------------
(***************************************************************************)
(* Coprocessor 1 of the reference interpreter: the register file under     *)
(* Status.FR (at FR = 0 an odd single register is the high half of the     *)
(* even one), the moves, loads and stores, the computational instructions  *)
(* by where their result lands, the rounding modes, the condition codes    *)
(* and their two views FCSR and FCCR.                                      *)
(***************************************************************************)
EXTENDS IssData

CONSTANTS FcsrWrites      \* values ctc1 writes to FCSR, as sets of bit numbers

FReg    == DOMAIN cpr1
odd(f)  == f % 2 = 1
even(f) == f - (f % 2)
High(x) == x \div 2^W

(* the word of single register f, and the file after it is written *)
Read32(f)     == IF fr THEN Lo(cpr1[f])
                 ELSE IF odd(f) THEN High(cpr1[even(f)]) ELSE Lo(cpr1[f])
Write32(f, w) == IF fr THEN [cpr1 EXCEPT ![f] = sext64(w)]
                 ELSE LET old == cpr1[even(f)] IN
                      [cpr1 EXCEPT ![even(f)] = IF odd(f) THEN Lo(old) + w * 2^W
                                                ELSE High(old) * 2^W + w]

(* history: the single registers a write of the whole of register f replaces *)
Whole(f)  == IF fr THEN {f} ELSE IF odd(f) THEN {} ELSE {f, f + 1}
Forget(S) == fpw' = [f \in FReg |-> IF f \in S THEN {} ELSE fpw[f]]
Know(f, w) == fpw' = [fpw EXCEPT ![f] = {w}]

ToFpr(op, file) == /\ Done(NoOperands(op)) /\ cpr1' = file /\ pair' = NoPair
                   /\ UNCHANGED <<ireg, mem, fcsr, fccr, mirrored, mode, wide>>
---------------------------------------------------------------------------
(* Moves, loads and stores *)

Rt == {t[2] : t \in Operands}

_mtc1(f, rt)  == ToFpr("mtc1", Write32(f, Lo(gpr[rt]))) /\ Know(f, Lo(gpr[rt]))
_mfc1(f, rt)  == ToGpr(NoOperands("mfc1"), rt, sext64(Read32(f)), FALSE)
_dmtc1(f, rt) == ToFpr("dmtc1", [cpr1 EXCEPT ![f] = gpr[rt]]) /\ Forget(Whole(f))
_dmfc1(f, rt) == ToGpr(NoOperands("dmfc1"), rt, cpr1[f], TRUE)

FpMove == \E f \in FReg, rt \in Rt : _mtc1(f, rt) \/ _mfc1(f, rt) \/ _dmtc1(f, rt) \/ _dmfc1(f, rt)

(* x: the indexed form of COP1X.  No alignment is checked. *)
Indexed(x, A) == IF x /\ ~Mips4 THEN raise("ri", NoOperands("cop1x")) ELSE A
_ldc1(f, ea) == IF ~fr /\ odd(f) THEN raise("ri", NoOperands("ldc1"))
                ELSE ToFpr("ldc1", [cpr1 EXCEPT ![f] = Value(ea, 8)]) /\ Forget(Whole(f))
_sdc1(f, ea) == IF ~fr /\ odd(f) THEN raise("ri", NoOperands("sdc1"))
                ELSE ToMem(NoOperands("sdc1"), Stored(ea, 8, cpr1[f]), NoPair)
_lwc1(f, ea) == ToFpr("lwc1", Write32(f, Value(ea, 4))) /\ Know(f, Value(ea, 4))
_swc1(f, ea) == ToMem(NoOperands("swc1"), Stored(ea, 4, Read32(f)), NoPair)

FpMemory == \E f \in FReg, x \in BOOLEAN :
               \/ \E ea \in 0..(MemBytes - 4) : Indexed(x, _lwc1(f, ea)) \/ Indexed(x, _swc1(f, ea))
               \/ \E ea \in 0..(MemBytes - 8) : Indexed(x, _ldc1(f, ea)) \/ Indexed(x, _sdc1(f, ea))
---------------------------------------------------------------------------
(* Computation.  A single or word result replaces the low half of its register
   in place, a double or long one the whole. *)

(* a single result that clears the other half *)
LowClears(f, w) == [cpr1 EXCEPT ![f] = w]
Low(f, w) == [cpr1 EXCEPT ![f] = High(@) * 2^W + w]
OddFault(S) == ~fr /\ \E f \in S : odd(f)

(* execFP: the value is external *)
FpArith == \E fs \in FReg, ft \in FReg, fd \in FReg, double \in BOOLEAN, w \in FpWords :
    IF OddFault({fs, ft, fd}) THEN raise("ri", NoOperands("fp"))
    ELSE IF double THEN ToFpr("fp", [cpr1 EXCEPT ![fd] = w * 2^W + w]) /\ Forget(Whole(fd))
    ELSE ToFpr("fp", Low(fd, w)) /\ Forget({fd})

(* an operation that is not implemented; without MIPS IV also recip, rsqrt and
   the conditional moves *)
FpUnimplemented == \E f \in FReg : raise(IF OddFault({f}) THEN "ri" ELSE "fpe", NoOperands("fp"))

(* madd msub nmadd nmsub of COP1X *)
FpMadd == \E fs \in FReg, ft \in FReg, fd \in FReg, double \in BOOLEAN, w \in FpWords :
    IF ~Mips4 \/ OddFault({fs, ft, fd}) THEN raise("ri", NoOperands("madd"))
    ELSE IF double THEN ToFpr("madd", [cpr1 EXCEPT ![fd] = w * 2^W + w]) /\ Forget(Whole(fd))
    ELSE ToFpr("madd", Low(fd, w)) /\ Forget({fd})

(* cvt.s and cvt.d, from the other formats *)
_cvts(fd, w) == ToFpr("cvts", Low(fd, w)) /\ Forget({fd})
_cvtd(fd, w) == ToFpr("cvtd", [cpr1 EXCEPT ![fd] = w * 2^W + w]) /\ Forget(Whole(fd))
FpFormat == \E fs \in FReg, fd \in FReg, w \in FpWords :
    IF OddFault({fs, fd}) THEN raise("ri", NoOperands("cvt")) ELSE _cvts(fd, w) \/ _cvtd(fd, w)

(* The number a bit pattern stands for is external; this stand-in, in quarters,
   has the cases rounding tells apart. *)
Quarters(x, double) == IF double THEN SD(x) ELSE SW(x)
Floor(q)   == q \div 4
Rounded(q, rm) ==
    LET down == Floor(q)
        frac == q - 4 * down IN
    CASE rm = 0 -> IF frac < 2 \/ (frac = 2 /\ down % 2 = 0) THEN down ELSE down + 1
      [] rm = 1 -> IF q < 0 /\ frac # 0 THEN down + 1 ELSE down
      [] rm = 2 -> IF frac # 0 THEN down + 1 ELSE down
      [] rm = 3 -> down
RM == (IF 0 \in fcsr THEN 1 ELSE 0) + (IF 1 \in fcsr THEN 2 ELSE 0)

(* round, trunc, ceil, floor and cvt to a word or a long; a word that does not
   fit is undefined in C++ (the host gives the least or the greatest) *)
Convert == \E fs \in FReg, fd \in FReg, double \in BOOLEAN, long \in BOOLEAN, named \in BOOLEAN :
    \E rm \in IF named THEN 0..3 ELSE {RM} :
    LET q == Quarters(cpr1[fs], double)
        r == Rounded(q, rm)
        n == IF long THEN D ELSE W
        i == [NoOperands("cvt") EXCEPT !.a = q, !.b = rm, !.rd = fd, !.n = n] IN
    IF OddFault({fs, fd}) THEN raise("ri", NoOperands("cvt"))
    ELSE \E v \in IF InRange(r, n) THEN {r % 2^n} ELSE {2^(n - 1), 2^(n - 1) - 1} :
         /\ Done(i) /\ cpr1' = (IF long THEN [cpr1 EXCEPT ![fd] = v] ELSE Low(fd, v))
         /\ Forget(IF long THEN Whole(fd) ELSE {fd}) /\ pair' = NoPair
         /\ UNCHANGED <<ireg, mem, fcsr, fccr, mirrored, mode, wide>>
---------------------------------------------------------------------------
(* Condition codes and control registers *)

CC == 0..(NCC - 1)
fcc_bit(c) == IF c = 0 THEN 23 ELSE 24 + c
getConditionCode(c) == fcc_bit(c) \in fcsr
fcc_mirror_to_fccr(f)   == {c \in CC : fcc_bit(c) \in f}
fcc_mirror_from_fccr(v) == (fcsr \ {fcc_bit(c) : c \in CC}) \cup {fcc_bit(c) : c \in v}

(* a comparison that leaves FCCR behind *)
setConditionCodeUnmirrored(v, c) ==
    /\ fcsr' = IF v THEN fcsr \cup {fcc_bit(c)} ELSE fcsr \ {fcc_bit(c)}
    /\ mirrored' = TRUE /\ UNCHANGED fccr
setConditionCode(v, c) == /\ fcsr' = IF v THEN fcsr \cup {fcc_bit(c)} ELSE fcsr \ {fcc_bit(c)}
                          /\ fccr' = fcc_mirror_to_fccr(fcsr') /\ mirrored' = TRUE

(* c.cond: less & cond[2] | equal & cond[1] | unordered & cond[0] *)
Predicate(cond, rel) == \/ rel = "lt" /\ (cond \div 4) % 2 = 1
                        \/ rel = "eq" /\ (cond \div 2) % 2 = 1
                        \/ rel = "un" /\ cond % 2 = 1
fpCmp == \E cond \in 0..7, rel \in {"lt", "eq", "gt", "un"}, c \in CC, f \in FReg :
    IF OddFault({f}) THEN raise("ri", NoOperands("c"))
    ELSE /\ Done([NoOperands("c") EXCEPT !.n = c]) /\ setConditionCode(Predicate(cond, rel), c)
         /\ pair' = NoPair /\ UNCHANGED <<ireg, mem, cpr1, mode, wide, fpw>>

ToControl(f, v, m) == /\ Done(NoOperands("ctc1")) /\ pair' = NoPair
                      /\ fcsr' = f /\ fccr' = v /\ mirrored' = m
                      /\ UNCHANGED <<ireg, mem, cpr1, mode, wide, fpw>>
(* FCSR (31); FCCR (25); the registers without a view (FIR, FEXR, FENR: 0, 26,
   28); every other number, which fcr_index makes FCSR, without its mirror *)
_ctc1 == \/ \E f \in FcsrWrites : ToControl(f, fcc_mirror_to_fccr(f), TRUE)
         \/ \E v \in SUBSET CC : ToControl(fcc_mirror_from_fccr(v), v, TRUE)
         \/ ToControl(fcsr, fccr, mirrored)
         \/ \E f \in FcsrWrites : ToControl(f, fccr, FALSE)
(* the value read has more bits than a word of this model: any word *)
_cfc1 == \E rt \in Rt, w \in FpWords : ToGpr(NoOperands("cfc1"), rt, sext64(w), FALSE)

(* the .fmt conditional moves: at either format the whole register is moved *)
MoveIf(c, fd, fs) == IF c THEN ToFpr("fmov", [cpr1 EXCEPT ![fd] = cpr1[fs]]) /\ Forget(Whole(fd))
                     ELSE ToFpr("fmov", cpr1) /\ UNCHANGED fpw
_movn(fd, fs, rt) == MoveIf(gpr[rt] # 0, fd, fs)
_movz(fd, fs, rt) == MoveIf(gpr[rt] = 0, fd, fs)
_movc(fd, fs, c, tf) == MoveIf(getConditionCode(c) = tf, fd, fs)
FpCondMove == \E fs \in FReg, fd \in FReg :
    IF OddFault({fs, fd}) THEN raise("ri", NoOperands("fmov"))
    ELSE IF ~Mips4 THEN raise("fpe", NoOperands("fmov"))
    ELSE \/ \E rt \in Rt : _movn(fd, fs, rt) \/ _movz(fd, fs, rt)
         \/ \E c \in CC, tf \in BOOLEAN : _movc(fd, fs, c, tf)

ExecCondMove == \E op \in {"movn", "movz", "movt", "movf"}, t \in Operands, c \in CC :
                   CondMove(op, t, getConditionCode(c))

(* the mode changes: mtc0 to Status, an exception, eret *)
SetMode == /\ in64' \in BOOLEAN /\ fr' \in BOOLEAN /\ Done(NoOperands("status"))
           /\ fpw' = (IF fr' = fr THEN fpw ELSE [f \in FReg |-> {}]) /\ pair' = NoPair
           /\ UNCHANGED <<ireg, mem, fpu, wide>>

Running == ops < MaxOps /\ exc # "sigfpe"
Halt == ~Running /\ UNCHANGED vars

Next == \/ /\ Running
           /\ \/ IntNext \/ ExecCondMove
              \/ FpMove \/ FpMemory \/ FpArith \/ FpMadd \/ FpFormat \/ FpUnimplemented \/ FpCondMove \/ Convert
              \/ fpCmp \/ _ctc1 \/ _cfc1 \/ SetMode
        \/ Halt
Spec == Init /\ [][Next]_vars
---------------------------------------------------------------------------
(* Type correctness of the data path: no result is wider than its register. *)
TypeOK ==
    /\ gpr \in [DOMAIN gpr -> DWord] /\ hi \in DWord /\ lo \in DWord
    /\ \A t \in Operands : t[1] \in DOMAIN gpr /\ t[2] \in DOMAIN gpr /\ t[3] \in DOMAIN gpr
    /\ mem \in Memory
    /\ cpr1 \in [FReg -> DWord] /\ fpw \in [FReg -> SUBSET (0..(2^W - 1))]
    /\ \A f \in FReg : f \in Nat /\ even(f) \in FReg
    /\ in64 \in BOOLEAN /\ fr \in BOOLEAN /\ wide \in BOOLEAN /\ mirrored \in BOOLEAN
    /\ ops \in 0..MaxOps
    /\ exc \in {"none", "ov", "trap", "ri", "adel", "ades", "fpe", "sigfpe"}

(* The single registers of a pair are independent at FR = 0, and a word moved
   or loaded to one reads back until that register is overwritten: by the
   moves, the merges into a half, and the operations that write a low half in
   place.  (The .S conditional moves of a MIPS IV build write both.) *)
SinglesHeld == \A f \in FReg : \A w \in fpw[f] : Read32(f) = w

(* "FCCR is an alternate view" (interpret.cc:399): both hold the same codes,
   whatever comparisons, CTC1 to either and CTC1 to the registers without a view
   come in between.  Only a CTC1 to a control number the architecture reserves
   parts them, since the code writes FCSR then and skips the mirror; the next
   comparison, or CTC1 to FCSR or to FCCR, joins them again. *)
FccViews == mirrored => \A c \in CC : (c \in fccr) = getConditionCode(c)

(* conversions: to the nearest and even, towards zero, up or down, when the
   result fits *)
RoundsAsNamed ==
    LET q == insn.a
        r == 4 * sgn(cpr1[insn.rd] % 2^insn.n, insn.n) IN
    insn.op = "cvt" /\ insn.n # 0 /\ InRange(Rounded(q, insn.b), insn.n) =>
        /\ Abs(q - r) < 4
        /\ insn.b = 0 => Abs(q - r) <= 2 /\ (Abs(q - r) = 2 => (r \div 4) % 2 = 0)
        /\ insn.b = 1 => Abs(r) <= Abs(q)
        /\ insn.b = 2 => r >= q
        /\ insn.b = 3 => r <= q

(* Results against the integers: a trapping add or subtract raises Overflow
   exactly when the result does not fit, and then writes nothing; HI and LO
   hold the whole product; a quotient and remainder satisfy the division
   identity with the remainder on the dividend's side; a conversion rounds as
   its mode says. *)
ResultExact == IntResultExact /\ RoundsAsNamed
=============================================================================
