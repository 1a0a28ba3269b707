------------------------------ MODULE IssData ------------------------------
(***************************************************************************)
(* The data path of the reference interpreter: what one instruction of     *)
(* interpret.cc does to the integer registers, HI and LO, memory bytes and *)
(* the floating-point registers.  Widths are parametric: a byte has BB     *)
(* bits, a word 4 bytes, a doubleword 8, so that every rule about sign     *)
(* extension, truncation, carries and byte lanes is the code's own.        *)
(* Addresses are physical (translation and control are module Iss), and    *)
(* IEEE arithmetic is external: a result is any value of its width.        *)
(***************************************************************************)
EXTENDS Integers, Sequences, FiniteSets

CONSTANTS
    BB,           \* bits in a byte
    MemBytes,     \* bytes of memory
    Operands,     \* triples <<rs, rt, rd>> of general register numbers
    Imm,          \* 16-bit immediates, as unsigned numbers
    Shamt,        \* shift amounts
    GprInit, MemInit, FprInit,   \* contents of the registers and memory at the start
    EL,           \* the template parameter: TRUE for little-endian
    Mips4,        \* a MIPS IV build (ISS_MIPS4 or ISS_MIPS4_CMOV)
    FpWords,      \* words an external floating-point result may be
    NCC,          \* condition codes
    MaxOps        \* bound: instructions

H == 2 * BB
W == 4 * BB
D == 8 * BB

DWord  == 0..(2^D - 1)
Memory == [0..(MemBytes - 1) -> 0..(2^BB - 1)]

(* memory is whole doublewords *)
ASSUME DataAssumption ==
    /\ BB \in Nat \ {0} /\ MaxOps \in Nat /\ NCC \in Nat \ {0}
    /\ MemBytes \in Nat \ {0} /\ MemBytes % 8 = 0
    /\ EL \in BOOLEAN /\ Mips4 \in BOOLEAN
    /\ Imm \subseteq 0..(2^H - 1) /\ Shamt \subseteq 0..(W - 1)

VARIABLES
    gpr, hi, lo,      \* s->gpr, s->hi, s->lo: doublewords, as unsigned numbers
    mem,              \* s->mem, byte by byte
    cpr1,             \* the floating-point registers
    fcsr, fccr,       \* fcr1[CP1_CR31] and fcr1[CP1_CR25], as sets of bit numbers
    in64, fr,         \* in_64b_mode(s); SR.FR
    exc,              \* how the last instruction ended
    insn,             \* the last instruction and the operands it read
    ops,              \* counts against MaxOps
    wide, fpw, pair, mirrored   \* history: see below

ireg  == <<gpr, hi, lo>>
fpu   == <<cpr1, fcsr, fccr, mirrored>>
mode  == <<in64, fr>>
vars  == <<ireg, mem, fpu, mode, exc, insn, ops, wide, fpw, pair>>

(* wide: a 64-bit operation has completed.  fpw[f]: the word last moved or
   loaded to single register f, while it must still be there ({} or {word}).
   pair: the last instruction if it was an unaligned access, with the memory it
   found.  mirrored: FCSR has not been written past FCCR since they last agreed. *)
Part(op, left, n, rt, ea, m) == [op |-> op, left |-> left, n |-> n, rt |-> rt, ea |-> ea, mem |-> m]
NoOperands(op) == [op |-> op, a |-> 0, b |-> 0, rd |-> 0, n |-> 0]
NoPair == Part("none", FALSE, 0, 0, 0, <<>>)

Init ==
    /\ gpr \in GprInit /\ hi = 0 /\ lo = 0
    /\ mem \in MemInit /\ cpr1 \in FprInit
    /\ fcsr = {} /\ fccr = {} /\ mirrored = TRUE
    /\ in64 \in BOOLEAN /\ fr \in BOOLEAN
    /\ exc = "none" /\ insn = NoOperands("none") /\ ops = 0
    /\ wide = FALSE /\ fpw = [f \in DOMAIN cpr1 |-> {}] /\ pair = NoPair
---------------------------------------------------------------------------
(* The widths of C *)

Lo(x)     == x % 2^W                                        \* (uint32_t)x
sgn(x, n) == IF x >= 2^(n - 1) THEN x - 2^n ELSE x          \* the signed reading
SW(x)     == sgn(Lo(x), W)                                  \* (int32_t)x
SD(x)     == sgn(x, D)                                      \* (int64_t)x
sext64(w) == sgn(w, W) % 2^D
simm(i)   == sgn(i, H)
Top(x, n) == x \div 2^(n - 1)
Bool(b)   == IF b THEN 1 ELSE 0
Canonical64(x) == x = sext64(Lo(x))

(* the contents at the start: the general registers hold sign-extended words *)
ASSUME StartAssumption ==
    /\ \A g \in GprInit : /\ g \in [DOMAIN g -> DWord] /\ \A r \in DOMAIN g : Canonical64(g[r])
                          /\ \A t \in Operands : t[1] \in DOMAIN g /\ t[2] \in DOMAIN g /\ t[3] \in DOMAIN g
    /\ \A f \in FprInit : /\ f \in [DOMAIN f -> DWord]
                          /\ \A r \in DOMAIN f : r \in Nat /\ r - (r % 2) \in DOMAIN f
    /\ MemInit \subseteq Memory /\ FpWords \subseteq 0..(2^W - 1)

(* digit k of x, counted from the least significant, and the number of the n
   digits d; a digit has b bits *)
Digit(x, k, b)  == (x \div 2^(b * k)) % 2^b
Number(n, b, d) == LET Sum[k \in 0..n] == IF k = 0 THEN 0
                                          ELSE Sum[k - 1] + d[k - 1] * 2^(b * (k - 1))
                   IN Sum[n]

(* / and % of C truncate towards zero *)
Abs(a)     == IF a < 0 THEN -a ELSE a
Quot(a, b) == IF (a < 0) = (b < 0) THEN Abs(a) \div Abs(b) ELSE -(Abs(a) \div Abs(b))
Rem(a, b)  == a - b * Quot(a, b)

(* how an instruction ends *)
Ran     == ops' = ops + 1
Done(i) == Ran /\ exc' = "none" /\ insn' = i
raise(code, i) == /\ Ran /\ exc' = code /\ insn' = i
                  /\ UNCHANGED <<ireg, mem, fpu, mode, wide, fpw, pair>>
(* execMips resets $0 before every instruction: a write to it is not seen *)
Put(r, x) == gpr' = IF r = 0 THEN gpr ELSE [gpr EXCEPT ![r] = x]
ToGpr(i, r, x, w64) == /\ Done(i) /\ Put(r, x) /\ wide' = (wide \/ w64) /\ pair' = NoPair
                       /\ UNCHANGED <<hi, lo, mem, fpu, mode, fpw>>
Insn(op, t, b) == [op |-> op, a |-> gpr[t[1]], b |-> b, rd |-> t[3], n |-> 0]

(* is_64b_gated: dsll32, dsrl32, dsra32 and the 64-bit loads and stores are not *)
Gated64(op) == op \in {"dadd", "daddu", "dsub", "dsubu", "daddi", "daddiu", "dsll", "dsrl", "dsra",
                       "dsllv", "dsrlv", "dsrav", "dmult", "dmultu", "ddiv", "ddivu", "lld", "scd"}
---------------------------------------------------------------------------
(* execMips: SPECIAL and the immediate forms *)

Shifted(op, x, n) ==
    CASE op \in {"sll", "sllv"}            -> sext64((Lo(x) * 2^n) % 2^W)
      [] op \in {"srl", "srlv"}            -> sext64(Lo(x) \div 2^n)
      [] op \in {"sra", "srav"}            -> (SW(x) \div 2^n) % 2^D
      [] op \in {"dsll", "dsllv", "dsll32"} -> (x * 2^n) % 2^D
      [] op \in {"dsrl", "dsrlv", "dsrl32"} -> x \div 2^n
      [] op \in {"dsra", "dsrav", "dsra32"} -> (SD(x) \div 2^n) % 2^D

Shift(op, t, sa) ==
    LET n == CASE op \in {"sllv", "srlv", "srav"}       -> gpr[t[1]] % W
               [] op \in {"dsllv", "dsrlv", "dsrav"}    -> gpr[t[1]] % D
               [] op \in {"dsll32", "dsrl32", "dsra32"} -> sa + W
               [] OTHER                                 -> sa IN
    ToGpr([Insn(op, t, gpr[t[2]]) EXCEPT !.n = n], t[3], Shifted(op, gpr[t[2]], n),
          op \notin {"sll", "srl", "sra", "sllv", "srlv", "srav"})

AddOverflows(a, b, n) == LET r == (a + b) % 2^n IN Top(r, n) # Top(b, n) /\ Top(a, n) = Top(b, n)
(* the test of add, applied to a difference *)
SubOverflowsAsAdd(a, b, n) == AddOverflows(a, b, n)
SubOverflows(a, b, n) == LET r == (a - b) % 2^n IN Top(r, n) # Top(a, n) /\ Top(a, n) # Top(b, n)

(* add, addu, addi, addiu and the doubleword forms; b is a register or an
   immediate *)
Add(op, t, b, rd) ==
    LET i == [Insn(op, t, b) EXCEPT !.rd = rd]
        n == IF op \in {"add", "addu", "addi", "addiu"} THEN W ELSE D
        r == (gpr[t[1]] + b) % 2^n IN
    IF op \in {"add", "addi", "dadd", "daddi"} /\ AddOverflows(gpr[t[1]] % 2^n, b % 2^n, n)
    THEN raise("ov", i)
    ELSE ToGpr(i, rd, IF n = W THEN sext64(r) ELSE r, n = D)

Sub(op, t) ==
    LET i == Insn(op, t, gpr[t[2]])
        n == IF op \in {"sub", "subu"} THEN W ELSE D
        r == (gpr[t[1]] - gpr[t[2]]) % 2^n IN
    IF op \in {"sub", "dsub"} /\ SubOverflows(gpr[t[1]] % 2^n, gpr[t[2]] % 2^n, n)
    THEN raise("ov", i)
    ELSE ToGpr(i, t[3], IF n = W THEN sext64(r) ELSE r, n = D)

(* one bit of a logical result *)
LogicBit(op, x, y) == CASE op = "and" -> x * y
                        [] op = "or"  -> Bool(x + y # 0)
                        [] op = "xor" -> (x + y) % 2
                        [] op = "nor" -> Bool(x + y = 0)

Logic(op, t, b, rd) ==
    LET a == gpr[t[1]] IN
    ToGpr(Insn(op, t, b), rd,
          CASE op \in {"and", "or", "xor", "nor"} ->
                    Number(D, 1, [k \in 0..(D - 1) |-> LogicBit(op, Digit(a, k, 1), Digit(b, k, 1))])
            [] op = "slt"  -> Bool(SD(a) < SD(b))
            [] op = "sltu" -> Bool(a < b), FALSE)

Lui(i, rt) == ToGpr(NoOperands("lui"), rt, sext64((i * 2^H) % 2^W), FALSE)

Traps(op, a, b) == CASE op = "tge"  -> SD(a) >= SD(b)
                     [] op = "tgeu" -> a >= b
                     [] op = "tlt"  -> SD(a) < SD(b)
                     [] op = "tltu" -> a < b
                     [] op = "teq"  -> a = b
                     [] op = "tne"  -> a # b

(* the traps and trap-immediates *)
Trap(op, t, b) ==
    LET i == Insn(op, t, b) IN
    IF Traps(op, gpr[t[1]], b) THEN raise("trap", i) ELSE ToGpr(i, 0, 0, FALSE)

(* movn, movz, movf and movt: MIPS IV *)
CondMove(op, t, cc) ==
    LET i == Insn(op, t, gpr[t[2]])
        c == CASE op = "movn" -> gpr[t[2]] # 0
               [] op = "movz" -> gpr[t[2]] = 0
               [] op = "movt" -> cc
               [] op = "movf" -> ~cc IN
    IF ~Mips4 THEN raise("ri", i)
    ELSE ToGpr(i, t[3], IF c THEN gpr[t[1]] ELSE gpr[t[3]], FALSE)

ToHiLo(i, h, l, w64) == /\ Done(i) /\ hi' = h /\ lo' = l /\ wide' = (wide \/ w64) /\ pair' = NoPair
                        /\ UNCHANGED <<gpr, mem, fpu, mode, fpw>>

MoveHiLo(op, t) ==
    CASE op = "mfhi" -> ToGpr(NoOperands(op), t[3], hi, FALSE)
      [] op = "mflo" -> ToGpr(NoOperands(op), t[3], lo, FALSE)
      [] op = "mthi" -> ToHiLo(NoOperands(op), gpr[t[1]], lo, FALSE)
      [] op = "mtlo" -> ToHiLo(NoOperands(op), hi, gpr[t[1]], FALSE)

Mult(op, t) ==
    LET a == gpr[t[1]]
        b == gpr[t[2]]
        y == CASE op = "mult"   -> SW(a) * SW(b)
               [] op = "multu"  -> Lo(a) * Lo(b)
               [] op = "dmult"  -> SD(a) * SD(b)
               [] op = "dmultu" -> a * b IN
    IF op \in {"mult", "multu"}
    THEN ToHiLo(Insn(op, t, gpr[t[2]]), sext64((y \div 2^W) % 2^W), sext64(y % 2^W), FALSE)
    ELSE ToHiLo(Insn(op, t, gpr[t[2]]), (y \div 2^D) % 2^D, y % 2^D, TRUE)

(* HI and LO keep their values when the divisor is zero.  divu tests the whole
   register and divides by its low word: the host faults when only that is 0. *)
Divide(op, t) ==
    LET a == gpr[t[1]]
        b == gpr[t[2]]
        i == Insn(op, t, gpr[t[2]])
        zero == IF op = "div" THEN SW(b) = 0 ELSE b = 0 IN
    IF zero THEN ToHiLo(i, hi, lo, FALSE)
    ELSE CASE op = "div"   -> ToHiLo(i, sext64(Rem(SW(a), SW(b)) % 2^W), sext64(Quot(SW(a), SW(b)) % 2^W), FALSE)
           [] op = "divu"  -> IF Lo(b) = 0 THEN raise("sigfpe", i)
                              ELSE ToHiLo(i, sext64(Lo(a) % Lo(b)), sext64(Lo(a) \div Lo(b)), FALSE)
           [] op = "ddiv"  -> IF a = 2^(D - 1) /\ SD(b) = -1 THEN ToHiLo(i, 0, a, TRUE)
                              ELSE ToHiLo(i, Rem(SD(a), SD(b)) % 2^D, Quot(SD(a), SD(b)) % 2^D, TRUE)
           [] op = "ddivu" -> ToHiLo(i, a % b, a \div b, TRUE)
---------------------------------------------------------------------------
(* Memory.  bswap<EL>(mem.get(ea)) of n bytes, and the store of n bytes. *)

(* the digit that the k-th of n bytes in memory is *)
Lane(k, n)     == IF EL THEN k ELSE n - 1 - k
Value(ea, n)   == Number(n, BB, [k \in 0..(n - 1) |-> mem[ea + Lane(k, n)]])
Stored(ea, n, x) == [b \in DOMAIN mem |-> IF b \in ea..(ea + n - 1)
                                          THEN Digit(x, Lane(b - ea, n), BB) ELSE mem[b]]
InMem(ea, n) == ea + n <= MemBytes

ToMem(i, m, p) == /\ Done(i) /\ mem' = m /\ pair' = p
                  /\ UNCHANGED <<ireg, fpu, mode, wide, fpw>>

(* lb lbu lh lhu lw lwu ld, and ll and lld which load as lw and ld *)
Load(n, signed, rt, ea) ==
    LET v == Value(ea, n) IN
    IF ea % n # 0 THEN raise("adel", NoOperands("load"))
    ELSE ToGpr(NoOperands("load"), rt, IF signed THEN sgn(v, BB * n) % 2^D ELSE v,
               n = 8 \/ (n = 4 /\ ~signed))

(* sb sh sw sd *)
Store(n, rt, ea) ==
    IF ea % n # 0 THEN raise("ades", NoOperands("store"))
    ELSE ToMem(NoOperands("store"), Stored(ea, n, gpr[rt]), NoPair)

(* sc and scd; ok: the reservation holds (module Iss).  Only scd checks the
   alignment. *)
StoreCond(n, rt, ea, ok) ==
    IF n = 8 /\ ea % n # 0 THEN raise("ades", NoOperands("sc"))
    ELSE /\ Done(NoOperands("sc")) /\ Put(rt, Bool(ok)) /\ pair' = NoPair
         /\ mem' = IF ok THEN Stored(ea, n, gpr[rt]) ELSE mem
         /\ UNCHANGED <<hi, lo, fpu, mode, wide, fpw>>

(* the byte's place in its word or doubleword, from the most significant *)
ma(ea, n) == IF EL THEN n - 1 - (ea % n) ELSE ea % n
Base(ea, n) == ea - (ea % n)

(* a right part that clears the bytes it does not load *)
MergedRightClears(left, n, r, x, m) ==
    IF left THEN ((r * 2^(BB * m)) % 2^(BB * n)) + (x % 2^(BB * m)) ELSE r \div 2^(BB * (n - 1 - m))

(* lwl lwr (n = 4), ldl ldr (n = 8) *)
Merged(left, n, r, x, m) ==
    IF left THEN ((r * 2^(BB * m)) % 2^(BB * n)) + (x % 2^(BB * m))
    ELSE LET k == 2^(BB * (m + 1)) IN
         (((x \div k) * k) % 2^(BB * n)) + (r \div 2^(BB * (n - 1 - m)))

(* a word merged without sign extension *)
LoadPartZeroExtends(left, n, rt, ea) ==
    LET v == Merged(left, n, Value(Base(ea, n), n), gpr[rt], ma(ea, n)) IN
    /\ Done(NoOperands("loadpart"))
    /\ Put(rt, v) /\ wide' = (wide \/ n = 8)
    /\ pair' = Part("load", left, n, rt, ea, <<>>)
    /\ UNCHANGED <<hi, lo, mem, fpu, mode, fpw>>

LoadPart(left, n, rt, ea) ==
    LET v == Merged(left, n, Value(Base(ea, n), n), gpr[rt], ma(ea, n)) IN
    /\ Done(NoOperands("loadpart"))
    /\ Put(rt, IF n = 4 THEN sext64(v) ELSE v) /\ wide' = (wide \/ n = 8)
    /\ pair' = Part("load", left, n, rt, ea, <<>>)
    /\ UNCHANGED <<hi, lo, mem, fpu, mode, fpw>>

(* swl swr, sdl sdr *)
Split(left, n, r, x, m) ==
    IF left THEN LET k == 2^(BB * (n - m)) IN ((r \div k) * k) + ((x % 2^(BB * n)) \div 2^(BB * m))
    ELSE LET k == 2^(BB * (n - 1 - m)) IN ((x * k) % 2^(BB * n)) + (r % k)

StorePart(left, n, rt, ea) ==
    LET b == Base(ea, n) IN
    ToMem(NoOperands("storepart"),
          Stored(b, n, Split(left, n, Value(b, n), gpr[rt], ma(ea, n))),
          Part("store", left, n, rt, ea, mem))
---------------------------------------------------------------------------
(* The instruction set, with the gate of execMips on the 64-bit operations *)

Gate(op, A) == IF Gated64(op) /\ ~in64 THEN raise("ri", NoOperands(op)) ELSE A

ExecShift == \E op \in {"sll", "srl", "sra", "sllv", "srlv", "srav", "dsll", "dsrl", "dsra",
                        "dsllv", "dsrlv", "dsrav", "dsll32", "dsrl32", "dsra32"},
                t \in Operands, sa \in Shamt : Gate(op, Shift(op, t, sa))
ExecAdd    == \E op \in {"add", "addu", "dadd", "daddu"}, t \in Operands :
                 Gate(op, Add(op, t, gpr[t[2]], t[3]))
ExecAddImm == \E op \in {"addi", "addiu"}, t \in Operands, i \in Imm :
                 Gate(op, Add(op, t, simm(i) % 2^D, t[2]))
ExecDaddImm == \E op \in {"daddi", "daddiu"}, t \in Operands, i \in Imm :
                 Gate(op, Add(op, t, simm(i) % 2^D, t[2]))
ExecSub    == \E op \in {"sub", "subu", "dsub", "dsubu"}, t \in Operands : Gate(op, Sub(op, t))
ExecLogic  == \E op \in {"and", "or", "xor", "nor", "slt", "sltu"}, t \in Operands :
                 Logic(op, t, gpr[t[2]], t[3])
ExecLogicImm == \E op \in {"and", "or", "xor", "slt", "sltu"}, t \in Operands, i \in Imm :
                   Logic(op, t, IF op \in {"slt", "sltu"} THEN simm(i) % 2^D ELSE i, t[2])
ExecLui    == \E t \in Operands, i \in Imm : Lui(i, t[2])
ExecTrap   == \E op \in {"tge", "tgeu", "tlt", "tltu", "teq", "tne"}, t \in Operands :
                 Trap(op, t, gpr[t[2]]) \/ \E i \in Imm : Trap(op, t, simm(i) % 2^D)
ExecHiLo   == \E op \in {"mfhi", "mflo", "mthi", "mtlo"}, t \in Operands : MoveHiLo(op, t)
ExecMult   == \E op \in {"mult", "multu", "dmult", "dmultu"}, t \in Operands : Gate(op, Mult(op, t))
ExecDivide == \E op \in {"div", "divu", "ddiv", "ddivu"}, t \in Operands : Gate(op, Divide(op, t))

Access(n) == {x \in {t[2] : t \in Operands} \X (0..(MemBytes - 1)) : InMem(x[2], n)}
ExecLoad == \E n \in {1, 2, 4}, signed \in BOOLEAN : \E x \in Access(n) : Load(n, signed, x[1], x[2])
ExecLd   == \E x \in Access(8) : Load(8, TRUE, x[1], x[2])
ExecLld   == \E x \in Access(8) : Gate("lld", Load(8, TRUE, x[1], x[2]))
ExecSd   == \E x \in Access(8) : Store(8, x[1], x[2])
ExecStore == \E n \in {1, 2, 4} : \E x \in Access(n) : Store(n, x[1], x[2])
ExecStoreCond == \E n \in {4, 8}, ok \in BOOLEAN : \E x \in Access(n) :
                    Gate(IF n = 8 THEN "scd" ELSE "sc", StoreCond(n, x[1], x[2], ok))
ExecPart == \E n \in {4, 8}, left \in BOOLEAN : \E x \in Access(1) :
               LoadPart(left, n, x[1], x[2]) \/ StorePart(left, n, x[1], x[2])

IntNext == \/ ExecShift \/ ExecAdd \/ ExecAddImm \/ ExecDaddImm \/ ExecSub \/ ExecLogic \/ ExecLogicImm \/ ExecLui
           \/ ExecTrap \/ ExecHiLo \/ ExecMult \/ ExecDivide
           \/ ExecLoad \/ ExecLd \/ ExecLld \/ ExecStore \/ ExecSd \/ ExecStoreCond \/ ExecPart
---------------------------------------------------------------------------
(* A 32-bit program sees 32-bit registers: as long as no 64-bit operation has
   completed, every general register, HI and LO is the sign extension of its
   low word, whatever was shifted, merged, divided or loaded - outside a 64-bit
   mode the gated ones raise Reserved Instruction instead - and the interpreter
   survives such a program: divu never reaches the host's division by zero. *)
SignExtended == ~wide => /\ \A r \in DOMAIN gpr : Canonical64(gpr[r])
                         /\ Canonical64(hi) /\ Canonical64(lo)
                         /\ exc # "sigfpe"

InRange(v, n) == v \in -(2^(n - 1))..(2^(n - 1) - 1)

(* additions, subtractions, products and quotients *)
IntResultExact ==
    LET i == insn
        s(x, n) == sgn(x % 2^n, n)
        n == IF i.op \in {"add", "addi", "sub", "mult", "div"} THEN W ELSE D
        p == s(i.a, n) * s(i.b, n)
        sum == IF i.op \in {"sub", "dsub"} THEN s(i.a, n) - s(i.b, n) ELSE s(i.a, n) + s(i.b, n) IN
    /\ i.op \in {"add", "addi", "dadd", "daddi", "sub", "dsub"} /\ exc # "ri" =>
          /\ (exc = "ov") = ~InRange(sum, n)
          /\ exc = "none" /\ i.rd # 0 => SD(gpr[i.rd]) = sum
    /\ i.op \in {"mult", "dmult"} /\ exc = "none" => p = s(hi, n) * 2^n + (lo % 2^n)
    /\ i.op \in {"multu", "dmultu"} /\ exc = "none" =>
          LET k == IF i.op = "multu" THEN W ELSE D IN
          (i.a % 2^k) * (i.b % 2^k) = (hi % 2^k) * 2^k + (lo % 2^k)
    /\ i.op \in {"div", "ddiv"} /\ exc = "none" /\ s(i.b, n) # 0 =>
          /\ (s(i.b, n) * s(lo, n) + s(hi, n)) % 2^n = i.a % 2^n
          /\ Abs(s(hi, n)) < Abs(s(i.b, n)) /\ (s(hi, n) = 0 \/ (s(hi, n) < 0) = (s(i.a, n) < 0))

(* the address and width of the unaligned datum two partial accesses make *)
PairEa(p, q) == IF EL THEN (IF p.left THEN q.ea ELSE p.ea) ELSE (IF p.left THEN p.ea ELSE q.ea)
IsPair(p, q) == /\ p.op = q.op /\ p.n = q.n /\ p.rt = q.rt /\ p.left # q.left
                /\ PairEa(p, q) + p.n - 1 = p.ea + q.ea - PairEa(p, q)

PairStep ==
    LET ea == PairEa(pair, pair')
        n  == pair.n IN
    /\ IsPair(pair, pair') /\ pair.op = "load" /\ pair.rt # 0 =>
          gpr'[pair.rt] = sgn(Value(ea, n), BB * n) % 2^D
    /\ IsPair(pair, pair') /\ pair.op = "store" =>
          mem' = [b \in DOMAIN mem |-> IF b \in ea..(ea + n - 1)
                                      THEN Digit(gpr[pair.rt], Lane(b - ea, n), BB)
                                      ELSE pair.mem[b]]

(* A left and a right partial load, in either order, load the unaligned word or
   doubleword between them; the partial stores write it, and no other byte. *)
UnalignedPair == [][PairStep]_vars
=============================================================================
