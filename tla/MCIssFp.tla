------------------------------ MODULE MCIssFp ------------------------------
(* Instances of the data path for TLC: one-bit bytes, so four-bit words and
   eight-bit doublewords; sixteen bytes of memory, one pair of floating-point
   registers. *)
EXTENDS IssFp

mcOperands == {<<1, 2, 1>>, <<1, 2, 0>>}
Regs(x, y) == [r \in 0..2 |-> CASE r = 0 -> 0 [] r = 1 -> x [] r = 2 -> y]
\* the least and greatest word, -1 and small numbers, sign-extended
mcGpr == {Regs(248, 255), Regs(7, 7), Regs(5, 253)}
Bytes(s) == [b \in 0..(MemBytes - 1) |-> s[b + 1]]
mcMem == {Bytes(<<1, 0, 0, 1, 0, 1, 1, 1, 0, 0, 1, 0, 0, 1, 1, 0>>)}
mcFpr == {[f \in 0..1 |-> IF f = 0 THEN 166 ELSE 90]}
mcFcsr == {{0}, {1, 24}, {0, 1, 23}, {24, 25}}
=============================================================================
