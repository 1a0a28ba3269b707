----------------------------- MODULE MCRename -----------------------------
(***************************************************************************)
(* TLC instance of Rename: two GPRs and one FP register over banks of two   *)
(* even and two odd registers (one and one for FP), one HILO over two.      *)
(***************************************************************************)
EXTENDS Rename, TLC

mcLReg == {"r1", "r2", "f1", "hl"}

\* Physical registers 0..7 GPR, 10..13 FP, 20..21 HILO.
mcPReg    == 0 .. 7 \cup 10 .. 13 \cup 20 .. 21
mcMemBank == 4 .. 7 \cup 12 .. 13

mcLFile == "r1" :> "gpr" @@ "r2" :> "gpr" @@ "f1" :> "fp" @@ "hl" :> "hilo"
mcPFile == [n \in mcPReg |-> IF n < 8 THEN "gpr" ELSE IF n < 14 THEN "fp" ELSE "hilo"]

mcReset == "r1" :> 0 @@ "r2" :> 1 @@ "f1" :> 10 @@ "hl" :> 20

u(d, a, b, m, s) == [dst |-> d, srcA |-> a, srcB |-> b, is_mem |-> m, is_store |-> s]

\* addu, lw, sw; add.s, swc1; mult; nop.
mcUops == {u("r1", "r1", "r2", FALSE, FALSE), u("r2", "r1", None, TRUE, FALSE),
           u(None, "r2", "r1", TRUE, TRUE),
           u("f1", "f1", "f1", FALSE, FALSE), u(None, "r1", "f1", TRUE, TRUE),
           u("hl", "r1", "r2", FALSE, FALSE),
           u(None, None, None, FALSE, FALSE)}
=============================================================================
