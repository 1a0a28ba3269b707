------------------------------- MODULE MCIss -------------------------------
(* Instances of Iss for TLC: two TLB entries, a two-slot micro-TLB, two words
   to a page and to a cache line, two pages to a segment. *)
EXTENDS Iss

U(w)  == [r |-> 0, x |-> 0, m |-> 0, w |-> w]              \* a user address
K(w)  == [r |-> 3, x |-> XMax, m |-> MMax, w |-> w]        \* a kernel address

\* user code from the last word of a page into the next, and the vectors
mcCode    == {U(1), U(2)} \cup {K(w) : w \in 16..19} \cup {K(w) : w \in 20..23}
mcTargets == {U(1), K(17)}
mcData    == {U(0), U(2)}
mcHi      == {HiOf(U(0), a) : a \in Asid}
Frame(f, d) == [pfn |-> f, v |-> TRUE, d |-> d, g |-> FALSE]
mcLo      == {Frame(0, TRUE), Frame(1, FALSE)}
mcBoot    == {[hi |-> HiOf(U(0), a), lo0 |-> Frame(1, TRUE),
               lo1 |-> [Frame(1, TRUE) EXCEPT !.v = FALSE], pm |-> 1] : a \in {0}}
UserSr    == [ResetSr EXCEPT !.erl = FALSE, !.ksu = 2, !.bev = FALSE, !.cu1 = TRUE]
mcSr      == {UserSr, [UserSr EXCEPT !.exl = TRUE]}
mcBootSr  == {ResetSr, UserSr}
=============================================================================
