------------------------------- MODULE Uops -------------------------------
(***************************************************************************)
(* What fetch, decode and retirement tell apart about an instruction, and   *)
(* the program that is running.  Addresses are instruction numbers modulo   *)
(* NPc; a fetch line holds LineLen of them.                                 *)
(***************************************************************************)
EXTENDS Naturals, Sequences, FiniteSets

CONSTANTS
    NPc,         \* number of instruction addresses
    LineLen,     \* instructions of an L1I line
    Vec,         \* the exception vector
    Programs,    \* the programs that may be running
    Mapped,      \* addresses that are translated: their fetch may find no TLB entry
    NoPc         \* no address

Pc == 0 .. NPc - 1
Succ(a) == (a + 1) % NPc
Pred(a) == (a + NPc - 1) % NPc

\* alu     executes, cannot fault, changes nothing until it retires
\* trap    likewise, but may fault (ADD, TEQ)
\* mem     load or store: may fault
\* nop     complete as it enters the ROB
\* br      branch or jump with a delay slot
\* likely  nullifies the slot if not taken; always predicted taken (pd 2)
\* linklikely   BLTZALL, BGEZALL: likewise, but predicted either way (pd 9)
\* of      has its effect when it executes, oldest_first; fetch restarts behind it
\*         (TLBWI, TLBWR)
\* cfc1    oldest_first, no effect before it retires (CFC1, MFC0 of Cause)
\* sys     SYSCALL, BREAK: oldest_first, always faults
\* eret    oldest_first, restarts at EPC
\* ser     serializing, no effect before it retires (most MTC0)
\* ctc1    serializing, has its effect when it executes
\* cached, cachei   CACHE ops of the two sides, serializing
Op == {"alu", "trap", "mem", "nop", "br", "likely", "linklikely", "of", "cfc1", "sys",
       "eret", "ser", "ctc1", "cached", "cachei"}

\* The uops decode may put in an instruction's place: an interrupt, an injected
\* flush, a fetch fault.
Pseudo == {"irq", "xflush", "ftlb"}

Nullifying(op) == op \in {"likely", "linklikely"}
IsBr(op) == op = "br" \/ Nullifying(op)
Serializing(op) == op \in {"ser", "ctc1", "cached", "cachei", "xflush"}
OldestFirst(op) == op \in {"of", "cfc1", "sys", "eret"}
Fold(op) == op \in {"nop", "irq", "ftlb"}
IsFlush(op) == op \in {"cached", "cachei", "xflush"}

\* No branch or ERET in a delay slot: the architecture leaves it undefined.
Legal(p) == \A a \in Pc : IsBr(p[a].op) => /\ ~IsBr(p[Succ(a)].op)
                                           /\ p[Succ(a)].op # "eret"

ASSUME ProgramAssumption ==
    /\ NPc \in Nat \ {0} /\ LineLen \in Nat \ {0}
    /\ Vec \in Pc /\ Mapped \subseteq Pc /\ NoPc \notin Pc
    /\ Programs \subseteq [Pc -> [op : Op, tgt : Pc]]
    /\ \A p \in Programs : Legal(p)

VARIABLE prog        \* the program running; never changes

OpAt(a) == prog[a].op
Target(a) == prog[a].tgt
=============================================================================
