---------------------------- MODULE Interconnect ----------------------------
(***************************************************************************)
(* The wires between the L1 caches, the L2, DRAM and the SoC's DMA port,    *)
(* and the L1 -> L2 arbiter of core_l1d_l1i.sv.  L1D.tla and L2.tla extend  *)
(* this module; MemHier.tla composes them.                                 *)
(*                                                                         *)
(* Data abstraction: the value of a line is the value of ONE tracked byte   *)
(* of it.  A store either covers that byte or not ("full"), which is all    *)
(* that is left of the 16-bit byte mask.                                    *)
(***************************************************************************)
EXTENDS Naturals, FiniteSets

CONSTANTS
    Line,       \* physical line addresses (PA >> 4)
    Colour,     \* VA page colours: the L1D index bits above the page offset
    Val,        \* values of the tracked byte
    v0,         \* what every RAM holds after the initialisation walks
    NSets,      \* L1D sets (direct mapped)
    L2Lines,    \* L2 lines (direct mapped)
    SetOf,      \* L1D set of a line at a colour: {colour, in-page index bits}
    ColourOf,   \* colour bits of an L1D set number
    L2Of,       \* L2 index of a line
    PaColour    \* colour bits of the physical address itself

DSet  == 0 .. NSets - 1
L2Idx == 0 .. L2Lines - 1

ASSUME SizeAssumption == NSets \in Nat \ {0} /\ L2Lines \in Nat \ {0} /\ v0 \in Val

ASSUME IndexAssumption ==
    /\ SetOf \in [Line -> [Colour -> DSet]]
    /\ ColourOf \in [DSet -> Colour]
    /\ L2Of \in [Line -> L2Idx]
    /\ PaColour \in [Line -> Colour]

\* The set number is the colour bits over the in-page bits, so it gives the
\* colour back.
ASSUME ColourAssumption ==
    \A l \in Line, c \in Colour : ColourOf[SetOf[l][c]] = c

-----------------------------------------------------------------------------
\* mem_op_t, as the L1s and the L2 use it.
MemOp == {"LW", "SW", "WB", "INVL", "PGDROP"}

\* The L1D's r_mem_req_* registers.  They stay put from the cycle the request
\* is raised to its response; "none" is their (dead) content in between.
MemReq == [op : MemOp \cup {"none"}, line : Line, colour : Colour,
           data : Val, cacheable : BOOLEAN, full : BOOLEAN]

\* The L1I only ever reads.
IMemReq == [valid : BOOLEAN, line : Line, cacheable : BOOLEAN]

anyLine   == CHOOSE l \in Line : TRUE
anyColour == CHOOSE c \in Colour : TRUE

NoMemReq  == [op |-> "none", line |-> anyLine, colour |-> anyColour,
              data |-> v0, cacheable |-> FALSE, full |-> FALSE]
NoIMemReq == [valid |-> FALSE, line |-> anyLine, cacheable |-> FALSE]
NoRsp     == [valid |-> FALSE, data |-> v0, dirty |-> FALSE]
NoProbe   == [req |-> FALSE, line |-> anyLine, colour |-> anyColour]
NoAck     == [valid |-> FALSE, dirty |-> FALSE, data |-> v0]
NoSnoop   == [valid |-> FALSE, line |-> anyLine, wbinv |-> FALSE]

VARIABLES
    arb_state,   \* r_state of the arbiter
    r_l1d_req,   \* sticky latch of the L1D's one-cycle request pulse
    r_l1i_req,   \* the same for the L1I
    r_last_gnt,  \* who was granted last: "L1D" or "L1I"
    r_req,       \* the granted request is presented to the L2
    d_mem_req,   \* the L1D's request registers
    i_mem_req,   \* the L1I's request registers
    rsp,         \* the L2's response pulse; dirty is bit 0 of a PGDROP answer
    probe,       \* L2 -> L1D probe request, held until acknowledged
    ack,         \* L1D -> L2 probe answer; also stands for r_prb_seen
    snoop,       \* SoC -> L2 snoop request
    snoop_done,  \* L2 -> SoC completion pulse
    dram         \* main memory

arbVars == <<arb_state, r_l1d_req, r_l1i_req, r_last_gnt, r_req>>

InterconnectInit ==
    /\ arb_state = "IDLE" /\ r_last_gnt = "L1D"
    /\ r_l1d_req = FALSE /\ r_l1i_req = FALSE /\ r_req = FALSE
    /\ d_mem_req = NoMemReq /\ i_mem_req = NoIMemReq
    /\ rsp = NoRsp /\ probe = NoProbe /\ ack = NoAck
    /\ snoop = NoSnoop /\ snoop_done = FALSE
    /\ dram = [l \in Line |-> v0]

InterconnectTypeOK ==
    /\ arb_state \in {"IDLE", "GNT_L1D", "GNT_L1I"}
    /\ r_last_gnt \in {"L1D", "L1I"}
    /\ r_l1d_req \in BOOLEAN /\ r_l1i_req \in BOOLEAN /\ r_req \in BOOLEAN
    /\ d_mem_req \in MemReq /\ i_mem_req \in IMemReq
    /\ rsp \in [valid : BOOLEAN, data : Val, dirty : BOOLEAN]
    /\ probe \in [req : BOOLEAN, line : Line, colour : Colour]
    /\ ack \in [valid : BOOLEAN, dirty : BOOLEAN, data : Val]
    /\ snoop \in [valid : BOOLEAN, line : Line, wbinv : BOOLEAN]
    /\ snoop_done \in BOOLEAN
    /\ dram \in [Line -> Val]

-----------------------------------------------------------------------------
\* IDLE: a lone requester is granted; of two, the one not granted last.  The
\* latch is cleared in the grant state.  (t_l2_passthru only lets the L2 see
\* the L1D's request in the grant cycle itself.)
GrantedL1DFirst == IF r_l1d_req THEN "L1D" ELSE "L1I"   \* mutant of Granted
Granted ==
    IF r_l1d_req /\ r_l1i_req
    THEN IF r_last_gnt = "L1I" THEN "L1D" ELSE "L1I"
    ELSE IF r_l1d_req THEN "L1D" ELSE "L1I"

ArbGrant ==
    /\ arb_state = "IDLE"
    /\ r_l1d_req \/ r_l1i_req
    /\ r_last_gnt' = Granted
    /\ arb_state' = IF Granted = "L1D" THEN "GNT_L1D" ELSE "GNT_L1I"
    /\ r_l1d_req' = (r_l1d_req /\ Granted = "L1I")
    /\ r_l1i_req' = (r_l1i_req /\ Granted = "L1D")
    /\ r_req' = TRUE
    /\ UNCHANGED <<d_mem_req, i_mem_req, rsp, probe, ack, snoop, snoop_done, dram>>

\* A response pulse goes to whichever L1 holds the grant, and frees the arbiter.
RspToL1D == rsp.valid /\ arb_state = "GNT_L1D"
RspToL1I == rsp.valid /\ arb_state = "GNT_L1I"

TakeRsp ==
    /\ rsp' = NoRsp
    /\ arb_state' = "IDLE"
    /\ r_req' = FALSE
    /\ UNCHANGED <<r_l1i_req, r_last_gnt>>
=============================================================================
