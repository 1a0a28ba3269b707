------------------------------ MODULE Devices ------------------------------
(***************************************************************************)
(* The memory side of the simulation top (top.cc perform_word_load and     *)
(* perform_word_store): the physical map of the SGI Indy, the registers of *)
(* its memory controller (sgi_mc), peripheral controller (sgi_hpc) and     *)
(* serial port (sgi_scc), and plain memory (sparse_mem).                   *)
(*                                                                         *)
(* An address is a 16-byte line number and a byte 0..15 of the line, which *)
(* keeps the whole 32-bit map; a word is a function from 0..3 to bytes,    *)
(* least significant first; a mask is the set of the bytes it enables.     *)
(***************************************************************************)
EXTENDS Integers, Sequences

CONSTANTS
    Lines,        \* the lines the core accesses
    EeBits        \* bits the EEPROM shifts in per byte (8)

ASSUME DevicesAssumption == EeBits \in Nat \ {0}

SX == INSTANCE SequencesExt

Bytes16 == 0..15
Word(w) == (4 * w)..(4 * w + 3)
Zero    == [j \in 0..3 |-> 0]

(* compute_mem_range_type, on line numbers (pa / 16); the serial port's line
   is carved out of the peripheral controller's range *)
compute_mem_range_type(l) ==
    CASE l \in 0..\h7fff                                 -> "sys_mem_alias"
      [] l \in \h8000..\h8fff                            -> "eisa_io"
      [] l \in \h9000..\h9fff                            -> "eisa_io_alias"
      [] l \in \ha000..\h7fffff                          -> "eisa_mem_128M"
      [] l \in \h800000..\h17fffff                       -> "low_local"
      [] l \in \h1f00000..\h1f3ffff                      -> "graphics"
      [] l \in \h1f40000..\h1f5ffff                      -> "gio64_slot0"
      [] l \in \h1f60000..\h1f9ffff                      -> "gio64_slot1"
      [] l \in \h1fa0000..\h1faffff                      -> "mc_regs"
      [] l = \h1fbd983                                   -> "scc_regs"
      [] l \in \h1fb0000..\h1fbffff /\ l # \h1fbd983     -> "hpc_regs"
      [] l \in \h1fc0000..\h1ffffff                      -> "boot_rom"
      [] l \in \h2000000..\h2ffffff                      -> "high_local"
      [] l \in \h8000000..\hfffffff                      -> "eisa_mem_2048M"
      [] OTHER                                           -> "reserved"

---------------------------------------------------------------------------
(* sgi_mc.  A register by its offset; "none": the access is ignored. *)

McReg(offs) ==
    CASE offs \in {0, 4}          -> "cpu_control0"
      [] offs \in {8, 12}         -> "cpu_control1"
      [] offs \in {\h18, \h1c}    -> "systemid"
      [] offs = \h2c              -> "rpss_divider"
      [] offs = \h30              -> "eeprom_ctrl"
      [] offs = \h84              -> "gio64_arb_param"
      [] offs = \hc4              -> "memcfg0"
      [] offs = \hcc              -> "memcfg1"
      [] offs = \hd4              -> "cpu_mem_access_config"
      [] offs = \hdc              -> "gio_mem_access_config"
      [] offs = \hec              -> "cpu_error_status"
      [] offs = \hfc              -> "gio_error_status"
      [] offs = \h1004            -> "rpss_counter"
      [] OTHER                    -> "none"

McWritable == {"cpu_control0", "cpu_control1", "rpss_divider", "gio64_arb_param", "memcfg0",
               "memcfg1", "cpu_mem_access_config", "gio_mem_access_config"}
McReadable == {"cpu_control0", "cpu_control1", "systemid", "memcfg0", "memcfg1",
               "cpu_mem_access_config", "gio_mem_access_config"}

(* 0x3f20 << 16, byte-swapped: 128 MB at 0x08000000 *)
McReset == [r \in McWritable \cup {"systemid"} |->
              CASE r = "memcfg0"      -> [j \in 0..3 |-> <<\h3f, \h20, 0, 0>>[j + 1]]
                [] r = "rpss_divider" -> [j \in 0..3 |-> <<4, 1, 0, 0>>[j + 1]]
                [] OTHER              -> Zero]

(* icnt / 10 is any count of the simulated time *)
McRead(mc, offs, icnt) ==
    LET r == McReg(offs) IN
    CASE r \in McReadable  -> mc[r]
      [] r = "eeprom_ctrl" -> [Zero EXCEPT ![0] = 16]
      [] r = "rpss_counter" -> [Zero EXCEPT ![0] = icnt]
      [] OTHER             -> Zero

McWrite(mc, offs, x) == IF McReg(offs) \in McWritable THEN [mc EXCEPT ![McReg(offs)] = x] ELSE mc

(* the serial EEPROM: a bit is shifted in on a write with chip select and
   clock high; a byte is stored when it is full *)
EeReset == [bits |-> <<>>, rom |-> <<>>]
EeWrite(ee, offs, x) ==
    IF McReg(offs) # "eeprom_ctrl" \/ (x[0] \div 2) % 4 # 3 THEN ee
    ELSE LET bits == Append(ee.bits, (x[0] \div 8) % 2) IN
         IF Len(bits) = EeBits THEN [bits |-> <<>>, rom |-> Append(ee.rom, bits)]
         ELSE [ee EXCEPT !.bits = bits]
---------------------------------------------------------------------------
(* sgi_hpc *)

HpcReset == [misc |-> 0, dma |-> [i \in 0..7 |-> Zero], pio |-> [i \in 0..9 |-> Zero]]

HpcRead(hpc, offs) == IF offs = \h30004 THEN [Zero EXCEPT ![0] = hpc.misc] ELSE Zero

DmaChannel(offs) == ((offs \div 256) % 16) \div 2
PioChannel(offs) == (offs \div 256) % 16
HpcIgnored(offs) == \/ offs \in 0..\h1ffff \/ offs \in \h40000..\h47fff
                    \/ offs \in \h58000..\h5bfff

HpcWrite(hpc, offs, x) ==
    CASE offs = \h30004             -> [hpc EXCEPT !.misc = x[0] % 4]
      [] offs \in \h5c000..\h5cfff  -> [hpc EXCEPT !.dma[DmaChannel(offs)] = x]
      [] offs \in \h5d000..\h5dfff /\ PioChannel(offs) < 10 -> [hpc EXCEPT !.pio[PioChannel(offs)] = x]
      [] OTHER                      -> hpc

(* assert(false): a write to any other register ends the simulator *)
HpcAborts(offs) == ~HpcIgnored(offs) /\ offs # \h30004 /\ offs \notin \h5c000..\h5cfff
                   /\ ~(offs \in \h5d000..\h5dfff /\ PioChannel(offs) < 10)
---------------------------------------------------------------------------
(* sgi_scc: control reads return "transmitter empty", data writes transmit *)

is_data_reg(b) == (b \div 4) % 2 = 1
SccRead(b)     == IF is_data_reg(b) THEN 0 ELSE \h44
---------------------------------------------------------------------------
(* One line access of the memory port, word by word.  soc is the state of
   memory and devices. *)

SocReset(zero) == [mem |-> [l \in Lines |-> zero], mc |-> McReset, ee |-> EeReset,
                   hpc |-> HpcReset, tx |-> <<>>, aborted |-> FALSE]

Range(l, indy) == IF indy THEN compute_mem_range_type(l) ELSE "low_local"
McOffs(l, w)   == (l % \h2000) * 16 + 4 * w
HpcOffs(l, w)  == (l % \h8000) * 16 + 4 * w

(* perform_word_load for the four words: a device register answers a whole
   word only, memory and the serial port byte by byte *)
LoadLine(soc, l, m, indy, icnt) ==
    [b \in Bytes16 |->
       LET w == b \div 4
           whole == Word(w) \subseteq m IN
       CASE Range(l, indy) = "mc_regs"  -> IF whole THEN McRead(soc.mc, McOffs(l, w), icnt)[b % 4] ELSE 0
         [] Range(l, indy) = "hpc_regs" -> IF whole THEN HpcRead(soc.hpc, HpcOffs(l, w))[b % 4] ELSE 0
         [] Range(l, indy) = "scc_regs" -> IF b \in m THEN SccRead(b) ELSE 0
         [] OTHER                       -> IF b \in m THEN soc.mem[l][b] ELSE 0]

(* the bytes of word w the serial port transmits, in the order it is given them *)
Sent(w, m, d) == LET bs == SX!SetToSortSeq({b \in Word(w) \cap m : is_data_reg(b)}, <)
                 IN  [i \in DOMAIN bs |-> d[bs[i]]]

(* perform_word_store for word w *)
StoreWord(soc, l, w, m, d, indy) ==
    LET whole == Word(w) \subseteq m
        x == [j \in 0..3 |-> d[4 * w + j]] IN
    CASE Range(l, indy) = "mc_regs" /\ whole ->
           [soc EXCEPT !.mc = McWrite(@, McOffs(l, w), x), !.ee = EeWrite(@, McOffs(l, w), x)]
      [] Range(l, indy) = "hpc_regs" /\ whole ->
           [soc EXCEPT !.hpc = HpcWrite(@, HpcOffs(l, w), x), !.aborted = @ \/ HpcAborts(HpcOffs(l, w))]
      [] Range(l, indy) = "scc_regs" ->
           [soc EXCEPT !.tx = @ \o Sent(w, m, d)]
      [] Range(l, indy) \notin {"mc_regs", "hpc_regs", "scc_regs"} ->
           [soc EXCEPT !.mem[l] = [b \in Bytes16 |-> IF b \in Word(w) \cap m THEN d[b] ELSE @[b]]]
      [] OTHER -> soc
=============================================================================
