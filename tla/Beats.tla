------------------------------- MODULE Beats --------------------------------
(***************************************************************************)
(* The 32-bit word that travels between b_transport and the RTL: bit 31    *)
(* operation, bit 30 last beat of the burst, bits 23..8 address, bits 7..0 *)
(* data.  Bits 29..24 are always zero and are left out.                    *)
(***************************************************************************)
EXTENDS Naturals

CONSTANTS
  MaxAddr,   \* highest byte address of the memory (RTL_MAX_RAM_ADDRESS)
  Byte       \* values of one byte

ASSUME MemoryAssumption == MaxAddr \in Nat /\ 0 \in Byte

Addr == 0 .. MaxAddr
READ == "READ"
WRITE == "WRITE"
Cmd == {READ, WRITE}

Beat == [op : Cmd, last : BOOLEAN, addr : Addr, data : Byte]
=============================================================================
