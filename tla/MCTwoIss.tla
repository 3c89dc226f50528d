------------------------------ MODULE MCTwoIss ------------------------------
(* Model values for TwoIss: pages of two bytes, the debug page at 0, the
   boot ROM at 2, the RAM at 4 and a window from 6 to 9 of which the
   external RAM holds the first page. *)
EXTENDS TwoIss, Sequences

MCByte == 0 .. 1
MCRom == [i \in 0 .. 1 |-> 1 - i]

Access(cmd, addr, buf) ==
  [cmd |-> cmd, addr |-> addr, len |-> Len(buf),
   data |-> [i \in 0 .. Len(buf) - 1 |-> buf[i + 1]]]

(* Fetches from ROM and RAM, stores and loads of the external RAM, and a
   store to an unmapped address, as in riscv_sw/asm/main.S. *)
ProgramCalls ==
  {Access(READ, 2, <<1, 1>>), Access(READ, 4, <<1, 0>>),
   Access(WRITE, 6, <<1, 0>>), Access(READ, 6, <<0, 1>>), Access(WRITE, 10, <<1>>)}

(* Besides: byte accesses at an offset, a store to the ROM, one to the RAM,
   and a load from the part of the window nothing stands behind. *)
AnyCalls ==
  ProgramCalls \cup
  {Access(WRITE, 7, <<1>>), Access(WRITE, 5, <<0>>), Access(WRITE, 3, <<0>>),
   Access(READ, 8, <<1, 1>>)}

(* Besides the program: the debug page. *)
DebugCalls == ProgramCalls \cup {Access(READ, 0, <<1, 1>>)}
=============================================================================
