--------------------------- MODULE MCTwoIssMemRtl ---------------------------
(* Model values for TwoIssMemRtl: the memory map of MCTwoIss, with an
   empty RAM on Spike's bus, whose bytes would only multiply the states. *)
EXTENDS TwoIssMemRtl

MCByte == 0 .. 1
MCRom == [i \in 0 .. 1 |-> 1 - i]

Access(cmd, addr, buf) ==
  [cmd |-> cmd, addr |-> addr, len |-> Len(buf),
   data |-> [i \in 0 .. Len(buf) - 1 |-> buf[i + 1]]]

(* A store and a load of the whole external RAM and a store to the bytes
   behind it, which memrtl refuses. *)
WindowAccesses ==
  {Access(WRITE, 6, <<1, 0>>), Access(READ, 6, <<0, 1>>), Access(WRITE, 8, <<1>>)}

(* Besides: a load from the ROM and a store to no device. *)
MCAccesses == WindowAccesses \cup {Access(READ, 2, <<0, 0>>), Access(WRITE, 10, <<1>>)}

(* The same, as memrtl gets them. *)
MCCalls ==
  {[cmd |-> c.cmd, addr |-> c.addr - 6, len |-> c.len, data |-> c.data, ext |-> FALSE] :
     c \in WindowAccesses}
=============================================================================
