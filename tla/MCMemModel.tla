---------------------------- MODULE MCMemModel ------------------------------
(* Model values for MemModel. *)
EXTENDS MemModel, Sequences

MCByte == 0 .. 1

Txn(cmd, addr, buf) ==
  [cmd |-> cmd, addr |-> addr, len |-> Len(buf),
   data |-> [i \in 0 .. Len(buf) - 1 |-> buf[i + 1]]]

(* The accesses tb_thread makes: every burst starts at address 0.  One burst
   ends on the last byte of the memory and one runs past it. *)
BaseCalls ==
  {Txn(WRITE, 0, <<0, 0, 0>>), Txn(WRITE, 0, <<1, 0, 1>>), Txn(WRITE, 0, <<1, 1>>),
   Txn(READ, 0, <<0, 1, 0>>), Txn(READ, 0, <<1>>), Txn(WRITE, 0, <<1, 1, 0, 0>>)}

(* The accesses a hart makes: uncore subtracts the base of the region, and a
   store may go to any offset. *)
OffsetCalls == {Txn(WRITE, 2, <<1>>), Txn(READ, 2, <<0>>)}
=============================================================================
