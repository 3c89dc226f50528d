----------------------------- MODULE MCMemRtl -------------------------------
(* Model values for MemRtl. *)
EXTENDS MemRtl

MCByte == 0 .. 1

Txn(cmd, addr, buf, ext) ==
  [cmd |-> cmd, addr |-> addr, len |-> Len(buf), ext |-> ext,
   data |-> [i \in 0 .. Len(buf) - 1 |-> buf[i + 1]]]

(* Two harts that store and load the same two bytes in one burst, store one
   byte of them, and run over the end of the RAM. *)
HartCalls ==
  {Txn(WRITE, 0, <<0, 0>>, FALSE), Txn(WRITE, 0, <<1, 1>>, FALSE),
   Txn(READ, 0, <<0, 1>>, FALSE), Txn(WRITE, 1, <<1>>, FALSE),
   Txn(WRITE, 1, <<1, 1>>, FALSE)}

(* The same bytes with and without the delay extension. *)
MixedCalls ==
  {Txn(WRITE, 0, <<0, 1, 1>>, TRUE), Txn(READ, 0, <<1, 0, 0>>, TRUE),
   Txn(WRITE, 1, <<1, 0>>, FALSE), Txn(READ, 0, <<0, 1, 1>>, FALSE),
   Txn(READ, 2, <<0, 1>>, TRUE)}

(* One testbench thread, bursts longer than a pipeline with queues of one
   (5 beats) can hold. *)
BurstCalls ==
  {Txn(WRITE, 0, <<1, 0, 1, 1, 0, 0>>, TRUE), Txn(WRITE, 0, <<0, 1, 1, 0, 1, 1>>, TRUE),
   Txn(READ, 0, <<0, 0, 0, 1, 1, 1>>, TRUE), Txn(READ, 1, <<0, 0, 0, 1, 1, 1>>, TRUE)}

(* The queues of the code (4 each, 11 beats in all) with 13 beats. *)
Zero13 == [i \in 1 .. 13 |-> 0]
FullCalls == {Txn(WRITE, 0, Zero13, TRUE), Txn(READ, 0, Zero13, TRUE)}
MCZero == {0}
=============================================================================
