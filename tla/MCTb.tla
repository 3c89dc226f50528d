------------------------------- MODULE MCTb ---------------------------------
(* Model values for Tb: one-bit bytes, and bursts that fill the memory. *)
EXTENDS Tb

MCByte == 0 .. 1
MCThreads == {tb}

MCCalls == {Payload(Step(store, delay, len), buf, ext) :
              store \in BOOLEAN, delay \in {FALSE}, ext \in BOOLEAN,
              len \in {Long}, buf \in Buffer(Long)}
           \cup
           {Payload(Step(store, delay, len), buf, ext) :
              store \in BOOLEAN, delay \in {FALSE}, ext \in BOOLEAN,
              len \in {Short}, buf \in Buffer(Short)}
=============================================================================
