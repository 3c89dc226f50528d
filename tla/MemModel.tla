------------------------------ MODULE MemModel ------------------------------
(***************************************************************************)
(* memmodel_module: the functional memory, the reference that the          *)
(* testbench compares the RTL with and the external RAM of the harts.  Its *)
(* b_transport never waits, so under SystemC's cooperative scheduling a    *)
(* call is one step; initiators come and go around it in any order.        *)
(***************************************************************************)
EXTENDS Beats

CONSTANTS
  Threads,   \* initiators
  Calls      \* transactions: cmd, addr, len and data

ASSUME MemModelAssumption ==
  \A c \in Calls : /\ c.cmd \in Cmd
                   /\ c.addr \in Nat
                   /\ c.len \in Nat \ {0}
                   /\ c.data \in [0 .. c.len - 1 -> Byte]

OK == "OK"
ERROR == "ERROR"

VARIABLES
  sparse_array,   \* std::map from address to byte; a missing key reads 0
  client          \* each initiator's payload: idle, called or done

modelVars == <<sparse_array, client>>

Idle == [phase |-> "idle"]
Called(c) == [phase |-> "called", call |-> c]
Done(c, st, d) == [phase |-> "done", call |-> c, status |-> st, data |-> d]

ModelInit ==
  /\ sparse_array = [a \in Addr |-> 0]
  /\ client = [t \in Threads |-> Idle]

(* Mutant: the last byte of the memory is out of range. *)
ModelInRange_OffByOne(c) == ~(c.addr + c.len > MaxAddr)

ModelInRange(c) == ~(c.addr + c.len - 1 > MaxAddr)

(* The loops index sparse_array by the loop counter alone. *)
Loaded(c) == [i \in 0 .. c.len - 1 |-> sparse_array[i]]
Stored(c) == [a \in Addr |-> IF a < c.len THEN c.data[a] ELSE sparse_array[a]]

ModelCall(t, c) ==
  /\ client[t] = Idle
  /\ client' = [client EXCEPT ![t] = Called(c)]
  /\ UNCHANGED sparse_array

b_transport(t) ==
  LET c == client[t].call IN
  /\ client[t].phase = "called"
  /\ \/ /\ ~ModelInRange(c)
        /\ client' = [client EXCEPT ![t] = Done(c, ERROR, c.data)]
        /\ UNCHANGED sparse_array
     \/ /\ ModelInRange(c) /\ c.cmd = READ
        /\ client' = [client EXCEPT ![t] = Done(c, OK, Loaded(c))]
        /\ UNCHANGED sparse_array
     \/ /\ ModelInRange(c) /\ c.cmd = WRITE
        /\ sparse_array' = Stored(c)
        /\ client' = [client EXCEPT ![t] = Done(c, OK, c.data)]

ModelReturn(t) ==
  /\ client[t].phase = "done"
  /\ client' = [client EXCEPT ![t] = Idle]
  /\ UNCHANGED sparse_array

ModelNext == \E t \in Threads :
  \/ \E c \in Calls : ModelCall(t, c)
  \/ b_transport(t)
  \/ ModelReturn(t)

ModelSpec == ModelInit /\ [][ModelNext]_modelVars
-----------------------------------------------------------------------------
Atomic == INSTANCE AtomicMem WITH mem <- sparse_array,
                                  Readable <- Addr, Writable <- Addr

(* With one initiator: when a call returns OK, its buffer and the memory
   agree on every byte of the addresses the call named. *)
BytesAtOwnAddress ==
  \A t \in Threads : client[t].phase = "done" /\ client[t].status = OK =>
    LET c == client[t].call IN
    \A i \in 0 .. c.len - 1 : client[t].data[i] = sparse_array[c.addr + i]

(* memmodel is the "functional model of the memory" of
   tb_with_memrtl/README.md: a read returns the bytes of its own addresses
   and a write stores to them.  True of bursts that start at address 0. *)
ImplementsMemory == Atomic!Spec
=============================================================================
