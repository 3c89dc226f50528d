--------------------------- MODULE MemModelProofs ---------------------------
(***************************************************************************)
(* Proofs about MemModel: used from address 0 on, as the testbench uses    *)
(* it, memmodel_module is the memory it stands for.                        *)
(***************************************************************************)
EXTENDS MemModel, TLAPS

(* Every burst starts at the first byte. *)
FromZero == \A c \in Calls : c.addr = 0

(* A transaction under way is one of Calls, with its own buffer. *)
ClientInv ==
  /\ client = [t \in Threads |-> client[t]]
  /\ \A t \in Threads : client[t].phase = "called" =>
       client[t].call \in Calls /\ client[t] = Called(client[t].call)

LEMMA InitClients == ModelInit => ClientInv
BY DEF ModelInit, ClientInv, Idle

(* Every step gives one initiator a new payload. *)
LEMMA ClientChange ==
  ASSUME ClientInv, NEW t \in Threads, NEW x, client' = [client EXCEPT ![t] = x],
         x.phase = "called" => x.call \in Calls /\ x = Called(x.call)
  PROVE  ClientInv'
<1>1. client'[t] = x /\ \A u \in Threads : u # t => client'[u] = client[u]
  BY DEF ClientInv
<1>2. client' = [u \in Threads |-> client'[u]]
  BY DEF ClientInv
<1>. QED  BY <1>1, <1>2 DEF ClientInv

LEMMA StepClients ==
  ASSUME ClientInv, [ModelNext]_modelVars
  PROVE  ClientInv'
<1>1. ASSUME NEW t \in Threads, NEW c \in Calls, ModelCall(t, c)  PROVE ClientInv'
  <2>1. Called(c).call = c
    BY DEF Called
  <2>2. client' = [client EXCEPT ![t] = Called(c)]
    BY <1>1 DEF ModelCall
  <2>. HIDE DEF Called
  <2>. QED  BY <2>1, <2>2, ClientChange
<1>2. ASSUME NEW t \in Threads, b_transport(t)  PROVE ClientInv'
  <2>1. PICK st, d : client' = [client EXCEPT ![t] = Done(client[t].call, st, d)]
    BY <1>2 DEF b_transport
  <2>2. Done(client[t].call, st, d).phase # "called"
    BY DEF Done
  <2>. HIDE DEF Done
  <2>. QED  BY <2>1, <2>2, ClientChange
<1>3. ASSUME NEW t \in Threads, ModelReturn(t)  PROVE ClientInv'
  <2>1. client' = [client EXCEPT ![t] = Idle] /\ Idle.phase # "called"
    BY <1>3 DEF ModelReturn, Idle
  <2>. QED  BY <2>1, ClientChange
<1>4. CASE UNCHANGED modelVars
  BY <1>4 DEF modelVars, ClientInv
<1>. QED  BY <1>1, <1>2, <1>3, <1>4 DEF ModelNext

LEMMA FitsModelRange ==
  ASSUME NEW c \in Calls
  PROVE  Atomic!Fits(c) <=> ModelInRange(c)
<1>1. c.addr \in Nat /\ c.len \in Nat \ {0} /\ MaxAddr \in Nat
  BY MemModelAssumption, MemoryAssumption
<1>2. Atomic!Fits(c) <=> c.addr .. (c.addr + c.len) - 1 \subseteq 0 .. MaxAddr
  BY <1>1 DEF Atomic!Fits, Atomic!Span, Addr
<1>3. c.addr .. (c.addr + c.len) - 1 \subseteq 0 .. MaxAddr
        <=> (c.addr + c.len) - 1 <= MaxAddr
  BY <1>1
<1>4. ModelInRange(c) <=> (c.addr + c.len) - 1 <= MaxAddr
  BY <1>1 DEF ModelInRange
<1>. QED  BY <1>2, <1>3, <1>4

(* For a burst from address 0 the loop counter is the address. *)
LEMMA CounterIsAddress ==
  ASSUME NEW c \in Calls, c.addr = 0
  PROVE  /\ Loaded(c) = [i \in Atomic!Bytes(c) |-> sparse_array[c.addr + i]]
         /\ Stored(c) = [a \in Addr |-> IF a \in Atomic!Span(c) THEN c.data[a - c.addr]
                                                              ELSE sparse_array[a]]
<1>1. c.len \in Nat \ {0}
  BY MemModelAssumption
<1>2. \A i \in 0 .. c.len - 1 : c.addr + i = i
  BY <1>1
<1>3. \A a \in Addr : /\ a \in c.addr .. c.addr + c.len - 1 <=> a < c.len
                      /\ a - c.addr = a
  BY <1>1, MemoryAssumption DEF Addr
<1>4. Loaded(c) = [i \in Atomic!Bytes(c) |-> sparse_array[c.addr + i]]
  BY <1>2 DEF Loaded, Atomic!Bytes
<1>5. Stored(c) = [a \in Addr |-> IF a \in Atomic!Span(c) THEN c.data[a - c.addr]
                                                        ELSE sparse_array[a]]
  BY <1>3 DEF Stored, Atomic!Span
<1>. QED  BY <1>4, <1>5

LEMMA TransportRefines ==
  ASSUME FromZero, ClientInv, NEW t \in Threads, b_transport(t)
  PROVE  \E c \in Calls : Atomic!Refuse(t, c) \/ Atomic!Read(t, c) \/ Atomic!Write(t, c)
<1>. DEFINE c == client[t].call
<1>1. client[t].phase = "called"
  BY DEF b_transport
<1>2. c \in Calls /\ client[t] = Called(c) /\ c.addr = 0
  BY <1>1 DEF ClientInv, FromZero
<1>3. client[t] = Atomic!Called(c)
  BY <1>2 DEF Called, Atomic!Called
<1>4. /\ Loaded(c) = [i \in Atomic!Bytes(c) |-> sparse_array[c.addr + i]]
      /\ Stored(c) = [a \in Addr |-> IF a \in Atomic!Span(c) THEN c.data[a - c.addr]
                                                           ELSE sparse_array[a]]
  BY <1>2, CounterIsAddress
<1>5. Atomic!Fits(c) <=> ModelInRange(c)
  BY <1>2, FitsModelRange
<1>6. \A st, d : Done(c, st, d) = Atomic!Done(c, st, d)
  BY DEF Done, Atomic!Done
<1>7. OK = Atomic!OK /\ ERROR = Atomic!ERROR /\ READ = Atomic!READ /\ WRITE = Atomic!WRITE
  BY DEF OK, ERROR, READ, WRITE, Atomic!OK, Atomic!ERROR, Atomic!READ, Atomic!WRITE
<1>8. \/ /\ ~ModelInRange(c)
         /\ client' = [client EXCEPT ![t] = Done(c, ERROR, c.data)]
         /\ UNCHANGED sparse_array
      \/ /\ ModelInRange(c) /\ c.cmd = READ
         /\ client' = [client EXCEPT ![t] = Done(c, OK, Loaded(c))]
         /\ UNCHANGED sparse_array
      \/ /\ ModelInRange(c) /\ c.cmd = WRITE
         /\ sparse_array' = Stored(c)
         /\ client' = [client EXCEPT ![t] = Done(c, OK, c.data)]
  BY DEF b_transport
<1>. HIDE DEF c, Done, Called, OK, ERROR, READ, WRITE
<1>9. Atomic!Refuse(t, c) \/ Atomic!Read(t, c) \/ Atomic!Write(t, c)
  BY <1>3, <1>4, <1>5, <1>6, <1>7, <1>8
  DEF Atomic!Refuse, Atomic!Read, Atomic!Write
<1>. QED  BY <1>2, <1>9

LEMMA ModelStepRefines ==
  ASSUME FromZero, ClientInv, [ModelNext]_modelVars
  PROVE  [Atomic!Next]_(Atomic!mvars)
<1>1. ASSUME NEW t \in Threads, NEW c \in Calls, ModelCall(t, c)  PROVE Atomic!Next
  BY <1>1 DEF ModelCall, Idle, Called, Atomic!Next, Atomic!Invoke, Atomic!Idle, Atomic!Called
<1>2. ASSUME NEW t \in Threads, b_transport(t)  PROVE Atomic!Next
  BY <1>2, TransportRefines DEF Atomic!Next
<1>3. ASSUME NEW t \in Threads, ModelReturn(t)  PROVE Atomic!Next
  BY <1>3 DEF ModelReturn, Idle, Atomic!Next, Atomic!Return, Atomic!Idle
<1>4. CASE UNCHANGED modelVars
  BY <1>4 DEF modelVars, Atomic!mvars
<1>. QED  BY <1>1, <1>2, <1>3, <1>4 DEF ModelNext

LEMMA ModelInitRefines == ModelInit => Atomic!Init
BY MemoryAssumption DEF ModelInit, Atomic!Init, Idle, Atomic!Idle

(* A memmodel_module that is only used from address 0 on is a faithful
   reference: a read returns the bytes of its own addresses and a write
   stores to them, for any number of initiators and any memory.  Away from
   address 0 it is not. *)
THEOREM ModelFromZero == ASSUME FromZero  PROVE ModelSpec => ImplementsMemory
<1>1. ModelInit => ClientInv /\ Atomic!Init
  BY InitClients, ModelInitRefines
<1>2. ClientInv /\ [ModelNext]_modelVars => ClientInv'
  BY StepClients
<1>3. ClientInv /\ [ModelNext]_modelVars => [Atomic!Next]_(Atomic!mvars)
  BY ModelStepRefines
<1>. QED
  BY <1>1, <1>2, <1>3, PTL DEF ModelSpec, ImplementsMemory, Atomic!Spec
=============================================================================
