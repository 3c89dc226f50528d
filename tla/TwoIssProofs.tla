---------------------------- MODULE TwoIssProofs ----------------------------
(***************************************************************************)
(* Proofs about TwoIss, for every set of harts, every memory map that      *)
(* satisfies MapAssumption and every set of aligned accesses.              *)
(***************************************************************************)
EXTENDS TwoIss, FiniteSetTheorems, TLAPS

Buffer(c) == [0 .. c.len - 1 -> Byte]

(* Where an access stands: what payload and target hold at each place. *)
Answered(h) ==
  \E st \in {OK, ERROR}, d \in Buffer(access[h]) :
    /\ target[h] = Rtl!Done(Relative(access[h]), st, d)
    /\ st = OK <=> Permitted(access[h])

AccessInv(h) ==
  /\ pc[h] # "target" => target[h] = Idle
  /\ pc[h] = "uncore" => trans[h] = access[h]
  /\ pc[h] = "target" => /\ tlm_address_decode(access[h].addr) = "EXTRAM"
                         /\ trans[h] = Relative(access[h])
                         /\ target[h] = Called(Relative(access[h])) \/ Answered(h)
  /\ pc[h] = "wait" => status[h] \in {OK, ERROR} /\ (status[h] = OK <=> Permitted(access[h]))

PayloadInv ==
  /\ trans = [h \in Harts |-> trans[h]]
  /\ target = [h \in Harts |-> target[h]]
  /\ \A h \in Harts : AccessInv(h)

LiveHarts == {h \in Harts : pc[h] # "ended"}
LiveBitbangs == {h \in DebugHarts : bitbang[h] = "running"}

(* The counter is the number of threads that have not left their loop. *)
CounterInv ==
  running_threads_counter = Cardinality(LiveHarts) + Cardinality(LiveBitbangs)

MainInv ==
  /\ main # "caught"
  /\ main = "stopped" => LiveHarts = {} /\ LiveBitbangs = {}

IInv == PlatformTypeOK /\ PayloadInv /\ CounterInv /\ MainInv
-----------------------------------------------------------------------------
(***************************************************************************)
(* The memory map: what the decode of the first byte says of all bytes.    *)
(***************************************************************************)

LEMMA CallFacts ==
  ASSUME NEW c \in Calls
  PROVE  /\ c = [cmd |-> c.cmd, addr |-> c.addr, len |-> c.len, data |-> c.data]
         /\ c.cmd \in Cmd /\ c.addr \in Nat /\ c.len \in Nat \ {0} /\ c.data \in Buffer(c)
         /\ c.addr \in Span(c) /\ Span(c) \subseteq Page(c.addr) /\ c # NoCall
<1>1. /\ c = [cmd |-> c.cmd, addr |-> c.addr, len |-> c.len, data |-> c.data]
      /\ c.cmd \in Cmd /\ c.addr \in Nat /\ c.len \in Nat \ {0} /\ c.data \in Buffer(c)
      /\ Span(c) \subseteq Page(c.addr) /\ c # NoCall
  BY AccessAssumption DEF Buffer
<1>2. c.addr \in Span(c)
  BY <1>1 DEF Span
<1>. QED  BY <1>1, <1>2

(* Whole pages belong to a region or do not. *)
LEMMA PageOf ==
  ASSUME NEW c \in Calls,
         NEW R \in {Rom, Ram, Extram,
                    extram_start_address .. extram_start_address + MaxAddr}
  PROVE  /\ c.addr \in R <=> Page(c.addr) \subseteq R
         /\ c.addr \in R <=> Span(c) \subseteq R
BY CallFacts, MapAssumption

LEMMA BackedIs ==
  Backed = Extram \cap (extram_start_address .. extram_start_address + MaxAddr)
BY MapAssumption, MemoryAssumption DEF Backed, Extram, Addr

LEMMA BusAccess ==
  ASSUME NEW c \in Calls, tlm_address_decode(c.addr) = "SPIKE_BUS"
  PROVE  /\ OnBus(Span(c)) /\ Span(c) \cap Backed = {}
         /\ c.cmd = READ => Permitted(c)
         /\ c.cmd = WRITE => (Span(c) \subseteq Ram <=> Permitted(c))
<1>1. c.addr \in Rom \/ c.addr \in Ram
  BY PageOf DEF tlm_address_decode, OnBus
<1>2. Span(c) \subseteq Rom \/ Span(c) \subseteq Ram
  BY <1>1, PageOf
<1>3. Span(c) \cap Backed = {}
  BY <1>2, MapAssumption, BackedIs
<1>4. c.addr \in Span(c)
  BY CallFacts
<1>. QED
  BY <1>2, <1>3, <1>4 DEF OnBus, Permitted, Readable, Writable, READ, WRITE

LEMMA UnknownAccess ==
  ASSUME NEW c \in Calls, tlm_address_decode(c.addr) = "UNKNOWN_DEVICE"
  PROVE  ~Permitted(c)
<1>1. c.addr \notin Rom /\ c.addr \notin Ram /\ c.addr \notin Extram
  BY PageOf DEF tlm_address_decode, OnBus
<1>. QED  BY <1>1, CallFacts, BackedIs DEF Permitted, Readable, Writable

LEMMA WindowAccess ==
  ASSUME NEW c \in Calls, tlm_address_decode(c.addr) = "EXTRAM"
  PROVE  /\ c.addr - extram_start_address \in Nat
         /\ Permitted(c) <=> Span(c) \subseteq Backed
         /\ Permitted(c) <=> c.addr - extram_start_address + c.len - 1 <= MaxAddr
<1>1. c.addr \in Extram /\ c.addr \notin Rom /\ c.addr \notin Ram
  BY PageOf DEF tlm_address_decode, OnBus
<1>2. c.addr - extram_start_address \in Nat
  BY <1>1, MapAssumption, CallFacts DEF Extram
<1>3. Permitted(c) => Span(c) \subseteq Backed
  <2>1. Span(c) \subseteq Extram
    BY <1>1, PageOf
  <2>. QED  BY <2>1, MapAssumption DEF Permitted, Readable, Writable
<1>4. Span(c) \subseteq Backed => Permitted(c)
  BY DEF Permitted, Readable, Writable
<1>5. Span(c) \subseteq Backed <=> c.addr - extram_start_address + c.len - 1 <= MaxAddr
  <2>1. Span(c) \subseteq Extram
    BY <1>1, PageOf
  <2>2. Span(c) \subseteq Backed
          <=> Span(c) \subseteq extram_start_address .. extram_start_address + MaxAddr
    BY <2>1, BackedIs
  <2>3. c.addr \in Nat /\ c.len \in Nat \ {0} /\ c.addr + c.len - 1 \in Span(c)
    BY CallFacts DEF Span
  <2>4. c.addr >= extram_start_address
    BY <1>2, <2>3, MapAssumption
  <2>. DEFINE last == c.addr + c.len - 1
              lo == extram_start_address
              hi == extram_start_address + MaxAddr
  <2>5. Span(c) = c.addr .. last /\ lo \in Nat /\ hi \in Nat /\ last \in Nat
    BY <2>3, MapAssumption, MemoryAssumption DEF Span
  <2>6. last <= hi => Span(c) \subseteq lo .. hi
    BY <2>3, <2>4, <2>5
  <2>7. Span(c) \subseteq lo .. hi => last <= hi
    BY <2>3, <2>5
  <2>8. last <= hi <=> c.addr - extram_start_address + c.len - 1 <= MaxAddr
    BY <2>3, MapAssumption, MemoryAssumption
  <2>. QED  BY <2>2, <2>6, <2>7, <2>8
<1>. QED  BY <1>2, <1>3, <1>4, <1>5
-----------------------------------------------------------------------------
(***************************************************************************)
(* The external RAM.                                                       *)
(***************************************************************************)

LEMMA RelativeCall ==
  ASSUME NEW c \in Calls, tlm_address_decode(c.addr) = "EXTRAM"
  PROVE  Relative(c) = [cmd |-> c.cmd, addr |-> c.addr - extram_start_address,
                        len |-> c.len, data |-> c.data]
BY CallFacts DEF Relative

LEMMA RtlFits ==
  ASSUME NEW c \in Calls, tlm_address_decode(c.addr) = "EXTRAM"
  PROVE  Rtl!Fits(Relative(c)) <=> Permitted(c)
<1>. DEFINE o == c.addr - extram_start_address
<1>1. o \in Nat /\ (Permitted(c) <=> o + c.len - 1 <= MaxAddr)
  BY WindowAccess
<1>2. Rtl!Fits(Relative(c)) <=> o .. o + c.len - 1 \subseteq 0 .. MaxAddr
  BY RelativeCall DEF Rtl!Fits, Rtl!Span, Addr
<1>3. c.len \in Nat \ {0}
  BY CallFacts
<1>. HIDE DEF o
<1>4. o + c.len - 1 <= MaxAddr => o .. o + c.len - 1 \subseteq 0 .. MaxAddr
  BY <1>1, <1>3, MemoryAssumption
<1>5. o .. o + c.len - 1 \subseteq 0 .. MaxAddr => o + c.len - 1 <= MaxAddr
  BY <1>1, <1>3, MemoryAssumption
<1>. QED  BY <1>1, <1>2, <1>4, <1>5

LEMMA ModelFits ==
  ASSUME NEW c \in Calls, tlm_address_decode(c.addr) = "EXTRAM"
  PROVE  Functional!ModelInRange(Relative(c)) <=> Permitted(c)
<1>1. Functional!ModelInRange(Relative(c))
        <=> ~(c.addr - extram_start_address + c.len - 1 > MaxAddr)
  BY RelativeCall DEF Functional!ModelInRange
<1>2. c.addr - extram_start_address \in Nat /\ c.len \in Nat \ {0}
  BY WindowAccess, CallFacts
<1>. QED  BY <1>1, <1>2, WindowAccess, MemoryAssumption

(* Either memory answers the call it holds and keeps the type of its bytes. *)
LEMMA ExternalRamAnswers ==
  ASSUME NEW h \in Harts, PlatformTypeOK, PayloadInv, ExternalRam(h)
  PROVE  /\ pc[h] = "target" /\ target[h] = Called(Relative(access[h]))
         /\ extram' \in [Addr -> Byte]
         /\ \E st \in {OK, ERROR}, d \in Buffer(access[h]) :
              /\ target' = [target EXCEPT ![h] = Rtl!Done(Relative(access[h]), st, d)]
              /\ st = OK <=> Permitted(access[h])
         /\ UNCHANGED <<spike_ram, hartVars, running_threads_counter, main, bitbang>>
<1>. DEFINE c == access[h]
            r == Relative(c)
            o == c.addr - extram_start_address
<1>1. pc[h] = "target" /\ target[h] = Called(r)
  BY DEF ExternalRam, PayloadInv, AccessInv, Answered, Rtl!Done, Idle
<1>2. c \in Calls /\ tlm_address_decode(c.addr) = "EXTRAM" /\ target[h].call = r
  BY <1>1 DEF PayloadInv, AccessInv, PlatformTypeOK, Called
<1>3. /\ r.cmd = c.cmd /\ r.addr = o /\ r.len = c.len /\ r.data = c.data
      /\ c.cmd \in Cmd /\ c.len \in Nat \ {0} /\ c.data \in Buffer(c) /\ o \in Nat
  BY <1>2, RelativeCall, CallFacts, WindowAccess
<1>4. (Rtl!Fits(r) <=> Permitted(c)) /\ (Functional!ModelInRange(r) <=> Permitted(c))
  BY <1>2, RtlFits, ModelFits
<1>5. Permitted(c) => o + c.len - 1 <= MaxAddr
  BY <1>2, WindowAccess
<1>6. extram \in [Addr -> Byte]
  BY DEF PlatformTypeOK
<1>7. UNCHANGED <<spike_ram, hartVars, running_threads_counter, main, bitbang>>
  BY DEF ExternalRam
<1>. SUFFICES /\ extram' \in [Addr -> Byte]
              /\ \E st \in {OK, ERROR}, d \in Buffer(c) :
                   /\ target' = [target EXCEPT ![h] = Rtl!Done(r, st, d)]
                   /\ st = OK <=> Permitted(c)
  BY <1>1, <1>7
<1>. HIDE DEF c, r, o
<1>8. CASE UseMemRtl
  <2>1. CASE Rtl!Refuse(h, r)
    BY <2>1, <1>3, <1>4, <1>6 DEF Rtl!Refuse, OK, ERROR, Rtl!ERROR
  <2>2. CASE Rtl!Read(h, r)
    <3>1. /\ extram' = extram /\ Permitted(c)
          /\ target' = [target EXCEPT ![h] =
               Rtl!Done(r, OK, [i \in 0 .. c.len - 1 |-> extram[o + i]])]
      BY <2>2, <1>3, <1>4 DEF Rtl!Read, Rtl!Bytes, OK, Rtl!OK
    <3>2. [i \in 0 .. c.len - 1 |-> extram[o + i]] \in Buffer(c)
      BY <3>1, <1>3, <1>5, <1>6, MemoryAssumption DEF Buffer, Addr
    <3>. QED  BY <3>1, <3>2, <1>6
  <2>3. CASE Rtl!Write(h, r)
    <3>1. /\ Permitted(c) /\ target' = [target EXCEPT ![h] = Rtl!Done(r, OK, c.data)]
          /\ extram' = [a \in Addr |-> IF a \in o .. o + c.len - 1 THEN c.data[a - o]
                                                                   ELSE extram[a]]
      BY <2>3, <1>3, <1>4 DEF Rtl!Write, Rtl!Span, OK, Rtl!OK
    <3>2. ASSUME NEW a \in Addr, a \in o .. o + c.len - 1  PROVE c.data[a - o] \in Byte
      <4>1. a \in Nat /\ a - o \in 0 .. c.len - 1
        BY <3>2, <1>3, MemoryAssumption DEF Addr
      <4>. QED  BY <4>1, <1>3 DEF Buffer
    <3>3. extram' \in [Addr -> Byte]
      BY <3>1, <3>2, <1>6
    <3>. QED  BY <3>1, <3>3, <1>3
  <2>. QED  BY <1>8, <1>1, <1>2, <2>1, <2>2, <2>3 DEF ExternalRam
<1>9. CASE ~UseMemRtl
  <2>1. Functional!b_transport(h)
    BY <1>9 DEF ExternalRam
  <2>2. CASE ~Functional!ModelInRange(r)
    <3>1. extram' = extram /\ target' = [target EXCEPT ![h] = Rtl!Done(r, ERROR, c.data)]
      BY <2>1, <2>2, <1>2, <1>3
      DEF Functional!b_transport, Functional!Done, Rtl!Done, ERROR, Functional!ERROR
    <3>. QED  BY <3>1, <2>2, <1>3, <1>4, <1>6 DEF OK, ERROR
  <2>3. CASE Functional!ModelInRange(r) /\ c.cmd = READ
    <3>1. /\ extram' = extram
          /\ target' = [target EXCEPT ![h] =
               Rtl!Done(r, OK, [i \in 0 .. c.len - 1 |-> extram[i]])]
      BY <2>1, <2>3, <1>2, <1>3
      DEF Functional!b_transport, Functional!Done, Functional!Loaded, Rtl!Done, OK,
          Functional!OK, READ, WRITE, Functional!READ, Functional!WRITE
    <3>2. [i \in 0 .. c.len - 1 |-> extram[i]] \in Buffer(c)
      BY <2>3, <1>3, <1>4, <1>5, <1>6, MemoryAssumption DEF Buffer, Addr
    <3>. QED  BY <3>1, <3>2, <2>3, <1>4, <1>6
  <2>4. CASE Functional!ModelInRange(r) /\ c.cmd = WRITE
    <3>1. /\ target' = [target EXCEPT ![h] = Rtl!Done(r, OK, c.data)]
          /\ extram' = [a \in Addr |-> IF a < c.len THEN c.data[a] ELSE extram[a]]
      BY <2>1, <2>4, <1>2, <1>3
      DEF Functional!b_transport, Functional!Done, Functional!Stored, Rtl!Done, OK,
          Functional!OK, READ, WRITE, Functional!READ, Functional!WRITE,
          Functional!Addr, Addr
    <3>2. extram' \in [Addr -> Byte]
      BY <3>1, <1>3, <1>6, MemoryAssumption DEF Buffer, Addr
    <3>. QED  BY <3>1, <3>2, <2>4, <1>3, <1>4
  <2>. QED  BY <2>2, <2>3, <2>4, <1>3 DEF Cmd
<1>. QED  BY <1>8, <1>9
-----------------------------------------------------------------------------
(***************************************************************************)
(* The inductive invariant.                                                *)
(***************************************************************************)

LEMMA CountBounds ==
  ASSUME NEW S \in SUBSET Harts, NEW T \in SUBSET DebugHarts
  PROVE  /\ Cardinality(S) + Cardinality(T)
              \in 0 .. Cardinality(Harts) + Cardinality(DebugHarts)
         /\ ~(Cardinality(S) + Cardinality(T) > 0) => S = {} /\ T = {}
         /\ \A h \in S : Cardinality(S \ {h}) + Cardinality(T)
                           = (Cardinality(S) + Cardinality(T)) - 1
         /\ \A h \in T : Cardinality(S) + Cardinality(T \ {h})
                           = (Cardinality(S) + Cardinality(T)) - 1
<1>1. IsFiniteSet(Harts) /\ IsFiniteSet(DebugHarts)
  BY PlatformAssumption, DebugAssumption, FS_Subset
<1>2. IsFiniteSet(S) /\ IsFiniteSet(T)
  BY <1>1, FS_Subset
<1>3. /\ Cardinality(S) \in Nat /\ Cardinality(T) \in Nat
      /\ Cardinality(Harts) \in Nat /\ Cardinality(DebugHarts) \in Nat
  BY <1>1, <1>2, FS_CardinalityType
<1>4. Cardinality(S) <= Cardinality(Harts) /\ Cardinality(T) <= Cardinality(DebugHarts)
  BY <1>1, FS_Subset
<1>5. (Cardinality(S) = 0 <=> S = {}) /\ (Cardinality(T) = 0 <=> T = {})
  BY <1>2, FS_EmptySet
<1>6. /\ \A h \in S : Cardinality(S \ {h}) = Cardinality(S) - 1
      /\ \A h \in T : Cardinality(T \ {h}) = Cardinality(T) - 1
  BY <1>2, FS_RemoveElement
<1>. QED  BY <1>3, <1>4, <1>5, <1>6

LEMMA InitInv == Init => IInv
<1>. SUFFICES ASSUME Init  PROVE IInv
  OBVIOUS
<1>1. LiveHarts = Harts /\ LiveBitbangs = DebugHarts
  BY DEF Init, LiveHarts, LiveBitbangs
<1>2. CounterInv
  BY <1>1 DEF Init, CounterInv
<1>3. running_threads_counter \in 0 .. Cardinality(Harts) + Cardinality(DebugHarts)
  BY <1>1, <1>2, CountBounds DEF CounterInv
<1>4. PlatformTypeOK
  BY <1>3 DEF Init, PlatformTypeOK
<1>5. PayloadInv /\ MainInv
  BY DEF Init, PayloadInv, AccessInv, MainInv
<1>. QED  BY <1>2, <1>4, <1>5 DEF IInv

LEMMA IndexOf ==
  ASSUME NEW lo \in Nat, NEW n \in Nat, NEW a \in lo .. lo + n - 1
  PROVE  a - lo \in 0 .. n - 1
OBVIOUS

(* A store keeps the type of the RAM. *)
LEMMA StoreType ==
  ASSUME NEW c \in Calls, spike_ram \in [0 .. RamSize - 1 -> Byte]
  PROVE  RamAfter(c) \in [0 .. RamSize - 1 -> Byte]
<1>1. c.addr \in Nat /\ c.len \in Nat \ {0} /\ c.data \in Buffer(c)
  BY CallFacts
<1>2. ASSUME NEW i \in 0 .. RamSize - 1, spike_ram_memory_address + i \in Span(c)
      PROVE  c.data[(spike_ram_memory_address + i) - c.addr] \in Byte
  <2>. DEFINE a == spike_ram_memory_address + i
  <2>1. a \in c.addr .. c.addr + c.len - 1
    BY <1>2 DEF Span
  <2>. HIDE DEF a
  <2>2. a - c.addr \in 0 .. c.len - 1
    BY <1>1, <2>1, IndexOf
  <2>3. c.data[a - c.addr] \in Byte
    BY <1>1, <2>2 DEF Buffer
  <2>. QED  BY <2>3 DEF a
<1>. QED  BY <1>2 DEF RamAfter

(* What does not belong to the hart that moves keeps its place. *)
LEMMA OthersKeep ==
  ASSUME NEW g \in Harts, AccessInv(g),
         pc'[g] = pc[g], access'[g] = access[g], trans'[g] = trans[g],
         status'[g] = status[g], target'[g] = target[g]
  PROVE  AccessInv(g)'
BY DEF AccessInv, Answered

(* No thread has ended in this step. *)
LEMMA CountKept ==
  ASSUME CounterInv, LiveHarts' = LiveHarts, LiveBitbangs' = LiveBitbangs,
         running_threads_counter' = running_threads_counter
  PROVE  CounterInv'
BY DEF CounterInv

(* One thread has. *)
LEMMA CountDown ==
  ASSUME CounterInv,
         Cardinality(LiveHarts') + Cardinality(LiveBitbangs')
           = (Cardinality(LiveHarts) + Cardinality(LiveBitbangs)) - 1,
         running_threads_counter' = running_threads_counter - 1
  PROVE  CounterInv'
BY DEF CounterInv

(* The part of the invariant that is about accesses and threads. *)
Moved == PayloadInv' /\ CounterInv' /\ main' # "caught"

LEMMA UncoreStep ==
  ASSUME IInv, NEW h \in Harts, b_transport(h),
         UNCHANGED <<keep_sim, running_threads_counter, main, bitbang>>
  PROVE  PlatformTypeOK' /\ Moved
<1>. USE DEF IInv
<1>. DEFINE c == access[h]
<1>1. pc[h] \in {"uncore", "target"} /\ c \in Calls
  BY DEF b_transport, BusLoad, BusStore, ToExtram, FromExtram, UnknownDevice, In, PlatformTypeOK
<1>2. AccessInv(h) /\ (pc[h] = "uncore" => trans[h] = c)
  BY DEF PayloadInv, AccessInv
<1>3. CounterInv' /\ main' # "caught"
  <2>1. LiveHarts' = LiveHarts /\ LiveBitbangs' = LiveBitbangs
    BY <1>1 DEF LiveHarts, LiveBitbangs, b_transport, BusLoad, BusStore, ToExtram,
                FromExtram, UnknownDevice, Answer, PlatformTypeOK
  <2>. QED  BY <2>1, CountKept DEF MainInv
<1>4. /\ spike_ram' \in [0 .. RamSize - 1 -> Byte]
      /\ extram' = extram /\ access' = access
  <2>1. CASE BusStore(h)
    <3>1. trans[h] \in Calls /\ spike_ram \in [0 .. RamSize - 1 -> Byte]
      BY <2>1, <1>1, <1>2 DEF BusStore, In, PlatformTypeOK
    <3>2. /\ extram' = extram /\ access' = access
          /\ spike_ram' = RamAfter(trans[h]) \/ spike_ram' = spike_ram
      BY <2>1 DEF BusStore
    <3>. QED  BY <3>1, <3>2, StoreType
  <2>. QED
    BY <2>1 DEF b_transport, BusLoad, ToExtram, FromExtram, UnknownDevice, PlatformTypeOK
<1>5. /\ pc' = [pc EXCEPT ![h] = pc'[h]] /\ status' = [status EXCEPT ![h] = status'[h]]
      /\ pc'[h] \in {"target", "wait"} /\ status'[h] \in {OK, ERROR, INCOMPLETE}
  <2>. USE DEF PlatformTypeOK
  <2>1. target[h] # Idle => pc[h] = "target"
    BY DEF PayloadInv, AccessInv
  <2>2. ASSUME FromExtram(h)  PROVE target[h].status \in {OK, ERROR}
    <3>1. Answered(h)
      BY <2>2, <1>2 DEF FromExtram, AccessInv, Called
    <3>2. PICK st \in {OK, ERROR}, d \in Buffer(c) : target[h] = Rtl!Done(Relative(c), st, d)
      BY <3>1 DEF Answered
    <3>. QED  BY <3>2 DEF Rtl!Done
  <2>3. BusLoad(h) \/ BusStore(h) \/ FromExtram(h) \/ UnknownDevice(h) \/ ToExtram(h)
    BY DEF b_transport
  <2>4. ASSUME NEW st \in {OK, ERROR}, Answer(h, st)
        PROVE  /\ pc' = [pc EXCEPT ![h] = pc'[h]] /\ status' = [status EXCEPT ![h] = status'[h]]
               /\ pc'[h] = "wait" /\ status'[h] = st
    BY <2>4 DEF Answer
  <2>5. CASE ToExtram(h)
    BY <2>5 DEF ToExtram
  <2>6. CASE BusLoad(h) \/ BusStore(h) \/ FromExtram(h) \/ UnknownDevice(h)
    <3>1. \E st \in {OK, ERROR} : Answer(h, st)
      BY <2>6, <2>2 DEF BusLoad, BusStore, FromExtram, UnknownDevice
    <3>. QED  BY <3>1, <2>4
  <2>. QED  BY <2>3, <2>5, <2>6
<1>6. /\ trans' = [trans EXCEPT ![h] = trans'[h]]
      /\ target' = [target EXCEPT ![h] = target'[h]]
  BY DEF b_transport, BusLoad, BusStore, ToExtram, FromExtram, UnknownDevice, PayloadInv
<1>7. PlatformTypeOK'
  <2>1. pc' \in [Harts -> {"step", "uncore", "target", "wait", "pause", "ended"}]
        /\ status' \in [Harts -> {OK, ERROR, INCOMPLETE}]
    BY <1>5 DEF PlatformTypeOK
  <2>2. \A g \in Harts : pc'[g] \in {"uncore", "target", "wait"} => access'[g] \in Calls
    BY <1>1, <1>4, <1>5 DEF PlatformTypeOK
  <2>. QED  BY <1>4, <2>1, <2>2 DEF PlatformTypeOK
<1>8. AccessInv(h)'
  <2>1. CASE BusLoad(h)
    <3>1. tlm_address_decode(c.addr) = "SPIKE_BUS" /\ c.cmd = READ
      BY <2>1, <1>2 DEF BusLoad, In
    <3>2. status'[h] = OK /\ pc'[h] = "wait" /\ target'[h] = Idle
      BY <2>1, <1>1, <1>2, <3>1, BusAccess DEF BusLoad, Answer, In, PlatformTypeOK, AccessInv
    <3>. QED  BY <1>1, <1>4, <3>1, <3>2, BusAccess DEF AccessInv
  <2>2. CASE BusStore(h)
    <3>1. tlm_address_decode(c.addr) = "SPIKE_BUS" /\ c.cmd = WRITE
      BY <2>2, <1>2 DEF BusStore, In
    <3>2. /\ status'[h] = IF Span(c) \subseteq Ram THEN OK ELSE ERROR
          /\ pc'[h] = "wait" /\ target'[h] = Idle
      BY <2>2, <1>2 DEF BusStore, Answer, In, PlatformTypeOK, AccessInv
    <3>. QED  BY <1>1, <1>4, <3>1, <3>2, BusAccess DEF AccessInv, OK, ERROR
  <2>3. CASE ToExtram(h)
    BY <2>3, <1>2, <1>4 DEF ToExtram, In, AccessInv, PlatformTypeOK, PayloadInv
  <2>4. CASE FromExtram(h)
    <3>1. PICK st \in {OK, ERROR}, d \in Buffer(c) :
            target[h] = Rtl!Done(Relative(c), st, d) /\ (st = OK <=> Permitted(c))
      BY <2>4, <1>2 DEF FromExtram, AccessInv, Answered, Called
    <3>2. status'[h] = st /\ pc'[h] = "wait" /\ target'[h] = Idle
      BY <2>4, <3>1 DEF FromExtram, Answer, Rtl!Done, PlatformTypeOK, PayloadInv
    <3>. QED  BY <1>4, <3>1, <3>2 DEF AccessInv
  <2>5. CASE UnknownDevice(h)
    <3>1. tlm_address_decode(c.addr) = "UNKNOWN_DEVICE" /\ ~Permitted(c)
      BY <2>5, <1>1, <1>2, UnknownAccess DEF UnknownDevice, In
    <3>2. status'[h] = ERROR /\ pc'[h] = "wait" /\ target'[h] = Idle
      BY <2>5, <1>2 DEF UnknownDevice, Answer, In, AccessInv, PlatformTypeOK
    <3>. QED  BY <1>4, <3>1, <3>2 DEF AccessInv, OK, ERROR
  <2>. QED  BY <2>1, <2>2, <2>3, <2>4, <2>5 DEF b_transport
<1>9. PayloadInv'
  <2>1. ASSUME NEW g \in Harts, g # h  PROVE AccessInv(g)'
    <3>1. AccessInv(g)
      BY DEF PayloadInv
    <3>2. /\ pc'[g] = pc[g] /\ access'[g] = access[g] /\ trans'[g] = trans[g]
          /\ status'[g] = status[g] /\ target'[g] = target[g]
      BY <1>4, <1>5, <1>6, <2>1 DEF PayloadInv, PlatformTypeOK
    <3>. QED  BY <3>1, <3>2, OthersKeep
  <2>2. trans' = [g \in Harts |-> trans'[g]] /\ target' = [g \in Harts |-> target'[g]]
    BY <1>6 DEF PayloadInv
  <2>. QED  BY <1>8, <2>1, <2>2 DEF PayloadInv
<1>. QED  BY <1>3, <1>7, <1>9 DEF Moved

LEMMA ExternalRamStep ==
  ASSUME IInv, NEW h \in Harts, ExternalRam(h)
  PROVE  PlatformTypeOK' /\ Moved
<1>1. PICK st \in {OK, ERROR}, d \in Buffer(access[h]) :
        /\ target' = [target EXCEPT ![h] = Rtl!Done(Relative(access[h]), st, d)]
        /\ st = OK <=> Permitted(access[h])
  BY ExternalRamAnswers DEF IInv
<1>2. /\ pc[h] = "target" /\ extram' \in [Addr -> Byte]
      /\ UNCHANGED <<spike_ram, hartVars, running_threads_counter, main, bitbang>>
  BY ExternalRamAnswers DEF IInv
<1>3. PlatformTypeOK'
  BY <1>2 DEF IInv, PlatformTypeOK, hartVars
<1>4. CounterInv' /\ main' # "caught"
  BY <1>2, CountKept DEF IInv, MainInv, LiveHarts, LiveBitbangs, hartVars
<1>5. AccessInv(h)'
  <2>1. AccessInv(h) /\ target'[h] = Rtl!Done(Relative(access[h]), st, d)
    BY <1>1 DEF IInv, PayloadInv
  <2>2. Answered(h)'
    BY <1>1, <1>2, <2>1 DEF Answered, hartVars
  <2>. QED  BY <1>2, <2>1, <2>2 DEF AccessInv, hartVars
<1>6. ASSUME NEW g \in Harts, g # h  PROVE AccessInv(g)'
  <2>1. target'[g] = target[g] /\ AccessInv(g)
    BY <1>1, <1>6 DEF IInv, PayloadInv
  <2>. QED  BY <1>2, <2>1, OthersKeep DEF hartVars
<1>7. trans' = [g \in Harts |-> trans'[g]] /\ target' = [g \in Harts |-> target'[g]]
  BY <1>1, <1>2 DEF IInv, PayloadInv, hartVars
<1>. QED  BY <1>3, <1>4, <1>5, <1>6, <1>7 DEF Moved, PayloadInv

(* A step of Spike's own code on the thread of h that ends no thread. *)
LEMMA SpikeStep ==
  ASSUME IInv, NEW h \in Harts,
         \/ MmioReturn(h) \/ EndStep(h) \/ LocalAccess(h)
         \/ Loop(h) /\ keep_sim[h]
         \/ UncoreAccess(h),
         bitbang' = bitbang
  PROVE  PlatformTypeOK' /\ Moved
<1>. USE DEF IInv
<1>1. /\ UNCHANGED <<spike_ram, extram, target, running_threads_counter>>
      /\ pc' = [pc EXCEPT ![h] = pc'[h]]
      /\ pc[h] \in {"step", "wait", "pause"} /\ pc'[h] \in {"step", "uncore", "pause"}
      /\ \A g \in Harts \ {h} : /\ access'[g] = access[g] /\ trans'[g] = trans[g]
                                /\ status'[g] = status[g]
  BY DEF MmioReturn, EndStep, LocalAccess, Loop, UncoreAccess, Mmio, PlatformTypeOK, PayloadInv
<1>2. /\ access' \in [Harts -> Calls \cup {NoCall}]
      /\ trans' = [g \in Harts |-> trans'[g]]
      /\ status' \in [Harts -> {OK, ERROR, INCOMPLETE}]
      /\ pc'[h] = "uncore" => access'[h] \in Calls /\ trans'[h] = access'[h]
  <2>1. CASE UncoreAccess(h)
    <3>1. PICK c \in Calls : Mmio(h, c)
      BY <2>1 DEF UncoreAccess
    <3>. QED  BY <3>1 DEF Mmio, PlatformTypeOK, PayloadInv
  <2>2. CASE ~UncoreAccess(h)
    <3>1. UNCHANGED <<access, trans, status>> /\ pc'[h] # "uncore"
      BY <2>2 DEF MmioReturn, EndStep, LocalAccess, Loop, PlatformTypeOK
    <3>. QED  BY <3>1 DEF PlatformTypeOK, PayloadInv
  <2>. QED  BY <2>1, <2>2
<1>3. main' = main /\ keep_sim' \in [Harts -> BOOLEAN]
  <2>1. CASE MmioReturn(h)
    <3>1. status[h] \in {OK, ERROR}
      BY <2>1 DEF MmioReturn, PayloadInv, AccessInv
    <3>. QED  BY <2>1, <3>1 DEF MmioReturn, PlatformTypeOK
  <2>2. CASE ~MmioReturn(h)
    BY <2>2 DEF EndStep, LocalAccess, Loop, UncoreAccess, Mmio, PlatformTypeOK
  <2>. QED  BY <2>1, <2>2
<1>4. PlatformTypeOK'
  <2>1. pc' \in [Harts -> {"step", "uncore", "target", "wait", "pause", "ended"}]
    BY <1>1 DEF PlatformTypeOK
  <2>2. \A g \in Harts : pc'[g] \in {"uncore", "target", "wait"} => access'[g] \in Calls
    BY <1>1, <1>2 DEF PlatformTypeOK
  <2>. QED  BY <1>1, <1>2, <1>3, <2>1, <2>2 DEF PlatformTypeOK
<1>5. CounterInv' /\ main' # "caught"
  <2>1. LiveHarts' = LiveHarts /\ LiveBitbangs' = LiveBitbangs
    BY <1>1 DEF LiveHarts, LiveBitbangs, PlatformTypeOK
  <2>. QED  BY <1>1, <1>3, <2>1, CountKept DEF MainInv
<1>6. ASSUME NEW g \in Harts  PROVE AccessInv(g)'
  <2>1. AccessInv(g)
    BY DEF PayloadInv
  <2>2. CASE g = h
    BY <1>1, <1>2, <2>1, <2>2 DEF AccessInv
  <2>3. CASE g # h
    BY <1>1, <2>1, <2>3, OthersKeep DEF PlatformTypeOK
  <2>. QED  BY <2>2, <2>3
<1>7. target' = [g \in Harts |-> target'[g]]
  BY <1>1 DEF PayloadInv
<1>. QED  BY <1>2, <1>4, <1>5, <1>6, <1>7 DEF Moved, PayloadInv

(* A thread leaves its loop and counts itself down. *)
LEMMA ThreadEnds ==
  ASSUME IInv,
         \/ \E h \in Harts : Loop(h) /\ ~keep_sim[h] /\ bitbang' = bitbang
         \/ \E h \in DebugHarts : BitbangThread(h)
  PROVE  PlatformTypeOK' /\ Moved
<1>. USE DEF IInv
<1>1. UNCHANGED <<access, trans, status, spike_ram, extram, target, keep_sim, main>>
  BY DEF Loop, BitbangThread
<1>2. CounterInv' /\ running_threads_counter' \in 0 .. Cardinality(Harts) + Cardinality(DebugHarts)
  <2>1. LiveHarts \in SUBSET Harts /\ LiveBitbangs \in SUBSET DebugHarts
    BY DEF LiveHarts, LiveBitbangs
  <2>2. CASE \E h \in Harts : Loop(h) /\ ~keep_sim[h] /\ bitbang' = bitbang
    <3>1. PICK h \in Harts : Loop(h) /\ ~keep_sim[h] /\ bitbang' = bitbang
      BY <2>2
    <3>2. h \in LiveHarts /\ LiveHarts' = LiveHarts \ {h} /\ LiveBitbangs' = LiveBitbangs
      BY <3>1 DEF Loop, LiveHarts, LiveBitbangs, PlatformTypeOK
    <3>3. running_threads_counter' = running_threads_counter - 1
      BY <3>1 DEF Loop
    <3>4. CounterInv'
      <4>1. Cardinality(LiveHarts \ {h}) + Cardinality(LiveBitbangs)
              = (Cardinality(LiveHarts) + Cardinality(LiveBitbangs)) - 1
        BY <2>1, <3>2, CountBounds
      <4>. QED  BY <3>2, <3>3, <4>1, CountDown
    <3>5. LiveHarts \ {h} \in SUBSET Harts
      BY <2>1
    <3>. QED  BY <2>1, <3>2, <3>4, <3>5, CountBounds DEF CounterInv
  <2>3. CASE \E h \in DebugHarts : BitbangThread(h)
    <3>1. PICK h \in DebugHarts : BitbangThread(h)
      BY <2>3
    <3>2. h \in LiveBitbangs /\ LiveBitbangs' = LiveBitbangs \ {h} /\ LiveHarts' = LiveHarts
      BY <3>1 DEF BitbangThread, LiveHarts, LiveBitbangs, PlatformTypeOK
    <3>3. running_threads_counter' = running_threads_counter - 1
      BY <3>1 DEF BitbangThread
    <3>4. CounterInv'
      <4>1. Cardinality(LiveHarts) + Cardinality(LiveBitbangs \ {h})
              = (Cardinality(LiveHarts) + Cardinality(LiveBitbangs)) - 1
        BY <2>1, <3>2, CountBounds
      <4>. QED  BY <3>2, <3>3, <4>1, CountDown
    <3>5. LiveBitbangs \ {h} \in SUBSET DebugHarts
      BY <2>1
    <3>. QED  BY <2>1, <3>2, <3>4, <3>5, CountBounds DEF CounterInv
  <2>. QED  BY <2>2, <2>3
<1>3. /\ pc' \in [Harts -> {"step", "uncore", "target", "wait", "pause", "ended"}]
      /\ bitbang' \in [DebugHarts -> {"running", "ended"}]
      /\ \A g \in Harts : pc'[g] = pc[g] \/ (pc[g] = "pause" /\ pc'[g] = "ended")
  BY DEF Loop, BitbangThread, PlatformTypeOK
<1>4. PlatformTypeOK'
  <2>1. \A g \in Harts : pc'[g] \in {"uncore", "target", "wait"} => access'[g] \in Calls
    BY <1>1, <1>3 DEF PlatformTypeOK
  <2>. QED  BY <1>1, <1>2, <1>3, <2>1 DEF PlatformTypeOK
<1>5. ASSUME NEW g \in Harts  PROVE AccessInv(g)'
  <2>1. AccessInv(g)
    BY DEF PayloadInv
  <2>. QED  BY <1>1, <1>3, <2>1 DEF AccessInv, Answered
<1>. QED  BY <1>1, <1>2, <1>4, <1>5 DEF Moved, PayloadInv, MainInv

LEMMA StepInv ==
  ASSUME IInv, [Next]_vars
  PROVE  IInv'
<1>1. CASE main = "running" /\ PlatformTypeOK' /\ Moved /\ main' = "running"
  BY <1>1 DEF IInv, Moved, MainInv
<1>2. ASSUME main = "running",
             \/ \E h \in Harts : \/ HartThread(h) \/ ExternalRam(h)
                                 \/ EndStep(h) /\ UNCHANGED bitbang
                                 \/ UncoreAccess(h) \/ LocalAccess(h)
             \/ \E h \in DebugHarts : BitbangThread(h)
      PROVE  IInv'
  <2>1. PlatformTypeOK' /\ Moved
    BY <1>2, UncoreStep, ExternalRamStep, SpikeStep, ThreadEnds
    DEF HartThread, UncoreAccess, LocalAccess, Loop
  <2>2. main' = main \/ main' = "caught"
    BY <1>2 DEF HartThread, ExternalRam, EndStep, UncoreAccess, Mmio, LocalAccess,
                BitbangThread, MmioReturn, Loop
  <2>. QED  BY <1>1, <1>2, <2>1, <2>2 DEF Moved
<1>3. CASE Stop
  <2>1. LiveHarts = {} /\ LiveBitbangs = {}
    <3>1. LiveHarts \in SUBSET Harts /\ LiveBitbangs \in SUBSET DebugHarts
      BY DEF LiveHarts, LiveBitbangs
    <3>. QED  BY <1>3, <3>1, CountBounds DEF Stop, IInv, CounterInv
  <2>. USE <1>3 DEF Stop, memVars, hartVars, IInv
  <2>2. PlatformTypeOK'
    BY DEF PlatformTypeOK
  <2>3. PayloadInv'
    BY DEF PayloadInv, AccessInv, Answered
  <2>4. CounterInv' /\ LiveHarts' = LiveHarts /\ LiveBitbangs' = LiveBitbangs
    BY DEF CounterInv, LiveHarts, LiveBitbangs
  <2>. QED  BY <2>1, <2>2, <2>3, <2>4 DEF MainInv
<1>4. CASE UNCHANGED vars
  <2>. USE <1>4 DEF vars, memVars, hartVars, IInv
  <2>1. PlatformTypeOK'
    BY DEF PlatformTypeOK
  <2>2. PayloadInv'
    BY DEF PayloadInv, AccessInv, Answered
  <2>3. CounterInv' /\ MainInv'
    BY DEF CounterInv, MainInv, LiveHarts, LiveBitbangs
  <2>. QED  BY <2>1, <2>2, <2>3
<1>. QED  BY <1>2, <1>3, <1>4 DEF Next, Returned

LEMMA Invariance == Spec => []IInv
<1>1. Init => IInv
  BY InitInv
<1>2. IInv /\ [Next]_vars => IInv'
  BY StepInv
<1>. QED  BY <1>1, <1>2, PTL DEF Spec
-----------------------------------------------------------------------------
(* The state of harts, payloads and memories keeps its type, and the thread
   counter never leaves its range: no thread counts itself down twice. *)
THEOREM TwoIssTypeCorrect == Spec => []PlatformTypeOK
<1>1. IInv => PlatformTypeOK
  BY DEF IInv
<1>. QED  BY <1>1, Invariance, PTL

(* No access comes back without a response status, whatever its address. *)
THEOREM NoErrorReports == Spec => []NoErrorReport
<1>1. IInv => NoErrorReport
  BY DEF IInv, MainInv, NoErrorReport
<1>. QED  BY <1>1, Invariance, PTL

(* sc_main stops the simulation only after every thread has ended and with
   no transaction left in the external RAM. *)
THEOREM StopIsLast == Spec => []StopsWhenAllEnded
<1>1. IInv => StopsWhenAllEnded
  <2>. SUFFICES ASSUME IInv, main = "stopped"  PROVE StopsWhenAllEnded
    BY DEF StopsWhenAllEnded
  <2>1. \A h \in Harts : pc[h] = "ended"
    BY DEF IInv, MainInv, LiveHarts
  <2>2. \A h \in Harts : target[h] = Idle
    BY <2>1 DEF IInv, PayloadInv, AccessInv
  <2>3. \A h \in DebugHarts : bitbang[h] = "ended"
    BY DEF IInv, MainInv, LiveBitbangs, PlatformTypeOK
  <2>. QED  BY <2>1, <2>2, <2>3 DEF StopsWhenAllEnded
<1>. QED  BY <1>1, Invariance, PTL

(* The flag of a hart falls when and only when one of its own accesses is
   refused by the memory map. *)
THEOREM EndsWhenRefused == Spec => EndsOnRefusal
<1>. DEFINE Falls(h) ==
       /\ keep_sim'[h] # keep_sim[h] => pc[h] = "wait" /\ ~Permitted(access[h])
       /\ pc[h] = "wait" /\ pc'[h] # "wait" /\ ~Permitted(access[h]) => ~keep_sim'[h]
<1>1. ASSUME IInv, [Next]_vars, NEW h \in Harts  PROVE Falls(h)
  <2>1. CASE MmioReturn(h)
    <3>1. /\ keep_sim'[h] = (keep_sim[h] /\ status[h] # ERROR) /\ keep_sim[h] \in BOOLEAN
          /\ pc[h] = "wait" /\ status[h] \in {OK, ERROR}
          /\ status[h] = OK <=> Permitted(access[h])
      BY <1>1, <2>1 DEF MmioReturn, IInv, PlatformTypeOK, PayloadInv, AccessInv
    <3>. QED  BY <3>1 DEF OK, ERROR
  <2>2. ASSUME NEW g \in Harts, g # h,
               \/ HartThread(g) \/ ExternalRam(g) \/ EndStep(g)
               \/ UncoreAccess(g) \/ LocalAccess(g)
        PROVE  keep_sim'[h] = keep_sim[h] /\ pc'[h] = pc[h]
    BY <1>1, <2>2
    DEF HartThread, ExternalRam, EndStep, UncoreAccess, Mmio, LocalAccess, MmioReturn, Loop,
        b_transport, BusLoad, BusStore, ToExtram, FromExtram, UnknownDevice, Answer,
        hartVars, IInv, PlatformTypeOK
  <2>3. CASE \/ b_transport(h) /\ UNCHANGED keep_sim
             \/ Loop(h) \/ EndStep(h) \/ UncoreAccess(h) \/ LocalAccess(h)
    BY <2>3
    DEF EndStep, UncoreAccess, Mmio, LocalAccess, Loop, b_transport, BusLoad, BusStore,
        ToExtram, FromExtram, UnknownDevice, In
  <2>4. CASE \/ \E g \in Harts : ExternalRam(g)
             \/ \E g \in DebugHarts : BitbangThread(g)
             \/ Stop \/ UNCHANGED vars
    BY <2>4 DEF ExternalRam, BitbangThread, Stop, vars, hartVars
  <2>. QED  BY <1>1, <2>1, <2>2, <2>3, <2>4 DEF Next, Returned, HartThread
<1>2. IInv /\ [Next]_vars => [\A h \in Harts : Falls(h)]_vars
  BY <1>1
<1>. QED  BY <1>2, Invariance, PTL DEF Spec, EndsOnRefusal
-----------------------------------------------------------------------------
(***************************************************************************)
(* The platform with memrtl implements one physical memory.                *)
(***************************************************************************)

LEMMA ViewOf ==
  ASSUME NEW h \in Harts
  PROVE  /\ pc[h] \in {"step", "pause", "ended"} => View(h) = Idle
         /\ pc[h] = "uncore" => View(h) = Called(access[h])
         /\ pc[h] = "target" /\ target[h] = Called(Relative(access[h]))
              => View(h) = Called(access[h])
         /\ pc[h] = "wait" => View(h) = Rtl!Done(access[h], status[h], trans[h].data)
         /\ \A st, d : pc[h] = "target" /\ target[h] = Rtl!Done(Relative(access[h]), st, d)
              => View(h) = Rtl!Done(access[h], st, d)
BY DEF View, Called, Rtl!Done

(* The same after a step. *)
LEMMA ViewAfter ==
  ASSUME NEW h \in Harts
  PROVE  /\ pc'[h] \in {"step", "pause", "ended"} => View(h)' = Idle
         /\ pc'[h] = "uncore" => View(h)' = Called(access'[h])
         /\ pc'[h] = "target" /\ target'[h] = Called(Relative(access'[h]))
              => View(h)' = Called(access'[h])
         /\ pc'[h] = "wait" => View(h)' = Rtl!Done(access'[h], status'[h], trans'[h].data)
         /\ \A st, d : pc'[h] = "target" /\ target'[h] = Rtl!Done(Relative(access'[h]), st, d)
              => View(h)' = Rtl!Done(access'[h], st, d)
BY DEF View, Called, Rtl!Done

LEMMA OneHartMoves ==
  ASSUME NEW h \in Harts, \A g \in Harts \ {h} : View(g)' = View(g)
  PROVE  HartView' = [HartView EXCEPT ![h] = View(h)'] /\ HartView[h] = View(h)
BY DEF HartView

LEMMA ViewKept ==
  ASSUME NEW g \in Harts,
         pc'[g] = pc[g], access'[g] = access[g], trans'[g] = trans[g],
         status'[g] = status[g], target'[g] = target[g]
  PROVE  View(g)' = View(g)
BY DEF View

LEMMA MemoryKept ==
  ASSUME spike_ram' = spike_ram, extram' = extram
  PROVE  PhysicalView' = PhysicalView
BY DEF PhysicalView, BusByte

LEMMA ViewInit == Init => Physical!Init
<1>. SUFFICES ASSUME Init  PROVE Physical!Init
  OBVIOUS
<1>1. ASSUME NEW a \in Readable  PROVE PhysicalView[a] \in Byte
  <2>1. CASE a \in Backed
    BY <2>1 DEF PhysicalView, Backed, Init
  <2>2. CASE a \notin Backed /\ a \in Rom
    <3>1. a - default_rstvec \in 0 .. RomSize - 1
      BY <2>2, MapAssumption, IndexOf DEF Rom
    <3>. QED  BY <2>2, <3>1, MapAssumption DEF PhysicalView, BusByte
  <2>3. CASE a \notin Backed /\ a \notin Rom
    <3>1. a \in Ram
      BY <2>3 DEF Readable
    <3>2. a - spike_ram_memory_address \in 0 .. RamSize - 1
      BY <3>1, MapAssumption, IndexOf DEF Ram
    <3>. QED  BY <2>3, <3>2 DEF PhysicalView, BusByte, Init
  <2>. QED  BY <2>1, <2>2, <2>3
<1>2. PhysicalView \in [Readable -> Byte]
  BY <1>1 DEF PhysicalView
<1>3. HartView = [h \in Harts |-> Idle]
  BY ViewOf DEF Init, HartView
<1>. QED  BY <1>2, <1>3 DEF Physical!Init, Physical!Idle, Idle

(* A byte of an access to the window is a byte of the external RAM. *)
LEMMA BackedByte ==
  ASSUME NEW a \in Backed
  PROVE  a \in Readable /\ PhysicalView[a] = extram[a - extram_start_address]
BY DEF Readable, PhysicalView

LEMMA BusLoadView ==
  ASSUME IInv, NEW h \in Harts, BusLoad(h)
  PROVE  Physical!Read(h, access[h])
<1>. DEFINE c == access[h]
            d == [i \in 0 .. c.len - 1 |-> BusByte(c.addr + i)]
<1>1. pc[h] = "uncore" /\ c \in Calls /\ trans[h] = c
  BY DEF IInv, PlatformTypeOK, PayloadInv, AccessInv, BusLoad, In
<1>2. tlm_address_decode(c.addr) = "SPIKE_BUS" /\ c.cmd = READ
  BY <1>1 DEF BusLoad, In
<1>3. OnBus(Span(c)) /\ Span(c) \cap Backed = {} /\ Permitted(c)
  BY <1>1, <1>2, BusAccess
<1>4. /\ pc' = [pc EXCEPT ![h] = "wait"] /\ status' = [status EXCEPT ![h] = OK]
      /\ trans' = [trans EXCEPT ![h].data = d]
      /\ UNCHANGED <<access, spike_ram, extram, target>>
  BY <1>1, <1>3 DEF BusLoad, Answer
<1>5. trans'[h].data = d
  <2>1. c = [cmd |-> c.cmd, addr |-> c.addr, len |-> c.len, data |-> c.data]
    BY <1>1, CallFacts
  <2>2. trans'[h] = [c EXCEPT !.data = d]
    BY <1>1, <1>4 DEF IInv, PayloadInv
  <2>. HIDE DEF c, d
  <2>. QED  BY <2>1, <2>2
<1>6. View(h) = Called(c) /\ View(h)' = Rtl!Done(c, OK, d)
  <2>1. pc'[h] = "wait" /\ status'[h] = OK /\ access'[h] = c
    BY <1>4 DEF IInv, PlatformTypeOK
  <2>. QED  BY <1>1, <1>5, <2>1, ViewOf, ViewAfter
<1>7. HartView' = [HartView EXCEPT ![h] = View(h)'] /\ HartView[h] = View(h)
  <2>1. ASSUME NEW g \in Harts \ {h}  PROVE View(g)' = View(g)
    BY <1>4, ViewKept DEF IInv, PlatformTypeOK, PayloadInv
  <2>. QED  BY <2>1, OneHartMoves
<1>8. PhysicalView' = PhysicalView
  BY <1>4, MemoryKept
<1>9. d = [i \in 0 .. c.len - 1 |-> PhysicalView[c.addr + i]]
  <2>1. ASSUME NEW i \in 0 .. c.len - 1  PROVE BusByte(c.addr + i) = PhysicalView[c.addr + i]
    <3>1. c.addr + i \in Span(c)
      BY <1>1, CallFacts DEF Span
    <3>. QED  BY <1>2, <1>3, <3>1 DEF Permitted, PhysicalView
  <2>. QED  BY <2>1
<1>. QED
  BY <1>2, <1>3, <1>6, <1>7, <1>8, <1>9
  DEF Physical!Read, Physical!Fits, Physical!Span, Span, Permitted, Physical!Bytes,
      Physical!Called, Called, Physical!Done, Rtl!Done, Physical!OK, OK, Physical!READ, READ

LEMMA StoredView ==
  ASSUME NEW c \in Calls, Span(c) \subseteq Ram, Span(c) \cap Backed = {},
         spike_ram' = RamAfter(c), extram' = extram
  PROVE  PhysicalView' = [a \in Readable |-> IF a \in Span(c) THEN c.data[a - c.addr]
                                                              ELSE PhysicalView[a]]
<1>1. ASSUME NEW a \in Readable
      PROVE  PhysicalView'[a] = IF a \in Span(c) THEN c.data[a - c.addr] ELSE PhysicalView[a]
  <2>1. CASE a \in Backed
    BY <2>1 DEF PhysicalView
  <2>2. CASE a \notin Backed /\ a \in Rom
    <3>1. a \notin Span(c)
      BY <2>2, MapAssumption
    <3>. QED  BY <2>2, <3>1 DEF PhysicalView, BusByte
  <2>3. CASE a \notin Backed /\ a \notin Rom
    <3>1. a \in Ram
      BY <2>3 DEF Readable
    <3>. DEFINE i == a - spike_ram_memory_address
    <3>2. i \in 0 .. RamSize - 1 /\ spike_ram_memory_address + i = a
      BY <3>1, MapAssumption, IndexOf DEF Ram
    <3>3. PhysicalView'[a] = spike_ram'[i] /\ PhysicalView[a] = spike_ram[i]
      BY <2>3 DEF PhysicalView, BusByte
    <3>. HIDE DEF i
    <3>4. RamAfter(c)[i] = IF a \in Span(c) THEN c.data[a - c.addr] ELSE spike_ram[i]
      BY <3>2 DEF RamAfter
    <3>. QED  BY <3>3, <3>4
  <2>. QED  BY <2>1, <2>2, <2>3
<1>. QED  BY <1>1 DEF PhysicalView

LEMMA BusStoreView ==
  ASSUME IInv, NEW h \in Harts, BusStore(h)
  PROVE  Physical!Write(h, access[h]) \/ Physical!Refuse(h, access[h])
<1>. DEFINE c == access[h]
            st == IF Span(c) \subseteq Ram THEN OK ELSE ERROR
<1>1. pc[h] = "uncore" /\ c \in Calls /\ trans[h] = c
  BY DEF IInv, PlatformTypeOK, PayloadInv, AccessInv, BusStore, In
<1>2. tlm_address_decode(c.addr) = "SPIKE_BUS" /\ c.cmd = WRITE
  BY <1>1 DEF BusStore, In
<1>3. Span(c) \cap Backed = {} /\ (Span(c) \subseteq Ram <=> Permitted(c))
  BY <1>1, <1>2, BusAccess
<1>4. /\ pc' = [pc EXCEPT ![h] = "wait"] /\ status' = [status EXCEPT ![h] = st]
      /\ spike_ram' = IF Span(c) \subseteq Ram THEN RamAfter(c) ELSE spike_ram
      /\ UNCHANGED <<access, trans, extram, target>>
  BY <1>1 DEF BusStore, Answer
<1>5. View(h) = Called(c) /\ View(h)' = Rtl!Done(c, st, c.data)
  <2>1. pc'[h] = "wait" /\ status'[h] = st /\ access'[h] = c /\ trans'[h] = c
    BY <1>1, <1>4 DEF IInv, PlatformTypeOK
  <2>. QED  BY <1>1, <2>1, ViewOf, ViewAfter
<1>6. HartView' = [HartView EXCEPT ![h] = View(h)'] /\ HartView[h] = View(h)
  <2>1. ASSUME NEW g \in Harts \ {h}  PROVE View(g)' = View(g)
    BY <1>4, ViewKept DEF IInv, PlatformTypeOK
  <2>. QED  BY <2>1, OneHartMoves
<1>7. CASE Span(c) \subseteq Ram
  <2>1. PhysicalView' = [a \in Readable |-> IF a \in Span(c) THEN c.data[a - c.addr]
                                                             ELSE PhysicalView[a]]
    BY <1>1, <1>3, <1>4, <1>7, StoredView
  <2>. QED
    BY <1>2, <1>3, <1>5, <1>6, <1>7, <2>1
    DEF Physical!Write, Physical!Fits, Physical!Span, Span, Permitted, Physical!Called, Called,
        Physical!Done, Rtl!Done, Physical!OK, OK, Physical!WRITE, WRITE, Physical!READ, READ
<1>8. CASE ~(Span(c) \subseteq Ram)
  <2>1. PhysicalView' = PhysicalView
    BY <1>4, <1>8, MemoryKept
  <2>. QED
    BY <1>3, <1>5, <1>6, <1>8, <2>1
    DEF Physical!Refuse, Physical!Fits, Physical!Span, Span, Permitted, Physical!Called, Called,
        Physical!Done, Rtl!Done, Physical!ERROR, ERROR, Physical!READ, READ
<1>. QED  BY <1>7, <1>8

LEMMA UnknownView ==
  ASSUME IInv, NEW h \in Harts, UnknownDevice(h)
  PROVE  Physical!Refuse(h, access[h])
<1>. DEFINE c == access[h]
<1>1. pc[h] = "uncore" /\ c \in Calls /\ trans[h] = c
  BY DEF IInv, PlatformTypeOK, PayloadInv, AccessInv, UnknownDevice, In
<1>2. ~Permitted(c)
  BY <1>1, UnknownAccess DEF UnknownDevice, In
<1>3. /\ pc' = [pc EXCEPT ![h] = "wait"] /\ status' = [status EXCEPT ![h] = ERROR]
      /\ UNCHANGED <<access, trans, spike_ram, extram, target>>
  BY DEF UnknownDevice, Answer
<1>4. View(h) = Called(c) /\ View(h)' = Rtl!Done(c, ERROR, c.data)
  <2>1. pc'[h] = "wait" /\ status'[h] = ERROR /\ access'[h] = c /\ trans'[h] = c
    BY <1>1, <1>3 DEF IInv, PlatformTypeOK
  <2>. QED  BY <1>1, <2>1, ViewOf, ViewAfter
<1>5. HartView' = [HartView EXCEPT ![h] = View(h)'] /\ HartView[h] = View(h)
  <2>1. ASSUME NEW g \in Harts \ {h}  PROVE View(g)' = View(g)
    BY <1>3, ViewKept DEF IInv, PlatformTypeOK
  <2>. QED  BY <2>1, OneHartMoves
<1>6. PhysicalView' = PhysicalView
  BY <1>3, MemoryKept
<1>. QED
  BY <1>2, <1>4, <1>5, <1>6
  DEF Physical!Refuse, Physical!Fits, Physical!Span, Span, Permitted, Physical!Called, Called,
      Physical!Done, Rtl!Done, Physical!ERROR, ERROR, Physical!READ, READ

(* The way into the window and out of it is not seen by the hart. *)
LEMMA ToExtramView ==
  ASSUME IInv, NEW h \in Harts, ToExtram(h)
  PROVE  PhysicalView' = PhysicalView /\ HartView' = HartView
<1>1. pc[h] = "uncore" /\ trans[h] = access[h]
  BY DEF IInv, PayloadInv, AccessInv, ToExtram, In
<1>2. /\ pc' = [pc EXCEPT ![h] = "target"]
      /\ trans' = [trans EXCEPT ![h] = Relative(access[h])]
      /\ target' = [target EXCEPT ![h] = Called(Relative(access[h]))]
      /\ UNCHANGED <<access, status, spike_ram, extram>>
  BY <1>1 DEF ToExtram
<1>3. View(h)' = View(h)
  <2>1. /\ pc'[h] = "target" /\ access'[h] = access[h]
        /\ target'[h] = Called(Relative(access'[h]))
    BY <1>2 DEF IInv, PlatformTypeOK, PayloadInv
  <2>. QED  BY <1>1, <2>1, ViewOf, ViewAfter
<1>4. ASSUME NEW g \in Harts \ {h}  PROVE View(g)' = View(g)
  BY <1>2, ViewKept DEF IInv, PlatformTypeOK, PayloadInv
<1>. QED  BY <1>2, <1>3, <1>4, MemoryKept DEF HartView

LEMMA FromExtramView ==
  ASSUME IInv, NEW h \in Harts, FromExtram(h)
  PROVE  PhysicalView' = PhysicalView /\ HartView' = HartView
<1>. DEFINE c == access[h]
<1>1. pc[h] = "target" /\ c \in Calls /\ trans[h] = Relative(c) /\ Answered(h)
      /\ tlm_address_decode(c.addr) = "EXTRAM"
  BY DEF IInv, PlatformTypeOK, PayloadInv, AccessInv, FromExtram, Called
<1>2. PICK st \in {OK, ERROR}, d \in Buffer(c) : target[h] = Rtl!Done(Relative(c), st, d)
  BY <1>1 DEF Answered
<1>3. target[h].status = st /\ target[h].data = d
  BY <1>2 DEF Rtl!Done
<1>4. /\ pc' = [pc EXCEPT ![h] = "wait"] /\ status' = [status EXCEPT ![h] = st]
      /\ trans' = [trans EXCEPT ![h].data = d] /\ target' = [target EXCEPT ![h] = Idle]
      /\ UNCHANGED <<access, spike_ram, extram>>
  BY <1>3 DEF FromExtram, Answer
<1>5. trans'[h].data = d
  <2>1. trans'[h] = [Relative(c) EXCEPT !.data = d]
    BY <1>1, <1>4 DEF IInv, PayloadInv
  <2>. HIDE DEF c
  <2>. QED  BY <1>1, <2>1, RelativeCall
<1>6. View(h)' = View(h)
  <2>1. pc'[h] = "wait" /\ access'[h] = c /\ status'[h] = st
    BY <1>4 DEF IInv, PlatformTypeOK
  <2>. QED  BY <1>1, <1>2, <1>5, <2>1, ViewOf, ViewAfter
<1>7. ASSUME NEW g \in Harts \ {h}  PROVE View(g)' = View(g)
  BY <1>4, ViewKept DEF IInv, PlatformTypeOK, PayloadInv
<1>. QED  BY <1>4, <1>6, <1>7, MemoryKept DEF HartView

(* A write to the window is a write to the physical memory. *)
LEMMA WindowWriteView ==
  ASSUME NEW c \in Calls, tlm_address_decode(c.addr) = "EXTRAM", Permitted(c),
         spike_ram' = spike_ram,
         extram' = [a \in Addr |-> IF a \in Rtl!Span(Relative(c))
                                     THEN c.data[a - Relative(c).addr] ELSE extram[a]]
  PROVE  PhysicalView' = [a \in Readable |-> IF a \in Span(c) THEN c.data[a - c.addr]
                                                              ELSE PhysicalView[a]]
<1>1. Relative(c).addr = c.addr - extram_start_address /\ Relative(c).len = c.len
  BY RelativeCall
<1>2. c.addr \in Nat /\ c.len \in Nat /\ extram_start_address \in Nat
      /\ Span(c) \subseteq Backed
  BY CallFacts, MapAssumption, WindowAccess
<1>3. ASSUME NEW a \in Readable
      PROVE  PhysicalView'[a] = IF a \in Span(c) THEN c.data[a - c.addr] ELSE PhysicalView[a]
  <2>1. CASE a \in Backed
    <3>. DEFINE e == a - extram_start_address
    <3>1. e \in Addr /\ PhysicalView'[a] = extram'[e] /\ PhysicalView[a] = extram[e]
      BY <2>1, BackedByte DEF Backed, PhysicalView
    <3>2. /\ e \in Rtl!Span(Relative(c)) <=> a \in Span(c)
          /\ e - (c.addr - extram_start_address) = a - c.addr
      <4>1. a \in Nat
        BY <2>1, <1>2 DEF Backed, Extram
      <4>2. Rtl!Span(Relative(c)) = (c.addr - extram_start_address)
                                      .. (c.addr - extram_start_address) + c.len - 1
        BY <1>1 DEF Rtl!Span
      <4>3. Span(c) = c.addr .. c.addr + c.len - 1
        BY DEF Span
      <4>. QED  BY <1>2, <4>1, <4>2, <4>3
    <3>. HIDE DEF e
    <3>3. extram'[e] = IF e \in Rtl!Span(Relative(c)) THEN c.data[e - Relative(c).addr]
                                                      ELSE extram[e]
      BY <3>1
    <3>. QED  BY <1>1, <3>1, <3>2, <3>3
  <2>2. CASE a \notin Backed
    <3>1. a \notin Span(c)
      BY <1>2, <2>2
    <3>. QED  BY <2>2, <3>1 DEF PhysicalView, BusByte
  <2>. QED  BY <2>1, <2>2
<1>. QED  BY <1>3 DEF PhysicalView

(* memmodel indexes its bytes by the loop counter alone, which is the address
   within the window only for an access that starts at the base. *)
FromBase == \A c \in Calls :
  tlm_address_decode(c.addr) = "EXTRAM" /\ Permitted(c) => c.addr = extram_start_address

(* Then memmodel does to its bytes what memrtl does. *)
LEMMA ModelActsAsRtl ==
  ASSUME FromBase, NEW h \in Harts, NEW c \in Calls, tlm_address_decode(c.addr) = "EXTRAM",
         target[h] = Called(Relative(c)), Functional!b_transport(h)
  PROVE  LET r == Relative(c) IN Rtl!Refuse(h, r) \/ Rtl!Read(h, r) \/ Rtl!Write(h, r)
<1>. DEFINE r == Relative(c)
<1>1. target[h].call = r /\ target[h] = Rtl!Called(r)
  BY DEF Called, Rtl!Called
<1>2. (Rtl!Fits(r) <=> Permitted(c)) /\ (Functional!ModelInRange(r) <=> Permitted(c))
  BY RtlFits, ModelFits
<1>3. r.len \in Nat \ {0} /\ (Permitted(c) => r.addr = 0)
  BY RelativeCall, CallFacts, MapAssumption DEF FromBase
<1>4. \A st, d : Functional!Done(r, st, d) = Rtl!Done(r, st, d)
  BY DEF Functional!Done, Rtl!Done
<1>5. /\ Functional!OK = Rtl!OK /\ Functional!ERROR = Rtl!ERROR
      /\ Functional!READ = Rtl!READ /\ Functional!WRITE = Rtl!WRITE
  BY DEF Functional!OK, Rtl!OK, Functional!ERROR, Rtl!ERROR, Functional!READ, Rtl!READ,
         Functional!WRITE, Rtl!WRITE
<1>6. \/ /\ ~Functional!ModelInRange(r)
         /\ target' = [target EXCEPT ![h] = Functional!Done(r, Functional!ERROR, r.data)]
         /\ extram' = extram
      \/ /\ Functional!ModelInRange(r) /\ r.cmd = Functional!READ
         /\ target' = [target EXCEPT
                         ![h] = Functional!Done(r, Functional!OK, Functional!Loaded(r))]
         /\ extram' = extram
      \/ /\ Functional!ModelInRange(r) /\ r.cmd = Functional!WRITE
         /\ extram' = Functional!Stored(r)
         /\ target' = [target EXCEPT ![h] = Functional!Done(r, Functional!OK, r.data)]
  BY <1>1 DEF Functional!b_transport
<1>7. r.addr = 0 =>
        /\ Functional!Loaded(r) = [i \in Rtl!Bytes(r) |-> extram[r.addr + i]]
        /\ Functional!Stored(r) = [a \in Addr |-> IF a \in Rtl!Span(r) THEN r.data[a - r.addr]
                                                                    ELSE extram[a]]
  <2>. SUFFICES ASSUME r.addr = 0
                PROVE  /\ Functional!Loaded(r) = [i \in Rtl!Bytes(r) |-> extram[r.addr + i]]
                       /\ Functional!Stored(r) =
                            [a \in Addr |-> IF a \in Rtl!Span(r) THEN r.data[a - r.addr]
                                                                ELSE extram[a]]
    OBVIOUS
  <2>. HIDE DEF r
  <2>1. \A i \in 0 .. r.len - 1 : r.addr + i = i
    BY <1>3
  <2>2. \A a \in Addr : (a \in r.addr .. r.addr + r.len - 1 <=> a < r.len) /\ a - r.addr = a
    BY <1>3, MemoryAssumption DEF Addr
  <2>3. Functional!Loaded(r) = [i \in Rtl!Bytes(r) |-> extram[r.addr + i]]
    BY <2>1 DEF Functional!Loaded, Rtl!Bytes
  <2>4. Functional!Stored(r) = [a \in Addr |-> IF a \in Rtl!Span(r) THEN r.data[a - r.addr]
                                                                  ELSE extram[a]]
    BY <2>2 DEF Functional!Stored, Functional!Addr, Addr, Rtl!Span
  <2>. QED  BY <2>3, <2>4
<1>. HIDE DEF r
<1>. SUFFICES Rtl!Refuse(h, r) \/ Rtl!Read(h, r) \/ Rtl!Write(h, r)
  BY DEF r
<1>. QED
  BY <1>1, <1>2, <1>3, <1>4, <1>5, <1>6, <1>7 DEF Rtl!Refuse, Rtl!Read, Rtl!Write

LEMMA ExternalRamView ==
  ASSUME IInv, UseMemRtl \/ FromBase, NEW h \in Harts, ExternalRam(h)
  PROVE  LET c == access[h]
         IN Physical!Refuse(h, c) \/ Physical!Read(h, c) \/ Physical!Write(h, c)
<1>. DEFINE c == access[h]
            r == Relative(c)
<1>1. /\ pc[h] = "target" /\ target[h] = Called(r)
      /\ UNCHANGED <<spike_ram, hartVars, running_threads_counter, main, bitbang>>
  BY ExternalRamAnswers DEF IInv
<1>2. c \in Calls /\ tlm_address_decode(c.addr) = "EXTRAM" /\ target[h].call = r
  BY <1>1 DEF IInv, PayloadInv, AccessInv, PlatformTypeOK, Called
<1>3. /\ r.cmd = c.cmd /\ r.addr = c.addr - extram_start_address
      /\ r.len = c.len /\ r.data = c.data
  BY <1>2, RelativeCall
<1>4. Rtl!Fits(r) <=> Permitted(c)
  BY <1>2, RtlFits
<1>5. /\ View(h) = Called(c)
      /\ \A st, d : target' = [target EXCEPT ![h] = Rtl!Done(r, st, d)]
                      => View(h)' = Rtl!Done(c, st, d)
  <2>1. View(h) = Called(c)
    BY <1>1, ViewOf
  <2>2. ASSUME NEW st, NEW d, target' = [target EXCEPT ![h] = Rtl!Done(r, st, d)]
        PROVE  View(h)' = Rtl!Done(c, st, d)
    <3>1. pc'[h] = "target" /\ access'[h] = c /\ target'[h] = Rtl!Done(Relative(access'[h]), st, d)
      BY <1>1, <2>2 DEF hartVars, IInv, PayloadInv
    <3>. QED  BY <3>1, ViewAfter
  <2>. QED  BY <2>1, <2>2
<1>6. /\ HartView[h] = View(h)
      /\ \A x : target' = [target EXCEPT ![h] = x]
                  => HartView' = [HartView EXCEPT ![h] = View(h)']
  <2>1. ASSUME NEW x, target' = [target EXCEPT ![h] = x]
        PROVE  HartView' = [HartView EXCEPT ![h] = View(h)']
    <3>1. ASSUME NEW g \in Harts \ {h}  PROVE View(g)' = View(g)
      BY <1>1, <2>1, ViewKept DEF IInv, PayloadInv, hartVars
    <3>. QED  BY <3>1, OneHartMoves
  <2>. QED  BY <2>1 DEF HartView
<1>7. Rtl!Refuse(h, r) \/ Rtl!Read(h, r) \/ Rtl!Write(h, r)
  <2>1. CASE UseMemRtl
    BY <1>2, <2>1 DEF ExternalRam
  <2>2. CASE ~UseMemRtl
    BY <1>1, <1>2, <2>2, ModelActsAsRtl DEF ExternalRam
  <2>. QED  BY <2>1, <2>2
<1>8. Physical!Fits(c) <=> Permitted(c)
  BY DEF Physical!Fits, Physical!Span, Span, Permitted, Physical!READ, READ
<1>. HIDE DEF c, r
<1>9. CASE Rtl!Refuse(h, r)
  <2>1. /\ extram' = extram /\ ~Permitted(c)
        /\ target' = [target EXCEPT ![h] = Rtl!Done(r, ERROR, c.data)]
    BY <1>3, <1>4, <1>9 DEF Rtl!Refuse, Rtl!ERROR, ERROR
  <2>2. PhysicalView' = PhysicalView
    BY <1>1, <2>1, MemoryKept
  <2>3. HartView' = [HartView EXCEPT ![h] = Rtl!Done(c, ERROR, c.data)]
        /\ HartView[h] = Called(c)
    BY <1>5, <1>6, <2>1
  <2>. QED
    BY <1>8, <2>1, <2>2, <2>3
    DEF Physical!Refuse, Physical!Called, Called, Physical!Done, Rtl!Done, Physical!ERROR, ERROR, c
<1>10. CASE Rtl!Read(h, r)
  <2>. DEFINE d == [i \in 0 .. c.len - 1 |-> extram[r.addr + i]]
  <2>1. /\ extram' = extram /\ Permitted(c) /\ c.cmd = READ
        /\ target' = [target EXCEPT ![h] = Rtl!Done(r, OK, d)]
    BY <1>3, <1>4, <1>10 DEF Rtl!Read, Rtl!Bytes, Rtl!OK, OK, Rtl!READ, READ
  <2>2. PhysicalView' = PhysicalView
    BY <1>1, <2>1, MemoryKept
  <2>3. HartView' = [HartView EXCEPT ![h] = Rtl!Done(c, OK, d)] /\ HartView[h] = Called(c)
    BY <1>5, <1>6, <2>1
  <2>4. ASSUME NEW i \in 0 .. c.len - 1
        PROVE  extram[r.addr + i] = PhysicalView[c.addr + i]
    <3>1. c.addr \in Nat /\ c.len \in Nat /\ c.addr + i \in Span(c)
      BY <1>2, CallFacts DEF Span
    <3>2. c.addr + i \in Backed
      BY <1>2, <2>1, <3>1, WindowAccess
    <3>3. (c.addr + i) - extram_start_address = r.addr + i
      BY <1>3, <3>1, MapAssumption
    <3>. QED  BY <3>2, <3>3, BackedByte
  <2>5. d = [i \in 0 .. c.len - 1 |-> PhysicalView[c.addr + i]]
    BY <2>4
  <2>. QED
    BY <1>8, <2>1, <2>2, <2>3, <2>5
    DEF Physical!Read, Physical!Bytes, Physical!Called, Called, Physical!Done, Rtl!Done,
        Physical!OK, OK, Physical!READ, READ, c
<1>11. CASE Rtl!Write(h, r)
  <2>1. /\ Permitted(c) /\ c.cmd = WRITE
        /\ target' = [target EXCEPT ![h] = Rtl!Done(r, OK, c.data)]
        /\ extram' = [a \in Addr |-> IF a \in Rtl!Span(r) THEN c.data[a - r.addr] ELSE extram[a]]
    BY <1>3, <1>4, <1>11 DEF Rtl!Write, Rtl!OK, OK, Rtl!WRITE, WRITE
  <2>2. PhysicalView' = [a \in Readable |-> IF a \in Span(c) THEN c.data[a - c.addr]
                                                             ELSE PhysicalView[a]]
    BY <1>1, <1>2, <2>1, WindowWriteView DEF r
  <2>3. HartView' = [HartView EXCEPT ![h] = Rtl!Done(c, OK, c.data)] /\ HartView[h] = Called(c)
    BY <1>5, <1>6, <2>1
  <2>. QED
    BY <1>8, <2>1, <2>2, <2>3
    DEF Physical!Write, Physical!Span, Span, Physical!Called, Called, Physical!Done, Rtl!Done,
        Physical!OK, OK, Physical!WRITE, WRITE, c
<1>. QED  BY <1>7, <1>9, <1>10, <1>11 DEF c

(* Everything else on the thread of a hart: it enters with a call, comes back
   with an answer, and is idle in between. *)
LEMMA MmioView ==
  ASSUME IInv, NEW h \in Harts, NEW c \in Calls, Mmio(h, c)
  PROVE  Physical!Invoke(h, c)
<1>1. /\ pc' = [pc EXCEPT ![h] = "uncore"] /\ access' = [access EXCEPT ![h] = c]
      /\ trans' = [trans EXCEPT ![h] = c] /\ status' = [status EXCEPT ![h] = INCOMPLETE]
      /\ pc[h] = "step" /\ UNCHANGED <<spike_ram, extram, target>>
  BY DEF Mmio
<1>2. View(h) = Idle /\ View(h)' = Called(c)
  <2>1. pc'[h] = "uncore" /\ access'[h] = c
    BY <1>1 DEF IInv, PlatformTypeOK
  <2>. QED  BY <1>1, <2>1, ViewOf, ViewAfter
<1>3. HartView' = [HartView EXCEPT ![h] = View(h)'] /\ HartView[h] = View(h)
  <2>1. ASSUME NEW g \in Harts \ {h}  PROVE View(g)' = View(g)
    BY <1>1, ViewKept DEF IInv, PlatformTypeOK, PayloadInv
  <2>. QED  BY <2>1, OneHartMoves
<1>. QED
  BY <1>1, <1>2, <1>3, MemoryKept
  DEF Physical!Invoke, Physical!Idle, Idle, Physical!Called, Called

LEMMA MmioReturnView ==
  ASSUME IInv, NEW h \in Harts, MmioReturn(h)
  PROVE  Physical!Return(h)
<1>1. /\ pc[h] = "wait" /\ pc' = [pc EXCEPT ![h] = pc'[h]] /\ pc'[h] \in {"step", "pause"}
      /\ UNCHANGED <<access, trans, status, spike_ram, extram, target>>
  BY DEF MmioReturn, IInv, PlatformTypeOK
<1>2. View(h).phase = "done" /\ View(h)' = Idle
  BY <1>1, ViewOf, ViewAfter DEF Rtl!Done
<1>3. HartView' = [HartView EXCEPT ![h] = View(h)'] /\ HartView[h] = View(h)
  <2>1. ASSUME NEW g \in Harts \ {h}  PROVE View(g)' = View(g)
    BY <1>1, ViewKept DEF IInv, PlatformTypeOK
  <2>. QED  BY <2>1, OneHartMoves
<1>. QED  BY <1>1, <1>2, <1>3, MemoryKept DEF Physical!Return, Physical!Idle, Idle

LEMMA IdleView ==
  ASSUME IInv,
         UNCHANGED <<access, trans, status, spike_ram, extram, target>>,
         \A h \in Harts : \/ pc'[h] = pc[h]
                          \/ pc[h] \in {"step", "pause"} /\ pc'[h] \in {"step", "pause", "ended"}
  PROVE  PhysicalView' = PhysicalView /\ HartView' = HartView
<1>1. ASSUME NEW h \in Harts  PROVE View(h)' = View(h)
  <2>1. CASE pc'[h] = pc[h]
    BY <2>1, ViewKept
  <2>2. CASE pc[h] \in {"step", "pause"} /\ pc'[h] \in {"step", "pause", "ended"}
    BY <2>2, ViewOf, ViewAfter
  <2>. QED  BY <2>1, <2>2
<1>. QED  BY <1>1, MemoryKept DEF HartView

(* Decode, bus, window and external RAM together are one physical memory for
   all harts: an access, whatever its place and its interleaving with the
   others, takes effect at one point on exactly the bytes its own address
   names, or is refused without effect.  With memrtl behind the window that
   holds of every program; with memmodel, of the programs that use what
   stands behind the window from its base only. *)
THEOREM OnePhysicalMemory ==
  ASSUME UseMemRtl \/ FromBase
  PROVE  Spec => ImplementsPhysicalMemory
<1>1. Init => Physical!Init
  BY ViewInit
<1>2. ASSUME IInv, [Next]_vars  PROVE [Physical!Next]_Physical!mvars
  <2>1. ASSUME NEW h \in Harts, b_transport(h)  PROVE [Physical!Next]_Physical!mvars
    <3>1. access[h] \in Calls
      BY <1>2, <2>1 DEF IInv, PlatformTypeOK, b_transport, BusLoad, BusStore, ToExtram, FromExtram,
                        UnknownDevice, In
    <3>. QED
      BY <1>2, <2>1, <3>1, BusLoadView, BusStoreView, ToExtramView, FromExtramView, UnknownView
      DEF b_transport, Physical!Next, Physical!mvars
  <2>2. ASSUME NEW h \in Harts, ExternalRam(h)  PROVE [Physical!Next]_Physical!mvars
    <3>1. access[h] \in Calls
      BY <1>2, <2>2, ExternalRamAnswers DEF IInv, PlatformTypeOK
    <3>. QED  BY <1>2, <2>2, <3>1, ExternalRamView DEF Physical!Next
  <2>3. ASSUME NEW h \in Harts, MmioReturn(h)  PROVE [Physical!Next]_Physical!mvars
    BY <1>2, <2>3, MmioReturnView DEF Physical!Next
  <2>4. ASSUME NEW h \in Harts, UncoreAccess(h)  PROVE [Physical!Next]_Physical!mvars
    BY <1>2, <2>4, MmioView DEF UncoreAccess, Physical!Next
  <2>5. CASE \/ \E h \in Harts : Loop(h) \/ EndStep(h) \/ LocalAccess(h)
             \/ \E h \in DebugHarts : BitbangThread(h)
             \/ Stop \/ UNCHANGED vars
    <3>1. /\ UNCHANGED <<access, trans, status, spike_ram, extram, target>>
          /\ \A h \in Harts : \/ pc'[h] = pc[h]
                              \/ /\ pc[h] \in {"step", "pause"}
                                 /\ pc'[h] \in {"step", "pause", "ended"}
      BY <1>2, <2>5
      DEF Loop, EndStep, LocalAccess, BitbangThread, Stop, vars, memVars, hartVars, IInv, PlatformTypeOK
    <3>. QED  BY <1>2, <3>1, IdleView DEF Physical!mvars
  <2>. QED
    BY <1>2, <2>1, <2>2, <2>3, <2>4, <2>5 DEF Next, Returned, HartThread
<1>. QED
  BY <1>1, <1>2, Invariance, PTL DEF Spec, ImplementsPhysicalMemory, Physical!Spec
=============================================================================
