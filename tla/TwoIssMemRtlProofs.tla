------------------------- MODULE TwoIssMemRtlProofs -------------------------
(***************************************************************************)
(* Proofs about TwoIssMemRtl: what is proved of the pins, of b_transport   *)
(* and of the platform with an indivisible memory holds of the whole.      *)
(***************************************************************************)
EXTENDS TwoIssMemRtl, MemRtlProofs, FiniteSetTheorems

(* The same instance of TwoIss, with what is proved of it. *)
Proved == INSTANCE TwoIssProofs WITH
  Harts <- Threads, Calls <- Accesses, DebugHarts <- {}, UseMemRtl <- TRUE,
  pc <- hart_pc, status <- hart_status, extram <- MemView, target <- TargetView,
  bitbang <- [h \in {} |-> "running"]

(* The threads have their place in b_transport, the harts theirs in TwoIss. *)
JointInv == IInv /\ Proved!IInv
-----------------------------------------------------------------------------
(***************************************************************************)
(* The two instances say the same.                                         *)
(***************************************************************************)

LEMMA SameBus ==
  ASSUME NEW h \in Threads
  PROVE  /\ Platform!BusLoad(h) <=> Proved!BusLoad(h)
         /\ Platform!BusStore(h) <=> Proved!BusStore(h)
         /\ Platform!UnknownDevice(h) <=> Proved!UnknownDevice(h)
<1>1. Platform!BusLoad(h) <=> Proved!BusLoad(h)
  BY DEF Platform!BusLoad, Proved!BusLoad, Platform!In, Proved!In,
         Platform!tlm_address_decode, Proved!tlm_address_decode, Platform!Answer, Proved!Answer,
         Platform!Page, Proved!Page, Platform!OnBus, Proved!OnBus, Platform!Rom, Proved!Rom,
         Platform!Ram, Proved!Ram, Platform!Extram, Proved!Extram, Platform!Span, Proved!Span,
         Platform!BusByte, Proved!BusByte, Platform!READ, Proved!READ,
         Platform!OK, Proved!OK, Platform!ERROR, Proved!ERROR
<1>2. Platform!BusStore(h) <=> Proved!BusStore(h)
  BY DEF Platform!BusStore, Proved!BusStore, Platform!In, Proved!In,
         Platform!tlm_address_decode, Proved!tlm_address_decode, Platform!Answer, Proved!Answer,
         Platform!Page, Proved!Page, Platform!OnBus, Proved!OnBus, Platform!Rom, Proved!Rom,
         Platform!Ram, Proved!Ram, Platform!Extram, Proved!Extram, Platform!Span, Proved!Span,
         Platform!RamAfter, Proved!RamAfter, Platform!WRITE, Proved!WRITE,
         Platform!OK, Proved!OK, Platform!ERROR, Proved!ERROR
<1>3. Platform!UnknownDevice(h) <=> Proved!UnknownDevice(h)
  BY DEF Platform!UnknownDevice, Proved!UnknownDevice, Platform!In, Proved!In,
         Platform!tlm_address_decode, Proved!tlm_address_decode, Platform!Answer, Proved!Answer,
         Platform!Page, Proved!Page, Platform!OnBus, Proved!OnBus, Platform!Rom, Proved!Rom,
         Platform!Ram, Proved!Ram, Platform!Extram, Proved!Extram, Platform!ERROR, Proved!ERROR
<1>. QED  BY <1>1, <1>2, <1>3

LEMMA SameWindow ==
  ASSUME NEW h \in Threads
  PROVE  /\ Platform!ToExtram(h) <=> Proved!ToExtram(h)
         /\ Platform!FromExtram(h) <=> Proved!FromExtram(h)
         /\ Platform!ExternalRam(h) <=> Proved!ExternalRam(h)
<1>1. Platform!ToExtram(h) <=> Proved!ToExtram(h)
  BY DEF Platform!ToExtram, Proved!ToExtram, Platform!Relative, Proved!Relative,
         Platform!Called, Proved!Called, Platform!In, Proved!In,
         Platform!tlm_address_decode, Proved!tlm_address_decode, Platform!Page,
         Proved!Page, Platform!OnBus, Proved!OnBus, Platform!Rom, Proved!Rom,
         Platform!Ram, Proved!Ram, Platform!Extram, Proved!Extram
<1>2. Platform!FromExtram(h) <=> Proved!FromExtram(h)
  BY DEF Platform!FromExtram, Proved!FromExtram, Platform!Idle, Proved!Idle,
         Platform!Answer, Proved!Answer
<1>3. Platform!ExternalRam(h) <=> Proved!ExternalRam(h)
  BY DEF Platform!ExternalRam, Proved!ExternalRam, Platform!hartVars, Proved!hartVars,
         Platform!Rtl!Refuse, Proved!Rtl!Refuse, Platform!Rtl!Read, Proved!Rtl!Read,
         Platform!Rtl!Write, Proved!Rtl!Write, Platform!Rtl!Fits, Proved!Rtl!Fits,
         Platform!Rtl!Span, Proved!Rtl!Span, Platform!Rtl!Bytes, Proved!Rtl!Bytes,
         Platform!Rtl!Called, Proved!Rtl!Called, Platform!Rtl!Done, Proved!Rtl!Done,
         Platform!Rtl!OK, Proved!Rtl!OK, Platform!Rtl!ERROR, Proved!Rtl!ERROR,
         Platform!Rtl!READ, Proved!Rtl!READ, Platform!Rtl!WRITE, Proved!Rtl!WRITE,
         Platform!Addr, Proved!Addr
<1>. QED  BY <1>1, <1>2, <1>3

LEMMA SameSpike ==
  ASSUME NEW h \in Threads
  PROVE  /\ Platform!MmioReturn(h) <=> Proved!MmioReturn(h)
         /\ Platform!Loop(h) <=> Proved!Loop(h)
         /\ Platform!EndStep(h) <=> Proved!EndStep(h)
         /\ \A c \in Accesses : Platform!Mmio(h, c) <=> Proved!Mmio(h, c)
         /\ Platform!UncoreAccess(h) <=> Proved!UncoreAccess(h)
         /\ Platform!LocalAccess(h) <=> Proved!LocalAccess(h)
  BY DEF Platform!MmioReturn, Proved!MmioReturn, Platform!Loop, Proved!Loop,
         Platform!EndStep, Proved!EndStep, Platform!Mmio, Proved!Mmio,
         Platform!UncoreAccess, Proved!UncoreAccess, Platform!LocalAccess,
         Proved!LocalAccess, Platform!Local, Proved!Local, Platform!LocalBus,
         Proved!LocalBus, Platform!Page, Proved!Page, Platform!OK, Proved!OK,
         Platform!ERROR, Proved!ERROR, Platform!INCOMPLETE, Proved!INCOMPLETE

LEMMA SameInit == Platform!Init <=> Proved!Init
  BY DEF Platform!Init, Proved!Init, Platform!Idle, Proved!Idle, Platform!INCOMPLETE,
         Proved!INCOMPLETE, Platform!Addr, Proved!Addr, Platform!Cardinality,
         Proved!Cardinality, Platform!IsFiniteSet, Proved!IsFiniteSet

(* What TwoIss assumes of its constants holds of the platform with the pins. *)
LEMMA AssumptionsHold ==
  /\ MaxAddr \in Nat /\ 0 \in Byte
  /\ /\ NoCall \notin Accesses
     /\ \A c \in Accesses :
          /\ c = [cmd |-> c.cmd, addr |-> c.addr, len |-> c.len, data |-> c.data]
          /\ c.cmd \in Proved!Cmd /\ c.addr \in Nat /\ c.len \in Nat \ {0}
          /\ c.data \in [0 .. c.len - 1 -> Byte]
          /\ Proved!Span(c) \subseteq Proved!Page(c.addr)
  /\ /\ default_rstvec \in Nat /\ RomSize \in Nat /\ boot_rom \in [0 .. RomSize - 1 -> Byte]
     /\ spike_ram_memory_address \in Nat /\ RamSize \in Nat
     /\ extram_start_address \in Nat /\ extram_end_address \in Nat
     /\ Proved!Rom \cap Proved!Ram = {} /\ (Proved!Rom \cup Proved!Ram) \cap Proved!Extram = {}
     /\ \A c \in Accesses :
          \A R \in {Proved!Rom, Proved!Ram, Proved!Extram,
                    extram_start_address .. extram_start_address + MaxAddr} :
            c.addr \in R => Proved!Page(c.addr) \subseteq R
  /\ {} \subseteq Threads
  /\ TRUE \in BOOLEAN /\ Proved!IsFiniteSet(Threads)
<1>1. /\ MaxAddr \in Nat /\ 0 \in Byte /\ {} \subseteq Threads /\ TRUE \in BOOLEAN
      /\ NoCall \notin Accesses
  BY MemoryAssumption, PinsAssumption
<1>2. Proved!IsFiniteSet(Threads)
  BY PinsAssumption DEF IsFiniteSet, Proved!IsFiniteSet
<1>3. /\ \A c : Platform!Span(c) = Proved!Span(c)
      /\ \A a : Platform!Page(a) = Proved!Page(a)
      /\ Platform!Rom = Proved!Rom /\ Platform!Ram = Proved!Ram
      /\ Platform!Extram = Proved!Extram /\ Cmd = Proved!Cmd
  BY DEF Platform!Span, Proved!Span, Platform!Page, Proved!Page, Platform!Rom, Proved!Rom,
         Platform!Ram, Proved!Ram, Platform!Extram, Proved!Extram, Cmd, Proved!Cmd, READ,
         Proved!READ, WRITE, Proved!WRITE
<1>4. \A c \in Accesses :
        /\ c = [cmd |-> c.cmd, addr |-> c.addr, len |-> c.len, data |-> c.data]
        /\ c.cmd \in Proved!Cmd /\ c.addr \in Nat /\ c.len \in Nat \ {0}
        /\ c.data \in [0 .. c.len - 1 -> Byte]
        /\ Proved!Span(c) \subseteq Proved!Page(c.addr)
  BY <1>3, PinsAssumption DEF Plain
<1>5. /\ default_rstvec \in Nat /\ RomSize \in Nat /\ boot_rom \in [0 .. RomSize - 1 -> Byte]
      /\ spike_ram_memory_address \in Nat /\ RamSize \in Nat
      /\ extram_start_address \in Nat /\ extram_end_address \in Nat
      /\ Proved!Rom \cap Proved!Ram = {} /\ (Proved!Rom \cup Proved!Ram) \cap Proved!Extram = {}
  BY <1>3, PinsAssumption
<1>6. \A c \in Accesses :
        \A R \in {Proved!Rom, Proved!Ram, Proved!Extram,
                  extram_start_address .. extram_start_address + MaxAddr} :
          c.addr \in R => Proved!Page(c.addr) \subseteq R
  <2>1. \A c \in Accesses :
          \A R \in {Platform!Rom, Platform!Ram, Platform!Extram,
                    extram_start_address .. extram_start_address + MaxAddr} :
            c.addr \in R => Platform!Page(c.addr) \subseteq R
    BY PinsAssumption
  <2>2. {Platform!Rom, Platform!Ram, Platform!Extram,
         extram_start_address .. extram_start_address + MaxAddr}
          = {Proved!Rom, Proved!Ram, Proved!Extram,
             extram_start_address .. extram_start_address + MaxAddr}
    BY <1>3
  <2>. QED  BY <1>3, <2>1, <2>2, Zenon
<1>. QED  BY <1>1, <1>2, <1>4, <1>5, <1>6

LEMMA SameStop == Platform!Stop <=> Proved!Stop
  BY DEF Platform!Stop, Proved!Stop, Platform!memVars, Proved!memVars, Platform!hartVars,
         Proved!hartVars

LEMMA SameNext == Platform!Next <=> Proved!Next
<1>1. /\ Platform!Returned <=> Proved!Returned
      /\ \A h \in {} : Platform!BitbangThread(h) <=> Proved!BitbangThread(h)
  BY DEF Platform!Returned, Proved!Returned, Platform!vars, Proved!vars, Platform!memVars,
         Proved!memVars, Platform!hartVars, Proved!hartVars
<1>2. \A h \in Threads : Platform!HartThread(h) <=> Proved!HartThread(h)
  BY SameBus, SameWindow, SameSpike DEF Platform!HartThread, Proved!HartThread,
         Platform!b_transport, Proved!b_transport
<1>. QED
  BY <1>1, <1>2, SameStop, SameWindow, SameSpike DEF Platform!Next, Proved!Next
-----------------------------------------------------------------------------
(***************************************************************************)
(* What the uncore sees of b_transport.                                    *)
(***************************************************************************)

LEMMA PlainCall ==
  ASSUME NEW c
  PROVE  /\ Plain(c).cmd = c.cmd /\ Plain(c).addr = c.addr
         /\ Plain(c).len = c.len /\ Plain(c).data = c.data
  BY DEF Plain

LEMMA ShownIs ==
  ASSUME NEW c, NEW st, NEW d
  PROVE  /\ Shown(Atomic!Idle) = Proved!Rtl!Idle
         /\ Shown(Atomic!Called(c)) = Proved!Rtl!Called(Plain(c))
         /\ Shown(Atomic!Done(c, st, d)) = Proved!Rtl!Done(Plain(c), st, d)
<1>. DEFINE p == Plain(c)
<1>1. Shown(Atomic!Idle) = Proved!Rtl!Idle
  BY DEF Shown, Atomic!Idle, Proved!Rtl!Idle
<1>. HIDE DEF p
<1>2. Plain(c) = p
  BY DEF p
<1>3. Shown(Atomic!Called(c)) = Proved!Rtl!Called(p)
  BY <1>2 DEF Shown, Atomic!Called, Proved!Rtl!Called
<1>4. Shown(Atomic!Done(c, st, d)) = Proved!Rtl!Done(p, st, d)
  BY <1>2 DEF Shown, Atomic!Done, Proved!Rtl!Done
<1>. QED  BY <1>1, <1>2, <1>3, <1>4

(* A change of one client shows as a change of one target. *)
LEMMA OneTargetMoves ==
  ASSUME NEW t \in Threads, NEW s, ClientView' = [ClientView EXCEPT ![t] = s]
  PROVE  /\ TargetView' = [TargetView EXCEPT ![t] = Shown(s)]
         /\ TargetView[t] = Shown(ClientView[t])
<1>1. ClientView = [u \in Threads |-> ClientView[u]]
  BY DEF ClientView
<1>2. /\ TargetView = [u \in Threads |-> Shown(ClientView[u])]
      /\ TargetView' = [u \in Threads |-> Shown(ClientView'[u])]
  BY DEF TargetView, Shown, Plain
<1>. HIDE DEF ClientView, TargetView, Shown
<1>. QED  BY <1>1, <1>2

LEMMA SameFits ==
  ASSUME NEW c
  PROVE  /\ Proved!Rtl!Fits(Plain(c)) <=> Atomic!Fits(c)
         /\ Proved!Rtl!Span(Plain(c)) = Atomic!Span(c)
         /\ Proved!Rtl!Bytes(Plain(c)) = Atomic!Bytes(c)
<1>. DEFINE p == Plain(c)
<1>1. p.cmd = c.cmd /\ p.addr = c.addr /\ p.len = c.len
  BY PlainCall
<1>. HIDE DEF p
<1>2. /\ Proved!Rtl!Fits(p) <=> Atomic!Fits(c)
      /\ Proved!Rtl!Span(p) = Atomic!Span(c)
      /\ Proved!Rtl!Bytes(p) = Atomic!Bytes(c)
  BY <1>1 DEF Proved!Rtl!Fits, Atomic!Fits, Proved!Rtl!Span, Atomic!Span, Proved!Rtl!Bytes,
              Atomic!Bytes, Proved!Rtl!READ, Atomic!READ, Addr, Proved!Addr
<1>. QED  BY <1>2 DEF p

(* What b_transport does to the call of its thread, the atomic memory behind
   the window does to the transaction of the hart. *)
LEMMA LowerActs ==
  ASSUME NEW t \in Threads, NEW c,
         Atomic!Refuse(t, c) \/ Atomic!Read(t, c) \/ Atomic!Write(t, c)
  PROVE  /\ TargetView[t] = Proved!Rtl!Called(Plain(c))
         /\ \/ Proved!Rtl!Refuse(t, Plain(c)) \/ Proved!Rtl!Read(t, Plain(c))
            \/ Proved!Rtl!Write(t, Plain(c))
<1>. DEFINE p == Plain(c)
<1>1. /\ p.cmd = c.cmd /\ p.addr = c.addr /\ p.len = c.len /\ p.data = c.data
      /\ Proved!Rtl!Fits(p) <=> Atomic!Fits(c)
      /\ Proved!Rtl!Span(p) = Atomic!Span(c)
      /\ Proved!Rtl!Bytes(p) = Atomic!Bytes(c)
  BY PlainCall, SameFits
<1>2. ASSUME NEW st, NEW d, ClientView' = [ClientView EXCEPT ![t] = Atomic!Done(c, st, d)]
      PROVE  TargetView' = [TargetView EXCEPT ![t] = Proved!Rtl!Done(p, st, d)]
  <2>1. TargetView' = [TargetView EXCEPT ![t] = Shown(Atomic!Done(c, st, d))]
    BY <1>2, OneTargetMoves
  <2>2. Shown(Atomic!Done(c, st, d)) = Proved!Rtl!Done(p, st, d)
    BY ShownIs
  <2>. HIDE DEF p, TargetView, Shown
  <2>. QED  BY <2>1, <2>2
<1>3. ASSUME NEW s, ClientView' = [ClientView EXCEPT ![t] = s], ClientView[t] = Atomic!Called(c)
      PROVE  TargetView[t] = Proved!Rtl!Called(p)
  <2>1. TargetView[t] = Shown(Atomic!Called(c))
    BY <1>3, OneTargetMoves
  <2>2. Shown(Atomic!Called(c)) = Proved!Rtl!Called(p)
    BY ShownIs
  <2>. QED  BY <2>1, <2>2
<1>. HIDE DEF p, ClientView, TargetView, MemView
<1>4. CASE Atomic!Refuse(t, c)
  <2>1. /\ ~Atomic!Fits(c) /\ MemView' = MemView /\ ClientView[t] = Atomic!Called(c)
        /\ ClientView' = [ClientView EXCEPT ![t] = Atomic!Done(c, Atomic!ERROR, c.data)]
    BY <1>4 DEF Atomic!Refuse
  <2>2. TargetView' = [TargetView EXCEPT ![t] = Proved!Rtl!Done(p, Atomic!ERROR, c.data)]
    BY <2>1, <1>2
  <2>3. TargetView[t] = Proved!Rtl!Called(p)
    BY <2>1, <1>3
  <2>4. Proved!Rtl!Refuse(t, p)
    BY <1>1, <2>1, <2>2, <2>3 DEF Proved!Rtl!Refuse, Atomic!ERROR, Proved!Rtl!ERROR
  <2>. QED  BY <2>3, <2>4 DEF p
<1>5. CASE Atomic!Read(t, c)
  <2>. DEFINE d == [i \in Atomic!Bytes(c) |-> MemView[c.addr + i]]
  <2>1. /\ Atomic!Fits(c) /\ c.cmd = Atomic!READ /\ MemView' = MemView
        /\ ClientView[t] = Atomic!Called(c)
        /\ ClientView' = [ClientView EXCEPT ![t] = Atomic!Done(c, Atomic!OK, d)]
    BY <1>5 DEF Atomic!Read
  <2>2. d = [i \in Proved!Rtl!Bytes(p) |-> MemView[p.addr + i]]
    BY <1>1
  <2>. HIDE DEF d
  <2>3. TargetView' = [TargetView EXCEPT ![t] = Proved!Rtl!Done(p, Atomic!OK, d)]
    BY <2>1, <1>2
  <2>4. TargetView[t] = Proved!Rtl!Called(p)
    BY <2>1, <1>3
  <2>5. Proved!Rtl!Read(t, p)
    BY <1>1, <2>1, <2>2, <2>3, <2>4
    DEF Proved!Rtl!Read, Atomic!OK, Proved!Rtl!OK, Atomic!READ, Proved!Rtl!READ
  <2>. QED  BY <2>4, <2>5 DEF p
<1>6. CASE Atomic!Write(t, c)
  <2>1. /\ Atomic!Fits(c) /\ c.cmd = Atomic!WRITE /\ ClientView[t] = Atomic!Called(c)
        /\ MemView' = [a \in Addr |-> IF a \in Atomic!Span(c) THEN c.data[a - c.addr] ELSE MemView[a]]
        /\ ClientView' = [ClientView EXCEPT ![t] = Atomic!Done(c, Atomic!OK, c.data)]
    BY <1>6 DEF Atomic!Write
  <2>2. TargetView' = [TargetView EXCEPT ![t] = Proved!Rtl!Done(p, Atomic!OK, c.data)]
    BY <2>1, <1>2
  <2>3. TargetView[t] = Proved!Rtl!Called(p)
    BY <2>1, <1>3
  <2>4. Addr = Proved!Addr
    BY DEF Addr, Proved!Addr
  <2>5. Proved!Rtl!Write(t, p)
    BY <1>1, <2>1, <2>2, <2>3, <2>4
    DEF Proved!Rtl!Write, Atomic!OK, Proved!Rtl!OK, Atomic!WRITE, Proved!Rtl!WRITE
  <2>. QED  BY <2>3, <2>5 DEF p
<1>. QED  BY <1>4, <1>5, <1>6
-----------------------------------------------------------------------------
(***************************************************************************)
(* The steps of the platform.                                              *)
(***************************************************************************)

ViewsStay == UNCHANGED <<MemView, ClientView>>

LEMMA ViewsOfVars ==
  ASSUME UNCHANGED vars
  PROVE  ViewsStay
  BY DEF vars, pipeVars, threadVars, MemView, OwnerWrites, ClientView, DataView, ViewsStay

LEMMA TargetStays ==
  ASSUME ViewsStay
  PROVE  UNCHANGED <<MemView, TargetView>>
<1>. HIDE DEF MemView, ClientView
<1>. QED  BY DEF ViewsStay, TargetView, Shown, Plain

LEMMA InMemRtlActs ==
  ASSUME JointInv, IInv', NEW t \in Threads, InMemRtl(t)
  PROVE  Proved!ExternalRam(t) \/ UNCHANGED Proved!vars
<1>. DEFINE c == call[t]
<1>1. UNCHANGED platformVars
  BY DEF InMemRtl
<1>2. \/ Atomic!Refuse(t, c) \/ Atomic!Read(t, c) \/ Atomic!Write(t, c)
      \/ ViewsStay
  <2>1. CASE Begin(t) /\ ~InRange(call[t])
    BY <2>1, RefusalRefines DEF JointInv
  <2>2. CASE (Begin(t) /\ InRange(call[t])) \/ Retry(t)
    <3>1. /\ pc[t] \in {"entry", "woken"} /\ Lock(t)
          /\ UNCHANGED <<pipeVars, call, data>>
      BY <2>2 DEF Begin, Retry
    <3>2. InRange(call[t]) /\ status'[t] = OK
      <4>1. CASE Begin(t) /\ InRange(call[t])
        BY <4>1, ThreadTypes DEF Begin, JointInv
      <4>2. CASE Retry(t)
        BY <4>2 DEF Retry, JointInv, IInv, MutexInv, ThreadInv, PlaceInv
      <4>. QED  BY <2>2, <4>1, <4>2
    <3>3. ThreadStep(t)
      BY <2>2 DEF ThreadStep
    <3>. QED  BY <3>1, <3>2, <3>3, LockRefines DEF JointInv, ViewsStay
  <2>3. CASE WriteBeat(t)
    BY <2>3, SendStutters DEF JointInv, ViewsStay
  <2>4. CASE ReadBeat(t)
    BY <2>4, TakeStutters DEF JointInv, ViewsStay
  <2>. QED  BY <2>1, <2>2, <2>3, <2>4 DEF InMemRtl
<1>3. CASE ViewsStay
  BY <1>1, <1>3, TargetStays DEF platformVars, Proved!vars, Proved!memVars, Proved!hartVars
<1>4. CASE Atomic!Refuse(t, c) \/ Atomic!Read(t, c) \/ Atomic!Write(t, c)
  <2>. DEFINE p == Plain(c)
  <2>1. /\ TargetView[t] = Proved!Rtl!Called(p)
        /\ Proved!Rtl!Refuse(t, p) \/ Proved!Rtl!Read(t, p) \/ Proved!Rtl!Write(t, p)
    BY <1>4, LowerActs
  <2>. HIDE DEF p, TargetView
  <2>2. TargetView[t].phase = "called" /\ TargetView[t].call = p
    BY <2>1 DEF Proved!Rtl!Called
  <2>. QED
    BY <1>1, <2>1, <2>2 DEF Proved!ExternalRam, platformVars, Proved!hartVars
<1>. QED  BY <1>2, <1>3, <1>4

LEMMA HartActs ==
  ASSUME NEW t \in Threads, main = "running",
         HartThread(t) \/ Instruction(t)
  PROVE  Proved!Next
<1>. DEFINE bitbang == [h \in {} |-> "running"]
<1>1. CASE Inside(t)
  <2>1. /\ \/ /\ Proved!BusLoad(t) \/ Proved!BusStore(t) \/ Proved!UnknownDevice(t)
              /\ UNCHANGED <<keep_sim, running_threads_counter, main>>
           \/ Proved!MmioReturn(t) \/ Proved!Loop(t)
        /\ bitbang' = bitbang
    BY <1>1, SameBus, SameSpike DEF Inside
  <2>2. Proved!HartThread(t)
    BY <2>1 DEF Proved!HartThread, Proved!b_transport
  <2>. QED  BY <2>2 DEF Proved!Next
<1>2. CASE Enter(t)
  <2>1. Proved!ToExtram(t) /\ UNCHANGED <<keep_sim, running_threads_counter, main>>
    BY <1>2, SameWindow DEF Enter
  <2>2. Proved!HartThread(t)
    BY <2>1 DEF Proved!HartThread, Proved!b_transport
  <2>. QED  BY <2>2 DEF Proved!Next
<1>3. CASE Leave(t)
  <2>1. Proved!FromExtram(t) /\ UNCHANGED <<keep_sim, running_threads_counter, main>>
    BY <1>3, SameWindow DEF Leave
  <2>2. Proved!HartThread(t)
    BY <2>1 DEF Proved!HartThread, Proved!b_transport
  <2>. QED  BY <2>2 DEF Proved!Next
<1>4. CASE Instruction(t)
  <2>1. CASE Platform!EndStep(t)
    BY <2>1, SameSpike DEF Proved!Next
  <2>2. ASSUME NEW c \in Accesses, Platform!Mmio(t, c)
        PROVE  Proved!UncoreAccess(t)
    BY <2>2, SameSpike DEF Proved!UncoreAccess, Proved!Local
  <2>. QED  BY <1>4, <2>1, <2>2 DEF Instruction, Proved!Next
<1>. QED  BY <1>1, <1>2, <1>3, <1>4 DEF HartThread

(* A step of the platform is a step of TwoIss or none of it. *)
LEMMA PlatformActs ==
  ASSUME JointInv, IInv', [PlatformNext]_allVars
  PROVE  [Proved!Next]_(Proved!vars)
<1>1. ASSUME main = "running", NEW t \in Threads, HartThread(t) \/ Instruction(t)
      PROVE  Proved!Next
  BY <1>1, HartActs
<1>2. ASSUME main = "running", NEW t \in Threads, InMemRtl(t)
      PROVE  Proved!Next \/ UNCHANGED Proved!vars
  BY <1>2, InMemRtlActs DEF Proved!Next
<1>3. CASE Clock
  <2>1. ViewsStay /\ UNCHANGED platformVars
    BY <1>3, KernelStutters DEF Clock, JointInv, ViewsStay
  <2>. QED
    BY <2>1, TargetStays DEF platformVars, Proved!vars, Proved!memVars, Proved!hartVars
<1>4. CASE Stop
  BY <1>4, SameStop DEF Stop, Proved!Next
<1>5. CASE UNCHANGED allVars
  <2>1. ViewsStay /\ UNCHANGED platformVars
    BY <1>5, ViewsOfVars DEF allVars
  <2>. QED
    BY <2>1, TargetStays DEF platformVars, Proved!vars, Proved!memVars, Proved!hartVars
<1>. QED  BY <1>1, <1>2, <1>3, <1>4, <1>5 DEF PlatformNext, Returned

(* It is also a step of MemRtl with the harts for its threads. *)
LEMMA BTransportActs ==
  ASSUME JointInv, [PlatformNext]_allVars
  PROVE  [Next]_vars
<1>1. ASSUME NEW t \in Threads, Enter(t)  PROVE Next
  <2>1. hart_pc[t] = "uncore" /\ Platform!tlm_address_decode(trans[t].addr) = "EXTRAM"
    BY <1>1 DEF Enter, Platform!In
  <2>2. trans[t] = access[t] /\ access[t] \in Accesses
    BY <2>1 DEF JointInv, Proved!IInv, Proved!PayloadInv, Proved!AccessInv, Proved!PlatformTypeOK
  <2>3. Forwarded(trans[t]) \in Calls
    BY <2>1, <2>2, PinsAssumption
  <2>. QED  BY <1>1, <2>3 DEF Enter, Next
<1>2. ASSUME NEW t \in Threads, Leave(t) \/ InMemRtl(t)  PROVE Next
  BY <1>2 DEF Leave, InMemRtl, ThreadStep, Next
<1>3. ASSUME NEW t \in Threads, Inside(t) \/ Instruction(t)  PROVE UNCHANGED vars
  BY <1>3 DEF Inside, Instruction
<1>. QED
  BY <1>1, <1>2, <1>3 DEF PlatformNext, HartThread, Clock, Stop, Returned, allVars, Next

LEMMA PlatformStarts ==
  ASSUME PlatformInit
  PROVE  Init /\ Proved!Init
<1>1. Init /\ IInv /\ rtl_access = NoThread
  BY InitInv DEF PlatformInit, Init
<1>2. MemView \in [Proved!Addr -> Byte]
  BY <1>1, MemViewCases, ThreadTypes DEF Addr, Proved!Addr
<1>3. TargetView = [h \in Threads |-> Proved!Idle]
  <2>1. ClientView = [h \in Threads |-> Atomic!Idle]
    BY <1>1, RefinesInit DEF Atomic!Init
  <2>2. Shown(Atomic!Idle) = Proved!Idle
    BY DEF Shown, Atomic!Idle, Proved!Idle
  <2>. HIDE DEF ClientView
  <2>. QED  BY <2>1, <2>2 DEF TargetView
<1>4. running_threads_counter = Proved!Cardinality(Threads) + Proved!Cardinality({})
  <2>1. /\ Proved!Cardinality(Threads) = Cardinality(Threads)
        /\ Proved!Cardinality({}) = Cardinality({})
    BY DEF Proved!Cardinality, Cardinality, Proved!IsFiniteSet, IsFiniteSet
  <2>2. Cardinality({}) = 0 /\ Cardinality(Threads) \in Nat
    BY FS_EmptySet, FS_CardinalityType, PinsAssumption
  <2>. QED  BY <2>1, <2>2 DEF PlatformInit
<1>. HIDE DEF MemView, TargetView
<1>. QED
  BY <1>1, <1>2, <1>3, <1>4 DEF PlatformInit, Proved!Init, INCOMPLETE, Proved!INCOMPLETE

LEMMA JointInvariance == PlatformSpec => []JointInv /\ Spec /\ Proved!Spec
<1>1. PlatformInit => Init /\ Proved!Init /\ JointInv
  BY AssumptionsHold, PlatformStarts, InitInv, Proved!InitInv DEF JointInv
<1>2. ASSUME JointInv, [PlatformNext]_allVars
      PROVE  JointInv' /\ [Next]_vars /\ [Proved!Next]_(Proved!vars)
  <2>1. [Next]_vars
    BY <1>2, BTransportActs
  <2>2. IInv'
    BY <1>2, <2>1, NextKeeps DEF JointInv
  <2>3. [Proved!Next]_(Proved!vars)
    BY <1>2, <2>2, PlatformActs
  <2>4. Proved!IInv'
    BY <1>2, <2>3, AssumptionsHold, Proved!StepInv DEF JointInv
  <2>. QED  BY <2>1, <2>2, <2>3, <2>4 DEF JointInv
<1>. QED  BY <1>1, <1>2, PTL DEF PlatformSpec, Spec, Proved!Spec
-----------------------------------------------------------------------------
(***************************************************************************)
(* The theorems.                                                           *)
(***************************************************************************)

(* For any number of harts, any programs that keep to aligned accesses, any
   depth of the queues and any order of clock edges, the platform with the
   pins does only what TwoIss does with an indivisible memory. *)
THEOREM PinsAreOneStep == PlatformSpec => ImplementsTwoIss
<1>1. [Proved!Next]_(Proved!vars) => [Platform!Next]_(Platform!vars)
  <2>1. UNCHANGED Proved!vars => UNCHANGED Platform!vars
    BY DEF Platform!vars, Proved!vars, Platform!memVars, Proved!memVars,
           Platform!hartVars, Proved!hartVars
  <2>. QED  BY <2>1, SameNext
<1>2. Proved!Spec => Platform!Spec
  BY <1>1, SameInit, PTL DEF Platform!Spec, Proved!Spec
<1>. QED  BY <1>2, JointInvariance, PTL DEF ImplementsTwoIss

LEMMA SameViews ==
  /\ Platform!PhysicalView = Proved!PhysicalView /\ Platform!HartView = Proved!HartView
  /\ Platform!Readable = Proved!Readable /\ Platform!Writable = Proved!Writable
<1>1. Platform!Readable = Proved!Readable /\ Platform!Writable = Proved!Writable
  BY DEF Platform!Readable, Proved!Readable, Platform!Writable, Proved!Writable,
         Platform!Backed, Proved!Backed, Platform!Rom, Proved!Rom, Platform!Ram, Proved!Ram,
         Platform!Extram, Proved!Extram, Platform!Addr, Proved!Addr
<1>2. Platform!PhysicalView = Proved!PhysicalView
  BY <1>1 DEF Platform!PhysicalView, Proved!PhysicalView, Platform!Backed, Proved!Backed,
         Platform!BusByte, Proved!BusByte, Platform!Rom, Proved!Rom,
         Platform!Extram, Proved!Extram, Platform!Addr, Proved!Addr
<1>3. Platform!HartView = Proved!HartView
  BY DEF Platform!HartView, Proved!HartView, Platform!View, Proved!View, Platform!Called,
         Proved!Called, Platform!Idle, Proved!Idle
<1>. QED  BY <1>1, <1>2, <1>3

LEMMA SameViewsPrimed ==
  Platform!PhysicalView' = Proved!PhysicalView' /\ Platform!HartView' = Proved!HartView'
<1>1. Platform!PhysicalView' = Proved!PhysicalView'
  BY SameViews DEF Platform!PhysicalView, Proved!PhysicalView, Platform!Backed,
     Proved!Backed, Platform!BusByte, Proved!BusByte, Platform!Rom, Proved!Rom,
     Platform!Extram, Proved!Extram, Platform!Addr, Proved!Addr
<1>2. Platform!HartView' = Proved!HartView'
  BY DEF Platform!HartView, Proved!HartView, Platform!View, Proved!View, Platform!Called,
         Proved!Called, Platform!Idle, Proved!Idle
<1>. QED  BY <1>1, <1>2

LEMMA SamePhysical == Proved!Physical!Spec => Platform!Physical!Spec
<1>1. Proved!Physical!Init => Platform!Physical!Init
  BY SameViews DEF Proved!Physical!Init, Platform!Physical!Init, Proved!Physical!Idle,
     Platform!Physical!Idle
<1>2. UNCHANGED Proved!Physical!mvars => UNCHANGED Platform!Physical!mvars
  BY SameViews, SameViewsPrimed DEF Proved!Physical!mvars, Platform!Physical!mvars
<1>3. ASSUME NEW t \in Threads, NEW c \in Accesses
      PROVE  /\ Proved!Physical!Invoke(t, c) => Platform!Physical!Invoke(t, c)
             /\ Proved!Physical!Refuse(t, c) => Platform!Physical!Refuse(t, c)
             /\ Proved!Physical!Read(t, c) => Platform!Physical!Read(t, c)
             /\ Proved!Physical!Write(t, c) => Platform!Physical!Write(t, c)
  <2>. USE SameViews, SameViewsPrimed
       DEF Proved!Physical!Idle, Platform!Physical!Idle, Proved!Physical!Called,
           Platform!Physical!Called, Proved!Physical!Done, Platform!Physical!Done,
           Proved!Physical!OK, Platform!Physical!OK, Proved!Physical!ERROR,
           Platform!Physical!ERROR
  <2>1. Proved!Physical!Fits(c) <=> Platform!Physical!Fits(c)
    BY DEF Proved!Physical!Fits, Platform!Physical!Fits, Proved!Physical!Span,
           Platform!Physical!Span, Proved!Physical!READ, Platform!Physical!READ
  <2>2. Proved!Physical!Invoke(t, c) => Platform!Physical!Invoke(t, c)
    BY DEF Proved!Physical!Invoke, Platform!Physical!Invoke
  <2>3. Proved!Physical!Refuse(t, c) => Platform!Physical!Refuse(t, c)
    BY <2>1 DEF Proved!Physical!Refuse, Platform!Physical!Refuse
  <2>4. Proved!Physical!Read(t, c) => Platform!Physical!Read(t, c)
    BY <2>1 DEF Proved!Physical!Read, Platform!Physical!Read, Proved!Physical!READ,
                Platform!Physical!READ, Proved!Physical!Bytes, Platform!Physical!Bytes
  <2>5. Proved!Physical!Write(t, c) => Platform!Physical!Write(t, c)
    BY <2>1 DEF Proved!Physical!Write, Platform!Physical!Write, Proved!Physical!WRITE,
                Platform!Physical!WRITE, Proved!Physical!Span, Platform!Physical!Span
  <2>. QED  BY <2>2, <2>3, <2>4, <2>5
<1>4. ASSUME NEW t \in Threads
      PROVE  Proved!Physical!Return(t) => Platform!Physical!Return(t)
  BY SameViews, SameViewsPrimed DEF Proved!Physical!Return, Platform!Physical!Return,
     Proved!Physical!Idle, Platform!Physical!Idle
<1>5. Proved!Physical!Next => Platform!Physical!Next
  BY <1>3, <1>4 DEF Proved!Physical!Next, Platform!Physical!Next
<1>. QED
  BY <1>1, <1>2, <1>5, PTL DEF Proved!Physical!Spec, Platform!Physical!Spec

(* One physical memory down to the RAM behind the pins: decode, bus, window,
   mutex, bursts, queues, adapters and io_block together. *)
THEOREM OneMemoryThroughPins == PlatformSpec => PinsImplementPhysicalMemory
<1>1. Proved!Spec => Proved!ImplementsPhysicalMemory
  BY AssumptionsHold, Proved!OnePhysicalMemory
<1>2. Proved!ImplementsPhysicalMemory => Platform!ImplementsPhysicalMemory
  BY SamePhysical DEF Proved!ImplementsPhysicalMemory, Platform!ImplementsPhysicalMemory
<1>. QED  BY <1>1, <1>2, JointInvariance, PTL DEF PinsImplementPhysicalMemory

(* When sc_main leaves its loop and calls sc_stop the pipeline is drained. *)
THEOREM DrainedWhenStopped == PlatformSpec => []StopsDrained
<1>1. JointInv => StopsDrained
  <2>. SUFFICES ASSUME JointInv, main = "stopped"
                PROVE  /\ rtl_access = NoThread /\ InFlight = <<>>
                       /\ \A h \in Threads : pc[h] = "idle"
    BY DEF StopsDrained
  <2>1. ASSUME NEW h \in Threads  PROVE pc[h] = "idle"
    <3>1. hart_pc[h] = "ended"
      BY DEF JointInv, Proved!IInv, Proved!MainInv, Proved!LiveHarts
    <3>2. TargetView[h] = Proved!Idle
      BY <3>1 DEF JointInv, Proved!IInv, Proved!PayloadInv, Proved!AccessInv
    <3>3. TargetView[h] = Shown(ClientOf(h))
      BY ClientCases DEF TargetView
    <3>4. pc[h] \in Waits => TargetView[h] # Proved!Idle
      <4>1. pc[h] \in Waits => ClientOf(h) = Atomic!Called(call[h])
        BY ClientCases
      <4>2. Shown(Atomic!Called(call[h])) = Proved!Rtl!Called(Plain(call[h]))
        BY ShownIs
      <4>3. Proved!Rtl!Called(Plain(call[h])).phase # Proved!Idle.phase
        BY DEF Proved!Rtl!Called, Proved!Idle
      <4>. HIDE DEF TargetView
      <4>. QED  BY <3>3, <4>1, <4>2, <4>3
    <3>5. pc[h] \in Runs => TargetView[h] # Proved!Idle
      <4>. DEFINE d == DataView(h)
      <4>1. pc[h] \in Runs => ClientOf(h) = Atomic!Done(call[h], status[h], d)
        BY ClientCases
      <4>2. Shown(Atomic!Done(call[h], status[h], d))
              = Proved!Rtl!Done(Plain(call[h]), status[h], d)
        BY ShownIs
      <4>. HIDE DEF d
      <4>3. Proved!Rtl!Done(Plain(call[h]), status[h], d).phase # Proved!Idle.phase
        BY DEF Proved!Rtl!Done, Proved!Idle
      <4>. HIDE DEF TargetView
      <4>. QED  BY <3>3, <4>1, <4>2, <4>3
    <3>6. pc[h] \in PC
      BY ThreadTypes DEF JointInv
    <3>. QED  BY <3>2, <3>4, <3>5, <3>6 DEF PC, Waits, Runs
  <2>2. rtl_access = NoThread
    <3>1. \A h \in Threads : rtl_access # h
      BY <2>1 DEF JointInv, IInv, MutexInv, ThreadInv, PlaceInv
    <3>2. rtl_access \in Threads \cup {NoThread}
      BY ThreadTypes DEF JointInv
    <3>. QED  BY <3>1, <3>2
  <2>3. InFlight = <<>>
    BY <2>2 DEF JointInv, IInv, MutexInv, InFlight
  <2>. QED  BY <2>1, <2>2, <2>3
<1>. QED  BY <1>1, JointInvariance, PTL
=============================================================================
