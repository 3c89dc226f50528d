---------------------------- MODULE TwoIssMemRtl ----------------------------
(***************************************************************************)
(* The platform two_iss_with_memrtl down to the clock edge: the harts and  *)
(* the uncore of TwoIss with MemRtl behind the window instead of an atomic *)
(* memory.  The harts are the threads of memrtl's b_transport: uncore      *)
(* calls it on the thread of the hart and with the hart's payload, so      *)
(* entering the window and entering b_transport are one step, and so are   *)
(* coming back from the two.                                               *)
(***************************************************************************)
EXTENDS MemRtl, FiniteSets

CONSTANTS
  Accesses,   \* accesses a hart may make, with physical addresses
  PGSIZE, boot_rom, RomSize, RamSize, default_rstvec, spike_ram_memory_address,
  extram_start_address, extram_end_address

VARIABLES
  hart_pc,       \* where each hart's thread stands
  access,        \* arguments of the hart's mmio_load or mmio_store
  trans,         \* its payload
  hart_status,   \* response status of the payload
  spike_ram,     \* bytes of the RAM on Spike's bus
  keep_sim, running_threads_counter, main

platformVars == <<hart_pc, access, trans, hart_status, spike_ram, keep_sim,
                  running_threads_counter, main>>
allVars == <<vars, platformVars>>

(* A transaction of memrtl without its extensions, as uncore knows it. *)
Plain(c) == [cmd |-> c.cmd, addr |-> c.addr, len |-> c.len, data |-> c.data]

(* What uncore sees of b_transport: who has called it, with what, and which
   of the calls have taken effect. *)
Shown(s) == IF s.phase = "idle" THEN s ELSE [s EXCEPT !.call = Plain(@)]

TargetView == [h \in Threads |-> Shown(ClientView[h])]

Platform == INSTANCE TwoIss WITH
  Harts <- Threads, Calls <- Accesses, DebugHarts <- {}, UseMemRtl <- TRUE,
  pc <- hart_pc, status <- hart_status, extram <- MemView, target <- TargetView,
  bitbang <- [h \in {} |-> "running"]

(* The transaction that uncore passes on: the payload of a hart carries no
   delay extension. *)
Forwarded(c) ==
  [cmd |-> c.cmd, addr |-> Platform!Relative(c).addr, len |-> c.len, data |-> c.data,
   ext |-> FALSE]

(* The assumptions of TwoIss, and one of the composition: memrtl's b_transport
   takes every transaction the uncore passes on. *)
ASSUME PinsAssumption ==
  /\ IsFiniteSet(Threads)
  /\ NoCall \notin Accesses
  /\ \A c \in Accesses :
       /\ c = Plain(c) /\ c.cmd \in Cmd /\ c.addr \in Nat /\ c.len \in Nat \ {0}
       /\ c.data \in [0 .. c.len - 1 -> Byte]
       /\ Platform!Span(c) \subseteq Platform!Page(c.addr)
       /\ \A R \in {Platform!Rom, Platform!Ram, Platform!Extram,
                    extram_start_address .. extram_start_address + MaxAddr} :
            c.addr \in R => Platform!Page(c.addr) \subseteq R
       /\ Platform!tlm_address_decode(c.addr) = "EXTRAM" => Forwarded(c) \in Calls
  /\ default_rstvec \in Nat /\ RomSize \in Nat /\ boot_rom \in [0 .. RomSize - 1 -> Byte]
  /\ spike_ram_memory_address \in Nat /\ RamSize \in Nat
  /\ extram_start_address \in Nat /\ extram_end_address \in Nat
  /\ Platform!Rom \cap Platform!Ram = {}
  /\ (Platform!Rom \cup Platform!Ram) \cap Platform!Extram = {}

PlatformInit ==
  /\ Init
  /\ hart_pc = [h \in Threads |-> "step"]
  /\ access = [h \in Threads |-> NoCall]
  /\ trans = [h \in Threads |-> NoCall]
  /\ hart_status = [h \in Threads |-> INCOMPLETE]
  /\ spike_ram \in [0 .. RamSize - 1 -> Byte]
  /\ keep_sim = [h \in Threads |-> TRUE]
  /\ running_threads_counter = Cardinality(Threads)
  /\ main = "running"

(* The thread of a hart outside memrtl. *)
Inside(h) ==
  /\ UNCHANGED vars
  /\ \/ /\ Platform!BusLoad(h) \/ Platform!BusStore(h) \/ Platform!UnknownDevice(h)
        /\ UNCHANGED <<keep_sim, running_threads_counter, main>>
     \/ Platform!MmioReturn(h) \/ Platform!Loop(h)

(* uncore calls b_transport of memrtl on the hart's thread. *)
Enter(h) ==
  /\ Platform!In(h, "EXTRAM")
  /\ Call(h, Forwarded(trans[h]))
  /\ Platform!ToExtram(h)
  /\ UNCHANGED <<keep_sim, running_threads_counter, main>>

(* It returns, and the status and the buffer are those of the hart's payload.
   The wait(delay) of the hart, of which NoneWoken remains, is counted here. *)
Leave(h) ==
  /\ Return(h)
  /\ Platform!FromExtram(h)
  /\ UNCHANGED <<keep_sim, running_threads_counter, main>>

HartThread(h) == Inside(h) \/ Enter(h) \/ Leave(h)

(* b_transport of memrtl on the thread of the hart. *)
InMemRtl(h) ==
  /\ Begin(h) \/ Retry(h) \/ WriteBeat(h) \/ ReadBeat(h)
  /\ UNCHANGED platformVars

Instruction(h) ==
  /\ UNCHANGED vars
  /\ Platform!EndStep(h) \/ \E c \in Accesses : Platform!Mmio(h, c)

Clock == Kernel /\ UNCHANGED platformVars

Stop == UNCHANGED vars /\ Platform!Stop

Returned == main # "running" /\ UNCHANGED allVars

PlatformNext ==
  \/ /\ main = "running"
     /\ \/ \E h \in Threads : HartThread(h) \/ InMemRtl(h) \/ Instruction(h)
        \/ Clock
  \/ Stop \/ Returned

PlatformSpec == PlatformInit /\ [][PlatformNext]_allVars

Running(A) == main = "running" /\ A

(* The scheduler runs every runnable thread and the clock while sc_main
   simulates.  Nothing is assumed of the memory as a whole. *)
FairPlatformSpec ==
  /\ PlatformSpec
  /\ \A h \in Threads : /\ WF_allVars(Running(HartThread(h)))
                        /\ WF_allVars(Running(InMemRtl(h)))
  /\ WF_allVars(Running(Clock)) /\ WF_allVars(Stop)
-----------------------------------------------------------------------------
(***************************************************************************)
(* Properties.                                                             *)
(***************************************************************************)

(* The platform with the pins behaves as TwoIss, which has one indivisible
   step for what b_transport, queues, adapters and RTL do here. *)
ImplementsTwoIss == Platform!Spec

(* One physical memory, from the decode down to the RAM behind the pins. *)
PinsImplementPhysicalMemory == Platform!ImplementsPhysicalMemory

(* sc_stop destroys the modules only when the pipeline is drained: nobody
   holds or waits for rtl_access and no beat is between the queues' ends. *)
StopsDrained ==
  main = "stopped" =>
    /\ rtl_access = NoThread /\ InFlight = <<>>
    /\ \A h \in Threads : pc[h] = "idle"

(* An access that enters uncore comes back to its hart, past the mutex, the
   queues and the pins. *)
EveryAccessComesBack == \A h \in Threads : hart_pc[h] = "uncore" ~> hart_pc[h] \in {"step", "pause"}
=============================================================================
