------------------------------- MODULE Uncore -------------------------------
(***************************************************************************)
(* uncore_module: the interconnect between the harts and the memories.  It *)
(* owns Spike's bus with a boot ROM and a RAM, forwards one window of      *)
(* physical addresses to the external RAM and refuses everything else.     *)
(* Its b_transport has no state of its own: it runs on the thread of the   *)
(* hart that calls it and works on that hart's payload.  The external RAM  *)
(* may wait, so the harts overlap inside the call.                         *)
(***************************************************************************)
EXTENDS Beats, Integers

CONSTANTS
  Harts,      \* initiators, one target socket each
  Calls,      \* accesses a hart may make: cmd, addr (physical), len and data
  NoCall,     \* what a payload holds before its first use
  PGSIZE,     \* size of a page
  boot_rom,   \* contents of the boot ROM, indexed from 0
  RomSize, RamSize,    \* sizes of the boot ROM and of spike_ram
  default_rstvec, spike_ram_memory_address,    \* where the two start
  extram_start_address, extram_end_address     \* window of the external RAM

OK == "OK"
ERROR == "ERROR"
INCOMPLETE == "INCOMPLETE"

Rom == default_rstvec .. default_rstvec + RomSize - 1
Ram == spike_ram_memory_address .. spike_ram_memory_address + RamSize - 1
Extram == extram_start_address .. extram_end_address

Span(c) == c.addr .. c.addr + c.len - 1

(* paddr >> PGSHIFT << PGSHIFT and the bytes that follow. *)
Page(a) == LET base == (a \div PGSIZE) * PGSIZE IN base .. base + PGSIZE - 1

(* cfg.misaligned is false: an access is aligned to its size and stays in
   its page. *)
ASSUME AccessAssumption ==
  /\ NoCall \notin Calls
  /\ \A c \in Calls : /\ c = [cmd |-> c.cmd, addr |-> c.addr, len |-> c.len, data |-> c.data]
                      /\ c.cmd \in Cmd /\ c.addr \in Nat /\ c.len \in Nat \ {0}
                      /\ c.data \in [0 .. c.len - 1 -> Byte]
                      /\ Span(c) \subseteq Page(c.addr)

(* The regions are disjoint and start and end at pages, the bytes behind the
   window too. *)
ASSUME MapAssumption ==
  /\ default_rstvec \in Nat /\ RomSize \in Nat /\ boot_rom \in [0 .. RomSize - 1 -> Byte]
  /\ spike_ram_memory_address \in Nat /\ RamSize \in Nat
  /\ extram_start_address \in Nat /\ extram_end_address \in Nat
  /\ Rom \cap Ram = {} /\ (Rom \cup Ram) \cap Extram = {}
  /\ \A c \in Calls :
       \A R \in {Rom, Ram, Extram, extram_start_address .. extram_start_address + MaxAddr} :
         c.addr \in R => Page(c.addr) \subseteq R

VARIABLES
  pc,          \* where each hart's thread stands
  access,      \* arguments of the hart's mmio_load or mmio_store
  trans,       \* its payload, whose address uncore rewrites
  status,      \* response status of the payload
  spike_ram,   \* bytes of the RAM on Spike's bus
  extram,      \* bytes of the external RAM
  target       \* each hart's transaction inside the external RAM

Idle == [phase |-> "idle"]
Called(c) == [phase |-> "called", call |-> c]
-----------------------------------------------------------------------------
(* bus_t::find_device: one device holds all the addresses. *)
OnBus(addrs) == addrs \subseteq Rom \/ addrs \subseteq Ram

(* Mutant: the first byte of the window is not decoded. *)
tlm_address_decode_OffByOne(paddr) ==
  IF OnBus(Page(paddr)) THEN "SPIKE_BUS"
  ELSE IF paddr \in Extram \ {extram_start_address} THEN "EXTRAM" ELSE "UNKNOWN_DEVICE"

tlm_address_decode(paddr) ==
  IF OnBus(Page(paddr)) THEN "SPIKE_BUS"
  ELSE IF paddr \in Extram THEN "EXTRAM" ELSE "UNKNOWN_DEVICE"

BusByte(a) == IF a \in Rom THEN boot_rom[a - default_rstvec]
                           ELSE spike_ram[a - spike_ram_memory_address]

In(h, hop) == pc[h] = "uncore" /\ tlm_address_decode(trans[h].addr) = hop

(* b_transport returns and the hart's thread goes on to wait(delay). *)
Answer(h, st) == status' = [status EXCEPT ![h] = st] /\ pc' = [pc EXCEPT ![h] = "wait"]

BusLoad(h) ==
  LET c == trans[h]
      found == OnBus(Span(c))
  IN /\ In(h, "SPIKE_BUS") /\ c.cmd = READ
     /\ trans' = IF found THEN [trans EXCEPT ![h].data =
                                  [i \in 0 .. c.len - 1 |-> BusByte(c.addr + i)]] ELSE trans
     /\ Answer(h, IF found THEN OK ELSE ERROR)
     /\ UNCHANGED <<access, spike_ram, extram, target>>

RamAfter(c) ==
  [i \in 0 .. RamSize - 1 |->
     IF spike_ram_memory_address + i \in Span(c)
       THEN c.data[(spike_ram_memory_address + i) - c.addr] ELSE spike_ram[i]]

(* Mutant: the result of the bus is ignored. *)
BusStore_IgnoresResult(h) ==
  /\ In(h, "SPIKE_BUS") /\ trans[h].cmd = WRITE
  /\ Answer(h, OK)
  /\ UNCHANGED <<access, trans, spike_ram, extram, target>>

(* The ROM refuses stores. *)
BusStore(h) ==
  LET c == trans[h]
      found == Span(c) \subseteq Ram
  IN /\ In(h, "SPIKE_BUS") /\ c.cmd = WRITE
     /\ spike_ram' = IF found THEN RamAfter(c) ELSE spike_ram
     /\ Answer(h, IF found THEN OK ELSE ERROR)
     /\ UNCHANGED <<access, trans, extram, target>>

(* Mutant: the payload is forwarded with the address the hart gave it. *)
ToExtram_KeepsAddress(h) ==
  /\ In(h, "EXTRAM")
  /\ target' = [target EXCEPT ![h] = Called(trans[h])]
  /\ pc' = [pc EXCEPT ![h] = "target"]
  /\ UNCHANGED <<access, trans, status, spike_ram, extram>>

Relative(c) == [c EXCEPT !.addr = @ - extram_start_address]

(* The address is made relative to the window, in the payload itself. *)
ToExtram(h) ==
  LET c == Relative(trans[h])
  IN /\ In(h, "EXTRAM")
     /\ trans' = [trans EXCEPT ![h] = c]
     /\ target' = [target EXCEPT ![h] = Called(c)]
     /\ pc' = [pc EXCEPT ![h] = "target"]
     /\ UNCHANGED <<access, status, spike_ram, extram>>

FromExtram(h) ==
  /\ pc[h] = "target" /\ target[h].phase = "done"
  /\ trans' = [trans EXCEPT ![h].data = target[h].data]
  /\ target' = [target EXCEPT ![h] = Idle]
  /\ Answer(h, target[h].status)
  /\ UNCHANGED <<access, spike_ram, extram>>

(* Mutant: the case falls through without a status. *)
UnknownDevice_NoStatus(h) ==
  /\ In(h, "UNKNOWN_DEVICE")
  /\ pc' = [pc EXCEPT ![h] = "wait"]
  /\ UNCHANGED <<access, trans, status, spike_ram, extram, target>>

UnknownDevice(h) ==
  /\ In(h, "UNKNOWN_DEVICE")
  /\ Answer(h, ERROR)
  /\ UNCHANGED <<access, trans, spike_ram, extram, target>>

b_transport(h) ==
  \/ BusLoad(h) \/ BusStore(h)
  \/ ToExtram(h) \/ FromExtram(h)
  \/ UnknownDevice(h)
=============================================================================
