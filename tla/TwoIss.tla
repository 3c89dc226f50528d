------------------------------- MODULE TwoIss -------------------------------
(***************************************************************************)
(* The platforms two_iss_with_memrtl, two_iss_with_memmodel and            *)
(* two_iss_rbb_with_memmodel: harts, the uncore, one external RAM and      *)
(* sc_main, which simulates until every thread has counted itself down.    *)
(* The RTL memory is represented by AtomicMem, which MemRtl implements.    *)
(***************************************************************************)
EXTENDS RbbSpike, FiniteSets

CONSTANT UseMemRtl   \* the external RAM is memrtl, else memmodel

ASSUME PlatformAssumption == UseMemRtl \in BOOLEAN /\ IsFiniteSet(Harts)

memVars == <<spike_ram, extram, target>>
hartVars == <<pc, access, trans, status, keep_sim>>
vars == <<memVars, hartVars, running_threads_counter, main, bitbang>>

PlatformTypeOK ==
  /\ pc \in [Harts -> {"step", "uncore", "target", "wait", "pause", "ended"}]
  /\ access \in [Harts -> Calls \cup {NoCall}]
  /\ \A h \in Harts : pc[h] \in {"uncore", "target", "wait"} => access[h] \in Calls
  /\ status \in [Harts -> {OK, ERROR, INCOMPLETE}]
  /\ spike_ram \in [0 .. RamSize - 1 -> Byte]
  /\ extram \in [Addr -> Byte]
  /\ keep_sim \in [Harts -> BOOLEAN]
  /\ running_threads_counter \in 0 .. Cardinality(Harts) + Cardinality(DebugHarts)
  /\ main \in {"running", "stopped", "caught"}
  /\ bitbang \in [DebugHarts -> {"running", "ended"}]

Init ==
  /\ pc = [h \in Harts |-> "step"]
  /\ access = [h \in Harts |-> NoCall]
  /\ trans = [h \in Harts |-> NoCall]
  /\ status = [h \in Harts |-> INCOMPLETE]
  /\ spike_ram \in [0 .. RamSize - 1 -> Byte]
  /\ extram \in [Addr -> Byte]
  /\ target = [h \in Harts |-> Idle]
  /\ keep_sim = [h \in Harts |-> TRUE]
  /\ running_threads_counter = Cardinality(Harts) + Cardinality(DebugHarts)
  /\ main = "running"
  /\ bitbang = [h \in DebugHarts |-> "running"]

Rtl == INSTANCE AtomicMem WITH mem <- extram, client <- target, Threads <- Harts,
                               Readable <- Addr, Writable <- Addr
Functional == INSTANCE MemModel WITH sparse_array <- extram, client <- target,
                                     Threads <- Harts

(* b_transport of the external RAM, between its call and its return. *)
ExternalRam(h) ==
  LET c == target[h].call IN
  /\ target[h].phase = "called"
  /\ IF UseMemRtl THEN Rtl!Refuse(h, c) \/ Rtl!Read(h, c) \/ Rtl!Write(h, c)
                  ELSE Functional!b_transport(h)
  /\ UNCHANGED <<spike_ram, hartVars, running_threads_counter, main, bitbang>>

HartThread(h) ==
  \/ b_transport(h) /\ UNCHANGED <<keep_sim, running_threads_counter, main, bitbang>>
  \/ (MmioReturn(h) \/ Loop(h)) /\ UNCHANGED bitbang

(* Mutant: sc_main waits for the first thread only. *)
Stop_First ==
  /\ main = "running"
  /\ running_threads_counter < Cardinality(Harts) + Cardinality(DebugHarts)
  /\ main' = "stopped"
  /\ UNCHANGED <<memVars, hartVars, running_threads_counter, bitbang>>

(* The loop of sc_start slices ends and sc_main calls sc_stop. *)
Stop ==
  /\ main = "running"
  /\ ~(running_threads_counter > 0)
  /\ main' = "stopped"
  /\ UNCHANGED <<memVars, hartVars, running_threads_counter, bitbang>>

(* sc_main has returned. *)
Returned == main # "running" /\ UNCHANGED vars

Next ==
  \/ /\ main = "running"
     /\ \/ \E h \in Harts : \/ HartThread(h) \/ ExternalRam(h)
                            \/ EndStep(h) /\ UNCHANGED bitbang
                            \/ UncoreAccess(h) \/ LocalAccess(h)
        \/ \E h \in DebugHarts : BitbangThread(h)
  \/ Stop \/ Returned

Spec == Init /\ [][Next]_vars

(* The scheduler runs every runnable thread while sc_main simulates.  What
   an instruction does is up to the program: no fairness for that. *)
FairSpec ==
  /\ Spec
  /\ \A h \in Harts : /\ WF_vars(main = "running" /\ HartThread(h))
                      /\ WF_vars(main = "running" /\ ExternalRam(h))
  /\ \A h \in DebugHarts : WF_vars(main = "running" /\ BitbangThread(h))
  /\ WF_vars(Stop)
-----------------------------------------------------------------------------
(***************************************************************************)
(* Properties.                                                             *)
(***************************************************************************)

(* The physical memory as a program on the harts sees it. *)
Backed == {a \in Extram : a - extram_start_address \in Addr}
Readable == Rom \cup Ram \cup Backed
Writable == Ram \cup Backed
Permitted(c) == Span(c) \subseteq (IF c.cmd = READ THEN Readable ELSE Writable)

PhysicalView == [a \in Readable |->
  IF a \in Backed THEN extram[a - extram_start_address] ELSE BusByte(a)]

View(h) ==
  CASE pc[h] = "uncore" \/ (pc[h] = "target" /\ target[h].phase = "called") ->
         Called(access[h])
    [] pc[h] = "target" /\ target[h].phase = "done" ->
         [target[h] EXCEPT !.call = access[h]]
    [] pc[h] = "wait" ->
         [phase |-> "done", call |-> access[h], status |-> status[h], data |-> trans[h].data]
    [] OTHER -> Idle

HartView == [h \in Harts |-> View(h)]

Physical == INSTANCE AtomicMem WITH mem <- PhysicalView, client <- HartView,
                                    Threads <- Harts

(* Decode, bus, window and external RAM together are one physical memory:
   every access of every hart takes effect at one point on exactly the bytes
   its own address names, or is refused without effect, judged by all of its
   bytes although the decode looks at the first one only. *)
ImplementsPhysicalMemory == Physical!Spec

(* keep_sim falls exactly when an access comes back that the memory map
   refuses: not for a refusal of the local bus, not for the other hart's. *)
EndsOnRefusal ==
  [][\A h \in Harts :
       /\ keep_sim'[h] # keep_sim[h] => pc[h] = "wait" /\ ~Permitted(access[h])
       /\ pc[h] = "wait" /\ pc'[h] # "wait" /\ ~Permitted(access[h]) => ~keep_sim'[h]]_vars

(* Every path of uncore and of the memories sets a response status: the
   default branch of the switch, SC_REPORT_ERROR, is never taken. *)
NoErrorReport == main # "caught"

(* sc_stop comes only after every thread has left its loop, and no
   transaction is left inside the external RAM. *)
StopsWhenAllEnded ==
  main = "stopped" => /\ \A h \in Harts : pc[h] = "ended" /\ target[h] = Idle
                      /\ \A h \in DebugHarts : bitbang[h] = "ended"

(* Once every hart has been refused an access the simulation stops. *)
RefusedHartsStop == (\A h \in Harts : ~keep_sim[h]) ~> main = "stopped"

(* An access that enters uncore comes back to its hart. *)
EveryAccessReturns == \A h \in Harts : pc[h] = "uncore" ~> pc[h] \in {"step", "pause"}
=============================================================================
