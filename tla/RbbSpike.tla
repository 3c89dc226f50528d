------------------------------ MODULE RbbSpike ------------------------------
(***************************************************************************)
(* rbbspike_module: a hart with a debug module.  It has a second thread    *)
(* that serves the remote bitbang socket until the hart's keep_sim is      *)
(* cleared, and a local bus for the debug module, which the hart reaches   *)
(* without going through uncore.                                           *)
(***************************************************************************)
EXTENDS Spike

CONSTANT DebugHarts   \* harts that are rbbspike_modules

ASSUME DebugAssumption == DebugHarts \subseteq Harts

VARIABLE bitbang   \* the bitbang threads: running or ended

(* RBBSPIKE_DEBUG_START is 0 and a debug module fills one page. *)
LocalBus == 0 .. PGSIZE - 1

Local(h, c) == h \in DebugHarts /\ Page(c.addr) \subseteq LocalBus

(* Mutant: a failure on the local bus ends the simulation as well. *)
LocalAccess_Ends(h) ==
  /\ pc[h] = "step"
  /\ \E c \in Calls : Local(h, c)
  /\ pc' = [pc EXCEPT ![h] = "pause"]
  /\ keep_sim' = [keep_sim EXCEPT ![h] = FALSE]
  /\ UNCHANGED <<access, trans, status, spike_ram, extram, target,
                 running_threads_counter, main, bitbang>>

(* The debug module answers at once; its refusal traps, and no more. *)
LocalAccess(h) ==
  /\ pc[h] = "step"
  /\ \E c \in Calls : Local(h, c)
  /\ \E found \in BOOLEAN : pc' = [pc EXCEPT ![h] = IF found THEN "step" ELSE "pause"]
  /\ UNCHANGED <<access, trans, status, spike_ram, extram, target, keep_sim,
                 running_threads_counter, main, bitbang>>

UncoreAccess(h) == \E c \in Calls : ~Local(h, c) /\ Mmio(h, c) /\ UNCHANGED bitbang

(* Mutant: the thread does not leave its loop when it counts itself down. *)
BitbangThread_Stays(h) ==
  /\ bitbang[h] = "running" /\ ~keep_sim[h]
  /\ running_threads_counter' = running_threads_counter - 1
  /\ UNCHANGED <<pc, access, trans, status, spike_ram, extram, target, keep_sim, main,
                 bitbang>>

(* A tick only changes the debug module; the thread leaves its loop at the
   first test that finds the hart's flag cleared. *)
BitbangThread(h) ==
  /\ bitbang[h] = "running" /\ ~keep_sim[h]
  /\ bitbang' = [bitbang EXCEPT ![h] = "ended"]
  /\ running_threads_counter' = running_threads_counter - 1
  /\ UNCHANGED <<pc, access, trans, status, spike_ram, extram, target, keep_sim, main>>
=============================================================================
