------------------------------- MODULE Spike --------------------------------
(***************************************************************************)
(* spike_module: a hart on a SystemC thread of its own.  Spike runs one    *)
(* instruction per step; addr_to_mem is null, so every fetch, load and     *)
(* store that Spike does not answer from its instruction cache goes        *)
(* through mmio_load or mmio_store.  Which accesses an instruction makes   *)
(* is arbitrary; an access that fails traps and is the last of its step.   *)
(***************************************************************************)
EXTENDS Uncore

VARIABLES
  keep_sim,                  \* the hart's thread goes on
  running_threads_counter,   \* shared by all threads and sc_main
  main                       \* sc_main: running, stopped, or caught (return 1)

(* mmio_load and mmio_store fill in the payload and call b_transport. *)
Mmio(h, c) ==
  /\ pc[h] = "step"
  /\ pc' = [pc EXCEPT ![h] = "uncore"]
  /\ access' = [access EXCEPT ![h] = c]
  /\ trans' = [trans EXCEPT ![h] = c]
  /\ status' = [status EXCEPT ![h] = INCOMPLETE]
  /\ UNCHANGED <<spike_ram, extram, target, keep_sim, running_threads_counter, main>>

(* Mutant: a refused access is tried again. *)
MmioReturn_Retries(h) ==
  /\ pc[h] = "wait"
  /\ pc' = [pc EXCEPT ![h] = IF status[h] = OK THEN "step" ELSE "uncore"]
  /\ UNCHANGED <<access, trans, status, spike_ram, extram, target, keep_sim,
                 running_threads_counter, main>>

(* After wait(delay): the switch on the response status.  SC_REPORT_ERROR
   throws, and sc_main catches. *)
MmioReturn(h) ==
  /\ pc[h] = "wait"
  /\ pc' = [pc EXCEPT ![h] = IF status[h] = OK THEN "step" ELSE "pause"]
  /\ keep_sim' = [keep_sim EXCEPT ![h] = @ /\ status[h] # ERROR]
  /\ main' = IF status[h] \in {OK, ERROR} THEN main ELSE "caught"
  /\ UNCHANGED <<access, trans, status, spike_ram, extram, target, running_threads_counter>>

(* proc->step(1) returns and the thread waits for its quantum. *)
EndStep(h) ==
  /\ pc[h] = "step"
  /\ pc' = [pc EXCEPT ![h] = "pause"]
  /\ UNCHANGED <<access, trans, status, spike_ram, extram, target, keep_sim,
                 running_threads_counter, main>>

(* Mutant: the loop does not test the flag. *)
Loop_Forever(h) ==
  /\ pc[h] = "pause"
  /\ pc' = [pc EXCEPT ![h] = "step"]
  /\ UNCHANGED <<access, trans, status, spike_ram, extram, target, keep_sim,
                 running_threads_counter, main>>

(* The test of the while loop in spike_thread. *)
Loop(h) ==
  /\ pc[h] = "pause"
  /\ \/ /\ keep_sim[h]
        /\ pc' = [pc EXCEPT ![h] = "step"]
        /\ UNCHANGED running_threads_counter
     \/ /\ ~keep_sim[h]
        /\ pc' = [pc EXCEPT ![h] = "ended"]
        /\ running_threads_counter' = running_threads_counter - 1
  /\ UNCHANGED <<access, trans, status, spike_ram, extram, target, keep_sim, main>>
=============================================================================
