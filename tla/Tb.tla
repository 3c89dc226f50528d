-------------------------------- MODULE Tb ----------------------------------
(***************************************************************************)
(* The tb_with_memrtl simulation: tb_module's only thread drives the RTL   *)
(* memory of MemRtl and the functional memory of MemModel with the same    *)
(* transactions, compares what it reads, and tells sc_main when it is done.*)
(*                                                                         *)
(* One payload object serves every transaction of the test; the variable   *)
(* payload_ext says whether the RTL delay extension hangs on it.           *)
(***************************************************************************)
EXTENDS MemRtl

CONSTANTS
  tb,        \* the thread of tb_module
  Long,      \* length of the first bursts (22256 in the code)
  Short      \* length of the later ones (2256)

ASSUME TbAssumption ==
  /\ Threads = {tb}
  /\ Long \in Nat /\ Short \in Nat /\ 0 < Short /\ Short <= Long

VARIABLES
  step,          \* transaction of the script under way
  phase,         \* where tb_thread stands in it
  data_array0,   \* buffer of the RTL transaction
  data_array1,   \* buffer of the model transaction
  payload_ext,   \* the payload carries an extension
  sim_test_ok, keep_sim, running_threads_counter,
  sc_main,       \* "running", or "stopped" after sc_stop
  sparse_array, client   \* memmodel_module and the payload it is called with

tbVars == <<step, phase, data_array0, data_array1, payload_ext, sim_test_ok,
            keep_sim, running_threads_counter, sc_main>>
testVars == <<vars, tbVars, sparse_array, client>>

Model == INSTANCE MemModel

Step(store, delay, len) == [store |-> store, delay |-> delay, len |-> len]

(* Mutant: a load with delays comes before the one without. *)
Script_DelaysFirst ==
  <<Step(TRUE, FALSE, Long), Step(FALSE, TRUE, Long), Step(FALSE, FALSE, Long)>>

(* tb_thread: a store, a load, and loads with the delays 1/1, 100/1, 1/100,
   100/100 and 50/50 ns.  The delays only decide which of the timers runs
   out first, and NbRequest and NbResponse come in any order. *)
Script == <<Step(TRUE, FALSE, Long), Step(FALSE, FALSE, Long),
            Step(FALSE, TRUE, Long), Step(FALSE, TRUE, Long),
            Step(FALSE, TRUE, Short), Step(FALSE, TRUE, Short),
            Step(FALSE, TRUE, Short)>>

Buffer(len) == [0 .. len - 1 -> Byte]

Payload(s, buf, ext) ==
  [cmd |-> IF s.store THEN WRITE ELSE READ, addr |-> 0, len |-> s.len,
   data |-> buf, ext |-> ext]

(* The bursts fit into the memory, and Calls holds every transaction that the
   test can send. *)
ASSUME ScriptAssumption ==
  /\ Long <= MaxAddr + 1
  /\ \A i \in 1 .. Len(Script), ext \in BOOLEAN :
       \A buf \in Buffer(Script[i].len) : Payload(Script[i], buf, ext) \in Calls

TestInit ==
  /\ Init
  /\ Model!ModelInit
  /\ step = 1
  /\ phase = "fill"
  /\ data_array0 = <<>> /\ data_array1 = <<>>
  /\ payload_ext = FALSE
  /\ sim_test_ok = TRUE /\ keep_sim = TRUE
  /\ running_threads_counter = 1
  /\ sc_main = "running"
-----------------------------------------------------------------------------
(* Mutant: a store, too, gets two buffers of noise. *)
Fill_Apart ==
  /\ phase = "fill"
  /\ data_array0' \in Buffer(Script[step].len)
  /\ data_array1' \in Buffer(Script[step].len)
  /\ phase' = "drivertl"
  /\ UNCHANGED <<vars, sparse_array, client, step, payload_ext, sim_test_ok,
                 keep_sim, running_threads_counter, sc_main>>

(* fillVecWithRandom on both buffers: a store sends the same bytes to both
   memories, a load leaves different noise in them. *)
Fill ==
  /\ phase = "fill"
  /\ LET s == Script[step] IN
     \E v0, v1 \in Buffer(s.len) :
       /\ s.store => v1 = v0
       /\ data_array0' = v0 /\ data_array1' = v1
  /\ phase' = "drivertl"
  /\ UNCHANGED <<vars, sparse_array, client, step, payload_ext, sim_test_ok,
                 keep_sim, running_threads_counter, sc_main>>

(* drivertl up to b_transport: a call with delays hangs a new extension on
   the payload, a call without leaves the payload's extensions alone. *)
DrivertlCalls ==
  /\ phase = "drivertl"
  /\ payload_ext' = (payload_ext \/ Script[step].delay)
  /\ Call(tb, Payload(Script[step], data_array0, payload_ext'))
  /\ phase' = "rtl"
  /\ UNCHANGED <<sparse_array, client, step, data_array0, data_array1,
                 sim_test_ok, keep_sim, running_threads_counter, sc_main>>

(* drivertl after b_transport.  The variable that clear_extension is given
   is shadowed where the extension is created and still null here, so the
   payload keeps it. *)
DrivertlReturns ==
  /\ phase = "rtl"
  /\ Return(tb)
  /\ data_array0' = data[tb]
  /\ keep_sim' = (keep_sim /\ status[tb] = OK)
  /\ phase' = "drivemodel"
  /\ UNCHANGED <<sparse_array, client, step, data_array1, payload_ext,
                 sim_test_ok, running_threads_counter, sc_main>>

DrivemodelCalls ==
  /\ phase = "drivemodel"
  /\ Model!ModelCall(tb, Payload(Script[step], data_array1, payload_ext))
  /\ phase' = "model"
  /\ UNCHANGED <<vars, step, data_array0, data_array1, payload_ext,
                 sim_test_ok, keep_sim, running_threads_counter, sc_main>>

ModelRuns ==
  /\ Model!b_transport(tb)
  /\ UNCHANGED <<vars, tbVars>>

DrivemodelReturns ==
  /\ phase = "model"
  /\ Model!ModelReturn(tb)
  /\ data_array1' = client[tb].data
  /\ keep_sim' = (keep_sim /\ client[tb].status = OK)
  /\ phase' = "compare"
  /\ UNCHANGED <<vars, step, data_array0, payload_ext, sim_test_ok,
                 running_threads_counter, sc_main>>

(* Mutant: one step too many. *)
Compare_OneMore ==
  /\ phase = "compare"
  /\ step' = step + 1
  /\ phase' = "fill"
  /\ UNCHANGED <<vars, sparse_array, client, data_array0, data_array1,
                 payload_ext, sim_test_ok, keep_sim, running_threads_counter, sc_main>>

(* Mutant: the thread ends without counting itself down. *)
Compare_Uncounted ==
  /\ phase = "compare"
  /\ sim_test_ok' = (sim_test_ok /\ (Script[step].store \/ data_array0 = data_array1))
  /\ step' = IF step < Len(Script) THEN step + 1 ELSE step
  /\ phase' = IF step < Len(Script) THEN "fill" ELSE "finished"
  /\ UNCHANGED <<vars, sparse_array, client, data_array0, data_array1,
                 payload_ext, keep_sim, running_threads_counter, sc_main>>

(* The two buffers of a load are compared; the store has no comparison. *)
Compare ==
  /\ phase = "compare"
  /\ sim_test_ok' = (sim_test_ok /\ (Script[step].store \/ data_array0 = data_array1))
  /\ \/ /\ step < Len(Script)
        /\ step' = step + 1
        /\ phase' = "fill"
        /\ UNCHANGED running_threads_counter
     \/ /\ step = Len(Script)
        /\ phase' = "finished"
        /\ running_threads_counter' = running_threads_counter - 1
        /\ UNCHANGED step
  /\ UNCHANGED <<vars, sparse_array, client, data_array0, data_array1,
                 payload_ext, keep_sim, sc_main>>

TbThread ==
  Fill \/ DrivertlCalls \/ DrivertlReturns \/ DrivemodelCalls \/ ModelRuns
    \/ DrivemodelReturns \/ Compare

(* The rest of the simulation: b_transport of memrtl and the clock.  With one
   thread the mutex is never contended, so there is no Retry. *)
RtlThread ==
  /\ \/ Begin(tb)
     \/ WriteBeat(tb) \/ ReadBeat(tb)
     \/ NbRequest(tb) \/ NbResponse(tb)
  /\ UNCHANGED <<tbVars, sparse_array, client>>

Clock == Kernel /\ UNCHANGED <<tbVars, sparse_array, client>>

(* A slice of sc_start is over and sc_main finds no thread left. *)
Stop ==
  /\ sc_main = "running"
  /\ running_threads_counter = 0
  /\ sc_main' = "stopped"
  /\ UNCHANGED <<vars, sparse_array, client, step, phase, data_array0,
                 data_array1, payload_ext, sim_test_ok, keep_sim,
                 running_threads_counter>>

Stopped == sc_main = "stopped" /\ UNCHANGED testVars

TestNext ==
  \/ sc_main = "running" /\ (TbThread \/ RtlThread \/ Clock)
  \/ Stop
  \/ Stopped

TestSpec == TestInit /\ [][TestNext]_testVars

Running(A) == sc_main = "running" /\ A

(* The kernel goes on, runs the thread when it can, and sc_main gets its
   turn at the end of a slice. *)
FairTestSpec ==
  /\ TestSpec
  /\ WF_testVars(Running(TbThread)) /\ WF_testVars(Running(RtlThread))
  /\ WF_testVars(Running(Clock)) /\ WF_testVars(Stop)
-----------------------------------------------------------------------------
(***************************************************************************)
(* Properties.                                                             *)
(***************************************************************************)

TestTypeOK ==
  /\ TypeOK
  /\ step \in 1 .. Len(Script)
  /\ phase \in {"fill", "drivertl", "rtl", "drivemodel", "model", "compare", "finished"}
  /\ data_array0 \in {<<>>} \cup Buffer(Long) \cup Buffer(Short)
  /\ data_array1 \in {<<>>} \cup Buffer(Long) \cup Buffer(Short)
  /\ payload_ext \in BOOLEAN /\ sim_test_ok \in BOOLEAN /\ keep_sim \in BOOLEAN
  /\ running_threads_counter \in 0 .. 1
  /\ sc_main \in {"running", "stopped"}

(* tb_thread ends in SIMULATION_PASS: no load of the script ever differs
   between the RTL behind its queues and the functional memory, whatever
   noise the buffers, the RAM and the RTL registers started with. *)
NoMismatch == sim_test_ok

(* The verdict looks at the buffers only and drops what drivertl and
   drivemodel return; it still never hides a transaction that failed. *)
PassMeansNoError == phase = "finished" /\ sim_test_ok => keep_sim

(* The two transactions without delays use the blocking mode, the others the
   non-blocking one, although they share one payload and its extension. *)
ModeMatchesStep ==
  phase = "rtl" => call[tb].ext = Script[step].delay

(* tb.cpp:169, "creating TLM2.0 extension dynamically and then destroying it
   after b_transport call": between two transactions the payload has none. *)
ExtensionDestroyed == phase \in {"fill", "drivemodel", "model", "compare"} => ~payload_ext

(* sc_main leaves its loop: the test neither hangs in the pipeline nor
   forgets to count its thread down. *)
TestCompletes == <>(sc_main = "stopped")
=============================================================================
