------------------------------ MODULE TbProofs ------------------------------
(***************************************************************************)
(* Proofs about Tb: the test passes, for any memory, any bursts that fit   *)
(* into it, any queue depth and any noise in RAM, registers and buffers.   *)
(* Of MemRtl they use only that it is an atomic memory.                    *)
(***************************************************************************)
EXTENDS Tb, MemRtlProofs

Phases == {"fill", "drivertl", "rtl", "drivemodel", "model", "compare", "finished"}

(* The first n bytes of d are those of the memory m. *)
Held(d, m, n) == \A k \in 0 .. n - 1 : d[k] = m[k]

(* A target with memory m has been called with buffer b for step s of the
   script, and has done with it, or not yet. *)
CalledFor(v, s, b, ext) == v = [phase |-> "called", call |-> Payload(s, b, ext)]

DoneFor(v, m, s, b, ext) ==
  /\ v = [phase |-> "done", call |-> Payload(s, b, ext), status |-> OK, data |-> v.data]
  /\ v.data \in Buffer(s.len) /\ Held(v.data, m, s.len)
  /\ s.store => v.data = b

Pending(v, m, s, b, ext) == CalledFor(v, s, b, ext) \/ DoneFor(v, m, s, b, ext)

ControlInv ==
  /\ step \in 1 .. 7 /\ phase \in Phases
  /\ phase = "finished" => step = 7
  /\ sc_main \in {"running", "stopped"}
  /\ running_threads_counter = IF phase = "finished" THEN 0 ELSE 1
  /\ sim_test_ok = TRUE /\ keep_sim = TRUE

(* The payload has the extension from the first step with delays on. *)
ExtInv ==
  /\ payload_ext \in BOOLEAN
  /\ step < 3 => payload_ext = FALSE
  /\ step > 3 => payload_ext = TRUE
  /\ step = 3 /\ phase \in {"fill", "drivertl"} => payload_ext = FALSE
  /\ step = 3 /\ phase \notin {"fill", "drivertl"} => payload_ext = TRUE

BufferInv ==
  /\ data_array0 \in {<<>>} \cup Buffer(Long) \cup Buffer(Short)
  /\ data_array1 \in {<<>>} \cup Buffer(Long) \cup Buffer(Short)
  /\ phase \notin {"fill", "finished"} =>
       data_array0 \in Buffer(Script[step].len) /\ data_array1 \in Buffer(Script[step].len)
  /\ step = 1 /\ phase # "fill" => data_array1 = data_array0

RtlInv ==
  /\ phase # "rtl" => pc[tb] = "idle"
  /\ phase = "rtl" =>
       Pending(ClientView[tb], MemView, Script[step], data_array0, payload_ext)
  /\ phase \in {"drivemodel", "model", "compare"} =>
       Held(data_array0, MemView, Script[step].len)

ModelInv ==
  /\ sparse_array \in [Addr -> Byte]
  /\ client = [t \in Threads |-> client[t]]
  /\ phase # "model" => client[tb] = [phase |-> "idle"]
  /\ phase = "model" =>
       Pending(client[tb], sparse_array, Script[step], data_array1, payload_ext)
  /\ phase = "compare" => Held(data_array1, sparse_array, Script[step].len)

(* From the first load on the two memories agree on what the loads read. *)
SameInv == step > 1 => Held(MemView, sparse_array, Long)

TestInv ==
  /\ IInv
  /\ ControlInv /\ ExtInv /\ BufferInv /\ RtlInv /\ ModelInv /\ SameInv

-----------------------------------------------------------------------------
LEMMA ScriptSteps ==
  /\ Len(Script) = 7
  /\ \A i \in 1 .. 7 :
       /\ i = 1 => Script[i].store = TRUE
       /\ i # 1 => Script[i].store = FALSE
       /\ i <= 2 => Script[i].delay = FALSE
       /\ i > 2 => Script[i].delay = TRUE
       /\ Script[i].len = IF i <= 4 THEN Long ELSE Short
<1>1. Len(Script) = 7
  BY DEF Script
<1>2. ASSUME NEW i \in 1 .. 7
      PROVE  /\ i = 1 => Script[i].store = TRUE
             /\ i # 1 => Script[i].store = FALSE
             /\ i <= 2 => Script[i].delay = FALSE
             /\ i > 2 => Script[i].delay = TRUE
             /\ Script[i].len = IF i <= 4 THEN Long ELSE Short
  <2>1. i = 1 \/ i = 2 \/ i = 3 \/ i = 4 \/ i = 5 \/ i = 6 \/ i = 7
    OBVIOUS
  <2>2. /\ Script[1] = Step(TRUE, FALSE, Long) /\ Script[2] = Step(FALSE, FALSE, Long)
        /\ Script[3] = Step(FALSE, TRUE, Long) /\ Script[4] = Step(FALSE, TRUE, Long)
        /\ Script[5] = Step(FALSE, TRUE, Short) /\ Script[6] = Step(FALSE, TRUE, Short)
        /\ Script[7] = Step(FALSE, TRUE, Short)
    BY DEF Script
  <2>4. CASE i = 1
    <3>1. Script[1].store = TRUE /\ Script[1].delay = FALSE /\ Script[1].len = Long
      BY <2>2 DEF Step
    <3>. QED  BY <2>4, <3>1
  <2>5. CASE i = 2
    <3>1. Script[2].store = FALSE /\ Script[2].delay = FALSE /\ Script[2].len = Long
      BY <2>2 DEF Step
    <3>. QED  BY <2>5, <3>1
  <2>6. CASE i \in {3, 4}
    <3>1. Script[i].store = FALSE /\ Script[i].delay = TRUE /\ Script[i].len = Long
      BY <2>2, <2>6 DEF Step
    <3>. QED  BY <2>6, <3>1
  <2>7. CASE i \in {5, 6, 7}
    <3>1. Script[i].store = FALSE /\ Script[i].delay = TRUE /\ Script[i].len = Short
      BY <2>2, <2>7 DEF Step
    <3>. QED  BY <2>7, <3>1
  <2>. QED  BY <2>1, <2>4, <2>5, <2>6, <2>7
<1>. QED  BY <1>1, <1>2

LEMMA ScriptLengths ==
  ASSUME NEW i \in 1 .. 7
  PROVE  /\ Script[i].len \in Nat \ {0} /\ Script[i].len <= Long /\ Long \in Nat
         /\ Script[i].len \in {Long, Short}
         /\ Long <= MaxAddr + 1 /\ MaxAddr \in Nat
         /\ i = 1 => Script[i].len = Long
         /\ \A b \in Buffer(Script[i].len), ext \in BOOLEAN : Payload(Script[i], b, ext) \in Calls
<1>1. Script[i].len = IF i <= 4 THEN Long ELSE Short
  BY ScriptSteps
<1>2. Long \in Nat /\ Short \in Nat /\ 0 < Short /\ Short <= Long /\ MaxAddr \in Nat
      /\ Long <= MaxAddr + 1
  BY TbAssumption, ScriptAssumption, MemoryAssumption
<1>3. \A b \in Buffer(Script[i].len), ext \in BOOLEAN : Payload(Script[i], b, ext) \in Calls
  BY ScriptSteps, ScriptAssumption
<1>. QED  BY <1>1, <1>2, <1>3

LEMMA BufferFacts ==
  ASSUME NEW i \in 1 .. 7, NEW b \in Buffer(Script[i].len)
  PROVE  /\ Script[i].len \in Nat /\ Script[i].len <= MaxAddr + 1 /\ MaxAddr \in Nat
         /\ b \in [0 .. Script[i].len - 1 -> Byte]
<1>1. Script[i].len \in Nat /\ Script[i].len <= MaxAddr + 1 /\ MaxAddr \in Nat
  BY ScriptLengths
<1>2. b \in [0 .. Script[i].len - 1 -> Byte]
  BY DEF Buffer
<1>. QED  BY <1>1, <1>2

LEMMA PayloadFacts ==
  ASSUME NEW i \in 1 .. 7, NEW b, NEW ext \in BOOLEAN
  PROVE  LET c == Payload(Script[i], b, ext) IN
         /\ c.addr = 0 /\ c.len = Script[i].len /\ c.data = b /\ c.ext = ext
         /\ Script[i].store => c.cmd = WRITE
         /\ ~Script[i].store => c.cmd = READ
         /\ InRange(c) /\ Model!ModelInRange(c)
<1>1. /\ Payload(Script[i], b, ext).addr = 0 /\ Payload(Script[i], b, ext).data = b
      /\ Payload(Script[i], b, ext).len = Script[i].len /\ Payload(Script[i], b, ext).ext = ext
      /\ Script[i].store => Payload(Script[i], b, ext).cmd = WRITE
      /\ ~Script[i].store => Payload(Script[i], b, ext).cmd = READ
  BY DEF Payload
<1>. DEFINE c == Payload(Script[i], b, ext)
<1>2. Script[i].len \in Nat \ {0} /\ Script[i].len <= MaxAddr + 1 /\ MaxAddr \in Nat
  BY ScriptLengths
<1>. HIDE DEF c
<1>3. c.addr = 0 /\ c.len = Script[i].len
  BY <1>1 DEF c
<1>4. InRange(c) /\ Model!ModelInRange(c)
  BY <1>2, <1>3 DEF InRange, Model!ModelInRange
<1>. QED  BY <1>1, <1>4 DEF c

-----------------------------------------------------------------------------
(* The target is an atomic memory, and it finishes what it was called for. *)
LEMMA ViewsStay ==
  ASSUME UNCHANGED vars
  PROVE  UNCHANGED <<MemView, ClientView>>
BY DEF vars, pipeVars, threadVars, MemView, OwnerWrites, ClientView, DataView

LEMMA MemViewType ==
  ASSUME IInv
  PROVE  MemView \in [Addr -> Byte]
<1>1. rtl_access \in Threads \cup {NoThread} /\ ram \in [Addr -> Byte]
  BY ThreadTypes
<1>2. CASE rtl_access = NoThread
  BY <1>1, <1>2, MemViewCases
<1>3. ASSUME NEW t \in Threads, rtl_access = t  PROVE MemView \in [Addr -> Byte]
  <2>1. pc[t] # "idle"
    BY <1>3 DEF IInv, MutexInv, ThreadInv, PlaceInv
  <2>2. call[t] \in Calls
    BY <2>1, ActiveCall
  <2>3. ASSUME NEW c \in Calls, NEW a \in Addr, a \in c.addr .. c.addr + c.len - 1
        PROVE  c.data[a - c.addr] \in Byte
    <3>1. a - c.addr \in 0 .. c.len - 1
      BY <2>3, CallFacts
    <3>. QED  BY <3>1, CallFacts DEF CallBuffer
  <2>4. MemView = Through(call[t], ram)
    BY <1>3, MemViewCases
  <2>. QED  BY <1>1, <2>2, <2>3, <2>4 DEF Through
<1>. QED  BY <1>1, <1>2, <1>3

(* What memrtl does between the call and the return of a transaction: it
   takes effect once, and a load leaves the memory alone. *)
LEMMA TargetServes ==
  ASSUME IInv, NEW i \in 1 .. 7, NEW b \in Buffer(Script[i].len), NEW ext \in BOOLEAN,
         Pending(ClientView[tb], MemView, Script[i], b, ext),
         Atomic!Next \/ UNCHANGED <<MemView, ClientView>>,
         ClientView'[tb].phase # "idle"
  PROVE  /\ Pending(ClientView'[tb], MemView', Script[i], b, ext)
         /\ i # 1 => MemView' = MemView
<1>. DEFINE c == Payload(Script[i], b, ext)
            len == Script[i].len
<1>1. /\ c.addr = 0 /\ c.len = len /\ c.data = b
      /\ i = 1 => c.cmd = WRITE
      /\ i # 1 => c.cmd = READ
      /\ InRange(c) /\ c \in Calls
  BY PayloadFacts, ScriptLengths, ScriptSteps
<1>2. len \in Nat /\ len <= MaxAddr + 1 /\ MaxAddr \in Nat /\ b \in [0 .. len - 1 -> Byte]
  BY BufferFacts
<1>3. tb \in DOMAIN ClientView /\ Threads = {tb}
  BY TbAssumption DEF ClientView
<1>4. MemView \in [Addr -> Byte] /\ Addr = 0 .. MaxAddr
  BY MemViewType DEF Addr
<1>5. i # 1 => Script[i].store = FALSE
  BY ScriptSteps
<1>6. ASSUME NEW v, NEW m, v = Atomic!Done(c, OK, v.data), v.data \in [0 .. len - 1 -> Byte],
             Held(v.data, m, len), i = 1 => v.data = b
      PROVE  Pending(v, m, Script[i], b, ext)
  <2>1. Script[i].store => v.data = b
    BY <1>5, <1>6
  <2>. QED  BY <1>6, <2>1 DEF Pending, DoneFor, Atomic!Done, Buffer
<1>7. ClientView[tb].phase \in {"called", "done"} /\ ClientView[tb].call = c
  BY DEF Pending, CalledFor, DoneFor
<1>. HIDE DEF c, len
<1>8. CASE UNCHANGED <<MemView, ClientView>>
  BY <1>8
<1>9. CASE Atomic!Next
  <2>1. ~Atomic!Return(tb)
    BY <1>3 DEF Atomic!Return, Atomic!Idle
  <2>2. ASSUME NEW e \in Calls, Atomic!Invoke(tb, e)  PROVE FALSE
    BY <1>7, <2>2 DEF Atomic!Invoke, Atomic!Idle
  <2>3. ASSUME NEW e, ClientView[tb] = Atomic!Called(e)  PROVE e = c
    BY <1>7, <2>3 DEF Atomic!Called
  <2>4. ASSUME NEW e \in Calls, Atomic!Refuse(tb, e)  PROVE FALSE
    <3>1. e = c /\ ~Atomic!Fits(e)
      BY <2>3, <2>4 DEF Atomic!Refuse
    <3>. QED  BY <1>1, <3>1, FitsInRange
  <2>5. ASSUME NEW e \in Calls, Atomic!Read(tb, e)
        PROVE  Pending(ClientView'[tb], MemView', Script[i], b, ext) /\ MemView' = MemView
    <3>1. e = c /\ c.cmd = Atomic!READ
      BY <2>3, <2>5 DEF Atomic!Read
    <3>2. i # 1
      BY <1>1, <3>1 DEF Atomic!READ, WRITE
    <3>. DEFINE d == [k \in Atomic!Bytes(c) |-> MemView[c.addr + k]]
    <3>3. ClientView'[tb] = Atomic!Done(c, OK, d) /\ MemView' = MemView
      BY <1>3, <2>5, <3>1 DEF Atomic!Read, OK, Atomic!OK
    <3>4. d = [k \in 0 .. len - 1 |-> MemView[0 + k]]
      BY <1>1 DEF Atomic!Bytes
    <3>. HIDE DEF d
    <3>5. \A k \in 0 .. len - 1 : d[k] = MemView[k] /\ k \in Addr
      BY <1>2, <1>4, <3>4
    <3>6. d \in [0 .. len - 1 -> Byte] /\ Held(d, MemView, len)
      BY <1>4, <3>4, <3>5 DEF Held
    <3>7. ClientView'[tb].data = d
      BY <3>3 DEF Atomic!Done
    <3>. QED  BY <1>6, <3>2, <3>3, <3>6, <3>7
  <2>6. ASSUME NEW e \in Calls, Atomic!Write(tb, e)
        PROVE  Pending(ClientView'[tb], MemView', Script[i], b, ext) /\ i = 1
    <3>1. e = c /\ c.cmd = Atomic!WRITE
      BY <2>3, <2>6 DEF Atomic!Write
    <3>2. i = 1
      BY <1>1, <3>1 DEF Atomic!WRITE, READ
    <3>3. /\ ClientView'[tb] = Atomic!Done(c, OK, b)
          /\ MemView' = [a \in Addr |-> IF a \in Atomic!Span(c) THEN b[a - c.addr] ELSE MemView[a]]
      BY <1>1, <1>3, <2>6, <3>1 DEF Atomic!Write, OK, Atomic!OK
    <3>4. Atomic!Span(c) = 0 .. len - 1
      BY <1>1, <1>2 DEF Atomic!Span
    <3>5. \A k \in 0 .. len - 1 : k \in Addr /\ k - 0 = k
      BY <1>2, <1>4
    <3>6. Held(b, MemView', len)
      BY <1>1, <3>3, <3>4, <3>5 DEF Held
    <3>7. ClientView'[tb].data = b
      BY <3>3 DEF Atomic!Done
    <3>. QED  BY <1>2, <1>6, <3>2, <3>3, <3>6, <3>7
  <2>. QED  BY <1>3, <1>9, <2>1, <2>2, <2>4, <2>5, <2>6 DEF Atomic!Next
<1>. QED  BY <1>8, <1>9

(* What memmodel does: the same, in one step, as the test only uses
   addresses from 0 on. *)
LEMMA ModelServes ==
  ASSUME NEW i \in 1 .. 7, NEW b \in Buffer(Script[i].len), NEW ext \in BOOLEAN,
         sparse_array \in [Addr -> Byte], client = [t \in Threads |-> client[t]],
         Pending(client[tb], sparse_array, Script[i], b, ext),
         Model!b_transport(tb)
  PROVE  /\ Pending(client'[tb], sparse_array', Script[i], b, ext)
         /\ sparse_array' \in [Addr -> Byte] /\ client' = [t \in Threads |-> client'[t]]
         /\ i # 1 => sparse_array' = sparse_array
<1>. DEFINE c == Payload(Script[i], b, ext)
            len == Script[i].len
<1>1. /\ c.addr = 0 /\ c.len = len /\ c.data = b
      /\ i = 1 => c.cmd = WRITE
      /\ i # 1 => c.cmd = READ
      /\ Model!ModelInRange(c) /\ c \in Calls
  BY PayloadFacts, ScriptLengths, ScriptSteps
<1>2. len \in Nat /\ len <= MaxAddr + 1 /\ MaxAddr \in Nat /\ b \in [0 .. len - 1 -> Byte]
  BY BufferFacts
<1>3. tb \in Threads
  BY TbAssumption
<1>4. Addr = 0 .. MaxAddr /\ Model!Addr = Addr
  BY DEF Addr, Model!Addr
<1>5. i # 1 => Script[i].store = FALSE
  BY ScriptSteps
<1>6. ASSUME NEW v, NEW m, v = Model!Done(c, OK, v.data), v.data \in [0 .. len - 1 -> Byte],
             Held(v.data, m, len), i = 1 => v.data = b
      PROVE  Pending(v, m, Script[i], b, ext)
  <2>1. Script[i].store => v.data = b
    BY <1>5, <1>6
  <2>. QED  BY <1>6, <2>1 DEF Pending, DoneFor, Model!Done, Buffer
<1>7. client[tb].call = c
  BY DEF Pending, CalledFor, DoneFor
<1>. HIDE DEF c, len
<1>8. CASE i # 1
  <2>. DEFINE d == Model!Loaded(c)
  <2>1. c.cmd # Model!WRITE
    BY <1>1, <1>8 DEF READ, Model!WRITE
  <2>2. client' = [client EXCEPT ![tb] = Model!Done(c, OK, d)] /\ sparse_array' = sparse_array
    BY <1>1, <1>7, <2>1 DEF Model!b_transport, OK, Model!OK
  <2>3. d = [k \in 0 .. len - 1 |-> sparse_array[k]]
    BY <1>1 DEF Model!Loaded
  <2>. HIDE DEF d
  <2>4. \A k \in 0 .. len - 1 : d[k] = sparse_array[k] /\ k \in Addr
    BY <1>2, <1>4, <2>3
  <2>5. d \in [0 .. len - 1 -> Byte] /\ Held(d, sparse_array, len)
    BY <1>4, <2>3, <2>4 DEF Held
  <2>6. client'[tb] = Model!Done(c, OK, d) /\ client' = [t \in Threads |-> client'[t]]
    BY <1>3, <2>2
  <2>7. client'[tb].data = d
    BY <2>6 DEF Model!Done
  <2>8. Pending(client'[tb], sparse_array', Script[i], b, ext)
    BY <1>6, <1>8, <2>2, <2>5, <2>6, <2>7
  <2>. QED  BY <2>2, <2>6, <2>8
<1>9. CASE i = 1
  <2>1. c.cmd # Model!READ
    BY <1>1, <1>9 DEF WRITE, Model!READ
  <2>2. client' = [client EXCEPT ![tb] = Model!Done(c, OK, b)] /\ sparse_array' = Model!Stored(c)
    BY <1>1, <1>7, <2>1 DEF Model!b_transport, OK, Model!OK
  <2>3. sparse_array' = [a \in Addr |-> IF a < len THEN b[a] ELSE sparse_array[a]]
    BY <1>1, <1>4, <2>2 DEF Model!Stored
  <2>4. \A k \in 0 .. len - 1 : k \in Addr /\ k < len
    BY <1>2, <1>4
  <2>5. Held(b, sparse_array', len)
    BY <2>3, <2>4 DEF Held
  <2>6. \A a \in Addr : a < len => a \in 0 .. len - 1
    BY <1>2, <1>4
  <2>7. sparse_array' \in [Addr -> Byte]
    BY <1>2, <2>3, <2>6
  <2>8. client'[tb] = Model!Done(c, OK, b) /\ client' = [t \in Threads |-> client'[t]]
    BY <1>3, <2>2
  <2>9. client'[tb].data = b
    BY <2>8 DEF Model!Done
  <2>10. Pending(client'[tb], sparse_array', Script[i], b, ext)
    BY <1>2, <1>6, <2>5, <2>8, <2>9
  <2>. QED  BY <1>9, <2>7, <2>8, <2>10
<1>. QED  BY <1>8, <1>9

LEMMA TestInitInv == TestInit => TestInv
<1>. SUFFICES ASSUME TestInit  PROVE TestInv
  OBVIOUS
<1>1. IInv
  BY InitInv DEF TestInit
<1>2. ControlInv
  BY DEF TestInit, ControlInv, Phases
<1>6. ExtInv
  <2>1. step = 1 /\ phase = "fill" /\ payload_ext = FALSE
    BY DEF TestInit
  <2>2. ~(step > 3) /\ step # 3
    BY <2>1
  <2>. QED  BY <2>1, <2>2, Zenon DEF ExtInv
<1>7. BufferInv
  BY DEF TestInit, BufferInv
<1>3. RtlInv
  BY TbAssumption DEF TestInit, Init, RtlInv
<1>4. ModelInv
  BY TbAssumption, MemoryAssumption DEF TestInit, Model!ModelInit, ModelInv, Model!Addr, Addr, Model!Idle
<1>5. SameInv
  BY DEF TestInit, SameInv
<1>. QED  BY <1>1, <1>2, <1>3, <1>4, <1>5, <1>6, <1>7 DEF TestInv
-----------------------------------------------------------------------------
(***************************************************************************)
(* Every step of the test keeps TestInv.                                   *)
(***************************************************************************)
LEMMA TestFacts ==
  ASSUME TestInv
  PROVE  /\ step \in 1 .. 7 /\ Threads = {tb} /\ tb \in Threads
         /\ payload_ext \in BOOLEAN
         /\ phase \notin {"fill", "finished"} =>
              data_array0 \in Buffer(Script[step].len) /\ data_array1 \in Buffer(Script[step].len)
BY TbAssumption DEF TestInv, ControlInv, ExtInv, BufferInv

(* Each part of TestInv outlives a step that leaves alone what it is about. *)
LEMMA PartsStay ==
  ASSUME TestInv
  PROVE  /\ UNCHANGED <<step, phase, sc_main, running_threads_counter, sim_test_ok, keep_sim>>
              => ControlInv'
         /\ UNCHANGED <<step, phase, payload_ext>> => ExtInv'
         /\ UNCHANGED <<step, phase, data_array0, data_array1>> => BufferInv'
         /\ UNCHANGED <<step, phase, data_array0, payload_ext, MemView, ClientView, pc>> => RtlInv'
         /\ UNCHANGED <<step, phase, data_array1, payload_ext, sparse_array, client>> => ModelInv'
         /\ UNCHANGED <<step, MemView, sparse_array>> => SameInv'
<1>1. UNCHANGED <<step, phase, sc_main, running_threads_counter, sim_test_ok, keep_sim>>
        => ControlInv'
  BY DEF TestInv, ControlInv
<1>2. UNCHANGED <<step, phase, payload_ext>> => ExtInv'
  BY DEF TestInv, ExtInv
<1>3. UNCHANGED <<step, phase, data_array0, data_array1>> => BufferInv'
  BY DEF TestInv, BufferInv
<1>4. UNCHANGED <<step, phase, data_array0, payload_ext, MemView, ClientView, pc>> => RtlInv'
  BY DEF TestInv, RtlInv, Pending, CalledFor, DoneFor, Held
<1>5. UNCHANGED <<step, phase, data_array1, payload_ext, sparse_array, client>> => ModelInv'
  BY DEF TestInv, ModelInv, Pending, CalledFor, DoneFor, Held
<1>6. UNCHANGED <<step, MemView, sparse_array>> => SameInv'
  BY DEF TestInv, SameInv, Held
<1>. QED  BY <1>1, <1>2, <1>3, <1>4, <1>5, <1>6

LEMMA RtlRests ==
  ASSUME TestInv, UNCHANGED vars
  PROVE  IInv' /\ UNCHANGED <<MemView, ClientView, pc>>
<1>1. IInv'
  BY NextKeeps DEF TestInv
<1>. QED  BY <1>1, ViewsStay DEF vars, threadVars

LEMMA FillKeeps ==
  ASSUME TestInv, Fill
  PROVE  TestInv'
<1>1. /\ phase = "fill" /\ phase' = "drivertl"
      /\ UNCHANGED <<vars, sparse_array, client, step, payload_ext, sim_test_ok,
                     keep_sim, running_threads_counter, sc_main>>
      /\ data_array0' \in Buffer(Script[step].len) /\ data_array1' \in Buffer(Script[step].len)
      /\ Script[step].store => data_array1' = data_array0'
  BY DEF Fill
<1>2. IInv' /\ UNCHANGED <<MemView, ClientView, pc>>
  BY <1>1, RtlRests
<1>3. ControlInv'
  BY <1>1 DEF TestInv, ControlInv, Phases
<1>4. ExtInv'
  BY <1>1 DEF TestInv, ExtInv
<1>5. BufferInv'
  <2>1. Script[step].len \in {Long, Short}
    BY TestFacts, ScriptLengths
  <2>2. step = 1 => Script[step].store = TRUE
    BY TestFacts, ScriptSteps
  <2>. QED  BY <1>1, <2>1, <2>2 DEF BufferInv
<1>6. RtlInv'
  BY <1>1, <1>2 DEF TestInv, RtlInv
<1>7. ModelInv'
  BY <1>1 DEF TestInv, ModelInv
<1>8. SameInv'
  BY <1>1, <1>2, PartsStay
<1>. QED  BY <1>2, <1>3, <1>4, <1>5, <1>6, <1>7, <1>8 DEF TestInv

LEMMA DrivertlCallsKeeps ==
  ASSUME TestInv, DrivertlCalls
  PROVE  TestInv'
<1>. DEFINE c == Payload(Script[step], data_array0, payload_ext')
<1>1. /\ phase = "drivertl" /\ phase' = "rtl" /\ Call(tb, c)
      /\ payload_ext' = (payload_ext \/ Script[step].delay)
      /\ UNCHANGED <<sparse_array, client, step, data_array0, data_array1,
                     sim_test_ok, keep_sim, running_threads_counter, sc_main>>
  BY DEF DrivertlCalls
<1>2. payload_ext' \in BOOLEAN /\ step \in 1 .. 7 /\ tb \in Threads
  BY <1>1, TestFacts, Zenon
<1>3. c \in Calls
  BY <1>1, <1>2, TestFacts, ScriptLengths
<1>. HIDE DEF c
<1>4. IInv'
  BY <1>1, <1>2, <1>3, NextKeeps DEF TestInv, Next
<1>5. Atomic!Invoke(tb, c)
  BY <1>1, <1>2, <1>3, <1>4, CallRefines DEF TestInv
<1>6. ClientView'[tb] = Atomic!Called(c) /\ MemView' = MemView
  <2>1. tb \in DOMAIN ClientView
    BY <1>2 DEF ClientView
  <2>. QED  BY <1>5, <2>1 DEF Atomic!Invoke
<1>7. ControlInv'
  BY <1>1 DEF TestInv, ControlInv, Phases
<1>8. ExtInv'
  <2>1. /\ step < 3 => payload_ext = FALSE /\ Script[step].delay = FALSE
        /\ step >= 3 => Script[step].delay = TRUE
    BY <1>1, <1>2, ScriptSteps DEF TestInv, ExtInv
  <2>2. step < 3 => payload_ext' = FALSE
    BY <1>1, <2>1, Zenon
  <2>3. step >= 3 => payload_ext' = TRUE
    BY <1>1, <2>1, Zenon
  <2>4. step > 3 => payload_ext' = TRUE
    BY <1>2, <2>3
  <2>5. step = 3 => payload_ext' = TRUE
    BY <2>3
  <2>. QED  BY <1>1, <1>2, <2>2, <2>4, <2>5 DEF ExtInv
<1>9. BufferInv'
  BY <1>1 DEF TestInv, BufferInv
<1>10. RtlInv'
  BY <1>1, <1>6 DEF RtlInv, Pending, CalledFor, Atomic!Called, c
<1>11. ModelInv'
  BY <1>1 DEF TestInv, ModelInv
<1>12. SameInv'
  BY <1>1, <1>6, PartsStay
<1>. QED  BY <1>4, <1>7, <1>8, <1>9, <1>10, <1>11, <1>12 DEF TestInv

(* A thread that is neither idle nor at its return stays on the way. *)
LEMMA StillOut ==
  ASSUME IInv, tb \in Threads,
         Begin(tb) \/ WriteBeat(tb) \/ ReadBeat(tb) \/ NbRequest(tb) \/ NbResponse(tb)
  PROVE  pc[tb] # "idle" /\ pc'[tb] \in Waits \cup Runs
<1>1. CASE Begin(tb)
  BY <1>1, ThreadTypes DEF Begin, Lock, Waits, Runs
<1>2. CASE WriteBeat(tb)
  BY <1>2, ThreadTypes DEF WriteBeat, Runs
<1>3. CASE NbRequest(tb)
  BY <1>3, ThreadTypes DEF NbRequest, Runs
<1>4. ASSUME NEW next \in {"write", "nb"}, pc[tb] \in {"read", "nb"}, TakeResp(tb, next)
      PROVE  pc[tb] # "idle" /\ pc'[tb] \in Waits \cup Runs
  BY <1>4, ThreadTypes DEF TakeResp, Unlock, Runs
<1>5. CASE ReadBeat(tb) \/ NbResponse(tb)
  BY <1>4, <1>5 DEF ReadBeat, NbResponse
<1>. QED  BY <1>1, <1>2, <1>3, <1>5

LEMMA RtlThreadKeeps ==
  ASSUME TestInv, RtlThread
  PROVE  TestInv'
<1>1. /\ Begin(tb) \/ WriteBeat(tb) \/ ReadBeat(tb) \/ NbRequest(tb) \/ NbResponse(tb)
      /\ UNCHANGED <<sparse_array, client>>
      /\ UNCHANGED <<step, phase, data_array0, data_array1, payload_ext, sim_test_ok,
                     keep_sim, running_threads_counter, sc_main>>
  BY DEF RtlThread, tbVars
<1>2. tb \in Threads /\ step \in 1 .. 7 /\ payload_ext \in BOOLEAN
  BY TestFacts
<1>3. pc[tb] # "idle" /\ pc'[tb] \in Waits \cup Runs
  BY <1>1, <1>2, StillOut DEF TestInv
<1>4. phase = "rtl"
  BY <1>3 DEF TestInv, RtlInv
<1>5. [Next]_vars
  BY <1>1, <1>2 DEF Next, ThreadStep
<1>6. IInv'
  BY <1>5, NextKeeps DEF TestInv
<1>7. Atomic!Next \/ UNCHANGED <<MemView, ClientView>>
  BY <1>5, RefinesStep DEF TestInv, Atomic!mvars
<1>8. ClientView'[tb].phase # "idle"
  <2>1. CASE pc'[tb] \in Waits
    BY <1>2, <2>1, ClientCasesPrimed DEF Atomic!Called
  <2>2. CASE pc'[tb] \in Runs
    BY <1>2, <2>2, ClientCasesPrimed DEF Atomic!Done
  <2>. QED  BY <1>3, <2>1, <2>2
<1>9. /\ Pending(ClientView'[tb], MemView', Script[step], data_array0, payload_ext)
      /\ step # 1 => MemView' = MemView
  <2>1. data_array0 \in Buffer(Script[step].len)
    BY <1>4, TestFacts
  <2>2. Pending(ClientView[tb], MemView, Script[step], data_array0, payload_ext)
    BY <1>4 DEF TestInv, RtlInv
  <2>. QED  BY <1>2, <1>7, <1>8, <2>1, <2>2, TargetServes DEF TestInv
<1>10. RtlInv'
  BY <1>1, <1>4, <1>9 DEF RtlInv
<1>11. SameInv'
  <2>1. step > 1 => step # 1
    BY <1>2
  <2>. QED  BY <1>1, <1>9, <2>1 DEF TestInv, SameInv
<1>12. ControlInv' /\ ExtInv' /\ BufferInv' /\ ModelInv'
  BY <1>1, PartsStay
<1>. QED  BY <1>6, <1>10, <1>11, <1>12 DEF TestInv

LEMMA ClockKeeps ==
  ASSUME TestInv, Clock
  PROVE  TestInv'
<1>1. /\ Kernel
      /\ UNCHANGED <<sparse_array, client>>
      /\ UNCHANGED <<step, phase, data_array0, data_array1, payload_ext, sim_test_ok,
                     keep_sim, running_threads_counter, sc_main>>
  BY DEF Clock, tbVars
<1>2. IInv'
  BY <1>1, NextKeeps DEF TestInv, Next
<1>3. UNCHANGED <<MemView, ClientView, pc>>
  BY <1>1, <1>2, KernelStutters DEF TestInv, Kernel, threadVars
<1>. QED  BY <1>1, <1>2, <1>3, PartsStay DEF TestInv

LEMMA DrivertlReturnsKeeps ==
  ASSUME TestInv, DrivertlReturns
  PROVE  TestInv'
<1>1. /\ phase = "rtl" /\ phase' = "drivemodel" /\ Return(tb)
      /\ data_array0' = data[tb]
      /\ keep_sim' = (keep_sim /\ status[tb] = OK)
      /\ UNCHANGED <<sparse_array, client, step, data_array1, payload_ext,
                     sim_test_ok, running_threads_counter, sc_main>>
  BY DEF DrivertlReturns
<1>2. tb \in Threads /\ step \in 1 .. 7
  BY TestFacts
<1>3. IInv'
  BY <1>1, <1>2, NextKeeps DEF TestInv, Next, ThreadStep
<1>4. MemView' = MemView
  BY <1>1, <1>2, <1>3, ReturnRefines DEF TestInv, Atomic!Return
<1>5. pc[tb] = "return" /\ pc'[tb] = "idle"
  BY <1>1, <1>2, ThreadTypes DEF TestInv, Return
<1>6. DataView(tb) = data[tb]
  <2>1. rtl_access # tb
    BY <1>2, <1>5 DEF TestInv, IInv, MutexInv, ThreadInv, PlaceInv
  <2>. QED  BY <2>1 DEF DataView
<1>7. ClientView[tb] = Atomic!Done(call[tb], status[tb], data[tb])
  BY <1>2, <1>5, <1>6, ClientCases DEF Runs
<1>8. DoneFor(ClientView[tb], MemView, Script[step], data_array0, payload_ext)
  <2>1. Pending(ClientView[tb], MemView, Script[step], data_array0, payload_ext)
    BY <1>1 DEF TestInv, RtlInv
  <2>2. ClientView[tb].phase = "done"
    BY <1>7 DEF Atomic!Done
  <2>. QED  BY <2>1, <2>2 DEF Pending, CalledFor
<1>9. ClientView[tb].data = data[tb] /\ ClientView[tb].status = status[tb]
  BY <1>7 DEF Atomic!Done
<1>10. /\ status[tb] = OK
       /\ data_array0' \in Buffer(Script[step].len)
       /\ Held(data_array0', MemView, Script[step].len)
       /\ Script[step].store => data_array0' = data_array0
  BY <1>1, <1>8, <1>9 DEF DoneFor
<1>11. ControlInv'
  BY <1>1, <1>10 DEF TestInv, ControlInv, Phases
<1>12. ExtInv'
  BY <1>1 DEF TestInv, ExtInv
<1>13. BufferInv'
  <2>1. Script[step].len \in {Long, Short}
    BY <1>2, ScriptLengths
  <2>2. step = 1 => Script[step].store = TRUE
    BY <1>2, ScriptSteps
  <2>. QED  BY <1>1, <1>10, <2>1, <2>2 DEF TestInv, BufferInv
<1>14. RtlInv'
  BY <1>1, <1>4, <1>5, <1>10 DEF RtlInv, Held
<1>15. ModelInv'
  BY <1>1 DEF TestInv, ModelInv
<1>16. SameInv'
  BY <1>1, <1>4, PartsStay
<1>. QED  BY <1>3, <1>11, <1>12, <1>13, <1>14, <1>15, <1>16 DEF TestInv

LEMMA DrivemodelCallsKeeps ==
  ASSUME TestInv, DrivemodelCalls
  PROVE  TestInv'
<1>. DEFINE c == Payload(Script[step], data_array1, payload_ext)
<1>1. /\ phase = "drivemodel" /\ phase' = "model" /\ Model!ModelCall(tb, c)
      /\ UNCHANGED <<vars, step, data_array0, data_array1, payload_ext,
                     sim_test_ok, keep_sim, running_threads_counter, sc_main>>
  BY DEF DrivemodelCalls
<1>2. tb \in Threads
  BY TestFacts
<1>. HIDE DEF c
<1>3. IInv' /\ UNCHANGED <<MemView, ClientView, pc>>
  BY <1>1, RtlRests
<1>4. /\ client'[tb] = Model!Called(c) /\ sparse_array' = sparse_array
      /\ client' = [t \in Threads |-> client'[t]]
  BY <1>1, <1>2 DEF TestInv, ModelInv, Model!ModelCall
<1>5. ControlInv'
  BY <1>1 DEF TestInv, ControlInv, Phases
<1>6. ExtInv'
  BY <1>1 DEF TestInv, ExtInv
<1>7. BufferInv'
  BY <1>1 DEF TestInv, BufferInv
<1>8. RtlInv'
  BY <1>1, <1>3 DEF TestInv, RtlInv, Held
<1>9. ModelInv'
  BY <1>1, <1>4 DEF TestInv, ModelInv, Pending, CalledFor, Model!Called, c
<1>10. SameInv'
  BY <1>1, <1>3, <1>4, PartsStay
<1>. QED  BY <1>3, <1>5, <1>6, <1>7, <1>8, <1>9, <1>10 DEF TestInv

LEMMA ModelRunsKeeps ==
  ASSUME TestInv, ModelRuns
  PROVE  TestInv'
<1>1. /\ Model!b_transport(tb) /\ UNCHANGED vars
      /\ UNCHANGED <<step, phase, data_array0, data_array1, payload_ext, sim_test_ok,
                     keep_sim, running_threads_counter, sc_main>>
  BY DEF ModelRuns, tbVars
<1>2. step \in 1 .. 7 /\ payload_ext \in BOOLEAN
  BY TestFacts
<1>3. IInv' /\ UNCHANGED <<MemView, ClientView, pc>>
  BY <1>1, RtlRests
<1>4. phase = "model"
  <2>1. client[tb] # [phase |-> "idle"]
    BY <1>1 DEF Model!b_transport
  <2>. QED  BY <2>1 DEF TestInv, ModelInv
<1>5. /\ Pending(client'[tb], sparse_array', Script[step], data_array1, payload_ext)
      /\ sparse_array' \in [Addr -> Byte] /\ client' = [t \in Threads |-> client'[t]]
      /\ step # 1 => sparse_array' = sparse_array
  <2>1. data_array1 \in Buffer(Script[step].len)
    BY <1>4, TestFacts
  <2>2. /\ Pending(client[tb], sparse_array, Script[step], data_array1, payload_ext)
        /\ sparse_array \in [Addr -> Byte] /\ client = [t \in Threads |-> client[t]]
    BY <1>4 DEF TestInv, ModelInv
  <2>. QED  BY <1>1, <1>2, <2>1, <2>2, ModelServes
<1>6. ModelInv'
  BY <1>1, <1>4, <1>5 DEF ModelInv
<1>7. SameInv'
  <2>1. step > 1 => step # 1
    BY <1>2
  <2>. QED  BY <1>1, <1>3, <1>5, <2>1 DEF TestInv, SameInv
<1>8. ControlInv' /\ ExtInv' /\ BufferInv' /\ RtlInv'
  BY <1>1, <1>3, PartsStay
<1>. QED  BY <1>3, <1>6, <1>7, <1>8 DEF TestInv

LEMMA DrivemodelReturnsKeeps ==
  ASSUME TestInv, DrivemodelReturns
  PROVE  TestInv'
<1>1. /\ phase = "model" /\ phase' = "compare" /\ Model!ModelReturn(tb)
      /\ data_array1' = client[tb].data
      /\ keep_sim' = (keep_sim /\ client[tb].status = OK)
      /\ UNCHANGED <<vars, step, data_array0, payload_ext, sim_test_ok,
                     running_threads_counter, sc_main>>
  BY DEF DrivemodelReturns
<1>2. tb \in Threads /\ step \in 1 .. 7
  BY TestFacts
<1>3. IInv' /\ UNCHANGED <<MemView, ClientView, pc>>
  BY <1>1, RtlRests
<1>4. /\ client[tb].phase = "done" /\ client'[tb] = [phase |-> "idle"]
      /\ sparse_array' = sparse_array /\ client' = [t \in Threads |-> client'[t]]
  BY <1>1, <1>2 DEF TestInv, ModelInv, Model!ModelReturn, Model!Idle
<1>5. DoneFor(client[tb], sparse_array, Script[step], data_array1, payload_ext)
  <2>1. Pending(client[tb], sparse_array, Script[step], data_array1, payload_ext)
    BY <1>1 DEF TestInv, ModelInv
  <2>. QED  BY <1>4, <2>1 DEF Pending, CalledFor
<1>6. /\ client[tb].status = OK
      /\ data_array1' \in Buffer(Script[step].len)
      /\ Held(data_array1', sparse_array, Script[step].len)
      /\ Script[step].store => data_array1' = data_array1
  BY <1>1, <1>5 DEF DoneFor
<1>7. ControlInv'
  BY <1>1, <1>6 DEF TestInv, ControlInv, Phases
<1>8. ExtInv'
  BY <1>1 DEF TestInv, ExtInv
<1>9. BufferInv'
  <2>1. Script[step].len \in {Long, Short}
    BY <1>2, ScriptLengths
  <2>2. step = 1 => Script[step].store = TRUE
    BY <1>2, ScriptSteps
  <2>. QED  BY <1>1, <1>6, <2>1, <2>2 DEF TestInv, BufferInv
<1>10. RtlInv'
  BY <1>1, <1>3 DEF TestInv, RtlInv, Held
<1>11. ModelInv'
  BY <1>1, <1>4, <1>6 DEF TestInv, ModelInv, Held
<1>12. SameInv'
  BY <1>1, <1>3, <1>4, PartsStay
<1>. QED  BY <1>3, <1>7, <1>8, <1>9, <1>10, <1>11, <1>12 DEF TestInv

(* The store leaves both memories with its buffer, and a load reads the same
   bytes from both. *)
LEMMA CompareAgrees ==
  ASSUME TestInv, phase = "compare"
  PROVE  Held(MemView, sparse_array, Long) /\ (Script[step].store \/ data_array0 = data_array1)
<1>. DEFINE len == Script[step].len
<1>1. /\ step \in 1 .. 7
      /\ data_array0 \in Buffer(len) /\ data_array1 \in Buffer(len)
      /\ Held(data_array0, MemView, len) /\ Held(data_array1, sparse_array, len)
  BY TestFacts DEF TestInv, RtlInv, ModelInv
<1>2. len \in Nat /\ Long \in Nat /\ len <= Long /\ (step = 1 => len = Long)
  BY <1>1, ScriptLengths
<1>3. data_array0 \in [0 .. len - 1 -> Byte] /\ data_array1 \in [0 .. len - 1 -> Byte]
  BY <1>1 DEF Buffer
<1>. HIDE DEF len
<1>4. CASE step = 1
  <2>1. data_array1 = data_array0
    BY <1>4 DEF TestInv, BufferInv
  <2>2. Held(MemView, sparse_array, Long)
    BY <1>1, <1>2, <1>4, <2>1 DEF Held
  <2>3. Script[step].store = TRUE
    BY <1>1, <1>4, ScriptSteps
  <2>. QED  BY <2>2, <2>3
<1>5. CASE step # 1
  <2>1. step > 1
    BY <1>1, <1>5
  <2>2. Held(MemView, sparse_array, Long)
    BY <2>1 DEF TestInv, SameInv
  <2>3. \A k \in 0 .. len - 1 : k \in 0 .. Long - 1
    BY <1>2
  <2>4. \A k \in 0 .. len - 1 : data_array0[k] = data_array1[k]
    BY <1>1, <2>2, <2>3 DEF Held
  <2>5. data_array0 = data_array1
    <3>1. ASSUME NEW S, NEW f \in [S -> Byte], NEW g \in [S -> Byte], \A k \in S : f[k] = g[k]
          PROVE  f = g
      BY <3>1
    <3>. QED  BY <1>3, <2>4, <3>1, Zenon
  <2>. QED  BY <2>2, <2>5
<1>. QED  BY <1>4, <1>5

LEMMA CompareKeeps ==
  ASSUME TestInv, Compare
  PROVE  TestInv'
<1>1. /\ phase = "compare"
      /\ sim_test_ok' = (sim_test_ok /\ (Script[step].store \/ data_array0 = data_array1))
      /\ \/ /\ step < Len(Script) /\ step' = step + 1 /\ phase' = "fill"
            /\ UNCHANGED running_threads_counter
         \/ /\ step = Len(Script) /\ phase' = "finished"
            /\ running_threads_counter' = running_threads_counter - 1
            /\ UNCHANGED step
      /\ UNCHANGED <<vars, sparse_array, client, data_array0, data_array1,
                     payload_ext, keep_sim, sc_main>>
  BY DEF Compare
<1>2. step \in 1 .. 7 /\ Len(Script) = 7
  BY TestFacts, ScriptSteps
<1>3. IInv' /\ UNCHANGED <<MemView, ClientView, pc>>
  BY <1>1, RtlRests
<1>4. Held(MemView, sparse_array, Long) /\ (Script[step].store \/ data_array0 = data_array1)
  BY <1>1, CompareAgrees
<1>5. sim_test_ok' = TRUE
  <2>1. sim_test_ok = TRUE
    BY DEF TestInv, ControlInv
  <2>. QED  BY <1>1, <1>4, <2>1, Zenon
<1>6. \/ step < 7 /\ step' = step + 1 /\ phase' = "fill"
      \/ step = 7 /\ step' = 7 /\ phase' = "finished"
  BY <1>1, <1>2
<1>7. ControlInv'
  <2>1. step' \in 1 .. 7 /\ phase' \in Phases /\ (phase' = "finished" => step' = 7)
    BY <1>2, <1>6 DEF Phases
  <2>2. running_threads_counter' = IF phase' = "finished" THEN 0 ELSE 1
    BY <1>1 DEF TestInv, ControlInv
  <2>3. sc_main' \in {"running", "stopped"} /\ keep_sim' = TRUE
    BY <1>1 DEF TestInv, ControlInv
  <2>. QED  BY <1>5, <2>1, <2>2, <2>3 DEF ControlInv
<1>8. ExtInv'
  <2>1. /\ step < 3 => payload_ext = FALSE
        /\ step >= 3 => payload_ext = TRUE
        /\ payload_ext \in BOOLEAN /\ payload_ext' = payload_ext
    <3>1. /\ step < 3 => payload_ext = FALSE
          /\ step = 3 => payload_ext = TRUE
          /\ step > 3 => payload_ext = TRUE
          /\ payload_ext \in BOOLEAN /\ payload_ext' = payload_ext
      BY <1>1 DEF TestInv, ExtInv
    <3>2. step >= 3 => step = 3 \/ step > 3
      BY <1>2
    <3>. QED  BY <3>1, <3>2, Zenon
  <2>2. CASE step < 7 /\ step' = step + 1 /\ phase' = "fill"
    <3>1. /\ step' < 3 => step < 3
          /\ step' > 3 => step >= 3
          /\ step' = 3 => step < 3
      BY <1>2, <2>2
    <3>. QED  BY <2>1, <2>2, <3>1 DEF ExtInv
  <2>3. CASE step = 7 /\ step' = 7 /\ phase' = "finished"
    <3>1. step >= 3 /\ ~(step' < 3)
      BY <2>3
    <3>2. phase' \notin {"fill", "drivertl"}
      BY <2>3
    <3>. QED  BY <2>1, <2>3, <3>1, <3>2 DEF ExtInv
  <2>. QED  BY <1>6, <2>2, <2>3
<1>9. BufferInv'
  <2>1. step' = 1 => phase' = "fill"
    BY <1>2, <1>6
  <2>2. phase' \in {"fill", "finished"}
    BY <1>6
  <2>. QED  BY <1>1, <2>1, <2>2 DEF TestInv, BufferInv
<1>10. RtlInv'
  BY <1>1, <1>3, <1>6 DEF TestInv, RtlInv
<1>11. ModelInv'
  BY <1>1, <1>6 DEF TestInv, ModelInv
<1>12. SameInv'
  BY <1>1, <1>3, <1>4 DEF SameInv, Held
<1>. QED  BY <1>3, <1>7, <1>8, <1>9, <1>10, <1>11, <1>12 DEF TestInv

LEMMA RestKeeps ==
  ASSUME TestInv, Stop \/ UNCHANGED testVars
  PROVE  TestInv'
<1>1. /\ UNCHANGED <<vars, sparse_array, client, step, phase, data_array0, data_array1,
                     payload_ext, sim_test_ok, keep_sim, running_threads_counter>>
      /\ sc_main' = sc_main \/ sc_main' = "stopped"
  BY DEF Stop, testVars, tbVars
<1>2. IInv' /\ UNCHANGED <<MemView, ClientView, pc>>
  BY <1>1, RtlRests
<1>3. ControlInv'
  BY <1>1 DEF TestInv, ControlInv
<1>4. ExtInv' /\ BufferInv' /\ RtlInv' /\ ModelInv' /\ SameInv'
  BY <1>1, <1>2, PartsStay
<1>. QED  BY <1>2, <1>3, <1>4 DEF TestInv

LEMMA TestInvariance == TestSpec => []TestInv
<1>1. TestInv /\ [TestNext]_testVars => TestInv'
  <2>. SUFFICES ASSUME TestInv, [TestNext]_testVars  PROVE TestInv'
    OBVIOUS
  <2>1. CASE TbThread
    BY <2>1, FillKeeps, DrivertlCallsKeeps, DrivertlReturnsKeeps, DrivemodelCallsKeeps,
       ModelRunsKeeps, DrivemodelReturnsKeeps, CompareKeeps DEF TbThread
  <2>2. CASE RtlThread \/ Clock
    BY <2>2, RtlThreadKeeps, ClockKeeps
  <2>3. CASE Stop \/ UNCHANGED testVars
    BY <2>3, RestKeeps
  <2>. QED  BY <2>1, <2>2, <2>3 DEF TestNext, Stopped
<1>. QED  BY <1>1, TestInitInv, PTL DEF TestSpec

(* Every variable of the testbench keeps its type. *)
THEOREM TestTypeCorrect == TestSpec => []TestTypeOK
<1>1. TestInv => TestTypeOK
  <2>. SUFFICES ASSUME TestInv  PROVE TestTypeOK
    OBVIOUS
  <2>1. TypeOK /\ step \in 1 .. Len(Script)
    BY ScriptSteps DEF TestInv, IInv, ControlInv
  <2>2. /\ phase \in Phases /\ sc_main \in {"running", "stopped"}
        /\ running_threads_counter \in 0 .. 1
        /\ sim_test_ok \in BOOLEAN /\ keep_sim \in BOOLEAN
    BY DEF TestInv, ControlInv
  <2>. QED  BY <2>1, <2>2 DEF TestInv, TestTypeOK, ExtInv, BufferInv, Phases
<1>. QED  BY <1>1, TestInvariance, PTL

(* The test passes: whatever the RAM, the registers and the buffers started
   with and whatever the queue depth, no load ever differs between the two
   memories. *)
THEOREM TestPasses == TestSpec => []NoMismatch
<1>1. TestInv => NoMismatch
  BY DEF TestInv, ControlInv, NoMismatch
<1>. QED  BY <1>1, TestInvariance, PTL

(* A test that passes has seen no transaction fail, although the verdict
   does not look at what drivertl and drivemodel return. *)
THEOREM VerdictIsHonest == TestSpec => []PassMeansNoError
<1>1. TestInv => PassMeansNoError
  BY DEF TestInv, ControlInv, PassMeansNoError
<1>. QED  BY <1>1, TestInvariance, PTL

(* Each transaction uses the mode its step asks for, although the extension
   of an earlier one may still hang on the payload. *)
THEOREM ModeFollowsScript == TestSpec => []ModeMatchesStep
<1>1. TestInv => ModeMatchesStep
  <2>. SUFFICES ASSUME TestInv, phase = "rtl"
                PROVE  call[tb].ext = Script[step].delay
    BY DEF ModeMatchesStep
  <2>1. step \in 1 .. 7 /\ tb \in Threads
    BY TestFacts
  <2>2. /\ ClientView[tb].phase # "idle"
        /\ ClientView[tb].call = Payload(Script[step], data_array0, payload_ext)
    BY DEF TestInv, RtlInv, Pending, CalledFor, DoneFor
  <2>3. pc[tb] \in {"idle"} \cup Waits \cup Runs
    BY <2>1, ThreadTypes DEF TestInv, PC, Waits, Runs
  <2>4. ClientView[tb].call = call[tb]
    <3>1. pc[tb] # "idle"
      BY <2>1, <2>2, ClientCases DEF Atomic!Idle
    <3>. QED  BY <2>1, <2>3, <3>1, ClientCases DEF Atomic!Called, Atomic!Done
  <2>5. call[tb].ext = payload_ext
    BY <2>2, <2>4 DEF Payload
  <2>6. /\ step < 3 => payload_ext = FALSE /\ Script[step].delay = FALSE
        /\ step >= 3 => payload_ext = TRUE /\ Script[step].delay = TRUE
    <3>1. /\ step < 3 => payload_ext = FALSE
          /\ step = 3 => payload_ext = TRUE
          /\ step > 3 => payload_ext = TRUE
      BY DEF TestInv, ExtInv
    <3>2. /\ step >= 3 => step = 3 \/ step > 3
          /\ step >= 3 => step > 2
          /\ step < 3 => step <= 2
      BY <2>1
    <3>3. (step <= 2 => Script[step].delay = FALSE) /\ (step > 2 => Script[step].delay = TRUE)
      BY <2>1, ScriptSteps
    <3>. QED  BY <3>1, <3>2, <3>3, Zenon
  <2>7. step < 3 \/ step >= 3
    BY <2>1
  <2>8. payload_ext = Script[step].delay
    <3>1. CASE step < 3
      BY <2>6, <3>1, Zenon
    <3>2. CASE step >= 3
      BY <2>6, <3>2, Zenon
    <3>. QED  BY <2>7, <3>1, <3>2
  <2>. QED  BY <2>5, <2>8
<1>. QED  BY <1>1, TestInvariance, PTL
=============================================================================
