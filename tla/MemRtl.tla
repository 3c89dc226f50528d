------------------------------- MODULE MemRtl -------------------------------
(***************************************************************************)
(* memrtl_module: b_transport, called by several SystemC threads at once,  *)
(* over the pin-level pipeline of RtlPipe.  Each thread breaks its burst   *)
(* into beats, pushes them into req_PIPE and takes the answers from        *)
(* resp_PIPE, with the mutex rtl_access held for the whole burst.  Without *)
(* the delay extension the queues are used with blocking calls, one beat   *)
(* at a time; with it, requests and responses run on two timers of their   *)
(* own and the queue calls do not block.                                   *)
(*                                                                         *)
(* Simulated time is abstracted: clock edges and timers fire in any order. *)
(* What is kept of the SystemC scheduler is that time does not move while  *)
(* a notified thread is still runnable (NoneWoken).                        *)
(***************************************************************************)
EXTENDS RtlPipe

CONSTANTS
  Threads,    \* SystemC threads that call b_transport
  NoThread,   \* rtl_access is free
  Calls,      \* transactions: cmd, addr, len, data (the buffer) and ext
  NoCall,     \* no b_transport is active
  NoBeat      \* req_data_set is false

ASSUME MemRtlAssumption ==
  /\ NoThread \notin Threads
  /\ NoCall \notin Calls
  /\ NoBeat \notin Beat
  /\ \A c \in Calls :
       /\ c.cmd \in Cmd
       /\ c.addr \in Nat
       /\ c.len \in Nat \ {0}
       /\ c.data \in [0 .. c.len - 1 -> Byte]
       /\ c.ext \in BOOLEAN

VARIABLES
  rtl_access,   \* owner of the sc_mutex, or NoThread
  pc,           \* where each thread stands
  call,         \* the transaction of each thread
  data,         \* its buffer, which b_transport overwrites byte by byte
  curr_req,     \* beats pushed so far (the loop index i of the blocking loop)
  curr_resp,    \* answers taken so far
  req_vec,      \* request word formed and not yet accepted, or NoBeat
  status        \* response status of the transaction

threadVars == <<rtl_access, pc, call, data, curr_req, curr_resp, req_vec, status>>
vars == <<pipeVars, threadVars>>

OK == "OK"
ERROR == "ERROR"
INCOMPLETE == "INCOMPLETE"

PC == {"idle", "entry", "blocked", "woken", "write", "read", "nb", "return"}

TypeOK ==
  /\ PipeTypeOK
  /\ rtl_access \in Threads \cup {NoThread}
  /\ pc \in [Threads -> PC]
  /\ call \in [Threads -> Calls \cup {NoCall}]
  /\ \A t \in Threads : call[t] # NoCall => data[t] \in [0 .. call[t].len - 1 -> Byte]
  /\ curr_req \in [Threads -> Nat]
  /\ curr_resp \in [Threads -> Nat]
  /\ req_vec \in [Threads -> Beat \cup {NoBeat}]
  /\ status \in [Threads -> {OK, ERROR, INCOMPLETE}]

Init ==
  /\ PipeInit
  /\ rtl_access = NoThread
  /\ pc = [t \in Threads |-> "idle"]
  /\ call = [t \in Threads |-> NoCall]
  /\ data = [t \in Threads |-> <<>>]
  /\ curr_req = [t \in Threads |-> 0]
  /\ curr_resp = [t \in Threads |-> 0]
  /\ req_vec = [t \in Threads |-> NoBeat]
  /\ status = [t \in Threads |-> INCOMPLETE]
-----------------------------------------------------------------------------
(* No thread has been notified and not run yet: the evaluation phase is over
   and the kernel may go to the next delta cycle or advance time. *)
NoneWoken == \A t \in Threads : pc[t] # "woken"

(* Mutant: the last byte of the RAM is out of range. *)
InRange_OffByOne(c) == ~(c.addr + c.len > MaxAddr)

InRange(c) == ~(c.addr + c.len - 1 > MaxAddr)

(* The initiator fills in its payload and calls b_transport. *)
Call(t, c) ==
  /\ pc[t] = "idle"
  /\ pc' = [pc EXCEPT ![t] = "entry"]
  /\ call' = [call EXCEPT ![t] = c]
  /\ data' = [data EXCEPT ![t] = c.data]
  /\ curr_req' = [curr_req EXCEPT ![t] = 0]
  /\ curr_resp' = [curr_resp EXCEPT ![t] = 0]
  /\ req_vec' = [req_vec EXCEPT ![t] = NoBeat]
  /\ status' = [status EXCEPT ![t] = INCOMPLETE]
  /\ UNCHANGED <<pipeVars, rtl_access>>

(* sc_mutex::lock: take the mutex if it is free, else wait for m_free. *)
Lock(t) ==
  \/ /\ rtl_access = NoThread
     /\ rtl_access' = t
     /\ pc' = [pc EXCEPT ![t] = IF call[t].ext THEN "nb" ELSE "write"]
  \/ /\ rtl_access # NoThread
     /\ pc' = [pc EXCEPT ![t] = "blocked"]
     /\ UNCHANGED rtl_access

(* Mutant: the waiters are not notified. *)
Unlock_WakesNobody(t) == rtl_access' = NoThread /\ pc' = [pc EXCEPT ![t] = "return"]

(* sc_mutex::unlock: free it and make every waiter runnable at once. *)
Unlock(t) ==
  /\ rtl_access' = NoThread
  /\ pc' = [u \in Threads |-> IF u = t THEN "return"
                              ELSE IF pc[u] = "blocked" THEN "woken" ELSE pc[u]]

(* Mutant: the burst starts without the mutex. *)
Begin_Unlocked(t) ==
  /\ pc[t] = "entry"
  /\ status' = [status EXCEPT ![t] = IF InRange(call[t]) THEN OK ELSE ERROR]
  /\ pc' = [pc EXCEPT ![t] = IF ~InRange(call[t]) THEN "return"
                              ELSE IF call[t].ext THEN "nb" ELSE "write"]
  /\ UNCHANGED <<pipeVars, rtl_access, call, data, curr_req, curr_resp, req_vec>>

(* b_transport up to the mutex: refuse the burst or go for the lock. *)
Begin(t) ==
  /\ pc[t] = "entry"
  /\ \/ /\ ~InRange(call[t])
        /\ status' = [status EXCEPT ![t] = ERROR]
        /\ pc' = [pc EXCEPT ![t] = "return"]
        /\ UNCHANGED rtl_access
     \/ /\ InRange(call[t])
        /\ status' = [status EXCEPT ![t] = OK]
        /\ Lock(t)
  /\ UNCHANGED <<pipeVars, call, data, curr_req, curr_resp, req_vec>>

(* A notified waiter tests the mutex again. *)
Retry(t) ==
  /\ pc[t] = "woken"
  /\ Lock(t)
  /\ UNCHANGED <<pipeVars, call, data, curr_req, curr_resp, req_vec, status>>

(* Mutant: LAST is set one beat too late. *)
BeatOf_LastLate(t, i) ==
  [op |-> call[t].cmd, last |-> (i = call[t].len),
   addr |-> (call[t].addr + i) % (MaxAddr + 1), data |-> data[t][i]]

(* The request word of beat i; the address field has 16 bits. *)
BeatOf(t, i) ==
  [op |-> call[t].cmd, last |-> (i = call[t].len - 1),
   addr |-> (call[t].addr + i) % (MaxAddr + 1), data |-> data[t][i]]

(* Mutant: all requests are pushed before the first answer is read. *)
WriteBeat_Ahead(t) ==
  /\ pc[t] = "write"
  /\ WriteReq(BeatOf(t, curr_req[t]))
  /\ curr_req' = [curr_req EXCEPT ![t] = @ + 1]
  /\ pc' = [pc EXCEPT ![t] = IF curr_req[t] = call[t].len - 1 THEN "read" ELSE "write"]
  /\ UNCHANGED <<rtl_access, call, data, curr_resp, req_vec, status>>

(* Blocking loop, req_PIPE.write. *)
WriteBeat(t) ==
  /\ pc[t] = "write"
  /\ WriteReq(BeatOf(t, curr_req[t]))
  /\ curr_req' = [curr_req EXCEPT ![t] = @ + 1]
  /\ pc' = [pc EXCEPT ![t] = "read"]
  /\ UNCHANGED <<rtl_access, call, data, curr_resp, req_vec, status>>

(* Mutant: the burst is over when its last request is out. *)
TakeResp_CountsRequests(t, next) ==
  LET beat == Head(resp_PIPE)
      final == curr_req[t] = call[t].len
  IN /\ ReadResp
     /\ data' = [data EXCEPT ![t][curr_resp[t]] = beat.data]
     /\ status' = [status EXCEPT ![t] = IF beat.last # final THEN ERROR ELSE @]
     /\ curr_resp' = [curr_resp EXCEPT ![t] = @ + 1]
     /\ \/ final /\ Unlock(t)
        \/ ~final /\ pc' = [pc EXCEPT ![t] = next] /\ UNCHANGED rtl_access
     /\ UNCHANGED <<call, curr_req, req_vec>>

(* Mutant: the mutex is not given back. *)
TakeResp_KeepsMutex(t, next) ==
  /\ ReadResp
  /\ data' = [data EXCEPT ![t][curr_resp[t]] = Head(resp_PIPE).data]
  /\ curr_resp' = [curr_resp EXCEPT ![t] = @ + 1]
  /\ pc' = [pc EXCEPT ![t] = IF curr_resp[t] = call[t].len - 1 THEN "return" ELSE next]
  /\ UNCHANGED <<rtl_access, status, call, curr_req, req_vec>>

(* Take one answer, check its last bit, and leave after the last one. *)
TakeResp(t, next) ==
  LET beat == Head(resp_PIPE)
      final == curr_resp[t] = call[t].len - 1
  IN /\ ReadResp
     /\ data' = [data EXCEPT ![t][curr_resp[t]] = beat.data]
     /\ status' = [status EXCEPT ![t] = IF beat.last # final THEN ERROR ELSE @]
     /\ curr_resp' = [curr_resp EXCEPT ![t] = @ + 1]
     /\ \/ final /\ Unlock(t)
        \/ ~final /\ pc' = [pc EXCEPT ![t] = next] /\ UNCHANGED rtl_access
     /\ UNCHANGED <<call, curr_req, req_vec>>

(* Blocking loop, resp_PIPE.read. *)
ReadBeat(t) == pc[t] = "read" /\ TakeResp(t, "write")

(* Mutant: the request word is kept after it has been accepted. *)
NbRequest_KeepsWord(t) ==
  LET vec == IF req_vec[t] = NoBeat THEN BeatOf(t, curr_req[t]) ELSE req_vec[t]
  IN /\ pc[t] = "nb"
     /\ curr_req[t] < call[t].len
     /\ req_vec' = [req_vec EXCEPT ![t] = vec]
     /\ \/ WriteReq(vec) /\ curr_req' = [curr_req EXCEPT ![t] = @ + 1]
        \/ ReqFull /\ UNCHANGED <<pipeVars, curr_req>>
     /\ UNCHANGED <<rtl_access, pc, call, data, curr_resp, status>>

(* Mutant: the result of nb_write is ignored. *)
NbRequest_IgnoresFull(t) ==
  /\ pc[t] = "nb"
  /\ curr_req[t] < call[t].len
  /\ WriteReq(BeatOf(t, curr_req[t])) \/ (ReqFull /\ UNCHANGED pipeVars)
  /\ curr_req' = [curr_req EXCEPT ![t] = @ + 1]
  /\ UNCHANGED <<rtl_access, pc, call, data, curr_resp, req_vec, status>>

(* Non-blocking loop, the request timer has run out.  The word is formed
   once and kept while nb_write fails. *)
NbRequest(t) ==
  LET vec == IF req_vec[t] = NoBeat THEN BeatOf(t, curr_req[t]) ELSE req_vec[t]
  IN /\ pc[t] = "nb"
     /\ curr_req[t] < call[t].len
     /\ \/ /\ WriteReq(vec)
           /\ curr_req' = [curr_req EXCEPT ![t] = @ + 1]
           /\ req_vec' = [req_vec EXCEPT ![t] = NoBeat]
        \/ /\ ReqFull
           /\ req_vec' = [req_vec EXCEPT ![t] = vec]
           /\ UNCHANGED <<pipeVars, curr_req>>
     /\ UNCHANGED <<rtl_access, pc, call, data, curr_resp, status>>

(* Non-blocking loop, the response timer has run out.  A failed nb_read
   changes nothing but the timer. *)
NbResponse(t) == pc[t] = "nb" /\ TakeResp(t, "nb")

(* Mutant: the initiator does not wait for the annotated delay. *)
Return_AtOnce(t) ==
  /\ pc[t] = "return"
  /\ pc' = [pc EXCEPT ![t] = "idle"]
  /\ call' = [call EXCEPT ![t] = NoCall]
  /\ data' = [data EXCEPT ![t] = <<>>]
  /\ curr_req' = [curr_req EXCEPT ![t] = 0]
  /\ curr_resp' = [curr_resp EXCEPT ![t] = 0]
  /\ status' = [status EXCEPT ![t] = INCOMPLETE]
  /\ UNCHANGED <<pipeVars, rtl_access, req_vec>>

(* The initiator waits for the annotated delay and reads the status. *)
Return(t) ==
  /\ pc[t] = "return"
  /\ NoneWoken
  /\ pc' = [pc EXCEPT ![t] = "idle"]
  /\ call' = [call EXCEPT ![t] = NoCall]
  /\ data' = [data EXCEPT ![t] = <<>>]
  /\ curr_req' = [curr_req EXCEPT ![t] = 0]
  /\ curr_resp' = [curr_resp EXCEPT ![t] = 0]
  /\ status' = [status EXCEPT ![t] = INCOMPLETE]
  /\ UNCHANGED <<pipeVars, rtl_access, req_vec>>

Kernel ==
  /\ NoneWoken
  /\ ClockEdge \/ ResetOff
  /\ UNCHANGED threadVars

ThreadStep(t) ==
  \/ Begin(t) \/ Retry(t)
  \/ WriteBeat(t) \/ ReadBeat(t)
  \/ NbRequest(t) \/ NbResponse(t)
  \/ Return(t)

Next ==
  \/ Kernel
  \/ \E t \in Threads : ThreadStep(t) \/ \E c \in Calls : Call(t, c)

Spec == Init /\ [][Next]_vars

(* The kernel goes on as long as sc_main calls sc_start, and it runs every
   runnable thread.  No fairness for Call: an initiator may never call. *)
FairSpec == Spec /\ WF_vars(Kernel) /\ \A t \in Threads : WF_vars(ThreadStep(t))
-----------------------------------------------------------------------------
(***************************************************************************)
(* Properties.                                                             *)
(***************************************************************************)

(* Every beat between the two ends of the pipeline, oldest first. *)
InFlight == Answered \o Waiting

(* memrtl.cpp, rtl_access: "one thread can put data in req_PIPE but another
   thread grab response for that request" must not happen.  What travels in
   the pipeline is exactly what the owner of the mutex has pushed and not
   yet got back, in its order; with no owner the pipeline is empty. *)
PipeBelongsToOwner ==
  IF rtl_access = NoThread THEN InFlight = <<>>
  ELSE LET t == rtl_access IN
       /\ Len(InFlight) = curr_req[t] - curr_resp[t]
       /\ \A i \in 1 .. Len(InFlight) :
            LET b == InFlight[i]
                k == curr_resp[t] + i - 1
            IN b.op = call[t].cmd /\ b.addr = call[t].addr + k
               /\ (b.last <=> k = call[t].len - 1)

(* tb_with_memrtl/README.md: in blocking mode "there are no two in-flight
   beats in the REQ-RESP pipeline". *)
OneBeatWhenBlocking ==
  rtl_access # NoThread /\ ~call[rtl_access].ext => Len(InFlight) <= 1

(* The request word kept across failed nb_writes is still the word of the
   current beat, although answers overwrite the same buffer meanwhile. *)
RequestWordIsCurrent ==
  \A t \in Threads : req_vec[t] # NoBeat => req_vec[t] = BeatOf(t, curr_req[t])

(* The next clock edge after reset moves a beat on its way. *)
EdgeMoves ==
  \/ state = SKID /\ ~RespFull
  \/ pins2queue_up_ready /\ (queue2pins_down_valid \/ (down_valid_q /\ edges > 0))
  \/ PinsFree /\ req_PIPE # <<>>

(* The owner of the mutex is never left waiting for what nobody can do: the
   write it blocks on finds room, the read finds an answer or one that the
   clock brings nearer; with timers one of the two queue calls is possible,
   or the clock moves a beat.  Valid, ready, the skid register and the two
   queues never lock each other. *)
BurstNeverStuck ==
  \A t \in Threads : rtl_access = t =>
    /\ pc[t] = "write" => ~ReqFull
    /\ pc[t] = "read" => resp_PIPE # <<>> \/ ~rstn \/ EdgeMoves
    /\ pc[t] = "nb" => \/ resp_PIPE # <<>> \/ ~rstn \/ EdgeMoves
                       \/ curr_req[t] < call[t].len /\ ~ReqFull

(* Work left to a burst: the places its beats still have to pass. *)
Todo(t) ==
  6 * (call[t].len - curr_req[t]) + 5 * Len(req_PIPE) + Len(resp_PIPE)
    + (IF queue2pins_down_valid THEN 4 ELSE 0)
    + (IF down_valid_q /\ edges > 0 THEN 3 ELSE 0) + (IF state = SKID THEN 2 ELSE 0)

(* No step sets a burst back, whoever makes it, and it comes nearer its end
   with every request accepted, every answer taken and every clock edge that
   moves a beat.  So a burst of n beats ends after at most 6 * n of them. *)
BurstAdvances ==
  [][\A t \in Threads : rtl_access = t /\ rtl_access' = t =>
       /\ Todo(t)' <= Todo(t)
       /\ \/ curr_req'[t] # curr_req[t] \/ curr_resp'[t] # curr_resp[t]
          \/ Kernel /\ rstn /\ EdgeMoves
          => Todo(t)' < Todo(t)]_vars

(* With two initiators, the harts of uncore, nobody overtakes a waiter: while
   a thread waits for rtl_access, the burst that holds the mutex ends and the
   next to get it is the waiter.  sc_mutex hands over to nobody and wakes all
   waiters at once; that the thread that has unlocked cannot come first is
   due to the wait(delay) that follows its b_transport, even with no delay. *)
WaiterIsNext ==
  [][\A t \in Threads : pc[t] \in {"blocked", "woken"} =>
       rtl_access' \in {rtl_access, NoThread, t}]_vars

(* The LAST checks of b_transport never fire: a transaction fails only when
   its burst does not fit into the RAM. *)
OnlyRangeErrors ==
  \A t \in Threads : status[t] = ERROR => ~InRange(call[t])

(* The state initiators can rely on: RAM with the burst of the owner done. *)
OwnerWrites(a) ==
  /\ rtl_access # NoThread
  /\ call[rtl_access].cmd = WRITE
  /\ a \in call[rtl_access].addr .. call[rtl_access].addr + call[rtl_access].len - 1

MemView == [a \in Addr |-> IF OwnerWrites(a)
                             THEN call[rtl_access].data[a - call[rtl_access].addr]
                             ELSE ram[a]]

DataView(t) ==
  IF rtl_access = t /\ call[t].cmd = READ
    THEN [i \in 0 .. call[t].len - 1 |-> ram[call[t].addr + i]]
    ELSE data[t]

ClientView == [t \in Threads |->
  CASE pc[t] = "idle" -> [phase |-> "idle"]
    [] pc[t] \in {"entry", "blocked", "woken"} -> [phase |-> "called", call |-> call[t]]
    [] OTHER -> [phase |-> "done", call |-> call[t], status |-> status[t],
                 data |-> DataView(t)]]

Atomic == INSTANCE AtomicMem WITH mem <- MemView, client <- ClientView,
                                  Readable <- Addr, Writable <- Addr

(* b_transport is an atomic memory for the threads that share it: no torn
   burst, no answer of another thread, no byte lost to backpressure. *)
ImplementsAtomicMem == Atomic!Spec

(* Every transaction comes back, the ones that queue for the mutex too. *)
EveryCallReturns == \A t \in Threads : pc[t] = "entry" ~> pc[t] = "idle"
=============================================================================
