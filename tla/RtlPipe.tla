------------------------------ MODULE RtlPipe -------------------------------
(***************************************************************************)
(* The pin-level half of memrtl_module: two sc_fifo queues, the adapters   *)
(* between queues and pins, and the Verilated RAM block between them.      *)
(*                                                                         *)
(*   req_PIPE -> queue2pins -> io_block -> pins2queue (skid) -> resp_PIPE  *)
(*                                                                         *)
(* The three clocked processes are sensitive to the same edge and read the *)
(* values their signals had before it (sc_signal updates and Verilog       *)
(* non-blocking assignments take effect afterwards), so one clock edge is  *)
(* one step: the conjunction of the three.                                 *)
(***************************************************************************)
EXTENDS Beats, Sequences

CONSTANTS
  FifoDepth,    \* size of req_PIPE and of resp_PIPE
  ResetEdges    \* clock edges that fall before rst_timeout

ASSUME PipeAssumption ==
  /\ FifoDepth \in Nat \ {0}
  /\ ResetEdges \in Nat \ {0}

BYPASS == "BYPASS"
SKID == "SKID"

(* A signal that was never written holds the word 0. *)
ZeroBeat == [op |-> READ, last |-> FALSE, addr |-> 0, data |-> 0]

VARIABLES
  rstn,                    \* active-low reset
  edges,                   \* clock edges seen while in reset (bounded by ResetEdges)
  req_PIPE, resp_PIPE,     \* the two queues
  queue2pins_down_valid, queue2pins_down_data,   \* request register
  down_valid_q, down_data_q,                     \* output register of io_block
  ram,                     \* the register file of io_block
  state, REG,              \* pins2queue: skid state and its spare register
  pins2queue_up_ready      \* ready as pins2queue shows it to io_block

pipeVars == <<rstn, edges, req_PIPE, resp_PIPE, queue2pins_down_valid,
              queue2pins_down_data, down_valid_q, down_data_q, ram, state, REG,
              pins2queue_up_ready>>

PipeTypeOK ==
  /\ rstn \in BOOLEAN
  /\ edges \in 0 .. ResetEdges
  /\ req_PIPE \in Seq(Beat) /\ Len(req_PIPE) <= FifoDepth
  /\ resp_PIPE \in Seq(Beat) /\ Len(resp_PIPE) <= FifoDepth
  /\ queue2pins_down_valid \in BOOLEAN
  /\ queue2pins_down_data \in Beat
  /\ down_valid_q \in BOOLEAN
  /\ down_data_q \in Beat
  /\ ram \in [Addr -> Byte]
  /\ state \in {BYPASS, SKID}
  /\ REG \in Beat
  /\ pins2queue_up_ready \in BOOLEAN

(* After elaboration: rstn is low, both adapters have run once in reset, and
   the Verilated registers and the RAM hold arbitrary values. *)
PipeInit ==
  /\ rstn = FALSE
  /\ edges = 0
  /\ req_PIPE = <<>> /\ resp_PIPE = <<>>
  /\ queue2pins_down_valid = FALSE
  /\ queue2pins_down_data = ZeroBeat
  /\ down_valid_q \in BOOLEAN
  /\ down_data_q \in Beat
  /\ ram \in [Addr -> Byte]
  /\ state = BYPASS
  /\ REG = ZeroBeat
  /\ pins2queue_up_ready = TRUE
-----------------------------------------------------------------------------
(***************************************************************************)
(* The clocked processes.  io_block passes ready straight through          *)
(* (up_ready = down_ready), so queue2pins sees pins2queue_up_ready.        *)
(***************************************************************************)

(* Mutant: ready is not looked at. *)
PinsFree_IgnoresReady == TRUE

(* queue2pins_method may load its register: it is empty, or it is taken now. *)
PinsFree == ~queue2pins_down_valid \/ pins2queue_up_ready

(* Mutant: the head of the queue is read, but left in it. *)
Queue2Pins_KeepsBeat ==
  /\ queue2pins_down_valid' = (rstn /\ (~PinsFree \/ req_PIPE # <<>>))
  /\ queue2pins_down_data' = IF rstn /\ PinsFree /\ req_PIPE # <<>> THEN Head(req_PIPE)
                                                                 ELSE queue2pins_down_data
  /\ UNCHANGED req_PIPE

Queue2Pins ==
  \/ /\ ~rstn
     /\ queue2pins_down_valid' = FALSE
     /\ UNCHANGED <<queue2pins_down_data, req_PIPE>>
  \/ /\ rstn /\ PinsFree /\ req_PIPE # <<>>
     /\ queue2pins_down_valid' = TRUE
     /\ queue2pins_down_data' = Head(req_PIPE)
     /\ req_PIPE' = Tail(req_PIPE)
  \/ /\ rstn /\ PinsFree /\ req_PIPE = <<>>
     /\ queue2pins_down_valid' = FALSE
     /\ UNCHANGED <<queue2pins_down_data, req_PIPE>>
  \/ /\ rstn /\ ~PinsFree
     /\ UNCHANGED <<queue2pins_down_valid, queue2pins_down_data, req_PIPE>>

(* The word io_block forms from its input: a write keeps its data, a read
   takes the byte the RAM holds before the edge. *)
ReadOut(m, b) == IF b.op = WRITE THEN b ELSE [b EXCEPT !.data = m[b.addr]]

(* The RAM after the edge: written when the beat is valid and moves on. *)
ram_we == /\ queue2pins_down_valid
          /\ pins2queue_up_ready
          /\ queue2pins_down_data.op = WRITE

IoBlock ==
  /\ ram' = IF ram_we
              THEN [ram EXCEPT ![queue2pins_down_data.addr] = queue2pins_down_data.data]
              ELSE ram
  /\ down_data_q' = IF pins2queue_up_ready
                      THEN ReadOut(ram, queue2pins_down_data)
                      ELSE down_data_q
  /\ down_valid_q' = IF ~rstn THEN FALSE
                     ELSE IF pins2queue_up_ready THEN queue2pins_down_valid
                     ELSE down_valid_q

Handshake == down_valid_q /\ pins2queue_up_ready
RespFull == Len(resp_PIPE) = FifoDepth

(* Mutant: the spare register is not loaded when the queue is full. *)
Pins2Queue_LosesBeat ==
  \/ /\ ~rstn
     /\ state' = BYPASS
     /\ pins2queue_up_ready' = TRUE
     /\ UNCHANGED <<REG, resp_PIPE>>
  \/ /\ rstn /\ state = BYPASS
     /\ state' = IF Handshake /\ RespFull THEN SKID ELSE BYPASS
     /\ pins2queue_up_ready' = ~(Handshake /\ RespFull)
     /\ resp_PIPE' = IF Handshake /\ ~RespFull THEN Append(resp_PIPE, down_data_q)
                                              ELSE resp_PIPE
     /\ UNCHANGED REG
  \/ /\ rstn /\ state = SKID
     /\ state' = IF RespFull THEN SKID ELSE BYPASS
     /\ pins2queue_up_ready' = ~RespFull
     /\ resp_PIPE' = IF RespFull THEN resp_PIPE ELSE Append(resp_PIPE, REG)
     /\ UNCHANGED REG

(* Mutant: a beat is stored without asking the queue whether it has room. *)
Pins2Queue_Overfills ==
  /\ resp_PIPE' = IF rstn /\ Handshake THEN Append(resp_PIPE, down_data_q) ELSE resp_PIPE
  /\ state' = BYPASS
  /\ pins2queue_up_ready' = TRUE
  /\ UNCHANGED REG

(* Mutant: ready is not raised again when the spare register empties. *)
Pins2Queue_StaysClosed ==
  \/ /\ rstn /\ state = SKID /\ ~RespFull
     /\ resp_PIPE' = Append(resp_PIPE, REG)
     /\ state' = BYPASS
     /\ UNCHANGED <<REG, pins2queue_up_ready>>
  \/ /\ ~(rstn /\ state = SKID)
     /\ state' = IF rstn /\ Handshake /\ RespFull THEN SKID ELSE BYPASS
     /\ pins2queue_up_ready' = IF ~rstn THEN TRUE
                               ELSE pins2queue_up_ready /\ state' = BYPASS
     /\ REG' = IF state' = SKID THEN down_data_q ELSE REG
     /\ resp_PIPE' = IF rstn /\ Handshake /\ ~RespFull
                       THEN Append(resp_PIPE, down_data_q) ELSE resp_PIPE
  \/ /\ rstn /\ state = SKID /\ RespFull
     /\ UNCHANGED <<state, REG, pins2queue_up_ready, resp_PIPE>>

Pins2Queue ==
  \/ /\ ~rstn
     /\ state' = BYPASS
     /\ pins2queue_up_ready' = TRUE
     /\ UNCHANGED <<REG, resp_PIPE>>
  \/ /\ rstn /\ state = BYPASS /\ Handshake /\ ~RespFull
     /\ resp_PIPE' = Append(resp_PIPE, down_data_q)
     /\ UNCHANGED <<state, REG, pins2queue_up_ready>>
  \/ /\ rstn /\ state = BYPASS /\ Handshake /\ RespFull
     /\ REG' = down_data_q
     /\ state' = SKID
     /\ pins2queue_up_ready' = FALSE
     /\ UNCHANGED resp_PIPE
  \/ /\ rstn /\ state = BYPASS /\ ~Handshake
     /\ UNCHANGED <<state, REG, pins2queue_up_ready, resp_PIPE>>
  \/ /\ rstn /\ state = SKID /\ ~RespFull
     /\ resp_PIPE' = Append(resp_PIPE, REG)
     /\ state' = BYPASS
     /\ pins2queue_up_ready' = TRUE
     /\ UNCHANGED REG
  \/ /\ rstn /\ state = SKID /\ RespFull
     /\ UNCHANGED <<state, REG, pins2queue_up_ready, resp_PIPE>>

(* reset_thread wakes after ResetEdges edges and before the next one. *)
ClockEdge ==
  /\ rstn \/ edges < ResetEdges
  /\ edges' = IF rstn THEN edges ELSE edges + 1
  /\ Queue2Pins /\ IoBlock /\ Pins2Queue
  /\ UNCHANGED rstn

ResetOff ==
  /\ ~rstn /\ edges = ResetEdges
  /\ rstn' = TRUE
  /\ UNCHANGED <<edges, req_PIPE, resp_PIPE, queue2pins_down_valid,
                 queue2pins_down_data, down_valid_q, down_data_q, ram, state,
                 REG, pins2queue_up_ready>>
-----------------------------------------------------------------------------
(***************************************************************************)
(* The ends of the pipeline that b_transport holds.  An nb_write to a full *)
(* queue or an nb_read of an empty one fails and changes nothing; write    *)
(* and read wait until these steps are enabled.                            *)
(***************************************************************************)
ReqFull == Len(req_PIPE) = FifoDepth

WriteReq(b) ==
  /\ ~ReqFull
  /\ req_PIPE' = Append(req_PIPE, b)
  /\ UNCHANGED <<rstn, edges, resp_PIPE, queue2pins_down_valid,
                 queue2pins_down_data, down_valid_q, down_data_q, ram, state,
                 REG, pins2queue_up_ready>>

ReadResp ==
  /\ resp_PIPE # <<>>
  /\ resp_PIPE' = Tail(resp_PIPE)
  /\ UNCHANGED <<rstn, edges, req_PIPE, queue2pins_down_valid,
                 queue2pins_down_data, down_valid_q, down_data_q, ram, state,
                 REG, pins2queue_up_ready>>

PipeNext ==
  \/ ClockEdge
  \/ ResetOff
  \/ \E b \in Beat : WriteReq(b)
  \/ ReadResp

PipeSpec == PipeInit /\ [][PipeNext]_pipeVars
-----------------------------------------------------------------------------
(***************************************************************************)
(* Properties.                                                             *)
(***************************************************************************)
OneIf(valid, b) == IF valid THEN <<b>> ELSE <<>>

(* Requests io_block has not executed yet, oldest first. *)
Waiting == OneIf(queue2pins_down_valid, queue2pins_down_data) \o req_PIPE

(* Responses nobody has taken yet, oldest first.  Until the first edge in
   reset the output register is power-up noise that nothing samples. *)
Answered == resp_PIPE \o OneIf(state = SKID, REG)
                      \o OneIf(down_valid_q /\ edges > 0, down_data_q)

Queue == INSTANCE MemQueue WITH
  mem <- ram, reqs <- Waiting, resps <- Answered,
  RequestCap <- FifoDepth + 1, ResponseCap <- FifoDepth + 2

(* The pipeline is a bounded in-order queue in front of a memory: whatever
   the order of clock edges, writes and reads, no beat is lost, duplicated,
   reordered or executed twice, the skid register included, and the noise
   the registers hold before reset never becomes a response. *)
ImplementsMemQueue == Queue!Spec

(* valid/ready protocol on the pins after reset (queue2pins_method,
   io_block, pins2queue_method): a beat offered while the receiver is not
   ready is offered again, unchanged, after the edge. *)
StableUnderBackpressure ==
  [][ rstn /\ ~pins2queue_up_ready =>
        /\ queue2pins_down_valid =>
             queue2pins_down_valid' /\ queue2pins_down_data' = queue2pins_down_data
        /\ down_valid_q => down_valid_q' /\ down_data_q' = down_data_q
    ]_pipeVars
=============================================================================
