--------------------------- MODULE RtlPipeProofs ----------------------------
(***************************************************************************)
(* Proofs about RtlPipe for every memory size, byte type, queue depth and  *)
(* reset length: type correctness, the handshake on the pins, and that the *)
(* pipeline implements the queued memory of MemQueue.                      *)
(***************************************************************************)
EXTENDS RtlPipe, SequenceTheorems, TLAPS

(* What the invariants of the pipeline rest on: ready is the negation of
   the skid state, and reset leaves nothing valid behind. *)
SkidInv == state = SKID <=> ~pins2queue_up_ready

ResetInv ==
  /\ rstn => edges = ResetEdges
  /\ ~rstn => /\ state = BYPASS
              /\ ~queue2pins_down_valid
              /\ resp_PIPE = <<>>
              /\ edges > 0 => ~down_valid_q

PipeInv == PipeTypeOK /\ SkidInv /\ ResetInv

-----------------------------------------------------------------------------
(* Lemmas on the sequences the two queues are made of. *)

LEMMA OneIfType ==
  ASSUME NEW S, NEW v \in BOOLEAN, NEW b \in S
  PROVE  /\ OneIf(v, b) \in Seq(S)
         /\ Len(OneIf(v, b)) = IF v THEN 1 ELSE 0
BY DEF OneIf

(* Taking the head of a queue into a register in front of it keeps the
   sequence of the two. *)
LEMMA HeadThenTail ==
  ASSUME NEW S, NEW s \in Seq(S), s # <<>>
  PROVE  <<Head(s)>> \o Tail(s) = s
<1>1. Head(s) \in S /\ Tail(s) \in Seq(S) /\ Len(Tail(s)) = Len(s) - 1
      /\ \A i \in 1 .. Len(Tail(s)) : Tail(s)[i] = s[i+1]
  BY HeadTailProperties
<1>2. <<Head(s)>> \in Seq(S) /\ Len(<<Head(s)>>) = 1
  BY <1>1
<1>3. Len(s) \in Nat \ {0}
  BY EmptySeq
<1>4. <<Head(s)>> \o Tail(s) \in Seq(S) /\ Len(<<Head(s)>> \o Tail(s)) = Len(s)
  BY <1>1, <1>2, <1>3, ConcatProperties
<1>5. ASSUME NEW i \in 1 .. Len(s)
      PROVE  (<<Head(s)>> \o Tail(s))[i] = s[i]
  <2>1. (<<Head(s)>> \o Tail(s))[i] = IF i <= 1 THEN <<Head(s)>>[i] ELSE Tail(s)[i - 1]
    BY <1>1, <1>2, <1>3, ConcatProperties
  <2>2. CASE i = 1
    BY <2>1, <2>2, <1>3
  <2>3. CASE i # 1
    <3>1. i - 1 \in 1 .. Len(Tail(s))
      BY <2>3, <1>1, <1>3
    <3>2. Tail(s)[i - 1] = s[i]
      BY <3>1, <1>1
    <3>. QED  BY <2>1, <2>3, <3>2
  <2>. QED  BY <2>2, <2>3
<1>. QED  BY <1>4, <1>5, SeqEqual

LEMMA TailOfConcat ==
  ASSUME NEW S, NEW s \in Seq(S), NEW t \in Seq(S), s # <<>>
  PROVE  /\ s \o t # <<>>
         /\ Head(s \o t) = Head(s)
         /\ Tail(s \o t) = Tail(s) \o t
<1>1. Tail(s) \in Seq(S) /\ Len(Tail(s)) = Len(s) - 1
      /\ \A i \in 1 .. Len(Tail(s)) : Tail(s)[i] = s[i+1]
  BY HeadTailProperties
<1>2. Len(s) \in Nat \ {0} /\ Len(t) \in Nat
  BY EmptySeq, LenProperties
<1>3. s \o t \in Seq(S) /\ Len(s \o t) = Len(s) + Len(t)
      /\ \A i \in 1 .. Len(s) + Len(t) :
           (s \o t)[i] = IF i <= Len(s) THEN s[i] ELSE t[i - Len(s)]
  BY ConcatProperties
<1>4. s \o t # <<>>
  BY <1>2, <1>3, EmptySeq
<1>5. Head(s \o t) = Head(s)
  BY <1>2, <1>3, <1>4
<1>6. Tail(s \o t) \in Seq(S) /\ Len(Tail(s \o t)) = Len(s) + Len(t) - 1
      /\ \A i \in 1 .. Len(Tail(s \o t)) : Tail(s \o t)[i] = (s \o t)[i+1]
  BY <1>3, <1>4, HeadTailProperties
<1>7. Tail(s) \o t \in Seq(S) /\ Len(Tail(s) \o t) = Len(s) - 1 + Len(t)
      /\ \A i \in 1 .. Len(s) - 1 + Len(t) :
           (Tail(s) \o t)[i] = IF i <= Len(s) - 1 THEN Tail(s)[i] ELSE t[i - (Len(s) - 1)]
  BY <1>1, ConcatProperties
<1>8. ASSUME NEW i \in 1 .. Len(s) + Len(t) - 1
      PROVE  Tail(s \o t)[i] = (Tail(s) \o t)[i]
  <2>1. i + 1 \in 1 .. Len(s) + Len(t) /\ i \in 1 .. Len(s) - 1 + Len(t)
    BY <1>2
  <2>2. CASE i <= Len(s) - 1
    BY <2>1, <2>2, <1>1, <1>2, <1>3, <1>6, <1>7
  <2>3. CASE ~(i <= Len(s) - 1)
    <3>1. i + 1 - Len(s) = i - (Len(s) - 1)
      BY <1>2
    <3>. QED  BY <3>1, <2>1, <2>3, <1>2, <1>3, <1>6, <1>7
  <2>. QED  BY <2>2, <2>3
<1>. QED
  BY <1>2, <1>4, <1>5, <1>6, <1>7, <1>8, SeqEqual
(* Appending behind a queue appends behind what stands in front of it. *)
LEMMA AppendToConcat ==
  ASSUME NEW S, NEW s \in Seq(S), NEW t \in Seq(S), NEW e \in S
  PROVE  s \o Append(t, e) = Append(s \o t, e)
<1>1. <<e>> \in Seq(S) /\ s \o t \in Seq(S)
  BY ConcatProperties
<1>2. Append(t, e) = t \o <<e>> /\ Append(s \o t, e) = (s \o t) \o <<e>>
  BY <1>1, AppendIsConcat
<1>. QED  BY <1>1, <1>2, ConcatAssociative
-----------------------------------------------------------------------------
(***************************************************************************)
(* The inductive invariant.                                                *)
(***************************************************************************)

LEMMA BeatFacts ==
  /\ ZeroBeat \in Beat
  /\ \A b \in Beat, m \in [Addr -> Byte] : ReadOut(m, b) \in Beat
BY MemoryAssumption DEF ZeroBeat, Beat, Cmd, Addr, ReadOut, READ, WRITE

LEMMA PipeInitInv == PipeInit => PipeInv
<1>. SUFFICES ASSUME PipeInit  PROVE PipeInv
  OBVIOUS
<1>1. req_PIPE \in Seq(Beat) /\ Len(req_PIPE) <= FifoDepth
  BY PipeAssumption DEF PipeInit
<1>2. resp_PIPE \in Seq(Beat) /\ Len(resp_PIPE) <= FifoDepth
  BY PipeAssumption DEF PipeInit
<1>3. queue2pins_down_data \in Beat /\ REG \in Beat
  BY BeatFacts DEF PipeInit
<1>4. rstn \in BOOLEAN /\ queue2pins_down_valid \in BOOLEAN
      /\ down_valid_q \in BOOLEAN /\ pins2queue_up_ready \in BOOLEAN
  BY DEF PipeInit
<1>5. edges \in 0 .. ResetEdges
  BY PipeAssumption DEF PipeInit
<1>6. down_data_q \in Beat /\ ram \in [Addr -> Byte] /\ state \in {BYPASS, SKID}
  BY DEF PipeInit
<1>7. PipeTypeOK
  BY <1>1, <1>2, <1>3, <1>4, <1>5, <1>6 DEF PipeTypeOK
<1>8. SkidInv /\ ResetInv
  BY PipeAssumption DEF PipeInit, SkidInv, ResetInv, BYPASS, SKID
<1>. QED  BY <1>7, <1>8 DEF PipeInv

LEMMA Queue2PinsType ==
  ASSUME PipeTypeOK, Queue2Pins
  PROVE  /\ queue2pins_down_valid' \in BOOLEAN
         /\ queue2pins_down_data' \in Beat
         /\ req_PIPE' \in Seq(Beat)
         /\ Len(req_PIPE') <= FifoDepth
<1>. CASE req_PIPE = <<>>
  BY DEF PipeTypeOK, Queue2Pins
<1>. CASE req_PIPE # <<>>
  <2>1. Head(req_PIPE) \in Beat /\ Tail(req_PIPE) \in Seq(Beat)
        /\ Len(Tail(req_PIPE)) = Len(req_PIPE) - 1
    BY HeadTailProperties DEF PipeTypeOK
  <2>2. Len(req_PIPE) \in Nat /\ FifoDepth \in Nat /\ Len(req_PIPE) <= FifoDepth
        /\ req_PIPE \in Seq(Beat)
    BY LenProperties, PipeAssumption DEF PipeTypeOK
  <2>3. req_PIPE' = req_PIPE \/ req_PIPE' = Tail(req_PIPE)
    BY DEF Queue2Pins
  <2>4. req_PIPE' \in Seq(Beat) /\ Len(req_PIPE') <= FifoDepth
    BY <2>1, <2>2, <2>3
  <2>5. queue2pins_down_valid' \in BOOLEAN /\ queue2pins_down_data' \in Beat
    BY <2>1 DEF PipeTypeOK, Queue2Pins
  <2>. QED  BY <2>4, <2>5
<1>. QED  OBVIOUS

LEMMA IoBlockType ==
  ASSUME PipeTypeOK, IoBlock
  PROVE  /\ ram' \in [Addr -> Byte]
         /\ down_data_q' \in Beat
         /\ down_valid_q' \in BOOLEAN
<1>1. ram' \in [Addr -> Byte]
  BY DEF PipeTypeOK, IoBlock, Beat
<1>2. down_data_q' \in Beat
  BY BeatFacts DEF PipeTypeOK, IoBlock
<1>3. down_valid_q' \in BOOLEAN
  BY DEF PipeTypeOK, IoBlock
<1>. QED  BY <1>1, <1>2, <1>3

LEMMA Pins2QueueType ==
  ASSUME PipeTypeOK, Pins2Queue
  PROVE  /\ state' \in {BYPASS, SKID}
         /\ REG' \in Beat
         /\ pins2queue_up_ready' \in BOOLEAN
         /\ resp_PIPE' \in Seq(Beat)
         /\ Len(resp_PIPE') <= FifoDepth
<1>1. ASSUME NEW b \in Beat
      PROVE  Append(resp_PIPE, b) \in Seq(Beat)
             /\ Len(Append(resp_PIPE, b)) = Len(resp_PIPE) + 1
  BY AppendProperties DEF PipeTypeOK
<1>2. Len(resp_PIPE) \in Nat /\ FifoDepth \in Nat /\ Len(resp_PIPE) <= FifoDepth
      /\ resp_PIPE \in Seq(Beat) /\ REG \in Beat /\ down_data_q \in Beat
  BY LenProperties, PipeAssumption DEF PipeTypeOK
<1>3. \/ resp_PIPE' = resp_PIPE
      \/ /\ ~RespFull
         /\ \/ resp_PIPE' = Append(resp_PIPE, down_data_q)
            \/ resp_PIPE' = Append(resp_PIPE, REG)
  BY DEF Pins2Queue
<1>4. resp_PIPE' \in Seq(Beat) /\ Len(resp_PIPE') <= FifoDepth
  BY <1>1, <1>2, <1>3 DEF RespFull
<1>5. state' \in {BYPASS, SKID} /\ pins2queue_up_ready' \in BOOLEAN
  BY DEF PipeTypeOK, Pins2Queue
<1>6. REG' \in Beat
  BY DEF PipeTypeOK, Pins2Queue
<1>. QED  BY <1>4, <1>5, <1>6

LEMMA PipeTypeStep ==
  ASSUME PipeTypeOK, [PipeNext]_pipeVars
  PROVE  PipeTypeOK'
<1>1. CASE ClockEdge
  <2>1. rstn' \in BOOLEAN /\ edges' \in 0 .. ResetEdges
    BY <1>1, PipeAssumption DEF ClockEdge, PipeTypeOK
  <2>2. Queue2Pins /\ IoBlock /\ Pins2Queue
    BY <1>1 DEF ClockEdge
  <2>. QED
    BY <2>1, <2>2, Queue2PinsType, IoBlockType, Pins2QueueType DEF PipeTypeOK
<1>2. CASE ResetOff
  BY <1>2 DEF ResetOff, PipeTypeOK
<1>3. ASSUME NEW b \in Beat, WriteReq(b)
      PROVE  PipeTypeOK'
  <2>1. req_PIPE' \in Seq(Beat) /\ Len(req_PIPE') <= FifoDepth
    BY <1>3, AppendProperties, LenProperties, PipeAssumption
    DEF WriteReq, ReqFull, PipeTypeOK
  <2>. QED  BY <1>3, <2>1 DEF WriteReq, PipeTypeOK
<1>4. CASE ReadResp
  <2>1. resp_PIPE' \in Seq(Beat) /\ Len(resp_PIPE') <= FifoDepth
    BY <1>4, HeadTailProperties, LenProperties, PipeAssumption DEF ReadResp, PipeTypeOK
  <2>. QED  BY <1>4, <2>1 DEF ReadResp, PipeTypeOK
<1>5. CASE UNCHANGED pipeVars
  BY <1>5 DEF pipeVars, PipeTypeOK
<1>. QED  BY <1>1, <1>2, <1>3, <1>4, <1>5 DEF PipeNext

LEMMA PipeInvStep ==
  ASSUME PipeInv, [PipeNext]_pipeVars
  PROVE  PipeInv'
<1>1. PipeTypeOK'
  BY PipeTypeStep DEF PipeInv
<1>2. SkidInv' /\ ResetInv'
  <2>. USE DEF PipeInv, SkidInv, ResetInv, BYPASS, SKID
  <2>1. CASE ClockEdge
    <3>1. SkidInv'
      BY <2>1 DEF ClockEdge, Pins2Queue, PipeTypeOK
    <3>2. rstn' => edges' = ResetEdges
      BY <2>1 DEF ClockEdge
    <3>3. ~rstn' => state' = BYPASS /\ ~queue2pins_down_valid'
      BY <2>1 DEF ClockEdge, Queue2Pins, Pins2Queue
    <3>4. ~rstn' => resp_PIPE' = <<>>
      BY <2>1 DEF ClockEdge, Pins2Queue
    <3>5. ~rstn' => ~down_valid_q'
      BY <2>1 DEF ClockEdge, IoBlock
    <3>. QED  BY <3>1, <3>2, <3>3, <3>4, <3>5
  <2>2. CASE ResetOff
    BY <2>2, PipeAssumption DEF ResetOff, PipeTypeOK
  <2>3. ASSUME NEW b \in Beat, WriteReq(b)
        PROVE  SkidInv' /\ ResetInv'
    BY <2>3 DEF WriteReq
  <2>4. CASE ReadResp
    BY <2>4 DEF ReadResp
  <2>5. CASE UNCHANGED pipeVars
    BY <2>5 DEF pipeVars
  <2>. QED  BY <2>1, <2>2, <2>3, <2>4, <2>5 DEF PipeNext
<1>. QED  BY <1>1, <1>2 DEF PipeInv

LEMMA PipeInvariance == PipeSpec => []PipeInv
<1>1. PipeInit => PipeInv
  BY PipeInitInv
<1>2. PipeInv /\ [PipeNext]_pipeVars => PipeInv'
  BY PipeInvStep
<1>. QED  BY <1>1, <1>2, PTL DEF PipeSpec

(* Every variable of the pipeline keeps its type and neither queue ever
   holds more than its capacity. *)
THEOREM PipeTypeCorrect == PipeSpec => []PipeTypeOK
<1>1. PipeInv => PipeTypeOK
  BY DEF PipeInv
<1>. QED  BY <1>1, PipeInvariance, PTL

(* valid/ready on the pins: a beat offered while the receiver is not ready
   is offered again unchanged after the step. *)
THEOREM PinsStable == PipeSpec => StableUnderBackpressure
<1>. DEFINE Stable ==
       rstn /\ ~pins2queue_up_ready =>
         /\ queue2pins_down_valid =>
              queue2pins_down_valid' /\ queue2pins_down_data' = queue2pins_down_data
         /\ down_valid_q => down_valid_q' /\ down_data_q' = down_data_q
<1>1. PipeNext => Stable
  <2>1. ClockEdge => Stable
    BY DEF ClockEdge, Queue2Pins, PinsFree, IoBlock
  <2>2. ResetOff => Stable
    BY DEF ResetOff
  <2>3. ASSUME NEW b \in Beat  PROVE WriteReq(b) => Stable
    BY DEF WriteReq
  <2>4. ReadResp => Stable
    BY DEF ReadResp
  <2>. QED  BY <2>1, <2>2, <2>3, <2>4 DEF PipeNext
<1>2. [PipeNext]_pipeVars => [Stable]_pipeVars
  BY <1>1
<1>. QED  BY <1>2, PTL DEF PipeSpec, StableUnderBackpressure
-----------------------------------------------------------------------------
(***************************************************************************)
(* Refinement: the pipeline implements the queued memory of MemQueue.      *)
(* Waiting and Answered are concatenations of a queue and the registers    *)
(* next to it, so each step comes down to a lemma on sequences above.      *)
(***************************************************************************)

(* A step of the abstract queue that adds nothing to its own variables. *)
QueueVars == <<ram, Waiting, Answered>>

LEMMA EmptyConcat ==
  ASSUME NEW s \in Seq(Beat)
  PROVE  s \o <<>> = s /\ <<>> \o s = s
BY ConcatEmptySeq

LEMMA ViewType ==
  ASSUME PipeInv
  PROVE  /\ Waiting \in Seq(Beat)
         /\ Answered \in Seq(Beat)
         /\ Len(Waiting) <= Len(req_PIPE) + 1
         /\ state # SKID => Len(Answered) <= Len(resp_PIPE) + 1
<1>. DEFINE W == OneIf(queue2pins_down_valid, queue2pins_down_data)
            X == OneIf(state = SKID, REG)
            Y == OneIf(down_valid_q /\ edges > 0, down_data_q)
<1>1. W \in Seq(Beat) /\ Len(W) = IF queue2pins_down_valid THEN 1 ELSE 0
  BY OneIfType DEF PipeInv, PipeTypeOK
<1>2. X \in Seq(Beat) /\ Len(X) = IF state = SKID THEN 1 ELSE 0
  BY OneIfType DEF PipeInv, PipeTypeOK
<1>3. Y \in Seq(Beat) /\ Len(Y) \in Nat /\ Len(Y) <= 1
  <2>1. CASE down_valid_q /\ edges > 0
    BY <2>1 DEF PipeInv, PipeTypeOK, OneIf
  <2>2. CASE ~(down_valid_q /\ edges > 0)
    BY <2>2 DEF OneIf
  <2>. QED  BY <2>1, <2>2
<1>4. req_PIPE \in Seq(Beat) /\ resp_PIPE \in Seq(Beat)
      /\ Len(req_PIPE) \in Nat /\ Len(resp_PIPE) \in Nat
  BY LenProperties DEF PipeInv, PipeTypeOK
<1>. HIDE DEF W, X, Y
<1>5. W \o req_PIPE \in Seq(Beat) /\ Len(W \o req_PIPE) = Len(W) + Len(req_PIPE)
  BY <1>1, <1>4, ConcatProperties
<1>6. resp_PIPE \o X \in Seq(Beat) /\ Len(resp_PIPE \o X) = Len(resp_PIPE) + Len(X)
  BY <1>2, <1>4, ConcatProperties
<1>7. /\ (resp_PIPE \o X) \o Y \in Seq(Beat)
      /\ Len((resp_PIPE \o X) \o Y) = Len(resp_PIPE) + Len(X) + Len(Y)
  BY <1>3, <1>6, ConcatProperties
<1>8. Waiting = W \o req_PIPE /\ Answered = (resp_PIPE \o X) \o Y
  BY DEF Waiting, Answered, W, X, Y
<1>9. Waiting \in Seq(Beat) /\ Answered \in Seq(Beat)
  BY <1>5, <1>7, <1>8
<1>10. Len(Waiting) <= Len(req_PIPE) + 1
  <2>1. Len(W) \in Nat /\ Len(W) <= 1 /\ Len(Waiting) = Len(W) + Len(req_PIPE)
    BY <1>1, <1>5, <1>8
  <2>. QED  BY <2>1, <1>4
<1>11. ASSUME state # SKID
       PROVE  Len(Answered) <= Len(resp_PIPE) + 1
  <2>1. Len(Answered) = Len(resp_PIPE) + Len(X) + Len(Y)
    BY <1>7, <1>8
  <2>2. Len(X) = 0
    BY <1>2, <1>11
  <2>. QED  BY <2>1, <2>2, <1>3, <1>4
<1>. QED  BY <1>9, <1>10, <1>11

LEMMA QueueInit == PipeInit => Queue!Init
<1>. SUFFICES ASSUME PipeInit  PROVE Queue!Init
  OBVIOUS
<1>1. Waiting = <<>> \o <<>>
  BY DEF PipeInit, Waiting, OneIf
<1>2. Answered = (<<>> \o <<>>) \o <<>>
  BY DEF PipeInit, Answered, OneIf, BYPASS, SKID
<1>3. <<>> \o <<>> = <<>>
  BY EmptyConcat
<1>4. ram \in [Addr -> Byte]
  BY DEF PipeInit
<1>. QED  BY <1>1, <1>2, <1>3, <1>4 DEF Queue!Init, Queue!Addr, Addr

(* While in reset nothing is valid, and an edge leaves it so. *)
LEMMA ResetStutters ==
  ASSUME PipeInv, ~rstn, ClockEdge
  PROVE  UNCHANGED QueueVars
<1>1. /\ ~queue2pins_down_valid /\ ~queue2pins_down_valid'
      /\ req_PIPE' = req_PIPE
  BY DEF ClockEdge, Queue2Pins, PipeInv, ResetInv
<1>2. state = BYPASS /\ state' = BYPASS /\ resp_PIPE' = resp_PIPE
  BY DEF ClockEdge, Pins2Queue, PipeInv, ResetInv
<1>3. ~(down_valid_q /\ edges > 0) /\ ~down_valid_q'
  BY DEF ClockEdge, IoBlock, PipeInv, ResetInv
<1>4. ram' = ram
  BY <1>1 DEF ClockEdge, IoBlock, ram_we
<1>5. Waiting' = Waiting
  BY <1>1 DEF Waiting, OneIf
<1>6. Answered' = Answered
  BY <1>2, <1>3 DEF Answered, OneIf, BYPASS, SKID
<1>. QED  BY <1>4, <1>5, <1>6 DEF QueueVars

(* io_block moves: its output joins the answers, and the register in front
   of it is reloaded. *)
LEMMA ReadyAnswers ==
  ASSUME PipeInv, rstn, pins2queue_up_ready, ClockEdge
  PROVE  Answered' = Answered \o OneIf(queue2pins_down_valid,
                                       ReadOut(ram, queue2pins_down_data))
<1>. DEFINE new == OneIf(queue2pins_down_valid, ReadOut(ram, queue2pins_down_data))
<1>1. state = BYPASS /\ state # SKID /\ edges > 0 /\ edges' > 0
  BY PipeAssumption
  DEF PipeInv, PipeTypeOK, SkidInv, ResetInv, ClockEdge, BYPASS, SKID
<1>2. /\ down_valid_q' = queue2pins_down_valid
      /\ down_data_q' = ReadOut(ram, queue2pins_down_data)
  BY DEF ClockEdge, IoBlock
<1>3. resp_PIPE \in Seq(Beat) /\ down_data_q \in Beat
  BY DEF PipeInv, PipeTypeOK
<1>4. OneIf(down_valid_q' /\ edges' > 0, down_data_q') = new
  BY <1>1, <1>2 DEF OneIf
<1>5. Answered = resp_PIPE \o OneIf(down_valid_q, down_data_q)
  <2>1. Answered = (resp_PIPE \o <<>>) \o OneIf(down_valid_q, down_data_q)
    BY <1>1 DEF Answered, OneIf
  <2>. QED  BY <2>1, <1>3, EmptyConcat
<1>6. Answered' = (resp_PIPE' \o OneIf(state' = SKID, REG')) \o new
  BY <1>4 DEF Answered
<1>7. resp_PIPE' \o OneIf(state' = SKID, REG')
        = resp_PIPE \o OneIf(down_valid_q, down_data_q)
  <2>1. CASE down_valid_q /\ ~RespFull
    <3>1. resp_PIPE' = Append(resp_PIPE, down_data_q) /\ state' # SKID
      BY <2>1, <1>1 DEF ClockEdge, Pins2Queue, Handshake, BYPASS, SKID
    <3>2. Append(resp_PIPE, down_data_q) \in Seq(Beat)
      BY <1>3, AppendProperties
    <3>3. Append(resp_PIPE, down_data_q) = resp_PIPE \o <<down_data_q>>
      BY <1>3, AppendIsConcat
    <3>4. OneIf(state' = SKID, REG') = <<>> /\ OneIf(down_valid_q, down_data_q) = <<down_data_q>>
      BY <3>1, <2>1 DEF OneIf
    <3>. QED  BY <3>1, <3>2, <3>3, <3>4, EmptyConcat
  <2>2. CASE down_valid_q /\ RespFull
    <3>1. resp_PIPE' = resp_PIPE /\ state' = SKID /\ REG' = down_data_q
      BY <2>2, <1>1 DEF ClockEdge, Pins2Queue, Handshake, BYPASS, SKID
    <3>. QED  BY <3>1, <2>2 DEF OneIf
  <2>3. CASE ~down_valid_q
    <3>1. resp_PIPE' = resp_PIPE /\ state' # SKID
      BY <2>3, <1>1 DEF ClockEdge, Pins2Queue, Handshake, BYPASS, SKID
    <3>. QED  BY <3>1, <2>3 DEF OneIf
  <2>. QED  BY <2>1, <2>2, <2>3
<1>. QED  BY <1>5, <1>6, <1>7

LEMMA ReadyReloads ==
  ASSUME PipeInv, rstn, PinsFree, ClockEdge
  PROVE  Waiting' = req_PIPE
<1>1. req_PIPE \in Seq(Beat)
  BY DEF PipeInv, PipeTypeOK
<1>2. CASE req_PIPE = <<>>
  <2>1. ~queue2pins_down_valid' /\ req_PIPE' = req_PIPE
    BY <1>2 DEF ClockEdge, Queue2Pins
  <2>. QED  BY <2>1, <1>1, EmptyConcat DEF Waiting, OneIf
<1>3. CASE req_PIPE # <<>>
  <2>1. /\ queue2pins_down_valid' = TRUE
        /\ queue2pins_down_data' = Head(req_PIPE)
        /\ req_PIPE' = Tail(req_PIPE)
    BY <1>3 DEF ClockEdge, Queue2Pins
  <2>2. Waiting' = <<Head(req_PIPE)>> \o Tail(req_PIPE)
    BY <2>1 DEF Waiting, OneIf
  <2>. QED  BY <2>2, <1>1, <1>3, HeadThenTail
<1>. QED  BY <1>2, <1>3

LEMMA ReadyStep ==
  ASSUME PipeInv, rstn, pins2queue_up_ready, ClockEdge
  PROVE  Queue!Execute \/ UNCHANGED QueueVars
<1>1. Waiting' = req_PIPE
  BY ReadyReloads DEF PinsFree
<1>2. req_PIPE \in Seq(Beat) /\ queue2pins_down_data \in Beat
      /\ ram \in [Addr -> Byte] /\ Answered \in Seq(Beat)
  BY ViewType DEF PipeInv, PipeTypeOK
<1>3. CASE queue2pins_down_valid
  <2>. DEFINE d == queue2pins_down_data
  <2>1. Answered' = Append(Answered, ReadOut(ram, d))
    <3>1. Answered' = Answered \o <<ReadOut(ram, d)>>
      BY <1>3, ReadyAnswers DEF OneIf
    <3>2. ReadOut(ram, d) \in Beat
      BY <1>2, BeatFacts
    <3>. QED  BY <3>1, <3>2, <1>2, AppendIsConcat
  <2>2. Waiting # <<>> /\ Head(Waiting) = d /\ Tail(Waiting) = req_PIPE
    <3>1. <<d>> \in Seq(Beat) /\ <<d>> # <<>> /\ Head(<<d>>) = d /\ Tail(<<d>>) = <<>>
      BY <1>2
    <3>2. Waiting = <<d>> \o req_PIPE
      BY <1>3 DEF Waiting, OneIf
    <3>3. /\ Waiting # <<>> /\ Head(Waiting) = Head(<<d>>)
          /\ Tail(Waiting) = Tail(<<d>>) \o req_PIPE
      BY <3>1, <3>2, <1>2, TailOfConcat
    <3>. QED  BY <3>1, <3>3, <1>2, EmptyConcat
  <2>3. Len(Answered) < FifoDepth + 2
    <3>1. state # SKID
      BY DEF PipeInv, SkidInv
    <3>2. Len(resp_PIPE) <= FifoDepth /\ Len(resp_PIPE) \in Nat /\ FifoDepth \in Nat
      BY LenProperties, PipeAssumption DEF PipeInv, PipeTypeOK
    <3>3. Len(Answered) \in Nat
      BY <1>2, LenProperties
    <3>. QED  BY <3>1, <3>2, <3>3, ViewType
  <2>4. ram' = Queue!Store(ram, d)
    BY <1>3 DEF ClockEdge, IoBlock, ram_we, Queue!Store, Queue!WRITE, WRITE
  <2>5. ReadOut(ram, d) = Queue!Answer(ram, d)
    BY DEF ReadOut, Queue!Answer, Queue!WRITE, WRITE
  <2>. QED  BY <1>1, <2>1, <2>2, <2>3, <2>4, <2>5 DEF Queue!Execute
<1>4. CASE ~queue2pins_down_valid
  <2>1. Waiting = req_PIPE
    BY <1>4, <1>2, EmptyConcat DEF Waiting, OneIf
  <2>2. Answered' = Answered
    BY <1>4, <1>2, ReadyAnswers, EmptyConcat DEF OneIf
  <2>3. ram' = ram
    BY <1>4 DEF ClockEdge, IoBlock, ram_we
  <2>. QED  BY <1>1, <2>1, <2>2, <2>3 DEF QueueVars
<1>. QED  BY <1>3, <1>4

(* The skid register empties into the queue, and nothing else moves past it. *)
LEMMA SkidStutters ==
  ASSUME PipeInv, rstn, ~pins2queue_up_ready, ClockEdge
  PROVE  UNCHANGED QueueVars
<1>1. state = SKID /\ edges > 0 /\ edges' = edges
  BY PipeAssumption DEF PipeInv, SkidInv, ResetInv, ClockEdge
<1>2. /\ down_valid_q' = down_valid_q /\ down_data_q' = down_data_q
      /\ ram' = ram
  BY DEF ClockEdge, IoBlock, ram_we
<1>3. resp_PIPE \in Seq(Beat) /\ REG \in Beat /\ req_PIPE \in Seq(Beat)
  BY DEF PipeInv, PipeTypeOK
<1>4. Waiting' = Waiting
  <2>1. CASE queue2pins_down_valid
    <3>1. /\ queue2pins_down_valid' = queue2pins_down_valid
          /\ queue2pins_down_data' = queue2pins_down_data
          /\ req_PIPE' = req_PIPE
      BY <2>1 DEF ClockEdge, Queue2Pins, PinsFree
    <3>. QED  BY <3>1 DEF Waiting
  <2>2. CASE ~queue2pins_down_valid
    <3>1. Waiting' = req_PIPE
      BY <2>2, ReadyReloads DEF PinsFree
    <3>2. Waiting = req_PIPE
      BY <2>2, <1>3, EmptyConcat DEF Waiting, OneIf
    <3>. QED  BY <3>1, <3>2
  <2>. QED  BY <2>1, <2>2
<1>5. resp_PIPE' \o OneIf(state' = SKID, REG') = resp_PIPE \o OneIf(state = SKID, REG)
  <2>1. CASE RespFull
    <3>1. resp_PIPE' = resp_PIPE /\ state' = state /\ REG' = REG
      BY <2>1, <1>1 DEF ClockEdge, Pins2Queue, BYPASS, SKID
    <3>. QED  BY <3>1
  <2>2. CASE ~RespFull
    <3>1. resp_PIPE' = Append(resp_PIPE, REG) /\ state' # SKID
      BY <2>2, <1>1 DEF ClockEdge, Pins2Queue, BYPASS, SKID
    <3>2. Append(resp_PIPE, REG) \in Seq(Beat)
      BY <1>3, AppendProperties
    <3>3. Append(resp_PIPE, REG) = resp_PIPE \o <<REG>>
      BY <1>3, AppendIsConcat
    <3>4. OneIf(state' = SKID, REG') = <<>> /\ OneIf(state = SKID, REG) = <<REG>>
      BY <3>1, <1>1 DEF OneIf
    <3>. QED  BY <3>1, <3>2, <3>3, <3>4, EmptyConcat
  <2>. QED  BY <2>1, <2>2
<1>6. Answered' = Answered
  BY <1>1, <1>2, <1>5 DEF Answered
<1>. QED  BY <1>2, <1>4, <1>6 DEF QueueVars

LEMMA WriteReqStep ==
  ASSUME PipeInv, NEW b \in Beat, WriteReq(b)
  PROVE  Queue!Request(b)
<1>1. ram' = ram /\ Answered' = Answered
  BY DEF WriteReq, Answered
<1>2. Len(Waiting) < FifoDepth + 1
  <2>1. Len(req_PIPE) \in Nat /\ Len(req_PIPE) < FifoDepth /\ FifoDepth \in Nat
    <3>1. Len(req_PIPE) \in Nat /\ Len(req_PIPE) <= FifoDepth /\ FifoDepth \in Nat
      BY LenProperties, PipeAssumption DEF PipeInv, PipeTypeOK
    <3>2. Len(req_PIPE) # FifoDepth
      BY DEF WriteReq, ReqFull
    <3>. QED  BY <3>1, <3>2
  <2>2. Len(Waiting) \in Nat /\ Len(Waiting) <= Len(req_PIPE) + 1
    BY ViewType, LenProperties
  <2>. QED  BY <2>1, <2>2
<1>3. Waiting' = Append(Waiting, b)
  <2>. DEFINE W == OneIf(queue2pins_down_valid, queue2pins_down_data)
  <2>1. W \in Seq(Beat) /\ req_PIPE \in Seq(Beat)
    BY OneIfType DEF PipeInv, PipeTypeOK
  <2>2. Waiting = W \o req_PIPE /\ Waiting' = W \o Append(req_PIPE, b)
    BY DEF WriteReq, Waiting
  <2>. HIDE DEF W
  <2>. QED  BY <2>1, <2>2, AppendToConcat
<1>. QED  BY <1>1, <1>2, <1>3 DEF Queue!Request

LEMMA ReadRespStep ==
  ASSUME PipeInv, ReadResp
  PROVE  Queue!Respond
<1>1. ram' = ram /\ Waiting' = Waiting
  BY DEF ReadResp, Waiting
<1>2. Answered # <<>> /\ Answered' = Tail(Answered)
  <2>. DEFINE X == OneIf(state = SKID, REG)
              Y == OneIf(down_valid_q /\ edges > 0, down_data_q)
  <2>1. resp_PIPE \in Seq(Beat) /\ X \in Seq(Beat) /\ Y \in Seq(Beat)
    BY OneIfType DEF PipeInv, PipeTypeOK
  <2>2. resp_PIPE # <<>>
    BY DEF ReadResp
  <2>3. Answered = (resp_PIPE \o X) \o Y /\ Answered' = (Tail(resp_PIPE) \o X) \o Y
    BY DEF ReadResp, Answered
  <2>. HIDE DEF X, Y
  <2>4. resp_PIPE \o X # <<>> /\ Tail(resp_PIPE \o X) = Tail(resp_PIPE) \o X
    BY <2>1, <2>2, TailOfConcat
  <2>5. resp_PIPE \o X \in Seq(Beat)
    BY <2>1, ConcatProperties
  <2>6. Answered # <<>> /\ Tail(Answered) = Tail(resp_PIPE \o X) \o Y
    BY <2>1, <2>3, <2>4, <2>5, TailOfConcat
  <2>. QED  BY <2>3, <2>4, <2>6
<1>. QED  BY <1>1, <1>2 DEF Queue!Respond

LEMMA QueueStep ==
  ASSUME PipeInv, [PipeNext]_pipeVars
  PROVE  [Queue!Next]_(Queue!qvars)
<1>. USE DEF QueueVars, Queue!qvars, Queue!Next
<1>1. CASE ClockEdge
  <2>1. CASE ~rstn
    BY <1>1, <2>1, ResetStutters
  <2>2. CASE rstn /\ pins2queue_up_ready
    BY <1>1, <2>2, ReadyStep
  <2>3. CASE rstn /\ ~pins2queue_up_ready
    BY <1>1, <2>3, SkidStutters
  <2>. QED  BY <2>1, <2>2, <2>3
<1>2. CASE ResetOff
  BY <1>2 DEF ResetOff, Waiting, Answered
<1>3. ASSUME NEW b \in Beat, WriteReq(b)
      PROVE  Queue!Next
  <2>1. b \in Queue!Beat
    BY DEF Queue!Beat, Queue!Cmd, Queue!READ, Queue!WRITE, Queue!Addr,
           Beat, Cmd, READ, WRITE, Addr
  <2>. QED  BY <1>3, <2>1, WriteReqStep
<1>4. CASE ReadResp
  BY <1>4, ReadRespStep
<1>5. CASE UNCHANGED pipeVars
  BY <1>5 DEF pipeVars, Waiting, Answered
<1>. QED  BY <1>1, <1>2, <1>3, <1>4, <1>5 DEF PipeNext

(* The queues, registers, skid buffer and RAM together are one in-order
   queue in front of a memory: no beat is lost, duplicated, reordered or
   executed twice, whatever the queue depth and the order of the edges. *)
THEOREM PipeImplementsMemQueue == PipeSpec => ImplementsMemQueue
<1>1. PipeInit => Queue!Init
  BY QueueInit
<1>2. PipeInv /\ [PipeNext]_pipeVars => [Queue!Next]_(Queue!qvars)
  BY QueueStep
<1>. QED
  BY <1>1, <1>2, PipeInvariance, PTL DEF PipeSpec, ImplementsMemQueue, Queue!Spec
=============================================================================
