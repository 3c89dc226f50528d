---------------------------- MODULE MemRtlProofs ----------------------------
(***************************************************************************)
(* Proofs about MemRtl, for any number of threads, any memory, any queue   *)
(* depth and any mixture of blocking and non-blocking bursts.              *)
(***************************************************************************)
EXTENDS MemRtl, RtlPipeProofs

CallBuffer(c) == [0 .. c.len - 1 -> Byte]

(* The beat of index k of a burst, on its way or answered. *)
BeatFor(c, k, b) ==
  /\ b.op = c.cmd /\ b.addr = c.addr + k
  /\ b.last <=> k = c.len - 1
  /\ c.cmd = WRITE => b.data = c.data[k]

(* A burst of which r answers have been taken and q beats sent: A are the
   answers on their way back, W the beats not yet executed, m the memory and
   d the buffer. *)
Burst(c, r, q, A, W, m, d) ==
  /\ r \in Nat /\ q \in Nat /\ r < c.len /\ q <= c.len
  /\ r + Len(A) + Len(W) = q
  /\ \A i \in 1 .. Len(A) :
       /\ BeatFor(c, r + i - 1, A[i])
       /\ c.cmd = READ => A[i].data = m[c.addr + (r + i - 1)]
  /\ \A i \in 1 .. Len(W) : BeatFor(c, r + Len(A) + i - 1, W[i])
  /\ d \in CallBuffer(c)
  /\ c.cmd = WRITE => /\ d = c.data
                      /\ \A k \in 0 .. r + Len(A) - 1 : m[c.addr + k] = c.data[k]
  /\ c.cmd = READ => \A k \in 0 .. r - 1 : d[k] = m[c.addr + k]

(* Where a thread stands, and what its variables hold there. *)
PlaceInv(t) ==
  /\ pc[t] \in {"write", "read", "nb"} <=> rtl_access = t
  /\ pc[t] = "idle" <=> call[t] = NoCall
  /\ pc[t] \in {"entry", "blocked", "woken"} =>
       data[t] = call[t].data /\ curr_req[t] = 0 /\ curr_resp[t] = 0
  /\ pc[t] \in {"blocked", "woken", "write", "read", "nb"} =>
       InRange(call[t]) /\ status[t] = OK
  /\ status[t] = ERROR => pc[t] = "return" /\ ~InRange(call[t])
  /\ pc[t] = "write" => curr_req[t] = curr_resp[t] /\ ~call[t].ext
  /\ pc[t] = "read" => curr_req[t] = curr_resp[t] + 1 /\ ~call[t].ext
  /\ pc[t] = "nb" => call[t].ext
  /\ req_vec[t] # NoBeat => /\ pc[t] = "nb" /\ curr_req[t] < call[t].len
                            /\ req_vec[t] = BeatOf(t, curr_req[t])

(* Its burst, as far as it has come. *)
BurstInv(t) ==
  rtl_access = t =>
    Burst(call[t], curr_resp[t], curr_req[t], Answered, Waiting, ram, data[t])

ThreadInv(t) == PlaceInv(t) /\ BurstInv(t)

MutexInv ==
  /\ rtl_access = NoThread => Answered = <<>> /\ Waiting = <<>>
  /\ data = [t \in Threads |-> data[t]]
  /\ \A t \in Threads : ThreadInv(t)

IInv == PipeInv /\ TypeOK /\ MutexInv
-----------------------------------------------------------------------------
(***************************************************************************)
(* A burst against the queued memory: what each step of MemQueue does to   *)
(* it.                                                                     *)
(***************************************************************************)

LEMMA CallFacts ==
  ASSUME NEW c \in Calls
  PROVE  /\ c.cmd \in Cmd /\ c.addr \in Nat /\ c.len \in Nat \ {0}
         /\ c.data \in CallBuffer(c) /\ c.ext \in BOOLEAN /\ c # NoCall
BY MemRtlAssumption DEF CallBuffer

LEMMA InRangeAddr ==
  ASSUME NEW c \in Calls, InRange(c), NEW k \in 0 .. c.len - 1
  PROVE  c.addr + k \in Addr /\ (c.addr + k) % (MaxAddr + 1) = c.addr + k
<1>1. c.addr \in Nat /\ c.len \in Nat \ {0} /\ k \in Nat /\ MaxAddr \in Nat
  BY CallFacts, MemoryAssumption
<1>2. c.addr + k <= MaxAddr
  BY <1>1 DEF InRange
<1>3. ASSUME NEW x \in Nat, x <= MaxAddr  PROVE x % (MaxAddr + 1) = x
  BY <1>1, <1>3
<1>. QED  BY <1>1, <1>2, <1>3 DEF Addr

LEMMA BurstStart ==
  ASSUME NEW c \in Calls, NEW m
  PROVE  Burst(c, 0, 0, <<>>, <<>>, m, c.data)
<1>1. c.len \in Nat \ {0} /\ c.data \in CallBuffer(c) /\ Len(<<>>) = 0
  BY CallFacts
<1>. QED  BY <1>1 DEF Burst

(* A beat is sent. *)
LEMMA BurstRequest ==
  ASSUME NEW c \in Calls, NEW r, NEW q, NEW A \in Seq(Beat), NEW W \in Seq(Beat), NEW m, NEW d,
         Burst(c, r, q, A, W, m, d), q < c.len,
         NEW b \in Beat, BeatFor(c, q, b)
  PROVE  Burst(c, r, q + 1, A, Append(W, b), m, d)
<1>1. c.len \in Nat \ {0} /\ r \in Nat /\ q \in Nat /\ Len(A) \in Nat /\ Len(W) \in Nat
      /\ (r + Len(A)) + Len(W) = q
  BY CallFacts, LenProperties DEF Burst
<1>2. /\ Len(Append(W, b)) = Len(W) + 1 /\ Append(W, b)[Len(W) + 1] = b
      /\ \A i \in 1 .. Len(W) : Append(W, b)[i] = W[i]
  BY AppendProperties
<1>3. ASSUME NEW i \in 1 .. Len(W) + 1
      PROVE  BeatFor(c, r + Len(A) + i - 1, Append(W, b)[i])
  <2>1. CASE i = Len(W) + 1
    <3>1. r + Len(A) + i - 1 = q
      BY <1>1, <2>1
    <3>. QED  BY <1>2, <2>1, <3>1
  <2>2. CASE i # Len(W) + 1
    <3>1. i \in 1 .. Len(W)
      BY <1>1, <2>2
    <3>. QED  BY <1>2, <3>1 DEF Burst
  <2>. QED  BY <2>1, <2>2
<1>4. q + 1 \in Nat /\ q + 1 <= c.len /\ (r + Len(A)) + Len(Append(W, b)) = q + 1
  BY <1>1, <1>2
<1>. QED  BY <1>2, <1>3, <1>4 DEF Burst

(* The oldest beat that waits is the next one of the burst. *)
LEMMA BurstHead ==
  ASSUME NEW c \in Calls, NEW r, NEW q, NEW A \in Seq(Beat), NEW W \in Seq(Beat), NEW m, NEW d,
         Burst(c, r, q, A, W, m, d), W # <<>>
  PROVE  /\ r + Len(A) \in 0 .. c.len - 1
         /\ BeatFor(c, r + Len(A), Head(W)) /\ Head(W) \in Beat
<1>1. c.len \in Nat \ {0} /\ r \in Nat /\ q \in Nat /\ Len(A) \in Nat /\ Len(W) \in Nat \ {0}
      /\ (r + Len(A)) + Len(W) = q /\ q <= c.len
  BY CallFacts, LenProperties, EmptySeq DEF Burst
<1>2. Head(W) = W[1] /\ Head(W) \in Beat /\ 1 \in 1 .. Len(W)
  BY <1>1, HeadTailProperties
<1>3. BeatFor(c, r + Len(A) + 1 - 1, W[1])
  BY <1>2 DEF Burst
<1>4. r + Len(A) + 1 - 1 = r + Len(A)
  BY <1>1
<1>. QED  BY <1>1, <1>2, <1>3, <1>4

(* io_block executes it. *)
LEMMA BurstExecute ==
  ASSUME NEW c \in Calls, InRange(c), NEW m \in [Addr -> Byte],
         NEW r, NEW q, NEW A \in Seq(Beat), NEW W \in Seq(Beat), NEW d,
         Burst(c, r, q, A, W, m, d), W # <<>>
  PROVE  Burst(c, r, q, Append(A, Queue!Answer(m, Head(W))), Tail(W),
               Queue!Store(m, Head(W)), d)
<1>. DEFINE b == Head(W)
            x == Queue!Answer(m, b)
            n == Queue!Store(m, b)
            k == r + Len(A)
<1>1. c.len \in Nat \ {0} /\ c.addr \in Nat /\ r \in Nat /\ q \in Nat
      /\ Len(A) \in Nat /\ Len(W) \in Nat \ {0}
      /\ (r + Len(A)) + Len(W) = q /\ q <= c.len
  BY CallFacts, LenProperties, EmptySeq DEF Burst
<1>2. k \in 0 .. c.len - 1 /\ BeatFor(c, k, b) /\ b \in Beat
  BY BurstHead
<1>3. x \in Beat /\ BeatFor(c, k, x) /\ (c.cmd = READ => x.data = n[c.addr + k])
      /\ (c.cmd = READ => n = m)
      /\ (c.cmd = WRITE => n = [m EXCEPT ![c.addr + k] = c.data[k]])
  <2>1. b = [op |-> b.op, last |-> b.last, addr |-> b.addr, data |-> b.data]
        /\ b.op \in Cmd /\ b.last \in BOOLEAN /\ b.addr \in Addr /\ b.data \in Byte
        /\ b.op = c.cmd /\ b.addr = c.addr + k
    BY <1>2 DEF Beat, BeatFor
  <2>2. CASE c.cmd = WRITE
    BY <2>1, <2>2, <1>2
    DEF Queue!Answer, Queue!Store, Queue!WRITE, WRITE, READ, BeatFor
  <2>3. CASE c.cmd = READ
    BY <2>1, <2>3, <1>2
    DEF Queue!Answer, Queue!Store, Queue!WRITE, WRITE, READ, BeatFor, Beat
  <2>. QED  BY <2>2, <2>3, CallFacts DEF Cmd
<1>4. /\ Len(Append(A, x)) = Len(A) + 1 /\ Append(A, x)[Len(A) + 1] = x
      /\ \A i \in 1 .. Len(A) : Append(A, x)[i] = A[i]
  BY <1>3, AppendProperties
<1>5. /\ Len(Tail(W)) = Len(W) - 1
      /\ \A i \in 1 .. Len(W) - 1 : Tail(W)[i] = W[i + 1]
  BY HeadTailProperties
<1>. HIDE DEF b, x, n, k
<1>6. ASSUME NEW i \in 1 .. Len(A) + 1
      PROVE  /\ BeatFor(c, r + i - 1, Append(A, x)[i])
             /\ c.cmd = READ => Append(A, x)[i].data = n[c.addr + (r + i - 1)]
  <2>1. CASE i = Len(A) + 1
    <3>1. r + i - 1 = k
      BY <1>1, <2>1 DEF k
    <3>. QED  BY <1>3, <1>4, <2>1, <3>1
  <2>2. CASE i # Len(A) + 1
    <3>1. i \in 1 .. Len(A)
      BY <1>1, <2>2
    <3>. QED  BY <1>3, <1>4, <3>1 DEF Burst
  <2>. QED  BY <2>1, <2>2
<1>7. ASSUME NEW i \in 1 .. Len(W) - 1
      PROVE  BeatFor(c, r + (Len(A) + 1) + i - 1, Tail(W)[i])
  <2>1. i + 1 \in 1 .. Len(W) /\ r + (Len(A) + 1) + i - 1 = r + Len(A) + (i + 1) - 1
    BY <1>1
  <2>. QED  BY <1>5, <2>1 DEF Burst
<1>8. ASSUME c.cmd = WRITE, NEW i \in 0 .. r + (Len(A) + 1) - 1
      PROVE  n[c.addr + i] = c.data[i]
  <2>0. c.addr + k \in Addr /\ k \in Nat
    BY <1>2, InRangeAddr
  <2>1. CASE i = k
    BY <1>3, <1>8, <2>0, <2>1
  <2>2. CASE i # k
    <3>1. i \in 0 .. r + Len(A) - 1 /\ i \in Nat
      BY <1>1, <2>2 DEF k
    <3>2. m[c.addr + i] = c.data[i]
      BY <1>8, <3>1 DEF Burst
    <3>3. c.addr + i # c.addr + k
      BY <1>1, <2>0, <2>2, <3>1
    <3>4. i \in 0 .. c.len - 1
      BY <1>1, <3>1
    <3>5. c.addr + i \in Addr
      BY <3>4, InRangeAddr
    <3>. QED  BY <1>3, <1>8, <3>2, <3>3, <3>5
  <2>. QED  BY <2>1, <2>2
<1>9. c.cmd = READ => \A i \in 0 .. r - 1 : d[i] = n[c.addr + i]
  BY <1>3 DEF Burst
<1>10. r + (Len(A) + 1) + (Len(W) - 1) = q
  BY <1>1
<1>11. /\ r \in Nat /\ q \in Nat /\ r < c.len /\ q <= c.len /\ d \in CallBuffer(c)
       /\ c.cmd = WRITE => d = c.data
  BY DEF Burst
<1>. QED
  BY <1>4, <1>5, <1>6, <1>7, <1>8, <1>9, <1>10, <1>11 DEF Burst, b, x, n

(* The oldest answer is the one the thread waits for. *)
LEMMA BurstOldest ==
  ASSUME NEW c \in Calls, NEW r, NEW q, NEW A \in Seq(Beat), NEW W \in Seq(Beat), NEW m, NEW d,
         Burst(c, r, q, A, W, m, d), A # <<>>
  PROVE  /\ BeatFor(c, r, Head(A)) /\ Head(A) \in Beat
         /\ c.cmd = READ => Head(A).data = m[c.addr + r]
         /\ r \in 0 .. c.len - 1 /\ r < q
<1>1. c.len \in Nat \ {0} /\ r \in Nat /\ q \in Nat /\ Len(A) \in Nat \ {0} /\ Len(W) \in Nat
      /\ (r + Len(A)) + Len(W) = q /\ q <= c.len /\ r < c.len
  BY CallFacts, LenProperties, EmptySeq DEF Burst
<1>2. Head(A) = A[1] /\ Head(A) \in Beat /\ 1 \in 1 .. Len(A) /\ r + 1 - 1 = r
  BY <1>1, HeadTailProperties
<1>3. BeatFor(c, r, A[1]) /\ (c.cmd = READ => A[1].data = m[c.addr + r])
  BY <1>2 DEF Burst
<1>4. r \in 0 .. c.len - 1 /\ r < q
  BY <1>1
<1>. QED  BY <1>2, <1>3, <1>4

(* The buffer d after the oldest answer of A, the one to beat r. *)
Filled(d, r, A) == [d EXCEPT ![r] = Head(A).data]

(* The buffer after an answer: a read fills one byte, a write finds its own
   byte in the answer. *)
LEMMA BurstAnswer ==
  ASSUME NEW c \in Calls, NEW r, NEW q, NEW A \in Seq(Beat), NEW W \in Seq(Beat), NEW m, NEW d,
         Burst(c, r, q, A, W, m, d), A # <<>>, NEW e, e = Filled(d, r, A)
  PROVE  /\ e \in CallBuffer(c)
         /\ c.cmd = WRITE => e = c.data
<1>1. BeatFor(c, r, Head(A)) /\ r \in 0 .. c.len - 1 /\ Head(A) \in Beat
  BY BurstOldest
<1>2. d \in CallBuffer(c) /\ Head(A).data \in Byte
  BY <1>1 DEF Burst, Beat
<1>3. e \in CallBuffer(c)
  BY <1>1, <1>2 DEF CallBuffer, Filled
<1>5. ASSUME c.cmd = WRITE  PROVE e = c.data
  <2>1. d = c.data /\ Head(A).data = d[r]
    BY <1>1, <1>5 DEF Burst, BeatFor
  <2>. QED  BY <2>1, <1>1, <1>2 DEF CallBuffer, Filled
<1>. QED  BY <1>3, <1>5

LEMMA BurstRespond ==
  ASSUME NEW c \in Calls, NEW r, NEW q, NEW A \in Seq(Beat), NEW W \in Seq(Beat), NEW m, NEW d,
         Burst(c, r, q, A, W, m, d), A # <<>>, r # c.len - 1,
         NEW e, e = Filled(d, r, A)
  PROVE  Burst(c, r + 1, q, Tail(A), W, m, e)
<1>1. c.len \in Nat \ {0} /\ r \in Nat /\ q \in Nat /\ Len(A) \in Nat \ {0} /\ Len(W) \in Nat
      /\ (r + Len(A)) + Len(W) = q /\ q <= c.len /\ r < c.len /\ d \in CallBuffer(c)
  BY CallFacts, LenProperties, EmptySeq DEF Burst
<1>2. e \in CallBuffer(c) /\ (c.cmd = WRITE => e = c.data)
  BY BurstAnswer
<1>9. (c.cmd = READ => Head(A).data = m[c.addr + r]) /\ r \in 0 .. c.len - 1
  BY BurstOldest
<1>3. /\ Len(Tail(A)) = Len(A) - 1
      /\ \A i \in 1 .. Len(A) - 1 : Tail(A)[i] = A[i + 1]
  BY HeadTailProperties
<1>4. c.cmd = READ => \A k \in 0 .. r : e[k] = m[c.addr + k]
  <2>1. SUFFICES ASSUME c.cmd = READ, NEW k \in 0 .. r  PROVE e[k] = m[c.addr + k]
    OBVIOUS
  <2>2. CASE k = r
    BY <1>1, <1>9, <2>1, <2>2 DEF CallBuffer, Filled
  <2>3. CASE k # r
    <3>1. k \in 0 .. r - 1 /\ k \in 0 .. c.len - 1
      BY <1>1, <2>3
    <3>2. d[k] = m[c.addr + k]
      BY <2>1, <3>1 DEF Burst
    <3>3. e[k] = d[k]
      BY <1>1, <2>3, <3>1 DEF CallBuffer, Filled
    <3>. QED  BY <3>2, <3>3
  <2>. QED  BY <2>2, <2>3
<1>5. ASSUME NEW i \in 1 .. Len(A) - 1
      PROVE  /\ BeatFor(c, (r + 1) + i - 1, Tail(A)[i])
             /\ c.cmd = READ => Tail(A)[i].data = m[c.addr + ((r + 1) + i - 1)]
  <2>1. i + 1 \in 1 .. Len(A) /\ (r + 1) + i - 1 = r + (i + 1) - 1
    BY <1>1
  <2>. QED  BY <1>3, <2>1 DEF Burst
<1>6. ASSUME NEW i \in 1 .. Len(W)
      PROVE  BeatFor(c, (r + 1) + (Len(A) - 1) + i - 1, W[i])
  <2>1. (r + 1) + (Len(A) - 1) + i - 1 = r + Len(A) + i - 1
    BY <1>1
  <2>. QED  BY <2>1 DEF Burst
<1>7. c.cmd = WRITE => \A k \in 0 .. (r + 1) + (Len(A) - 1) - 1 : m[c.addr + k] = c.data[k]
  <2>1. (r + 1) + (Len(A) - 1) - 1 = r + Len(A) - 1
    BY <1>1
  <2>. QED  BY <2>1 DEF Burst
<1>8. /\ r + 1 \in Nat /\ r + 1 < c.len /\ (r + 1) + (Len(A) - 1) + Len(W) = q
      /\ (r + 1) - 1 = r
  BY <1>1
<1>. QED  BY <1>1, <1>2, <1>3, <1>4, <1>5, <1>6, <1>7, <1>8 DEF Burst

(* The answer to beat r is the last one. *)
LastOf(c, r) == r = c.len - 1

(* After the last answer the pipeline is empty. *)
LEMMA BurstEnds ==
  ASSUME NEW c \in Calls, NEW r, NEW q, NEW A \in Seq(Beat), NEW W \in Seq(Beat), NEW m, NEW d,
         Burst(c, r, q, A, W, m, d), A # <<>>, LastOf(c, r)
  PROVE  Tail(A) = <<>> /\ W = <<>> /\ q = c.len /\ Len(A) = 1
<1>0. r = c.len - 1
  BY DEF LastOf
<1>1. c.len \in Nat \ {0} /\ r \in Nat /\ q \in Nat /\ Len(A) \in Nat \ {0} /\ Len(W) \in Nat
      /\ (r + Len(A)) + Len(W) = q /\ q <= c.len
  BY CallFacts, LenProperties, EmptySeq DEF Burst
<1>2. Len(A) = 1 /\ Len(W) = 0 /\ q = c.len
  <2>1. ASSUME NEW x \in Nat \ {0}, NEW y \in Nat, NEW z \in Nat \ {0},
               ((z - 1) + x) + y <= z
        PROVE  x = 1 /\ y = 0 /\ ((z - 1) + x) + y = z
    BY <2>1
  <2>. QED  BY <1>0, <1>1, <2>1
<1>3. Tail(A) = <<>> /\ W = <<>>
  <2>1. Tail(A) \in Seq(Beat) /\ Len(Tail(A)) = 0
    BY <1>2, HeadTailProperties
  <2>. QED  BY <2>1, <1>2, EmptySeq
<1>. QED  BY <1>2, <1>3

(* Memory and buffer are then what the burst makes of them. *)
Stored(c, m) == \A k \in 0 .. c.len - 1 : m[c.addr + k] = c.data[k]
Fetched(c, m, d) == \A k \in 0 .. c.len - 1 : d[k] = m[c.addr + k]

LEMMA BurstDone ==
  ASSUME NEW c \in Calls, NEW r, NEW q, NEW A \in Seq(Beat), NEW W \in Seq(Beat), NEW m, NEW d,
         Burst(c, r, q, A, W, m, d), A # <<>>, LastOf(c, r)
  PROVE  /\ c.cmd = WRITE => Stored(c, m)
         /\ c.cmd = READ => Fetched(c, m, Filled(d, r, A))
<1>1. c.len \in Nat \ {0} /\ r \in Nat /\ Len(A) \in Nat \ {0} /\ d \in CallBuffer(c)
  BY CallFacts, LenProperties, EmptySeq DEF Burst
<1>2. Len(A) = 1 /\ r = c.len - 1
  BY BurstEnds DEF LastOf
<1>3. ASSUME c.cmd = WRITE, NEW k \in 0 .. c.len - 1  PROVE m[c.addr + k] = c.data[k]
  <2>1. k \in 0 .. r + Len(A) - 1
    BY <1>1, <1>2
  <2>. QED  BY <1>3, <2>1 DEF Burst
<1>4. ASSUME c.cmd = READ, NEW k \in 0 .. c.len - 1
      PROVE  Filled(d, r, A)[k] = m[c.addr + k]
  <2>1. CASE k = r
    <3>1. Head(A).data = m[c.addr + r]
      BY <1>4, BurstOldest
    <3>2. Filled(d, r, A)[r] = Head(A).data
      BY <1>1, <1>4, <2>1 DEF CallBuffer, Filled
    <3>. QED  BY <2>1, <3>1, <3>2
  <2>2. CASE k # r
    <3>1. k \in 0 .. r - 1
      BY <1>1, <1>2, <2>2
    <3>2. d[k] = m[c.addr + k]
      BY <1>4, <3>1 DEF Burst
    <3>3. Filled(d, r, A)[k] = d[k]
      BY <1>1, <1>4, <2>2 DEF CallBuffer, Filled
    <3>. QED  BY <3>2, <3>3
  <2>. QED  BY <2>1, <2>2
<1>. QED  BY <1>3, <1>4 DEF Stored, Fetched
-----------------------------------------------------------------------------
(***************************************************************************)
(* The inductive invariant.                                                *)
(***************************************************************************)
PipeView == <<ram, Waiting, Answered>>

LEMMA PipeStays ==
  ASSUME PipeInv, UNCHANGED pipeVars
  PROVE  PipeInv' /\ UNCHANGED PipeView
<1>1. PipeInv'
  BY PipeInvStep
<1>2. UNCHANGED PipeView
  BY DEF pipeVars, PipeView, Waiting, Answered
<1>. QED  BY <1>1, <1>2

LEMMA PipeSends ==
  ASSUME PipeInv, NEW b \in Beat, WriteReq(b)
  PROVE  /\ PipeInv'
         /\ UNCHANGED <<ram, Answered>> /\ Waiting' = Append(Waiting, b)
<1>1. PipeInv'
  BY PipeInvStep DEF PipeNext
<1>2. Queue!Request(b)
  BY WriteReqStep
<1>. QED  BY <1>1, <1>2 DEF Queue!Request

LEMMA PipeAnswers ==
  ASSUME PipeInv, ReadResp
  PROVE  /\ PipeInv'
         /\ UNCHANGED <<ram, Waiting>> /\ Answered' = Tail(Answered)
         /\ Answered # <<>> /\ Head(resp_PIPE) = Head(Answered)
<1>1. PipeInv'
  BY PipeInvStep DEF PipeNext
<1>2. Queue!Respond
  BY ReadRespStep
<1>3. Head(resp_PIPE) = Head(Answered)
  <2>. DEFINE X == OneIf(state = SKID, REG)
              Y == OneIf(down_valid_q /\ edges > 0, down_data_q)
  <2>1. resp_PIPE \in Seq(Beat) /\ X \in Seq(Beat) /\ Y \in Seq(Beat)
    BY OneIfType DEF PipeInv, PipeTypeOK
  <2>2. resp_PIPE # <<>>
    BY DEF ReadResp
  <2>3. Answered = (resp_PIPE \o X) \o Y
    BY DEF Answered
  <2>. HIDE DEF X, Y
  <2>4. resp_PIPE \o X # <<>> /\ Head(resp_PIPE \o X) = Head(resp_PIPE)
    BY <2>1, <2>2, TailOfConcat
  <2>5. resp_PIPE \o X \in Seq(Beat)
    BY <2>1, ConcatProperties
  <2>6. Head((resp_PIPE \o X) \o Y) = Head(resp_PIPE \o X)
    BY <2>1, <2>4, <2>5, TailOfConcat
  <2>. QED  BY <2>3, <2>4, <2>6
<1>. QED  BY <1>1, <1>2, <1>3 DEF Queue!Respond

LEMMA PipeRuns ==
  ASSUME PipeInv, ClockEdge \/ ResetOff
  PROVE  PipeInv' /\ (Queue!Execute \/ UNCHANGED PipeView)
<1>1. PipeInv'
  BY PipeInvStep DEF PipeNext
<1>2. ASSUME ClockEdge  PROVE Queue!Execute \/ UNCHANGED PipeView
  <2>1. CASE ~rstn
    BY <1>2, <2>1, ResetStutters DEF QueueVars, PipeView
  <2>2. CASE rstn /\ pins2queue_up_ready
    BY <1>2, <2>2, ReadyStep DEF QueueVars, PipeView
  <2>3. CASE rstn /\ ~pins2queue_up_ready
    BY <1>2, <2>3, SkidStutters DEF QueueVars, PipeView
  <2>. QED  BY <2>1, <2>2, <2>3
<1>3. ASSUME ResetOff  PROVE UNCHANGED PipeView
  BY <1>3 DEF ResetOff, PipeView, Waiting, Answered
<1>. QED  BY <1>1, <1>2, <1>3

(* A thread that does not move keeps its part of the invariant, if the
   pipeline stays or is not its own; a waiter may be woken. *)
Stays(u) ==
  /\ call'[u] = call[u] /\ data'[u] = data[u]
  /\ curr_req'[u] = curr_req[u] /\ curr_resp'[u] = curr_resp[u]
  /\ req_vec'[u] = req_vec[u] /\ status'[u] = status[u]
  /\ pc'[u] = pc[u] \/ (pc[u] = "blocked" /\ pc'[u] = "woken")
  /\ rtl_access' = u <=> rtl_access = u

LEMMA BystanderKeeps ==
  ASSUME NEW u \in Threads, ThreadInv(u), Stays(u), rtl_access # u \/ UNCHANGED PipeView
  PROVE  ThreadInv(u)'
<1>1. PlaceInv(u)'
  BY DEF ThreadInv, PlaceInv, Stays, BeatOf, InRange
<1>2. BurstInv(u)'
  BY DEF ThreadInv, BurstInv, Stays, PipeView
<1>. QED  BY <1>1, <1>2 DEF ThreadInv

LEMMA ThreadTypes ==
  ASSUME IInv
  PROVE  /\ rtl_access \in Threads \cup {NoThread} /\ NoThread \notin Threads
         /\ pc \in [Threads -> PC]
         /\ call \in [Threads -> Calls \cup {NoCall}] /\ NoCall \notin Calls
         /\ data = [t \in Threads |-> data[t]]
         /\ curr_req \in [Threads -> Nat] /\ curr_resp \in [Threads -> Nat]
         /\ req_vec \in [Threads -> Beat \cup {NoBeat}] /\ NoBeat \notin Beat
         /\ status \in [Threads -> {OK, ERROR, INCOMPLETE}]
         /\ Answered \in Seq(Beat) /\ Waiting \in Seq(Beat)
         /\ ram \in [Addr -> Byte]
<1>1. Answered \in Seq(Beat) /\ Waiting \in Seq(Beat) /\ ram \in [Addr -> Byte]
  BY ViewType DEF IInv, PipeInv, PipeTypeOK
<1>2. data = [t \in Threads |-> data[t]]
  BY DEF IInv, MutexInv
<1>. QED  BY <1>1, <1>2, MemRtlAssumption DEF IInv, TypeOK

LEMMA ActiveCall ==
  ASSUME IInv, NEW t \in Threads, pc[t] # "idle"
  PROVE  call[t] \in Calls /\ data[t] \in CallBuffer(call[t])
<1>1. call[t] \in Calls
  BY ThreadTypes DEF IInv, MutexInv, ThreadInv, PlaceInv
<1>2. call[t] # NoCall
  BY <1>1, ThreadTypes
<1>. QED  BY <1>1, <1>2 DEF IInv, TypeOK, CallBuffer

LEMMA InitInv == Init => IInv
<1>. SUFFICES ASSUME Init  PROVE IInv
  OBVIOUS
<1>1. PipeInv
  BY PipeInitInv DEF Init
<1>2. TypeOK
  BY <1>1, MemRtlAssumption DEF Init, TypeOK, PipeInv, PC, OK, ERROR, INCOMPLETE
<1>3. Queue!Init
  BY QueueInit DEF Init
<1>4. Answered = <<>> /\ Waiting = <<>>
  BY <1>3 DEF Queue!Init
<1>5. data = [t \in Threads |-> data[t]]
  BY DEF Init
<1>6. ASSUME NEW t \in Threads  PROVE ThreadInv(t)
  <2>1. /\ rtl_access # t /\ pc[t] = "idle" /\ call[t] = NoCall
        /\ req_vec[t] = NoBeat /\ status[t] = INCOMPLETE
    BY <1>6, MemRtlAssumption DEF Init
  <2>. QED  BY <2>1 DEF ThreadInv, PlaceInv, BurstInv, OK, ERROR, INCOMPLETE
<1>. QED  BY <1>1, <1>2, <1>4, <1>5, <1>6 DEF IInv, MutexInv

LEMMA CallKeeps ==
  ASSUME IInv, NEW t \in Threads, NEW c \in Calls, Call(t, c)
  PROVE  IInv'
<1>1. PipeInv' /\ UNCHANGED PipeView
  BY PipeStays DEF Call, IInv
<1>2. c.data \in CallBuffer(c) /\ c # NoCall
  BY CallFacts
<1>3. /\ call' = [call EXCEPT ![t] = c] /\ data' = [data EXCEPT ![t] = c.data]
      /\ data'[t] = c.data /\ call'[t] = c
      /\ \A u \in Threads : u # t => data'[u] = data[u] /\ call'[u] = call[u]
  BY ThreadTypes DEF Call
<1>4. TypeOK'
  <2>1. \A u \in Threads : call'[u] # NoCall => data'[u] \in [0 .. call'[u].len - 1 -> Byte]
    BY <1>2, <1>3 DEF IInv, TypeOK, CallBuffer
  <2>2. /\ rtl_access' \in Threads \cup {NoThread}
        /\ pc' \in [Threads -> PC]
        /\ call' \in [Threads -> Calls \cup {NoCall}]
        /\ curr_req' \in [Threads -> Nat] /\ curr_resp' \in [Threads -> Nat]
        /\ req_vec' \in [Threads -> Beat \cup {NoBeat}]
        /\ status' \in [Threads -> {OK, ERROR, INCOMPLETE}]
    BY ThreadTypes DEF Call, PC
  <2>. QED  BY <1>1, <2>1, <2>2 DEF TypeOK, PipeInv
<1>5. data' = [u \in Threads |-> data'[u]]
  BY <1>3, ThreadTypes
<1>6. ThreadInv(t)'
  <2>1. /\ pc[t] = "idle" /\ pc'[t] = "entry" /\ curr_req'[t] = 0 /\ curr_resp'[t] = 0
        /\ req_vec'[t] = NoBeat /\ status'[t] = INCOMPLETE /\ rtl_access' = rtl_access
    BY ThreadTypes DEF Call
  <2>2. rtl_access # t
    BY <2>1 DEF IInv, MutexInv, ThreadInv, PlaceInv
  <2>. QED  BY <1>2, <1>3, <2>1, <2>2 DEF ThreadInv, PlaceInv, BurstInv, OK, ERROR, INCOMPLETE
<1>7. ASSUME NEW u \in Threads, u # t  PROVE ThreadInv(u)'
  <2>1. Stays(u)
    BY <1>3, <1>7, ThreadTypes DEF Call, Stays
  <2>. QED  BY <1>1, <2>1, BystanderKeeps DEF IInv, MutexInv
<1>8. rtl_access' = NoThread => Answered' = <<>> /\ Waiting' = <<>>
  BY <1>1 DEF Call, PipeView, IInv, MutexInv
<1>. QED  BY <1>1, <1>4, <1>5, <1>6, <1>7, <1>8 DEF IInv, MutexInv

(* The mutex is taken, or the thread joins its waiters. *)
LEMMA LockKeeps ==
  ASSUME IInv, NEW t \in Threads, pc[t] \in {"entry", "woken"}, InRange(call[t]), Lock(t),
         status' = [status EXCEPT ![t] = OK],
         UNCHANGED <<pipeVars, call, data, curr_req, curr_resp, req_vec>>
  PROVE  IInv'
<1>1. PipeInv' /\ UNCHANGED PipeView
  BY PipeStays DEF IInv
<1>2. call[t] \in Calls /\ data[t] \in CallBuffer(call[t])
  BY ActiveCall
<1>3. /\ rtl_access # t /\ data[t] = call[t].data /\ curr_req[t] = 0 /\ curr_resp[t] = 0
      /\ req_vec[t] = NoBeat /\ call[t] # NoCall
  BY <1>2, ThreadTypes DEF IInv, MutexInv, ThreadInv, PlaceInv
<1>4. status'[t] = OK /\ \A u \in Threads : u # t => status'[u] = status[u]
  BY ThreadTypes
<1>5. /\ \A u \in Threads : u # t => pc'[u] = pc[u]
      /\ pc' \in [Threads -> PC] /\ rtl_access' \in Threads \cup {NoThread}
  BY ThreadTypes DEF Lock, PC
<1>6. TypeOK'
  <2>1. status' \in [Threads -> {OK, ERROR, INCOMPLETE}]
    BY ThreadTypes
  <2>. QED  BY <1>1, <1>5, <2>1 DEF IInv, TypeOK, PipeInv
<1>7. ThreadInv(t)'
  <2>1. CASE rtl_access = NoThread
    <3>1. rtl_access' = t /\ pc'[t] = IF call[t].ext THEN "nb" ELSE "write"
      BY <2>1, ThreadTypes DEF Lock
    <3>2. PlaceInv(t)'
      BY <1>3, <1>4, <3>1 DEF PlaceInv, InRange, OK, ERROR
    <3>3. Burst(call[t], 0, 0, <<>>, <<>>, ram, data[t])
      BY <1>2, <1>3, BurstStart
    <3>4. Answered' = <<>> /\ Waiting' = <<>> /\ ram' = ram
      BY <1>1, <2>1 DEF PipeView, IInv, MutexInv
    <3>5. BurstInv(t)'
      BY <1>3, <3>3, <3>4 DEF BurstInv
    <3>. QED  BY <3>2, <3>5 DEF ThreadInv
  <2>2. CASE rtl_access # NoThread
    <3>1. rtl_access' # t /\ pc'[t] = "blocked"
      BY <1>3, <2>2, ThreadTypes DEF Lock
    <3>. QED  BY <1>3, <1>4, <3>1 DEF ThreadInv, PlaceInv, BurstInv, InRange, OK, ERROR
  <2>. QED  BY <2>1, <2>2
<1>8. ASSUME NEW u \in Threads, u # t  PROVE ThreadInv(u)'
  <2>1. rtl_access' = u <=> rtl_access = u
    BY <1>8, ThreadTypes DEF Lock
  <2>2. Stays(u)
    BY <1>4, <1>5, <1>8, <2>1 DEF Stays
  <2>. QED  BY <1>1, <2>2, BystanderKeeps DEF IInv, MutexInv
<1>9. rtl_access' = NoThread => Answered' = <<>> /\ Waiting' = <<>>
  BY <1>1, ThreadTypes DEF Lock, PipeView, IInv, MutexInv
<1>10. data' = [u \in Threads |-> data'[u]]
  BY ThreadTypes
<1>. QED  BY <1>1, <1>6, <1>7, <1>8, <1>9, <1>10 DEF IInv, MutexInv

LEMMA RefusalKeeps ==
  ASSUME IInv, NEW t \in Threads, pc[t] = "entry", ~InRange(call[t]),
         status' = [status EXCEPT ![t] = ERROR], pc' = [pc EXCEPT ![t] = "return"],
         UNCHANGED <<pipeVars, rtl_access, call, data, curr_req, curr_resp, req_vec>>
  PROVE  IInv'
<1>1. PipeInv' /\ UNCHANGED PipeView
  BY PipeStays DEF IInv
<1>2. /\ rtl_access # t /\ req_vec[t] = NoBeat /\ call[t] # NoCall
  BY ThreadTypes DEF IInv, MutexInv, ThreadInv, PlaceInv
<1>3. status'[t] = ERROR /\ pc'[t] = "return"
      /\ \A u \in Threads : u # t => status'[u] = status[u] /\ pc'[u] = pc[u]
  BY ThreadTypes
<1>4. TypeOK'
  <2>1. status' \in [Threads -> {OK, ERROR, INCOMPLETE}] /\ pc' \in [Threads -> PC]
    BY ThreadTypes DEF PC
  <2>. QED  BY <1>1, <2>1 DEF IInv, TypeOK, PipeInv
<1>5. ThreadInv(t)'
  BY <1>2, <1>3 DEF ThreadInv, PlaceInv, BurstInv, InRange, OK, ERROR
<1>6. ASSUME NEW u \in Threads, u # t  PROVE ThreadInv(u)'
  <2>1. Stays(u)
    BY <1>3, <1>6 DEF Stays
  <2>. QED  BY <1>1, <2>1, BystanderKeeps DEF IInv, MutexInv
<1>7. rtl_access' = NoThread => Answered' = <<>> /\ Waiting' = <<>>
  BY <1>1 DEF PipeView, IInv, MutexInv
<1>8. data' = [u \in Threads |-> data'[u]]
  BY ThreadTypes
<1>. QED  BY <1>1, <1>4, <1>5, <1>6, <1>7, <1>8 DEF IInv, MutexInv

LEMMA BeginKeeps ==
  ASSUME IInv, NEW t \in Threads, Begin(t)
  PROVE  IInv'
<1>1. CASE InRange(call[t])
  BY <1>1, LockKeeps DEF Begin
<1>2. CASE ~InRange(call[t])
  BY <1>2, RefusalKeeps DEF Begin
<1>. QED  BY <1>1, <1>2

LEMMA RetryKeeps ==
  ASSUME IInv, NEW t \in Threads, Retry(t)
  PROVE  IInv'
<1>1. pc[t] = "woken" /\ Lock(t)
      /\ UNCHANGED <<pipeVars, call, data, curr_req, curr_resp, req_vec, status>>
  BY DEF Retry
<1>2. InRange(call[t]) /\ status[t] = OK
  BY <1>1 DEF IInv, MutexInv, ThreadInv, PlaceInv
<1>3. status' = [status EXCEPT ![t] = OK]
  BY <1>1, <1>2, ThreadTypes
<1>. QED  BY <1>1, <1>2, <1>3, LockKeeps

LEMMA RunningBurst ==
  ASSUME IInv, NEW t \in Threads, pc[t] \in {"write", "read", "nb"}
  PROVE  /\ rtl_access = t /\ call[t] \in Calls /\ data[t] \in CallBuffer(call[t])
         /\ InRange(call[t]) /\ status[t] = OK /\ call[t] # NoCall
         /\ curr_req[t] \in Nat /\ curr_resp[t] \in Nat
         /\ Answered \in Seq(Beat) /\ Waiting \in Seq(Beat) /\ ram \in [Addr -> Byte]
         /\ Burst(call[t], curr_resp[t], curr_req[t], Answered, Waiting, ram, data[t])
<1>1. call[t] \in Calls /\ data[t] \in CallBuffer(call[t])
  BY ActiveCall
<1>2. PlaceInv(t) /\ BurstInv(t)
  BY DEF IInv, MutexInv, ThreadInv
<1>3. rtl_access = t /\ InRange(call[t]) /\ status[t] = OK
  BY <1>2 DEF PlaceInv
<1>. QED  BY <1>1, <1>2, <1>3, ThreadTypes DEF BurstInv

LEMMA OwnBeat ==
  ASSUME IInv, NEW t \in Threads, pc[t] \in {"write", "read", "nb"}, curr_req[t] < call[t].len
  PROVE  /\ BeatOf(t, curr_req[t]) \in Beat
         /\ BeatFor(call[t], curr_req[t], BeatOf(t, curr_req[t]))
<1>. DEFINE c == call[t]
            q == curr_req[t]
<1>1. c \in Calls /\ data[t] \in CallBuffer(c) /\ InRange(c) /\ q \in Nat
  BY RunningBurst
<1>2. c.len \in Nat \ {0} /\ c.cmd \in Cmd
  BY <1>1, CallFacts
<1>3. q \in 0 .. c.len - 1
  BY <1>1, <1>2
<1>4. c.addr + q \in Addr /\ (c.addr + q) % (MaxAddr + 1) = c.addr + q
  BY <1>1, <1>3, InRangeAddr
<1>5. data[t][q] \in Byte
  BY <1>1, <1>3 DEF CallBuffer
<1>6. c.cmd = WRITE => data[t] = c.data
  BY RunningBurst DEF Burst
<1>7. BeatOf(t, q) = [op |-> c.cmd, last |-> (q = c.len - 1), addr |-> c.addr + q,
                      data |-> data[t][q]]
  BY <1>4 DEF BeatOf
<1>. HIDE DEF c, q
<1>8. BeatOf(t, q) \in Beat
  BY <1>2, <1>4, <1>5, <1>7 DEF Beat
<1>9. BeatFor(c, q, BeatOf(t, q))
  <2>. DEFINE b == BeatOf(t, q)
  <2>1. b.op = c.cmd /\ b.addr = c.addr + q /\ b.data = data[t][q]
    BY <1>7
  <2>2. b.last = (q = c.len - 1)
    BY <1>7
  <2>. HIDE DEF b
  <2>3. b.last <=> q = c.len - 1
    BY <2>2
  <2>. QED  BY <1>6, <2>1, <2>3 DEF BeatFor, b
<1>. QED  BY <1>8, <1>9 DEF c, q

(* A beat is pushed into req_PIPE. *)
LEMMA PushedBeat ==
  ASSUME IInv, NEW t \in Threads, pc[t] \in {"write", "read", "nb"}, curr_req[t] < call[t].len,
         WriteReq(BeatOf(t, curr_req[t]))
  PROVE  /\ PipeInv' /\ UNCHANGED <<ram, Answered>>
         /\ Burst(call[t], curr_resp[t], curr_req[t] + 1, Answered', Waiting', ram', data[t])
<1>1. BeatOf(t, curr_req[t]) \in Beat /\ BeatFor(call[t], curr_req[t], BeatOf(t, curr_req[t]))
  BY OwnBeat
<1>2. /\ PipeInv' /\ UNCHANGED <<ram, Answered>>
      /\ Waiting' = Append(Waiting, BeatOf(t, curr_req[t]))
  BY <1>1, PipeSends DEF IInv
<1>3. /\ call[t] \in Calls /\ Answered \in Seq(Beat) /\ Waiting \in Seq(Beat)
      /\ Burst(call[t], curr_resp[t], curr_req[t], Answered, Waiting, ram, data[t])
  BY RunningBurst
<1>4. Burst(call[t], curr_resp[t], curr_req[t] + 1, Answered,
            Append(Waiting, BeatOf(t, curr_req[t])), ram, data[t])
  BY <1>1, <1>3, BurstRequest
<1>. QED  BY <1>2, <1>4

LEMMA WriteBeatKeeps ==
  ASSUME IInv, NEW t \in Threads, WriteBeat(t)
  PROVE  IInv'
<1>1. pc[t] = "write" /\ WriteReq(BeatOf(t, curr_req[t]))
  BY DEF WriteBeat
<1>2. /\ rtl_access = t /\ call[t] \in Calls /\ InRange(call[t]) /\ status[t] = OK
      /\ call[t] # NoCall /\ curr_req[t] \in Nat /\ curr_resp[t] \in Nat
      /\ curr_resp[t] < call[t].len
  BY <1>1, RunningBurst DEF Burst
<1>3. curr_req[t] = curr_resp[t] /\ ~call[t].ext /\ req_vec[t] = NoBeat
  BY <1>1 DEF IInv, MutexInv, ThreadInv, PlaceInv
<1>4. /\ PipeInv'
      /\ Burst(call[t], curr_resp[t], curr_req[t] + 1, Answered', Waiting', ram', data[t])
  BY <1>1, <1>2, <1>3, PushedBeat
<1>5. /\ pc'[t] = "read" /\ curr_req'[t] = curr_req[t] + 1
      /\ UNCHANGED <<rtl_access, call, data, curr_resp, req_vec, status>>
      /\ \A u \in Threads : u # t => pc'[u] = pc[u] /\ curr_req'[u] = curr_req[u]
  BY ThreadTypes DEF WriteBeat
<1>6. TypeOK'
  <2>1. curr_req' \in [Threads -> Nat] /\ pc' \in [Threads -> PC]
    BY ThreadTypes DEF PC, WriteBeat
  <2>. QED  BY <1>4, <1>5, <2>1 DEF IInv, TypeOK, PipeInv
<1>7. ThreadInv(t)'
  <2>1. PlaceInv(t)'
    BY <1>2, <1>3, <1>5 DEF PlaceInv, InRange, OK, ERROR
  <2>2. BurstInv(t)'
    BY <1>4, <1>5 DEF BurstInv
  <2>. QED  BY <2>1, <2>2 DEF ThreadInv
<1>8. ASSUME NEW u \in Threads, u # t  PROVE ThreadInv(u)'
  <2>1. Stays(u)
    BY <1>5, <1>8 DEF Stays
  <2>. QED  BY <1>2, <1>8, <2>1, BystanderKeeps DEF IInv, MutexInv
<1>9. rtl_access' # NoThread /\ data' = [u \in Threads |-> data'[u]]
  BY <1>2, <1>5, ThreadTypes
<1>. QED  BY <1>4, <1>6, <1>7, <1>8, <1>9 DEF IInv, MutexInv

LEMMA NbRequestKeeps ==
  ASSUME IInv, NEW t \in Threads, NbRequest(t)
  PROVE  IInv'
<1>1. pc[t] = "nb" /\ curr_req[t] < call[t].len
  BY DEF NbRequest
<1>2. /\ rtl_access = t /\ call[t] \in Calls /\ InRange(call[t]) /\ status[t] = OK
      /\ call[t] # NoCall /\ curr_req[t] \in Nat
      /\ Burst(call[t], curr_resp[t], curr_req[t], Answered, Waiting, ram, data[t])
  BY <1>1, RunningBurst
<1>3. call[t].ext /\ (req_vec[t] # NoBeat => req_vec[t] = BeatOf(t, curr_req[t]))
  BY <1>1 DEF IInv, MutexInv, ThreadInv, PlaceInv
<1>4. BeatOf(t, curr_req[t]) \in Beat
  BY <1>1, OwnBeat
<1>5. UNCHANGED <<rtl_access, pc, call, data, curr_resp, status>>
  BY DEF NbRequest
<1>6. \/ /\ WriteReq(BeatOf(t, curr_req[t]))
         /\ curr_req' = [curr_req EXCEPT ![t] = @ + 1]
         /\ req_vec' = [req_vec EXCEPT ![t] = NoBeat]
      \/ /\ UNCHANGED <<pipeVars, curr_req>>
         /\ req_vec' = [req_vec EXCEPT ![t] = BeatOf(t, curr_req[t])]
  BY <1>3 DEF NbRequest
<1>7. curr_req' \in [Threads -> Nat] /\ req_vec' \in [Threads -> Beat \cup {NoBeat}]
  <2>1. curr_req' = [curr_req EXCEPT ![t] = @ + 1] \/ curr_req' = curr_req
    BY <1>6
  <2>2. \/ req_vec' = [req_vec EXCEPT ![t] = NoBeat]
        \/ req_vec' = [req_vec EXCEPT ![t] = BeatOf(t, curr_req[t])]
    BY <1>6
  <2>3. curr_req' \in [Threads -> Nat]
    BY <2>1, ThreadTypes
  <2>4. req_vec' \in [Threads -> Beat \cup {NoBeat}]
    BY <1>4, <2>2, ThreadTypes
  <2>. QED  BY <2>3, <2>4
<1>8. \A u \in Threads : u # t => req_vec'[u] = req_vec[u] /\ curr_req'[u] = curr_req[u]
  BY <1>6, ThreadTypes
<1>9. PipeInv' /\ ThreadInv(t)'
  <2>1. CASE /\ WriteReq(BeatOf(t, curr_req[t]))
             /\ curr_req' = [curr_req EXCEPT ![t] = @ + 1]
             /\ req_vec' = [req_vec EXCEPT ![t] = NoBeat]
    <3>1. /\ PipeInv'
          /\ Burst(call[t], curr_resp[t], curr_req[t] + 1, Answered', Waiting', ram', data[t])
      BY <1>1, <2>1, PushedBeat
    <3>2. curr_req'[t] = curr_req[t] + 1 /\ req_vec'[t] = NoBeat
      BY <2>1, ThreadTypes
    <3>3. PlaceInv(t)'
      BY <1>1, <1>2, <1>3, <1>5, <3>2 DEF PlaceInv, InRange, OK, ERROR
    <3>4. BurstInv(t)'
      BY <1>5, <3>1, <3>2 DEF BurstInv
    <3>. QED  BY <3>1, <3>3, <3>4 DEF ThreadInv
  <2>2. CASE /\ UNCHANGED <<pipeVars, curr_req>>
             /\ req_vec' = [req_vec EXCEPT ![t] = BeatOf(t, curr_req[t])]
    <3>1. PipeInv' /\ UNCHANGED PipeView
      BY <2>2, PipeStays DEF IInv
    <3>2. curr_req'[t] = curr_req[t] /\ req_vec'[t] = BeatOf(t, curr_req[t])
      BY <2>2, ThreadTypes
    <3>3. req_vec'[t] = BeatOf(t, curr_req[t])'
      BY <1>5, <3>2 DEF BeatOf
    <3>4. PlaceInv(t)'
      BY <1>1, <1>2, <1>3, <1>5, <3>2, <3>3 DEF PlaceInv, InRange, OK, ERROR
    <3>5. BurstInv(t)'
      BY <1>2, <1>5, <3>1, <3>2 DEF BurstInv, PipeView
    <3>. QED  BY <3>1, <3>4, <3>5 DEF ThreadInv
  <2>. QED  BY <1>6, <2>1, <2>2
<1>10. TypeOK'
  BY <1>5, <1>7, <1>9 DEF IInv, TypeOK, PipeInv
<1>11. ASSUME NEW u \in Threads, u # t  PROVE ThreadInv(u)'
  <2>1. Stays(u)
    BY <1>5, <1>8, <1>11 DEF Stays
  <2>. QED  BY <1>2, <1>11, <2>1, BystanderKeeps DEF IInv, MutexInv
<1>12. rtl_access' # NoThread /\ data' = [u \in Threads |-> data'[u]]
  BY <1>2, <1>5, ThreadTypes
<1>. QED  BY <1>9, <1>10, <1>11, <1>12 DEF IInv, MutexInv

(* What both loops do with an answer, the LAST check included. *)
LEMMA TakenBeat ==
  ASSUME IInv, NEW t \in Threads, NEW next, pc[t] \in {"read", "nb"}, TakeResp(t, next)
  PROVE  /\ PipeInv' /\ UNCHANGED <<ram, Waiting>>
         /\ Answered # <<>> /\ Answered' = Tail(Answered)
         /\ data' = [data EXCEPT ![t] = Filled(data[t], curr_resp[t], Answered)]
         /\ curr_resp' = [curr_resp EXCEPT ![t] = @ + 1]
         /\ UNCHANGED <<status, call, curr_req, req_vec>>
         /\ \/ curr_resp[t] = call[t].len - 1 /\ Unlock(t)
            \/ /\ curr_resp[t] # call[t].len - 1
               /\ pc' = [pc EXCEPT ![t] = next] /\ UNCHANGED rtl_access
<1>1. /\ ReadResp
      /\ data' = [data EXCEPT ![t] = [data[t] EXCEPT ![curr_resp[t]] = Head(resp_PIPE).data]]
      /\ status' = [status EXCEPT
                      ![t] = IF Head(resp_PIPE).last # (curr_resp[t] = call[t].len - 1)
                               THEN ERROR ELSE @]
      /\ curr_resp' = [curr_resp EXCEPT ![t] = @ + 1]
      /\ \/ curr_resp[t] = call[t].len - 1 /\ Unlock(t)
         \/ /\ curr_resp[t] # call[t].len - 1
            /\ pc' = [pc EXCEPT ![t] = next] /\ UNCHANGED rtl_access
      /\ UNCHANGED <<call, curr_req, req_vec>>
  BY DEF TakeResp
<1>2. /\ PipeInv' /\ UNCHANGED <<ram, Waiting>>
      /\ Answered # <<>> /\ Answered' = Tail(Answered) /\ Head(resp_PIPE) = Head(Answered)
  BY <1>1, PipeAnswers DEF IInv
<1>3. /\ call[t] \in Calls /\ Answered \in Seq(Beat) /\ Waiting \in Seq(Beat)
      /\ Burst(call[t], curr_resp[t], curr_req[t], Answered, Waiting, ram, data[t])
  BY RunningBurst
<1>4. BeatFor(call[t], curr_resp[t], Head(Answered)) /\ Head(Answered) \in Beat
  BY <1>2, <1>3, BurstOldest
<1>5. status' = status
  <2>1. Head(resp_PIPE).last \in BOOLEAN
        /\ (Head(resp_PIPE).last <=> curr_resp[t] = call[t].len - 1)
    BY <1>2, <1>4 DEF Beat, BeatFor
  <2>2. Head(resp_PIPE).last = (curr_resp[t] = call[t].len - 1)
    BY <2>1
  <2>3. status' = [status EXCEPT ![t] = status[t]]
    BY <1>1, <2>2
  <2>. QED  BY <2>3, ThreadTypes
<1>6. data' = [data EXCEPT ![t] = Filled(data[t], curr_resp[t], Answered)]
  BY <1>1, <1>2 DEF Filled
<1>. QED  BY <1>1, <1>2, <1>5, <1>6

LEMMA TakeKeeps ==
  ASSUME IInv, NEW t \in Threads, NEW next,
         (pc[t] = "read" /\ next = "write") \/ (pc[t] = "nb" /\ next = "nb"),
         TakeResp(t, next)
  PROVE  IInv'
<1>. DEFINE c == call[t]
            r == curr_resp[t]
            q == curr_req[t]
            e == Filled(data[t], r, Answered)
<1>1. pc[t] \in {"read", "nb"}
  OBVIOUS
<1>2. /\ PipeInv' /\ UNCHANGED <<ram, Waiting>>
      /\ Answered # <<>> /\ Answered' = Tail(Answered)
      /\ data' = [data EXCEPT ![t] = e]
      /\ curr_resp' = [curr_resp EXCEPT ![t] = @ + 1]
      /\ UNCHANGED <<status, call, curr_req, req_vec>>
      /\ \/ r = c.len - 1 /\ Unlock(t)
         \/ /\ r # c.len - 1
            /\ pc' = [pc EXCEPT ![t] = next] /\ UNCHANGED rtl_access
  BY <1>1, TakenBeat
<1>3. /\ rtl_access = t /\ c \in Calls /\ data[t] \in CallBuffer(c) /\ InRange(c) /\ c # NoCall
      /\ status[t] = OK /\ q \in Nat /\ r \in Nat
      /\ Answered \in Seq(Beat) /\ Waiting \in Seq(Beat) /\ ram \in [Addr -> Byte]
      /\ Burst(c, r, q, Answered, Waiting, ram, data[t])
  BY <1>1, RunningBurst
<1>4. r \in 0 .. c.len - 1 /\ r < q
  BY <1>2, <1>3, BurstOldest
<1>5. e \in CallBuffer(c) /\ (c.cmd = WRITE => e = c.data)
  BY <1>2, <1>3, BurstAnswer
<1>6. /\ data'[t] = e /\ curr_resp'[t] = r + 1
      /\ \A u \in Threads : u # t => data'[u] = data[u] /\ curr_resp'[u] = curr_resp[u]
      /\ data' = [u \in Threads |-> data'[u]]
  BY <1>2, ThreadTypes
<1>7. /\ rtl_access' \in {t, NoThread} /\ pc' \in [Threads -> PC]
      /\ \A u \in Threads : u # t =>
           pc'[u] = pc[u] \/ (pc[u] = "blocked" /\ pc'[u] = "woken")
  BY <1>2, <1>3, ThreadTypes DEF Unlock, PC
<1>8. TypeOK'
  <2>1. curr_resp' \in [Threads -> Nat]
    BY <1>2, ThreadTypes
  <2>2. \A u \in Threads : call'[u] # NoCall => data'[u] \in [0 .. call'[u].len - 1 -> Byte]
    BY <1>2, <1>5, <1>6 DEF IInv, TypeOK, CallBuffer
  <2>. QED  BY <1>2, <1>7, <2>1, <2>2 DEF IInv, TypeOK, PipeInv
<1>9. PlaceInv(t)
  BY DEF IInv, MutexInv, ThreadInv
<1>10. ThreadInv(t)' /\ (rtl_access' = NoThread => Answered' = <<>> /\ Waiting' = <<>>)
  <2>1. CASE r = c.len - 1
    <3>1. Tail(Answered) = <<>> /\ Waiting = <<>> /\ q = c.len
      <4>1. LastOf(c, r)
        BY <2>1 DEF LastOf
      <4>. QED  BY <1>2, <1>3, <4>1, BurstEnds
    <3>2. rtl_access' = NoThread /\ pc'[t] = "return"
      BY <1>2, <2>1 DEF Unlock
    <3>3. req_vec[t] = NoBeat
      BY <1>3, <1>9, <3>1 DEF PlaceInv
    <3>4. PlaceInv(t)'
      BY <1>2, <1>3, <3>2, <3>3, ThreadTypes DEF PlaceInv, InRange, OK, ERROR
    <3>5. BurstInv(t)'
      BY <3>2, ThreadTypes DEF BurstInv
    <3>. QED  BY <1>2, <3>1, <3>4, <3>5 DEF ThreadInv
  <2>2. CASE r # c.len - 1
    <3>1. Burst(c, r + 1, q, Tail(Answered), Waiting, ram, e)
      BY <1>2, <1>3, <2>2, BurstRespond
    <3>2. rtl_access' = t /\ pc'[t] = next
      BY <1>2, <1>3, <2>2, ThreadTypes
    <3>3. BurstInv(t)'
      BY <1>2, <1>6, <3>1 DEF BurstInv
    <3>4. ASSUME req_vec[t] # NoBeat  PROVE BeatOf(t, q)' = BeatOf(t, q)
      <4>1. pc[t] = "nb" /\ q < c.len
        BY <1>9, <3>4 DEF PlaceInv
      <4>2. q \in 0 .. c.len - 1 /\ q # r
        <5>1. c.len \in Nat /\ q \in Nat /\ r \in Nat /\ r < q
          BY <1>3, <1>4, CallFacts
        <5>. QED  BY <4>1, <5>1
      <4>3. e[q] = data[t][q]
        BY <1>3, <4>2 DEF CallBuffer, Filled
      <4>. QED  BY <1>2, <1>6, <4>3 DEF BeatOf
    <3>7. rtl_access' # NoThread
      BY <3>2, ThreadTypes
    <3>5. CASE pc[t] = "read" /\ next = "write"
      <4>1. q = r + 1 /\ ~c.ext /\ req_vec[t] = NoBeat
        BY <1>9, <3>5 DEF PlaceInv
      <4>2. PlaceInv(t)'
        BY <1>2, <1>3, <1>6, <3>2, <3>5, <4>1 DEF PlaceInv, InRange, OK, ERROR
      <4>. QED  BY <3>3, <3>7, <4>2 DEF ThreadInv
    <3>6. CASE pc[t] = "nb" /\ next = "nb"
      <4>1. c.ext /\ (req_vec[t] # NoBeat => q < c.len /\ req_vec[t] = BeatOf(t, q)')
        BY <1>9, <3>4, <3>6 DEF PlaceInv
      <4>2. PlaceInv(t)'
        BY <1>2, <1>3, <3>2, <3>6, <4>1 DEF PlaceInv, InRange, OK, ERROR
      <4>. QED  BY <3>3, <3>7, <4>2 DEF ThreadInv
    <3>. QED  BY <3>5, <3>6
  <2>. QED  BY <2>1, <2>2
<1>11. ASSUME NEW u \in Threads, u # t  PROVE ThreadInv(u)'
  <2>1. rtl_access # u /\ rtl_access' # u
    BY <1>3, <1>7, <1>11, ThreadTypes
  <2>2. Stays(u)
    BY <1>2, <1>6, <1>7, <1>11, <2>1 DEF Stays
  <2>. QED  BY <2>1, <2>2, BystanderKeeps DEF IInv, MutexInv
<1>. QED  BY <1>2, <1>6, <1>8, <1>10, <1>11 DEF IInv, MutexInv

LEMMA ReturnKeeps ==
  ASSUME IInv, NEW t \in Threads, Return(t)
  PROVE  IInv'
<1>1. PipeInv' /\ UNCHANGED PipeView
  BY PipeStays DEF Return, IInv
<1>2. /\ pc[t] = "return" /\ rtl_access' = rtl_access /\ req_vec' = req_vec
      /\ pc'[t] = "idle" /\ call'[t] = NoCall /\ status'[t] = INCOMPLETE
      /\ \A u \in Threads : u # t =>
           /\ pc'[u] = pc[u] /\ call'[u] = call[u] /\ data'[u] = data[u]
           /\ curr_req'[u] = curr_req[u] /\ curr_resp'[u] = curr_resp[u]
           /\ status'[u] = status[u]
      /\ data' = [u \in Threads |-> data'[u]]
  BY ThreadTypes DEF Return
<1>3. rtl_access # t /\ req_vec[t] = NoBeat
  BY <1>2 DEF IInv, MutexInv, ThreadInv, PlaceInv
<1>4. TypeOK'
  <2>1. /\ pc' \in [Threads -> PC] /\ call' \in [Threads -> Calls \cup {NoCall}]
        /\ curr_req' \in [Threads -> Nat] /\ curr_resp' \in [Threads -> Nat]
        /\ status' \in [Threads -> {OK, ERROR, INCOMPLETE}]
    BY ThreadTypes DEF Return, PC
  <2>2. \A u \in Threads : call'[u] # NoCall => data'[u] \in [0 .. call'[u].len - 1 -> Byte]
    BY <1>2 DEF IInv, TypeOK
  <2>. QED  BY <1>1, <1>2, <2>1, <2>2 DEF IInv, TypeOK, PipeInv
<1>5. ThreadInv(t)'
  BY <1>2, <1>3 DEF ThreadInv, PlaceInv, BurstInv, OK, ERROR, INCOMPLETE
<1>6. ASSUME NEW u \in Threads, u # t  PROVE ThreadInv(u)'
  <2>1. Stays(u)
    BY <1>2, <1>6 DEF Stays
  <2>. QED  BY <1>1, <2>1, BystanderKeeps DEF IInv, MutexInv
<1>7. rtl_access' = NoThread => Answered' = <<>> /\ Waiting' = <<>>
  BY <1>1, <1>2 DEF PipeView, IInv, MutexInv
<1>. QED  BY <1>1, <1>2, <1>4, <1>5, <1>6, <1>7 DEF IInv, MutexInv

(* Only the owner of the mutex has a beat that io_block can execute. *)
LEMMA ExecutesForOwner ==
  ASSUME IInv, Queue!Execute
  PROVE  /\ rtl_access \in Threads
         /\ pc[rtl_access] \in {"write", "read", "nb"}
         /\ Waiting # <<>>
<1>1. Waiting # <<>>
  BY DEF Queue!Execute
<1>2. rtl_access \in Threads
  BY <1>1, ThreadTypes DEF IInv, MutexInv
<1>3. PlaceInv(rtl_access)
  BY <1>2 DEF IInv, MutexInv, ThreadInv
<1>. QED  BY <1>1, <1>2, <1>3 DEF PlaceInv

LEMMA KernelKeeps ==
  ASSUME IInv, Kernel
  PROVE  IInv'
<1>1. PipeInv' /\ (Queue!Execute \/ UNCHANGED PipeView)
  BY PipeRuns DEF Kernel, IInv
<1>2. UNCHANGED <<rtl_access, pc, call, data, curr_req, curr_resp, req_vec, status>>
  BY DEF Kernel, threadVars
<1>3. TypeOK'
  BY <1>1, <1>2 DEF IInv, TypeOK, PipeInv
<1>4. \A u \in Threads : Stays(u)
  BY <1>2 DEF Stays
<1>5. CASE UNCHANGED PipeView
  <2>1. \A u \in Threads : ThreadInv(u)'
    BY <1>4, <1>5, BystanderKeeps DEF IInv, MutexInv
  <2>. QED  BY <1>1, <1>2, <1>3, <1>5, <2>1 DEF IInv, MutexInv, PipeView
<1>6. CASE Queue!Execute
  <2>0. PICK t \in Threads : t = rtl_access
    BY <1>6, ExecutesForOwner
  <2>1. t = rtl_access /\ pc[t] \in {"write", "read", "nb"} /\ Waiting # <<>>
    BY <1>6, <2>0, ExecutesForOwner
  <2>2. /\ call[t] \in Calls /\ InRange(call[t])
        /\ Answered \in Seq(Beat) /\ Waiting \in Seq(Beat) /\ ram \in [Addr -> Byte]
        /\ Burst(call[t], curr_resp[t], curr_req[t], Answered, Waiting, ram, data[t])
    BY <2>1, RunningBurst
  <2>3. Burst(call[t], curr_resp[t], curr_req[t],
              Append(Answered, Queue!Answer(ram, Head(Waiting))), Tail(Waiting),
              Queue!Store(ram, Head(Waiting)), data[t])
    BY <2>1, <2>2, BurstExecute
  <2>4. /\ Answered' = Append(Answered, Queue!Answer(ram, Head(Waiting)))
        /\ Waiting' = Tail(Waiting) /\ ram' = Queue!Store(ram, Head(Waiting))
    BY <1>6 DEF Queue!Execute
  <2>5. BurstInv(t)'
    BY <1>2, <2>3, <2>4 DEF BurstInv
  <2>6. PlaceInv(t)'
    BY <1>2, <2>1 DEF IInv, MutexInv, ThreadInv, PlaceInv, BeatOf, InRange
  <2>7. ASSUME NEW u \in Threads  PROVE ThreadInv(u)'
    <3>1. CASE u = t
      BY <2>5, <2>6, <3>1 DEF ThreadInv
    <3>2. CASE u # t
      <4>1. ThreadInv(u) /\ Stays(u) /\ rtl_access # u
        BY <1>4, <2>0, <3>2 DEF IInv, MutexInv
      <4>. QED  BY <4>1, BystanderKeeps
    <3>. QED  BY <3>1, <3>2
  <2>8. rtl_access' # NoThread
    BY <1>2, <2>1, ThreadTypes
  <2>. QED  BY <1>1, <1>2, <1>3, <2>7, <2>8 DEF IInv, MutexInv
<1>. QED  BY <1>1, <1>5, <1>6

LEMMA StutterKeeps ==
  ASSUME IInv, UNCHANGED vars
  PROVE  IInv'
<1>1. PipeInv' /\ UNCHANGED PipeView
  BY PipeStays DEF vars, IInv
<1>2. UNCHANGED <<rtl_access, pc, call, data, curr_req, curr_resp, req_vec, status>>
  BY DEF vars, threadVars
<1>3. \A u \in Threads : ThreadInv(u)'
  BY <1>1, <1>2, BystanderKeeps DEF Stays, IInv, MutexInv
<1>4. TypeOK'
  BY <1>1, <1>2 DEF IInv, TypeOK, PipeInv
<1>. QED  BY <1>1, <1>2, <1>3, <1>4 DEF IInv, MutexInv, PipeView

LEMMA NextKeeps ==
  ASSUME IInv, [Next]_vars
  PROVE  IInv'
<1>1. CASE Kernel
  BY <1>1, KernelKeeps
<1>2. ASSUME NEW t \in Threads, ThreadStep(t)  PROVE IInv'
  <2>1. CASE Begin(t)
    BY <2>1, BeginKeeps
  <2>2. CASE Retry(t)
    BY <2>2, RetryKeeps
  <2>3. CASE WriteBeat(t)
    BY <2>3, WriteBeatKeeps
  <2>4. CASE ReadBeat(t)
    <3>1. pc[t] = "read" /\ TakeResp(t, "write")
      BY <2>4 DEF ReadBeat
    <3>. QED  BY <3>1, TakeKeeps
  <2>5. CASE NbRequest(t)
    BY <2>5, NbRequestKeeps
  <2>6. CASE NbResponse(t)
    <3>1. pc[t] = "nb" /\ TakeResp(t, "nb")
      BY <2>6 DEF NbResponse
    <3>. QED  BY <3>1, TakeKeeps
  <2>7. CASE Return(t)
    BY <2>7, ReturnKeeps
  <2>. QED  BY <1>2, <2>1, <2>2, <2>3, <2>4, <2>5, <2>6, <2>7 DEF ThreadStep
<1>3. ASSUME NEW t \in Threads, NEW c \in Calls, Call(t, c)  PROVE IInv'
  BY <1>3, CallKeeps
<1>4. CASE UNCHANGED vars
  BY <1>4, StutterKeeps
<1>. QED  BY <1>1, <1>2, <1>3, <1>4 DEF Next

LEMMA Invariance == Spec => []IInv
<1>1. Init => IInv
  BY InitInv
<1>2. IInv /\ [Next]_vars => IInv'
  BY NextKeeps
<1>. QED  BY <1>1, <1>2, PTL DEF Spec

(* Every variable keeps its type, in particular the buffer its length. *)
THEOREM MemRtlTypeCorrect == Spec => []TypeOK
<1>1. IInv => TypeOK
  BY DEF IInv
<1>. QED  BY <1>1, Invariance, PTL

(* Beats between the ends of the pipeline, seen from the owner's burst. *)
LEMMA InFlightBeats ==
  ASSUME IInv, NEW t \in Threads, rtl_access = t
  PROVE  /\ Len(InFlight) \in Nat /\ Len(InFlight) = curr_req[t] - curr_resp[t]
         /\ \A i \in 1 .. Len(InFlight) :
              BeatFor(call[t], curr_resp[t] + i - 1, InFlight[i])
<1>. DEFINE c == call[t]
            r == curr_resp[t]
            q == curr_req[t]
<1>1. pc[t] \in {"write", "read", "nb"}
  BY DEF IInv, MutexInv, ThreadInv, PlaceInv
<1>2. /\ q \in Nat /\ r \in Nat /\ Answered \in Seq(Beat) /\ Waiting \in Seq(Beat)
      /\ Burst(c, r, q, Answered, Waiting, ram, data[t])
  BY <1>1, RunningBurst
<1>3. /\ Len(InFlight) = Len(Answered) + Len(Waiting)
      /\ \A i \in 1 .. Len(Answered) + Len(Waiting) :
           InFlight[i] = IF i <= Len(Answered) THEN Answered[i]
                                               ELSE Waiting[i - Len(Answered)]
  BY <1>2, ConcatProperties DEF InFlight
<1>4. Len(Answered) \in Nat /\ Len(Waiting) \in Nat /\ (r + Len(Answered)) + Len(Waiting) = q
  BY <1>2, LenProperties DEF Burst
<1>5. Len(InFlight) \in Nat /\ Len(InFlight) = q - r
  BY <1>2, <1>3, <1>4
<1>. HIDE DEF c, r, q
<1>6. ASSUME NEW i \in 1 .. Len(InFlight)  PROVE BeatFor(c, r + i - 1, InFlight[i])
  <2>1. CASE i <= Len(Answered)
    <3>1. i \in 1 .. Len(Answered) /\ InFlight[i] = Answered[i]
      BY <1>3, <1>4, <2>1
    <3>. QED  BY <1>2, <3>1 DEF Burst
  <2>2. CASE ~(i <= Len(Answered))
    <3>1. /\ i - Len(Answered) \in 1 .. Len(Waiting)
          /\ InFlight[i] = Waiting[i - Len(Answered)]
      BY <1>3, <1>4, <2>2
    <3>2. BeatFor(c, r + Len(Answered) + (i - Len(Answered)) - 1, Waiting[i - Len(Answered)])
      BY <1>2, <3>1 DEF Burst
    <3>3. r + Len(Answered) + (i - Len(Answered)) - 1 = r + i - 1
      BY <1>2, <1>4
    <3>. QED  BY <3>1, <3>2, <3>3
  <2>. QED  BY <2>1, <2>2
<1>. QED  BY <1>5, <1>6 DEF c, r, q

LEMMA PipeIsOwners == IInv => PipeBelongsToOwner
<1>. SUFFICES ASSUME IInv  PROVE PipeBelongsToOwner
  OBVIOUS
<1>1. CASE rtl_access = NoThread
  <2>1. Answered = <<>> /\ Waiting = <<>>
    BY <1>1 DEF IInv, MutexInv
  <2>2. <<>> \o <<>> = <<>>
    BY EmptyConcat
  <2>. QED  BY <1>1, <2>1, <2>2 DEF PipeBelongsToOwner, InFlight
<1>2. CASE rtl_access # NoThread
  <2>1. PICK t \in Threads : rtl_access = t
    BY <1>2, ThreadTypes
  <2>2. /\ Len(InFlight) = curr_req[t] - curr_resp[t]
        /\ \A i \in 1 .. Len(InFlight) :
             BeatFor(call[t], curr_resp[t] + i - 1, InFlight[i])
    BY <2>1, InFlightBeats
  <2>3. \A i \in 1 .. Len(InFlight) :
          LET b == InFlight[i]
              k == curr_resp[t] + i - 1
          IN b.op = call[t].cmd /\ b.addr = call[t].addr + k
             /\ (b.last <=> k = call[t].len - 1)
    BY <2>2 DEF BeatFor
  <2>. QED  BY <1>2, <2>1, <2>2, <2>3 DEF PipeBelongsToOwner
<1>. QED  BY <1>1, <1>2

(* rtl_access: whatever the number of threads and the mixture of blocking
   and non-blocking bursts, no thread can grab the answer to a request of
   another one, and an answer comes for the beat its owner waits for. *)
THEOREM PipeHoldsOwnersBeats == Spec => []PipeBelongsToOwner
BY PipeIsOwners, Invariance, PTL

(* Without the extension there are never two beats in the pipeline. *)
THEOREM BlockingSendsOne == Spec => []OneBeatWhenBlocking
<1>1. ASSUME IInv  PROVE OneBeatWhenBlocking
  <2>1. SUFFICES ASSUME rtl_access # NoThread, ~call[rtl_access].ext
                 PROVE  Len(InFlight) <= 1
    BY DEF OneBeatWhenBlocking
  <2>2. PICK t \in Threads : rtl_access = t
    BY <1>1, <2>1, ThreadTypes
  <2>3. Len(InFlight) = curr_req[t] - curr_resp[t]
    BY <1>1, <2>2, InFlightBeats
  <2>4. pc[t] \in {"write", "read"}
        /\ (pc[t] = "write" => curr_req[t] = curr_resp[t])
        /\ (pc[t] = "read" => curr_req[t] = curr_resp[t] + 1)
    BY <1>1, <2>1, <2>2 DEF IInv, MutexInv, ThreadInv, PlaceInv
  <2>5. curr_req[t] \in Nat /\ curr_resp[t] \in Nat
    BY <1>1, ThreadTypes
  <2>. QED  BY <2>3, <2>4, <2>5
<1>. QED  BY <1>1, Invariance, PTL

(* The word kept across failed nb_writes is the word of the current beat. *)
THEOREM KeptWordIsCurrent == Spec => []RequestWordIsCurrent
<1>1. IInv => RequestWordIsCurrent
  BY DEF IInv, MutexInv, ThreadInv, PlaceInv, RequestWordIsCurrent
<1>. QED  BY <1>1, Invariance, PTL

(* The LAST checks never fire: only a burst that does not fit fails. *)
THEOREM LastAlwaysMatches == Spec => []OnlyRangeErrors
<1>1. IInv => OnlyRangeErrors
  BY DEF IInv, MutexInv, ThreadInv, PlaceInv, OnlyRangeErrors
<1>. QED  BY <1>1, Invariance, PTL
-----------------------------------------------------------------------------
(***************************************************************************)
(* Who gets the mutex next.                                                *)
(***************************************************************************)

(* uncore has two target sockets: no three initiators are different. *)
AtMostTwo == \A t, u, v \in Threads : t = u \/ u = v \/ t = v

(* A sleeping waiter has an owner to wake it; a woken one finds the mutex
   free and everyone else in the wait that follows an unlock. *)
WaitInv(t) ==
  /\ pc[t] = "blocked" => rtl_access \notin {t, NoThread}
  /\ pc[t] = "woken" => rtl_access = NoThread /\ \A u \in Threads \ {t} : pc[u] = "return"

WaitersInv == \A t \in Threads : WaitInv(t)

LEMMA WaitersInit == Init => WaitersInv
BY DEF Init, WaitersInv, WaitInv

(* What a step of t does to the places and the mutex. *)
Moves(t) ==
  \/ /\ rtl_access' = rtl_access /\ pc' = [pc EXCEPT ![t] = pc'[t]]
     /\ pc[t] \notin {"blocked", "woken", "return"} /\ pc'[t] \notin {"blocked", "woken"}
  \/ /\ rtl_access' = rtl_access /\ pc' = [pc EXCEPT ![t] = "idle"]
     /\ NoneWoken
  \/ pc[t] \in {"entry", "woken"} /\ Lock(t)
  \/ rtl_access = t /\ Unlock(t)

LEMMA StepMoves ==
  ASSUME IInv, NEW t \in Threads, ThreadStep(t) \/ \E c \in Calls : Call(t, c)
  PROVE  Moves(t)
<1>1. ASSUME NEW c \in Calls, Call(t, c)  PROVE Moves(t)
  BY <1>1, ThreadTypes DEF Call, Moves
<1>2. CASE Begin(t)
  BY <1>2, ThreadTypes DEF Begin, Moves
<1>3. CASE Retry(t)
  BY <1>3 DEF Retry, Moves
<1>4. CASE WriteBeat(t)
  BY <1>4, ThreadTypes DEF WriteBeat, Moves
<1>5. CASE NbRequest(t)
  BY <1>5, ThreadTypes DEF NbRequest, Moves
<1>6. CASE ReadBeat(t) \/ NbResponse(t)
  <2>1. PICK next \in {"write", "nb"} : pc[t] \in {"read", "nb"} /\ TakeResp(t, next)
    BY <1>6 DEF ReadBeat, NbResponse
  <2>2. rtl_access = t
    BY <2>1, RunningBurst
  <2>3. Unlock(t) \/ (pc' = [pc EXCEPT ![t] = next] /\ UNCHANGED rtl_access)
    BY <2>1 DEF TakeResp
  <2>. QED  BY <2>1, <2>2, <2>3, ThreadTypes DEF Moves
<1>7. CASE Return(t)
  BY <1>7 DEF Return, Moves
<1>. QED  BY <1>1, <1>2, <1>3, <1>4, <1>5, <1>6, <1>7 DEF ThreadStep

LEMMA WaitersStep ==
  ASSUME AtMostTwo, IInv, WaitersInv, [Next]_vars
  PROVE  WaitersInv'
<1>1. ASSUME NEW t \in Threads, Moves(t)  PROVE WaitersInv'
  <2>1. rtl_access = t => pc[t] \notin {"blocked", "woken", "return", "idle", "entry"}
    BY DEF IInv, MutexInv, ThreadInv, PlaceInv
  <2>2. CASE /\ rtl_access' = rtl_access /\ pc' = [pc EXCEPT ![t] = pc'[t]]
             /\ pc[t] \notin {"blocked", "woken", "return"}
             /\ pc'[t] \notin {"blocked", "woken"}
    <3>1. NoneWoken
      BY <2>2 DEF NoneWoken, WaitersInv, WaitInv
    <3>. QED  BY <2>2, <3>1, ThreadTypes DEF NoneWoken, WaitersInv, WaitInv
  <2>3. CASE /\ rtl_access' = rtl_access /\ pc' = [pc EXCEPT ![t] = "idle"]
             /\ NoneWoken
    BY <2>3, ThreadTypes DEF NoneWoken, WaitersInv, WaitInv
  <2>4. CASE pc[t] \in {"entry", "woken"} /\ Lock(t)
    <3>1. \A u \in Threads \ {t} : pc[u] = "woken" => FALSE
      BY <2>4 DEF WaitersInv, WaitInv
    <3>2. \A u \in Threads \ {t} : pc'[u] = pc[u]
      BY <2>4, ThreadTypes DEF Lock
    <3>3. rtl_access' = (IF rtl_access = NoThread THEN t ELSE rtl_access)
      BY <2>4 DEF Lock
    <3>4. /\ rtl_access = NoThread => pc'[t] \in {"nb", "write"}
          /\ rtl_access # NoThread => pc'[t] = "blocked"
      BY <2>4, ThreadTypes DEF Lock
    <3>5. \A u \in Threads \ {t} : pc[u] = "blocked" => rtl_access \notin {u, NoThread}
      BY DEF WaitersInv, WaitInv
    <3>6. rtl_access # t
      BY <2>1, <2>4
    <3>. QED  BY <3>1, <3>2, <3>3, <3>4, <3>5, <3>6 DEF WaitersInv, WaitInv
  <2>5. CASE rtl_access = t /\ Unlock(t)
    <3>1. rtl_access' = NoThread /\ pc'[t] = "return"
          /\ \A u \in Threads \ {t} : pc'[u] # "blocked"
      BY <2>5, ThreadTypes DEF Unlock
    <3>2. \A u, v \in Threads : u # v /\ u # t => v = t
      BY DEF AtMostTwo
    <3>. QED  BY <3>1, <3>2 DEF WaitersInv, WaitInv
  <2>. QED  BY <1>1, <2>2, <2>3, <2>4, <2>5 DEF Moves
<1>2. CASE Kernel \/ UNCHANGED vars
  BY <1>2 DEF Kernel, vars, threadVars, WaitersInv, WaitInv
<1>. QED  BY <1>1, <1>2, StepMoves DEF Next

(* With at most two initiators a thread that waits for rtl_access is the next
   to get it: the other one cannot come round and take the mutex again. *)
THEOREM NobodyOvertakes ==
  ASSUME AtMostTwo
  PROVE  Spec => WaiterIsNext
<1>. DEFINE Fair(t) == pc[t] \in {"blocked", "woken"} => rtl_access' \in {rtl_access, NoThread, t}
<1>1. Init => WaitersInv
  BY WaitersInit
<1>2. AtMostTwo /\ IInv /\ WaitersInv /\ [Next]_vars => WaitersInv'
  BY WaitersStep
<1>3. IInv /\ WaitersInv /\ [Next]_vars => [\A t \in Threads : Fair(t)]_vars
  <2>. SUFFICES ASSUME IInv, WaitersInv, [Next]_vars, NEW t \in Threads,
                       pc[t] \in {"blocked", "woken"}
                PROVE  rtl_access' \in {rtl_access, NoThread, t}
    BY DEF Fair
  <2>1. ASSUME NEW u \in Threads, Moves(u)  PROVE rtl_access' \in {rtl_access, NoThread, t}
    <3>1. CASE pc[u] \in {"entry", "woken"} /\ Lock(u)
      <4>1. rtl_access = NoThread => pc[t] = "woken"
        BY DEF WaitersInv, WaitInv
      <4>2. pc[t] = "woken" => u = t
        BY <3>1 DEF WaitersInv, WaitInv
      <4>. QED  BY <3>1, <4>1, <4>2 DEF Lock
    <3>. QED  BY <2>1, <3>1 DEF Moves, Unlock
  <2>2. CASE Kernel \/ UNCHANGED vars
    BY <2>2 DEF Kernel, vars, threadVars
  <2>. QED  BY <2>1, <2>2, StepMoves DEF Next
<1>. QED
  BY <1>1, <1>2, <1>3, Invariance, PTL DEF Spec, WaiterIsNext
-----------------------------------------------------------------------------
(***************************************************************************)
(* b_transport implements the atomic memory.  A burst takes effect when    *)
(* its thread gets the mutex; every later step of it is a stutter.         *)
(***************************************************************************)
Waits == {"entry", "blocked", "woken"}
Runs == {"write", "read", "nb", "return"}

ClientOf(t) ==
  CASE pc[t] = "idle" -> [phase |-> "idle"]
    [] pc[t] \in {"entry", "blocked", "woken"} -> [phase |-> "called", call |-> call[t]]
    [] OTHER -> [phase |-> "done", call |-> call[t], status |-> status[t],
                 data |-> DataView(t)]

LEMMA ClientCases ==
  ASSUME NEW t \in Threads
  PROVE  /\ ClientView = [u \in Threads |-> ClientOf(u)]
         /\ pc[t] = "idle" => ClientOf(t) = Atomic!Idle
         /\ pc[t] \in Waits => ClientOf(t) = Atomic!Called(call[t])
         /\ pc[t] \in Runs => ClientOf(t) = Atomic!Done(call[t], status[t], DataView(t))
<1>1. ClientView = [u \in Threads |-> ClientOf(u)]
  BY DEF ClientView, ClientOf
<1>2. ASSUME pc[t] = "idle"  PROVE ClientOf(t) = Atomic!Idle
  BY <1>2 DEF ClientOf, Atomic!Idle
<1>3. ASSUME pc[t] \in Waits  PROVE ClientOf(t) = Atomic!Called(call[t])
  BY <1>3 DEF ClientOf, Atomic!Called, Waits
<1>4. ASSUME pc[t] \in Runs
      PROVE  ClientOf(t) = Atomic!Done(call[t], status[t], DataView(t))
  BY <1>4 DEF ClientOf, Atomic!Done, Runs
<1>. QED  BY <1>1, <1>2, <1>3, <1>4

LEMMA ClientCasesPrimed ==
  ASSUME NEW t \in Threads
  PROVE  /\ ClientView' = [u \in Threads |-> ClientOf(u)']
         /\ pc'[t] = "idle" => ClientOf(t)' = Atomic!Idle
         /\ pc'[t] \in Waits => ClientOf(t)' = Atomic!Called(call'[t])
         /\ pc'[t] \in Runs =>
              ClientOf(t)' = Atomic!Done(call'[t], status'[t], DataView(t)')
<1>1. ClientView' = [u \in Threads |-> ClientOf(u)']
  BY DEF ClientView, ClientOf
<1>2. ASSUME pc'[t] = "idle"  PROVE ClientOf(t)' = Atomic!Idle
  BY <1>2 DEF ClientOf, Atomic!Idle
<1>3. ASSUME pc'[t] \in Waits  PROVE ClientOf(t)' = Atomic!Called(call'[t])
  BY <1>3 DEF ClientOf, Atomic!Called, Waits
<1>4. ASSUME pc'[t] \in Runs
      PROVE  ClientOf(t)' = Atomic!Done(call'[t], status'[t], DataView(t)')
  BY <1>4 DEF ClientOf, Atomic!Done, Runs
<1>. QED  BY <1>1, <1>2, <1>3, <1>4

(* A thread that stays shows the same, if the memory stays or is not its
   own to see. *)
LEMMA BystanderShows ==
  ASSUME IInv, NEW u \in Threads, Stays(u), rtl_access # u \/ ram' = ram
  PROVE  ClientOf(u)' = ClientOf(u)
<1>1. /\ call'[u] = call[u] /\ data'[u] = data[u] /\ status'[u] = status[u]
      /\ pc'[u] = pc[u] \/ (pc[u] = "blocked" /\ pc'[u] = "woken")
      /\ rtl_access' = u <=> rtl_access = u
  BY DEF Stays
<1>2. DataView(u)' = DataView(u)
  BY <1>1 DEF DataView
<1>3. pc[u] = "idle" \/ pc[u] \in Waits \/ pc[u] \in Runs
  BY ThreadTypes DEF PC, Waits, Runs
<1>4. CASE pc[u] = "idle"
  BY <1>1, <1>4, ClientCases, ClientCasesPrimed
<1>5. CASE pc[u] \in Waits
  <2>1. pc'[u] \in Waits
    BY <1>1, <1>5 DEF Waits
  <2>. QED  BY <1>1, <1>5, <2>1, ClientCases, ClientCasesPrimed
<1>6. CASE pc[u] \in Runs
  <2>1. pc'[u] \in Runs
    BY <1>1, <1>6 DEF Runs
  <2>. QED  BY <1>1, <1>2, <1>6, <2>1, ClientCases, ClientCasesPrimed
<1>. QED  BY <1>3, <1>4, <1>5, <1>6

LEMMA ClientStep ==
  ASSUME NEW t \in Threads, \A u \in Threads : u # t => ClientOf(u)' = ClientOf(u)
  PROVE  ClientView' = [ClientView EXCEPT ![t] = ClientOf(t)']
<1>1. /\ ClientView = [u \in Threads |-> ClientOf(u)]
      /\ ClientView' = [u \in Threads |-> ClientOf(u)']
  BY ClientCases, ClientCasesPrimed
<1>. HIDE DEF ClientView
<1>. QED  BY <1>1

LEMMA FitsInRange ==
  ASSUME NEW c \in Calls
  PROVE  Atomic!Fits(c) <=> InRange(c)
<1>1. c.addr \in Nat /\ c.len \in Nat \ {0} /\ MaxAddr \in Nat /\ c.cmd \in Cmd
  BY CallFacts, MemoryAssumption
<1>2. Atomic!Fits(c) <=> c.addr .. (c.addr + c.len) - 1 \subseteq 0 .. MaxAddr
  BY <1>1 DEF Atomic!Fits, Atomic!Span, Addr
<1>3. c.addr .. (c.addr + c.len) - 1 \subseteq 0 .. MaxAddr
        <=> (c.addr + c.len) - 1 <= MaxAddr
  BY <1>1
<1>4. InRange(c) <=> (c.addr + c.len) - 1 <= MaxAddr
  BY <1>1 DEF InRange
<1>. QED  BY <1>2, <1>3, <1>4

(* The memory seen through a burst in progress. *)
Through(c, m) ==
  [a \in Addr |-> IF c.cmd = WRITE /\ a \in c.addr .. c.addr + c.len - 1
                    THEN c.data[a - c.addr] ELSE m[a]]

LEMMA MemViewCases ==
  ASSUME IInv
  PROVE  /\ rtl_access = NoThread => MemView = ram
         /\ \A t \in Threads : rtl_access = t => MemView = Through(call[t], ram)
<1>1. ram \in [Addr -> Byte] /\ NoThread \notin Threads
  BY ThreadTypes
<1>2. ASSUME rtl_access = NoThread  PROVE MemView = ram
  BY <1>1, <1>2 DEF MemView, OwnerWrites
<1>3. ASSUME NEW t \in Threads, rtl_access = t  PROVE MemView = Through(call[t], ram)
  <2>1. rtl_access # NoThread
    BY <1>1, <1>3
  <2>. QED  BY <1>3, <2>1 DEF MemView, OwnerWrites, Through
<1>. QED  BY <1>2, <1>3

LEMMA MemViewCasesPrimed ==
  ASSUME IInv'
  PROVE  /\ rtl_access' = NoThread => MemView' = ram'
         /\ \A t \in Threads : rtl_access' = t => MemView' = Through(call'[t], ram')
<1>1. ram' \in [Addr -> Byte] /\ NoThread \notin Threads
  BY MemRtlAssumption DEF IInv, PipeInv, PipeTypeOK
<1>2. ASSUME rtl_access' = NoThread  PROVE MemView' = ram'
  BY <1>1, <1>2 DEF MemView, OwnerWrites
<1>3. ASSUME NEW t \in Threads, rtl_access' = t  PROVE MemView' = Through(call'[t], ram')
  <2>1. rtl_access' # NoThread
    BY <1>1, <1>3
  <2>. QED  BY <1>3, <2>1 DEF MemView, OwnerWrites, Through
<1>. QED  BY <1>2, <1>3

(* The start of a burst shows nothing of it but its write. *)
LEMMA ThroughAdds ==
  ASSUME NEW c \in Calls, NEW m \in [Addr -> Byte]
  PROVE  /\ c.cmd = READ => Through(c, m) = m
         /\ c.cmd = WRITE =>
              Through(c, m) = [a \in Addr |-> IF a \in Atomic!Span(c)
                                                THEN c.data[a - c.addr] ELSE m[a]]
<1>1. c.cmd = READ => c.cmd # WRITE
  BY DEF READ, WRITE
<1>. QED  BY <1>1 DEF Through, Atomic!Span

(* A beat of the burst changes nothing that can be seen through it. *)
LEMMA ThroughHides ==
  ASSUME NEW c \in Calls, InRange(c), NEW m \in [Addr -> Byte],
         NEW k \in 0 .. c.len - 1, NEW b \in Beat, BeatFor(c, k, b)
  PROVE  /\ Through(c, Queue!Store(m, b)) = Through(c, m)
         /\ c.cmd = READ => Queue!Store(m, b) = m
<1>1. b.op = c.cmd /\ b.addr = c.addr + k /\ c.cmd \in Cmd
  BY CallFacts DEF BeatFor
<1>2. CASE c.cmd = READ
  BY <1>1, <1>2 DEF Queue!Store, Queue!WRITE, READ
<1>3. CASE c.cmd = WRITE
  <2>1. Queue!Store(m, b) = [m EXCEPT ![c.addr + k] = b.data]
    BY <1>1, <1>3 DEF Queue!Store, Queue!WRITE, WRITE
  <2>2. c.addr + k \in c.addr .. c.addr + c.len - 1
    BY CallFacts
  <2>3. c.cmd # READ
    BY <1>3 DEF READ, WRITE
  <2>4. ASSUME NEW a \in Addr, ~(a \in c.addr .. c.addr + c.len - 1)
        PROVE  Queue!Store(m, b)[a] = m[a]
    BY <2>1, <2>2, <2>4
  <2>. HIDE DEF Queue!Store
  <2>5. Through(c, Queue!Store(m, b)) = Through(c, m)
    BY <1>3, <2>4 DEF Through
  <2>. QED  BY <2>3, <2>5
<1>. QED  BY <1>1, <1>2, <1>3 DEF Cmd

(* When every byte of a write is stored, there is nothing left to hide. *)
LEMMA ThroughEnds ==
  ASSUME NEW c \in Calls, NEW m \in [Addr -> Byte],
         c.cmd = WRITE => Stored(c, m)
  PROVE  Through(c, m) = m
<1>1. c.addr \in Nat /\ c.len \in Nat \ {0}
  BY CallFacts
<1>2. ASSUME NEW a \in Addr, c.cmd = WRITE, a \in c.addr .. c.addr + c.len - 1
      PROVE  c.data[a - c.addr] = m[a]
  <2>1. a - c.addr \in 0 .. c.len - 1 /\ c.addr + (a - c.addr) = a
    BY <1>1, <1>2
  <2>2. m[c.addr + (a - c.addr)] = c.data[a - c.addr]
    BY <1>2, <2>1 DEF Stored
  <2>. QED  BY <2>1, <2>2
<1>. QED  BY <1>2 DEF Through

LEMMA SameClients ==
  ASSUME \A u \in Threads : ClientOf(u)' = ClientOf(u)
  PROVE  ClientView' = ClientView
<1>1. ClientView = [u \in Threads |-> ClientOf(u)] /\ ClientView' = [u \in Threads |-> ClientOf(u)']
  BY DEF ClientView, ClientOf
<1>. HIDE DEF ClientView
<1>. QED  BY <1>1

LEMMA OthersStay ==
  ASSUME IInv, NEW t \in Threads, ThreadStep(t) \/ \E c \in Calls : Call(t, c)
  PROVE  ram' = ram /\ \A u \in Threads : u # t => Stays(u)
<1>1. ASSUME NEW c \in Calls, Call(t, c)  PROVE ram' = ram /\ \A u \in Threads : u # t => Stays(u)
  BY <1>1, ThreadTypes DEF Call, Stays, pipeVars
<1>2. CASE Begin(t)
  BY <1>2, ThreadTypes DEF Begin, Lock, Stays, pipeVars
<1>3. CASE Retry(t)
  BY <1>3, ThreadTypes DEF Retry, Lock, Stays, pipeVars
<1>4. CASE WriteBeat(t)
  BY <1>4, ThreadTypes DEF WriteBeat, WriteReq, Stays
<1>5. CASE NbRequest(t)
  <2>1. ram' = ram /\ UNCHANGED <<rtl_access, pc, call, data, curr_resp, status>>
    BY <1>5 DEF NbRequest, WriteReq, pipeVars
  <2>2. /\ curr_req' = [curr_req EXCEPT ![t] = @ + 1] \/ curr_req' = curr_req
        /\ \E x : req_vec' = [req_vec EXCEPT ![t] = x]
    BY <1>5 DEF NbRequest
  <2>3. \A u \in Threads : u # t => curr_req'[u] = curr_req[u] /\ req_vec'[u] = req_vec[u]
    BY <2>2, ThreadTypes
  <2>. QED  BY <2>1, <2>3 DEF Stays
<1>6. ASSUME NEW next, pc[t] \in {"read", "nb"}, TakeResp(t, next)
      PROVE  ram' = ram /\ \A u \in Threads : u # t => Stays(u)
  <2>1. /\ ram' = ram /\ UNCHANGED <<status, call, curr_req, req_vec>>
        /\ data' = [data EXCEPT ![t] = Filled(data[t], curr_resp[t], Answered)]
        /\ curr_resp' = [curr_resp EXCEPT ![t] = @ + 1]
        /\ Unlock(t) \/ (pc' = [pc EXCEPT ![t] = next] /\ UNCHANGED rtl_access)
    BY <1>6, TakenBeat
  <2>2. \A u \in Threads : u # t =>
          /\ data'[u] = data[u] /\ curr_resp'[u] = curr_resp[u]
          /\ pc'[u] = pc[u] \/ (pc[u] = "blocked" /\ pc'[u] = "woken")
    BY <2>1, ThreadTypes DEF Unlock
  <2>3. rtl_access = t /\ rtl_access' \in {t, NoThread}
    BY <1>6, <2>1, RunningBurst DEF Unlock
  <2>4. \A u \in Threads : u # t => (rtl_access' = u <=> rtl_access = u)
    BY <2>3, ThreadTypes
  <2>. QED  BY <2>1, <2>2, <2>4 DEF Stays
<1>7. CASE ReadBeat(t)
  BY <1>6, <1>7 DEF ReadBeat
<1>8. CASE NbResponse(t)
  BY <1>6, <1>8 DEF NbResponse
<1>9. CASE Return(t)
  BY <1>9, ThreadTypes DEF Return, Stays, pipeVars
<1>. QED  BY <1>1, <1>2, <1>3, <1>4, <1>5, <1>7, <1>8, <1>9 DEF ThreadStep

LEMMA OneClientMoves ==
  ASSUME IInv, NEW t \in Threads, ThreadStep(t) \/ \E c \in Calls : Call(t, c)
  PROVE  /\ ClientView' = [ClientView EXCEPT ![t] = ClientOf(t)']
         /\ ClientView[t] = ClientOf(t)
         /\ ClientOf(t)' = ClientOf(t) => ClientView' = ClientView
<1>1. \A u \in Threads : u # t => ClientOf(u)' = ClientOf(u)
  BY OthersStay, BystanderShows
<1>2. ClientView = [u \in Threads |-> ClientOf(u)]
  BY ClientCases
<1>3. ClientView' = [ClientView EXCEPT ![t] = ClientOf(t)']
  BY <1>1, ClientStep
<1>. HIDE DEF ClientView
<1>. QED  BY <1>2, <1>3

LEMMA MemViewStays ==
  ASSUME IInv, IInv', UNCHANGED <<rtl_access, ram>>,
         \A u \in Threads : rtl_access = u => call'[u] = call[u]
  PROVE  MemView' = MemView
<1>1. rtl_access \in Threads \cup {NoThread}
  BY ThreadTypes
<1>2. CASE rtl_access = NoThread
  BY <1>2, MemViewCases, MemViewCasesPrimed
<1>3. CASE rtl_access \in Threads
  <2>1. MemView = Through(call[rtl_access], ram)
    BY <1>3, MemViewCases
  <2>2. MemView' = Through(call'[rtl_access], ram)
    BY <1>3, MemViewCasesPrimed
  <2>. QED  BY <1>3, <2>1, <2>2
<1>. QED  BY <1>1, <1>2, <1>3

LEMMA CallRefines ==
  ASSUME IInv, IInv', NEW t \in Threads, NEW c \in Calls, Call(t, c)
  PROVE  Atomic!Invoke(t, c)
<1>1. /\ pc[t] = "idle" /\ pc'[t] = "entry" /\ call'[t] = c
      /\ UNCHANGED <<ram, rtl_access>>
      /\ \A u \in Threads : u # t => call'[u] = call[u]
  BY ThreadTypes DEF Call, pipeVars
<1>2. ClientOf(t) = Atomic!Idle
  BY <1>1, ClientCases
<1>3. ClientOf(t)' = Atomic!Called(c)
  BY <1>1, ClientCasesPrimed DEF Waits
<1>4. rtl_access # t
  BY <1>1 DEF IInv, MutexInv, ThreadInv, PlaceInv
<1>5. MemView' = MemView
  BY <1>1, <1>4, MemViewStays
<1>6. /\ ClientView' = [ClientView EXCEPT ![t] = ClientOf(t)']
      /\ ClientView[t] = ClientOf(t)
  BY OneClientMoves
<1>. HIDE DEF MemView, ClientView, ClientOf
<1>. QED  BY <1>2, <1>3, <1>5, <1>6 DEF Atomic!Invoke

(* The thread gets the mutex: the whole burst happens here. *)
LEMMA LockRefines ==
  ASSUME IInv, IInv', NEW t \in Threads, ThreadStep(t),
         pc[t] \in {"entry", "woken"}, InRange(call[t]), Lock(t), status'[t] = OK,
         UNCHANGED <<pipeVars, call, data>>
  PROVE  \/ Atomic!Read(t, call[t]) \/ Atomic!Write(t, call[t])
         \/ UNCHANGED <<MemView, ClientView>>
<1>. DEFINE c == call[t]
<1>1. c \in Calls
  BY ActiveCall
<1>2. rtl_access # t /\ data[t] = c.data
  BY DEF IInv, MutexInv, ThreadInv, PlaceInv
<1>3. ClientOf(t) = Atomic!Called(c)
  BY ClientCases DEF Waits
<1>4. /\ ClientView' = [ClientView EXCEPT ![t] = ClientOf(t)']
      /\ ClientView[t] = ClientOf(t)
      /\ ClientOf(t)' = ClientOf(t) => ClientView' = ClientView
  BY OneClientMoves
<1>5. ram' = ram /\ call' = call /\ ram \in [Addr -> Byte]
  BY ThreadTypes DEF pipeVars
<1>6. CASE rtl_access # NoThread
  <2>1. pc'[t] = "blocked" /\ rtl_access' = rtl_access
    BY <1>6, ThreadTypes DEF Lock
  <2>2. ClientOf(t)' = Atomic!Called(c)
    BY <1>5, <2>1, ClientCasesPrimed DEF Waits
  <2>3. MemView' = MemView
    BY <1>5, <2>1, MemViewStays
  <2>. QED  BY <1>3, <1>4, <2>2, <2>3
<1>7. CASE rtl_access = NoThread
  <2>1. pc'[t] \in Runs /\ rtl_access' = t
    BY <1>7, ThreadTypes DEF Lock, Runs
  <2>2. MemView = ram /\ MemView' = Through(c, ram)
    BY <1>5, <1>7, <2>1, MemViewCases, MemViewCasesPrimed
  <2>3. ClientOf(t)' = Atomic!Done(c, OK, DataView(t)')
    BY <1>5, <2>1, ClientCasesPrimed
  <2>4. Atomic!Fits(c)
    BY <1>1, FitsInRange
  <2>5. CASE c.cmd = READ
    <3>1. DataView(t)' = [i \in 0 .. c.len - 1 |-> ram[c.addr + i]]
      BY <1>5, <2>1, <2>5 DEF DataView
    <3>2. DataView(t)' = [i \in Atomic!Bytes(c) |-> MemView[c.addr + i]]
      BY <2>2, <3>1 DEF Atomic!Bytes
    <3>3. MemView' = MemView
      BY <1>1, <1>5, <2>2, <2>5, ThroughAdds
    <3>. HIDE DEF MemView, ClientView, ClientOf, DataView, c
    <3>4. ClientView' = [ClientView EXCEPT
                           ![t] = Atomic!Done(c, OK, [i \in Atomic!Bytes(c) |-> MemView[c.addr + i]])]
      BY <1>4, <2>3, <3>2
    <3>5. c.cmd = Atomic!READ /\ OK = Atomic!OK
      BY <2>5 DEF READ, Atomic!READ, OK, Atomic!OK
    <3>6. Atomic!Read(t, c)
      BY <1>3, <1>4, <2>4, <3>3, <3>4, <3>5 DEF Atomic!Read
    <3>. QED  BY <3>6 DEF c
  <2>6. CASE c.cmd = WRITE
    <3>1. DataView(t)' = c.data
      BY <1>2, <1>5, <2>6 DEF DataView, READ, WRITE
    <3>2. MemView' = [a \in Addr |-> IF a \in Atomic!Span(c) THEN c.data[a - c.addr]
                                                            ELSE MemView[a]]
      BY <1>1, <1>5, <2>2, <2>6, ThroughAdds
    <3>. HIDE DEF MemView, ClientView, ClientOf, DataView, c
    <3>3. c.cmd = Atomic!WRITE /\ OK = Atomic!OK
      BY <2>6 DEF WRITE, Atomic!WRITE, OK, Atomic!OK
    <3>4. ClientView' = [ClientView EXCEPT ![t] = Atomic!Done(c, Atomic!OK, c.data)]
      BY <1>4, <2>3, <3>1, <3>3
    <3>5. Atomic!Write(t, c)
      BY <1>3, <1>4, <2>4, <3>2, <3>3, <3>4 DEF Atomic!Write
    <3>. QED  BY <3>5 DEF c
  <2>. QED  BY <1>1, <2>5, <2>6, CallFacts DEF Cmd
<1>. QED  BY <1>6, <1>7

LEMMA RefusalRefines ==
  ASSUME IInv, IInv', NEW t \in Threads, Begin(t), ~InRange(call[t])
  PROVE  Atomic!Refuse(t, call[t])
<1>. DEFINE c == call[t]
<1>1. /\ pc[t] = "entry" /\ pc'[t] = "return" /\ status'[t] = ERROR
      /\ UNCHANGED <<ram, rtl_access, call, data>>
  BY ThreadTypes DEF Begin, pipeVars
<1>2. rtl_access # t /\ data[t] = c.data
  BY <1>1 DEF IInv, MutexInv, ThreadInv, PlaceInv
<1>3. ClientOf(t) = Atomic!Called(c)
  BY <1>1, ClientCases DEF Waits
<1>4. DataView(t)' = c.data
  BY <1>1, <1>2 DEF DataView
<1>5. ClientOf(t)' = Atomic!Done(c, ERROR, c.data)
  BY <1>1, <1>4, ClientCasesPrimed DEF Runs
<1>6. MemView' = MemView
  BY <1>1, MemViewStays
<1>7. ~Atomic!Fits(c)
  <2>1. c \in Calls
    BY <1>1, ActiveCall
  <2>. QED  BY <2>1, FitsInRange
<1>8. /\ ClientView' = [ClientView EXCEPT ![t] = ClientOf(t)']
      /\ ClientView[t] = ClientOf(t)
  BY OneClientMoves DEF ThreadStep
<1>. HIDE DEF MemView, ClientView, ClientOf, c
<1>9. ERROR = Atomic!ERROR
  BY DEF ERROR, Atomic!ERROR
<1>10. Atomic!Refuse(t, c)
  BY <1>3, <1>5, <1>6, <1>7, <1>8, <1>9 DEF Atomic!Refuse
<1>. QED  BY <1>10 DEF c

LEMMA ReturnRefines ==
  ASSUME IInv, IInv', NEW t \in Threads, Return(t)
  PROVE  Atomic!Return(t)
<1>1. /\ pc[t] = "return" /\ pc'[t] = "idle" /\ UNCHANGED <<ram, rtl_access>>
      /\ \A u \in Threads : u # t => call'[u] = call[u]
  BY ThreadTypes DEF Return, pipeVars
<1>2. rtl_access # t
  BY <1>1 DEF IInv, MutexInv, ThreadInv, PlaceInv
<1>3. ClientOf(t) = Atomic!Done(call[t], status[t], DataView(t))
  BY <1>1, ClientCases DEF Runs
<1>4. ClientOf(t)' = Atomic!Idle
  BY <1>1, ClientCasesPrimed
<1>5. MemView' = MemView
  BY <1>1, <1>2, MemViewStays
<1>6. /\ ClientView' = [ClientView EXCEPT ![t] = ClientOf(t)']
      /\ ClientView[t] = ClientOf(t)
  BY OneClientMoves DEF ThreadStep
<1>. HIDE DEF MemView, ClientView, ClientOf, DataView
<1>7. ClientOf(t).phase = "done"
  BY <1>3 DEF Atomic!Done
<1>. QED  BY <1>4, <1>5, <1>6, <1>7 DEF Atomic!Return

(* A beat goes out: nothing to see. *)
LEMMA SendStutters ==
  ASSUME IInv, IInv', NEW t \in Threads, WriteBeat(t) \/ NbRequest(t)
  PROVE  UNCHANGED <<MemView, ClientView>>
<1>1. /\ pc[t] \in Runs /\ pc'[t] \in Runs
      /\ UNCHANGED <<ram, rtl_access, call, data, status>>
  <2>1. CASE WriteBeat(t)
    BY <2>1, ThreadTypes DEF WriteBeat, WriteReq, Runs
  <2>2. CASE NbRequest(t)
    BY <2>2, ThreadTypes DEF NbRequest, WriteReq, pipeVars, Runs
  <2>. QED  BY <2>1, <2>2
<1>2. DataView(t)' = DataView(t)
  BY <1>1 DEF DataView
<1>3. ClientOf(t)' = ClientOf(t)
  BY <1>1, <1>2, ClientCases, ClientCasesPrimed
<1>4. MemView' = MemView
  BY <1>1, MemViewStays
<1>5. ClientView' = ClientView
  BY <1>3, OneClientMoves DEF ThreadStep
<1>. QED  BY <1>4, <1>5

(* An answer comes: the buffer of a read fills with what the thread is seen
   to hold already, and after the last answer memory and buffer are what
   they are seen to be. *)
LEMMA TakeStutters ==
  ASSUME IInv, IInv', NEW t \in Threads, ReadBeat(t) \/ NbResponse(t)
  PROVE  UNCHANGED <<MemView, ClientView>>
<1>. DEFINE c == call[t]
            r == curr_resp[t]
            e == Filled(data[t], r, Answered)
<1>1. PICK next \in {"write", "nb"} : TakeResp(t, next)
  BY DEF ReadBeat, NbResponse
<1>2. pc[t] \in {"read", "nb"}
  BY DEF ReadBeat, NbResponse
<1>3. /\ ram' = ram /\ Answered # <<>>
      /\ data' = [data EXCEPT ![t] = e]
      /\ UNCHANGED <<status, call>>
      /\ \/ r = c.len - 1 /\ Unlock(t)
         \/ /\ r # c.len - 1
            /\ pc' = [pc EXCEPT ![t] = next] /\ UNCHANGED rtl_access
  BY <1>1, <1>2, TakenBeat
<1>4. /\ rtl_access = t /\ c \in Calls /\ data[t] \in CallBuffer(c)
      /\ Answered \in Seq(Beat) /\ Waiting \in Seq(Beat) /\ ram \in [Addr -> Byte]
      /\ Burst(c, r, curr_req[t], Answered, Waiting, ram, data[t])
  BY <1>2, RunningBurst
<1>5. e \in CallBuffer(c) /\ (c.cmd = WRITE => e = c.data) /\ (c.cmd = WRITE => data[t] = c.data)
  <2>1. e \in CallBuffer(c) /\ (c.cmd = WRITE => e = c.data)
    BY <1>3, <1>4, BurstAnswer
  <2>2. c.cmd = WRITE => data[t] = c.data
    BY <1>4 DEF Burst
  <2>. QED  BY <2>1, <2>2
<1>6. pc[t] \in Runs /\ pc'[t] \in Runs
  BY <1>1, <1>2, <1>3, ThreadTypes DEF Unlock, Runs
<1>7. data'[t] = e /\ call'[t] = c /\ status'[t] = status[t]
  BY <1>3, ThreadTypes
<1>8. DataView(t)' = DataView(t) /\ MemView' = MemView
  <2>1. CASE r # c.len - 1
    <3>1. rtl_access' = t
      BY <1>3, <1>4, <2>1
    <3>2. MemView' = MemView
      BY <1>3, <1>4, <3>1, MemViewStays
    <3>3. CASE c.cmd = READ
      BY <1>3, <1>4, <1>7, <3>1, <3>2, <3>3 DEF DataView
    <3>4. CASE c.cmd # READ
      <4>1. e = data[t]
        BY <1>4, <1>5, <3>4, CallFacts DEF Cmd
      <4>. QED  BY <1>7, <3>2, <3>4, <4>1 DEF DataView
    <3>. QED  BY <3>2, <3>3, <3>4
  <2>2. CASE r = c.len - 1
    <3>1. rtl_access' = NoThread /\ NoThread # t
      BY <1>3, <2>2, ThreadTypes DEF Unlock
    <3>2. (c.cmd = WRITE => Stored(c, ram)) /\ (c.cmd = READ => Fetched(c, ram, e))
      <4>1. LastOf(c, r)
        BY <2>2 DEF LastOf
      <4>. QED  BY <1>3, <1>4, <4>1, BurstDone
    <3>3. MemView' = MemView
      <4>1. MemView' = ram
        BY <1>3, <3>1, MemViewCasesPrimed
      <4>2. MemView = Through(c, ram)
        BY <1>4, MemViewCases
      <4>3. Through(c, ram) = ram
        BY <1>4, <3>2, ThroughEnds
      <4>. QED  BY <4>1, <4>2, <4>3
    <3>4. DataView(t)' = e
      BY <1>7, <3>1 DEF DataView
    <3>5. CASE c.cmd = READ
      <4>1. DataView(t) = [k \in 0 .. c.len - 1 |-> ram[c.addr + k]]
        BY <1>4, <3>5 DEF DataView
      <4>. HIDE DEF e, c
      <4>2. e = [k \in 0 .. c.len - 1 |-> ram[c.addr + k]]
        BY <1>5, <3>2, <3>5 DEF CallBuffer, Fetched
      <4>. QED  BY <3>3, <3>4, <4>1, <4>2
    <3>6. CASE c.cmd # READ
      <4>1. e = data[t]
        BY <1>4, <1>5, <3>6, CallFacts DEF Cmd
      <4>2. DataView(t) = data[t]
        BY <3>6 DEF DataView
      <4>. QED  BY <3>3, <3>4, <4>1, <4>2
    <3>. QED  BY <3>5, <3>6
  <2>. QED  BY <2>1, <2>2
<1>9. ClientOf(t)' = ClientOf(t)
  BY <1>6, <1>7, <1>8, ClientCases, ClientCasesPrimed
<1>10. ClientView' = ClientView
  BY <1>9, OneClientMoves DEF ThreadStep
<1>. QED  BY <1>8, <1>10

(* io_block stores a byte of the owner's burst, which is seen already. *)
LEMMA KernelStutters ==
  ASSUME IInv, IInv', Kernel
  PROVE  UNCHANGED <<MemView, ClientView>>
<1>1. UNCHANGED <<rtl_access, pc, call, data, curr_req, curr_resp, req_vec, status>>
  BY DEF Kernel, threadVars
<1>2. \A u \in Threads : Stays(u)
  BY <1>1 DEF Stays
<1>3. Queue!Execute \/ ram' = ram
  BY PipeRuns DEF Kernel, IInv, PipeView
<1>4. CASE ram' = ram
  <2>1. MemView' = MemView
    BY <1>1, <1>4, MemViewStays
  <2>2. \A u \in Threads : ClientOf(u)' = ClientOf(u)
    BY <1>2, <1>4, BystanderShows
  <2>. QED  BY <2>1, <2>2, SameClients
<1>5. CASE Queue!Execute
  <2>1. PICK t \in Threads : t = rtl_access
    BY <1>5, ExecutesForOwner
  <2>2. pc[t] \in {"write", "read", "nb"} /\ Waiting # <<>>
    BY <1>5, <2>1, ExecutesForOwner
  <2>. DEFINE c == call[t]
              b == Head(Waiting)
  <2>3. /\ c \in Calls /\ InRange(c)
        /\ Answered \in Seq(Beat) /\ Waiting \in Seq(Beat) /\ ram \in [Addr -> Byte]
        /\ Burst(c, curr_resp[t], curr_req[t], Answered, Waiting, ram, data[t])
    BY <2>2, RunningBurst
  <2>4. /\ curr_resp[t] + Len(Answered) \in 0 .. c.len - 1
        /\ BeatFor(c, curr_resp[t] + Len(Answered), b) /\ b \in Beat
    BY <2>2, <2>3, BurstHead
  <2>5. ram' = Queue!Store(ram, b)
    BY <1>5 DEF Queue!Execute
  <2>6. Through(c, ram') = Through(c, ram) /\ (c.cmd = READ => ram' = ram)
    BY <2>3, <2>4, <2>5, ThroughHides
  <2>7. MemView' = MemView
    <3>1. MemView = Through(c, ram)
      BY <2>1, MemViewCases
    <3>2. MemView' = Through(c, ram')
      BY <1>1, <2>1, MemViewCasesPrimed
    <3>. QED  BY <2>6, <3>1, <3>2
  <2>8. ASSUME NEW u \in Threads  PROVE ClientOf(u)' = ClientOf(u)
    <3>1. CASE u # t
      <4>1. rtl_access # u /\ Stays(u)
        BY <1>2, <2>1, <3>1
      <4>. QED  BY <4>1, BystanderShows
    <3>2. CASE u = t
      <4>1. DataView(t)' = DataView(t)
        BY <1>1, <2>1, <2>6 DEF DataView
      <4>2. pc[t] \in Runs
        BY <2>2 DEF Runs
      <4>3. ClientOf(t)' = ClientOf(t)
        BY <1>1, <4>1, <4>2, ClientCases, ClientCasesPrimed
      <4>. QED  BY <3>2, <4>3
    <3>. QED  BY <3>1, <3>2
  <2>. QED  BY <2>7, <2>8, SameClients
<1>. QED  BY <1>3, <1>4, <1>5

LEMMA RefinesInit == Init => Atomic!Init
<1>. SUFFICES ASSUME Init  PROVE Atomic!Init
  OBVIOUS
<1>1. IInv /\ rtl_access = NoThread
  BY InitInv DEF Init
<1>2. MemView \in [Addr -> Byte]
  BY <1>1, MemViewCases, ThreadTypes
<1>3. \A t \in Threads : ClientOf(t) = Atomic!Idle
  BY ClientCases DEF Init
<1>4. ClientView = [t \in Threads |-> ClientOf(t)]
  BY DEF ClientView, ClientOf
<1>. HIDE DEF MemView, ClientView, ClientOf
<1>5. ClientView = [t \in Threads |-> Atomic!Idle]
  BY <1>3, <1>4
<1>. QED  BY <1>2, <1>5 DEF Atomic!Init

LEMMA RefinesStep ==
  ASSUME IInv, [Next]_vars
  PROVE  [Atomic!Next]_(Atomic!mvars)
<1>0. IInv'
  BY NextKeeps
<1>1. CASE Kernel
  BY <1>0, <1>1, KernelStutters DEF Atomic!mvars
<1>2. ASSUME NEW t \in Threads, ThreadStep(t)
      PROVE  Atomic!Next \/ UNCHANGED <<MemView, ClientView>>
  <2>1. CASE Begin(t) /\ ~InRange(call[t])
    <3>1. call[t] \in Calls
      BY <2>1, ActiveCall DEF Begin
    <3>2. Atomic!Refuse(t, call[t])
      BY <1>0, <2>1, RefusalRefines
    <3>. QED  BY <3>1, <3>2 DEF Atomic!Next
  <2>2. CASE (Begin(t) /\ InRange(call[t])) \/ Retry(t)
    <3>1. /\ pc[t] \in {"entry", "woken"} /\ Lock(t)
          /\ UNCHANGED <<pipeVars, call, data>>
      BY <2>2 DEF Begin, Retry
    <3>2. InRange(call[t]) /\ status'[t] = OK
      <4>1. CASE Begin(t) /\ InRange(call[t])
        BY <4>1, ThreadTypes DEF Begin
      <4>2. CASE Retry(t)
        BY <4>2 DEF Retry, IInv, MutexInv, ThreadInv, PlaceInv
      <4>. QED  BY <2>2, <4>1, <4>2
    <3>3. call[t] \in Calls
      BY <3>1, ActiveCall
    <3>4. \/ Atomic!Read(t, call[t]) \/ Atomic!Write(t, call[t])
          \/ UNCHANGED <<MemView, ClientView>>
      BY <1>0, <1>2, <3>1, <3>2, LockRefines
    <3>. QED  BY <3>3, <3>4 DEF Atomic!Next
  <2>3. CASE WriteBeat(t) \/ NbRequest(t)
    BY <1>0, <2>3, SendStutters
  <2>4. CASE ReadBeat(t) \/ NbResponse(t)
    BY <1>0, <2>4, TakeStutters
  <2>5. CASE Return(t)
    BY <1>0, <2>5, ReturnRefines DEF Atomic!Next
  <2>. QED  BY <1>2, <2>1, <2>2, <2>3, <2>4, <2>5 DEF ThreadStep
<1>3. ASSUME NEW t \in Threads, NEW c \in Calls, Call(t, c)  PROVE Atomic!Next
  BY <1>0, <1>3, CallRefines DEF Atomic!Next
<1>4. CASE UNCHANGED vars
  BY <1>4 DEF vars, pipeVars, threadVars, Atomic!mvars, MemView, OwnerWrites, ClientView, DataView
<1>. QED  BY <1>1, <1>2, <1>3, <1>4 DEF Next, Atomic!mvars

(* b_transport is an atomic memory for any number of threads that share it,
   with any bursts, blocking or not, any queue depth and any order of clock
   edges and timers: no torn burst, no answer of another thread, no byte
   lost to backpressure. *)
THEOREM BTransportIsAtomic == Spec => ImplementsAtomicMem
<1>1. Init => Atomic!Init
  BY RefinesInit
<1>2. IInv /\ [Next]_vars => [Atomic!Next]_(Atomic!mvars)
  BY RefinesStep
<1>. QED
  BY <1>1, <1>2, Invariance, PTL DEF Spec, ImplementsAtomicMem, Atomic!Spec
-----------------------------------------------------------------------------
(***************************************************************************)
(* A burst comes to its end: it is never stuck, and each step of it makes  *)
(* the work left smaller.  What remains of EveryCallReturns is that the    *)
(* steps are taken, which is fairness.                                     *)
(***************************************************************************)

LEMMA QueueRoom ==
  ASSUME PipeInv
  PROVE  /\ Len(req_PIPE) \in Nat /\ Len(resp_PIPE) \in Nat
         /\ req_PIPE = <<>> => ~ReqFull /\ Len(req_PIPE) = 0
         /\ resp_PIPE = <<>> => ~RespFull /\ Len(resp_PIPE) = 0
         /\ req_PIPE # <<>> => Len(req_PIPE) > 0
<1>1. req_PIPE \in Seq(Beat) /\ resp_PIPE \in Seq(Beat)
  BY DEF PipeInv, PipeTypeOK
<1>. QED  BY <1>1, EmptySeq, LenProperties, PipeAssumption DEF ReqFull, RespFull

(* A beat on its way is moved by the clock, if no answer waits before it. *)
LEMMA NothingBlocks ==
  ASSUME PipeInv, rstn, resp_PIPE = <<>>, Answered # <<>> \/ Waiting # <<>>
  PROVE  EdgeMoves
<1>1. state = SKID <=> ~pins2queue_up_ready
  BY DEF PipeInv, SkidInv
<1>2. CASE state = SKID
  BY <1>2, QueueRoom DEF EdgeMoves
<1>3. CASE state # SKID
  <2>1. /\ Answered = (<<>> \o <<>>) \o OneIf(down_valid_q /\ edges > 0, down_data_q)
        /\ <<>> \in Seq(Beat)
    BY <1>3 DEF Answered, OneIf
  <2>2. ~(down_valid_q /\ edges > 0) => Answered = <<>>
    BY <2>1, EmptyConcat DEF OneIf
  <2>3. ~queue2pins_down_valid /\ req_PIPE = <<>> => Waiting = <<>>
    BY <2>1, EmptyConcat DEF Waiting, OneIf
  <2>. QED  BY <1>1, <1>3, <2>2, <2>3 DEF EdgeMoves, PinsFree
<1>. QED  BY <1>2, <1>3

LEMMA OwnerMoves == IInv => BurstNeverStuck
<1>. SUFFICES ASSUME IInv, NEW t \in Threads, rtl_access = t
              PROVE  /\ pc[t] = "write" => ~ReqFull
                     /\ pc[t] = "read" => resp_PIPE # <<>> \/ ~rstn \/ EdgeMoves
                     /\ pc[t] = "nb" => \/ resp_PIPE # <<>> \/ ~rstn \/ EdgeMoves
                                        \/ curr_req[t] < call[t].len /\ ~ReqFull
  BY DEF BurstNeverStuck
<1>1. pc[t] \in {"write", "read", "nb"} /\ PlaceInv(t)
  BY DEF IInv, MutexInv, ThreadInv, PlaceInv
<1>2. /\ call[t] \in Calls /\ Answered \in Seq(Beat) /\ Waiting \in Seq(Beat)
      /\ curr_req[t] \in Nat /\ curr_resp[t] \in Nat
      /\ Burst(call[t], curr_resp[t], curr_req[t], Answered, Waiting, ram, data[t])
  BY <1>1, RunningBurst
<1>3. /\ curr_resp[t] + Len(Answered) + Len(Waiting) = curr_req[t]
      /\ curr_resp[t] < call[t].len /\ curr_req[t] <= call[t].len
      /\ Len(Answered) \in Nat /\ Len(Waiting) \in Nat /\ call[t].len \in Nat
  BY <1>2, CallFacts, LenProperties DEF Burst
<1>4. ASSUME curr_req[t] # curr_resp[t]
      PROVE  resp_PIPE # <<>> \/ ~rstn \/ EdgeMoves
  <2>1. Len(Answered) # 0 \/ Len(Waiting) # 0
    BY <1>2, <1>3, <1>4
  <2>2. Answered # <<>> \/ Waiting # <<>>
    BY <1>2, <2>1, EmptySeq
  <2>. QED  BY <2>2, NothingBlocks DEF IInv
<1>5. ASSUME curr_req[t] = curr_resp[t]
      PROVE  ~ReqFull
  <2>1. Len(Waiting) = 0
    BY <1>2, <1>3, <1>5
  <2>2. Waiting = <<>>
    BY <1>2, <2>1, EmptySeq
  <2>3. req_PIPE = <<>>
    <3>1. CASE queue2pins_down_valid
      <4>1. Waiting = <<queue2pins_down_data>> \o req_PIPE
        BY <3>1 DEF Waiting, OneIf
      <4>2. queue2pins_down_data \in Beat /\ req_PIPE \in Seq(Beat)
        BY DEF IInv, PipeInv, PipeTypeOK
      <4>3. <<queue2pins_down_data>> # <<>> /\ <<queue2pins_down_data>> \in Seq(Beat)
        BY <4>2
      <4>. QED  BY <2>2, <4>1, <4>2, <4>3, TailOfConcat
    <3>2. CASE ~queue2pins_down_valid
      BY <2>2, <3>2, EmptyConcat DEF Waiting, OneIf, IInv, PipeInv, PipeTypeOK
    <3>. QED  BY <3>1, <3>2
  <2>. QED  BY <2>3, QueueRoom DEF IInv
<1>6. pc[t] = "write" => curr_req[t] = curr_resp[t]
  BY <1>1 DEF PlaceInv
<1>7. pc[t] = "read" => curr_req[t] # curr_resp[t]
  BY <1>1, <1>2 DEF PlaceInv
<1>8. CASE curr_req[t] = curr_resp[t]
  <2>1. curr_req[t] < call[t].len
    BY <1>2, <1>3, <1>8
  <2>. QED  BY <1>5, <1>7, <1>8, <2>1
<1>9. CASE curr_req[t] # curr_resp[t]
  BY <1>4, <1>6, <1>9
<1>. QED  BY <1>8, <1>9

(* With any number of threads, any bursts and any depth of the queues no
   owner of the mutex is ever stuck. *)
THEOREM NoBurstGetsStuck == Spec => []BurstNeverStuck
BY OwnerMoves, Invariance, PTL

(* The work left in the pipeline, place by place. *)
InReq == 5 * Len(req_PIPE)
OnPins == IF queue2pins_down_valid THEN 4 ELSE 0
InBlock == IF down_valid_q /\ edges > 0 THEN 3 ELSE 0
InSkid == IF state = SKID THEN 2 ELSE 0
PipeTodo == InReq + OnPins + InBlock + InSkid + Len(resp_PIPE)

LEMMA Places ==
  ASSUME PipeInv
  PROVE  /\ InReq \in Nat /\ OnPins \in {0, 4} /\ InBlock \in {0, 3} /\ InSkid \in {0, 2}
         /\ Len(resp_PIPE) \in Nat /\ PipeTodo \in Nat
<1>1. InReq \in Nat /\ Len(resp_PIPE) \in Nat
  BY QueueRoom DEF InReq
<1>2. OnPins \in {0, 4} /\ InBlock \in {0, 3} /\ InSkid \in {0, 2}
  BY DEF OnPins, InBlock, InSkid
<1>. HIDE DEF InReq, OnPins, InBlock, InSkid
<1>3. PipeTodo \in Nat
  BY <1>1, <1>2 DEF PipeTodo
<1>. QED  BY <1>1, <1>2, <1>3

LEMMA ThreeParts ==
  ASSUME NEW x \in Nat, NEW y \in Nat, NEW z \in Nat,
         NEW u \in Nat, NEW v \in Nat, NEW w \in Nat, u <= x, v <= y, w <= z
  PROVE  /\ u + v + w <= x + y + z
         /\ u < x \/ v < y \/ w < z => u + v + w < x + y + z
OBVIOUS

LEMMA Sums == ASSUME NEW x \in Nat, NEW y \in Nat  PROVE x + y \in Nat
OBVIOUS

LEMMA OneLess == ASSUME NEW x \in Nat, NEW y \in Nat, x + 1 = y  PROVE x < y
OBVIOUS

LEMMA Regroup ==
  ASSUME NEW q \in Nat, NEW p \in Nat, NEW b \in Nat, NEW k \in Nat, NEW r \in Nat
  PROVE  /\ q + p + b + k + r = (q + p) + b + (k + r)
         /\ k = 0 => q + p + b + k + r = q + p + (b + r)
         /\ q + p \in Nat /\ k + r \in Nat /\ b + r \in Nat
OBVIOUS

LEMMA Summands ==
  ASSUME PipeInv, PipeInv'
  PROVE  /\ InReq \in Nat /\ OnPins \in Nat /\ InBlock \in Nat /\ InSkid \in Nat
         /\ Len(resp_PIPE) \in Nat
         /\ InReq' \in Nat /\ OnPins' \in Nat /\ InBlock' \in Nat /\ InSkid' \in Nat
         /\ Len(resp_PIPE') \in Nat
         /\ PipeTodo = InReq + OnPins + InBlock + InSkid + Len(resp_PIPE)
         /\ PipeTodo' = InReq' + OnPins' + InBlock' + InSkid' + Len(resp_PIPE')
<1>1. /\ OnPins \in Nat /\ InBlock \in Nat /\ InSkid \in Nat
      /\ OnPins' \in Nat /\ InBlock' \in Nat /\ InSkid' \in Nat
  BY DEF OnPins, InBlock, InSkid
<1>2. /\ InReq \in Nat /\ Len(resp_PIPE) \in Nat
      /\ InReq' \in Nat /\ Len(resp_PIPE') \in Nat
  BY LenProperties DEF PipeInv, PipeTypeOK, InReq
<1>. QED  BY <1>1, <1>2 DEF PipeTodo

(* While in reset the requests wait and there is nothing else. *)
LEMMA ResetIdles ==
  ASSUME PipeInv, ~rstn, ClockEdge
  PROVE  PipeTodo' = PipeTodo
<1>1. InReq' = InReq /\ OnPins' = OnPins
  BY DEF ClockEdge, Queue2Pins, PipeInv, ResetInv, InReq, OnPins
<1>2. InSkid' = InSkid /\ Len(resp_PIPE)' = Len(resp_PIPE)
  BY DEF ClockEdge, Pins2Queue, PipeInv, ResetInv, InSkid
<1>3. InBlock' = InBlock
  BY DEF ClockEdge, IoBlock, PipeInv, ResetInv, InBlock
<1>. QED  BY <1>1, <1>2, <1>3 DEF PipeTodo

(* The register in front of io_block is loaded from the queue. *)
LEMMA LoadsPins ==
  ASSUME PipeInv, rstn, PinsFree, ClockEdge
  PROVE  /\ req_PIPE = <<>> => InReq' + OnPins' = InReq
         /\ req_PIPE # <<>> => InReq' + OnPins' = InReq - 1
<1>1. ASSUME req_PIPE = <<>>  PROVE InReq' + OnPins' = InReq
  <2>1. ~queue2pins_down_valid' /\ req_PIPE' = req_PIPE
    BY <1>1 DEF ClockEdge, Queue2Pins
  <2>2. InReq' = InReq /\ OnPins' = 0
    BY <2>1 DEF InReq, OnPins
  <2>. QED  BY <2>2, Places
<1>2. ASSUME req_PIPE # <<>>  PROVE InReq' + OnPins' = InReq - 1
  <2>1. queue2pins_down_valid' = TRUE /\ req_PIPE' = Tail(req_PIPE)
    BY <1>2 DEF ClockEdge, Queue2Pins
  <2>2. Len(req_PIPE') = Len(req_PIPE) - 1 /\ Len(req_PIPE) \in Nat
    BY <1>2, <2>1, HeadTailProperties, LenProperties DEF PipeInv, PipeTypeOK
  <2>3. InReq' = 5 * (Len(req_PIPE) - 1) /\ OnPins' = 4
    BY <2>1, <2>2 DEF InReq, OnPins
  <2>. QED  BY <2>2, <2>3 DEF InReq
<1>. QED  BY <1>1, <1>2

(* Ready: what io_block holds becomes an answer or goes to the skid register,
   and the beat on the pins takes its place. *)
LEMMA ReadyMoves ==
  ASSUME PipeInv, rstn, pins2queue_up_ready, ClockEdge
  PROVE  /\ PipeTodo' <= PipeTodo
         /\ EdgeMoves => PipeTodo' < PipeTodo
<1>1. state = BYPASS /\ state # SKID /\ edges > 0 /\ edges' > 0 /\ PinsFree
  BY PipeAssumption
  DEF PipeInv, PipeTypeOK, SkidInv, ResetInv, ClockEdge, BYPASS, SKID, PinsFree
<1>2. /\ req_PIPE = <<>> => InReq' + OnPins' = InReq
      /\ req_PIPE # <<>> => InReq' + OnPins' = InReq - 1
  BY <1>1, LoadsPins
<1>3. OnPins = 4 <=> InBlock' = 3
  <2>1. down_valid_q' = queue2pins_down_valid
    BY DEF ClockEdge, IoBlock
  <2>. QED  BY <1>1, <2>1 DEF OnPins, InBlock
<1>4. /\ InBlock = 0 => InSkid' = 0 /\ Len(resp_PIPE') = Len(resp_PIPE)
      /\ InBlock = 3 => InSkid' + Len(resp_PIPE') <= Len(resp_PIPE) + 2
  <2>1. CASE ~down_valid_q
    <3>1. resp_PIPE' = resp_PIPE /\ state' # SKID
      BY <2>1, <1>1 DEF ClockEdge, Pins2Queue, Handshake, BYPASS, SKID
    <3>2. InBlock = 0
      BY <2>1 DEF InBlock
    <3>. QED  BY <3>1, <3>2 DEF InSkid
  <2>2. CASE down_valid_q
    <3>0. InBlock = 3
      BY <1>1, <2>2 DEF InBlock
    <3>1. CASE ~RespFull
      <4>1. resp_PIPE' = Append(resp_PIPE, down_data_q) /\ state' # SKID
        BY <2>2, <3>1, <1>1 DEF ClockEdge, Pins2Queue, Handshake, BYPASS, SKID
      <4>2. Len(resp_PIPE') = Len(resp_PIPE) + 1
        BY <4>1, AppendProperties DEF PipeInv, PipeTypeOK
      <4>3. InSkid' = 0 /\ Len(resp_PIPE) \in Nat
        BY <4>1, QueueRoom DEF InSkid
      <4>. QED  BY <3>0, <4>2, <4>3
    <3>2. CASE RespFull
      <4>1. resp_PIPE' = resp_PIPE /\ state' = SKID
        BY <2>2, <3>2, <1>1 DEF ClockEdge, Pins2Queue, Handshake, BYPASS, SKID
      <4>2. InSkid' = 2 /\ Len(resp_PIPE) \in Nat
        BY <4>1, QueueRoom DEF InSkid
      <4>. QED  BY <3>0, <4>1, <4>2
    <3>. QED  BY <3>1, <3>2
  <2>. QED  BY <2>1, <2>2
<1>5. EdgeMoves => OnPins = 4 \/ InBlock = 3 \/ req_PIPE # <<>>
  BY <1>1 DEF EdgeMoves, OnPins, InBlock
<1>6. PipeInv' /\ InSkid = 0
  BY <1>1, PipeInvStep DEF PipeNext, InSkid
<1>7. /\ InBlock' <= OnPins /\ (OnPins = 4 => InBlock' < OnPins)
      /\ InSkid' + Len(resp_PIPE') <= InBlock + Len(resp_PIPE)
      /\ InBlock = 3 => InSkid' + Len(resp_PIPE') < InBlock + Len(resp_PIPE)
      /\ InReq' + OnPins' <= InReq
      /\ req_PIPE # <<>> => InReq' + OnPins' < InReq
  <2>1. OnPins \in {0, 4} /\ InBlock \in {0, 3} /\ InBlock' \in {0, 3}
    BY DEF OnPins, InBlock
  <2>2. InReq \in Nat /\ Len(resp_PIPE) \in Nat /\ InSkid' \in Nat /\ Len(resp_PIPE') \in Nat
    BY <1>6, Summands
  <2>. HIDE DEF InReq, OnPins, InBlock, InSkid
  <2>3. InBlock' <= OnPins /\ (OnPins = 4 => InBlock' < OnPins)
    BY <1>3, <2>1
  <2>6. /\ InReq' + OnPins' <= InReq
        /\ req_PIPE # <<>> => InReq' + OnPins' < InReq
    <3>1. CASE req_PIPE = <<>>
      BY <1>2, <2>2, <3>1
    <3>2. CASE req_PIPE # <<>>
      BY <1>2, <2>2, <3>2
    <3>. QED  BY <3>1, <3>2
  <2>7. /\ InSkid' + Len(resp_PIPE') <= InBlock + Len(resp_PIPE)
        /\ InBlock = 3 => InSkid' + Len(resp_PIPE') < InBlock + Len(resp_PIPE)
    <3>1. CASE InBlock = 0
      BY <1>4, <2>2, <3>1
    <3>2. CASE InBlock = 3
      BY <1>4, <2>2, <3>2
    <3>. QED  BY <2>1, <3>1, <3>2
  <2>. QED  BY <2>3, <2>6, <2>7
<1>. HIDE DEF InReq, OnPins, InBlock, InSkid
<1>8. PipeTodo = InReq + OnPins + (InBlock + Len(resp_PIPE))
  BY <1>6, Summands, Regroup
<1>9. PipeTodo' = (InReq' + OnPins') + InBlock' + (InSkid' + Len(resp_PIPE'))
  BY <1>6, Summands, Regroup
<1>10. /\ InReq' + OnPins' \in Nat /\ InSkid' + Len(resp_PIPE') \in Nat
       /\ InBlock + Len(resp_PIPE) \in Nat /\ InReq \in Nat /\ OnPins \in Nat /\ InBlock' \in Nat
  <2>1. /\ InReq \in Nat /\ OnPins \in Nat /\ InBlock \in Nat /\ Len(resp_PIPE) \in Nat
        /\ InReq' \in Nat /\ OnPins' \in Nat /\ InBlock' \in Nat /\ InSkid' \in Nat
        /\ Len(resp_PIPE') \in Nat
    BY <1>6, Summands
  <2>. QED  BY <2>1, Sums
<1>. QED  BY <1>5, <1>7, <1>8, <1>9, <1>10, ThreeParts

(* Not ready: the skid register empties if there is room, and only an empty
   register in front of io_block is loaded. *)
LEMMA SkidMoves ==
  ASSUME PipeInv, rstn, ~pins2queue_up_ready, ClockEdge
  PROVE  /\ PipeTodo' <= PipeTodo
         /\ EdgeMoves => PipeTodo' < PipeTodo
<1>1. state = SKID /\ edges > 0 /\ edges' = edges
  BY PipeAssumption DEF PipeInv, SkidInv, ResetInv, ClockEdge
<1>2. InBlock' = InBlock
  <2>1. down_valid_q' = down_valid_q
    BY DEF ClockEdge, IoBlock
  <2>. QED  BY <1>1, <2>1 DEF InBlock
<1>3. /\ InReq' + OnPins' <= InReq + OnPins
      /\ PinsFree /\ req_PIPE # <<>> => InReq' + OnPins' < InReq + OnPins
  <2>1. CASE queue2pins_down_valid
    <3>1. /\ queue2pins_down_valid' = queue2pins_down_valid /\ req_PIPE' = req_PIPE
          /\ ~PinsFree
      BY <2>1 DEF ClockEdge, Queue2Pins, PinsFree
    <3>2. InReq' = InReq /\ OnPins' = OnPins
      BY <3>1 DEF InReq, OnPins
    <3>. HIDE DEF InReq, OnPins
    <3>. QED  BY <3>1, <3>2, Places
  <2>2. CASE ~queue2pins_down_valid
    <3>1. PinsFree /\ OnPins = 0
      BY <2>2 DEF PinsFree, OnPins
    <3>2. /\ req_PIPE = <<>> => InReq' + OnPins' = InReq
          /\ req_PIPE # <<>> => InReq' + OnPins' = InReq - 1
      BY <3>1, LoadsPins
    <3>. HIDE DEF InReq, OnPins
    <3>. QED  BY <3>1, <3>2, Places
  <2>. QED  BY <2>1, <2>2
<1>4. /\ RespFull => InSkid' = InSkid /\ Len(resp_PIPE') = Len(resp_PIPE)
      /\ ~RespFull => InSkid' = 0 /\ InSkid = 2 /\ Len(resp_PIPE') = Len(resp_PIPE) + 1
  <2>1. ASSUME RespFull  PROVE resp_PIPE' = resp_PIPE /\ state' = state
    BY <2>1, <1>1 DEF ClockEdge, Pins2Queue, BYPASS, SKID
  <2>2. ASSUME ~RespFull  PROVE resp_PIPE' = Append(resp_PIPE, REG) /\ state' # SKID
    BY <2>2, <1>1 DEF ClockEdge, Pins2Queue, BYPASS, SKID
  <2>3. Len(Append(resp_PIPE, REG)) = Len(resp_PIPE) + 1
    BY AppendProperties DEF PipeInv, PipeTypeOK
  <2>. QED  BY <1>1, <2>1, <2>2, <2>3 DEF InSkid
<1>5. EdgeMoves => ~RespFull \/ (PinsFree /\ req_PIPE # <<>>)
  BY DEF EdgeMoves
<1>6. PipeInv'
  BY PipeInvStep DEF PipeNext
<1>7. /\ InSkid' + Len(resp_PIPE') <= InSkid + Len(resp_PIPE)
      /\ ~RespFull => InSkid' + Len(resp_PIPE') < InSkid + Len(resp_PIPE)
  <2>1. InSkid \in Nat /\ Len(resp_PIPE) \in Nat
    BY <1>6, Summands
  <2>. HIDE DEF InSkid
  <2>2. CASE RespFull
    BY <1>4, <2>1, <2>2
  <2>3. CASE ~RespFull
    BY <1>4, <2>1, <2>3
  <2>. QED  BY <2>2, <2>3
<1>. HIDE DEF InReq, OnPins, InBlock, InSkid
<1>8. PipeTodo = (InReq + OnPins) + InBlock + (InSkid + Len(resp_PIPE))
  BY <1>6, Summands, Regroup
<1>9. PipeTodo' = (InReq' + OnPins') + InBlock' + (InSkid' + Len(resp_PIPE'))
  BY <1>6, Summands, Regroup
<1>10. /\ InReq + OnPins \in Nat /\ InSkid + Len(resp_PIPE) \in Nat /\ InBlock \in Nat
       /\ InReq' + OnPins' \in Nat /\ InSkid' + Len(resp_PIPE') \in Nat /\ InBlock' \in Nat
  <2>1. /\ InReq \in Nat /\ OnPins \in Nat /\ InBlock \in Nat /\ InSkid \in Nat
        /\ InReq' \in Nat /\ OnPins' \in Nat /\ InBlock' \in Nat /\ InSkid' \in Nat
        /\ Len(resp_PIPE) \in Nat /\ Len(resp_PIPE') \in Nat
    BY <1>6, Summands
  <2>. QED  BY <2>1, Sums
<1>11. InBlock' <= InBlock
  BY <1>2, <1>10
<1>. QED  BY <1>3, <1>5, <1>7, <1>8, <1>9, <1>10, <1>11, ThreeParts

LEMMA ClockWorks ==
  ASSUME PipeInv, ClockEdge \/ ResetOff
  PROVE  /\ PipeTodo' <= PipeTodo
         /\ rstn /\ EdgeMoves => PipeTodo' < PipeTodo
<1>1. PipeTodo \in Nat
  BY Places
<1>2. CASE ClockEdge /\ rstn /\ pins2queue_up_ready
  BY <1>2, ReadyMoves
<1>3. CASE ClockEdge /\ rstn /\ ~pins2queue_up_ready
  BY <1>3, SkidMoves
<1>4. CASE ClockEdge /\ ~rstn
  <2>1. PipeTodo' = PipeTodo
    BY <1>4, ResetIdles
  <2>. HIDE DEF PipeTodo
  <2>. QED  BY <1>1, <1>4, <2>1
<1>5. CASE ResetOff
  <2>1. PipeTodo' = PipeTodo /\ ~rstn
    BY <1>5 DEF ResetOff, PipeTodo, InReq, OnPins, InBlock, InSkid
  <2>. HIDE DEF PipeTodo
  <2>. QED  BY <1>1, <2>1
<1>. QED  BY <1>2, <1>3, <1>4, <1>5

LEMMA SendWorks ==
  ASSUME PipeInv, NEW b \in Beat, WriteReq(b)
  PROVE  PipeTodo' = PipeTodo + 5
<1>1. OnPins' = OnPins /\ InBlock' = InBlock /\ InSkid' = InSkid /\ resp_PIPE' = resp_PIPE
  BY DEF WriteReq, OnPins, InBlock, InSkid
<1>2. Len(req_PIPE') = Len(req_PIPE) + 1 /\ Len(req_PIPE) \in Nat
  BY AppendProperties, LenProperties DEF WriteReq, PipeInv, PipeTypeOK
<1>3. InReq' = InReq + 5
  BY <1>2 DEF InReq
<1>4. PipeTodo = InReq + OnPins + InBlock + InSkid + Len(resp_PIPE)
  BY DEF PipeTodo
<1>5. PipeTodo' = InReq + 5 + OnPins + InBlock + InSkid + Len(resp_PIPE)
  BY <1>1, <1>3 DEF PipeTodo
<1>6. /\ InReq \in Nat /\ OnPins \in {0, 4} /\ InBlock \in {0, 3} /\ InSkid \in {0, 2}
      /\ Len(resp_PIPE) \in Nat
  BY Places
<1>. HIDE DEF InReq, OnPins, InBlock, InSkid, PipeTodo
<1>. QED  BY <1>4, <1>5, <1>6

LEMMA TakeWorks ==
  ASSUME PipeInv, ReadResp
  PROVE  PipeTodo' + 1 = PipeTodo
<1>1. InReq' = InReq /\ OnPins' = OnPins /\ InBlock' = InBlock /\ InSkid' = InSkid
  BY DEF ReadResp, InReq, OnPins, InBlock, InSkid
<1>2. Len(resp_PIPE') + 1 = Len(resp_PIPE) /\ Len(resp_PIPE') \in Nat
  BY HeadTailProperties, LenProperties DEF ReadResp, PipeInv, PipeTypeOK
<1>3. PipeTodo = InReq + OnPins + InBlock + InSkid + Len(resp_PIPE)
  BY DEF PipeTodo
<1>4. PipeTodo' = InReq + OnPins + InBlock + InSkid + Len(resp_PIPE')
  BY <1>1 DEF PipeTodo
<1>5. InReq \in Nat /\ OnPins \in {0, 4} /\ InBlock \in {0, 3} /\ InSkid \in {0, 2}
  BY Places
<1>. HIDE DEF InReq, OnPins, InBlock, InSkid, PipeTodo
<1>. QED  BY <1>2, <1>3, <1>4, <1>5

LEMMA Reorder ==
  ASSUME NEW w \in Nat, NEW q \in Nat, NEW p \in Nat, NEW b \in Nat, NEW k \in Nat, NEW r \in Nat
  PROVE  w + q + r + p + b + k = w + (q + p + b + k + r)
OBVIOUS

(* Beats not pushed yet have six places to pass. *)
LEMMA TodoSum ==
  ASSUME PipeInv, NEW t \in Threads, call[t].len \in Nat, curr_req[t] \in Nat,
         curr_req[t] <= call[t].len
  PROVE  Todo(t) = 6 * (call[t].len - curr_req[t]) + PipeTodo
<1>. DEFINE w == 6 * (call[t].len - curr_req[t])
<1>1. Todo(t) = w + InReq + Len(resp_PIPE) + OnPins + InBlock + InSkid
  BY DEF Todo, InReq, OnPins, InBlock, InSkid
<1>2. w \in Nat
  BY DEF w
<1>3. InReq \in Nat /\ OnPins \in Nat /\ InBlock \in Nat /\ InSkid \in Nat /\ Len(resp_PIPE) \in Nat
  BY Places
<1>. HIDE DEF w, InReq, OnPins, InBlock, InSkid
<1>4. PipeTodo = InReq + OnPins + InBlock + InSkid + Len(resp_PIPE)
  BY DEF PipeTodo
<1>. QED  BY <1>1, <1>2, <1>3, <1>4, Reorder DEF w

LEMMA WorkLeft ==
  ASSUME NEW n \in Nat, NEW q \in Nat, NEW p \in Nat, NEW p2 \in Nat
  PROVE  /\ q < n /\ p2 = p + 5 => 6 * (n - (q + 1)) + p2 < 6 * (n - q) + p
         /\ p2 < p => 6 * (n - q) + p2 < 6 * (n - q) + p
         /\ p2 <= p => 6 * (n - q) + p2 <= 6 * (n - q) + p
OBVIOUS

(* The burst of the owner before and after a step that leaves it the mutex. *)
LEMMA OwnBurst ==
  ASSUME IInv, NEW t \in Threads, rtl_access = t
  PROVE  /\ pc[t] \in {"write", "read", "nb"} /\ call[t] \in Calls
         /\ call[t].len \in Nat /\ curr_req[t] \in Nat /\ curr_resp[t] \in Nat
         /\ curr_req[t] <= call[t].len /\ curr_resp[t] < call[t].len
         /\ PipeTodo \in Nat /\ Todo(t) \in Nat
         /\ Todo(t) = 6 * (call[t].len - curr_req[t]) + PipeTodo
<1>1. pc[t] \in {"write", "read", "nb"}
  BY DEF IInv, MutexInv, ThreadInv, PlaceInv
<1>2. /\ call[t] \in Calls /\ curr_req[t] \in Nat /\ curr_resp[t] \in Nat
      /\ curr_req[t] <= call[t].len /\ curr_resp[t] < call[t].len
  BY <1>1, RunningBurst DEF Burst
<1>3. call[t].len \in Nat
  BY <1>2, CallFacts
<1>4. PipeTodo \in Nat
  BY Places DEF IInv
<1>5. Todo(t) = 6 * (call[t].len - curr_req[t]) + PipeTodo
  BY <1>2, <1>3, TodoSum DEF IInv
<1>. HIDE DEF Todo, PipeTodo
<1>6. Todo(t) \in Nat
  BY <1>2, <1>3, <1>4, <1>5
<1>. QED  BY <1>1, <1>2, <1>3, <1>4, <1>5, <1>6

(* The same after the step; the transaction has not changed. *)
LEMMA OwnBurstPrimed ==
  ASSUME IInv', NEW t \in Threads, rtl_access' = t
  PROVE  /\ PipeTodo' \in Nat /\ Todo(t)' \in Nat
         /\ Todo(t)' = 6 * (call'[t].len - curr_req'[t]) + PipeTodo'
<1>1. (IInv /\ rtl_access = t => PipeTodo \in Nat /\ Todo(t) \in Nat
         /\ Todo(t) = 6 * (call[t].len - curr_req[t]) + PipeTodo)'
  BY OwnBurst, PTL
<1>. QED  BY <1>1

(* The owner pushes a beat. *)
LEMMA SendAdvances ==
  ASSUME IInv, IInv', NEW t \in Threads, rtl_access = t, rtl_access' = t, call'[t] = call[t],
         NEW b \in Beat, WriteReq(b), curr_req[t] < call[t].len, curr_req'[t] = curr_req[t] + 1
  PROVE  Todo(t)' < Todo(t)
<1>1. PipeTodo' = PipeTodo + 5
  BY SendWorks DEF IInv
<1>2. /\ call[t].len \in Nat /\ curr_req[t] \in Nat
      /\ PipeTodo \in Nat /\ Todo(t) = 6 * (call[t].len - curr_req[t]) + PipeTodo
  BY OwnBurst
<1>3. PipeTodo' \in Nat /\ Todo(t)' = 6 * (call'[t].len - curr_req'[t]) + PipeTodo'
  BY OwnBurstPrimed
<1>. HIDE DEF Todo, PipeTodo
<1>. QED  BY <1>1, <1>2, <1>3, WorkLeft

(* No beat is pushed: what moves in the pipeline is all that counts. *)
LEMMA PipeAdvances ==
  ASSUME IInv, IInv', NEW t \in Threads, rtl_access = t, rtl_access' = t,
         call'[t] = call[t], curr_req'[t] = curr_req[t]
  PROVE  /\ PipeTodo' < PipeTodo => Todo(t)' < Todo(t)
         /\ PipeTodo' <= PipeTodo => Todo(t)' <= Todo(t)
<1>1. /\ call[t].len \in Nat /\ curr_req[t] \in Nat
      /\ PipeTodo \in Nat /\ Todo(t) = 6 * (call[t].len - curr_req[t]) + PipeTodo
  BY OwnBurst
<1>2. PipeTodo' \in Nat /\ Todo(t)' = 6 * (call'[t].len - curr_req'[t]) + PipeTodo'
  BY OwnBurstPrimed
<1>. HIDE DEF Todo, PipeTodo
<1>. QED  BY <1>1, <1>2, WorkLeft

(* A step that leaves the pipeline and the burst alone. *)
LEMMA IdleAdvances ==
  ASSUME IInv, IInv', NEW t \in Threads, rtl_access = t, rtl_access' = t,
         call'[t] = call[t], curr_req'[t] = curr_req[t], UNCHANGED pipeVars
  PROVE  Todo(t)' <= Todo(t)
<1>1. PipeTodo' = PipeTodo
  BY DEF pipeVars, PipeTodo, InReq, OnPins, InBlock, InSkid
<1>2. PipeTodo \in Nat
  BY OwnBurst
<1>. HIDE DEF Todo, PipeTodo
<1>. QED  BY <1>1, <1>2, PipeAdvances

LEMMA KernelAdvances ==
  ASSUME IInv, IInv', NEW t \in Threads, rtl_access = t, Kernel
  PROVE  /\ Todo(t)' <= Todo(t)
         /\ curr_req'[t] = curr_req[t] /\ curr_resp'[t] = curr_resp[t]
         /\ rstn /\ EdgeMoves => Todo(t)' < Todo(t)
<1>1. UNCHANGED <<rtl_access, call, curr_req, curr_resp>>
  BY DEF Kernel, threadVars
<1>2. PipeTodo' <= PipeTodo /\ (rstn /\ EdgeMoves => PipeTodo' < PipeTodo)
  BY ClockWorks DEF Kernel, IInv
<1>. HIDE DEF Todo, PipeTodo
<1>. QED  BY <1>1, <1>2, PipeAdvances

(* Other threads wait for the mutex, come or go. *)
LEMMA OthersAdvance ==
  ASSUME IInv, NEW t \in Threads, rtl_access = t, NEW u \in Threads, u # t,
         ThreadStep(u) \/ \E c \in Calls : Call(u, c)
  PROVE  /\ UNCHANGED pipeVars /\ call'[t] = call[t]
         /\ curr_req'[t] = curr_req[t] /\ curr_resp'[t] = curr_resp[t]
<1>1. pc[u] \notin {"write", "read", "nb"}
  BY DEF IInv, MutexInv, ThreadInv, PlaceInv
<1>2. CASE Begin(u) \/ Retry(u)
  BY <1>2 DEF Begin, Retry
<1>3. CASE Return(u)
  BY <1>3, ThreadTypes DEF Return
<1>4. ASSUME NEW c \in Calls, Call(u, c)
      PROVE  /\ UNCHANGED pipeVars /\ call'[t] = call[t]
             /\ curr_req'[t] = curr_req[t] /\ curr_resp'[t] = curr_resp[t]
  BY <1>4, ThreadTypes DEF Call
<1>5. ~WriteBeat(u) /\ ~ReadBeat(u) /\ ~NbRequest(u) /\ ~NbResponse(u)
  BY <1>1 DEF WriteBeat, ReadBeat, NbRequest, NbResponse
<1>. QED  BY <1>2, <1>3, <1>4, <1>5 DEF ThreadStep

(* The owner pushes, takes or finds the request queue full. *)
LEMMA OwnerAdvances ==
  ASSUME IInv, IInv', NEW t \in Threads, rtl_access = t, rtl_access' = t,
         ThreadStep(t) \/ \E c \in Calls : Call(t, c)
  PROVE  \/ Todo(t)' < Todo(t)
         \/ /\ Todo(t)' <= Todo(t)
            /\ curr_req'[t] = curr_req[t] /\ curr_resp'[t] = curr_resp[t]
<1>1. /\ pc[t] \in {"write", "read", "nb"} /\ curr_req[t] \in Nat
      /\ curr_req[t] <= call[t].len /\ curr_resp[t] < call[t].len
      /\ call[t].len \in Nat /\ curr_resp[t] \in Nat
  BY OwnBurst
<1>2. ~Begin(t) /\ ~Retry(t) /\ ~Return(t) /\ \A c \in Calls : ~Call(t, c)
  BY <1>1 DEF Begin, Retry, Return, Call
<1>3. CASE WriteBeat(t)
  <2>1. WriteReq(BeatOf(t, curr_req[t])) /\ call' = call /\ curr_req'[t] = curr_req[t] + 1
    BY <1>3, ThreadTypes DEF WriteBeat
  <2>2. curr_req[t] < call[t].len
    BY <1>1, <1>3 DEF WriteBeat, IInv, MutexInv, ThreadInv, PlaceInv
  <2>3. BeatOf(t, curr_req[t]) \in Beat
    BY <1>1, <2>2, OwnBeat
  <2>. QED  BY <2>1, <2>2, <2>3, SendAdvances
<1>4. CASE NbRequest(t)
  <2>1. curr_req[t] < call[t].len /\ call' = call /\ curr_resp' = curr_resp
    BY <1>4 DEF NbRequest
  <2>. DEFINE vec == IF req_vec[t] = NoBeat THEN BeatOf(t, curr_req[t]) ELSE req_vec[t]
  <2>2. vec \in Beat
    BY <1>1, <2>1, OwnBeat, ThreadTypes
  <2>3. \/ WriteReq(vec) /\ curr_req' = [curr_req EXCEPT ![t] = @ + 1]
        \/ UNCHANGED <<pipeVars, curr_req>>
    BY <1>4 DEF NbRequest
  <2>. HIDE DEF vec
  <2>4. CASE WriteReq(vec) /\ curr_req' = [curr_req EXCEPT ![t] = @ + 1]
    <3>1. curr_req'[t] = curr_req[t] + 1
      BY <2>4, ThreadTypes
    <3>. QED  BY <2>1, <2>2, <2>4, <3>1, SendAdvances
  <2>5. CASE UNCHANGED <<pipeVars, curr_req>>
    BY <2>1, <2>5, IdleAdvances
  <2>. QED  BY <2>3, <2>4, <2>5
<1>5. CASE ReadBeat(t) \/ NbResponse(t)
  <2>1. ReadResp /\ call' = call /\ curr_req' = curr_req
    BY <1>5 DEF ReadBeat, NbResponse, TakeResp
  <2>2. PipeTodo' + 1 = PipeTodo
    BY <2>1, TakeWorks DEF IInv
  <2>3. PipeTodo' \in Nat /\ PipeTodo \in Nat
    BY OwnBurst, OwnBurstPrimed
  <2>. HIDE DEF PipeTodo
  <2>4. PipeTodo' < PipeTodo
    BY <2>2, <2>3, OneLess
  <2>. QED  BY <2>1, <2>4, PipeAdvances
<1>. QED  BY <1>2, <1>3, <1>4, <1>5 DEF ThreadStep

LEMMA StepAdvances ==
  ASSUME IInv, IInv', [Next]_vars, NEW t \in Threads, rtl_access = t, rtl_access' = t
  PROVE  /\ Todo(t)' <= Todo(t)
         /\ \/ curr_req'[t] # curr_req[t] \/ curr_resp'[t] # curr_resp[t]
            \/ Kernel /\ rstn /\ EdgeMoves
            => Todo(t)' < Todo(t)
<1>. HIDE DEF Todo
<1>1. CASE Kernel
  BY <1>1, KernelAdvances
<1>2. CASE ~Kernel
  <2>1. \/ Todo(t)' < Todo(t)
        \/ /\ Todo(t)' <= Todo(t)
           /\ curr_req'[t] = curr_req[t] /\ curr_resp'[t] = curr_resp[t]
    <3>1. ASSUME NEW u \in Threads, u # t, ThreadStep(u) \/ \E c \in Calls : Call(u, c)
          PROVE  /\ Todo(t)' <= Todo(t)
                 /\ curr_req'[t] = curr_req[t] /\ curr_resp'[t] = curr_resp[t]
      BY <3>1, OthersAdvance, IdleAdvances
    <3>2. CASE ThreadStep(t) \/ \E c \in Calls : Call(t, c)
      BY <3>2, OwnerAdvances
    <3>3. CASE UNCHANGED vars
      <4>1. UNCHANGED <<pipeVars, call, curr_req, curr_resp>>
        BY <3>3 DEF vars, threadVars
      <4>. QED  BY <4>1, IdleAdvances
    <3>. QED  BY <1>2, <3>1, <3>2, <3>3 DEF Next
  <2>2. Todo(t) \in Nat /\ Todo(t)' \in Nat
    BY OwnBurst, OwnBurstPrimed
  <2>. QED  BY <1>2, <2>1, <2>2
<1>. QED  BY <1>1, <1>2

(* Every request accepted, answer taken and clock edge that moves a beat
   brings the burst of the owner nearer its end, and nothing sets it back:
   for any threads, bursts and queues a burst of n beats ends after at most
   6 * n of them. *)
THEOREM BurstsAdvance == Spec => BurstAdvances
<1>1. IInv /\ IInv' /\ [Next]_vars =>
        [\A t \in Threads : rtl_access = t /\ rtl_access' = t =>
           /\ Todo(t)' <= Todo(t)
           /\ \/ curr_req'[t] # curr_req[t] \/ curr_resp'[t] # curr_resp[t]
              \/ Kernel /\ rstn /\ EdgeMoves
              => Todo(t)' < Todo(t)]_vars
  BY StepAdvances
<1>. QED  BY <1>1, Invariance, PTL DEF Spec, BurstAdvances
=============================================================================
