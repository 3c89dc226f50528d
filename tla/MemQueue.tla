------------------------------ MODULE MemQueue ------------------------------
(***************************************************************************)
(* What the pin-level memory pipeline of memrtl promises to the code that  *)
(* feeds it: a byte memory behind two queues.  Requests are executed one   *)
(* at a time, in the order they were sent, each exactly once; responses    *)
(* come back in the same order.  Both queues are bounded, so a consumer    *)
(* that stops reading stops the producer after finitely many beats.        *)
(***************************************************************************)
EXTENDS Beats, Sequences

CONSTANTS
  RequestCap,   \* how many requests may wait
  ResponseCap   \* how many responses may wait

VARIABLES
  mem,     \* the bytes stored
  reqs,    \* beats accepted and not yet executed, oldest first
  resps    \* beats executed and not yet taken back, oldest first

qvars == <<mem, reqs, resps>>

(* The answer to a beat: a write is echoed, a read carries the stored byte. *)
Answer(m, b) == IF b.op = WRITE THEN b ELSE [b EXCEPT !.data = m[b.addr]]

(* The memory after a beat. *)
Store(m, b) == IF b.op = WRITE THEN [m EXCEPT ![b.addr] = b.data] ELSE m

Init ==
  /\ mem \in [Addr -> Byte]
  /\ reqs = <<>>
  /\ resps = <<>>

Request(b) ==
  /\ Len(reqs) < RequestCap
  /\ reqs' = Append(reqs, b)
  /\ UNCHANGED <<mem, resps>>

Execute ==
  /\ reqs # <<>>
  /\ Len(resps) < ResponseCap
  /\ mem' = Store(mem, Head(reqs))
  /\ resps' = Append(resps, Answer(mem, Head(reqs)))
  /\ reqs' = Tail(reqs)

Respond ==
  /\ resps # <<>>
  /\ resps' = Tail(resps)
  /\ UNCHANGED <<mem, reqs>>

Next == (\E b \in Beat : Request(b)) \/ Execute \/ Respond

Spec == Init /\ [][Next]_qvars
=============================================================================
