----------------------------- MODULE AtomicMem ------------------------------
(***************************************************************************)
(* What a TLM memory target promises to the initiators that share it: every*)
(* transaction, a burst of any length included, takes effect at one point  *)
(* between its call and its return.  A read returns the bytes of its own   *)
(* addresses, a write stores to its own addresses, and one that leaves the *)
(* addresses it may read or write is refused without effect.               *)
(***************************************************************************)
EXTENDS Beats

CONSTANTS
  Threads,   \* initiators
  Calls,     \* transactions they may send
  Readable,  \* addresses that can be read
  Writable   \* addresses that can be written

OK == "OK"
ERROR == "ERROR"

Bytes(c) == 0 .. c.len - 1
Span(c) == c.addr .. c.addr + c.len - 1
Fits(c) == Span(c) \subseteq (IF c.cmd = READ THEN Readable ELSE Writable)

VARIABLES
  mem,     \* the bytes stored
  client   \* for each initiator: idle, called or done, with the transaction

mvars == <<mem, client>>

Idle == [phase |-> "idle"]
Called(c) == [phase |-> "called", call |-> c]
Done(c, st, d) == [phase |-> "done", call |-> c, status |-> st, data |-> d]

Init ==
  /\ mem \in [Readable -> Byte]
  /\ client = [t \in Threads |-> Idle]

Invoke(t, c) ==
  /\ client[t] = Idle
  /\ client' = [client EXCEPT ![t] = Called(c)]
  /\ UNCHANGED mem

Refuse(t, c) ==
  /\ client[t] = Called(c)
  /\ ~Fits(c)
  /\ client' = [client EXCEPT ![t] = Done(c, ERROR, c.data)]
  /\ UNCHANGED mem

Read(t, c) ==
  /\ client[t] = Called(c)
  /\ Fits(c) /\ c.cmd = READ
  /\ client' = [client EXCEPT
                  ![t] = Done(c, OK, [i \in Bytes(c) |-> mem[c.addr + i]])]
  /\ UNCHANGED mem

Write(t, c) ==
  /\ client[t] = Called(c)
  /\ Fits(c) /\ c.cmd = WRITE
  /\ mem' = [a \in Readable |-> IF a \in Span(c) THEN c.data[a - c.addr] ELSE mem[a]]
  /\ client' = [client EXCEPT ![t] = Done(c, OK, c.data)]

Return(t) ==
  /\ client[t].phase = "done"
  /\ client' = [client EXCEPT ![t] = Idle]
  /\ UNCHANGED mem

Next == \E t \in Threads :
  \/ Return(t)
  \/ \E c \in Calls : Invoke(t, c) \/ Refuse(t, c) \/ Read(t, c) \/ Write(t, c)

Spec == Init /\ [][Next]_mvars
=============================================================================
