---------------------------- MODULE BoundedFifo ----------------------------
(* What Utils_que promises its callers: a bounded first-in first-out buffer *)
(* of opaque pointers, changed by one indivisible put, get or reset at a    *)
(* time.  Blocking, timeouts and unblocking are not visible here: a call    *)
(* that fails or waits leaves the buffer and every caller's result alone.   *)
EXTENDS Naturals, Sequences

CONSTANTS
  Tasks,        \* the tasks that call the queue
  Data,         \* the pointers they pass through it
  MaxElements,  \* capacity
  NoData        \* content of a result nobody has written yet

VARIABLES
  fifo,         \* elements in the buffer, oldest first
  got           \* got[t]: last element delivered to task t

vars == <<fifo, got>>

Init == /\ fifo = <<>>
        /\ got = [t \in Tasks |-> NoData]

Put(d) == /\ Len(fifo) < MaxElements
          /\ fifo' = Append(fifo, d)
          /\ UNCHANGED got

Get(t) == /\ fifo # <<>>
          /\ got' = [got EXCEPT ![t] = Head(fifo)]
          /\ fifo' = Tail(fifo)

Reset == /\ fifo' = <<>>
         /\ UNCHANGED got

Next == \/ \E d \in Data : Put(d)
        \/ \E t \in Tasks : Get(t)
        \/ Reset

Spec == Init /\ [][Next]_vars
=============================================================================
