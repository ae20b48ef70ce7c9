--------------------------------- MODULE Ring ---------------------------------
(***************************************************************************)
(* The fixed-size circular array that carries work between threads in      *)
(* Dakty: the socket queue of threadpool.c (client_sockets, head, tail,    *)
(* count) and, with the same four statements, the user write queue of      *)
(* persistence.c (user_queue, uq_head, uq_tail, uq_count).  A ring is a    *)
(* record of those four fields; n is the length of its array.              *)
(***************************************************************************)
EXTENDS Integers, Sequences

Index(n) == 0 .. n - 1

\* The C arrays are static: every slot starts as `blank`, which no caller enqueues.
EmptyRing(n, blank) ==
  [slots |-> [i \in Index(n) |-> blank], head |-> 0, tail |-> 0, count |-> 0]

IsFull_OneTooMany(r, n) == r.count > n

IsFull(r, n) == r.count = n

Following_PastTheEnd(i, n) == IF i = n THEN 0 ELSE i + 1

Following(i, n) == (i + 1) % n

Enqueue(r, n, x) ==
  [slots |-> [r.slots EXCEPT ![r.tail] = x],
   head  |-> r.head,
   tail  |-> Following(r.tail, n),
   count |-> r.count + 1]

Front(r) == r.slots[r.head]

Dequeue(r, n) ==
  [slots |-> r.slots,
   head  |-> Following(r.head, n),
   tail  |-> r.tail,
   count |-> r.count - 1]

-------------------------------------------------------------------------------
\* The slot of the k-th waiting item, counted from 1, and the waiting items
\* from the oldest to the newest.
SlotOf(r, n, k) == (r.head + k - 1) % n

Contents(r, n) == [k \in 1 .. r.count |-> r.slots[SlotOf(r, n, k)]]

RingType(n, S) ==
  [slots : [Index(n) -> S], head : Index(n), tail : Index(n), count : 0 .. n]

\* What keeps the four fields consistent: tail is count places after head and
\* every slot between them holds an item of S.
SoundRing(r, n, S, blank) ==
  /\ r \in RingType(n, S \cup {blank})
  /\ r.tail = (r.head + r.count) % n
  /\ \A k \in 1 .. r.count : r.slots[SlotOf(r, n, k)] \in S
===============================================================================
