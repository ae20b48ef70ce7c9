------------------------------ MODULE RingProofs ------------------------------
(***************************************************************************)
(* What the ring's operators do to the items it holds, for every length n, *)
(* every set S of items and every blank.  ThreadPoolProofs and             *)
(* UserStoreProofs cite these lemmas and never look inside a ring.         *)
(***************************************************************************)
EXTENDS Ring, SequenceTheorems, TLAPS

(* Arithmetic of the indices: none reaches twice the length, so each % is at
   most one subtraction. *)

\* The slot of the k-th item, by cases on whether it lies past the wrap.
LEMMA SlotArith ==
  \A n \in Nat, h \in Nat, k \in Nat :
    n # 0 /\ h < n /\ k >= 1 /\ k <= n
      => (h + k - 1) % n = IF h + k - 1 < n THEN h + k - 1 ELSE h + k - 1 - n
OBVIOUS

\* Advancing tail by one keeps it count places after head.
LEMMA TailArith ==
  \A n \in Nat, h \in Nat, c \in Nat :
    n # 0 /\ h < n /\ c < n => (((h + c) % n) + 1) % n = (h + (c + 1)) % n
OBVIOUS

\* Advancing head by one leaves tail one place less after it.
LEMMA HeadArith ==
  \A n \in Nat, h \in Nat, c \in Nat :
    n # 0 /\ h < n /\ c >= 1 /\ c <= n
      => (((h + 1) % n) + (c - 1)) % n = (h + c) % n
OBVIOUS

\* After head advances, the k-th item is the one that was (k+1)-th.
LEMMA HeadSlotArith ==
  \A n \in Nat, h \in Nat, k \in Nat :
    n # 0 /\ h < n /\ k >= 1 /\ k < n
      => (((h + 1) % n) + k - 1) % n = (h + (k + 1) - 1) % n
OBVIOUS

(* Recognising Append and Tail by their elements. *)

\* A sequence that extends s by x is Append(s, x).
LEMMA IsAppend ==
  ASSUME NEW S, NEW s \in Seq(S), NEW x \in S, NEW q \in Seq(S),
         Len(q) = Len(s) + 1, q[Len(s) + 1] = x,
         \A k \in 1 .. Len(s) : q[k] = s[k]
  PROVE  q = Append(s, x)
BY AppendProperties, SeqEqual

\* A sequence that is s shifted by one is Tail(s).
LEMMA IsTail ==
  ASSUME NEW S, NEW s \in Seq(S), s # <<>>, NEW q \in Seq(S),
         Len(q) = Len(s) - 1,
         \A k \in 1 .. Len(q) : q[k] = s[k + 1]
  PROVE  q = Tail(s)
BY HeadTailProperties, SeqEqual

-------------------------------------------------------------------------------
\* The fields of a sound ring, the form in which the proofs below use it.
LEMMA Fields ==
  ASSUME NEW n \in Nat \ {0}, NEW S, NEW blank, NEW r,
         SoundRing(r, n, S, blank)
  PROVE  /\ r.slots \in [Index(n) -> S \cup {blank}]
         /\ r.head \in Nat /\ r.head < n
         /\ r.tail \in Index(n)
         /\ r.tail = (r.head + r.count) % n
         /\ r.count \in Nat /\ r.count <= n
         /\ \A k \in 1 .. r.count : r.slots[SlotOf(r, n, k)] \in S
BY DEF SoundRing, RingType, Index

\* Where the waiting items are.  Their slots are slots of the array, the first is
\* at head, and while there is room tail is none of them: writing at tail
\* overwrites nothing that waits.
LEMMA SlotsApart ==
  ASSUME NEW n \in Nat \ {0}, NEW S, NEW blank, NEW r,
         SoundRing(r, n, S, blank)
  PROVE  /\ \A k \in 1 .. r.count : SlotOf(r, n, k) \in Index(n)
         /\ r.count < n => /\ SlotOf(r, n, r.count + 1) = r.tail
                           /\ \A k \in 1 .. r.count : SlotOf(r, n, k) # r.tail
         /\ SlotOf(r, n, 1) = r.head
<1> DEFINE h == r.head
           c == r.count
<1>1. h \in Nat /\ h < n /\ c \in Nat /\ c <= n /\ r.tail = (h + c) % n
  BY Fields
<1>2. \A k \in Nat : SlotOf(r, n, k) = (h + k - 1) % n
  BY DEF SlotOf
<1> HIDE DEF h, c
<1>3. \A k \in 1 .. n :
        SlotOf(r, n, k) = IF h + k - 1 < n THEN h + k - 1 ELSE h + k - 1 - n
  BY <1>1, <1>2, SlotArith
<1>4. \A k \in 1 .. c : SlotOf(r, n, k) \in Index(n)
  BY <1>1, <1>3 DEF Index
<1>5. SlotOf(r, n, c + 1) = r.tail
  <2>1. h + (c + 1) - 1 = h + c
    BY <1>1
  <2>2. QED
    BY <1>1, <1>2, <2>1
<1>6. c < n => \A k \in 1 .. c : SlotOf(r, n, k) # SlotOf(r, n, c + 1)
  BY <1>1, <1>3
<1>7. SlotOf(r, n, 1) = h
  BY <1>1, <1>3
<1>8. QED
  BY <1>4, <1>5, <1>6, <1>7 DEF h, c

\* The array pool_init leaves is sound and holds nothing.
LEMMA EmptyIsSound ==
  ASSUME NEW n \in Nat \ {0}, NEW S, NEW blank
  PROVE  /\ SoundRing(EmptyRing(n, blank), n, S, blank)
         /\ Contents(EmptyRing(n, blank), n) = <<>>
<1>1. (0 + 0) % n = 0
  OBVIOUS
<1>2. QED
  BY <1>1 DEF SoundRing, RingType, EmptyRing, Index, Contents

\* The contents of a sound ring are a sequence of items as long as count says.
LEMMA ContentsType ==
  ASSUME NEW n \in Nat \ {0}, NEW S, NEW blank, NEW r,
         SoundRing(r, n, S, blank)
  PROVE  /\ Contents(r, n) \in Seq(S)
         /\ Len(Contents(r, n)) = r.count
<1>1. r.count \in Nat
  BY Fields
<1>2. \A k \in 1 .. r.count : Contents(r, n)[k] \in S
  BY Fields DEF Contents
<1>3. Contents(r, n) = [k \in 1 .. r.count |-> Contents(r, n)[k]]
  BY DEF Contents
<1>4. QED
  BY <1>1, <1>2, <1>3

\* Enqueue on a ring with room keeps it sound and appends the item.
LEMMA EnqueueAppends ==
  ASSUME NEW n \in Nat \ {0}, NEW S, NEW blank, NEW r,
         SoundRing(r, n, S, blank), ~IsFull(r, n), NEW x \in S
  PROVE  /\ SoundRing(Enqueue(r, n, x), n, S, blank)
         /\ Contents(Enqueue(r, n, x), n) = Append(Contents(r, n), x)
<1> DEFINE q == Enqueue(r, n, x)
<1>1. r.count \in Nat /\ r.count < n /\ r.tail \in Index(n)
  BY Fields DEF IsFull
<1>2. /\ q.slots = [r.slots EXCEPT ![r.tail] = x]
      /\ q.head = r.head
      /\ q.tail = (r.tail + 1) % n
      /\ q.count = r.count + 1
  BY DEF Enqueue, Following
<1>3. \A k \in 1 .. q.count : SlotOf(q, n, k) = SlotOf(r, n, k)
  BY <1>2 DEF SlotOf
<1>4. \A k \in 1 .. r.count : q.slots[SlotOf(q, n, k)] = r.slots[SlotOf(r, n, k)]
  <2> TAKE k \in 1 .. r.count
  <2>1. SlotOf(r, n, k) \in Index(n) /\ SlotOf(r, n, k) # r.tail
    BY <1>1, SlotsApart
  <2>2. SlotOf(q, n, k) = SlotOf(r, n, k)
    BY <1>1, <1>2, <1>3
  <2>3. QED
    BY <1>2, <2>1, <2>2, Fields
<1>5. q.slots[SlotOf(q, n, r.count + 1)] = x
  <2>1. SlotOf(q, n, r.count + 1) = r.tail
    BY <1>1, <1>2, <1>3, SlotsApart
  <2>2. QED
    BY <1>1, <1>2, <2>1, Fields
<1>6. q.tail = (q.head + q.count) % n
  <2>1. q.tail = (((r.head + r.count) % n) + 1) % n
    BY <1>2, Fields
  <2>2. r.head \in Nat /\ r.head < n
    BY Fields
  <2>3. (((r.head + r.count) % n) + 1) % n = (r.head + (r.count + 1)) % n
    BY <1>1, <2>2, TailArith
  <2>4. QED
    BY <1>2, <2>1, <2>3
<1>7. q \in RingType(n, S \cup {blank})
  <2>1. q.tail \in Index(n)
    BY <1>1, <1>2 DEF Index
  <2>2. q.slots \in [Index(n) -> S \cup {blank}]
    BY <1>2, Fields
  <2>3. q.head \in Index(n) /\ q.count \in 0 .. n
    BY <1>1, <1>2, Fields DEF Index
  <2>4. QED
    BY <2>1, <2>2, <2>3 DEF RingType, Enqueue
<1>8. SoundRing(q, n, S, blank)
  <2>1. \A k \in 1 .. q.count : q.slots[SlotOf(q, n, k)] \in S
    BY <1>1, <1>2, <1>4, <1>5, Fields
  <2>2. QED
    BY <1>6, <1>7, <2>1 DEF SoundRing
<1>9. Contents(q, n) = Append(Contents(r, n), x)
  <2>1. /\ Contents(r, n) \in Seq(S) /\ Len(Contents(r, n)) = r.count
        /\ Contents(q, n) \in Seq(S) /\ Len(Contents(q, n)) = r.count + 1
    BY <1>2, <1>8, ContentsType
  <2>2. Contents(q, n)[r.count + 1] = x
    BY <1>1, <1>2, <1>5 DEF Contents
  <2>3. \A k \in 1 .. r.count : Contents(q, n)[k] = Contents(r, n)[k]
    BY <1>1, <1>2, <1>4 DEF Contents
  <2>4. QED
    BY <2>1, <2>2, <2>3, IsAppend
<1>10. QED
  BY <1>8, <1>9

\* Dequeue on a ring that is not empty keeps it sound and removes the first of
\* its contents, which is what Front reads.
LEMMA DequeueIsTail ==
  ASSUME NEW n \in Nat \ {0}, NEW S, NEW blank, NEW r,
         SoundRing(r, n, S, blank), r.count > 0
  PROVE  /\ SoundRing(Dequeue(r, n), n, S, blank)
         /\ Front(r) \in S
         /\ Front(r) = Head(Contents(r, n))
         /\ Contents(Dequeue(r, n), n) = Tail(Contents(r, n))
<1> DEFINE q == Dequeue(r, n)
<1>1. r.head \in Nat /\ r.head < n /\ r.count \in Nat /\ r.count <= n
  BY Fields
<1>2. /\ q.slots = r.slots
      /\ q.head = (r.head + 1) % n
      /\ q.tail = r.tail
      /\ q.count = r.count - 1
  BY DEF Dequeue, Following
<1>3. \A k \in 1 .. q.count : SlotOf(q, n, k) = SlotOf(r, n, k + 1)
  <2> SUFFICES ASSUME NEW k \in 1 .. q.count
               PROVE  (((r.head + 1) % n) + k - 1) % n = (r.head + (k + 1) - 1) % n
    BY <1>2 DEF SlotOf
  <2>1. k \in Nat /\ k >= 1 /\ k < n
    BY <1>1, <1>2
  <2>2. QED
    BY <1>1, <2>1, HeadSlotArith
<1>4. q.tail = (q.head + q.count) % n
  BY <1>1, <1>2, Fields, HeadArith
<1>5. q \in RingType(n, S \cup {blank})
  <2>1. q.head \in Index(n)
    BY <1>1, <1>2 DEF Index
  <2>2. q.count \in 0 .. n
    BY <1>1, <1>2
  <2>3. q.slots \in [Index(n) -> S \cup {blank}] /\ q.tail \in Index(n)
    BY <1>2, Fields
  <2>4. QED
    BY <2>1, <2>2, <2>3 DEF RingType, Dequeue
<1>6. \A k \in 1 .. q.count : k + 1 \in 1 .. r.count
  BY <1>1, <1>2
<1>7. SoundRing(q, n, S, blank)
  <2>1. \A k \in 1 .. q.count : q.slots[SlotOf(q, n, k)] \in S
    BY <1>2, <1>3, <1>6, Fields
  <2>2. QED
    BY <1>4, <1>5, <2>1 DEF SoundRing
<1>8. /\ Contents(r, n) \in Seq(S) /\ Len(Contents(r, n)) = r.count
      /\ Contents(q, n) \in Seq(S) /\ Len(Contents(q, n)) = r.count - 1
      /\ Contents(r, n) # <<>>
  BY <1>2, <1>7, ContentsType
<1>9. Front(r) \in S /\ Front(r) = Head(Contents(r, n))
  <2>1. 1 \in 1 .. r.count
    BY <1>1
  <2>2. Contents(r, n)[1] = r.slots[r.head] /\ r.slots[r.head] \in S
    BY <2>1, SlotsApart, Fields DEF Contents
  <2>3. Head(Contents(r, n)) = Contents(r, n)[1]
    BY <1>8
  <2>4. QED
    BY <2>2, <2>3 DEF Front
<1>10. Contents(q, n) = Tail(Contents(r, n))
  <2>1. \A k \in 1 .. q.count : Contents(q, n)[k] = Contents(r, n)[k + 1]
    BY <1>2, <1>3, <1>6 DEF Contents
  <2>2. QED
    BY <1>2, <1>8, <2>1, IsTail
<1>11. QED
  BY <1>7, <1>9, <1>10
===============================================================================
