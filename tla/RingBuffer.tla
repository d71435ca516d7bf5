------------------------------- MODULE RingBuffer ------------------------------
(***************************************************************************)
(* src/vivipi/core/ring_buffer.py: an array of fixed size, the place of    *)
(* the next item and the number of items held.                             *)
(***************************************************************************)
EXTENDS Integers, Sequences

CONSTANT None   \* Python's None

NewRing(capacity) ==
  [capacity |-> capacity, items |-> [i \in 0 .. capacity - 1 |-> None], next |-> 0, count |-> 0]

(* append. *)
RingAppend(r, item) ==
  [r EXCEPT !.items[r.next] = item,
            !.next = (r.next + 1) % r.capacity,
            !.count = IF r.count < r.capacity THEN r.count + 1 ELSE r.count]

(* items(limit), the newest last. *)
RingItems(r, limit) ==
  LET count == IF limit < r.count THEN limit ELSE r.count
      start == (r.next - count) % r.capacity
  IN  [i \in 1 .. count |-> r.items[(start + i - 1) % r.capacity]]

AllItems(r) == RingItems(r, r.count)

IsRing(r, capacity, Items) ==
  /\ r.capacity = capacity /\ r.items \in [0 .. capacity - 1 -> Items \cup {None}]
  /\ r.next \in 0 .. capacity - 1 /\ r.count \in 0 .. capacity
=============================================================================
