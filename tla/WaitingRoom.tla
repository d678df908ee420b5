---------------------------- MODULE WaitingRoom ----------------------------
(***************************************************************************)
(* The waiting-room entity (domain/entities/waiting_room.go): a FIFO queue *)
(* of user ids under a nominal capacity.  An entity is a value that one    *)
(* request loads, changes and saves, so its methods are operators from     *)
(* queues to queues; ID and TTL never change and are left out, and so is   *)
(* Dequeue, which nothing calls.                                           *)
(***************************************************************************)
EXTENDS Integers, Sequences

SeqExt == INSTANCE SequencesExt

\* A fresh room has an empty queue.
NewWaitingRoom == <<>>

Enqueue(queue, user) == Append(queue, user)

\* At most limit users from the front, the queue itself untouched.
Peek(queue, limit) == SubSeq(queue, 1, IF limit > Len(queue) THEN Len(queue) ELSE limit)

\* Only the first occurrence goes.  (Mutant: nobody does.)
RemoveNobody(queue, user) == queue

Remove(queue, user) == SeqExt!RemoveFirst(queue, user)

\* A capacity of 0 or less means "no limit".
HasCapacity(queue, capacity) == capacity <= 0 \/ Len(queue) < capacity

\* (Mutant of EnsureQueued: who is queued again goes to the back.)
MoveToBack(queue, user) == Enqueue(Remove(queue, user), user)

\* ensureQueued of the use case: a user already in the queue keeps his place.
EnsureQueued(queue, user) ==
    IF SeqExt!Contains(queue, user) THEN queue ELSE Enqueue(queue, user)

\* No user stands in the queue twice.
NoDuplicates(queue) ==
    \A i, j \in 1..Len(queue) : queue[i] = queue[j] => i = j

Members(queue) == {queue[i] : i \in 1..Len(queue)}
=============================================================================
