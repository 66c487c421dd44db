------------------------------ MODULE Delivery ------------------------------
(***************************************************************************)
(* What the outbox of the relay promises, without files, drains or         *)
(* policies: an entry enters the queue with a position and an owner, the   *)
(* oldest entry of an owner is the one that may be delivered first, and an *)
(* entry leaves the queue only once delivered, or discarded on record.     *)
(* Delivery may repeat: it is at least once.                               *)
(***************************************************************************)
EXTENDS Integers

CONSTANTS Owners, Serials

VARIABLES queued, delivered, discarded
vars == <<queued, delivered, discarded>>

Entries == [serial : Serials, owner : Owners]
Known == queued \cup delivered \cup discarded

Init == queued = {} /\ delivered = {} /\ discarded = {}

\* A new entry is younger than every entry before it.
Enqueue(e) ==
  /\ \A k \in Known : k.serial < e.serial
  /\ queued' = queued \cup {e}
  /\ UNCHANGED <<delivered, discarded>>

\* First delivery: the oldest queued entry of its owner.
Deliver(e) ==
  /\ e \in queued
  /\ \A k \in queued : k.owner = e.owner => e.serial <= k.serial
  /\ delivered' = delivered \cup {e}
  /\ UNCHANGED <<queued, discarded>>

\* An attempt made earlier arrives after the entry was discarded.
DeliverLate(e) ==
  /\ e \in discarded
  /\ delivered' = delivered \cup {e}
  /\ UNCHANGED <<queued, discarded>>

\* A delivered entry leaves the queue.
Leave(e) ==
  /\ e \in queued \cap delivered
  /\ queued' = queued \ {e}
  /\ UNCHANGED <<delivered, discarded>>

\* Entries are discarded on record.
Discard(S) ==
  /\ S # {} /\ S \subseteq queued
  /\ queued' = queued \ S
  /\ discarded' = discarded \cup S
  /\ UNCHANGED delivered

Next ==
  \/ \E e \in Entries : Enqueue(e)
  \/ \E e \in queued : Deliver(e) \/ Leave(e)
  \/ \E e \in discarded : DeliverLate(e)
  \/ \E S \in SUBSET queued : Discard(S)

Spec == Init /\ [][Next]_vars
=============================================================================
