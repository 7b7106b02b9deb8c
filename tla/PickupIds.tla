------------------------------ MODULE PickupIds -----------------------------
(***************************************************************************)
(* enumerateAndAssignIds() of Game/Pickups.cpp: how a peer gives ids to    *)
(* the pickups it finds.  A pickup has the cell it lies in and a slot, 1   *)
(* for the last cheese; both go into the hash.  The found list is sorted   *)
(* by cell and slot, and ids are taken in that order with the walk of      *)
(* CheeseIds.  Several pickups may lie in one cell.                        *)
(***************************************************************************)
EXTENDS CheeseIds, Sequences, Functions

CONSTANT Pickups  \* the actors

ASSUME PickupsAssumption ==
  IsFiniteSet(Pickups) /\ Cardinality(Pickups) <= IdSpace

Tagged(a, slot) == [actor |-> a, slot |-> slot]

\* Mutation: an actor that both queries return is listed twice.
Collect_Twice(list, a, slot) == Append(list, Tagged(a, slot))

\* An actor is listed once; one that is listed already gets the new slot.
Collect(list, a, slot) ==
  IF \E i \in DOMAIN list : list[i].actor = a
  THEN [i \in DOMAIN list |-> IF list[i].actor = a THEN Tagged(a, slot) ELSE list[i]]
  ELSE Append(list, Tagged(a, slot))

\* The loop of collect over the actors that FindAllOf returns.
CollectAll(list, actors, slot) ==
  LET After[n \in 0 .. Len(actors)] ==
        IF n = 0 THEN list ELSE Collect(After[n - 1], actors[n], slot)
  IN After[Len(actors)]

\* The two queries, for the base class and for the last cheese.  If the class of the last
\* cheese is derived from the other, base holds it too, and the more special slot wins.
FoundList(base, last) == CollectAll(CollectAll(<<>>, base, 0), last, 1)

\* Cell and slot in one number, ordered as std::sort orders the list.
Position(cell, f) == 2 * cell[f.actor] + f.slot

\* Mutation: the list is left in the order of FindAllOf.
Sortings_Not(cell, found) == {found}

\* What std::sort can make of the list: any of its orders in which no position descends,
\* since pickups in one cell compare equal and the sort is not stable.
Sortings(cell, found) ==
  {list \in {[i \in DOMAIN found |-> found[order[i]]] :
             order \in Bijection(DOMAIN found, DOMAIN found)} :
     \A i, j \in DOMAIN list : i < j => Position(cell, list[i]) <= Position(cell, list[j])}

\* m_idToActor, from the sorted list: hash[p] is pickupId at position p.
PickupRegistry(hash, cell, sorted) ==
  LET After[n \in 0 .. Len(sorted)] ==
        IF n = 0 THEN NoIds
        ELSE LET ids == After[n - 1]
                 f == sorted[n]
             IN Named(ids, f.actor, FreeId(hash, Position(cell, f), DOMAIN ids))
  IN After[Len(sorted)]
=============================================================================
