----------------------------- MODULE Algorithms -----------------------------
(***************************************************************************)
(* What the pure parts of the code compute: the ids of the cheese          *)
(* (CheeseIds), the ids of the pickups (PickupIds) and the wire format     *)
(* (Wire).  A behaviour picks one input; the invariants say what comes out *)
(* of it.                                                                  *)
(***************************************************************************)
EXTENDS PickupIds, Wire

CONSTANTS
  CheeseHashes,  \* cheeseHash, as a function of the cheese
  Cells,         \* the cells in which pickups lie
  PickupHashes,  \* pickupId, as a function of cell and slot
  FrameLists,    \* frames sent in one datagram
  Messages,      \* messages with their fields
  Batches        \* batches with their entries

Byte == 0 .. Base - 1

\* How many numbers width bytes can tell, and the largest of them.
Limit(width) ==
  LET Power[i \in 0 .. width] == IF i = 0 THEN 1 ELSE Base * Power[i - 1]
  IN Power[width]
Largest(width) == Limit(width) - 1

Fit(widths, fields) ==
  /\ fields \in [1 .. Len(widths) -> Nat]
  /\ \A k \in 1 .. Len(widths) : fields[k] < Limit(widths[k])

\* A body no longer than two bytes can tell: packFrame cuts the length of a longer one.
FrameSet == [chan : Byte, type : Byte, body : {b \in Seq(Byte) : Len(b) < Limit(2)}]

IsMessage(m) == m.type \in DOMAIN Writes /\ Fit(Writes[m.type], m.fields)

\* No more entries than a count of two bytes can tell.
IsBatch(b) ==
  /\ b.type \in DOMAIN EntryWidths
  /\ b.entries \in Seq(Seq(Nat))
  /\ Len(b.entries) < Limit(2)
  /\ \A i \in 1 .. Len(b.entries) : Fit(EntryWidths[b.type], b.entries[i])

ASSUME InputsAssumption ==
  /\ CheeseHashes \subseteq [Cheese -> Ids]
  /\ Cells \subseteq Nat
  /\ \A hash \in PickupHashes, c \in Cells, slot \in 0 .. 1 : hash[2 * c + slot] \in Ids
  /\ FrameLists \subseteq Seq(FrameSet)
  /\ \A m \in Messages : IsMessage(m)
  /\ \A b \in Batches : IsBatch(b)

-----------------------------------------------------------------------------
(* The inputs.                                                             *)

VARIABLE input

Nothing == [of |-> "nothing"]

InputInit == input = Nothing

\* A hash function and the cheese that a peer finds (buildCheeseRegistry).
PicksCheese ==
  \E hash \in CheeseHashes, found \in SUBSET Cheese :
    input' = [of |-> "cheese", hash |-> hash, found |-> found]

\* The lists of the actors in a set.
Listings(actors) == Bijection(1 .. Cardinality(actors), actors)

\* FindAllOf returns the actors in the order of the game's objects, whatever the class.
OneOrder(s, t) ==
  \A i, j \in DOMAIN s, k, l \in DOMAIN t : i < j /\ s[i] = t[k] /\ s[j] = t[l] => k < l

\* Pickups in cells, the last ones among them, whether their class is derived from the
\* other, and a hash function: base and last are what the two queries return.
PicksPickups ==
  \E cell \in [Pickups -> Cells], hash \in PickupHashes, special \in SUBSET Pickups,
     derived \in BOOLEAN :
    \E base \in Listings(IF derived THEN Pickups ELSE Pickups \ special),
       last \in Listings(special) :
      /\ OneOrder(base, last)
      /\ input' = [of |-> "pickups", cell |-> cell, hash |-> hash, base |-> base, last |-> last]

\* The frames in one datagram, one after the other (protocol_roundtrip_test.cpp).
Packed(frames) ==
  LET After[n \in 0 .. Len(frames)] ==
        IF n = 0 THEN <<>> ELSE After[n - 1] \o PackFrame(frames[n])
  IN After[Len(frames)]

\* Frames in one datagram, and how much of it arrives.
PicksFrames ==
  \E frames \in FrameLists : \E cut \in 0 .. Len(Packed(frames)) :
    input' = [of |-> "frames", frames |-> frames, cut |-> cut]

PicksFields ==
  \E m \in Messages : input' = [of |-> "fields", type |-> m.type, fields |-> m.fields]

PicksBatch ==
  \E b \in Batches : input' = [of |-> "batch", type |-> b.type, entries |-> b.entries]

InputNext ==
  /\ input = Nothing
  /\ PicksCheese \/ PicksPickups \/ PicksFrames \/ PicksFields \/ PicksBatch

InputSpec == InputInit /\ [][InputNext]_input

-----------------------------------------------------------------------------
\* Whatever the collisions, each cheese found has exactly one id and no id is lost
\* to a later cheese (the walk of buildCheeseRegistry).
EachHasOneId ==
  input.of = "cheese" =>
    LET registry == RegistryOf(input.hash, input.found)
    IN IsInjective(registry) /\ Range(registry) = input.found

\* The id of a cheese depends on the cheese before it in position order alone: a
\* peer that finds more cheese behind it gives the same ids to those before.
IdsDependOnEarlierOnly ==
  input.of = "cheese" =>
    LET registry == RegistryOf(input.hash, input.found) IN
    \A c \in Cheese :
      LET before == RegistryOf(input.hash, input.found \cap (1 .. c)) IN
      \A id \in DOMAIN before : id \in DOMAIN registry /\ registry[id] = before[id]

\* The ids that the walk of c passes before it comes to id.
PassedIds(hash, c, id) ==
  {Walk(hash, c, g) : g \in {h \in Ids : \A k \in 0 .. h : Walk(hash, c, k) # id}}

\* None of the cheese in some has walked past the id of a cheese that is not.
NoneInTheWay(hash, registry, some) ==
  \A id \in DOMAIN registry : registry[id] \in some =>
    \A passed \in PassedIds(hash, registry[id], id) : registry[passed] \in some

\* A peer that lacks some cheese, wherever they lie, gives the others the ids of a peer
\* that has them all exactly if none of those ids was walked to past a missing cheese:
\* what "the SAME id for the same physical cheese" (dllmain.cpp) comes to when one
\* peer builds its registry early.
IdsDifferByCollisionOnly ==
  input.of = "cheese" =>
    LET registry == RegistryOf(input.hash, input.found) IN
    \A some \in SUBSET input.found :
      NoneInTheWay(input.hash, registry, some) <=>
        RegistryOf(input.hash, some)
          = Restrict(registry, {id \in DOMAIN registry : registry[id] \in some})

\* What holds of the ids of cheese on one peer, and on two that have found different ones.
RegistryIsSound == EachHasOneId /\ IdsDependOnEarlierOnly /\ IdsDifferByCollisionOnly

\* The registries enumerateAndAssignIds can build from what its queries return.
RegistriesFrom(base, last) ==
  {PickupRegistry(input.hash, input.cell, sorted) :
     sorted \in Sortings(input.cell, FoundList(base, last))}

\* "otherwise the last cheese gets two ids on both peers" (Pickups.cpp): each pickup has
\* one id, also if both queries find it and if another lies in the same cell.
EachPickupHasOneId ==
  input.of = "pickups" =>
    \A registry \in RegistriesFrom(input.base, input.last) :
      IsInjective(registry) /\ Range(registry) = Pickups

\* "Canonical order so BOTH peers resolve hash collisions identically" (Pickups.cpp): in
\* which order ever a peer finds pickups that differ in cell or slot, it gives them the
\* same ids.
PickupIdsAgree ==
  LET Key(p) == <<input.cell[p], p \in Range(input.last)>>
      Distinct == \A p, q \in Pickups : p # q => Key(p) # Key(q)
  IN input.of = "pickups" /\ Distinct =>
       \E registry \in RegistriesFrom(input.base, input.last) :
         \A base \in Listings(Range(input.base)), last \in Listings(Range(input.last)) :
           RegistriesFrom(base, last) = {registry}

\* "Parse possibly-multiple frames from one datagram ... sets ok=false on malformed"
\* (Protocol.h): of a datagram cut anywhere, the frames that are all there are parsed,
\* and ok says whether something was cut.
DatagramIsParsed ==
  input.of = "frames" =>
    LET End(n) == Len(Packed(SubSeq(input.frames, 1, n))) IN
    \E n \in 0 .. Len(input.frames) :
      /\ End(n) <= input.cut
      /\ n < Len(input.frames) => input.cut < End(n + 1)
      /\ ParseFrames(SubSeq(Packed(input.frames), 1, input.cut))
           = [frames |-> SubSeq(input.frames, 1, n), ok |-> input.cut = End(n)]

\* What encode writes into a field, decode reads out of it, and nothing into another.
FieldsSurvive ==
  input.of = "fields" =>
    LET body == Encode(Writes[input.type], input.fields)
    IN Decode(Reads[input.type], body, 0) = [off |-> Len(body), fields |-> input.fields]

\* Of a batch the entries survive up to the largest count, whole and in order.
BatchSurvives ==
  input.of = "batch" =>
    LET limit == IF input.type = "PickupStateSync" THEN Largest(1) ELSE Largest(2)
        n == IF Len(input.entries) <= limit THEN Len(input.entries) ELSE limit
    IN DecodeBatch(input.type, EncodeBatch(input.type, input.entries))
         = SubSeq(input.entries, 1, n)
=============================================================================
