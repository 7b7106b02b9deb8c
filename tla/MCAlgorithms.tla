---------------------------- MODULE MCAlgorithms ----------------------------
(* The inputs of Algorithms for TLC: all of a small instance. *)
EXTENDS Algorithms

AllCheeseHashes == [Cheese -> Ids]

TwoCells == 0 .. 1

\* Many collisions: two ids to start the walk from.
CollidingHashes == [0 .. 3 -> 0 .. 1]

\* Up to two frames, with bodies of every length that two bytes can tell.
Bodies == UNION {[1 .. n -> Byte] : n \in 0 .. Largest(2)}
UpToTwoFrames ==
  UNION {[1 .. n -> [chan : {0}, type : Byte, body : Bodies]] : n \in 0 .. 2}

\* Messages with one field the largest and the others 0, or the other way round.
Marked(type, marked, inverted) ==
  [k \in DOMAIN Writes[type] |->
    IF (k = marked) # inverted THEN Largest(Writes[type][k]) ELSE 0]
MarkedMessages ==
  UNION {{[type |-> type, fields |-> Marked(type, marked, inverted)] :
            marked \in DOMAIN Writes[type], inverted \in BOOLEAN} : type \in DOMAIN Writes}

\* Batches of every length that two bytes can tell, each entry all zeros or all ones.
BitBatches ==
  {[type |-> type, entries |-> [i \in DOMAIN bits |-> [k \in DOMAIN EntryWidths[type] |-> bits[i]]]] :
     type \in DOMAIN EntryWidths, bits \in UNION {[1 .. n -> 0 .. 1] : n \in 0 .. Largest(2)}}
=============================================================================
