-------------------------------- MODULE Wire --------------------------------
(***************************************************************************)
(* Net/Protocol.h: how messages become bytes and bytes messages.  A byte   *)
(* has Base values; numbers are little-endian and of a fixed width, in     *)
(* bytes; a float is the number of its bits.  With a small Base the limits *)
(* of the 8-bit and 16-bit counts are within reach.                        *)
(***************************************************************************)
EXTENDS Integers, Sequences

CONSTANT Base  \* 256 in the code

ASSUME WireAssumption == Base \in Nat \ {0, 1}

\* ByteWriter: the width low bytes of v, the lowest first.
Bytes(v, width) ==
  LET Rest[i \in 0 .. width] == IF i = 0 THEN v ELSE Rest[i - 1] \div Base
  IN [i \in 1 .. width |-> Rest[i - 1] % Base]

\* ByteReader: the number in the width bytes after the first off of data, the last byte
\* the highest.
Number(data, off, width) ==
  LET High[k \in 0 .. width] ==
        IF k = 0 THEN 0 ELSE High[k - 1] * Base + data[off + width - k + 1]
  IN High[width]

-----------------------------------------------------------------------------
(* Frames.                                                                 *)

\* packFrame: the length is cut to two bytes.
PackFrame(f) == <<f.chan, f.type>> \o Bytes(Len(f.body), 2) \o f.body

\* Mutation: the high byte of the length is not read.
BodyLength_Low(data, off) == Number(data, off + 2, 1)

\* The length in the header after off bytes.
BodyLength(data, off) == Number(data, off + 2, 2)

FrameAt(data, off, end) ==
  [chan |-> data[off + 1], type |-> data[off + 2], body |-> SubSeq(data, off + 5, end)]

\* A turn of the loop of parseFrames, in which torn tells of a body that is not all there.
ParseFrame(data, p) ==
  LET end == p.off + 4 + BodyLength(data, p.off) IN
  IF p.torn \/ p.off + 4 > Len(data) THEN p
  ELSE IF end > Len(data) THEN [p EXCEPT !.torn = TRUE]
  ELSE [off |-> end, frames |-> Append(p.frames, FrameAt(data, p.off, end)), torn |-> FALSE]

\* parseFrames: the frames of a datagram, and whether nothing of it is left over.
ParseFrames(data) ==
  LET After[n \in 0 .. Len(data)] ==
        IF n = 0 THEN [off |-> 0, frames |-> <<>>, torn |-> FALSE]
        ELSE ParseFrame(data, After[n - 1])
      last == After[Len(data)]
  IN [frames |-> last.frames, ok |-> ~last.torn /\ last.off = Len(data)]

-----------------------------------------------------------------------------
(* Typed payloads: the widths of the fields, as encode writes and as       *)
(* decode reads them.                                                      *)

Writes ==
  [PlayerState |-> <<1, 2, 4, 4, 4, 2, 2, 2, 2, 1, 1, 2, 1, 1>>,
   Hello |-> <<1, 4, 8, 1, 4>>, MazeSeed |-> <<8, 1, 4>>,
   PickupCollected |-> <<2, 1, 1, 4>>, ObjectiveReached |-> <<2, 1>>,
   RunStart |-> <<4, 8, 2>>, RunEnd |-> <<4, 1, 1>>, Restart |-> <<4, 8>>,
   EnemySpawn |-> <<2, 1, 4, 4, 4, 2, 2>>, EnemyDespawn |-> <<2, 1>>,
   EnemyHit |-> <<2, 1, 2, 4, 4, 4>>, Death |-> <<1, 1, 2, 4, 4, 4>>,
   DownedState |-> <<1, 1, 1>>, ReviveStart |-> <<1, 1>>, ReviveComplete |-> <<1, 1>>]

\* Mutation: the killer of a Death is read as one byte.
Reads_ShortKiller == [Writes EXCEPT !.Death = <<1, 1, 1, 4, 4, 4>>]

Reads ==
  [PlayerState |-> <<1, 2, 4, 4, 4, 2, 2, 2, 2, 1, 1, 2, 1, 1>>,
   Hello |-> <<1, 4, 8, 1, 4>>, MazeSeed |-> <<8, 1, 4>>,
   PickupCollected |-> <<2, 1, 1, 4>>, ObjectiveReached |-> <<2, 1>>,
   RunStart |-> <<4, 8, 2>>, RunEnd |-> <<4, 1, 1>>, Restart |-> <<4, 8>>,
   EnemySpawn |-> <<2, 1, 4, 4, 4, 2, 2>>, EnemyDespawn |-> <<2, 1>>,
   EnemyHit |-> <<2, 1, 2, 4, 4, 4>>, Death |-> <<1, 1, 2, 4, 4, 4>>,
   DownedState |-> <<1, 1, 1>>, ReviveStart |-> <<1, 1>>, ReviveComplete |-> <<1, 1>>]

\* The fields of the given widths, one after the other.
Encode(widths, fields) ==
  LET Written[k \in 0 .. Len(widths)] ==
        IF k = 0 THEN <<>> ELSE Written[k - 1] \o Bytes(fields[k], widths[k])
  IN Written[Len(widths)]

\* A field read from the body.  One that is not all there reads as 0, and the next is
\* tried at the same place.
ReadField(width, body, r) ==
  IF r.off + width > Len(body) THEN [off |-> r.off, fields |-> Append(r.fields, 0)]
  ELSE [off |-> r.off + width, fields |-> Append(r.fields, Number(body, r.off, width))]

\* Fields of the given widths, read from the body after off bytes.
Decode(widths, body, off) ==
  LET After[k \in 0 .. Len(widths)] ==
        IF k = 0 THEN [off |-> off, fields |-> <<>>]
        ELSE ReadField(widths[k], body, After[k - 1])
  IN After[Len(widths)]

-----------------------------------------------------------------------------
(* Batches: a count and so many entries.                                   *)

EntryWidths == [PickupStateSync |-> <<2, 1>>, EnemyState |-> <<2, 4, 4, 4, 2, 1, 1, 1>>]

\* Mutation: the count of pickups wraps like that of enemies.
Count_Wraps(type, n) == Bytes(n, IF type = "PickupStateSync" THEN 1 ELSE 2)

\* The count of pickups stops at the largest byte, that of enemies wraps in two bytes.
Count(type, n) ==
  IF type = "PickupStateSync" THEN <<IF n < Base THEN n ELSE Base - 1>> ELSE Bytes(n, 2)

\* encode of the two batches: the entries beyond the count are written as well.
EncodeBatch(type, entries) ==
  LET Written[k \in 0 .. Len(entries)] ==
        IF k = 0 THEN Count(type, Len(entries))
        ELSE Written[k - 1] \o Encode(EntryWidths[type], entries[k])
  IN Written[Len(entries)]

\* An entry read from the body.
ReadEntry(widths, body, r) ==
  LET d == Decode(widths, body, r.off)
  IN [off |-> d.off, entries |-> Append(r.entries, d.fields)]

\* decode of them: as many entries as the count says.
DecodeBatch(type, body) ==
  LET width == IF type = "PickupStateSync" THEN 1 ELSE 2
      count == Number(body, 0, width)
      After[k \in 0 .. count] ==
        IF k = 0 THEN [off |-> width, entries |-> <<>>]
        ELSE ReadEntry(EntryWidths[type], body, After[k - 1])
  IN After[count].entries
=============================================================================
