------------------------------ MODULE CheeseIds -----------------------------
(***************************************************************************)
(* buildCheeseRegistry() of dllmain.cpp: how a peer gives 16-bit ids to    *)
(* the cheese it finds.  A cheese is the rank of its quantized position in *)
(* the order of std::sort; HashOf gives the 16-bit hash of that position.  *)
(* Ids are taken in that order; a taken id is walked past in steps of      *)
(* IdStep (0x9E37, modulo 2^16, in the code).                              *)
(***************************************************************************)
EXTENDS Integers, FiniteSets

CONSTANTS
  NumCheese,  \* cheese in a maze
  IdSpace,    \* number of ids: 2^16 in the code
  IdStep      \* step of the collision walk

Cheese == 1 .. NumCheese
Ids == 0 .. IdSpace - 1

\* An odd step visits every id of a space whose size is a power of two.
ASSUME IdsAssumption ==
  /\ NumCheese \in Nat
  /\ IdSpace \in Nat /\ IdStep \in Nat
  /\ NumCheese <= IdSpace
  /\ {(g * IdStep) % IdSpace : g \in Ids} = Ids

NoIds == <<>>

Walk(hash, c, g) == (hash[c] + g * IdStep) % IdSpace

\* Mutation: colliding cheese share the id.
FreeId_NoWalk(hash, c, taken) == Walk(hash, c, 0)

\* Mutation: the id is the index in the sorted list of cheese.
FreeId_Index(hash, c, taken) == Cardinality(taken)

\* The first id of c's walk that is not in taken.
FreeId(hash, c, taken) ==
  Walk(hash, c, CHOOSE g \in Ids :
    /\ Walk(hash, c, g) \notin taken
    /\ \A h \in 0 .. g - 1 : Walk(hash, c, h) \in taken)

\* ids in which c has the id as well.
Named(ids, c, id) == [i \in DOMAIN ids \cup {id} |-> IF i = id THEN c ELSE ids[i]]

\* The registry of the cheese in found: a function from ids to cheese.
RegistryOf(hash, found) ==
  LET After[n \in 0 .. NumCheese] ==
        IF n = 0 THEN NoIds
        ELSE LET ids == After[n - 1] IN
             IF n \in found THEN Named(ids, n, FreeId(hash, n, DOMAIN ids)) ELSE ids
  IN After[NumCheese]
=============================================================================
