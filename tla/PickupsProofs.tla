--------------------------- MODULE PickupsProofs ----------------------------
(***************************************************************************)
(* Proofs about Pickups, for any set of pickups and any number of runs and *)
(* of keyframes on their way.                                              *)
(*                                                                         *)
(*   TablesTyped       TypeOK                                              *)
(*   ImplementsAuthority                                                   *)
(*                     the host's table implements PickupAuthority         *)
(*   ReasonsHold       the inductive invariant: whatever the client has    *)
(*                     hidden or is going to hide has a cause              *)
(*   HiddenWithCause   PickupsInv, in the host's first run                 *)
(***************************************************************************)
EXTENDS Pickups, TLAPS

\* The host has collected the pickup or was asked for it too early, or it was gone before
\* it got an id.
Gone(id) ==
  \/ state[Host][id] = "collected"
  \/ id \in early
  \/ phase[Host] = "enumerated" /\ id \notin cheese

\* What a frame on its way says is collected.
Told == {id \in Ids : \E sync \in deltas \cup keyframes :
                         id \in DOMAIN sync /\ sync[id] = "collected"}

\* No table before the maze, and none without what is in the maze.
TableInv ==
  /\ runs[Host] = 0 => phase[Host] = "menu"
  /\ phase[Host] = "menu" => state[Host] = AllUnknown
  /\ phase[Host] = "enumerated" =>
       \A id \in Ids : state[Host][id] = "unknown" => id \notin cheese

\* In the host's first run; the frames of a run outlive it.
CauseInv == runs[Host] <= 1 => \A id \in hidden \cup applyQueue \cup Told : Gone(id)

ReasonInv == TypeOK /\ TableInv /\ CauseInv

-----------------------------------------------------------------------------
LEMMA TwoPeers == Host \in Peers /\ Client \in Peers /\ Host # Client
BY PickupsAssumption DEF Peers

LEMMA SyncType ==
  /\ \A s \in SUBSET Ids : \A f \in [s -> {"present", "collected"}] : f \in Syncs
  /\ \A f \in Syncs : /\ DOMAIN f \subseteq Ids
                      /\ \A id \in DOMAIN f : f[id] \in {"present", "collected"}
BY DEF Syncs

LEMMA DeltaIsSync ==
  ASSUME NEW id \in Ids
  PROVE  /\ Delta(id, "collected") \in Syncs
         /\ DOMAIN Delta(id, "collected") = {id}
         /\ Delta(id, "collected")[id] = "collected"
<1>1. Delta(id, "collected") \in [{id} -> {"present", "collected"}]
  BY DEF Delta
<1>2. {id} \in SUBSET Ids
  OBVIOUS
<1>3. QED
  BY <1>1, <1>2, SyncType DEF Delta

LEMMA KeyframeIsSync ==
  ASSUME TypeOK
  PROVE  /\ Keyframe \in Syncs
         /\ \A id \in DOMAIN Keyframe : id \in Ids /\ Keyframe[id] = state[Host][id]
<1> DEFINE known == {i \in Ids : state[Host][i] # "unknown"}
<1>1. \A id \in known : state[Host][id] \in {"present", "collected"}
  BY TwoPeers DEF TypeOK
<1>2. Keyframe \in [known -> {"present", "collected"}]
  BY <1>1 DEF Keyframe
<1>3. known \in SUBSET Ids
  OBVIOUS
<1>4. QED
  BY <1>2, <1>3, SyncType DEF Keyframe

\* A step that changes the entries of one peer leaves the other's alone, and the table
\* typed, if the new ones are.
Row == [Ids -> {"unknown", "present", "requested", "collected"}]

LEMMA RowChanged ==
  ASSUME TypeOK, NEW p \in Peers, NEW row \in Row, state' = [state EXCEPT ![p] = row],
         p = Host => \A id \in Ids : row[id] # "requested"
  PROVE  /\ state' \in [Peers -> Row]
         /\ \A id \in Ids : state'[Host][id] # "requested"
         /\ state'[p] = row
         /\ \A q \in Peers \ {p} : state'[q] = state[q]
BY TwoPeers DEF TypeOK, Row

-----------------------------------------------------------------------------
(* Type correctness.                                                       *)

LEMMA InitTyped == Init => TypeOK
<1> SUFFICES ASSUME Init PROVE TypeOK
  OBVIOUS
<1>1. 0 \in 0 .. MaxRuns /\ 0 \in 0 .. 255
  BY PickupsAssumption
<1>2. QED
  BY <1>1, TwoPeers DEF Init, TypeOK, AllUnknown

\* Finalize, whether the host's rat takes the pickup or the client has asked for it.
LEMMA FinalizeTyped ==
  ASSUME TypeOK, NEW id \in Ids, Finalize(id)
  PROVE  /\ state' \in [Peers -> Row]
         /\ \A i \in Ids : state'[Host][i] # "requested"
         /\ state'[Host] = [state[Host] EXCEPT ![id] = "collected"]
         /\ state'[Client] = state[Client]
         /\ count' = (count + 1) % 256 /\ count' \in 0 .. 255
         /\ deltas' = deltas \cup {Delta(id, "collected")} /\ deltas' \subseteq Syncs
<1>1. /\ state' = [state EXCEPT ![Host] = [state[Host] EXCEPT ![id] = "collected"]]
      /\ count' = (count + 1) % 256
      /\ deltas' = deltas \cup {Delta(id, "collected")}
  BY DEF Finalize
<1>2. /\ [state[Host] EXCEPT ![id] = "collected"] \in Row
      /\ \A i \in Ids : [state[Host] EXCEPT ![id] = "collected"][i] # "requested"
  BY TwoPeers DEF TypeOK, Row
<1>3. count' \in 0 .. 255
  BY <1>1 DEF TypeOK
<1>4. deltas' \subseteq Syncs
  BY <1>1, DeltaIsSync DEF TypeOK
<1>5. /\ state' \in [Peers -> Row]
      /\ \A i \in Ids : state'[Host][i] # "requested"
      /\ state'[Host] = [state[Host] EXCEPT ![id] = "collected"]
      /\ \A q \in Peers \ {Host} : state'[q] = state[q]
  BY <1>1, <1>2, TwoPeers, RowChanged
<1>6. QED
  BY <1>1, <1>3, <1>4, <1>5, TwoPeers

LEMMA NotifyRunBeginTyped ==
  ASSUME TypeOK, NEW p \in Peers, NotifyRunBegin(p)
  PROVE  TypeOK'
<1>1. /\ runs[p] < MaxRuns
      /\ runs' = [runs EXCEPT ![p] = @ + 1]
      /\ phase' = [phase EXCEPT ![p] = "begun"]
      /\ state' = [state EXCEPT ![p] = AllUnknown]
      /\ cheese' \in {{}, cheese}
      /\ count' \in {0, count}
      /\ applyQueue' \in {{}, applyQueue} /\ hidden' \in {{}, hidden}
      /\ UNCHANGED <<requests, deltas, keyframes, early>>
  BY DEF NotifyRunBegin, wires
<1>2. runs' \in [Peers -> 0 .. MaxRuns]
  <2>1. runs[p] \in 0 .. MaxRuns /\ runs[p] + 1 \in 0 .. MaxRuns
    BY <1>1, PickupsAssumption DEF TypeOK
  <2>2. QED
    BY <1>1, <2>1 DEF TypeOK
<1>3. AllUnknown \in Row /\ \A id \in Ids : AllUnknown[id] # "requested"
  BY DEF AllUnknown, Row
<1>4. state' \in [Peers -> Row] /\ \A id \in Ids : state'[Host][id] # "requested"
  BY <1>1, <1>3, RowChanged
<1>5. count' \in 0 .. 255
  BY <1>1 DEF TypeOK
<1>6. QED
  BY <1>1, <1>2, <1>4, <1>5 DEF TypeOK, Row

LEMMA EnumerateTyped ==
  ASSUME TypeOK, NEW p \in Peers, Enumerate(p)
  PROVE  /\ TypeOK'
         /\ \A q \in Peers \ {p} : state'[q] = state[q]
         /\ \A id \in Ids :
              state'[p][id] = IF state[p][id] = "unknown" /\ (p = Host => id \in cheese)
                              THEN "present" ELSE state[p][id]
<1> DEFINE row == [id \in Ids |-> IF state[p][id] = "unknown" /\ (p = Host => id \in cheese)
                                  THEN "present" ELSE state[p][id]]
<1>1. /\ phase' = [phase EXCEPT ![p] = "enumerated"]
      /\ state' = [state EXCEPT ![p] = row]
      /\ UNCHANGED <<runs, cheese, count, applyQueue, hidden, requests, deltas, keyframes, early>>
  BY DEF Enumerate, clientVars, wires
<1>2. row \in Row /\ (p = Host => \A id \in Ids : row[id] # "requested")
  BY TwoPeers DEF TypeOK, Row
<1>3. \A id \in Ids :
        row[id] = IF state[p][id] = "unknown" /\ (p = Host => id \in cheese)
                  THEN "present" ELSE state[p][id]
  OBVIOUS
<1> HIDE DEF row
<1>4. /\ state' \in [Peers -> Row]
      /\ \A id \in Ids : state'[Host][id] # "requested"
      /\ state'[p] = row
      /\ \A q \in Peers \ {p} : state'[q] = state[q]
  BY <1>1, <1>2, RowChanged
<1>5. TypeOK'
  BY <1>1, <1>4 DEF TypeOK, Row
<1>6. QED
  BY <1>3, <1>4, <1>5

\* A frame changes the client's entries only, and queues what it says is collected.
LEMMA MirrorTyped ==
  ASSUME TypeOK, NEW sync \in Syncs, Mirror(sync)
  PROVE  /\ state' \in [Peers -> Row]
         /\ \A id \in Ids : state'[Host][id] # "requested"
         /\ state'[Host] = state[Host]
         /\ applyQueue' \subseteq Ids
         /\ applyQueue' \subseteq applyQueue \cup {id \in DOMAIN sync : sync[id] = "collected"}
         /\ UNCHANGED <<runs, phase, cheese, count, hidden, requests, early>>
<1> DEFINE row == [id \in Ids |-> IF id \in DOMAIN sync THEN sync[id] ELSE state[Client][id]]
<1>1. /\ state' = [state EXCEPT ![Client] = row]
      /\ applyQueue' = applyQueue \cup ToHide(sync)
      /\ UNCHANGED <<runs, phase, cheese, count, hidden, requests, early>>
  BY DEF Mirror, gameVars
<1>2. row \in Row
  BY SyncType, TwoPeers DEF TypeOK, Row
<1> HIDE DEF row
<1>3. /\ state' \in [Peers -> Row]
      /\ \A id \in Ids : state'[Host][id] # "requested"
      /\ \A q \in Peers \ {Client} : state'[q] = state[q]
  BY <1>1, <1>2, TwoPeers, RowChanged
<1>4. ToHide(sync) \subseteq {id \in DOMAIN sync : sync[id] = "collected"}
  BY DEF ToHide
<1>5. applyQueue' \subseteq Ids
  BY <1>1, <1>4, SyncType DEF TypeOK
<1>6. QED
  BY <1>1, <1>3, <1>4, <1>5, TwoPeers

LEMMA TypedStep ==
  ASSUME TypeOK, [Next]_vars
  PROVE  TypeOK'
<1>1. CASE UNCHANGED vars
  BY <1>1 DEF vars, gameVars, clientVars, wires, TypeOK
<1>2. ASSUME NEW p \in Peers, NotifyRunBegin(p) PROVE TypeOK'
  BY <1>2, NotifyRunBeginTyped
<1>3. ASSUME NEW p \in Peers, SpawnAllCheese(p) PROVE TypeOK'
  BY <1>3 DEF SpawnAllCheese, clientVars, wires, TypeOK
<1>4. ASSUME NEW p \in Peers, Enumerate(p) PROVE TypeOK'
  BY <1>4, EnumerateTyped
<1>5. ASSUME NEW id \in Ids, HostTakes(id) PROVE TypeOK'
  <2>1. /\ cheese' \subseteq Ids
        /\ UNCHANGED <<runs, phase, applyQueue, hidden, requests, keyframes, early>>
    BY <1>5 DEF HostTakes, clientVars, TypeOK
  <2>2. CASE phase[Host] = "enumerated" /\ state[Host][id] = "present"
    <3>1. Finalize(id)
      BY <1>5, <2>2 DEF HostTakes
    <3>2. QED
      BY <2>1, <3>1, FinalizeTyped DEF TypeOK, Row
  <2>3. CASE ~(phase[Host] = "enumerated" /\ state[Host][id] = "present")
    BY <1>5, <2>1, <2>3 DEF HostTakes, TypeOK
  <2>4. QED
    BY <2>2, <2>3
<1>6. ASSUME NEW id \in Ids, Request(id) PROVE TypeOK'
  <2> DEFINE row == [state[Client] EXCEPT ![id] = "requested"]
  <2>1. /\ state' = [state EXCEPT ![Client] = row]
        /\ requests' = requests \cup {id}
        /\ UNCHANGED <<runs, phase, cheese, count, applyQueue, hidden, deltas, keyframes, early>>
    BY <1>6 DEF Request, gameVars, clientVars
  <2>2. row \in Row
    BY TwoPeers DEF TypeOK, Row
  <2> HIDE DEF row
  <2>3. state' \in [Peers -> Row] /\ \A i \in Ids : state'[Host][i] # "requested"
    BY <2>1, <2>2, TwoPeers, RowChanged
  <2>4. QED
    BY <2>1, <2>3 DEF TypeOK, Row
<1>7. ASSUME Drain PROVE TypeOK'
  BY <1>7 DEF Drain, gameVars, wires, TypeOK
<1>8. ASSUME NEW id \in requests, OnPickupCollected(id) PROVE TypeOK'
  <2>1. /\ id \in Ids /\ requests' \subseteq Ids /\ early' \subseteq Ids
        /\ UNCHANGED <<runs, phase, cheese, applyQueue, hidden, keyframes>>
    BY <1>8 DEF OnPickupCollected, gameVars, clientVars, TypeOK
  <2>2. CASE Grants(id)
    <3>1. Finalize(id)
      BY <1>8, <2>2 DEF OnPickupCollected
    <3>2. QED
      BY <2>1, <3>1, FinalizeTyped DEF TypeOK, Row
  <2>3. CASE ~Grants(id)
    <3>1. deltas' = deltas \cup {Delta(id, "collected")} /\ UNCHANGED <<state, count>>
      BY <1>8, <2>3 DEF OnPickupCollected, Answer
    <3>2. deltas' \subseteq Syncs
      BY <2>1, <3>1, DeltaIsSync DEF TypeOK
    <3>3. QED
      BY <2>1, <3>1, <3>2 DEF TypeOK
  <2>4. QED
    BY <2>2, <2>3
<1>9. ASSUME SendKeyframe PROVE TypeOK'
  <2>1. keyframes' \subseteq Syncs
    BY <1>9, KeyframeIsSync DEF SendKeyframe, TypeOK
  <2>2. QED
    BY <1>9, <2>1 DEF SendKeyframe, gameVars, clientVars, TypeOK
<1>10. ASSUME NEW k \in keyframes, LoseKeyframe(k) PROVE TypeOK'
  BY <1>10 DEF LoseKeyframe, gameVars, clientVars, TypeOK
<1>11. ASSUME NEW k \in keyframes, OnKeyframe(k) PROVE TypeOK'
  <2>1. /\ k \in Syncs /\ Mirror(k)
        /\ keyframes' = keyframes \ {k} /\ deltas' = deltas
    BY <1>11 DEF OnKeyframe, TypeOK
  <2>2. QED
    BY <2>1, MirrorTyped DEF TypeOK, Row
<1>12. ASSUME NEW d \in deltas, OnDelta(d) PROVE TypeOK'
  <2>1. /\ d \in Syncs /\ Mirror(d)
        /\ deltas' = deltas \ {d} /\ keyframes' = keyframes
    BY <1>12 DEF OnDelta, TypeOK
  <2>2. QED
    BY <2>1, MirrorTyped DEF TypeOK, Row
<1>13. QED
  BY <1>1, <1>2, <1>3, <1>4, <1>5, <1>6, <1>7, <1>8, <1>9, <1>10, <1>11, <1>12 DEF Next

\* Every table entry, queue and frame keeps its shape, in any number of runs.
THEOREM TablesTyped == Spec => []TypeOK
<1>1. Init => TypeOK
  BY InitTyped
<1>2. TypeOK /\ [Next]_vars => TypeOK'
  BY TypedStep
<1>3. QED
  BY <1>1, <1>2, PTL DEF Spec

-----------------------------------------------------------------------------
(* The host's table is the abstract authority.                             *)

Collected == {id \in Ids : state[Host][id] = "collected"}

\* A step that leaves the count alone and neither collects nor gives back anything.
LEMMA Unseen ==
  ASSUME UNCHANGED count, \A id \in Ids : state'[Host][id] = "collected" <=> state[Host][id] = "collected"
  PROVE  UNCHANGED <<Collected, count>>
BY DEF Collected

\* Finalize collects a pickup that is not collected.
LEMMA FinalizeCollects ==
  ASSUME TypeOK, NEW id \in Ids, state[Host][id] = "present", Finalize(id)
  PROVE  Authority!Collect(id)
<1>1. /\ state'[Host] = [state[Host] EXCEPT ![id] = "collected"]
      /\ count' = (count + 1) % 256
  BY FinalizeTyped
<1>2. state[Host] \in Row
  BY TwoPeers DEF TypeOK, Row
<1>3. /\ state'[Host][id] = "collected"
      /\ \A i \in Ids \ {id} : state'[Host][i] = state[Host][i]
  BY <1>1, <1>2 DEF Row
<1>4. Collected' = Collected \cup {id} /\ id \in Ids \ Collected
  BY <1>3 DEF Collected
<1>5. QED
  BY <1>1, <1>4 DEF Authority!Collect, Collected

LEMMA AuthorityStep ==
  ASSUME TypeOK, [Next]_vars
  PROVE  Authority!Next \/ UNCHANGED <<Collected, count>>
<1>1. CASE UNCHANGED vars
  BY <1>1 DEF vars, gameVars, Collected
<1>2. ASSUME NEW p \in Peers, NotifyRunBegin(p)
      PROVE  Authority!Next \/ UNCHANGED <<Collected, count>>
  <2>1. CASE p = Host
    <3>1. count' = 0 /\ state'[Host] = AllUnknown
      BY <1>2, <2>1, TwoPeers DEF NotifyRunBegin, TypeOK
    <3>2. Collected' = {}
      BY <3>1 DEF Collected, AllUnknown
    <3>3. Authority!Reset
      BY <3>1, <3>2 DEF Authority!Reset, Collected
    <3>4. QED
      BY <3>3 DEF Authority!Next
  <2>2. CASE p # Host
    <3>1. count' = count /\ state'[Host] = state[Host]
      BY <1>2, <2>2, TwoPeers DEF NotifyRunBegin, TypeOK
    <3>2. QED
      BY <3>1, Unseen
  <2>3. QED
    BY <2>1, <2>2
<1>3. ASSUME NEW p \in Peers, SpawnAllCheese(p) PROVE UNCHANGED <<Collected, count>>
  BY <1>3 DEF SpawnAllCheese, Collected
<1>4. ASSUME NEW p \in Peers, Enumerate(p) PROVE UNCHANGED <<Collected, count>>
  <2>1. count' = count
    BY <1>4 DEF Enumerate
  <2>2. ASSUME NEW id \in Ids
        PROVE  state'[Host][id] = "collected" <=> state[Host][id] = "collected"
    BY <1>4, EnumerateTyped, TwoPeers
  <2>3. QED
    BY <2>1, <2>2, Unseen
<1>5. ASSUME NEW id \in Ids, HostTakes(id)
      PROVE  Authority!Next \/ UNCHANGED <<Collected, count>>
  <2>1. CASE phase[Host] = "enumerated" /\ state[Host][id] = "present"
    <3>1. Finalize(id)
      BY <1>5, <2>1 DEF HostTakes
    <3>2. QED
      BY <2>1, <3>1, FinalizeCollects DEF Authority!Next
  <2>2. CASE ~(phase[Host] = "enumerated" /\ state[Host][id] = "present")
    BY <1>5, <2>2 DEF HostTakes, Collected
  <2>3. QED
    BY <2>1, <2>2
<1>6. ASSUME NEW id \in Ids, Request(id) PROVE UNCHANGED <<Collected, count>>
  <2>1. count' = count /\ state'[Host] = state[Host]
    BY <1>6, TwoPeers DEF Request, TypeOK
  <2>2. QED
    BY <2>1, Unseen
<1>7. ASSUME Drain PROVE UNCHANGED <<Collected, count>>
  BY <1>7 DEF Drain, Collected
<1>8. ASSUME NEW id \in requests, OnPickupCollected(id)
      PROVE  Authority!Next \/ UNCHANGED <<Collected, count>>
  <2>1. id \in Ids
    BY DEF TypeOK
  <2>2. CASE Grants(id)
    <3>1. Finalize(id) /\ state[Host][id] = "present"
      BY <1>8, <2>2 DEF OnPickupCollected, Grants
    <3>2. QED
      BY <2>1, <3>1, FinalizeCollects DEF Authority!Next
  <2>3. CASE ~Grants(id)
    BY <1>8, <2>3 DEF OnPickupCollected, Collected
  <2>4. QED
    BY <2>2, <2>3
<1>9. ASSUME SendKeyframe PROVE UNCHANGED <<Collected, count>>
  BY <1>9 DEF SendKeyframe, Collected
<1>10. ASSUME NEW k \in keyframes, LoseKeyframe(k) PROVE UNCHANGED <<Collected, count>>
  BY <1>10 DEF LoseKeyframe, Collected
<1>11. ASSUME NEW sync \in Syncs, Mirror(sync) PROVE UNCHANGED <<Collected, count>>
  <2>1. count' = count /\ state'[Host] = state[Host]
    BY <1>11, MirrorTyped DEF Mirror
  <2>2. QED
    BY <2>1, Unseen
<1>12. ASSUME NEW k \in keyframes, OnKeyframe(k) PROVE UNCHANGED <<Collected, count>>
  BY <1>11, <1>12 DEF OnKeyframe, TypeOK
<1>13. ASSUME NEW d \in deltas, OnDelta(d) PROVE UNCHANGED <<Collected, count>>
  BY <1>11, <1>13 DEF OnDelta, TypeOK
<1>14. QED
  BY <1>1, <1>2, <1>3, <1>4, <1>5, <1>6, <1>7, <1>8, <1>9, <1>10, <1>12, <1>13 DEF Next

\* Whichever rat takes a pickup, and however often the client asks for it, the host's
\* table collects and counts it once (Finalize, Game/Pickups.cpp).
THEOREM ImplementsAuthority == Spec => AuthoritySpec
<1>1. Init => Authority!Init
  BY TwoPeers DEF Init, Authority!Init, AllUnknown
<1>2. TypeOK /\ [Next]_vars => [Authority!Next]_<<Collected, count>>
  BY AuthorityStep
<1>3. QED
  BY <1>1, <1>2, TablesTyped, PTL DEF Spec, AuthoritySpec, Authority!Spec, Collected

-----------------------------------------------------------------------------
(* Nothing is hidden from the client without cause.                        *)

\* What a step of the first run does to the causes: none is lost.
CausesKept == \A id \in Ids : Gone(id) => Gone(id)'

\* Nothing is hidden, queued or said to be collected but what was, and what has a cause.
OnlyCaused ==
  \A id \in Ids :
    id \in (hidden \cup applyQueue \cup Told)' => id \in hidden \cup applyQueue \cup Told \/ Gone(id)'

LEMMA CauseKept ==
  ASSUME ReasonInv, TypeOK', CausesKept, OnlyCaused, runs'[Host] <= 1 => runs[Host] <= 1
  PROVE  CauseInv'
<1>1. SUFFICES ASSUME runs'[Host] <= 1, NEW id \in (hidden \cup applyQueue \cup Told)'
               PROVE  Gone(id)'
  BY DEF CauseInv
<1>2. id \in Ids
  BY <1>1 DEF TypeOK, Told
<1>3. \A i \in hidden \cup applyQueue \cup Told : i \in Ids /\ Gone(i)
  BY <1>1 DEF ReasonInv, CauseInv, TypeOK, Told
<1>4. QED
  BY <1>1, <1>2, <1>3 DEF CausesKept, OnlyCaused

\* The frames on the way change, what the client has hidden or queued does not.
LEMMA SaidCaused ==
  ASSUME UNCHANGED <<hidden, applyQueue>>, NEW sync,
         deltas' \cup keyframes' \subseteq deltas \cup keyframes \cup {sync},
         \A i \in DOMAIN sync : sync[i] = "collected" => Gone(i)'
  PROVE  OnlyCaused
BY DEF OnlyCaused, Told

LEMMA ReasonInit == Init => ReasonInv
<1> SUFFICES ASSUME Init PROVE ReasonInv
  OBVIOUS
<1>1. TypeOK
  BY InitTyped
<1>2. TableInv /\ CauseInv
  BY TwoPeers DEF Init, TableInv, CauseInv, Told, AllUnknown
<1>3. QED
  BY <1>1, <1>2 DEF ReasonInv

\* Finalize collects in the host's table only, and says so of one pickup only.
LEMMA FinalizeReason ==
  ASSUME ReasonInv, NEW id \in Ids, Finalize(id), cheese' \subseteq cheese, early \subseteq early',
         UNCHANGED <<runs, phase, applyQueue, hidden, keyframes>>, phase[Host] # "menu"
  PROVE  TableInv' /\ CausesKept /\ OnlyCaused
<1>1. /\ state'[Host] = [state[Host] EXCEPT ![id] = "collected"]
      /\ deltas' = deltas \cup {Delta(id, "collected")}
  BY FinalizeTyped DEF ReasonInv
<1>2. state[Host] \in Row
  BY TwoPeers DEF ReasonInv, TypeOK, Row
<1>3. /\ state'[Host][id] = "collected"
      /\ \A i \in Ids \ {id} : state'[Host][i] = state[Host][i]
  BY <1>1, <1>2 DEF Row
<1>4. TableInv'
  BY <1>3 DEF ReasonInv, TableInv
<1>5. CausesKept
  BY <1>3 DEF CausesKept, Gone
<1>6. \A i \in DOMAIN Delta(id, "collected") : Gone(i)'
  BY <1>3, DeltaIsSync DEF Gone
<1>7. deltas' \cup keyframes' \subseteq deltas \cup keyframes \cup {Delta(id, "collected")}
  BY <1>1
<1>8. OnlyCaused
  BY <1>6, <1>7, SaidCaused
<1>9. QED
  BY <1>4, <1>5, <1>8

\* A frame that arrives hides what was told before.
LEMMA MirrorReason ==
  ASSUME ReasonInv, NEW sync \in deltas \cup keyframes, Mirror(sync),
         deltas' \subseteq deltas, keyframes' \subseteq keyframes
  PROVE  TableInv' /\ CausesKept /\ OnlyCaused
<1>1. sync \in Syncs
  BY DEF ReasonInv, TypeOK
<1>2. /\ state'[Host] = state[Host]
      /\ applyQueue' \subseteq applyQueue \cup {id \in DOMAIN sync : sync[id] = "collected"}
      /\ UNCHANGED <<runs, phase, cheese, count, hidden, requests, early>>
  BY <1>1, MirrorTyped DEF ReasonInv
<1>3. {id \in DOMAIN sync : sync[id] = "collected"} \subseteq Told
  BY <1>1, SyncType DEF Told
<1>4. Told' \subseteq Told
  BY DEF Told
<1>5. TableInv' /\ CausesKept
  BY <1>2 DEF ReasonInv, TableInv, CausesKept, Gone, AllUnknown
<1>6. OnlyCaused
  BY <1>2, <1>3, <1>4 DEF OnlyCaused
<1>7. QED
  BY <1>5, <1>6

\* A step that no part of the argument is about: the host's table, its phase and what it
\* was asked stay, and nothing is told or queued.
LEMMA NothingNew ==
  ASSUME ReasonInv, UNCHANGED <<runs, cheese, early>>,
         phase'[Host] = phase[Host], state'[Host] = state[Host],
         (hidden \cup applyQueue \cup Told)' \subseteq hidden \cup applyQueue \cup Told
  PROVE  TableInv' /\ CausesKept /\ OnlyCaused
BY DEF ReasonInv, TableInv, CausesKept, Gone, OnlyCaused, AllUnknown

\* In the host's next run nothing is claimed; in its first it has had no table yet.
LEMMA NotifyRunBeginReason ==
  ASSUME ReasonInv, TypeOK', NEW p \in Peers, NotifyRunBegin(p)
  PROVE  TableInv' /\ CauseInv'
<1>1. /\ runs' = [runs EXCEPT ![p] = @ + 1]
      /\ phase' = [phase EXCEPT ![p] = "begun"]
      /\ state' = [state EXCEPT ![p] = AllUnknown]
      /\ cheese' = IF p = Host THEN {} ELSE cheese
      /\ applyQueue' \subseteq applyQueue /\ hidden' \subseteq hidden
      /\ UNCHANGED <<deltas, keyframes, early>>
  BY DEF NotifyRunBegin, wires
<1>2. (hidden \cup applyQueue \cup Told)' \subseteq hidden \cup applyQueue \cup Told
  BY <1>1 DEF Told
<1>3. CASE p = Host
  <2>1. /\ runs'[Host] = runs[Host] + 1 /\ runs[Host] \in Nat
        /\ phase'[Host] = "begun" /\ cheese' = {}
    BY <1>1, <1>3, TwoPeers, PickupsAssumption DEF ReasonInv, TypeOK
  <2>2. TableInv'
    BY <2>1 DEF TableInv
  <2>3. CASE runs[Host] = 0
    <3>1. phase[Host] = "menu" /\ state[Host] = AllUnknown
      BY <2>3 DEF ReasonInv, TableInv
    <3>2. CausesKept
      BY <1>1, <3>1 DEF CausesKept, Gone, AllUnknown
    <3>3. OnlyCaused
      BY <1>2 DEF OnlyCaused
    <3>4. runs'[Host] <= 1 => runs[Host] <= 1
      BY <2>3
    <3>5. QED
      BY <2>2, <3>2, <3>3, <3>4, CauseKept
  <2>4. CASE runs[Host] # 0
    <3>1. ~(runs'[Host] <= 1)
      BY <2>1, <2>4
    <3>2. QED
      BY <2>2, <3>1 DEF CauseInv
  <2>5. QED
    BY <2>3, <2>4
<1>4. CASE p # Host
  <2>1. /\ runs'[Host] = runs[Host] /\ phase'[Host] = phase[Host]
        /\ state'[Host] = state[Host] /\ cheese' = cheese
    BY <1>1, <1>4, TwoPeers DEF ReasonInv, TypeOK
  <2>2. TableInv' /\ CausesKept
    BY <1>1, <2>1 DEF ReasonInv, TableInv, CausesKept, Gone, AllUnknown
  <2>3. OnlyCaused
    BY <1>2 DEF OnlyCaused
  <2>4. QED
    BY <2>1, <2>2, <2>3, CauseKept
<1>5. QED
  BY <1>3, <1>4

\* The host's table gets its entries from what is in the maze.
LEMMA EnumerateReason ==
  ASSUME ReasonInv, NEW p \in Peers, Enumerate(p)
  PROVE  TableInv' /\ CausesKept /\ OnlyCaused
<1>1. /\ phase[p] = "spawned"
      /\ phase' = [phase EXCEPT ![p] = "enumerated"]
      /\ UNCHANGED <<runs, cheese, applyQueue, hidden, deltas, keyframes, early>>
  BY DEF Enumerate, clientVars, wires
<1>2. Told' = Told
  BY <1>1 DEF Told
<1>3. CASE p = Host
  <2>1. phase'[Host] = "enumerated"
    BY <1>1, <1>3, TwoPeers DEF ReasonInv, TypeOK
  <2>2. \A id \in Ids :
          state'[Host][id] = IF state[Host][id] = "unknown" /\ id \in cheese
                             THEN "present" ELSE state[Host][id]
    BY <1>3, EnumerateTyped DEF ReasonInv
  <2>3. TableInv'
    BY <1>1, <1>3, <2>1, <2>2 DEF ReasonInv, TableInv
  <2>4. CausesKept
    BY <1>1, <1>3, <2>2 DEF CausesKept, Gone
  <2>5. OnlyCaused
    BY <1>1, <1>2 DEF OnlyCaused
  <2>6. QED
    BY <2>3, <2>4, <2>5
<1>4. CASE p # Host
  <2>1. phase'[Host] = phase[Host] /\ state'[Host] = state[Host]
    BY <1>1, <1>4, TwoPeers, EnumerateTyped DEF ReasonInv, TypeOK
  <2>2. QED
    BY <1>1, <1>2, <2>1, NothingNew
<1>5. QED
  BY <1>3, <1>4

\* What the host does not grant it has collected or, in the maze, lost; or it was asked
\* for too early.
LEMMA OnPickupCollectedReason ==
  ASSUME ReasonInv, NEW id \in requests, OnPickupCollected(id)
  PROVE  TableInv' /\ CausesKept /\ OnlyCaused
<1>1. /\ id \in Ids
      /\ early' = IF phase[Host] # "enumerated" THEN early \cup {id} ELSE early
      /\ UNCHANGED <<runs, phase, cheese, applyQueue, hidden, keyframes>>
  BY DEF OnPickupCollected, gameVars, clientVars, ReasonInv, TypeOK
<1>2. CASE Grants(id)
  <2>1. Finalize(id)
    BY <1>2 DEF OnPickupCollected
  <2>2. phase[Host] # "menu"
    BY <1>1, <1>2 DEF Grants, ReasonInv, TableInv, AllUnknown
  <2>3. QED
    BY <1>1, <2>1, <2>2, FinalizeReason
<1>3. CASE ~Grants(id)
  <2>1. deltas' = deltas \cup {Delta(id, "collected")} /\ UNCHANGED state
    BY <1>3 DEF OnPickupCollected, Answer
  <2>2. TableInv' /\ CausesKept
    BY <1>1, <2>1 DEF ReasonInv, TableInv, CausesKept, Gone, AllUnknown
  <2>3. state[Host][id] \in {"unknown", "collected"}
    BY <1>1, <1>3, TwoPeers DEF Grants, ReasonInv, TypeOK
  <2>4. Gone(id)'
    BY <1>1, <2>1, <2>3 DEF Gone, ReasonInv, TableInv
  <2>5. \A i \in DOMAIN Delta(id, "collected") : Gone(i)'
    BY <1>1, <2>4, DeltaIsSync
  <2>6. deltas' \cup keyframes' \subseteq deltas \cup keyframes \cup {Delta(id, "collected")}
    BY <1>1, <2>1
  <2>7. OnlyCaused
    BY <1>1, <2>5, <2>6, SaidCaused
  <2>8. QED
    BY <2>2, <2>7
<1>4. QED
  BY <1>2, <1>3

LEMMA ReasonStep ==
  ASSUME ReasonInv, [Next]_vars
  PROVE  ReasonInv'
<1>1. TypeOK'
  BY TypedStep DEF ReasonInv
<1>2. ASSUME TableInv', CausesKept, OnlyCaused, runs'[Host] = runs[Host] PROVE ReasonInv'
  BY <1>1, <1>2, CauseKept DEF ReasonInv
<1>3. CASE UNCHANGED vars
  BY <1>2, <1>3, NothingNew DEF vars, gameVars, clientVars, wires, Told
<1>4. ASSUME NEW p \in Peers, NotifyRunBegin(p) PROVE ReasonInv'
  BY <1>1, <1>4, NotifyRunBeginReason DEF ReasonInv
<1>5. ASSUME NEW p \in Peers, SpawnAllCheese(p) PROVE ReasonInv'
  <2>1. /\ phase[p] = "begun"
        /\ phase' = [phase EXCEPT ![p] = "spawned"]
        /\ p # Host => cheese' = cheese
        /\ UNCHANGED <<runs, state, applyQueue, hidden, deltas, keyframes, early>>
    BY <1>5 DEF SpawnAllCheese, clientVars, wires
  <2>2. p = Host => phase'[Host] = "spawned"
    BY <2>1, TwoPeers DEF ReasonInv, TypeOK
  <2>3. p # Host => phase'[Host] = phase[Host]
    BY <2>1, TwoPeers DEF ReasonInv, TypeOK
  <2>4. TableInv' /\ CausesKept
    BY <2>1, <2>2, <2>3 DEF ReasonInv, TableInv, CausesKept, Gone, AllUnknown
  <2>5. OnlyCaused
    BY <2>1 DEF OnlyCaused, Told
  <2>6. QED
    BY <1>2, <2>1, <2>4, <2>5
<1>6. ASSUME NEW p \in Peers, Enumerate(p) PROVE ReasonInv'
  BY <1>2, <1>6, EnumerateReason DEF Enumerate
<1>7. ASSUME NEW id \in Ids, HostTakes(id) PROVE ReasonInv'
  <2>1. /\ cheese' = cheese \ {id}
        /\ UNCHANGED <<runs, phase, applyQueue, hidden, keyframes, early>>
    BY <1>7 DEF HostTakes, clientVars
  <2>2. CASE phase[Host] = "enumerated" /\ state[Host][id] = "present"
    <3>1. Finalize(id) /\ phase[Host] # "menu"
      BY <1>7, <2>2 DEF HostTakes
    <3>2. QED
      BY <1>2, <2>1, <3>1, FinalizeReason
  <2>3. CASE ~(phase[Host] = "enumerated" /\ state[Host][id] = "present")
    <3>1. UNCHANGED <<state, deltas>>
      BY <1>7, <2>3 DEF HostTakes
    <3>2. TableInv' /\ CausesKept
      BY <2>1, <3>1 DEF ReasonInv, TableInv, CausesKept, Gone, AllUnknown
    <3>3. OnlyCaused
      BY <2>1, <3>1 DEF OnlyCaused, Told
    <3>4. QED
      BY <1>2, <2>1, <3>2, <3>3
  <2>4. QED
    BY <2>2, <2>3
<1>8. ASSUME NEW id \in Ids, Request(id) PROVE ReasonInv'
  <2>1. state'[Host] = state[Host]
    BY <1>8, TwoPeers DEF Request, ReasonInv, TypeOK
  <2>2. UNCHANGED <<runs, phase, cheese, applyQueue, hidden, deltas, keyframes, early>>
    BY <1>8 DEF Request, gameVars, clientVars
  <2>3. QED
    BY <1>2, <2>1, <2>2, NothingNew DEF Told
<1>9. ASSUME Drain PROVE ReasonInv'
  <2>1. /\ hidden' = hidden \cup applyQueue /\ applyQueue' = {}
        /\ UNCHANGED <<runs, phase, cheese, state, deltas, keyframes, early>>
    BY <1>9 DEF Drain, gameVars, wires
  <2>2. QED
    BY <1>2, <2>1, NothingNew DEF Told
<1>10. ASSUME NEW id \in requests, OnPickupCollected(id) PROVE ReasonInv'
  BY <1>2, <1>10, OnPickupCollectedReason DEF OnPickupCollected, gameVars
<1>11. ASSUME SendKeyframe PROVE ReasonInv'
  <2>1. /\ keyframes' = keyframes \cup {Keyframe}
        /\ UNCHANGED <<runs, phase, cheese, state, applyQueue, hidden, deltas, early>>
    BY <1>11 DEF SendKeyframe, gameVars, clientVars
  <2>2. TableInv' /\ CausesKept
    BY <2>1 DEF ReasonInv, TableInv, CausesKept, Gone, AllUnknown
  <2>3. PICK sync : sync = Keyframe
    OBVIOUS
  <2>4. \A id \in DOMAIN sync : sync[id] = "collected" => Gone(id)'
    BY <2>1, <2>3, KeyframeIsSync DEF Gone, ReasonInv
  <2>5. OnlyCaused
    BY <2>1, <2>3, <2>4, SaidCaused
  <2>6. QED
    BY <1>2, <2>1, <2>2, <2>5
<1>12. ASSUME NEW k \in keyframes, LoseKeyframe(k) PROVE ReasonInv'
  <2>1. /\ keyframes' = keyframes \ {k}
        /\ UNCHANGED <<runs, phase, cheese, state, applyQueue, hidden, deltas, early>>
    BY <1>12 DEF LoseKeyframe, gameVars, clientVars
  <2>2. QED
    BY <1>2, <2>1, NothingNew DEF Told
<1>13. ASSUME NEW k \in keyframes, OnKeyframe(k) PROVE ReasonInv'
  <2>1. Mirror(k) /\ keyframes' \subseteq keyframes /\ deltas' \subseteq deltas /\ runs' = runs
    BY <1>13 DEF OnKeyframe, Mirror, gameVars
  <2>2. QED
    BY <1>2, <2>1, MirrorReason
<1>14. ASSUME NEW d \in deltas, OnDelta(d) PROVE ReasonInv'
  <2>1. Mirror(d) /\ keyframes' \subseteq keyframes /\ deltas' \subseteq deltas /\ runs' = runs
    BY <1>14 DEF OnDelta, Mirror, gameVars
  <2>2. QED
    BY <1>2, <2>1, MirrorReason
<1>15. QED
  BY <1>3, <1>4, <1>5, <1>6, <1>7, <1>8, <1>9, <1>10, <1>11, <1>12, <1>13, <1>14 DEF Next

\* What the client hides, queues or is told to hide has a cause (on_message at both
\* peers, and drainInboundToWorld, Game/Pickups.cpp).
THEOREM ReasonsHold == Spec => []ReasonInv
<1>1. Init => ReasonInv
  BY ReasonInit
<1>2. ReasonInv /\ [Next]_vars => ReasonInv'
  BY ReasonStep
<1>3. QED
  BY <1>1, <1>2, PTL DEF Spec

\* In the host's first run the client hides no pickup without cause, whenever its own
\* runs begin.  In a later one a pickup hidden in the last run is there again.
THEOREM HiddenWithCause == Spec => [](runs[Host] <= 1 => PickupsInv)
<1>1. ReasonInv => (runs[Host] <= 1 => PickupsInv)
  BY DEF ReasonInv, CauseInv, Gone, PickupsInv, NoPhantom
<1>2. QED
  BY <1>1, ReasonsHold, PTL
=============================================================================
