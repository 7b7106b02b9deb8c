------------------------------ MODULE Pickups -------------------------------
(***************************************************************************)
(* Game/Pickups.cpp, the pickups that are to replace the cheese sync of    *)
(* dllmain.cpp.  The host decides what is collected: by its own rat, or    *)
(* when the client asks.  The client hides a pickup when the host says     *)
(* that it is collected, in a reliable delta or in the keyframe of all     *)
(* pickups that the host sends every second on the unreliable channel.     *)
(*                                                                         *)
(* The loop thread runs on_net_tick and on_message, the game thread the    *)
(* rest; each takes the shared mutex for single steps, between which the   *)
(* other may run.  m_outReqs and m_outStateDeltas are emptied onto the     *)
(* reliable channel: queue and channel are one set.  Ids are those of      *)
(* PickupIds.  m_keyframeReady only brings the next keyframe forward.      *)
(*                                                                         *)
(* The game is modelled from how the code uses it: Spawn All Cheese runs   *)
(* once in a maze, the name of the collect function is found, and the      *)
(* client's rat takes nothing before its cheese loses its collision.       *)
(***************************************************************************)
EXTENDS Integers, FiniteSets

CONSTANTS
  Host, Client,  \* the two peers
  Ids,           \* the pickups that both generators spawn
  MaxRuns,       \* bound: runs each peer begins
  MaxKeyframes   \* bound: keyframes on their way at once

ASSUME PickupsAssumption ==
  /\ Host # Client
  /\ MaxRuns \in Nat /\ MaxKeyframes \in Nat
  /\ IsFiniteSet(Ids) /\ Cardinality(Ids) <= 255  \* what a keyframe holds

Peers == {Host, Client}

VARIABLES
  runs,      \* runs each peer has begun
  phase,     \* "menu", "begun", "spawned" or "enumerated"
  cheese,    \* the pickups in the host's maze
  state,     \* m_pickupState; "unknown" for an id it does not have
  count,     \* the host's m_cheeseCount
  applyQueue,\* the client's m_applyQueue
  hidden,    \* pickups the client has hidden
  requests,  \* PickupCollected frames on their way to the host
  deltas,    \* PickupStateSync frames on the reliable channel
  keyframes, \* and on the unreliable one
  early      \* history: pickups the host was asked for before it had enumerated

gameVars == <<runs, phase, cheese>>
clientVars == <<applyQueue, hidden>>
wires == <<requests, deltas, keyframes>>
vars == <<gameVars, state, count, clientVars, wires, early>>

\* The body of a PickupStateSync: what it says of which pickups.
Syncs == UNION {[s -> {"present", "collected"}] : s \in SUBSET Ids}

TypeOK ==
  /\ runs \in [Peers -> 0 .. MaxRuns]
  /\ phase \in [Peers -> {"menu", "begun", "spawned", "enumerated"}]
  /\ cheese \subseteq Ids
  /\ state \in [Peers -> [Ids -> {"unknown", "present", "requested", "collected"}]]
  /\ \A id \in Ids : state[Host][id] # "requested"
  /\ count \in 0 .. 255
  /\ applyQueue \subseteq Ids
  /\ hidden \subseteq Ids
  /\ requests \subseteq Ids
  /\ deltas \subseteq Syncs
  /\ keyframes \subseteq Syncs
  /\ early \subseteq Ids

AllUnknown == [id \in Ids |-> "unknown"]

Init ==
  /\ runs = [p \in Peers |-> 0]
  /\ phase = [p \in Peers |-> "menu"]
  /\ cheese = {}
  /\ state = [p \in Peers |-> AllUnknown]
  /\ count = 0
  /\ applyQueue = {} /\ hidden = {}
  /\ requests = {} /\ deltas = {} /\ keyframes = {}
  /\ early = {}

-----------------------------------------------------------------------------
(* The game thread.                                                        *)

\* notify_run_begin; the maze of the last run is gone.
NotifyRunBegin(p) ==
  /\ runs[p] < MaxRuns
  /\ runs' = [runs EXCEPT ![p] = @ + 1]
  /\ phase' = [phase EXCEPT ![p] = "begun"]
  /\ state' = [state EXCEPT ![p] = AllUnknown]
  /\ cheese' = IF p = Host THEN {} ELSE cheese
  /\ count' = IF p = Host THEN 0 ELSE count
  /\ applyQueue' = IF p = Client THEN {} ELSE applyQueue
  /\ hidden' = IF p = Client THEN {} ELSE hidden
  /\ UNCHANGED <<wires, early>>

SpawnAllCheese(p) ==
  /\ phase[p] = "begun"
  /\ phase' = [phase EXCEPT ![p] = "spawned"]
  /\ cheese' = IF p = Host THEN Ids ELSE cheese
  /\ UNCHANGED <<runs, state, count, clientVars, wires, early>>

\* enumerateAndAssignIds, half a second later: what the host has lost by then gets no
\* id; what the client has heard of before stays.
Enumerate(p) ==
  /\ phase[p] = "spawned"
  /\ phase' = [phase EXCEPT ![p] = "enumerated"]
  /\ state' = [state EXCEPT ![p] =
       [id \in Ids |-> IF @[id] = "unknown" /\ (p = Host => id \in cheese)
                       THEN "present" ELSE @[id]]]
  /\ UNCHANGED <<runs, cheese, count, clientVars, wires, early>>

Delta(id, s) == [i \in {id} |-> s]

\* The host finds a pickup collected, by whom ever: state, count and delta.
Finalize(id) ==
  /\ state' = [state EXCEPT ![Host][id] = "collected"]
  /\ count' = (count + 1) % 256
  /\ deltas' = deltas \cup {Delta(id, "collected")}

\* The host's rat takes a pickup that is there, which may be one the client has taken:
\* the host does not hide those.  onCheeseCollectHook ignores it then, and before the
\* pickups are enumerated.
HostTakes(id) ==
  /\ id \in cheese
  /\ cheese' = cheese \ {id}
  /\ IF phase[Host] = "enumerated" /\ state[Host][id] = "present"
     THEN Finalize(id)
     ELSE UNCHANGED <<state, count, deltas>>
  /\ UNCHANGED <<runs, phase, clientVars, requests, keyframes, early>>

\* drainInboundToWorld.
Drain ==
  /\ phase[Client] = "enumerated"
  /\ applyQueue # {}
  /\ applyQueue' = {}
  /\ hidden' = hidden \cup applyQueue
  /\ UNCHANGED <<gameVars, state, count, wires, early>>

\* clientProximityScan finds the rat near a pickup, hidden or not, that is present for
\* all the client knows, and asks for it.
Request(id) ==
  /\ phase[Client] = "enumerated"
  /\ state[Client][id] = "present"
  /\ state' = [state EXCEPT ![Client][id] = "requested"]
  /\ requests' = requests \cup {id}
  /\ UNCHANGED <<gameVars, count, clientVars, deltas, keyframes, early>>

-----------------------------------------------------------------------------
(* The loop thread.                                                        *)

\* Mutation: a request for anything known is granted.
Grants_Known(id) == state[Host][id] # "unknown"

Grants(id) == state[Host][id] = "present"

\* The answer to a request that is not granted: collected, or unknown and so gone.
Answer(id) == {Delta(id, "collected")}

\* on_message at the host: PickupCollected.
OnPickupCollected(id) ==
  /\ id \in requests
  /\ requests' = requests \ {id}
  /\ early' = IF phase[Host] # "enumerated" THEN early \cup {id} ELSE early
  /\ IF Grants(id)
     THEN Finalize(id)
     ELSE /\ deltas' = deltas \cup Answer(id)
          /\ UNCHANGED <<state, count>>
  /\ UNCHANGED <<gameVars, clientVars, keyframes>>

\* Mutation: a keyframe lists what is collected.
Keyframe_CollectedOnly ==
  [id \in {i \in Ids : state[Host][i] = "collected"} |-> "collected"]

Keyframe == [id \in {i \in Ids : state[Host][i] # "unknown"} |-> state[Host][id]]

\* on_net_tick at the host, a second after the last time.
SendKeyframe ==
  /\ DOMAIN Keyframe # {}
  /\ Cardinality(keyframes) < MaxKeyframes
  /\ keyframes' = keyframes \cup {Keyframe}
  /\ UNCHANGED <<gameVars, state, count, clientVars, requests, deltas, early>>

LoseKeyframe(k) ==
  /\ k \in keyframes
  /\ keyframes' = keyframes \ {k}
  /\ UNCHANGED <<gameVars, state, count, clientVars, requests, deltas, early>>

\* Mutation: whatever the host speaks of is hidden.
ToHide_All(sync) == DOMAIN sync

\* Mutation: a pickup that was asked for is not hidden.
ToHide_Present(sync) ==
  {id \in DOMAIN sync : sync[id] = "collected" /\ state[Client][id] \in {"unknown", "present"}}

\* The pickups that were not collected and now are.
ToHide(sync) == {id \in DOMAIN sync : sync[id] = "collected" /\ state[Client][id] # "collected"}

\* on_message at the client: PickupStateSync, delta or keyframe, old or new.
Mirror(sync) ==
  /\ state' = [state EXCEPT ![Client] =
       [id \in Ids |-> IF id \in DOMAIN sync THEN sync[id] ELSE @[id]]]
  /\ applyQueue' = applyQueue \cup ToHide(sync)
  /\ UNCHANGED <<gameVars, count, hidden, requests, early>>

OnDelta(sync) == sync \in deltas /\ deltas' = deltas \ {sync} /\ Mirror(sync) /\ UNCHANGED keyframes

OnKeyframe(sync) ==
  sync \in keyframes /\ keyframes' = keyframes \ {sync} /\ Mirror(sync) /\ UNCHANGED deltas

-----------------------------------------------------------------------------
Next ==
  \/ \E p \in Peers : NotifyRunBegin(p) \/ SpawnAllCheese(p) \/ Enumerate(p)
  \/ \E id \in Ids : HostTakes(id) \/ Request(id)
  \/ Drain
  \/ \E id \in requests : OnPickupCollected(id)
  \/ SendKeyframe
  \/ \E k \in keyframes : LoseKeyframe(k) \/ OnKeyframe(k)
  \/ \E d \in deltas : OnDelta(d)

Spec == Init /\ [][Next]_vars

\* The reliable channel hands frames over in some order; a keyframe is sent every second
\* and one that is sent again and again arrives, an older one arrives or is lost; the
\* client's rat ticks.  Nobody has to begin a run or to take anything.
Fairness ==
  /\ \A id \in Ids : WF_vars(OnPickupCollected(id))
  /\ WF_vars(\E d \in deltas : OnDelta(d))
  /\ WF_vars(SendKeyframe)
  /\ SF_vars(OnKeyframe(Keyframe))
  /\ WF_vars(\E k \in keyframes \ {Keyframe} : LoseKeyframe(k) \/ OnKeyframe(k))
  /\ WF_vars(Drain)

FairSpec == Spec /\ Fairness

-----------------------------------------------------------------------------
(* Correctness.                                                            *)

Authority == INSTANCE PickupAuthority WITH
  collected <- {id \in Ids : state[Host][id] = "collected"}, count <- count

\* The host's table implements the abstract authority: although the host's rat can take
\* what the client has taken, and requests cross both, every pickup is collected and
\* counted once.
AuthoritySpec == Authority!Spec

\* The client hides a pickup only if the host has it collected or its rat had taken it
\* before it got an id; or the client asked before the host had enumerated: what the
\* host does not know yet it takes for gone.
NoPhantom == \A id \in hidden : state[Host][id] = "collected" \/ id \notin cheese \/ id \in early

\* "Any local divergence self-heals on the host's next 1 Hz keyframe" (s2.md), of the
\* table: though keyframes and deltas overtake each other, keyframes are lost and early
\* requests are answered wrongly, in the end the client has the host's state of whatever
\* the host knows, and no request of the client is pending.
MirrorConverges ==
  <>[](\A id \in Ids :
         /\ state[Client][id] # "requested"
         /\ state[Host][id] # "unknown" => state[Client][id] = state[Host][id])

\* What the host has collected is hidden at a client that is in the maze.
CollectedIsHidden ==
  \A id \in Ids :
    (state[Host][id] = "collected" /\ phase[Client] = "enumerated") ~> id \in hidden


\* The tables keep their states, and no pickup is hidden from the client without cause.
PickupsInv == TypeOK /\ NoPhantom
=============================================================================
