----------------------------- MODULE DeathSync ------------------------------
(***************************************************************************)
(* dllmain.cpp, "M6 death".  Each peer watches its own rat: the pre-hook   *)
(* of Kill Rat and a poll of "Is Dead" announce its death.  The host also  *)
(* watches the puppet of the client's rat, as only the host has enemies    *)
(* that live: when the puppet dies it announces the client's death, and    *)
(* the client kills its own rat.                                           *)
(*                                                                         *)
(* The loop thread sets m_pendingApplyOwnDeath, the game thread reads and  *)
(* clears it, without a lock.  The loop thread only ever sets it, so that  *)
(* what it does in the middle of a rat tick it might as well do before.    *)
(* Frames wait in m_outFrames and cross the reliable channel: both are one *)
(* set, wire.                                                              *)
(*                                                                         *)
(* The game is modelled from how the code uses it: Kill Rat sets Is Dead   *)
(* before the next tick, a trap sets it without Kill Rat, and a rat stays  *)
(* dead until the next maze.                                               *)
(***************************************************************************)
EXTENDS Integers, FiniteSets

CONSTANTS
  Host, Client,  \* the two peers, also as the player ids of their rats
  MaxMazes       \* bound: mazes each peer enters

Peers == {Host, Client}

Other(p) == IF p = Host THEN Client ELSE Host

ASSUME DeathAssumption == Host # Client /\ MaxMazes \in Nat

VARIABLES
  maze,          \* number of the maze each peer is in; 0 before the first
  isDead,        \* Is Dead of the peer's own rat
  puppet,        \* m_puppet, the other's rat: "none", "alive" or "dead"
  ratDead,       \* m_ratDead: the rats whose entry is true
  pendingApply,  \* m_pendingApplyOwnDeath
  wire,          \* wire[p]: Death frames on their way to p
  announced,     \* history: announced[p][r]: deaths of r that p announced in its maze
  killer,        \* history: who killed the peer's rat: "nobody", "game", "peer"
  killedTwice    \* history: Kill Rat was called on a rat that was dead

gameVars == <<maze, isDead, puppet>>
modVars == <<ratDead, pendingApply>>
historyVars == <<announced, killer, killedTwice>>
vars == <<gameVars, modVars, wire, historyVars>>

\* A frame names the rat; maze and n tell announcements apart.
Death(p, r) == [rat |-> r, maze |-> maze[p], n |-> announced[p][r] + 1]

TypeOK ==
  /\ maze \in [Peers -> 0 .. MaxMazes]
  /\ isDead \in [Peers -> BOOLEAN]
  /\ puppet \in [Peers -> {"none", "alive", "dead"}]
  /\ ratDead \in [Peers -> SUBSET Peers]
  /\ pendingApply \in [Peers -> BOOLEAN]
  /\ wire \in [Peers -> SUBSET [rat : Peers, maze : 1 .. MaxMazes, n : Nat]]
  /\ announced \in [Peers -> [Peers -> Nat]]
  /\ killer \in [Peers -> {"nobody", "game", "peer"}]
  /\ killedTwice \in BOOLEAN

NoneAnnounced == [r \in Peers |-> 0]

Init ==
  /\ maze = [p \in Peers |-> 0]
  /\ isDead = [p \in Peers |-> FALSE]
  /\ puppet = [p \in Peers |-> "none"]
  /\ ratDead = [p \in Peers |-> {}]
  /\ pendingApply = [p \in Peers |-> FALSE]
  /\ wire = [p \in Peers |-> {}]
  /\ announced = [p \in Peers |-> NoneAnnounced]
  /\ killer = [p \in Peers |-> "nobody"]
  /\ killedTwice = FALSE

-----------------------------------------------------------------------------
(* What the game does.                                                     *)

\* Mutation: m_ratDead is not looked at.
Announce_Again(p, rats, dead) ==
  /\ ratDead' = [ratDead EXCEPT ![p] = dead \cup rats]
  /\ wire' = [wire EXCEPT ![Other(p)] = @ \cup {Death(p, r) : r \in rats}]
  /\ announced' = [announced EXCEPT ![p] =
       [r \in Peers |-> @[r] + (IF r \in rats THEN 1 ELSE 0)]]

\* p finds rats dead, and announces those for which m_ratDead (now dead) is false.
Announce(p, rats, dead) ==
  LET new == rats \ dead IN
  /\ ratDead' = [ratDead EXCEPT ![p] = dead \cup new]
  /\ wire' = [wire EXCEPT ![Other(p)] = @ \cup {Death(p, r) : r \in new}]
  /\ announced' = [announced EXCEPT ![p] =
       [r \in Peers |-> @[r] + (IF r \in new THEN 1 ELSE 0)]]

\* The game calls Kill Rat on the own rat: onRatKilled, then the body.
KillOwnRat(p) ==
  /\ maze[p] > 0
  /\ Announce(p, {p}, ratDead[p])
  /\ isDead' = [isDead EXCEPT ![p] = TRUE]
  /\ killer' = [killer EXCEPT ![p] = IF @ = "nobody" THEN "game" ELSE @]
  /\ UNCHANGED <<maze, puppet, pendingApply, killedTwice>>

\* A trap sets Is Dead without Kill Rat.
TrapKillsOwnRat(p) ==
  /\ maze[p] > 0
  /\ ~isDead[p]
  /\ isDead' = [isDead EXCEPT ![p] = TRUE]
  /\ killer' = [killer EXCEPT ![p] = "game"]
  /\ UNCHANGED <<maze, puppet, modVars, wire, announced, killedTwice>>

\* The game calls Kill Rat on the puppet: onRatKilled, where only the host acts.
KillPuppet(p) ==
  /\ puppet[p] # "none"
  /\ Announce(p, IF p = Host THEN {Other(p)} ELSE {}, ratDead[p])
  /\ puppet' = [puppet EXCEPT ![p] = "dead"]
  /\ UNCHANGED <<maze, isDead, pendingApply, killer, killedTwice>>

TrapKillsPuppet(p) ==
  /\ puppet[p] = "alive"
  /\ puppet' = [puppet EXCEPT ![p] = "dead"]
  /\ UNCHANGED <<maze, isDead, modVars, wire, historyVars>>

-----------------------------------------------------------------------------
(* The loop thread.                                                        *)

\* Mutation: the id in the frame is compared with the other's.
DispatchDeath_Swapped(p, f) ==
  /\ f \in wire[p]
  /\ wire' = [wire EXCEPT ![p] = @ \ {f}]
  /\ pendingApply' = [pendingApply EXCEPT ![p] = @ \/ f.rat # p]
  /\ UNCHANGED <<gameVars, ratDead, historyVars>>

DispatchDeath(p, f) ==
  /\ f \in wire[p]
  /\ wire' = [wire EXCEPT ![p] = @ \ {f}]
  /\ pendingApply' = [pendingApply EXCEPT ![p] = @ \/ f.rat = p]
  /\ UNCHANGED <<gameVars, ratDead, historyVars>>

-----------------------------------------------------------------------------
(* The game thread.                                                        *)

\* onMazeGenBegin: a new maze with a new rat; the puppet is gone.
BeginMaze(p) ==
  /\ maze[p] < MaxMazes
  /\ maze' = [maze EXCEPT ![p] = @ + 1]
  /\ isDead' = [isDead EXCEPT ![p] = FALSE]
  /\ puppet' = [puppet EXCEPT ![p] = "none"]
  /\ ratDead' = [ratDead EXCEPT ![p] = {}]
  /\ pendingApply' = [pendingApply EXCEPT ![p] = FALSE]
  /\ announced' = [announced EXCEPT ![p] = NoneAnnounced]
  /\ killer' = [killer EXCEPT ![p] = "nobody"]
  /\ UNCHANGED <<wire, killedTwice>>

\* Mutation: the announced death is applied before Is Dead is polled.
KnownDead_NotPolled(p) == ratDead[p]

\* m_ratDead after the poll, when the announced death is looked at.
KnownDead(p) == IF isDead[p] THEN ratDead[p] \cup {p} ELSE ratDead[p] \ {p}

\* Mutation: m_ratDead is not set before Kill Rat is called.
Latch_NotSet(p, applies) == IF isDead[p] THEN ratDead[p] ELSE ratDead[p] \ {p}

\* m_ratDead without the deaths this tick announces: the poll clears the entry of a
\* rat that lives, an applied death sets it.
Latch(p, applies) ==
  IF isDead[p] THEN ratDead[p]
  ELSE IF applies THEN ratDead[p] \cup {p} ELSE ratDead[p] \ {p}

\* Mutation: Is Dead of the own rat is not polled.
FoundDead_HookOnly(p) == IF p = Host /\ puppet[p] = "dead" THEN {Other(p)} ELSE {}

\* The rats whose Is Dead the polls find set: the own one, and the host's puppet.
FoundDead(p) ==
  (IF isDead[p] THEN {p} ELSE {})
    \cup (IF p = Host /\ puppet[p] = "dead" THEN {Other(p)} ELSE {})

\* A tick of the own rat: the poll of Is Dead; the death the peer announced, applied
\* by Kill Rat unless the rat is known to be dead (m_applyingRemoteDeath keeps the
\* hook out of it); then maintainPuppet, which spawns the puppet once the peer's rat
\* has been heard of (haveRemote), and polls it at the host.
RatTick(p, haveRemote) ==
  LET applies == pendingApply[p] /\ p \notin KnownDead(p) IN
  /\ maze[p] > 0
  /\ Announce(p, FoundDead(p), Latch(p, applies))
  /\ pendingApply' = [pendingApply EXCEPT ![p] = FALSE]
  /\ isDead' = [isDead EXCEPT ![p] = @ \/ applies]
  /\ killer' = [killer EXCEPT ![p] = IF applies THEN "peer" ELSE @]
  /\ killedTwice' = (killedTwice \/ (applies /\ isDead[p]))
  /\ puppet' = [puppet EXCEPT ![p] = IF @ = "none" /\ haveRemote THEN "alive" ELSE @]
  /\ UNCHANGED maze

-----------------------------------------------------------------------------
Next ==
  \E p \in Peers :
    \/ KillOwnRat(p)
    \/ TrapKillsOwnRat(p)
    \/ KillPuppet(p)
    \/ TrapKillsPuppet(p)
    \/ BeginMaze(p)
    \/ \E f \in wire[p] : DispatchDeath(p, f)
    \/ \E haveRemote \in BOOLEAN : RatTick(p, haveRemote)

Spec == Init /\ [][Next]_vars

\* The rat ticks on every frame, dead or not, and the reliable channel hands every
\* frame over; nobody has to die or to enter a maze.
Fairness ==
  \A p \in Peers :
    /\ WF_vars(\E haveRemote \in BOOLEAN : RatTick(p, haveRemote))
    /\ WF_vars(\E f \in wire[p] : DispatchDeath(p, f))

FairSpec == Spec /\ Fairness

-----------------------------------------------------------------------------
(* Correctness.                                                            *)

\* "this and the Kill Rat hook never double-broadcast" (dllmain.cpp): whatever the
\* order of hook, poll and the peer's announcement, one peer announces the death of
\* one rat at most once in a maze.
AnnouncedOnce == \A p, r \in Peers : announced[p][r] <= 1

\* Only the host announces the death of the other's rat, and a peer announces that of
\* its own only if its own game killed it: an applied death does not come back.
AnnouncedByAuthority ==
  /\ announced[Client][Host] = 0
  /\ \A p \in Peers : announced[p][p] > 0 => killer[p] = "game"

\* Kill Rat is never called on a rat that is dead already, even if a trap has killed
\* it between the arrival of the peer's announcement and the tick that applies it.
KillsTheLiving == ~killedTwice

\* A rat's death is announced whatever its cause: with or without Kill Rat, of the
\* own rat or of the host's puppet, unless it came from the peer in the first place.
\* The host's next maze may come first.
DeathIsAnnounced ==
  \A p \in Peers, r \in Peers, m \in 1 .. MaxMazes :
    (/\ maze[p] = m
     /\ \/ r = p /\ isDead[p]
        \/ r = Client /\ p = Host /\ puppet[p] = "dead")
      ~> \/ announced[p][r] > 0
         \/ r = p /\ killer[p] = "peer"
         \/ maze[p] # m

\* The death of its rat that the host announces while the client is in the same maze
\* is applied there, unless the client leaves first.
DeathIsApplied ==
  \A m \in 1 .. MaxMazes :
    (maze[Client] = m /\ \E f \in wire[Client] : f.rat = Client /\ f.maze = m)
      ~> (isDead[Client] \/ maze[Client] # m)

\* Whatever the order of traps, hooks, polls and announcements, the hook kills the living.
DeathInv == TypeOK /\ KillsTheLiving
=============================================================================
