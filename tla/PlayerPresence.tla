--------------------------- MODULE PlayerPresence ---------------------------
(***************************************************************************)
(* dllmain.cpp, "M2": where the peer's rat is.  The sender's rat tick      *)
(* leaves a snapshot for the loop thread, which sends it at 20 Hz on the   *)
(* unreliable channel; the receiver keeps the last one that arrived, and   *)
(* its rat tick spawns a puppet and drives it there.  The other direction  *)
(* is the same with the roles swapped.                                     *)
(*                                                                         *)
(* The receiver's game may load a level, which destroys every actor and    *)
(* makes a new world, or build a new maze in the same world.  Only         *)
(* onMazeGenBegin hears of it, and it tells the two apart by comparing     *)
(* world pointers.                                                         *)
(*                                                                         *)
(* The game is modelled from how the code uses it: in a new world the      *)
(* generator's ReceiveBeginPlay comes before any rat's ReceiveTick, and a  *)
(* new world is not put at the address of the one m_curWorld points to.    *)
(***************************************************************************)
EXTENDS Integers, FiniteSets

CONSTANTS
  Worlds,    \* addresses a world may have
  NoWorld,   \* nullptr
  MaxMazes,  \* bound: mazes the sender enters
  MaxSteps,  \* bound: places the sender's rat visits in a maze
  MaxLevels, \* bound: levels the receiver's game loads
  MaxBegins  \* bound: mazes the receiver's game builds

ASSUME PresenceAssumption ==
  /\ NoWorld \notin Worlds
  /\ MaxMazes \in Nat /\ MaxLevels \in Nat /\ MaxBegins \in Nat
  /\ MaxSteps \in Nat \ {0}  \* a rat that is in a maze is at a place of it

VARIABLES
  rat,         \* where the sender's rat is
  outLocal,    \* the sender's m_outLocal; Nowhere while m_haveLocal is false
  wire,        \* PlayerState frames on their way
  world,       \* the world the receiver's game runs
  levels,      \* number of levels loaded
  begun,       \* the generator of this world has begun play
  live,        \* puppets that exist in the game
  curWorld,    \* the receiver's m_curWorld
  inRemote,    \* the receiver's m_inRemote
  haveRemote,  \* the receiver's m_haveRemote
  puppet,      \* the receiver's m_puppet; 0 for nullptr
  shown,       \* where the puppet was driven to
  begins,      \* history: number of mazes the receiver's game has built
  deadUsed     \* history: a puppet that does not exist was dereferenced

senderVars == <<rat, outLocal>>
gameVars == <<world, levels, begun, live>>
modVars == <<curWorld, inRemote, haveRemote, puppet, shown>>
vars == <<senderVars, wire, gameVars, modVars, begins, deadUsed>>

Nowhere == [maze |-> 0, step |-> 0]
Places == [maze : 1 .. MaxMazes, step : 1 .. MaxSteps]

\* A snapshot as it is kept: arrived is the maze the receiver had built by then.
Snapshots == [place : Places \cup {Nowhere}, arrived : 0 .. MaxBegins]
NoSnapshot == [place |-> Nowhere, arrived |-> 0]

TypeOK ==
  /\ rat \in Places \cup {Nowhere}
  /\ outLocal \in Places \cup {Nowhere}
  /\ wire \subseteq Places
  /\ world \in Worlds \cup {NoWorld}
  /\ levels \in 0 .. MaxLevels
  /\ begun \in BOOLEAN
  /\ live \subseteq 1 .. MaxBegins
  /\ curWorld \in Worlds \cup {NoWorld}
  /\ inRemote \in Snapshots
  /\ haveRemote \in BOOLEAN
  /\ puppet \in 0 .. MaxBegins
  /\ shown \in Snapshots
  /\ begins \in 0 .. MaxBegins
  /\ deadUsed \in BOOLEAN

Init ==
  /\ rat = Nowhere /\ outLocal = Nowhere
  /\ wire = {}
  /\ world = NoWorld /\ levels = 0 /\ begun = FALSE /\ live = {}
  /\ curWorld = NoWorld
  /\ inRemote = NoSnapshot /\ haveRemote = FALSE
  /\ puppet = 0 /\ shown = NoSnapshot
  /\ begins = 0 /\ deadUsed = FALSE

-----------------------------------------------------------------------------
(* The sender.                                                             *)

\* The game puts the rat into the next maze.
SenderEntersMaze ==
  /\ rat.maze < MaxMazes
  /\ rat' = [maze |-> rat.maze + 1, step |-> 1]
  /\ UNCHANGED <<outLocal, wire, gameVars, modVars, begins, deadUsed>>

SenderMoves ==
  /\ rat # Nowhere
  /\ rat.step < MaxSteps
  /\ rat' = [rat EXCEPT !.step = @ + 1]
  /\ UNCHANGED <<outLocal, wire, gameVars, modVars, begins, deadUsed>>

\* The tick of the sender's rat fills the snapshot.
SenderTick ==
  /\ rat # Nowhere
  /\ outLocal' = rat
  /\ UNCHANGED <<rat, wire, gameVars, modVars, begins, deadUsed>>

\* The loop thread, 50 ms after the last time, sends the snapshot: whichever maze it
\* is of, as it is not cleared when a new one begins.
SendSnapshot ==
  /\ outLocal # Nowhere
  /\ wire' = wire \cup {outLocal}
  /\ UNCHANGED <<senderVars, gameVars, modVars, begins, deadUsed>>

LoseSnapshot(f) ==
  /\ f \in wire
  /\ wire' = wire \ {f}
  /\ UNCHANGED <<senderVars, gameVars, modVars, begins, deadUsed>>

-----------------------------------------------------------------------------
(* The receiver.                                                           *)

\* Mutation: the first snapshot is kept.
DispatchPlayerState_FirstWins(f) ==
  /\ f \in wire
  /\ wire' = wire \ {f}
  /\ inRemote' = IF haveRemote THEN inRemote ELSE [place |-> f, arrived |-> begins]
  /\ haveRemote' = TRUE
  /\ UNCHANGED <<senderVars, gameVars, curWorld, puppet, shown, begins, deadUsed>>

\* The loop thread keeps the snapshot, newer or not.
DispatchPlayerState(f) ==
  /\ f \in wire
  /\ wire' = wire \ {f}
  /\ inRemote' = [place |-> f, arrived |-> begins]
  /\ haveRemote' = TRUE
  /\ UNCHANGED <<senderVars, gameVars, curWorld, puppet, shown, begins, deadUsed>>

\* The game loads a level: every actor of the old world goes with it.
LoadLevel(w) ==
  /\ levels < MaxLevels
  /\ w # curWorld
  /\ world' = w /\ levels' = levels + 1
  /\ begun' = FALSE
  /\ live' = {}
  /\ UNCHANGED <<senderVars, wire, modVars, begins, deadUsed>>

\* Mutation: the world is compared after m_curWorld is set.
SameWorld_Late == TRUE

\* sameWorld in onMazeGenBegin.
SameWorld == world = curWorld

\* Mutation: a puppet of the same world is dropped like one of another.
DestroyPuppet_Never ==
  /\ live' = live
  /\ deadUsed' = deadUsed

\* K2_DestroyActor on the puppet, if the mod has one and takes it for alive.
DestroyPuppet ==
  LET destroys == puppet # 0 /\ SameWorld IN
  /\ live' = IF destroys THEN live \ {puppet} ELSE live
  /\ deadUsed' = (deadUsed \/ (destroys /\ puppet \notin live))

ForgetRemote == haveRemote' = FALSE

\* onMazeGenBegin: a maze in a world just loaded, or a new one in the same world.
BeginMaze ==
  /\ world # NoWorld
  /\ begins < MaxBegins
  /\ begun' = TRUE
  /\ begins' = begins + 1
  /\ DestroyPuppet
  /\ puppet' = 0
  /\ shown' = NoSnapshot
  /\ ForgetRemote
  /\ curWorld' = world
  /\ UNCHANGED <<senderVars, wire, world, levels, inRemote>>

\* The tick of the receiver's own rat: m_curWorld, then maintainPuppet.  Without a
\* snapshot it does nothing; without a puppet it spawns one, or tries again in the
\* next tick if SpawnActor fails; and it drives the puppet to the snapshot.
RatTick(spawns) ==
  /\ begun
  /\ curWorld' = world
  /\ LET actor == IF puppet # 0 THEN puppet ELSE IF spawns THEN begins ELSE 0
         drives == haveRemote /\ actor # 0
     IN /\ puppet' = IF haveRemote THEN actor ELSE puppet
        /\ live' = IF drives /\ puppet = 0 THEN live \cup {actor} ELSE live
        /\ deadUsed' = (deadUsed \/ (drives /\ puppet # 0 /\ puppet \notin live))
        /\ shown' = IF drives THEN inRemote ELSE shown
  /\ UNCHANGED <<senderVars, wire, world, levels, begun, inRemote, haveRemote, begins>>

-----------------------------------------------------------------------------
Next ==
  \/ SenderEntersMaze
  \/ SenderMoves
  \/ SenderTick
  \/ SendSnapshot
  \/ \E f \in wire : LoseSnapshot(f) \/ DispatchPlayerState(f)
  \/ \E w \in Worlds : LoadLevel(w)
  \/ BeginMaze
  \/ \E spawns \in BOOLEAN : RatTick(spawns)

Spec == Init /\ [][Next]_vars

\* Both rats tick on every frame, the loop thread sends at 20 Hz, a snapshot arrives
\* or is lost, and one sent again and again arrives.  SpawnActor does not fail for
\* ever.  Nobody has to move, to build a maze or to load a level.
Fairness ==
  /\ WF_vars(SenderTick)
  /\ WF_vars(SendSnapshot)
  /\ \A f \in Places :
       /\ WF_vars(LoseSnapshot(f) \/ DispatchPlayerState(f))
       /\ SF_vars(DispatchPlayerState(f))
  /\ SF_vars(RatTick(TRUE))

FairSpec == Spec /\ Fairness

-----------------------------------------------------------------------------
(* Correctness.                                                            *)

\* "that was the use-after-free, #1" (dllmain.cpp): whatever the order of level loads,
\* mazes in the same world and ticks, and though addresses are used again, neither
\* maintainPuppet nor onMazeGenBegin touches a puppet that the engine has destroyed.
NoDeadPuppetUsed == ~deadUsed

\* The peer is shown by one rat: no puppet of an earlier maze is left standing.
OnePuppet == live \subseteq {puppet}

\* "clear the stale remote snapshot" (dllmain.cpp): a puppet stands where a snapshot
\* has put it that arrived in the maze it stands in.
FreshPuppet == shown # NoSnapshot => shown.arrived = begins

\* Although an older snapshot may replace a newer one and SpawnActor may fail: when
\* both stay in their mazes and the sender's rat rests, the puppet comes to stand where
\* the rat is, and stays.
PuppetKeepsUp ==
  <>[](begun /\ rat # Nowhere) => <>[](puppet \in live /\ shown.place = rat)

\* Over every change of maze and level there is one puppet at most, and it stands where a
\* snapshot of this maze has put it.
PuppetInv == TypeOK /\ OnePuppet /\ FreshPuppet
=============================================================================
