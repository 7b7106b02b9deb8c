------------------------ MODULE PlayerPresenceProofs ------------------------
(***************************************************************************)
(* Proofs about PlayerPresence, for any number of worlds, addresses, mazes *)
(* and snapshots.                                                          *)
(*                                                                         *)
(*   PuppetTracked   the inductive invariant: what m_puppet and m_curWorld *)
(*                   tell of the puppets that exist                        *)
(*   NeverUsesDead   NoDeadPuppetUsed                                      *)
(*   OneFreshPuppet  PuppetInv                                             *)
(***************************************************************************)
EXTENDS PlayerPresence, TLAPS

\* The stored pointer is good exactly as long as m_curWorld is the world that runs, and
\* no other puppet exists.
PointerGood ==
  /\ world = curWorld => live = {puppet} \ {0}
  /\ world # curWorld => live = {}

\* Rats tick only in a world whose generator's hook has set m_curWorld.
BegunHere == begun => world = curWorld

\* A snapshot that may be used arrived in this maze, and so did the one that was.
SnapshotFresh ==
  /\ haveRemote => inRemote.arrived = begins
  /\ FreshPuppet

TrackInv == TypeOK /\ PointerGood /\ BegunHere /\ SnapshotFresh /\ NoDeadPuppetUsed

-----------------------------------------------------------------------------
LEMMA TrackInit == Init => TrackInv
<1> SUFFICES ASSUME Init PROVE TrackInv
  OBVIOUS
<1>1. NoSnapshot \in Snapshots
  BY PresenceAssumption DEF NoSnapshot, Snapshots
<1>2. 0 \in 0 .. MaxLevels /\ 0 \in 0 .. MaxBegins
  BY PresenceAssumption
<1>3. TypeOK
  BY <1>1, <1>2 DEF Init, TypeOK
<1>4. QED
  BY <1>3 DEF Init, TrackInv, PointerGood, BegunHere, SnapshotFresh, FreshPuppet,
              NoDeadPuppetUsed

\* The sender and the network touch nothing that the puppet depends on.
LEMMA SenderKeeps ==
  ASSUME TrackInv,
         \/ SenderEntersMaze \/ SenderMoves \/ SenderTick \/ SendSnapshot
         \/ \E f \in wire : LoseSnapshot(f)
  PROVE  TrackInv'
<1>1. UNCHANGED <<gameVars, modVars, begins, deadUsed>>
  BY DEF SenderEntersMaze, SenderMoves, SenderTick, SendSnapshot, LoseSnapshot
<1>2. rat \in Places => rat.maze \in 1 .. MaxMazes /\ rat.step \in 1 .. MaxSteps
  BY DEF Places
<1>3. rat' \in Places \cup {Nowhere}
  <2>1. CASE SenderEntersMaze
    <3>1. rat.maze \in 0 .. MaxMazes /\ rat.maze + 1 \in 1 .. MaxMazes /\ 1 \in 1 .. MaxSteps
      BY <1>2, <2>1, PresenceAssumption DEF SenderEntersMaze, TrackInv, TypeOK, Nowhere
    <3>2. QED
      BY <2>1, <3>1 DEF SenderEntersMaze, Places
  <2>2. CASE SenderMoves
    <3>1. rat \in Places /\ rat.step + 1 \in 1 .. MaxSteps
      BY <1>2, <2>2, PresenceAssumption DEF SenderMoves, TrackInv, TypeOK
    <3>2. QED
      BY <2>2, <3>1 DEF SenderMoves, Places
  <2>3. CASE SenderTick \/ SendSnapshot \/ \E f \in wire : LoseSnapshot(f)
    BY <2>3 DEF SenderTick, SendSnapshot, LoseSnapshot, senderVars, TrackInv, TypeOK
  <2>4. QED
    BY <2>1, <2>2, <2>3
<1>4. outLocal' \in Places \cup {Nowhere} /\ wire' \subseteq Places
  BY DEF SenderEntersMaze, SenderMoves, SenderTick, SendSnapshot, LoseSnapshot, senderVars,
         TrackInv, TypeOK
<1>5. TypeOK'
  BY <1>1, <1>3, <1>4 DEF TrackInv, TypeOK, gameVars, modVars
<1>6. QED
  BY <1>1, <1>5 DEF TrackInv, PointerGood, BegunHere, SnapshotFresh, FreshPuppet,
                    NoDeadPuppetUsed, gameVars, modVars

LEMMA DispatchPlayerStateKeeps ==
  ASSUME TrackInv, NEW f \in wire, DispatchPlayerState(f)
  PROVE  TrackInv'
<1>1. /\ wire' = wire \ {f}
      /\ inRemote' = [place |-> f, arrived |-> begins]
      /\ haveRemote' = TRUE
      /\ UNCHANGED <<rat, outLocal, world, levels, begun, live, curWorld, puppet, shown,
                     begins, deadUsed>>
  BY DEF DispatchPlayerState, senderVars, gameVars
<1>2. inRemote' \in Snapshots
  BY <1>1 DEF TrackInv, TypeOK, Snapshots
<1>3. TypeOK'
  BY <1>1, <1>2 DEF TrackInv, TypeOK
<1>4. QED
  BY <1>1, <1>3 DEF TrackInv, PointerGood, BegunHere, SnapshotFresh, FreshPuppet,
                    NoDeadPuppetUsed

\* A level that is loaded frees the puppet; m_curWorld is then another world.
LEMMA LoadLevelKeeps ==
  ASSUME TrackInv, NEW w \in Worlds, LoadLevel(w)
  PROVE  TrackInv'
<1>1. /\ levels < MaxLevels /\ w # curWorld
      /\ world' = w /\ levels' = levels + 1 /\ begun' = FALSE /\ live' = {}
      /\ UNCHANGED <<rat, outLocal, wire, curWorld, inRemote, haveRemote, puppet, shown,
                     begins, deadUsed>>
  BY DEF LoadLevel, senderVars, modVars
<1>2. levels' \in 0 .. MaxLevels
  BY <1>1, PresenceAssumption DEF TrackInv, TypeOK
<1>3. TypeOK'
  BY <1>1, <1>2 DEF TrackInv, TypeOK
<1>4. QED
  BY <1>1, <1>3 DEF TrackInv, PointerGood, BegunHere, SnapshotFresh, FreshPuppet,
                    NoDeadPuppetUsed

\* onMazeGenBegin destroys the puppet if it exists, and only then.
LEMMA BeginMazeKeeps ==
  ASSUME TrackInv, BeginMaze
  PROVE  TrackInv'
<1> DEFINE destroys == puppet # 0 /\ SameWorld
<1>1. /\ begins < MaxBegins /\ begun' = TRUE /\ begins' = begins + 1
      /\ live' = IF destroys THEN live \ {puppet} ELSE live
      /\ deadUsed' = (deadUsed \/ (destroys /\ puppet \notin live))
      /\ puppet' = 0 /\ shown' = NoSnapshot /\ haveRemote' = FALSE /\ curWorld' = world
      /\ UNCHANGED <<rat, outLocal, wire, world, levels, inRemote>>
  BY DEF BeginMaze, DestroyPuppet, ForgetRemote, senderVars
<1>2. destroys => puppet \in live
  BY DEF TrackInv, PointerGood, SameWorld
<1>3. live' = {} /\ deadUsed' = deadUsed
  BY <1>1, <1>2 DEF TrackInv, TypeOK, PointerGood, SameWorld
<1>4. NoSnapshot \in Snapshots
  BY PresenceAssumption DEF NoSnapshot, Snapshots
<1>5. begins' \in 0 .. MaxBegins /\ puppet' \in 0 .. MaxBegins
  BY <1>1, PresenceAssumption DEF TrackInv, TypeOK
<1>6. TypeOK'
  BY <1>1, <1>3, <1>4, <1>5 DEF TrackInv, TypeOK
<1>7. QED
  BY <1>1, <1>3, <1>6 DEF TrackInv, PointerGood, BegunHere, SnapshotFresh, FreshPuppet,
                          NoDeadPuppetUsed

\* maintainPuppet drives the puppet it has, which exists, or the one it spawns.
LEMMA RatTickKeeps ==
  ASSUME TrackInv, NEW spawns \in BOOLEAN, RatTick(spawns)
  PROVE  TrackInv'
<1> DEFINE actor == IF puppet # 0 THEN puppet ELSE IF spawns THEN begins ELSE 0
           drives == haveRemote /\ actor # 0
<1>1. /\ begun /\ curWorld' = world
      /\ puppet' = IF haveRemote THEN actor ELSE puppet
      /\ live' = IF drives /\ puppet = 0 THEN live \cup {actor} ELSE live
      /\ deadUsed' = (deadUsed \/ (drives /\ puppet # 0 /\ puppet \notin live))
      /\ shown' = IF drives THEN inRemote ELSE shown
      /\ UNCHANGED <<rat, outLocal, wire, world, levels, begun, inRemote, haveRemote, begins>>
  BY DEF RatTick, senderVars
<1>2. world = curWorld /\ live = {puppet} \ {0}
  BY <1>1 DEF TrackInv, BegunHere, PointerGood
<1>3. actor \in 0 .. MaxBegins
  BY PresenceAssumption DEF TrackInv, TypeOK
<1>4. puppet # 0 => actor = puppet
  OBVIOUS
<1> HIDE DEF actor
<1>5. live' = {puppet'} \ {0} /\ deadUsed' = deadUsed
  BY <1>1, <1>2, <1>4 DEF TrackInv, TypeOK
<1>6. TypeOK'
  <2>1. puppet' \in 0 .. MaxBegins
    BY <1>1, <1>3 DEF TrackInv, TypeOK
  <2>2. live' \subseteq 1 .. MaxBegins
    BY <1>5, <2>1
  <2>3. shown' \in Snapshots
    BY <1>1 DEF TrackInv, TypeOK
  <2>4. QED
    BY <1>1, <1>5, <2>1, <2>2, <2>3 DEF TrackInv, TypeOK
<1>7. SnapshotFresh'
  BY <1>1 DEF TrackInv, SnapshotFresh, FreshPuppet
<1>8. QED
  BY <1>1, <1>2, <1>5, <1>6, <1>7 DEF TrackInv, PointerGood, BegunHere, NoDeadPuppetUsed

LEMMA TrackStep == TrackInv /\ [Next]_vars => TrackInv'
<1> SUFFICES ASSUME TrackInv, [Next]_vars PROVE TrackInv'
  OBVIOUS
<1>1. CASE \/ SenderEntersMaze \/ SenderMoves \/ SenderTick \/ SendSnapshot
           \/ \E f \in wire : LoseSnapshot(f)
  BY <1>1, SenderKeeps
<1>2. CASE \E f \in wire : DispatchPlayerState(f)
  BY <1>2, DispatchPlayerStateKeeps
<1>3. CASE \E w \in Worlds : LoadLevel(w)
  BY <1>3, LoadLevelKeeps
<1>4. CASE BeginMaze
  BY <1>4, BeginMazeKeeps
<1>5. CASE \E spawns \in BOOLEAN : RatTick(spawns)
  BY <1>5, RatTickKeeps
<1>6. CASE UNCHANGED vars
  BY <1>6 DEF vars, senderVars, gameVars, modVars, TrackInv, TypeOK, PointerGood, BegunHere,
              SnapshotFresh, FreshPuppet, NoDeadPuppetUsed
<1>7. QED
  BY <1>1, <1>2, <1>3, <1>4, <1>5, <1>6 DEF Next

-----------------------------------------------------------------------------
\* The inductive invariant: comparing m_curWorld with the world that runs tells whether
\* the stored puppet exists.
THEOREM PuppetTracked == Spec => []TrackInv
<1>1. QED
  BY TrackInit, TrackStep, PTL DEF Spec

\* No puppet is touched that the engine has freed, in however many levels, and with any
\* reuse of addresses but the one LoadLevel excludes.
THEOREM NeverUsesDead == Spec => []NoDeadPuppetUsed
<1>1. TrackInv => NoDeadPuppetUsed
  BY DEF TrackInv
<1>2. QED
  BY PuppetTracked, <1>1, PTL

\* No puppet is left behind, and no puppet stands where a snapshot of an earlier maze put it.
THEOREM OneFreshPuppet == Spec => []PuppetInv
<1>1. TrackInv => PuppetInv
  BY DEF TrackInv, PuppetInv, PointerGood, OnePuppet, SnapshotFresh
<1>2. QED
  BY PuppetTracked, <1>1, PTL
=============================================================================
