-------------------------- MODULE DeathSyncProofs ---------------------------
(***************************************************************************)
(* Proofs about DeathSync, for any number of mazes and frames on the way.  *)
(*                                                                         *)
(*   LatchHolds           the inductive invariant: what m_ratDead and      *)
(*                        "Is Dead" remember of the announcements          *)
(*   DeathsTyped          DeathInv                                         *)
(*   NeverAnnouncedTwice  AnnouncedOnce                                    *)
(*   OnlyByAuthority      AnnouncedByAuthority                             *)
(***************************************************************************)
EXTENDS DeathSync, TLAPS

\* What has been announced in this maze is latched.
Latched ==
  \A p, r \in Peers : announced[p][r] \in 0 .. 1 /\ (announced[p][r] = 1 => r \in ratDead[p])

\* The latch of the own rat is cleared only while the rat lives: an announced death is
\* one of a dead rat that the game has killed.
OwnAnnounced == \A p \in Peers : announced[p][p] = 1 => isDead[p] /\ killer[p] = "game"

\* A death that came from the peer is latched, so that no poll announces it.
AppliedLatched == \A p \in Peers : killer[p] = "peer" => isDead[p] /\ p \in ratDead[p]

\* The killer of a dead rat is known, and there is a puppet only in a maze.
KillerKnown ==
  \A p \in Peers : (isDead[p] => killer[p] # "nobody") /\ (puppet[p] # "none" => maze[p] > 0)

LatchInv ==
  /\ TypeOK
  /\ Latched
  /\ OwnAnnounced
  /\ AppliedLatched
  /\ KillerKnown
  /\ announced[Client][Host] = 0
  /\ KillsTheLiving

-----------------------------------------------------------------------------
LEMMA OtherPeer == \A p \in Peers : Other(p) \in Peers /\ Other(p) # p
BY DeathAssumption DEF Peers, Other

\* The step latches in dead, and counts, just the rats that were not latched.
Announced(p, rats, dead) ==
  /\ ratDead' \in [Peers -> SUBSET Peers]
  /\ ratDead'[p] = dead \cup rats
  /\ \A q \in Peers \ {p} : ratDead'[q] = ratDead[q] /\ announced'[q] = announced[q]
  /\ wire' \in [Peers -> SUBSET [rat : Peers, maze : 1 .. MaxMazes, n : Nat]]
  /\ announced' \in [Peers -> [Peers -> Nat]]
  /\ \A r \in rats \ dead : announced'[p][r] = announced[p][r] + 1
  /\ \A r \in Peers \ (rats \ dead) : announced'[p][r] = announced[p][r]

LEMMA AnnounceEffect ==
  ASSUME LatchInv, NEW p \in Peers, maze[p] > 0,
         NEW rats, rats \subseteq Peers, NEW dead, dead \subseteq Peers, Announce(p, rats, dead)
  PROVE  Announced(p, rats, dead)
<1> DEFINE new == rats \ dead
<1>1. /\ ratDead' = [ratDead EXCEPT ![p] = dead \cup new]
      /\ wire' = [wire EXCEPT ![Other(p)] = @ \cup {Death(p, r) : r \in new}]
      /\ announced' = [announced EXCEPT ![p] =
           [r \in Peers |-> @[r] + (IF r \in new THEN 1 ELSE 0)]]
  BY DEF Announce
<1>2. maze[p] \in 1 .. MaxMazes
  BY DeathAssumption DEF LatchInv, TypeOK
<1>3. ASSUME NEW r \in new
      PROVE  Death(p, r) \in [rat : Peers, maze : 1 .. MaxMazes, n : Nat]
  BY <1>2 DEF Death, LatchInv, TypeOK
<1>4. wire' \in [Peers -> SUBSET [rat : Peers, maze : 1 .. MaxMazes, n : Nat]]
  BY <1>1, <1>3, OtherPeer DEF LatchInv, TypeOK
<1>5. [r \in Peers |-> announced[p][r] + (IF r \in new THEN 1 ELSE 0)] \in [Peers -> Nat]
  BY DEF LatchInv, TypeOK
<1>6. /\ announced' \in [Peers -> [Peers -> Nat]]
      /\ announced'[p] = [r \in Peers |-> announced[p][r] + (IF r \in new THEN 1 ELSE 0)]
      /\ \A q \in Peers \ {p} : announced'[q] = announced[q]
  BY <1>1, <1>5 DEF LatchInv, TypeOK
<1>7. \A r \in Peers \ new : announced[p][r] + 0 = announced[p][r]
  BY DEF LatchInv, TypeOK
<1>8. QED
  BY <1>1, <1>4, <1>6, <1>7 DEF Announced, LatchInv, TypeOK

\* A peer that announces and latches what is not latched announces nothing twice.
LEMMA LatchedKept ==
  ASSUME Latched, NEW p \in Peers, NEW rats, rats \subseteq Peers, NEW dead,
         \A r \in Peers : announced[p][r] = 1 => r \in dead,
         Announced(p, rats, dead)
  PROVE  Latched'
<1>1. ASSUME NEW r \in Peers
      PROVE  announced'[p][r] \in 0 .. 1 /\ (announced'[p][r] = 1 => r \in ratDead'[p])
  <2>1. announced[p][r] \in 0 .. 1
    BY DEF Latched
  <2>2. CASE r \in rats \ dead
    BY <2>1, <2>2 DEF Announced
  <2>3. CASE r \notin rats \ dead
    BY <2>1, <2>3 DEF Announced
  <2>4. QED
    BY <2>2, <2>3
<1>2. QED
  BY <1>1 DEF Latched, Announced

LEMMA LatchInit == Init => LatchInv
<1> SUFFICES ASSUME Init PROVE LatchInv
  OBVIOUS
<1>1. TypeOK
  <2>1. NoneAnnounced \in [Peers -> Nat]
    BY DEF NoneAnnounced
  <2>2. 0 \in 0 .. MaxMazes
    BY DeathAssumption
  <2>3. wire \in [Peers -> SUBSET [rat : Peers, maze : 1 .. MaxMazes, n : Nat]]
    BY DEF Init
  <2>4. QED
    BY <2>1, <2>2, <2>3 DEF Init, TypeOK
<1>2. \A p, r \in Peers : announced[p][r] = 0
  BY DEF Init, NoneAnnounced
<1>3. Latched /\ OwnAnnounced /\ announced[Client][Host] = 0
  BY <1>2 DEF Latched, OwnAnnounced, Peers
<1>4. AppliedLatched /\ KillerKnown /\ KillsTheLiving
  BY DEF Init, AppliedLatched, KillerKnown, KillsTheLiving
<1>5. QED
  BY <1>1, <1>3, <1>4 DEF LatchInv

\* The pre-hook of Kill Rat on the own rat.
LEMMA KillOwnRatKeeps ==
  ASSUME LatchInv, NEW p \in Peers, KillOwnRat(p)
  PROVE  LatchInv'
<1>1. maze[p] > 0 /\ Announce(p, {p}, ratDead[p])
  BY DEF KillOwnRat
<1>2. {p} \subseteq Peers /\ ratDead[p] \subseteq Peers
  BY DEF LatchInv, TypeOK
<1>3. Announced(p, {p}, ratDead[p])
  BY <1>1, <1>2, AnnounceEffect
<1>4. /\ isDead' = [isDead EXCEPT ![p] = TRUE]
      /\ killer' = [killer EXCEPT ![p] = IF @ = "nobody" THEN "game" ELSE @]
      /\ UNCHANGED <<maze, puppet, pendingApply, killedTwice>>
  BY DEF KillOwnRat
<1>5. TypeOK'
  BY <1>3, <1>4 DEF Announced, LatchInv, TypeOK
<1>6. Latched'
  <2>1. \A r \in Peers : announced[p][r] = 1 => r \in ratDead[p]
    BY DEF LatchInv, Latched
  <2>2. QED
    BY <1>2, <1>3, <2>1, LatchedKept DEF LatchInv
<1>7. OwnAnnounced' /\ AppliedLatched'
  <2>1. p \notin ratDead[p] => killer[p] \in {"nobody", "game"}
    BY DEF LatchInv, TypeOK, AppliedLatched
  <2>2. announced[p][p] = 1 => killer[p] = "game"
    BY DEF LatchInv, OwnAnnounced
  <2>3. announced'[p][p] = 1 => isDead'[p] /\ killer'[p] = "game"
    <3>1. p \in ratDead[p] => announced'[p][p] = announced[p][p]
      BY <1>3 DEF Announced
    <3>2. QED
      BY <1>4, <2>1, <2>2, <3>1 DEF LatchInv, TypeOK
  <2>4. killer'[p] = "peer" => isDead'[p] /\ p \in ratDead'[p]
    BY <1>3, <1>4 DEF Announced, LatchInv, TypeOK
  <2>5. \A q \in Peers \ {p} : isDead'[q] = isDead[q] /\ killer'[q] = killer[q]
    BY <1>4 DEF LatchInv, TypeOK
  <2>6. QED
    BY <1>3, <2>3, <2>4, <2>5 DEF Announced, LatchInv, OwnAnnounced, AppliedLatched
<1>8. KillerKnown' /\ KillsTheLiving'
  BY <1>4 DEF LatchInv, TypeOK, KillerKnown, KillsTheLiving
<1>9. announced'[Client][Host] = 0
  BY <1>3, DeathAssumption DEF Announced, LatchInv, Peers
<1>10. QED
  BY <1>5, <1>6, <1>7, <1>8, <1>9 DEF LatchInv

LEMMA TrapKillsOwnRatKeeps ==
  ASSUME LatchInv, NEW p \in Peers, TrapKillsOwnRat(p)
  PROVE  LatchInv'
<1>1. /\ ~isDead[p]
      /\ isDead' = [isDead EXCEPT ![p] = TRUE]
      /\ killer' = [killer EXCEPT ![p] = "game"]
      /\ UNCHANGED <<maze, puppet, ratDead, pendingApply, wire, announced, killedTwice>>
  BY DEF TrapKillsOwnRat, modVars
<1>2. TypeOK'
  BY <1>1 DEF LatchInv, TypeOK
<1>3. Latched' /\ announced'[Client][Host] = 0 /\ KillsTheLiving'
  BY <1>1 DEF LatchInv, Latched, KillsTheLiving
<1>4. OwnAnnounced' /\ AppliedLatched' /\ KillerKnown'
  BY <1>1 DEF LatchInv, TypeOK, OwnAnnounced, AppliedLatched, KillerKnown
<1>5. QED
  BY <1>2, <1>3, <1>4 DEF LatchInv

\* The pre-hook of Kill Rat on the puppet: the host announces the client's rat.
LEMMA KillPuppetKeeps ==
  ASSUME LatchInv, NEW p \in Peers, KillPuppet(p)
  PROVE  LatchInv'
<1> DEFINE rats == IF p = Host THEN {Other(p)} ELSE {}
<1>1. /\ puppet[p] # "none"
      /\ Announce(p, rats, ratDead[p])
      /\ puppet' = [puppet EXCEPT ![p] = "dead"]
      /\ UNCHANGED <<maze, isDead, pendingApply, killer, killedTwice>>
  BY DEF KillPuppet
<1>2. rats \subseteq Peers /\ ratDead[p] \subseteq Peers /\ p \notin rats /\ maze[p] > 0
  BY <1>1, OtherPeer DEF LatchInv, TypeOK, KillerKnown
<1>3. p = Client => rats = {}
  BY DeathAssumption
<1> HIDE DEF rats
<1>4. Announced(p, rats, ratDead[p])
  BY <1>1, <1>2, AnnounceEffect
<1>5. TypeOK'
  BY <1>1, <1>4 DEF Announced, LatchInv, TypeOK
<1>6. Latched'
  <2>1. \A r \in Peers : announced[p][r] = 1 => r \in ratDead[p]
    BY DEF LatchInv, Latched
  <2>2. QED
    BY <1>2, <1>4, <2>1, LatchedKept DEF LatchInv
<1>7. OwnAnnounced' /\ AppliedLatched'
  <2>1. \A q \in Peers : announced'[q][q] = announced[q][q]
    BY <1>2, <1>4 DEF Announced
  <2>2. \A q \in Peers : ratDead[q] \subseteq ratDead'[q]
    BY <1>4 DEF Announced
  <2>3. QED
    BY <1>1, <2>1, <2>2 DEF LatchInv, OwnAnnounced, AppliedLatched
<1>8. KillerKnown' /\ KillsTheLiving'
  BY <1>1, <1>2 DEF LatchInv, TypeOK, KillerKnown, KillsTheLiving
<1>9. announced'[Client][Host] = 0
  BY <1>3, <1>4, DeathAssumption DEF LatchInv, Announced, Peers
<1>10. QED
  BY <1>5, <1>6, <1>7, <1>8, <1>9 DEF LatchInv

LEMMA TrapKillsPuppetKeeps ==
  ASSUME LatchInv, NEW p \in Peers, TrapKillsPuppet(p)
  PROVE  LatchInv'
<1>1. /\ puppet[p] = "alive"
      /\ puppet' = [puppet EXCEPT ![p] = "dead"]
      /\ UNCHANGED <<maze, isDead, ratDead, pendingApply, wire, announced, killer, killedTwice>>
  BY DEF TrapKillsPuppet, modVars, historyVars
<1>2. TypeOK' /\ KillerKnown'
  BY <1>1 DEF LatchInv, TypeOK, KillerKnown
<1>3. Latched' /\ OwnAnnounced' /\ AppliedLatched'
  BY <1>1 DEF LatchInv, Latched, OwnAnnounced, AppliedLatched
<1>4. QED
  BY <1>1, <1>2, <1>3 DEF LatchInv, KillsTheLiving

LEMMA DispatchDeathKeeps ==
  ASSUME LatchInv, NEW p \in Peers, NEW f \in wire[p], DispatchDeath(p, f)
  PROVE  LatchInv'
<1>1. /\ wire' = [wire EXCEPT ![p] = @ \ {f}]
      /\ pendingApply' = [pendingApply EXCEPT ![p] = @ \/ f.rat = p]
      /\ UNCHANGED <<maze, isDead, puppet, ratDead, announced, killer, killedTwice>>
  BY DEF DispatchDeath, gameVars, historyVars
<1>2. TypeOK'
  BY <1>1 DEF LatchInv, TypeOK
<1>3. Latched' /\ OwnAnnounced' /\ AppliedLatched' /\ KillerKnown'
  BY <1>1 DEF LatchInv, Latched, OwnAnnounced, AppliedLatched, KillerKnown
<1>4. QED
  BY <1>1, <1>2, <1>3 DEF LatchInv, KillsTheLiving

\* onMazeGenBegin forgets the deaths together with their announcements.
LEMMA BeginMazeKeeps ==
  ASSUME LatchInv, NEW p \in Peers, BeginMaze(p)
  PROVE  LatchInv'
<1>1. /\ maze[p] < MaxMazes
      /\ maze' = [maze EXCEPT ![p] = @ + 1]
      /\ isDead' = [isDead EXCEPT ![p] = FALSE]
      /\ puppet' = [puppet EXCEPT ![p] = "none"]
      /\ ratDead' = [ratDead EXCEPT ![p] = {}]
      /\ pendingApply' = [pendingApply EXCEPT ![p] = FALSE]
      /\ announced' = [announced EXCEPT ![p] = NoneAnnounced]
      /\ killer' = [killer EXCEPT ![p] = "nobody"]
      /\ UNCHANGED <<wire, killedTwice>>
  BY DEF BeginMaze
<1>2. NoneAnnounced \in [Peers -> Nat] /\ \A r \in Peers : NoneAnnounced[r] = 0
  BY DEF NoneAnnounced
<1>3. maze[p] + 1 \in 0 .. MaxMazes
  BY <1>1, DeathAssumption DEF LatchInv, TypeOK
<1>4. TypeOK'
  BY <1>1, <1>2, <1>3 DEF LatchInv, TypeOK
<1>5. \A r \in Peers : announced'[p][r] = 0
  BY <1>1, <1>2 DEF LatchInv, TypeOK
<1>6. \A q \in Peers \ {p} : announced'[q] = announced[q] /\ ratDead'[q] = ratDead[q]
  BY <1>1 DEF LatchInv, TypeOK
<1>7. Latched' /\ announced'[Client][Host] = 0
  <2>1. \A q, r \in Peers :
          announced'[q][r] \in 0 .. 1 /\ (announced'[q][r] = 1 => r \in ratDead'[q])
    BY <1>5, <1>6 DEF LatchInv, Latched
  <2>2. QED
    BY <2>1, <1>5, <1>6 DEF LatchInv, Latched, Peers
<1>8. OwnAnnounced'
  BY <1>1, <1>5, <1>6 DEF LatchInv, TypeOK, OwnAnnounced
<1>9. AppliedLatched' /\ KillerKnown' /\ KillsTheLiving'
  BY <1>1 DEF LatchInv, TypeOK, AppliedLatched, KillerKnown, KillsTheLiving
<1>10. QED
  BY <1>4, <1>7, <1>8, <1>9 DEF LatchInv

\* The tick of the own rat: its poll announces a death only if the latch is not set, and
\* clears the latch only of a rat that lives and of which nothing has been announced.
LEMMA RatTickKeeps ==
  ASSUME LatchInv, NEW p \in Peers, NEW haveRemote \in BOOLEAN, RatTick(p, haveRemote)
  PROVE  LatchInv'
<1> DEFINE applies == pendingApply[p] /\ p \notin KnownDead(p)
           dead == Latch(p, applies)
           rats == FoundDead(p)
<1>1. /\ maze[p] > 0
      /\ Announce(p, rats, dead)
      /\ pendingApply' = [pendingApply EXCEPT ![p] = FALSE]
      /\ isDead' = [isDead EXCEPT ![p] = @ \/ applies]
      /\ killer' = [killer EXCEPT ![p] = IF applies THEN "peer" ELSE @]
      /\ killedTwice' = (killedTwice \/ (applies /\ isDead[p]))
      /\ puppet' = [puppet EXCEPT ![p] = IF @ = "none" /\ haveRemote THEN "alive" ELSE @]
      /\ UNCHANGED maze
  BY DEF RatTick
<1>2. applies \in BOOLEAN /\ (applies => ~isDead[p])
  BY DEF KnownDead
<1>3. /\ isDead[p] => dead = ratDead[p]
      /\ ~isDead[p] => dead = (IF applies THEN ratDead[p] \cup {p} ELSE ratDead[p] \ {p})
  BY DEF Latch
<1>4. dead \subseteq Peers /\ \A r \in Peers \ {p} : r \in ratDead[p] => r \in dead
  BY <1>3 DEF LatchInv, TypeOK
<1>5. /\ rats \subseteq Peers
      /\ p \in rats <=> isDead[p]
      /\ p = Client => Host \notin rats
  BY OtherPeer, DeathAssumption DEF FoundDead
<1> HIDE DEF applies, dead, rats
<1>6. Announced(p, rats, dead)
  BY <1>1, <1>4, <1>5, AnnounceEffect
<1>7. TypeOK'
  BY <1>1, <1>2, <1>6 DEF Announced, LatchInv, TypeOK
<1>8. Latched'
  <2>1. announced[p][p] = 1 => p \in dead
    BY <1>3 DEF LatchInv, OwnAnnounced, Latched
  <2>2. \A r \in Peers : announced[p][r] = 1 => r \in dead
    BY <1>4, <2>1 DEF LatchInv, Latched
  <2>3. QED
    BY <1>5, <1>6, <2>2, LatchedKept DEF LatchInv
<1>9. OwnAnnounced' /\ AppliedLatched'
  <2>1. ASSUME isDead[p]
        PROVE  /\ isDead'[p] /\ killer'[p] = killer[p] /\ killer[p] # "nobody"
               /\ ratDead'[p] = ratDead[p] \cup rats
               /\ p \in ratDead[p] => announced'[p][p] = announced[p][p]
    <3>1. ~applies /\ dead = ratDead[p]
      BY <1>2, <1>3, <2>1
    <3>2. isDead'[p] /\ killer'[p] = killer[p]
      BY <1>1, <2>1, <3>1 DEF LatchInv, TypeOK
    <3>3. QED
      BY <1>6, <2>1, <3>1, <3>2 DEF LatchInv, Announced, KillerKnown
  <2>2. ASSUME ~isDead[p]
        PROVE  /\ announced'[p][p] # 1
               /\ killer'[p] = "peer" => isDead'[p] /\ p \in ratDead'[p]
    <3>1. announced'[p][p] = announced[p][p] /\ announced[p][p] # 1
      BY <1>5, <1>6, <2>2 DEF LatchInv, Announced, OwnAnnounced
    <3>2. killer[p] # "peer"
      BY <2>2 DEF LatchInv, AppliedLatched
    <3>3. killer'[p] = "peer" => applies
      BY <1>1, <3>2 DEF LatchInv, TypeOK
    <3>4. applies => isDead'[p]
      BY <1>1 DEF LatchInv, TypeOK
    <3>5. applies => p \in ratDead'[p]
      BY <1>3, <1>6, <2>2 DEF Announced
    <3>6. QED
      BY <3>1, <3>3, <3>4, <3>5
  <2>3. announced'[p][p] = 1 => isDead'[p] /\ killer'[p] = "game"
    <3>1. isDead[p] /\ killer[p] = "peer" => p \in ratDead[p] /\ announced[p][p] # 1
      BY DEF LatchInv, AppliedLatched, OwnAnnounced
    <3>2. killer[p] \in {"nobody", "game", "peer"}
      BY DEF LatchInv, TypeOK
    <3>3. QED
      BY <2>1, <2>2, <3>1, <3>2
  <2>4. killer'[p] = "peer" => isDead'[p] /\ p \in ratDead'[p]
    BY <2>1, <2>2 DEF LatchInv, AppliedLatched
  <2>5. \A q \in Peers \ {p} : /\ isDead'[q] = isDead[q] /\ killer'[q] = killer[q]
                               /\ announced'[q] = announced[q] /\ ratDead'[q] = ratDead[q]
    BY <1>1, <1>6 DEF LatchInv, TypeOK, Announced
  <2>6. QED
    BY <2>3, <2>4, <2>5 DEF LatchInv, OwnAnnounced, AppliedLatched
<1>10. KillerKnown' /\ KillsTheLiving'
  BY <1>1, <1>2 DEF LatchInv, TypeOK, KillerKnown, KillsTheLiving
<1>11. announced'[Client][Host] = 0
  BY <1>5, <1>6, DeathAssumption DEF LatchInv, Announced, Peers
<1>12. QED
  BY <1>7, <1>8, <1>9, <1>10, <1>11 DEF LatchInv

LEMMA LatchStep == LatchInv /\ [Next]_vars => LatchInv'
<1> SUFFICES ASSUME LatchInv, [Next]_vars PROVE LatchInv'
  OBVIOUS
<1>1. CASE Next
  <2> SUFFICES ASSUME NEW p \in Peers,
                      \/ KillOwnRat(p) \/ TrapKillsOwnRat(p)
                      \/ KillPuppet(p) \/ TrapKillsPuppet(p)
                      \/ BeginMaze(p)
                      \/ \E f \in wire[p] : DispatchDeath(p, f)
                      \/ \E haveRemote \in BOOLEAN : RatTick(p, haveRemote)
               PROVE  LatchInv'
    BY <1>1 DEF Next
  <2>1. CASE KillOwnRat(p)
    BY <2>1, KillOwnRatKeeps
  <2>2. CASE TrapKillsOwnRat(p)
    BY <2>2, TrapKillsOwnRatKeeps
  <2>3. CASE KillPuppet(p)
    BY <2>3, KillPuppetKeeps
  <2>4. CASE TrapKillsPuppet(p)
    BY <2>4, TrapKillsPuppetKeeps
  <2>5. CASE BeginMaze(p)
    BY <2>5, BeginMazeKeeps
  <2>6. CASE \E f \in wire[p] : DispatchDeath(p, f)
    BY <2>6, DispatchDeathKeeps
  <2>7. CASE \E haveRemote \in BOOLEAN : RatTick(p, haveRemote)
    BY <2>7, RatTickKeeps
  <2>8. QED
    BY <2>1, <2>2, <2>3, <2>4, <2>5, <2>6, <2>7
<1>2. CASE UNCHANGED vars
  BY <1>2 DEF vars, gameVars, modVars, historyVars, LatchInv, TypeOK, Latched, OwnAnnounced,
              AppliedLatched, KillerKnown, KillsTheLiving
<1>3. QED
  BY <1>1, <1>2

-----------------------------------------------------------------------------
\* The inductive invariant: hook, poll, applied death and the next maze keep m_ratDead in
\* step with what has been announced.
THEOREM LatchHolds == Spec => []LatchInv
<1>1. QED
  BY LatchInit, LatchStep, PTL DEF Spec

\* Kill Rat is never called for a rat that is dead already, and the types hold.
THEOREM DeathsTyped == Spec => []DeathInv
<1>1. LatchInv => DeathInv
  BY DEF LatchInv, DeathInv
<1>2. QED
  BY LatchHolds, <1>1, PTL

\* Hook and poll never announce one death twice in a maze.
THEOREM NeverAnnouncedTwice == Spec => []AnnouncedOnce
<1>1. LatchInv => AnnouncedOnce
  BY DEF LatchInv, Latched, AnnouncedOnce
<1>2. QED
  BY LatchHolds, <1>1, PTL

\* The client announces no death but its own rat's, and no peer one that was applied.
THEOREM OnlyByAuthority == Spec => []AnnouncedByAuthority
<1>1. ASSUME LatchInv PROVE AnnouncedByAuthority
  <2>1. \A p \in Peers : announced[p][p] > 0 => announced[p][p] = 1
    BY <1>1 DEF LatchInv, Latched
  <2>2. QED
    BY <1>1, <2>1 DEF LatchInv, OwnAnnounced, AnnouncedByAuthority
<1>2. QED
  BY LatchHolds, <1>1, PTL
=============================================================================
