-------------------------- MODULE MazeModuleProofs --------------------------
(***************************************************************************)
(* Proofs about MazeModule, for any seeds, levels and ways to build a maze *)
(* again.                                                                  *)
(*                                                                         *)
(*   ExchangeHolds   the inductive invariant: what each peer and each      *)
(*                   frame says of the other's maze                        *)
(*   VerdictsTrue    VerdictInv                                            *)
(***************************************************************************)
EXTENDS MazeModule, TLAPS

\* What the host sends, once it has built its one maze.
HostFrame == [type |-> "MazeSeed", seed |-> built[Host], paramHash |-> ParamHash(Host, built[Host])]
HostReady == [type |-> "MazeReady", hash |-> built[Host]]

HostInv ==
  /\ game[Host] # "loading"
  /\ localHash[Host] \in {None, built[Host]} /\ peerHash[Client] \in {None, built[Host]}
  /\ wire[Client] \subseteq {HostFrame, HostReady}
  /\ {seedToSend, netSeed, seen} \subseteq {None, HostFrame}

\* Until then nobody has heard of a maze of the host or judged anything.
HostSilent ==
  game[Host] \in {"menu", "begun"} =>
    /\ wire[Client] = {} /\ {seedToSend, netSeed, seen} \subseteq {None}
    /\ verdict[Host] = None /\ verdict[Client] = None
    /\ ~warned

\* A fingerprint the client has computed is that of its maze, unless that maze is gone;
\* then it is in the host's maze or about to be.
Claim(h) == built[Client] \in {h, built[Host], None} /\ (built[Client] # h => regenerated)

ClientInv ==
  /\ localHash[Client] # None => Claim(localHash[Client])
  /\ peerHash[Host] # None => Claim(peerHash[Host])
  /\ \A f \in wire[Host] : f.type = "MazeReady" /\ Claim(f.hash)
  /\ ranUnseeded => force[Client] = None

\* Before its first maze nobody has heard of the client.
ClientSilent ==
  (game[Client] \in {"menu", "begun"} /\ ~regenerated) =>
    wire[Host] = {} /\ peerHash[Host] = None /\ verdict[Host] = None

\* A maze that is built again is built from the host's seed.
RebuildInv ==
  /\ game[Client] = "menu" => ~regenerated
  /\ game[Client] = "loading" => regenerated /\ netSeed # None /\ force[Client] = None
  /\ (game[Client] = "begun" /\ regenerated) => seen # None /\ force[Client] = None

\* Who is in a maze, and has a fingerprint of it.
MazeInv ==
  \A p \in Peers :
    /\ built[p] # None <=> game[p] = "playing"
    /\ game[p] \in {"menu", "begun"} => localHash[p] = None /\ verdict[p] = None
    /\ readyToSend[p] => localHash[p] # None

ExchangeInv ==
  /\ TypeOK
  /\ HostInv /\ HostSilent
  /\ ClientInv /\ ClientSilent
  /\ RebuildInv /\ MazeInv
  /\ MatchIsTrue /\ MismatchIsTrue /\ WarningIsTrue

-----------------------------------------------------------------------------
LEMMA TwoPeers == Host \in Peers /\ Client \in Peers /\ Host # Client
BY MazeAssumption DEF Peers
LEMMA FrameFields ==
  /\ HostFrame.type = "MazeSeed" /\ HostFrame.seed = built[Host]
  /\ HostFrame.paramHash = ParamHash(Host, built[Host])
  /\ HostReady.type = "MazeReady" /\ HostReady.hash = built[Host]
  /\ \A f \in MazeSeeds : f.type = "MazeSeed" /\ f.seed \in Seeds /\ f # None
  /\ \A f \in MazeReadys : f.type = "MazeReady" /\ f.hash \in Seeds
BY MazeAssumption DEF HostFrame, HostReady, MazeSeeds, MazeReadys

\* As long as the host's maze stays, so does what it sends.
LEMMA SameHost ==
  ASSUME built'[Host] = built[Host], UNCHANGED params
  PROVE  HostFrame' = HostFrame /\ HostReady' = HostReady
BY DEF HostFrame, HostReady, ParamHash

\* The client's claims are not disturbed by a step that leaves the mazes alone.
LEMMA SameClaims ==
  ASSUME built'[Host] = built[Host], built'[Client] = built[Client], UNCHANGED regenerated, NEW h, Claim(h)
  PROVE  Claim(h)'
BY DEF Claim

LEMMA ExchangeInit == Init => ExchangeInv
<1> SUFFICES ASSUME Init PROVE ExchangeInv
  OBVIOUS
<1>1. TypeOK
  BY DEF Init, TypeOK, Nowhere, Nobody
<1>2. HostInv /\ HostSilent /\ ClientInv /\ ClientSilent
  BY TwoPeers DEF Init, HostInv, HostSilent, ClientInv, ClientSilent, Nowhere, Nobody
<1>3. RebuildInv /\ MazeInv
  BY TwoPeers DEF Init, RebuildInv, MazeInv, Nowhere, Nobody
<1>4. MatchIsTrue /\ MismatchIsTrue /\ WarningIsTrue
  BY MazeAssumption DEF Init, MatchIsTrue, MismatchIsTrue, WarningIsTrue, Nowhere
<1>5. QED
  BY <1>1, <1>2, <1>3, <1>4 DEF ExchangeInv

-----------------------------------------------------------------------------
(* The game thread.                                                        *)

\* The host enters onMazeGenBegin once; the client, again after a reload.
LEMMA GenResetKeeps ==
  ASSUME ExchangeInv, NEW p \in Peers, GenReset(p)
  PROVE  ExchangeInv'
<1>1. /\ game[p] \in {"menu", "loading"}
      /\ game' = [game EXCEPT ![p] = "begun"]
      /\ fpComputed' = [fpComputed EXCEPT ![p] = FALSE]
      /\ readyToSend' = [readyToSend EXCEPT ![p] = FALSE]
      /\ readySent' = [readySent EXCEPT ![p] = FALSE]
      /\ localHash' = [localHash EXCEPT ![p] = None]
      /\ peerHash' = [peerHash EXCEPT ![p] = None]
      /\ verdict' = [verdict EXCEPT ![p] = None]
      /\ seen' = IF p = Client THEN netSeed ELSE seen
      /\ ranUnseeded' = IF p = Client THEN FALSE ELSE ranUnseeded
      /\ lateRegenDone' = IF p = Client THEN FALSE ELSE lateRegenDone
      /\ UNCHANGED <<force, params, path, gi, built, link, wire, seedToSend, netSeed,
                     lateSeedArrived, warned, regenerated>>
  BY DEF GenReset, settings, historyVars
<1>2. /\ game'[p] = "begun" /\ readyToSend'[p] = FALSE
      /\ localHash'[p] = None /\ peerHash'[p] = None /\ verdict'[p] = None
      /\ \A q \in Peers \ {p} :
           /\ game'[q] = game[q] /\ readyToSend'[q] = readyToSend[q]
           /\ localHash'[q] = localHash[q] /\ peerHash'[q] = peerHash[q]
           /\ verdict'[q] = verdict[q]
  BY <1>1 DEF ExchangeInv, TypeOK
<1>3. TypeOK'
  <2>1. ranUnseeded' \in BOOLEAN /\ lateRegenDone' \in BOOLEAN
    BY <1>1 DEF ExchangeInv, TypeOK
  <2>2. seen' \in MazeSeeds \cup {None}
    BY <1>1 DEF ExchangeInv, TypeOK
  <2>3. {fpComputed', readyToSend', readySent'} \subseteq [Peers -> BOOLEAN]
    BY <1>1 DEF ExchangeInv, TypeOK
  <2>4. /\ game' \in [Peers -> {"menu", "begun", "playing", "loading"}]
        /\ localHash' \in [Peers -> Seeds \cup {None}]
        /\ peerHash' \in [Peers -> Seeds \cup {None}]
        /\ verdict' \in [Peers -> {"match", "mismatch", None}]
    BY <1>1 DEF ExchangeInv, TypeOK
  <2>5. UNCHANGED <<force, params, path, gi, built, link, wire, seedToSend, netSeed,
                    lateSeedArrived, warned, regenerated>>
    BY <1>1
  <2>6. QED
    BY <2>1, <2>2, <2>3, <2>4, <2>5 DEF ExchangeInv, TypeOK
<1>4. HostFrame' = HostFrame /\ HostReady' = HostReady
  BY <1>1, SameHost
<1>5. p = Host => game[Host] = "menu"
  BY <1>1 DEF ExchangeInv, HostInv
<1>6. HostInv' /\ HostSilent'
  BY <1>1, <1>2, <1>4, <1>5, TwoPeers DEF ExchangeInv, HostInv, HostSilent, Peers
<1>7. ClientInv' /\ ClientSilent'
  <2>1. \A h : Claim(h) => Claim(h)'
    BY <1>1 DEF Claim
  <2>2. ranUnseeded' => ranUnseeded
    BY <1>1
  <2>3. ClientInv'
    <3>1. localHash'[Client] # None => Claim(localHash'[Client])
      BY <1>2, TwoPeers DEF ExchangeInv, ClientInv
    <3>2. peerHash'[Host] # None => Claim(peerHash'[Host])
      BY <1>2, TwoPeers DEF ExchangeInv, ClientInv
    <3>3. QED
      BY <1>1, <2>1, <2>2, <3>1, <3>2 DEF ExchangeInv, ClientInv
  <2>4. ClientSilent'
    <3>1. CASE p = Client
      BY <1>1, <1>2, <3>1, TwoPeers DEF ExchangeInv, ClientSilent, RebuildInv
    <3>2. CASE p = Host
      BY <1>1, <1>2, <3>2, TwoPeers DEF ExchangeInv, ClientSilent
    <3>3. QED
      BY <3>1, <3>2 DEF Peers
  <2>5. QED
    BY <2>3, <2>4
<1>8. RebuildInv'
  <2>1. CASE p = Client
    BY <1>1, <1>2, <2>1, TwoPeers DEF ExchangeInv, RebuildInv
  <2>2. CASE p = Host
    BY <1>1, <1>2, <2>2, TwoPeers DEF ExchangeInv, RebuildInv
  <2>3. QED
    BY <2>1, <2>2 DEF Peers
<1>9. MazeInv'
  BY <1>1, <1>2 DEF ExchangeInv, MazeInv
<1>10. MatchIsTrue' /\ MismatchIsTrue' /\ WarningIsTrue'
  BY <1>1, <1>2, MazeAssumption DEF ExchangeInv, MatchIsTrue, MismatchIsTrue, WarningIsTrue
<1>11. QED
  BY <1>3, <1>6, <1>7, <1>8, <1>9, <1>10 DEF ExchangeInv

\* The host's maze stands from here on; nobody has said anything of it.
LEMMA HostGeneratesKeeps ==
  ASSUME ExchangeInv, HostGenerates
  PROVE  ExchangeInv'
<1>1. PICK seed \in Seeds : seed = HostSeed
  BY TwoPeers DEF HostSeed, ExchangeInv, TypeOK
<1>2. /\ game[Host] = "begun"
      /\ game' = [game EXCEPT ![Host] = "playing"]
      /\ gi' = [gi EXCEPT ![Host] = seed]
      /\ built' = [built EXCEPT ![Host] = seed]
      /\ seedToSend' = [type |-> "MazeSeed", seed |-> seed, paramHash |-> ParamHash(Host, seed)]
      /\ UNCHANGED <<force, params, path, link, wire, localHash, fpComputed, readyToSend,
                     readySent, peerHash, verdict, netSeed, seen, lateSeedArrived,
                     ranUnseeded, lateRegenDone, warned, regenerated>>
  BY <1>1 DEF HostGenerates, Build, settings, readyVars, verdictVars, clientVars, historyVars
<1>3. /\ game'[Host] = "playing" /\ game'[Client] = game[Client]
      /\ built'[Host] = seed /\ built'[Client] = built[Client] /\ seed # None
  BY <1>2, TwoPeers, MazeAssumption DEF ExchangeInv, TypeOK
<1>4. /\ built[Host] = None /\ localHash[Host] = None /\ peerHash[Client] = None
      /\ wire[Client] = {} /\ netSeed = None /\ seen = None
      /\ verdict[Host] = None /\ verdict[Client] = None /\ ~warned
  BY <1>2, TwoPeers DEF ExchangeInv, HostInv, HostSilent, MazeInv
<1>5. seedToSend' = HostFrame'
  BY <1>2, <1>3 DEF HostFrame, ParamHash
<1>6. TypeOK'
  <2>1. seedToSend' \in MazeSeeds
    BY <1>2, TwoPeers DEF MazeSeeds, Hashes, ParamHash, ExchangeInv, TypeOK
  <2>2. QED
    BY <1>2, <2>1 DEF ExchangeInv, TypeOK
<1>7. HostInv' /\ HostSilent'
  BY <1>2, <1>3, <1>4, <1>5 DEF HostInv, HostSilent
<1>8. \A h : Claim(h) => Claim(h)'
  BY <1>2, <1>3, <1>4 DEF Claim
<1>9. ClientInv' /\ ClientSilent'
  BY <1>2, <1>3, <1>8 DEF ExchangeInv, ClientInv, ClientSilent
<1>10. RebuildInv' /\ MazeInv'
  BY <1>2, <1>3 DEF ExchangeInv, RebuildInv, MazeInv, Peers
<1>11. MatchIsTrue' /\ MismatchIsTrue' /\ WarningIsTrue'
  BY <1>2, <1>4, MazeAssumption DEF MatchIsTrue, MismatchIsTrue, WarningIsTrue, Peers
<1>12. QED
  BY <1>6, <1>7, <1>9, <1>10, <1>11 DEF ExchangeInv

\* The client's maze: the first, of which nobody has heard, or one that is built again
\* from the host's seed.
LEMMA ClientMazeKeeps ==
  ASSUME ExchangeInv, NEW seed \in Seeds, game[Client] = "begun",
         game' = [game EXCEPT ![Client] = "playing"], Build(Client, seed),
         regenerated => seed = built[Host],
         warned' => warned \/ (seen # None /\ seen.paramHash # ClientParamHash(seed)),
         force[Client] = None => (seen # None => seed = seen.seed),
         force[Client] # None => seed = force[Client],
         ranUnseeded' => ranUnseeded \/ force[Client] = None,
         warned' \in BOOLEAN, ranUnseeded' \in BOOLEAN,
         UNCHANGED <<settings, link, wire, readyVars, verdictVars, seedToSend, netSeed, seen,
                     lateSeedArrived, lateRegenDone, regenerated>>
  PROVE  ExchangeInv'
<1>1. /\ gi' = [gi EXCEPT ![Client] = seed]
      /\ built' = [built EXCEPT ![Client] = seed]
      /\ UNCHANGED <<force, params, path, localHash, fpComputed, readyToSend, readySent,
                     peerHash, verdict>>
  BY DEF Build, settings, readyVars, verdictVars
<1>2. /\ game'[Client] = "playing" /\ game'[Host] = game[Host]
      /\ built'[Client] = seed /\ built'[Host] = built[Host] /\ seed # None
  BY <1>1, TwoPeers, MazeAssumption DEF ExchangeInv, TypeOK
<1>3. HostFrame' = HostFrame /\ HostReady' = HostReady
  BY <1>1, <1>2, SameHost
<1>4. TypeOK'
  BY <1>1 DEF ExchangeInv, TypeOK
<1>5. seen # None => /\ seen.seed = built[Host] /\ built[Host] # None
                     /\ seen.paramHash = ParamHash(Host, built[Host])
  <2>1. seen # None => seen = HostFrame
    BY DEF ExchangeInv, HostInv
  <2>2. seen # None => game[Host] = "playing"
    BY TwoPeers DEF ExchangeInv, HostInv, HostSilent, TypeOK
  <2>3. QED
    BY <2>1, <2>2, FrameFields, TwoPeers DEF ExchangeInv, MazeInv
<1>6. HostInv'
  BY <1>1, <1>2, <1>3 DEF ExchangeInv, HostInv
<1>7. HostSilent'
  <2>1. game'[Host] \in {"menu", "begun"} => seen = None
    BY <1>2 DEF ExchangeInv, HostSilent
  <2>2. QED
    BY <1>1, <1>2, <2>1 DEF ExchangeInv, HostSilent
<1>8. localHash[Client] = None /\ verdict[Client] = None
  BY TwoPeers DEF ExchangeInv, MazeInv
<1>9. ClientInv' /\ ClientSilent'
  <2>1. CASE regenerated
    <3>1. \A h : Claim(h)'
      BY <1>2, <2>1 DEF Claim
    <3>2. QED
      BY <1>1, <1>2, <3>1 DEF ExchangeInv, ClientInv, ClientSilent
  <2>2. CASE ~regenerated
    <3>1. wire[Host] = {} /\ peerHash[Host] = None
      BY <2>2 DEF ExchangeInv, ClientSilent
    <3>2. QED
      BY <1>1, <1>2, <1>8, <3>1 DEF ExchangeInv, ClientInv, ClientSilent
  <2>3. QED
    BY <2>1, <2>2
<1>10. RebuildInv' /\ MazeInv'
  BY <1>1, <1>2 DEF ExchangeInv, RebuildInv, MazeInv, Peers
<1>11. MatchIsTrue' /\ MismatchIsTrue'
  <2>1. CASE regenerated
    BY <1>1, <1>2, <2>1 DEF MatchIsTrue, MismatchIsTrue
  <2>2. CASE ~regenerated
    <3>1. verdict[Host] = None
      BY <2>2 DEF ExchangeInv, ClientSilent
    <3>2. QED
      BY <1>1, <1>8, <3>1, MazeAssumption DEF MatchIsTrue, MismatchIsTrue, Peers
  <2>3. QED
    BY <2>1, <2>2
<1>12. WarningIsTrue'
  <2>1. CASE warned
    BY <1>1, <1>2, <2>1 DEF ExchangeInv, WarningIsTrue
  <2>2. CASE seen # None /\ seen.paramHash # ClientParamHash(seed)
    <3>1. params[Host] # params[Client] \/ seed # built[Host]
      BY <1>5, <2>2 DEF ClientParamHash, ParamHash
    <3>2. QED
      BY <1>1, <1>2, <1>5, <2>2, <3>1 DEF WarningIsTrue
  <2>3. QED
    BY <2>1, <2>2 DEF WarningIsTrue
<1>13. QED
  BY <1>4, <1>6, <1>7, <1>9, <1>10, <1>11, <1>12 DEF ExchangeInv

LEMMA ClientGeneratesKeeps ==
  ASSUME ExchangeInv, ClientGenerates
  PROVE  ExchangeInv'
<1>1. seen # None => seen.seed \in Seeds /\ seen.seed = built[Host]
  BY FrameFields DEF ExchangeInv, HostInv, TypeOK
<1>2. PICK seed : seed = IF force[Client] # None THEN force[Client] ELSE seen.seed
  OBVIOUS
<1>3. /\ game[Client] = "begun"
      /\ force[Client] # None \/ seen # None
      /\ game' = [game EXCEPT ![Client] = "playing"]
      /\ Build(Client, seed)
      /\ warned' = (warned \/ (seen # None /\ seen.paramHash # ClientParamHash(seed)))
      /\ UNCHANGED <<settings, link, wire, readyVars, verdictVars, seedToSend, netSeed, seen,
                     lateSeedArrived, ranUnseeded, lateRegenDone, regenerated>>
  BY <1>2 DEF ClientGenerates, clientVars
<1>4. seed \in Seeds
  BY <1>1, <1>2, <1>3, TwoPeers DEF ExchangeInv, TypeOK
<1>5. regenerated => seed = built[Host]
  BY <1>1, <1>2, <1>3 DEF ExchangeInv, RebuildInv
<1>6. warned' \in BOOLEAN /\ ranUnseeded' \in BOOLEAN
  BY <1>3 DEF ExchangeInv, TypeOK
<1>7. QED
  BY <1>2, <1>3, <1>4, <1>5, <1>6, ClientMazeKeeps

LEMMA ClientGeneratesUnseededKeeps ==
  ASSUME ExchangeInv, ClientGeneratesUnseeded
  PROVE  ExchangeInv'
<1>1. PICK seed \in Seeds : seed = gi[Client]
  BY TwoPeers DEF ExchangeInv, TypeOK
<1>2. /\ game[Client] = "begun" /\ force[Client] = None /\ seen = None
      /\ game' = [game EXCEPT ![Client] = "playing"]
      /\ Build(Client, seed)
      /\ ranUnseeded' = TRUE
      /\ UNCHANGED <<settings, link, wire, readyVars, verdictVars, seedToSend, netSeed, seen,
                     lateSeedArrived, lateRegenDone, warned, regenerated>>
  BY <1>1 DEF ClientGeneratesUnseeded, historyVars
<1>3. ~regenerated
  BY <1>2 DEF ExchangeInv, RebuildInv
<1>4. warned' \in BOOLEAN /\ ranUnseeded' \in BOOLEAN
  BY <1>2 DEF ExchangeInv, TypeOK
<1>5. QED
  BY <1>2, <1>3, <1>4, ClientMazeKeeps

\* A fingerprint is computed of the maze the peer is in.
LEMMA MaybeFingerprintKeeps ==
  ASSUME ExchangeInv, NEW p \in Peers, game[p] = "playing", MaybeFingerprint(p),
         UNCHANGED <<settings, game, built, link, wire, verdictVars, seedToSend, netSeed, seen,
                     lateSeedArrived, ranUnseeded, historyVars>>,
         gi' \in [Peers -> Seeds], lateRegenDone' \in BOOLEAN
  PROVE  ExchangeInv'
<1>1. /\ fpComputed' = [fpComputed EXCEPT ![p] = TRUE]
      /\ localHash' = [localHash EXCEPT ![p] = built[p]]
      /\ readyToSend' = [readyToSend EXCEPT ![p] = TRUE]
      /\ UNCHANGED <<force, params, path, readySent, peerHash, verdict, warned, regenerated>>
  BY DEF MaybeFingerprint, RoomFingerprint, settings, verdictVars, historyVars
<1>2. /\ localHash'[p] = built[p]
      /\ \A q \in Peers \ {p} :
           localHash'[q] = localHash[q] /\ readyToSend'[q] = readyToSend[q]
  BY <1>1 DEF ExchangeInv, TypeOK
<1>3. TypeOK'
  BY <1>1 DEF ExchangeInv, TypeOK
<1>4. HostFrame' = HostFrame /\ HostReady' = HostReady
  BY <1>1, SameHost
<1>5. HostInv'
  BY <1>1, <1>2, <1>4, TwoPeers DEF ExchangeInv, HostInv, Peers
<1>6. HostSilent' /\ ClientSilent' /\ RebuildInv'
  BY <1>1 DEF ExchangeInv, HostSilent, ClientSilent, RebuildInv
<1>7. ClientInv'
  BY <1>1, <1>2, TwoPeers DEF ExchangeInv, ClientInv, Claim, Peers
<1>8. MazeInv'
  BY <1>1, <1>2 DEF ExchangeInv, MazeInv
<1>9. MatchIsTrue' /\ MismatchIsTrue' /\ WarningIsTrue'
  BY <1>1 DEF ExchangeInv, MatchIsTrue, MismatchIsTrue, WarningIsTrue
<1>10. QED
  BY <1>3, <1>5, <1>6, <1>7, <1>8, <1>9 DEF ExchangeInv

LEMMA RatTickKeeps ==
  ASSUME ExchangeInv, NEW p \in Peers, RatTick(p)
  PROVE  ExchangeInv'
BY MaybeFingerprintKeeps DEF RatTick, gameVars, clientVars, ExchangeInv, TypeOK

\* The client hears of a late seed only from a host that plays.
LEMMA LateSeedIsHosts ==
  ASSUME ExchangeInv, LateSeed
  PROVE  /\ netSeed.seed = built[Host] /\ netSeed.seed \in Seeds /\ netSeed.seed # None
         /\ force[Client] = None /\ netSeed # None
<1>1. netSeed = HostFrame /\ netSeed \in MazeSeeds /\ ranUnseeded /\ netSeed # None
  BY DEF LateSeed, ExchangeInv, HostInv, TypeOK
<1>2. QED
  BY <1>1, FrameFields, MazeAssumption DEF ExchangeInv, ClientInv

\* The client's maze is built again, or gone: every claim of the client stands.
LEMMA RegenKeeps ==
  ASSUME ExchangeInv, LateSeed, game[Client] = "playing",
         NEW maze \in {built[Host], None}, maze \in Seeds \cup {None},
         built' = [built EXCEPT ![Client] = maze],
         gi' = [gi EXCEPT ![Client] = netSeed.seed],
         game' \in [Peers -> {"menu", "begun", "playing", "loading"}], game'[Host] = game[Host],
         game'[Client] = IF maze = None THEN "loading" ELSE "playing",
         fpComputed' = [fpComputed EXCEPT ![Client] = FALSE],
         lateRegenDone' = TRUE, regenerated' = TRUE,
         UNCHANGED <<settings, link, wire, localHash, readyToSend, readySent, verdictVars,
                     seedToSend, netSeed, seen, lateSeedArrived, ranUnseeded, warned>>
  PROVE  ExchangeInv'
<1>1. UNCHANGED <<force, params, path, peerHash, verdict>>
  BY DEF settings, verdictVars
<1>2. built'[Client] = maze /\ built'[Host] = built[Host]
  BY TwoPeers DEF ExchangeInv, TypeOK
<1>3. TypeOK'
  BY <1>1, LateSeedIsHosts DEF ExchangeInv, TypeOK
<1>4. HostFrame' = HostFrame /\ HostReady' = HostReady
  BY <1>1, <1>2, SameHost
<1>5. HostInv' /\ HostSilent'
  BY <1>1, <1>2, <1>4 DEF ExchangeInv, HostInv, HostSilent
<1>6. \A h : Claim(h)'
  BY <1>2 DEF Claim
<1>7. ClientInv' /\ ClientSilent'
  BY <1>1, <1>6 DEF ExchangeInv, ClientInv, ClientSilent
<1>8. RebuildInv' /\ MazeInv'
  BY <1>1, <1>2, LateSeedIsHosts DEF ExchangeInv, RebuildInv, MazeInv, Peers
<1>9. MatchIsTrue' /\ MismatchIsTrue' /\ WarningIsTrue'
  BY <1>1, <1>2 DEF ExchangeInv, MatchIsTrue, MismatchIsTrue, WarningIsTrue
<1>10. QED
  BY <1>3, <1>5, <1>7, <1>8, <1>9 DEF ExchangeInv

LEMMA TriesRegenKeeps ==
  ASSUME ExchangeInv, TriesRegen
  PROVE  ExchangeInv'
<1>1. CASE RegenByFunction
  <2>1. PICK maze : maze = netSeed.seed
    OBVIOUS
  <2>2. LateSeed /\ game[Client] = "playing"
    BY <1>1 DEF RegenByFunction
  <2>3. maze \in Seeds /\ maze = built[Host] /\ maze # None
    BY <2>1, <2>2, LateSeedIsHosts
  <2>4. game' = game /\ built' = [built EXCEPT ![Client] = maze]
    BY <1>1, <2>1 DEF RegenByFunction, Build
  <2>5. game' \in [Peers -> {"menu", "begun", "playing", "loading"}]
    BY <2>4 DEF ExchangeInv, TypeOK
  <2>6. QED
    BY <1>1, <2>1, <2>2, <2>3, <2>4, <2>5, RegenKeeps DEF RegenByFunction, Build
<1>2. CASE RegenByReload
  <2>1. /\ LateSeed /\ game[Client] = "playing"
        /\ game' = [game EXCEPT ![Client] = "loading"]
        /\ built' = [built EXCEPT ![Client] = None]
    BY <1>2 DEF RegenByReload
  <2>2. /\ game' \in [Peers -> {"menu", "begun", "playing", "loading"}]
        /\ game'[Host] = game[Host] /\ game'[Client] = "loading"
    BY <2>1, TwoPeers DEF ExchangeInv, TypeOK
  <2>3. QED
    BY <1>2, <2>1, <2>2, RegenKeeps DEF RegenByReload
<1>3. CASE RegenNotPossible
  <2>1. /\ LateSeed /\ game[Client] = "playing" /\ lateRegenDone' = TRUE
        /\ gi' = [gi EXCEPT ![Client] = netSeed.seed]
        /\ MaybeFingerprint(Client) \/ UNCHANGED readyVars
        /\ UNCHANGED <<settings, game, built, link, wire, verdictVars, seedToSend, netSeed,
                       seen, lateSeedArrived, ranUnseeded, historyVars>>
    BY <1>3 DEF RegenNotPossible
  <2>2. gi' \in [Peers -> Seeds]
    BY <2>1, LateSeedIsHosts DEF ExchangeInv, TypeOK
  <2>3. CASE MaybeFingerprint(Client)
    BY <2>1, <2>2, <2>3, TwoPeers, MaybeFingerprintKeeps
  <2>4. CASE UNCHANGED readyVars
    BY <2>1, <2>2, <2>4 DEF settings, verdictVars, historyVars, readyVars, ExchangeInv, TypeOK,
       HostInv, HostSilent, ClientInv, ClientSilent, RebuildInv, MazeInv, Claim, HostFrame,
       HostReady, ParamHash, MatchIsTrue, MismatchIsTrue, WarningIsTrue
  <2>5. QED
    BY <2>1, <2>3, <2>4
<1>4. QED
  BY <1>1, <1>2, <1>3 DEF TriesRegen

-----------------------------------------------------------------------------
(* The loop thread.                                                        *)

LEMMA LinkUpKeeps ==
  ASSUME ExchangeInv, NEW p \in Peers, LinkUp(p)
  PROVE  ExchangeInv'
<1>1. /\ link' = [link EXCEPT ![p] = TRUE]
      /\ UNCHANGED <<force, params, path, game, gi, built, wire, localHash, fpComputed,
                     readyToSend, readySent, peerHash, verdict, seedToSend, netSeed, seen,
                     lateSeedArrived, ranUnseeded, lateRegenDone, warned, regenerated>>
  BY DEF LinkUp, settings, gameVars, readyVars, verdictVars, clientVars, historyVars
<1>2. TypeOK'
  BY <1>1 DEF ExchangeInv, TypeOK
<1>3. QED
  BY <1>1, <1>2 DEF ExchangeInv, HostInv, HostSilent, ClientInv, ClientSilent, RebuildInv,
     MazeInv, Claim, HostFrame, HostReady, ParamHash, MatchIsTrue, MismatchIsTrue,
     WarningIsTrue

\* A fingerprint is compared with one the peer has claimed: the verdict is true.
LEMMA JudgedRight ==
  ASSUME ExchangeInv, NEW p \in Peers, DoVerdict(p)
  PROVE  /\ game[Host] = "playing"
         /\ game[p] = "playing" \/ game[p] = "loading"
         /\ p = Host => peerHash[Host] # None
         /\ localHash[p] = peerHash[p] => built[Client] \in {built[Host], None}
         /\ localHash[p] # peerHash[p] => built[Host] # built[Client] \/ regenerated
<1>1. localHash[p] # None /\ peerHash[p] # None
  BY DEF DoVerdict
<1>2. game[p] = "playing" \/ game[p] = "loading"
  BY <1>1 DEF ExchangeInv, MazeInv, TypeOK
<1>3. CASE p = Host
  <2>1. game[Host] = "playing" /\ localHash[Host] = built[Host] /\ Claim(peerHash[Host])
    BY <1>1, <1>2, <1>3 DEF ExchangeInv, HostInv, ClientInv
  <2>2. QED
    BY <1>1, <1>2, <1>3, <2>1 DEF Claim
<1>4. CASE p = Client
  <2>1. peerHash[Client] = built[Host] /\ Claim(localHash[Client]) /\ built[Host] # None
    BY <1>1, <1>4 DEF ExchangeInv, HostInv, ClientInv
  <2>2. game[Host] = "playing"
    BY <2>1, TwoPeers DEF ExchangeInv, MazeInv
  <2>3. QED
    BY <1>2, <1>4, <2>1, <2>2, TwoPeers DEF Claim
<1>5. QED
  BY <1>3, <1>4 DEF Peers

\* What is sent is what the peer has: the host's seed, and a fingerprint.
LEMMA NetTickKeeps ==
  ASSUME ExchangeInv, NEW p \in Peers, NetTick(p)
  PROVE  ExchangeInv'
<1>1. PICK other \in Peers : other = IF p = Host THEN Client ELSE Host
  BY TwoPeers
<1>2. PICK frames :
        frames = (IF p = Host /\ seedToSend # None THEN {seedToSend} ELSE {})
                   \cup (IF readyToSend[p] /\ ~readySent[p]
                         THEN {[type |-> "MazeReady", hash |-> localHash[p]]} ELSE {})
  OBVIOUS
<1>3. /\ wire' = [wire EXCEPT ![other] = @ \cup frames]
      /\ seedToSend' \in {None, seedToSend}
      /\ readySent' = [readySent EXCEPT ![p] = @ \/ (readyToSend[p] /\ ~readySent[p])]
      /\ verdict' = [verdict EXCEPT ![p] =
           IF ~DoVerdict(p) THEN @
           ELSE IF localHash[p] = peerHash[p] THEN "match" ELSE "mismatch"]
      /\ UNCHANGED <<force, params, path, game, gi, built, link, localHash, fpComputed,
                     readyToSend, peerHash, netSeed, seen, lateSeedArrived, ranUnseeded,
                     lateRegenDone, warned, regenerated>>
  BY <1>1, <1>2 DEF NetTick, Judge, settings, gameVars, clientVars, historyVars
<1>4. \A f \in frames :
        \/ p = Host /\ f = seedToSend /\ f # None
        \/ f.type = "MazeReady" /\ f.hash = localHash[p] /\ f.hash # None
             /\ f \in MazeReadys /\ f = [type |-> "MazeReady", hash |-> localHash[p]]
  BY <1>2 DEF ExchangeInv, MazeInv, TypeOK, MazeReadys
<1>5. frames \subseteq MazeSeeds \cup MazeReadys
  BY <1>4 DEF ExchangeInv, TypeOK
<1>6. /\ wire'[other] = wire[other] \cup frames /\ wire'[p] = wire[p]
      /\ wire' \in [Peers -> SUBSET (MazeSeeds \cup MazeReadys)]
      /\ \A q \in Peers : q = p \/ q = other
      /\ p # other
  BY <1>1, <1>3, <1>5, TwoPeers DEF ExchangeInv, TypeOK, Peers
<1>7. /\ \A q \in Peers \ {p} : verdict'[q] = verdict[q]
      /\ verdict'[p] = IF ~DoVerdict(p) THEN verdict[p]
                       ELSE IF localHash[p] = peerHash[p] THEN "match" ELSE "mismatch"
      /\ verdict' \in [Peers -> {"match", "mismatch", None}]
  BY <1>3 DEF ExchangeInv, TypeOK
<1>8. HostFrame' = HostFrame /\ HostReady' = HostReady
  BY <1>3, SameHost
<1>9. TypeOK'
  BY <1>3, <1>6, <1>7 DEF ExchangeInv, TypeOK
<1>10. p = Host => frames \subseteq {HostFrame, HostReady}
  BY <1>4 DEF ExchangeInv, HostInv, HostReady
<1>11. p = Host /\ game[Host] \in {"menu", "begun"} => frames = {}
  BY <1>4 DEF ExchangeInv, HostSilent, MazeInv
<1>12. HostInv'
  BY <1>1, <1>3, <1>6, <1>8, <1>10, TwoPeers DEF ExchangeInv, HostInv, Peers
<1>13. HostSilent'
  <2>1. game[Host] \in {"menu", "begun"} => ~DoVerdict(p)
    BY JudgedRight
  <2>2. game[Host] \in {"menu", "begun"} => wire'[Client] = {}
    BY <1>1, <1>6, <1>11, TwoPeers DEF ExchangeInv, HostSilent, Peers
  <2>3. QED
    BY <1>3, <1>7, <2>1, <2>2, TwoPeers DEF ExchangeInv, HostSilent, Peers
<1>14. \A h : Claim(h) => Claim(h)'
  BY <1>3 DEF Claim
<1>15. ClientInv'
  <2>1. \A f \in wire'[Host] : f.type = "MazeReady" /\ Claim(f.hash)
    <3>1. p = Client => \A f \in frames : f.type = "MazeReady" /\ Claim(f.hash)
      BY <1>4, TwoPeers DEF ExchangeInv, ClientInv
    <3>2. QED
      BY <1>1, <1>6, <3>1, TwoPeers DEF ExchangeInv, ClientInv, Peers
  <2>2. QED
    BY <1>3, <1>14, <2>1 DEF ExchangeInv, ClientInv
<1>16. ClientSilent'
  <2>1. game[Client] \in {"menu", "begun"} /\ p = Client => frames = {}
    BY <1>4, TwoPeers DEF ExchangeInv, MazeInv
  <2>2. peerHash[Host] = None /\ p = Host => ~DoVerdict(p)
    BY JudgedRight
  <2>3. QED
    BY <1>1, <1>3, <1>6, <1>7, <2>1, <2>2, TwoPeers DEF ExchangeInv, ClientSilent, Peers
<1>17. RebuildInv' /\ MazeInv'
  BY <1>3, <1>7, JudgedRight DEF ExchangeInv, RebuildInv, MazeInv
<1>18. MatchIsTrue' /\ MismatchIsTrue' /\ WarningIsTrue'
  BY <1>3, <1>7, JudgedRight DEF ExchangeInv, MatchIsTrue, MismatchIsTrue, WarningIsTrue
<1>19. QED
  BY <1>9, <1>12, <1>13, <1>15, <1>16, <1>17, <1>18 DEF ExchangeInv

LEMMA OnMazeSeedKeeps ==
  ASSUME ExchangeInv, NEW f \in wire[Client], OnMazeSeed(f)
  PROVE  ExchangeInv'
<1>1. /\ f.type = "MazeSeed"
      /\ wire' = [wire EXCEPT ![Client] = @ \ {f}]
      /\ netSeed' = f /\ lateSeedArrived' = TRUE
      /\ UNCHANGED <<force, params, path, game, gi, built, link, localHash, fpComputed,
                     readyToSend, readySent, peerHash, verdict, seedToSend, seen, ranUnseeded,
                     lateRegenDone, warned, regenerated>>
  BY DEF OnMazeSeed, NoteLateSeed, settings, gameVars, readyVars, verdictVars, historyVars
<1>2. f = HostFrame /\ f \in MazeSeeds /\ f # None
  <2>1. f \in MazeSeeds \cup MazeReadys
    BY TwoPeers DEF ExchangeInv, TypeOK
  <2>2. f \in {HostFrame, HostReady}
    BY DEF ExchangeInv, HostInv
  <2>3. QED
    BY <1>1, <2>1, <2>2, FrameFields
<1>3. wire'[Client] = wire[Client] \ {f} /\ wire'[Host] = wire[Host]
  BY <1>1, TwoPeers DEF ExchangeInv, TypeOK
<1>4. TypeOK'
  BY <1>1, <1>2 DEF ExchangeInv, TypeOK
<1>5. HostFrame' = HostFrame /\ HostReady' = HostReady
  BY <1>1, SameHost
<1>6. HostInv' /\ HostSilent'
  BY <1>1, <1>2, <1>3, <1>5 DEF ExchangeInv, HostInv, HostSilent
<1>7. \A h : Claim(h) => Claim(h)'
  BY <1>1 DEF Claim
<1>8. ClientInv' /\ ClientSilent'
  BY <1>1, <1>3, <1>7 DEF ExchangeInv, ClientInv, ClientSilent
<1>9. RebuildInv' /\ MazeInv'
  BY <1>1, <1>2 DEF ExchangeInv, RebuildInv, MazeInv
<1>10. MatchIsTrue' /\ MismatchIsTrue' /\ WarningIsTrue'
  BY <1>1 DEF ExchangeInv, MatchIsTrue, MismatchIsTrue, WarningIsTrue
<1>11. QED
  BY <1>4, <1>6, <1>8, <1>9, <1>10 DEF ExchangeInv

LEMMA OnMazeReadyKeeps ==
  ASSUME ExchangeInv, NEW p \in Peers, NEW f \in wire[p], OnMazeReady(p, f)
  PROVE  ExchangeInv'
<1>1. /\ f.type = "MazeReady"
      /\ wire' = [wire EXCEPT ![p] = @ \ {f}]
      /\ peerHash' = [peerHash EXCEPT ![p] = f.hash]
      /\ UNCHANGED <<force, params, path, game, gi, built, link, localHash, fpComputed,
                     readyToSend, readySent, verdict, seedToSend, netSeed, seen,
                     lateSeedArrived, ranUnseeded, lateRegenDone, warned, regenerated>>
  BY DEF OnMazeReady, settings, gameVars, readyVars, clientVars, historyVars
<1>2. f \in MazeReadys /\ f.hash \in Seeds
  <2>1. f \in MazeSeeds \cup MazeReadys
    BY DEF ExchangeInv, TypeOK
  <2>2. QED
    BY <1>1, <2>1, FrameFields
<1>3. /\ wire'[p] = wire[p] \ {f} /\ peerHash'[p] = f.hash
      /\ \A q \in Peers \ {p} : wire'[q] = wire[q] /\ peerHash'[q] = peerHash[q]
  BY <1>1 DEF ExchangeInv, TypeOK
<1>4. TypeOK'
  BY <1>1, <1>2 DEF ExchangeInv, TypeOK
<1>5. HostFrame' = HostFrame /\ HostReady' = HostReady
  BY <1>1, SameHost
<1>6. p = Client => f.hash = built[Host] /\ game[Host] \notin {"menu", "begun"}
  BY <1>1, FrameFields DEF ExchangeInv, HostInv, HostSilent
<1>7. HostInv' /\ HostSilent'
  BY <1>1, <1>3, <1>5, <1>6, TwoPeers DEF ExchangeInv, HostInv, HostSilent, Peers
<1>8. \A h : Claim(h) => Claim(h)'
  BY <1>1 DEF Claim
<1>9. p = Host => Claim(f.hash)
  BY DEF ExchangeInv, ClientInv
<1>10. ClientInv'
  BY <1>1, <1>3, <1>8, <1>9, TwoPeers DEF ExchangeInv, ClientInv, Peers
<1>11. ClientSilent'
  BY <1>1, <1>3, TwoPeers DEF ExchangeInv, ClientSilent, Peers
<1>12. RebuildInv' /\ MazeInv'
  BY <1>1 DEF ExchangeInv, RebuildInv, MazeInv
<1>13. MatchIsTrue' /\ MismatchIsTrue' /\ WarningIsTrue'
  BY <1>1 DEF ExchangeInv, MatchIsTrue, MismatchIsTrue, WarningIsTrue
<1>14. QED
  BY <1>4, <1>7, <1>10, <1>11, <1>12, <1>13 DEF ExchangeInv

-----------------------------------------------------------------------------
LEMMA ExchangeStep ==
  ASSUME ExchangeInv, [Next]_vars
  PROVE  ExchangeInv'
<1>1. CASE UNCHANGED vars
  BY <1>1 DEF vars, settings, gameVars, readyVars, verdictVars, clientVars, historyVars,
     ExchangeInv, TypeOK, HostInv, HostSilent, ClientInv, ClientSilent, RebuildInv, MazeInv,
     Claim, HostFrame, HostReady, ParamHash, MatchIsTrue, MismatchIsTrue, WarningIsTrue
<1>2. ASSUME NEW p \in Peers, GenReset(p) PROVE ExchangeInv'
  BY <1>2, GenResetKeeps
<1>3. ASSUME NEW p \in Peers, Generates(p) PROVE ExchangeInv'
  BY <1>3, HostGeneratesKeeps, ClientGeneratesKeeps, ClientGeneratesUnseededKeeps DEF Generates
<1>4. ASSUME NEW p \in Peers, RatTick(p) PROVE ExchangeInv'
  BY <1>4, RatTickKeeps
<1>5. ASSUME NEW p \in Peers, LinkUp(p) PROVE ExchangeInv'
  BY <1>5, LinkUpKeeps
<1>6. ASSUME NEW p \in Peers, NetTick(p) PROVE ExchangeInv'
  BY <1>6, NetTickKeeps
<1>7. ASSUME NEW p \in Peers, OnMessage(p) PROVE ExchangeInv'
  BY <1>7, OnMazeSeedKeeps, OnMazeReadyKeeps DEF OnMessage
<1>8. CASE TriesRegen
  BY <1>8, TriesRegenKeeps
<1>9. QED
  BY <1>1, <1>2, <1>3, <1>4, <1>5, <1>6, <1>7, <1>8 DEF Next

\* Wherever MazeSeed and MazeReady fall into onMazeGenBegin, the rat ticks and a second
\* building of the client's maze, what is known of the other's maze is sound.
THEOREM ExchangeHolds == Spec => []ExchangeInv
<1>1. Init => ExchangeInv
  BY ExchangeInit
<1>2. ExchangeInv /\ [Next]_vars => ExchangeInv'
  BY ExchangeStep
<1>3. QED
  BY <1>1, <1>2, PTL DEF Spec

\* MATCH, MISMATCH and the warning of the parameters are logged only when they are true
\* (on_net_tick and onMazeGenBegin, Game/MazeModule.cpp).
THEOREM VerdictsTrue == Spec => []VerdictInv
<1>1. ExchangeInv => VerdictInv
  BY DEF ExchangeInv, VerdictInv
<1>2. QED
  BY <1>1, ExchangeHolds, PTL
=============================================================================
