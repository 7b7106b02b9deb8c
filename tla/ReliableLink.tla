---------------------------- MODULE ReliableLink ----------------------------
(***************************************************************************)
(* What a reliable send of the transport really promises to the message   *)
(* layer: every blob handed to INetTransport::send with reliable = true    *)
(* reaches the other peer at most once, and nothing reaches it that was    *)
(* not sent.  Nothing is said about the order: UdpTransport hands a blob   *)
(* over the moment its datagram arrives.                                   *)
(*                                                                         *)
(* A blob is named by its place in the sender's sequence of reliable sends.*)
(***************************************************************************)
EXTENDS Naturals, Sequences

CONSTANTS Host, Client

Peers == {Host, Client}
Other(p) == IF p = Host THEN Client ELSE Host

VARIABLES
  sent,      \* sent[p]: how many blobs p has sent reliably so far
  arrived    \* arrived[p]: the blobs of the other peer, in order of arrival

vars == <<sent, arrived>>

Init ==
  /\ sent = [p \in Peers |-> 0]
  /\ arrived = [p \in Peers |-> <<>>]

Send(p) ==
  /\ sent' = [sent EXCEPT ![p] = @ + 1]
  /\ UNCHANGED arrived

Arrive(p, k) ==
  /\ k \in 1 .. sent[Other(p)]
  /\ \A i \in DOMAIN arrived[p] : arrived[p][i] # k
  /\ arrived' = [arrived EXCEPT ![p] = Append(@, k)]
  /\ UNCHANGED sent

Next ==
  \E p \in Peers :
    \/ Send(p)
    \/ \E k \in 1 .. sent[Other(p)] : Arrive(p, k)

Spec == Init /\ [][Next]_vars
=============================================================================
