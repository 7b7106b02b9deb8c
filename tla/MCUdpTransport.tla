--------------------------- MODULE MCUdpTransport ---------------------------
(* Small instances of UdpTransport: how many sends each peer may make. *)
EXTENDS UdpTransport, TLC

TwoByClient == (Host :> 0) @@ (Client :> 2)
OneByClient == (Host :> 0) @@ (Client :> 1)
TwoAndOne == (Host :> 2) @@ (Client :> 1)
OneByHost == (Host :> 1) @@ (Client :> 0)
=============================================================================
