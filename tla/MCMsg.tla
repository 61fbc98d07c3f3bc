------------------------------- MODULE MCMsg -------------------------------
(* Msg for TLC: a server with a queue of one message and two other threads. *)
EXTENDS Msg, TLC
CONSTANTS server, client, peer, gone

MCPrio == server :> 0 @@ client :> 1 @@ peer :> 1
MCCapacity == server :> 1 @@ client :> 0 @@ peer :> 0
MCLinks == {<<client, server>>, <<peer, server>>, <<Isr, server>>,
            <<server, server>>, <<peer, client>>, <<client, gone>>}
GoneLinks == {<<client, gone>>, <<client, server>>, <<peer, server>>}
=============================================================================
