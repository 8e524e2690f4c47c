------------------------------ MODULE MCClient ------------------------------
(* The properties of a client, over the worlds.                            *)
EXTENDS ClientProperties, ClientWorlds
=============================================================================
