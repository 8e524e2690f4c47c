------------------------------- MODULE MCCasc -------------------------------
(***************************************************************************)
(* Tables of every size read through a CASC source whose library never     *)
(* fails.                                                                  *)
(***************************************************************************)
EXTENDS ClientWorlds

MCStored == {{w \in SourceWorlds : w.kind = "casc"}}

(* "eiter all bytes have been read, or its an encrypted section and zero   *)
(* has been read": a read of a CASC source that returns gave all bytes or  *)
(* none (CASCFilesystem.cpp:15-20).                                        *)
AllOrNothing == source = "casc" => got.bytes \in {0, got.asked}
=============================================================================
