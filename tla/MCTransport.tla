---------------------------- MODULE MCTransport ----------------------------
(***************************************************************************)
(* Transport for TLC: two messages over up to four connections, with one   *)
(* end and restart of the peer.                                            *)
(***************************************************************************)
EXTENDS Transport, TLC
=============================================================================
