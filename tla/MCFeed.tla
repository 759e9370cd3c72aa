------------------------------- MODULE MCFeed -------------------------------
(***************************************************************************)
(* Two connections, so that an address can be back while its old           *)
(* connection is still being closed.  An execution has either a reader     *)
(* alone or other programs, which share an address and of which each may   *)
(* or may not keep up.                                                     *)
(***************************************************************************)
EXTENDS Feed

CONSTANTS view, other

Connections == 1 .. 2
=============================================================================
