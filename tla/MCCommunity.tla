---------------------------- MODULE MCCommunity ----------------------------
(***************************************************************************)
(* Community for TLC: two requests at once, the author of the post and     *)
(* another user, and comments enough for a reply that meets the deletion   *)
(* of its sibling.                                                         *)
(***************************************************************************)
EXTENDS Community
=============================================================================
