--------------------------- MODULE MCAiringBoard ---------------------------
(***************************************************************************)
(* An instance of AiringBoard for TLC: two subjects of Bangumi, one title  *)
(* of MyAnimeList that is the first of them, two quarters.                 *)
(***************************************************************************)
EXTENDS AiringBoard

MCSameWork == [w \in Titles |-> "subject"]
MCPayloads == {{"subject"}, {"other"}}
=============================================================================
