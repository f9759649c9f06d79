------------------------- MODULE MCKnowledgeImport -------------------------
(***************************************************************************)
(* An instance of KnowledgeImport for TLC: a Bangumi subject, and two VNDB *)
(* works that nest the same two characters in another order.               *)
(***************************************************************************)
EXTENDS KnowledgeImport, TLC

CONSTANTS subject, vn1, vn2, char1, char2

MCNested == (subject :> << >>) @@ (vn1 :> <<char1, char2>>) @@ (vn2 :> <<char2, char1>>)
MCAnswer == <<1, 2>>
=============================================================================
