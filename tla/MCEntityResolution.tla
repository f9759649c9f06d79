------------------------- MODULE MCEntityResolution -------------------------
(***************************************************************************)
(* Instances of EntityResolution for TLC.  A circle takes six entities and *)
(* three transactions: while two hold the pairs <4, 3> and <6, 5>, the     *)
(* third redirects 4 and 5 to 1, and 3 and 6 to 2.  So much is explored    *)
(* without what else can happen; with it, two transactions and the first   *)
(* four entities, the fewest with which a merge can find both of the rows  *)
(* it locks redirected to two roots that another joins the other way round.*)
(***************************************************************************)
EXTENDS EntityResolution, TLC

MCAliases   == [e \in 1 .. 6 |-> 0]
MCFirstRank == [e \in 1 .. 6 |-> 0]
MCPair      == [c \in Candidates |->
                  CASE c = "a" -> {3, 4} [] c = "b" -> {5, 6} [] c = "c" -> {1, 4}
                    [] c = "d" -> {2, 3} [] c = "e" -> {2, 6} [] c = "f" -> {1, 5} [] OTHER -> {1, 2}]

Review   == \E c \in Reviewed : status[c] # "absent"
Plain    == library = {} /\ imports = 0 /\ Reversed = {} /\ ~ Review
Untouched(c) == status[c] = "pending" /\ \A w \in Workers : run[w].of # c
FourRows ==
  /\ \E w \in Workers : run[w] = Idle
  /\ \A c \in {"b", "e", "f"} : Untouched(c)
  /\ Review => Untouched("d")
Bound == Plain \/ FourRows

Symmetry == Permutations(Workers)
=============================================================================
