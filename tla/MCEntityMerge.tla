--------------------------- MODULE MCEntityMerge ---------------------------
(* Instances of EntityMerge for TLC.  Page p1 names two things, p2 a third   *)
(* one in three spellings of one form, so that what was merged into one      *)
(* entity may be merged on into another; nothing is close when it is linked. *)
EXTENDS EntityMerge, TLC

CONSTANTS p1, p2, c1

Forms == 1..5
NormOf == <<1, 2, 3, 3, 3>>
NoPairs == {}
AllPairs == {{1, 2}, {1, 3}, {2, 3}}
TwoPages == p1 :> <<1, 2>> @@ p2 :> <<3, 4, 5>>
OneClient == {c1}
\* The second merge has a later time than the first, the third an earlier one
\* than the second, and the same as the first.
OneClock == {<<2, 3, 2>>}
=============================================================================
