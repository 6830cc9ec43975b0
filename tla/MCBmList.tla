------------------------------ MODULE MCBmList ------------------------------
(* A small instance of BmList: two uploads of three slots that fill slots   *)
(* the other leaves empty, so that a load that meets both can append any    *)
(* number of bitmaps, none and three included; and the nodes this needs.    *)
EXTENDS BmList, TLC

CONSTANTS n1, n2, n3, n4, ends, middle

MCNodes == {n1, n2, n3, n4}
MCImages == {ends, middle}
MCFilled == ends :> {1, 3} @@ middle :> {2}

=============================================================================
