---------------------------- MODULE MCOtaUpdate -----------------------------
(* OtaUpdate with slots of three blocks, updates of slot B.                  *)
EXTENDS OtaUpdate

\* Whole and partial ranges of the slot, and the count 0 that erases a block.
MCEraseInSlot == {<<0, 3>>, <<1, 2>>, <<2, 0>>}
MCTarget == {0, 1, 2}

=============================================================================
