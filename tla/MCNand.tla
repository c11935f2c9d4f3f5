------------------------------- MODULE MCNand -------------------------------
(***************************************************************************)
(* Model-checking instances of Nand: two neighbouring areas with a block to *)
(* spare each, and blocks beyond them that never fail.                      *)
(***************************************************************************)
EXTENDS Nand

MCBase  == <<0, 12>>
MCBound == <<12, 8>>
MCImg   == <<7, 3>>

Setting(indirect, factory, wear, off) ==
  [indirect |-> indirect, factory |-> factory, wearable |-> 0 .. 4,
   wear |-> wear, upgrades |-> 2, powerOff |-> off]

\* Either build; blocks bad from the factory, worn out later, or both.
MCSettings ==
  {Setting(TRUE, {b}, 1, TRUE) : b \in {0, 1, 4}} \cup
  {Setting(FALSE, {}, 1, FALSE), Setting(FALSE, {2}, 0, TRUE),
   Setting(TRUE, {}, 2, FALSE), Setting(TRUE, {1, 2, 3}, 1, FALSE)}

\* The build for direct access; one block wears out.
MCDirect == {Setting(FALSE, {}, 1, FALSE)}
=============================================================================
