------------------------- MODULE MCProjectedEscrow -------------------------
(* Instances of the projected escrow for TLC: Vault is a contract account.  *)
EXTENDS ProjectedEscrow

CONSTANTS Alice, Bob, Vault

TwoParties == {Alice, Vault}
ThreeParties == {Alice, Bob, Vault}
OneContract == {Vault}
=============================================================================
