----------------------------- MODULE MCEscrow -----------------------------
(* Instances of the escrow for TLC: Vault is a contract account.           *)
EXTENDS MotorCoveEscrow

CONSTANTS Alice, Bob, Vault

TwoParties == {Alice, Vault}
ThreeParties == {Alice, Bob, Vault}
OneContract == {Vault}
===========================================================================
