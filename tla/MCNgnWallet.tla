---------------------------- MODULE MCNgnWallet -----------------------------
(***************************************************************************)
(* Instances of NgnWallet: a deposit, a deposit record, a withdrawal and a *)
(* stake that compete for one wallet.                                      *)
(***************************************************************************)
EXTENDS NgnWalletProps, TLC

CONSTANTS r1, r2, d1, x1, w1, s1

Amounts == d1 :> 2 @@ x1 :> 2 @@ w1 :> 1 @@ s1 :> 1

=============================================================================
