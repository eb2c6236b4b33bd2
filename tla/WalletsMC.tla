------------------------------ MODULE WalletsMC ------------------------------
(* Small instances of Wallets. *)
EXTENDS Wallets, TLC

CONSTANTS c1, c2, c3, r1, m1

\* The payment of a merchant.
MerchantOne == r1 :> m1

Alike == Permutations({c1, c2, c3})
=============================================================================
