--------------------------- MODULE PaymentQuotesMC ---------------------------
(* Small instances of PaymentQuotes. *)
EXTENDS PaymentQuotes, TLC

CONSTANTS r1, r2, r3, o1, o2, k1, f1, btc

\* Two requests of one organization with one key, and one of another
\* organization with the same key.
OrgPair == r1 :> o1 @@ r2 :> o1 @@ r3 :> o2
KeyPair == r1 :> k1 @@ r2 :> k1 @@ r3 :> k1

\* The requests that differ in nothing.
Alike == Permutations({r1, r2})

CoinAll == r1 :> btc @@ r2 :> btc @@ r3 :> btc
=============================================================================
