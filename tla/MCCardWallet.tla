---------------------------- MODULE MCCardWallet ----------------------------
(***************************************************************************)
(* Three cards and two wallets: a card is made for one wallet, reset and   *)
(* made for the other while a second one is their backup.                  *)
(***************************************************************************)
EXTENDS CardWallet, TLC

Symmetry == Permutations(Cards) \cup Permutations(Wallets)
=============================================================================
