---------------------------- MODULE MCSubscription ----------------------------
(* Subscription for TLC: tabs are interchangeable. *)
EXTENDS Subscription, TLC

TabSymmetry == Permutations(Tabs)
=============================================================================
