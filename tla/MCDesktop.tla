----------------------------- MODULE MCDesktop ------------------------------
(* Values for the constants of Desktop. *)
EXTENDS Desktop, TLC
MCProcess == {Bg, Wm} \cup App
Symmetry == Permutations(App)
=============================================================================
