----------------------------- MODULE MCDerived -----------------------------
(* Small instances of Derived for TLC. *)
EXTENDS Derived


TwoTallies == {0, 1}
=============================================================================
