---------------------------- MODULE MCReference ----------------------------
(* Two batches of two and one samples; one audit with controls, one without. *)
EXTENDS Reference

MCBatches == <<<<1, 2>>, <<3>>>>
MCAudits == <<[variants |-> <<1>>, controls |-> TRUE], [variants |-> <<1>>, controls |-> FALSE]>>
MCCells == <<1>>
MCLimits == {None, 1, 3}
=============================================================================
