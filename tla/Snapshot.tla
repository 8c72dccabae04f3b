----------------------------- MODULE Snapshot -----------------------------
(***************************************************************************)
(* What a store derived from a changing source promises to whoever loads   *)
(* it: nothing at all, or something computed from the source as it is now. *)
(* Derived is shown to implement it with the rows of the dump as source    *)
(* and what an accepted metrics store holds as copy.                       *)
(***************************************************************************)
CONSTANTS Versions, None

VARIABLES source, copy
vars == <<source, copy>>

Init == source \in Versions /\ copy = None

\* a change of the source takes the copy out of use
Change == source' \in Versions /\ source' # source /\ copy' = None
Refresh == copy' = source /\ UNCHANGED source
Drop == copy' = None /\ UNCHANGED source

Next == Change \/ Refresh \/ Drop
Spec == Init /\ [][Next]_vars
=============================================================================
