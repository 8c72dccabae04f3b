----------------------------- MODULE ResultLog -----------------------------
(***************************************************************************)
(* What an audit dump promises, whatever its files look like: a durable    *)
(* map of results that grows, written by sessions one after the other.  A  *)
(* result recorded by a session is held until it is made durable.  Only a  *)
(* failing session drops what it still holds; a session that closes has    *)
(* made everything durable, and calls the log finished only when no        *)
(* result is missing.  AuditDump is shown to implement this.               *)
(***************************************************************************)
CONSTANTS
    Keys,    \* what has a result: clean samples and perturbed items
    Values,  \* terminal statuses
    None     \* no result

VARIABLES
    results,   \* durable results
    held,      \* results recorded by the open session, not yet all durable
    open,      \* a session is open
    finished,  \* the log is marked as finished
    damaged    \* durable data was removed from outside

vars == <<results, held, open, finished, damaged>>

Maps == [Keys -> Values \cup {None}]
Nothing == [k \in Keys |-> None]
Complete == \A k \in Keys : results[k] # None

\* durable results after those of S were added from the held ones
Adding(S) == [k \in Keys |-> IF k \in S /\ held[k] # None
                             THEN held[k] ELSE results[k]]

Init == /\ results = Nothing /\ held = Nothing
        /\ open = FALSE /\ finished = FALSE /\ damaged = FALSE

Open == /\ ~open /\ open' = TRUE
        /\ UNCHANGED <<results, held, finished, damaged>>

\* an open session takes the mark back before it records anything
Reopen == /\ open /\ finished' = FALSE /\ held = Nothing
          /\ UNCHANGED <<results, held, open, damaged>>

Record(k, v) == /\ open /\ ~finished /\ held[k] = None
                /\ held' = [held EXCEPT ![k] = v]
                /\ UNCHANGED <<results, open, finished, damaged>>

\* a durable write of some held results, which may then still be held
Commit(S) == /\ open /\ results' = Adding(S)
             /\ held' \in {held, [k \in Keys |-> IF k \in S THEN None ELSE held[k]]}
             /\ UNCHANGED <<open, finished, damaged>>

Finish == /\ open /\ held = Nothing /\ Complete
          /\ open' = FALSE /\ finished' = TRUE
          /\ UNCHANGED <<results, held, damaged>>

Close == /\ open /\ held = Nothing
         /\ open' = FALSE /\ finished' = FALSE
         /\ UNCHANGED <<results, held, damaged>>

\* killed, or failed while closing: what was held may or may not be durable
Fail(S) == /\ open /\ open' = FALSE
           /\ results' = Adding(S) /\ held' = Nothing
           /\ finished' \in {finished, FALSE}
           /\ UNCHANGED damaged

Damage == ~open /\ damaged' = TRUE /\ UNCHANGED <<results, held, open, finished>>

\* maintenance between sessions may replace results by others that were
\* written, and drops results only of a damaged log
Repair == /\ ~open /\ results' \in Maps
          /\ damaged \/ \A k \in Keys : results[k] # None => results'[k] # None
          /\ UNCHANGED <<held, open, finished, damaged>>

Next == \/ Open \/ Reopen \/ Finish \/ Close \/ Damage \/ Repair
        \/ \E k \in Keys, v \in Values : Record(k, v)
        \/ \E S \in SUBSET Keys : Commit(S) \/ Fail(S)

Spec == Init /\ [][Next]_vars
=============================================================================
