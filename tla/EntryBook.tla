------------------------------ MODULE EntryBook ------------------------------
(***************************************************************************)
(* What an autonomous trade run promises about the positions it manages,   *)
(* with the broker, the clock and the polling loop left out.  A run opens  *)
(* an entry for a signal at most once, holds at most MaxOpen entries,      *)
(* opens nothing after it has decided to stop, and when it dies while it   *)
(* still tracks an entry it goes through an emergency cleanup first.       *)
(* TradeRun implements this module.                                        *)
(***************************************************************************)
EXTENDS Naturals, FiniteSets

CONSTANTS
    Events,      \* the signals (candidate event ids) a run may act on
    MaxOpen      \* risk.max_open_positions

VARIABLES
    status,      \* where the run is in its life
    book,        \* the events whose entry the run is managing
    opened       \* every event the run has ever opened an entry for

vars == <<status, book, opened>>

Status == {"starting", "trading", "stopping", "cleaning",
           "refused", "finished", "failed"}

Over == status \in {"refused", "finished", "failed"}

TypeOK ==
    /\ status \in Status
    /\ book \subseteq opened
    /\ opened \subseteq Events

Init ==
    /\ status = "starting"
    /\ book = {}
    /\ opened = {}

\* The artifact's contract does not match the runner: nothing is ever sent.
Refuse == status = "starting" /\ status' = "refused" /\ UNCHANGED <<book, opened>>

Start == status = "starting" /\ status' = "trading" /\ UNCHANGED <<book, opened>>

Open(e) ==
    /\ status = "trading"
    /\ e \notin opened
    /\ Cardinality(book) < MaxOpen
    /\ book' = book \cup {e}
    /\ opened' = opened \cup {e}
    /\ UNCHANGED status

Close(e) ==
    /\ status = "trading"
    /\ e \in book
    /\ book' = book \ {e}
    /\ UNCHANGED <<status, opened>>

Stop == status = "trading" /\ status' = "stopping" /\ UNCHANGED <<book, opened>>

\* Flatten on exit drops every tracked entry at once.
Clear == status = "stopping" /\ book' = {} /\ UNCHANGED <<status, opened>>

Finish == status = "stopping" /\ status' = "finished" /\ UNCHANGED <<book, opened>>

\* An exception: only a run with an empty book may die without a cleanup.
Abort ==
    /\ status \in {"starting", "trading", "stopping"}
    /\ \/ status' = "cleaning"
       \/ book = {} /\ status' = "failed"
    /\ UNCHANGED <<book, opened>>

CleanedUp == status = "cleaning" /\ status' = "failed" /\ UNCHANGED <<book, opened>>

Next ==
    \/ Refuse
    \/ Start
    \/ \E e \in Events : Open(e) \/ Close(e)
    \/ Stop
    \/ Clear
    \/ Finish
    \/ Abort
    \/ CleanedUp

Spec == Init /\ [][Next]_vars

-----------------------------------------------------------------------------

\* The run never manages more entries than risk.max_open_positions allows.
BookBounded == Cardinality(book) <= MaxOpen

=============================================================================
