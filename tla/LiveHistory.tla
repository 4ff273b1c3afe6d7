----------------------------- MODULE LiveHistory -----------------------------
(***************************************************************************)
(* Where the bars of the program come from: history requests through the   *)
(* pacing guard (IBKRBroker.historical_bars), and in a trade run what      *)
(* follows its first request: the stream of TickBars, or, in the           *)
(* diagnostic mode historical_poll, another request at every poll.  A      *)
(* request the guard refuses raises PacingViolation, which ends the run.   *)
(* The clock is the same for both.                                         *)
(***************************************************************************)
EXTENDS PacingGuard, TickBars

VARIABLES
    use,      \* "requests" (any caller), or a trade run that does "poll" or "stream"
    key,      \* --history-what-to-show of the trade run
    phase     \* of the trade run: "start", "running", "ended"

guardVars == <<log, head, answer>>

liveVars == <<now, guardVars, use, key, phase, streamVars>>

LiveInit ==
    /\ Init
    /\ StreamInit
    /\ phase = "start"
    /\ \/ use = "requests" /\ key = CHOOSE k \in Keys : TRUE
       \/ use \in {"poll", "stream"} /\ key \in Keys

-----------------------------------------------------------------------------

AnyRequest ==
    /\ use = "requests"
    /\ \E k \in Keys : Send(k) \/ Refuse(k)
    /\ UNCHANGED <<use, key, phase, streamVars>>

\* The guard of a fresh connection has nothing to object to.
StartupRequest ==
    /\ use # "requests" /\ phase = "start"
    /\ Send(key)
    /\ phase' = "running"
    /\ UNCHANGED <<use, key, streamVars>>

\* historical_poll: the request of every round of the loop; its answer takes
\* the place of the history.
Poll ==
    /\ use = "poll" /\ phase = "running"
    /\ Send(key)
    /\ UNCHANGED <<use, key, phase, streamVars>>

PollRefused ==
    /\ use = "poll" /\ phase = "running"
    /\ Refuse(key)
    /\ phase' = "ended"
    /\ UNCHANGED <<use, key, streamVars>>

\* streaming: the history is asked for once; the rest comes from the stream.
StreamStep ==
    /\ use = "stream" /\ phase = "running"
    /\ RunnerStep \/ TickArrives
    /\ UNCHANGED <<now, guardVars, use, key, phase>>

ClockTick ==
    /\ use = "requests" \/ phase = "running"
    /\ Tick
    /\ UNCHANGED <<use, key, phase, streamVars>>

LiveNext ==
    AnyRequest \/ StartupRequest \/ Poll \/ PollRefused \/ StreamStep \/ ClockTick

LiveSpec == LiveInit /\ [][LiveNext]_liveVars

=============================================================================
