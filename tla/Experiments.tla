----------------------------- MODULE Experiments -----------------------------
(***************************************************************************)
(* The two experiment runners: models/ibkr_experiments.py (the suite of    *)
(* ml-backtest commands behind the strict live-valid gate of cli.py) and   *)
(* models/colab_research.py (the signal-audit commands of the notebook).   *)
(* A runner works through its experiments one command at a time.  All it   *)
(* keeps between two invocations is on disk: an artifact and a log per     *)
(* experiment, and the summary.  It may be interrupted at any point; the   *)
(* command it started then dies with it or goes on alone.                  *)
(*                                                                         *)
(* An artifact is NoFile, Torn (a write that did not finish), Foreign (a   *)
(* file of that name that is no result, left from elsewhere) or a complete *)
(* result.  What a result says is abstracted to the replay data it was     *)
(* computed from and the gate's errors over them; rankings by profit and   *)
(* the rates per day are left out.                                         *)
(***************************************************************************)
EXTENDS Naturals, Sequences, FiniteSets

CONSTANTS
    Suite,        \* the experiments in the order of the suite, without repeats
    Strict,       \* those whose command carries --strict-live-valid-1s
    Replays,      \* what label and execution data a command may find
    MinDays,      \* --min-live-valid-1s-days of the strict experiments
    MinFolds,     \* --min-live-valid-folds of the strict experiments
    Left,         \* bound: experiments a foreign file may be left for
    MaxRuns       \* bound: commands launched in a behaviour

Bars == {"1s", "1m", "none"}
Names == {Suite[i] : i \in DOMAIN Suite}

ASSUME SuiteAssumption ==
    /\ Suite \in Seq(STRING)
    /\ \A i, j \in DOMAIN Suite : Suite[i] = Suite[j] => i = j
    /\ Strict \subseteq Names /\ Left \subseteq Names
ASSUME ReplayAssumption ==
    Replays \subseteq [label : Bars, execution : Bars, labelTicks : BOOLEAN,
                       executionTicks : BOOLEAN, days : Nat, folds : Nat]
ASSUME BoundAssumption == {MinDays, MinFolds, MaxRuns} \subseteq Nat

VARIABLES
    kind,       \* which runner: "ibkr" or "colab"
    file,       \* the artifact of each experiment
    log,        \* each log's verdict: "" or "refused"
    launched,   \* history: the commands in the order they were launched
    working,    \* numbers of the commands still running, with their phase
    runner,     \* the runner's own variables
    summary     \* the rows last written: summary.json and .csv, or the report

vars == <<kind, file, log, launched, working, runner, summary>>

NoFile == [kind |-> "none"]
Torn == [kind |-> "torn"]
Foreign == [kind |-> "foreign"]
NoResult == {NoFile, Torn, Foreign}
NoRows == [e \in {} |-> 0]
Idle == [at |-> "idle", todo |-> {}, force |-> FALSE, rows |-> NoRows,
         started |-> NoRows, child |-> 0, code |-> 0]

(* A dictionary with one entry set, and one laid over another.              *)
Put(f, k, v) == [x \in DOMAIN f \cup {k} |-> IF x = k THEN v ELSE f[x]]
Over(f, g) == [x \in DOMAIN f \cup DOMAIN g |-> IF x \in DOMAIN f THEN f[x] ELSE g[x]]

-----------------------------------------------------------------------------
(* The gate of the command (cli.py).                                       *)

MinimumOf(e, least) == IF e \in Strict THEN least ELSE 0

StrictErrors(e, d) ==
    {err \in {"label_bars_not_1s", "execution_bars_not_1s", "label_bars_missing",
              "execution_bars_missing", "label_bars_not_tick_backed",
              "execution_bars_not_tick_backed", "window_too_short",
              "too_few_walk_forward_folds"} :
        \/ err = "label_bars_not_1s" /\ d.label # "1s"
        \/ err = "execution_bars_not_1s" /\ d.execution # "1s"
        \/ err = "label_bars_missing" /\ d.label = "none"
        \/ err = "execution_bars_missing" /\ d.execution = "none"
        \/ err = "label_bars_not_tick_backed" /\ ~d.labelTicks
        \/ err = "execution_bars_not_tick_backed" /\ ~d.executionTicks
        \/ err = "window_too_short" /\ d.days < MinimumOf(e, MinDays)
        \/ err = "too_few_walk_forward_folds" /\ d.folds < MinimumOf(e, MinFolds)}

(* Only the backtest command has the gate, and only the flag makes it stop  *)
(* the command; without it the errors are recorded in the artifact.         *)
GateStops(e, d) == kind = "ibkr" /\ e \in Strict /\ StrictErrors(e, d) # {}

-----------------------------------------------------------------------------
(* A row of the summary.  "no" and "at" say which command wrote the         *)
(* artifact that was read, and how many commands had been launched by then. *)

BlankRow(status, error) ==
    [status |-> status, eligible |-> FALSE, error |-> error, no |-> 0, at |-> 0,
     trials |-> 1]

UnreadableRow(artifact, logged, failed) ==
    IF artifact = Torn THEN BlankRow("invalid_json", TRUE)
    ELSE IF artifact = Foreign THEN BlankRow("non_result", failed)
    ELSE IF logged = "refused" THEN BlankRow("strict_gate_failed", TRUE)
    ELSE BlankRow("missing", failed)

OneSecondExecution(d) == d.label = "1s" /\ d.execution = "1s"

(* Mutant: a 1-second replay is enough, whatever the gate's verdict.        *)
ResultRowUnchecked(artifact, failed) ==
    [status |-> "ok", eligible |-> kind = "ibkr" /\ OneSecondExecution(artifact.replay),
     error |-> failed, no |-> artifact.no, at |-> artifact.at, trials |-> 1]

ResultRow(artifact, failed) ==
    [status |-> "ok",
     eligible |-> kind = "ibkr" /\ OneSecondExecution(artifact.replay)
                                /\ artifact.errors = {},
     error |-> failed, no |-> artifact.no, at |-> artifact.at, trials |-> 1]

ParseArtifact(e, failed) ==
    IF file[e] \in NoResult THEN UnreadableRow(file[e], log[e], failed)
                            ELSE ResultRow(file[e], failed)

(* The notebook's parser: a file it cannot read, or that is not there, is   *)
(* invalid.                                                                 *)
ParseAudit(e) ==
    CASE file[e] \in {NoFile, Torn} -> BlankRow("invalid_json", TRUE)
      [] file[e] = Foreign          -> BlankRow("non_result", FALSE)
      [] OTHER                      -> ResultRow(file[e], FALSE)

OkRows(rows) == {e \in DOMAIN rows : rows[e].status = "ok"}

(* The number of trials every ok row's Sharpe ratio is deflated by.         *)
Trials(rows) == LET n == Cardinality(OkRows(rows)) IN IF n = 0 THEN 1 ELSE n

Summarize(rows) ==
    [e \in DOMAIN rows |->
        IF e \in OkRows(rows) THEN [rows[e] EXCEPT !.trials = Trials(rows)] ELSE rows[e]]

ExistingResults ==
    LET read == [e \in Names |-> ParseArtifact(e, FALSE)]
    IN  [e \in {x \in Names : read[x].status # "missing"} |-> read[e]]

-----------------------------------------------------------------------------
Init ==
    /\ kind \in {"ibkr", "colab"}
    /\ \E left \in SUBSET Left :
          file = [e \in Names |-> IF e \in left THEN Foreign ELSE NoFile]
    /\ log = [e \in Names |-> ""]
    /\ launched = <<>>
    /\ working = NoRows
    /\ runner = Idle
    /\ summary = NoRows

(* main with --run, or the notebook's call: the filters and the limit keep  *)
(* any part of the suite, in its order.                                     *)
Start ==
    /\ runner.at = "idle"
    /\ \E chosen \in SUBSET Names, force \in BOOLEAN :
          runner' = [Idle EXCEPT !.at = "next", !.force = force, !.todo = chosen]
    /\ UNCHANGED <<kind, file, log, launched, working, summary>>

Record(e, row) ==
    runner' = [runner EXCEPT !.at = "next", !.todo = @ \ {e}, !.child = 0,
                             !.rows = Put(@, e, row)]

(* An artifact that is there is read instead of computed again.             *)
Place(e) == CHOOSE i \in DOMAIN Suite : Suite[i] = e
Pending(e) ==
    runner.at = "next" /\ e \in runner.todo /\ \A f \in runner.todo : Place(e) <= Place(f)

ReuseIbkr(e) ==
    /\ kind = "ibkr" /\ Pending(e) /\ file[e] # NoFile /\ ~runner.force
    /\ Record(e, ParseArtifact(e, FALSE))
    /\ UNCHANGED <<kind, file, log, launched, working, summary>>

ReuseColab(e) ==
    /\ kind = "colab" /\ Pending(e) /\ file[e] # NoFile /\ ~runner.force
    /\ Record(e, ParseAudit(e))
    /\ UNCHANGED <<kind, file, log, launched, working, summary>>

(* Otherwise its command is started; an artifact of earlier stays there.    *)
StartCommand(e) ==
    LET no == Len(launched) + 1 IN
    /\ Pending(e) /\ Len(launched) < MaxRuns
    /\ file[e] = NoFile \/ runner.force
    /\ \E d \in Replays : launched' = Append(launched, [of |-> e, replay |-> d])
    /\ working' = Put(working, no, "computing")
    /\ runner' = [runner EXCEPT !.at = "wait", !.child = no,
                                !.started = Put(@, e, no)]

(* This runner opens the log for writing, which empties it.                 *)
LaunchIbkr(e) ==
    /\ kind = "ibkr" /\ StartCommand(e)
    /\ log' = [log EXCEPT ![e] = ""]
    /\ UNCHANGED <<kind, file, summary>>

LaunchColab(e) ==
    /\ kind = "colab" /\ StartCommand(e)
    /\ UNCHANGED <<kind, file, log, summary>>

-----------------------------------------------------------------------------
(* The commands.  The exit status reaches the runner that waits for it.     *)

Without(no) == [n \in DOMAIN working \ {no} |-> working[n]]

Exit(no, code) ==
    /\ working' = Without(no)
    /\ runner' = IF runner.child = no THEN [runner EXCEPT !.at = "ended", !.code = code]
                                      ELSE runner

CommandRefused(no) ==
    LET c == launched[no] IN
    /\ working[no] = "computing" /\ GateStops(c.of, c.replay)
    /\ log' = [log EXCEPT ![c.of] = "refused"]
    /\ Exit(no, 1)
    /\ UNCHANGED <<kind, file, launched, summary>>

(* It raises, or is killed, in any phase: a started write stays torn.       *)
CommandFails(no) ==
    /\ Exit(no, 1)
    /\ UNCHANGED <<kind, file, log, launched, summary>>

(* The write empties the file first.  Two commands of one experiment write *)
(* over each other when their writes overlap.                               *)
CommandWrites(no) ==
    LET c == launched[no]
        others == {n \in DOMAIN working \ {no} :
                      launched[n].of = c.of /\ working[n] # "computing"}
    IN
    /\ working[no] = "computing" /\ ~GateStops(c.of, c.replay)
    /\ working' = [n \in DOMAIN working |->
                      IF n \in others THEN "overlapped"
                      ELSE IF n = no THEN IF others = {} THEN "writing" ELSE "overlapped"
                      ELSE working[n]]
    /\ file' = [file EXCEPT ![c.of] = Torn]
    /\ UNCHANGED <<kind, log, launched, runner, summary>>

CommandEnds(no) ==
    LET c == launched[no]
        result == [kind |-> "result", no |-> no, at |-> Len(launched),
                   replay |-> c.replay, errors |-> StrictErrors(c.of, c.replay)]
    IN
    /\ working[no] # "computing"
    /\ \E left \in {result} \cup (IF working[no] = "overlapped" THEN {Torn} ELSE {}) :
          file' = [file EXCEPT ![c.of] = left]
    /\ Exit(no, 0)
    /\ UNCHANGED <<kind, log, launched, summary>>

-----------------------------------------------------------------------------
(* The runner again: the row of a command that has ended.                   *)

Awaited == launched[runner.child].of

(* Mutant: the exit status is not looked at.                                *)
CollectIbkrSilently ==
    /\ kind = "ibkr" /\ runner.at = "ended"
    /\ LET e == Awaited IN Record(e, ParseArtifact(e, FALSE))
    /\ UNCHANGED <<kind, file, log, launched, working, summary>>

(* The ibkr runner reads the artifact whatever the exit status was and      *)
(* notes the failure beside it.                                             *)
CollectIbkr ==
    /\ kind = "ibkr" /\ runner.at = "ended"
    /\ LET e == Awaited IN Record(e, ParseArtifact(e, runner.code # 0))
    /\ UNCHANGED <<kind, file, log, launched, working, summary>>

(* The notebook's runner reads it only after a success.                     *)
CollectColab ==
    /\ kind = "colab" /\ runner.at = "ended"
    /\ LET e == Awaited IN
          Record(e, IF runner.code # 0 THEN BlankRow("failed", TRUE) ELSE ParseAudit(e))
    /\ UNCHANGED <<kind, file, log, launched, working, summary>>

(* Only the notebook's runner has a timeout; the command is killed.         *)
TimedOut ==
    /\ kind = "colab" /\ runner.at = "wait"
    /\ working' = Without(runner.child)
    /\ Record(Awaited, BlankRow("timeout", TRUE))
    /\ UNCHANGED <<kind, file, log, launched, summary>>

(* Mutant: the summary holds only the rows of this invocation.              *)
WriteSummaryOfCall ==
    /\ kind = "ibkr" /\ runner.at = "next" /\ runner.todo = {}
    /\ summary' = Summarize(runner.rows)
    /\ runner' = Idle
    /\ UNCHANGED <<kind, file, log, launched, working>>

(* The suite's summary: what is on disk for every experiment, replaced by   *)
(* the rows of this invocation.                                             *)
WriteSummary ==
    /\ kind = "ibkr" /\ runner.at = "next" /\ runner.todo = {}
    /\ summary' = Summarize(Over(runner.rows, ExistingResults))
    /\ runner' = Idle
    /\ UNCHANGED <<kind, file, log, launched, working>>

(* The notebook's report is over the rows of the call, ok and failed apart. *)
WriteReport ==
    /\ kind = "colab" /\ runner.at = "next" /\ runner.todo = {}
    /\ summary' = runner.rows
    /\ runner' = Idle
    /\ UNCHANGED <<kind, file, log, launched, working>>

(* The runner is interrupted: its rows are lost.                            *)
Interrupted ==
    /\ runner.at # "idle"
    /\ runner' = Idle
    /\ working' \in {working, Without(runner.child)}
    /\ UNCHANGED <<kind, file, log, launched, summary>>

Next ==
    \/ Start
    \/ \E e \in Names : ReuseIbkr(e) \/ ReuseColab(e) \/ LaunchIbkr(e) \/ LaunchColab(e)
    \/ \E no \in DOMAIN working :
          CommandRefused(no) \/ CommandFails(no) \/ CommandWrites(no) \/ CommandEnds(no)
    \/ CollectIbkr \/ CollectColab \/ TimedOut
    \/ WriteSummary \/ WriteReport \/ Interrupted

Spec == Init /\ [][Next]_vars

-----------------------------------------------------------------------------
(* Properties.                                                              *)

(* A row the summary calls promotion-eligible was computed by a command of  *)
(* that very experiment, from 1-second tick-backed label and execution      *)
(* data, over as many days and folds as the experiment demands: through the *)
(* gate, the artifact on disk, interruptions and later invocations.         *)
(* (parse_backtest_artifact, strict_live_valid_promotion_eligible)          *)
PromotionEarned ==
    \A e \in DOMAIN summary : summary[e].eligible =>
        LET c == launched[summary[e].no] IN
        /\ c.of = e
        /\ OneSecondExecution(c.replay) /\ c.replay.labelTicks /\ c.replay.executionTicks
        /\ e \in Strict => c.replay.days >= MinDays /\ c.replay.folds >= MinFolds

(* A result the runner reports without an error, for an experiment it ran   *)
(* itself, is one that was finished after it had started the command: an    *)
(* artifact left from earlier is never passed off as the new run's.         *)
(* (run_experiments of both runners)                                        *)
FreshUnlessTold ==
    \A e \in DOMAIN runner.rows \cap DOMAIN runner.started :
        ~runner.rows[e].error => runner.rows[e].at >= runner.started[e]

(* A trial once counted stays counted: a result the last summary deflated   *)
(* by is in every later one too, whatever part of the suite is selected,    *)
(* unless this invocation handled the experiment itself or its artifact was *)
(* torn since, and every ok row is deflated by all of them.  (main,         *)
(* collect_existing_results, summarize_results)                             *)
StillThere == {e \in OkRows(summary) \ DOMAIN runner.rows : file[e] # Torn}

TrialsKept ==
    [][WriteSummary =>
         /\ StillThere \subseteq OkRows(summary')
         /\ \A e \in OkRows(summary') :
               summary'[e].trials >= Cardinality(StillThere \cup OkRows(runner.rows))]_vars
=============================================================================
