---------------------------- MODULE ModelServing ----------------------------
(***************************************************************************)
(* models/artifact.py and the scoring loop of a trade run in cli.py.  The  *)
(* artifact is a model fitted anew on all samples with a policy that is    *)
(* the median of those the folds had found; a trade run asks it of each    *)
(* new candidate whether to trade.  What the report of the folds promised  *)
(* holds for the live run only as far as that policy follows theirs.       *)
(*                                                                         *)
(* Saving and loading hand the artifact on unchanged here; the features of *)
(* a live sample, and what it lacks of those the model was trained on, are *)
(* the subject of Dataset.                                                 *)
(***************************************************************************)
EXTENDS FoldScoring

CONSTANTS
    Live,        \* bound: live samples, per setting
    Overrides    \* decision_threshold of a trade run, an option

ASSUME ServingAssumption ==
    /\ \A s \in Settings : \A x \in Live[s] : x.p \in 0..Levels
    /\ \A o \in Overrides : o = {} \/ \E t \in 0..Levels : o = {t}

VARIABLES
    artifact,    \* the policy of the artifact, an option
    verdict      \* the last live sample scored, an option

servingVars == <<scoringVars, artifact, verdict>>

\* The median of the values of a function, rounded up: integers reach the one if they reach the
\* other.
Median(value) ==
    LET K == DOMAIN value
        Below(k) == {j \in K : value[j] < value[k] \/ (value[j] = value[k] /\ j < k)}
        Nth(n) == value[CHOOSE k \in K : Cardinality(Below(k)) = n - 1]
        n == Cardinality(K)
    IN -((-(Nth((n + 1) \div 2) + Nth(n \div 2 + 1))) \div 2)

\* _artifact_threshold
ArtifactThreshold == Median([k \in DOMAIN reports |-> reports[k].policy.threshold])

\* _artifact_selection_score_floor: of the folds that found one
ArtifactFloor(s) ==
    LET K == {k \in DOMAIN reports : reports[k].policy.floor # {}}
        Floor(k) == The(reports[k].policy.floor, 0)
    IN IF ~ s.floored \/ K = {} THEN {} ELSE {Median([k \in K |-> Floor(k)])}

\* _artifact_selection_score_multiplier: a draw is positive.
ArtifactSign(s) ==
    LET Signs(sign) == {k \in DOMAIN reports : reports[k].policy.sign = sign}
    IN IF s.directed /\ Cardinality(Signs(-1)) > Cardinality(Signs(1)) THEN -1 ELSE 1

TypeRowOf(k, key) == reports[k].policy.types[key]
FoldsWith(key) == {k \in DOMAIN reports : key \in DOMAIN reports[k].policy.types}

\* Plausible bug: a group is given up only if every fold gave it up.
AbstainedByAll(key) == \A k \in FoldsWith(key) : TypeRowOf(k, key).abstain

\* One fold that abstained is enough to abstain.
Abstained(key) == \E k \in FoldsWith(key) : TypeRowOf(k, key).abstain

\* _artifact_candidate_type_thresholds: of the folds that knew the key
ArtifactTypes ==
    LET Set(key) == {k \in FoldsWith(key) : TypeRowOf(k, key).threshold # Unset}
    IN [key \in UNION {DOMAIN reports[k].policy.types : k \in DOMAIN reports} |->
           [source |-> "artifact_fold_median", abstain |-> Abstained(key),
            threshold |-> IF Set(key) = {} THEN Unset
                          ELSE Median([k \in Set(key) |-> TypeRowOf(k, key).threshold]),
            average |-> Median([k \in FoldsWith(key) |-> TypeRowOf(k, key).average])]]

\* _artifact_payoff_estimates: estimates of few samples count as known, with
\* the zeros they were stored with.
ArtifactPayoffs ==
    LET Stored(k, key) == reports[k].policy.payoffs[key]
        Having(key) == {k \in DOMAIN reports : key \in DOMAIN reports[k].policy.payoffs}
    IN [key \in UNION {DOMAIN reports[k].policy.payoffs : k \in DOMAIN reports} |->
           [known |-> TRUE,
            ones  |-> \E k \in Having(key) : Stored(k, key).ones,
            zeros |-> \E k \in Having(key) : Stored(k, key).zeros,
            one   |-> Median([k \in Having(key) |-> Stored(k, key).one]),
            zero  |-> Median([k \in Having(key) |-> Stored(k, key).zero])]]

\* the last samples, held back from the training of the artifact
Held == Known({i \in DOMAIN samples : 10 * i > 7 * Len(samples)})

\* the policy that an artifact carries
ArtifactPolicy(s) ==
    [Given(s) EXCEPT !.threshold = ArtifactThreshold, !.floor = ArtifactFloor(s),
                     !.sign = ArtifactSign(s), !.types = ArtifactTypes,
                     !.payoffs = ArtifactPayoffs, !.losses = Held]

\* fit_production_model_artifact
FitArtifact ==
    /\ artifact = {} /\ reports # <<>> /\ Len(reports) = Len(folds)
    /\ artifact' = {ArtifactPolicy(s) : s \in setting}
    /\ UNCHANGED <<scoringVars, verdict>>

-----------------------------------------------------------------------------

\* score_production_artifact, should_trade.  Asked to put returns first, it
\* looks at the probability only if the type of the candidate, or the operator,
\* names one.
Approves(policy, x, override) ==
    LET rows == Lookup(policy.types, x)
        own == {row.threshold : row \in rows} \ {Unset}
        threshold == Max({The(override, policy.threshold)} \cup own)
    IN /\ policy.calibrated => rows # {}
       /\ \A row \in rows : ~ row.abstain
       /\ IF override = {} /\ policy.mode = "return_first"
          THEN \A t \in own : x.p >= t
          ELSE x.p >= threshold
       /\ \A f \in policy.floor : Score(policy, x) >= f
       /\ Gate(policy, x, rows)

\* _live_artifact_contract_errors: an artifact trained on both sides is refused.
LiveContract(s) == s.long

\* The trade run scores a new candidate.  Scoring keeps nothing, one sample shows
\* what any would.
Serve ==
    /\ verdict = {}
    /\ \E s \in setting, policy \in artifact :
          /\ LiveContract(s)
          /\ \E x \in Live[s], override \in Overrides :
                verdict' = {[sample |-> x, override |-> override,
                             approved |-> Approves(policy, x, override)]}
    /\ UNCHANGED <<scoringVars, artifact>>

ServingInit == ScoringInit /\ artifact = {} /\ verdict = {}

ServingNext ==
    \/ (MakeFolds \/ Study \/ ScoreFold) /\ UNCHANGED <<artifact, verdict>>
    \/ FitArtifact
    \/ Serve

ServingSpec == ServingInit /\ [][ServingNext]_servingVars

-----------------------------------------------------------------------------
(* Properties *)

\* A policy chosen to make a target frequency made money where it was chosen:
\* its threshold and its floor, found one after the other, by the selection
\* that takes both.
PolicyEarned ==
    \A k \in DOMAIN reports :
        LET report == reports[k] IN
        (report.found # {} \/ report.floorFound # {}) /\ report.policy.frequency # "none"
            /\ ~ report.policy.negativeEV
        => Total(Chosen(report.slice, report.policy)) > 0

\* Under thresholds by type no sample is traded whose group had a fair chance
\* before and did not earn its keep: its own group in the slice, at a threshold
\* the sample reaches, or, where the group is thin or unseen, its family in the
\* calibration part, unless the slice had a group that goes by the family's key.
TradedGroupsEarned ==
    \A k \in DOMAIN reports :
        LET report == reports[k]
            Fair(S) == Cardinality(S) >= MinTrades
        IN DOMAIN report.policy.types # {} /\ report.policy.frequency # "quota" =>
           \A s \in report.traded :
              LET group == {g \in report.slice : GroupKey(g) = GroupKey(s)}
                  family == {c \in report.cal : c.type = s.type}
                  named == {g \in report.slice : GroupKey(g) \in {FamilyKey(s), SideKey(s)}}
              IN /\ Fair(group) =>
                        \E t \in MinThreshold..s.p :
                            LET T == {g \in group : g.p >= t}
                            IN Fair(T) /\ Mean(T) >= UtilityFloor
                 /\ ~ Fair(group) /\ named = {} /\ Fair(family) => Mean(family) >= UtilityFloor

\* What a live run approves was approved of in validation: no fold abstained on
\* its group, and of the folds, and of those with a threshold for its group, at
\* least half asked for no more probability than it has (unless the operator
\* named another threshold, or returns come first).
LiveFollowsFolds ==
    \A v \in verdict : v.approved =>
        LET x == v.sample
            Rows(k) == At(reports[k].policy.types, GroupKey(x))
            HalfOf(K, Asked(_)) == 2 * Cardinality({k \in K : Asked(k) <= x.p}) >= Cardinality(K)
            own == {k \in DOMAIN reports : \E row \in Rows(k) : row.threshold # Unset}
        IN /\ \A k \in DOMAIN reports : \A row \in Rows(k) : ~ row.abstain
           /\ HalfOf(own, LAMBDA k : (CHOOSE row \in Rows(k) : TRUE).threshold)
           /\ v.override = {} /\ (\A s \in setting : s.mode # "return_first") =>
                  HalfOf(DOMAIN reports, LAMBDA k : reports[k].policy.threshold)

=============================================================================
