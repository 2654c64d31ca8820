------------------------------- MODULE Spine -------------------------------
(***************************************************************************)
(* One job in a worker's hands: Worker._execute_job with the pipeline of   *)
(* spine.py, from the scenarios it reads to the summary that the results   *)
(* page shows.  Any step that reads, writes or computes can raise; the     *)
(* attempt is then over, and the next one starts from the scenarios as     *)
(* they are by then, in a directory of its own.  Workers always pass       *)
(* stub=True, so a run yields the four fields on the driver's grid; how    *)
(* the results are compared does not depend on it, and cells may have no   *)
(* value.                                                                  *)
(***************************************************************************)
EXTENDS ScenarioRules, SequencesExt

CONSTANTS
    Scenarios,      \* the contents that the scenario rows may have
    Cells,          \* the grid cells that matter: to surface changes, to the fields
    Masks,          \* the cells with a value in each field that a run may yield
    Fill,           \* _FillValue, no value, no result
    MaxAttempts     \* retries left when the job was submitted, plus one

Category == {"vegetation", "pavement", "water"}

\* What becomes of a SurfaceChange: palm_category and palm_type_id of its surface in the
\* catalogue, where its polygon lies, and the cells whose centres it contains.
SurfaceChange == [category : Category \cup {"unknown"}, type : Nat,
                  place : {"inside", "partly", "outside", "invalid"}, cells : SUBSET Cells]

ASSUME ScenariosAssumption ==
    \A s \in Scenarios : /\ s.domain \in Domain /\ s.tier \in [Source -> Tier]
                         /\ s.surface_changes \in Seq(SurfaceChange)
ASSUME AttemptsAssumption == MaxAttempts \in Nat \ {0}

VARIABLES
    status,     \* the job: queued, running, completed or failed
    attempts,   \* attempts that began
    pc,         \* what the worker does next, and for which side
    request,    \* the scenarios of this attempt; no intervention in a single run
    driver,     \* static drivers of this attempt, by side
    result,     \* SpineResult of each side
    comparison, \* ComparisonResult and the weakest confidence
    summary     \* jobs.result_json

local == <<request, driver, result, comparison>>
vars  == <<status, attempts, pc, request, driver, result, comparison, summary>>

-----------------------------------------------------------------------------

Side == {"baseline", "intervention"}

ASSUME FillAssumption ==
    /\ Fill \notin Scenarios /\ Fill \notin Tier /\ Fill \notin Side \cup {"both"}
    /\ Fill \notin Nat /\ Fill \notin Nat \X Nat

Fields == {"bio_pet", "bio_utci", "bio_mrt", "t_surface"}

ASSUME MasksAssumption ==
    /\ Masks \subseteq [Fields -> SUBSET Cells]
    /\ \A values \in Masks : \E f \in Fields : values[f] # {}

NoResult == [error |-> FALSE, shape |-> Fill, values |-> [f \in Fields |-> {}],
             confidence |-> Fill, report |-> FALSE]

NoComparison == [error |-> FALSE, deltas |-> {}, confidence |-> Fill, report |-> FALSE]

NoSummary == [statistics |-> Fill, intervention_statistics |-> Fill, deltas |-> {},
              confidence |-> Fill]

IsComparison == request.intervention # Fill

Sides == IF IsComparison THEN Side ELSE {"baseline"}

Idle == [step |-> "idle", side |-> Fill]

At(step, side) == [step |-> step, side |-> side]

Blank == [side \in Side |-> Fill]

Init ==
    /\ status = "queued" /\ attempts = 0 /\ pc = Idle
    /\ request = Blank /\ driver = Blank
    /\ result = [side \in Side |-> NoResult]
    /\ comparison = NoComparison
    /\ summary = NoSummary

-----------------------------------------------------------------------------
(* The surface arrays of the static driver.                                *)

Grass == [vegetation |-> 3, pavement |-> Fill, water |-> Fill, fraction |-> "vegetation"]

\* (Mutant: a pavement does not take the vegetation away.)
PaintOver(cell, change) == [cell EXCEPT ![change.category] = change.type,
                                        !.fraction = change.category]

\* A pavement or a water surface takes the vegetation away; nothing takes away the
\* pavement or the water type of an earlier change.
Paint(cell, change) ==
    CASE change.category = "vegetation" ->
            [cell EXCEPT !.vegetation = change.type, !.fraction = "vegetation"]
      [] change.category = "pavement" ->
            [cell EXCEPT !.pavement = change.type, !.vegetation = Fill, !.fraction = "pavement"]
      [] change.category = "water" ->
            [cell EXCEPT !.water = change.type, !.vegetation = Fill, !.fraction = "water"]

PaintAll(surface, change) ==
    [c \in Cells |-> IF c \in change.cells THEN Paint(surface[c], change) ELSE surface[c]]

Meadow == [c \in Cells |-> Grass]

Painted(changes) == FoldLeft(PaintAll, Meadow, changes)

StaticDriver(s) == [shape |-> Shape(s.domain), surface |-> Painted(s.surface_changes)]

-----------------------------------------------------------------------------
(* The steps.                                                              *)

\* claim_next_job, and the queries of _execute_job.
Begin(b, i) ==
    /\ pc = Idle /\ status = "queued"
    /\ status' = "running"
    /\ attempts' = attempts + 1
    /\ request' = [baseline |-> b, intervention |-> i]
    /\ driver' = Blank
    /\ result' = [side \in Side |-> NoResult]
    /\ comparison' = NoComparison
    /\ pc' = IF i = Fill THEN At("validate", "baseline") ELSE At("validate", "both")
    /\ UNCHANGED summary

\* run_comparison returns early, with empty results, if the two do not fit.
ValidateComparison ==
    LET fit == Comparable(request.baseline, request.intervention)
    IN  /\ pc = At("validate", "both")
        /\ comparison' = [comparison EXCEPT !.error = ~fit]
        /\ pc' = IF fit THEN At("validate", "baseline") ELSE At("serialize", Fill)
        /\ UNCHANGED <<status, attempts, request, driver, result, summary>>

\* What follows the run of one side.
After(side) ==
    IF side = "baseline" /\ IsComparison THEN At("validate", "intervention")
    ELSE IF IsComparison THEN At("compare", Fill)
    ELSE At("serialize", Fill)

Validate(side) ==
    /\ pc = At("validate", side)
    /\ result' = [result EXCEPT ![side].error = ~Valid(request[side])]
    /\ pc' = IF Valid(request[side]) THEN At("translate", side) ELSE After(side)
    /\ UNCHANGED <<status, attempts, request, driver, comparison, summary>>

\* translate_scenario.
Translate(side) ==
    /\ pc = At("translate", side)
    /\ driver' = [driver EXCEPT ![side] = StaticDriver(request[side])]
    /\ pc' = At("run", side)
    /\ UNCHANGED <<status, attempts, request, result, comparison, summary>>

\* run_palm with stub=True, which takes the grid from the driver; postprocess_run
\* and verify_pet.
Run(side) ==
    /\ pc = At("run", side)
    /\ \E values \in Masks :
          result' = [result EXCEPT ![side].shape = driver[side].shape,
                                   ![side].values = values]
    /\ pc' = At("report", side)
    /\ UNCHANGED <<status, attempts, request, driver, comparison, summary>>

\* assess_confidence and generate_report.
Report(side) ==
    /\ pc = At("report", side)
    /\ result' = [result EXCEPT ![side].confidence = EffectiveTier(request[side]),
                                ![side].report = TRUE]
    /\ pc' = After(side)
    /\ UNCHANGED <<status, attempts, request, driver, comparison, summary>>

\* The fields with a cell that has a value in both runs.
CommonFields ==
    {f \in Fields : result.baseline.values[f] \cap result.intervention.values[f] # {}}

\* compare_scenarios passes over a field whose grids differ, and over one that has no
\* value in both runs in any cell.
ComparedFields ==
    {f \in CommonFields : result.baseline.shape = result.intervention.shape}

CompareSides ==
    LET failed == \E side \in Side : result[side].error
    IN  /\ pc = At("compare", Fill)
        /\ comparison' =
              IF failed THEN [comparison EXCEPT !.error = TRUE]
              ELSE [comparison EXCEPT
                      !.deltas = ComparedFields,
                      !.confidence = Weakest(result.baseline.confidence,
                                             result.intervention.confidence),
                      !.report = TRUE]
        /\ pc' = At("serialize", Fill)
        /\ UNCHANGED <<status, attempts, request, driver, result, summary>>

\* (Mutant: the comparison's own confidence is left out.)
SummaryOfBaseline ==
    [statistics |-> result.baseline.shape,
     intervention_statistics |-> result.intervention.shape,
     deltas |-> comparison.deltas,
     confidence |-> result.baseline.confidence]

\* _serialize_single_result and _serialize_comparison_result.
Summary ==
    [statistics |-> result.baseline.shape,
     intervention_statistics |-> result.intervention.shape,
     deltas |-> comparison.deltas,
     confidence |-> IF comparison.confidence # Fill THEN comparison.confidence
                    ELSE result.baseline.confidence]

\* mark_completed, also when the result carries an error.
Serialize ==
    /\ pc = At("serialize", Fill)
    /\ summary' = Summary
    /\ status' = "completed"
    /\ pc' = Idle
    /\ UNCHANGED <<attempts, local>>

\* The worker's local variables are gone.
Forget ==
    /\ request' = Blank /\ driver' = Blank
    /\ result' = [side \in Side |-> NoResult]
    /\ comparison' = NoComparison

\* (Mutant: the retries are not counted.)
RaiseForever ==
    /\ pc # Idle
    /\ status' = "queued"
    /\ pc' = Idle
    /\ Forget
    /\ UNCHANGED <<attempts, summary>>

\* An exception ends the attempt: mark_failed.
Raise ==
    /\ pc # Idle
    /\ status' = IF attempts < MaxAttempts THEN "queued" ELSE "failed"
    /\ pc' = Idle
    /\ Forget
    /\ UNCHANGED <<attempts, summary>>

Next ==
    \/ \E b \in Scenarios, i \in Scenarios \cup {Fill} : Begin(b, i)
    \/ ValidateComparison
    \/ \E side \in Side :
          Validate(side) \/ Translate(side) \/ Run(side) \/ Report(side)
    \/ CompareSides \/ Serialize \/ Raise

Spec == Init /\ [][Next]_vars

-----------------------------------------------------------------------------

Step == {"idle", "validate", "translate", "run", "report", "compare", "serialize"}

\* The variables hold what the worker, the spine and the job row can hold.
TypeOK ==
    /\ status \in {"queued", "running", "completed", "failed"}
    /\ attempts \in 0..MaxAttempts
    /\ pc \in [step : Step, side : Side \cup {"both", Fill}]
    /\ request \in [Side -> Scenarios \cup {Fill}]
    /\ driver \in [Side -> {StaticDriver(s) : s \in {x \in Scenarios : Valid(x)}} \cup {Fill}]
    /\ result \in [Side -> [error : BOOLEAN, shape : (Nat \X Nat) \cup {Fill},
                            values : [Fields -> SUBSET Cells],
                            confidence : Tier \cup {Fill}, report : BOOLEAN]]
    /\ comparison \in [error : BOOLEAN, deltas : SUBSET Fields,
                       confidence : Tier \cup {Fill}, report : BOOLEAN]
    /\ summary \in [statistics : (Nat \X Nat) \cup {Fill},
                    intervention_statistics : (Nat \X Nat) \cup {Fill},
                    deltas : SUBSET Fields, confidence : Tier \cup {Fill}]
    /\ status = "running" <=> pc # Idle

\* A comparison that is reported has a difference for every field with a value in both
\* runs: compare_scenarios passes over fields on different grids without a word, and
\* validation compares boxes and resolutions but not coordinate systems, so this rests
\* on the limits of the domain.
DeltasCoverEveryField == comparison.report => comparison.deltas = CommonFields

\* A completed job shows everything or nothing: the statistics of each of its
\* scenarios, the difference of every field with a value in both runs and the confidence
\* if the scenarios are in order, and none of them if one is not or the two do not fit.
ResultIsAllOrNothing ==
    status = "completed" =>
        LET fit == IF IsComparison THEN Comparable(request.baseline, request.intervention)
                   ELSE Valid(request.baseline)
        IN  IF ~fit THEN summary = NoSummary
            ELSE /\ summary.statistics # Fill /\ summary.confidence # Fill
                 /\ summary.intervention_statistics # Fill <=> IsComparison
                 /\ summary.deltas = IF IsComparison THEN CommonFields ELSE {}

\* The tier that a result carries is not above that of any source of any of its
\* scenarios.
ConfidenceIsWeakest ==
    (status = "completed" /\ summary.confidence # Fill) =>
        \A side \in Sides, x \in Source :
            TierRank[summary.confidence] <= TierRank[request[side].tier[x]]

\* Where surface changes overlap, the last one decides what covers the cell: PALM is
\* given its fraction and its type, and vegetation only where vegetation came last.
LastChangeCovers ==
    \A side \in Side : driver[side] # Fill =>
        \A c \in Cells :
            LET cell     == driver[side].surface[c]
                changes  == request[side].surface_changes
                covering == {k \in DOMAIN changes : c \in changes[k].cells}
                last     == changes[Max(covering)]
            IN  IF covering = {} THEN cell = Grass
                ELSE /\ cell.fraction = last.category
                     /\ cell[last.category] = last.type
                     /\ cell.vegetation # Fill <=> cell.fraction = "vegetation"

=============================================================================
