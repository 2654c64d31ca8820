----------------------------- MODULE Comparison -----------------------------
(***************************************************************************)
(* What the pipeline computes from the temperatures themselves: the        *)
(* classes of PET (postprocessing/engine.py) and the comparison of two     *)
(* runs (postprocessing/comparison.py), on top of Spine.  A field is the   *)
(* mean over time of PET on the grid, in tenths of a degree; Fill stands   *)
(* for NaN.                                                                *)
(***************************************************************************)
EXTENDS Spine, Integers

CONSTANTS
    Rows, Columns,      \* the grid of the fields, from the south and from the west
    PetFields,          \* what a run may yield
    BandFloors,         \* the lower ends of the classes of comfort_thresholds.json
    PetThresholds,      \* PET_THRESHOLDS
    Tolerance           \* DELTA_TOLERANCE

Grid == (1..Rows) \X (1..Columns)

ASSUME GridAssumption == Rows \in Nat \ {0} /\ Columns \in Nat \ {0} /\ Cells = Grid
ASSUME PetAssumption  == Fill \notin Int /\ PetFields \subseteq [Grid -> Int \cup {Fill}]
ASSUME BandsAssumption ==
    /\ BandFloors \in Seq(Int) /\ PetThresholds \subseteq ToSet(BandFloors) /\ Tolerance \in Nat
    /\ \A i \in 1..Len(BandFloors) - 1 : BandFloors[i] < BandFloors[i + 1]

VARIABLES
    pet,        \* the field of each side
    analysis    \* the numbers of ComparisonResult

numbers        == <<pet, analysis>>
comparisonVars == <<vars, numbers>>

-----------------------------------------------------------------------------
(* classify_pet and _classify_pet_domain.                                  *)

HasValue(f) == {c \in Grid : f[c] # Fill}

\* Class k lies between the k-th floor and the next one, its floor included.
Class(v) == Cardinality({k \in DOMAIN BandFloors : BandFloors[k] <= v})

ClassCounts(f) ==
    [k \in 0..Len(BandFloors) |-> Quantify(HasValue(f), LAMBDA c : Class(f[c]) = k)]

-----------------------------------------------------------------------------
(* compare_scenarios, on the cells where both runs have a value.           *)

Compared(b, i) == HasValue(b) \cap HasValue(i)

Delta(b, i, c) == i[c] - b[c]

\* (Mutant: a cell that comes down to the threshold has not improved.)
StrictImpact(b, i, t) ==
    LET both == Compared(b, i)
    IN  [above_baseline     |-> Quantify(both, LAMBDA c : b[c] > t),
         above_intervention |-> Quantify(both, LAMBDA c : i[c] > t),
         improved           |-> Quantify(both, LAMBDA c : b[c] > t /\ i[c] < t),
         worsened           |-> Quantify(both, LAMBDA c : b[c] <= t /\ i[c] > t)]

Impact(b, i, t) ==
    LET both == Compared(b, i)
    IN  [above_baseline     |-> Quantify(both, LAMBDA c : b[c] > t),
         above_intervention |-> Quantify(both, LAMBDA c : i[c] > t),
         improved           |-> Quantify(both, LAMBDA c : b[c] > t /\ i[c] <= t),
         worsened           |-> Quantify(both, LAMBDA c : b[c] <= t /\ i[c] > t)]

DeltaStatistics(b, i) ==
    LET both == Compared(b, i)
    IN  [improved |-> Quantify(both, LAMBDA c : Delta(b, i, c) < -Tolerance),
         worsened |-> Quantify(both, LAMBDA c : Delta(b, i, c) > Tolerance),
         n_valid  |-> Cardinality(both)]

\* _find_improvement_regions: the quadrants that have values, the coolest three first.
Quadrants == <<"NW", "NE", "SW", "SE">>

Region(q) ==
    {c \in Grid : /\ (Quadrants[q] \in {"NW", "NE"}) = (c[1] > Rows \div 2)
                  /\ (Quadrants[q] \in {"NE", "SE"}) = (c[2] > Columns \div 2)}

Regions(b, i) == {q \in DOMAIN Quadrants : Region(q) \cap Compared(b, i) # {}}

Total(b, i, q) ==
    SumFunction([c \in Region(q) \cap Compared(b, i) |-> Delta(b, i, c)])

Area(b, i, q) == Cardinality(Region(q) \cap Compared(b, i))

\* The mean of one region is below that of another.
Cooler(b, i, q, r) == Total(b, i, q) * Area(b, i, r) < Total(b, i, r) * Area(b, i, q)

\* The regions that list.sort puts before q: it is stable.
Before(b, i, q) ==
    {r \in Regions(b, i) : Cooler(b, i, r, q) \/ (~Cooler(b, i, q, r) /\ r < q)}

RankedImprovements(b, i) ==
    [k \in 1..Min({3, Cardinality(Regions(b, i))}) |->
        CHOOSE q \in Regions(b, i) : Cardinality(Before(b, i, q)) = k - 1]

Analysis(b, i) ==
    [classes |-> [side \in Side |-> ClassCounts(IF side = "baseline" THEN b ELSE i)],
     delta   |-> DeltaStatistics(b, i),
     impacts |-> [t \in PetThresholds |-> Impact(b, i, t)],
     ranked  |-> RankedImprovements(b, i)]

NoField == [side \in Side |-> Fill]

-----------------------------------------------------------------------------
(* The pipeline with its numbers.                                          *)

ComparisonInit == Init /\ pet = NoField /\ analysis = Fill

Starting(b, i) == Begin(b, i) /\ UNCHANGED numbers

\* The run's output, and postprocess_run's mean over time.
Running(side) ==
    /\ Run(side)
    /\ \E f \in PetFields :
          /\ HasValue(f) = result'[side].values["bio_pet"]
          /\ pet' = [pet EXCEPT ![side] = f]
    /\ UNCHANGED analysis

\* There are numbers for PET if it is among the fields that are compared.
Comparing ==
    /\ CompareSides
    /\ analysis' = IF "bio_pet" \in comparison'.deltas
                   THEN Analysis(pet.baseline, pet.intervention) ELSE Fill
    /\ UNCHANGED pet

\* Nothing is left of an attempt that ends with an exception.
Raising == Raise /\ pet' = NoField /\ analysis' = Fill

Other ==
    /\ \/ ValidateComparison \/ Serialize
       \/ \E side \in Side : Validate(side) \/ Translate(side) \/ Report(side)
    /\ UNCHANGED numbers

ComparisonNext ==
    \/ \E b \in Scenarios, i \in Scenarios \cup {Fill} : Starting(b, i)
    \/ \E side \in Side : Running(side)
    \/ Comparing \/ Raising \/ Other

ComparisonSpec == ComparisonInit /\ [][ComparisonNext]_comparisonVars

-----------------------------------------------------------------------------

\* Cells that cross a threshold account for the difference of the cells above it.
ImpactsBalance ==
    \A t \in PetThresholds :
        LET impact == analysis.impacts[t]
        IN  impact.above_intervention =
                impact.above_baseline - impact.improved + impact.worsened

\* The cells above a threshold are in the classes above it, and are all of those
\* unless a cell is at the threshold or only one run has a value for it: two
\* algorithms with different ends of their intervals.
HotCells(side, t) ==
    SumFunctionOnSet(analysis.classes[side],
                     {k \in DOMAIN BandFloors : BandFloors[k] >= t})

ImpactsFitClasses ==
    \A side \in Side, t \in PetThresholds :
        LET above == IF side = "baseline" THEN analysis.impacts[t].above_baseline
                     ELSE analysis.impacts[t].above_intervention
            all   == Compared(pet.baseline, pet.intervention) = HasValue(pet[side])
            at    == \E c \in HasValue(pet[side]) : pet[side][c] = t
        IN  /\ above <= HotCells(side, t)
            /\ all /\ ~at => above = HotCells(side, t)

\* A region that is not listed has not cooled more than any that is, and the areas of
\* the regions make up the area that was compared.
RegionsAreBest ==
    LET b == pet.baseline
        i == pet.intervention
    IN  /\ \A q \in Regions(b, i) \ ToSet(analysis.ranked), r \in ToSet(analysis.ranked) :
               ~Cooler(b, i, q, r)
        /\ SumFunction([q \in Regions(b, i) |-> Area(b, i, q)]) = analysis.delta.n_valid

\* The parts of a comparison, computed by different algorithms on different masks, say
\* the same of the two runs: threshold impacts, classes and regions add up.
AnalysisAddsUp ==
    analysis # Fill => ImpactsBalance /\ ImpactsFitClasses /\ RegionsAreBest
=============================================================================
