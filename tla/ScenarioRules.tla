--------------------------- MODULE ScenarioRules ---------------------------
(***************************************************************************)
(* A scenario and the rules that decide whether it may run, whether two of *)
(* them may be compared, and how far a result may be trusted:              *)
(* models/scenario.py, validation/engine.py, confidence/engine.py.         *)
(*                                                                         *)
(* Lengths are in hundredths of the unit of the coordinate system, metres  *)
(* or degrees.  A box carries the cosine of its mid-latitude, in tenths.   *)
(***************************************************************************)
EXTENDS Integers

CONSTANTS
    MetresPerDegree,    \* 111320
    MinCells, MaxCells  \* 10 and 500

ASSUME LimitsAssumption ==
    /\ MetresPerDegree \in Nat /\ MinCells \in Nat /\ MaxCells \in Nat
    /\ 1 < MinCells /\ MinCells < MaxCells

\* The limits leave no room for a box that is a fair domain both in metres and in
\* degrees: 111320 * (2 * 10 - 1) > 2 * 500 + 1.
ASSUME DegreesAreLong == MetresPerDegree * (2 * MinCells - 1) > 2 * MaxCells + 1

Tier == {"screening", "project", "research"}

TierRank == [screening |-> 0, project |-> 1, research |-> 2]

Source == {"buildings", "terrain", "vegetation"}

Box == [width : Nat, height : Nat, cosine : 0..10]

Domain == [bbox : Box, resolution : Nat \ {0}, geographic : BOOLEAN]

-----------------------------------------------------------------------------
(* The grid: DomainConfig.nx and ny.                                       *)

\* round(a / b) to the nearest integer, a half to the even one.
Round(a, b) ==
    LET q == a \div b
        r == a % b
    IN  IF 2 * r > b \/ (2 * r = b /\ q % 2 = 1) THEN q + 1 ELSE q

AtLeastOne(n) == IF n < 1 THEN 1 ELSE n

Nx(d) == AtLeastOne(
    IF d.geographic
    THEN Round(d.bbox.width * d.bbox.cosine * (MetresPerDegree \div 10), 100 * d.resolution)
    ELSE Round(d.bbox.width, 100 * d.resolution))

Ny(d) == AtLeastOne(
    IF d.geographic
    THEN Round(d.bbox.height * MetresPerDegree, 100 * d.resolution)
    ELSE Round(d.bbox.height, 100 * d.resolution))

Shape(d) == <<Nx(d), Ny(d)>>

-----------------------------------------------------------------------------
(* Blocking issues of one scenario.  Warnings change nothing later on, and  *)
(* _check_resource_limits cannot block: its 50 million cells are the 500 x  *)
(* 500 x 200 that the domain may have at most.                             *)

FitsLimits(n) == MinCells <= n /\ n <= MaxCells

DomainIsFair(d) == FitsLimits(Nx(d)) /\ FitsLimits(Ny(d))

\* Trees, surfaces, roofs: how each element relates to the catalogue and to the box.
TreesAreFair(s) == s.trees \cap {"unknown_species", "outside_domain"} = {}

SurfacesAreFair(s) ==
    \A i \in DOMAIN s.surface_changes :
        /\ s.surface_changes[i].category # "unknown"
        /\ s.surface_changes[i].place \notin {"invalid", "outside"}

RoofsAreFair(s) == "no_building_id" \notin s.green_roofs

\* buildings_edits: what the chain amounts to (its own rules are in BuildingEdits).
EditsAreFair(s) == s.buildings_edits # "broken"

SimulationIsFair(s) == ~s.interval_exceeds_runtime

Valid(s) ==
    /\ DomainIsFair(s.domain)
    /\ TreesAreFair(s) /\ SurfacesAreFair(s) /\ RoofsAreFair(s)
    /\ EditsAreFair(s) /\ SimulationIsFair(s)

\* (Mutant: the resolutions are not compared.)
ComparableAtAnyResolution(b, i) ==
    Valid(b) /\ Valid(i) /\ b.domain.bbox = i.domain.bbox

\* (Mutant: the issues of the intervention do not count.)
ComparableWithAnything(b, i) ==
    /\ Valid(b)
    /\ b.domain.bbox = i.domain.bbox /\ b.domain.resolution = i.domain.resolution

\* validate_comparison: the CRS is not compared.
Comparable(b, i) ==
    /\ Valid(b) /\ Valid(i)
    /\ b.domain.bbox = i.domain.bbox
    /\ b.domain.resolution = i.domain.resolution

-----------------------------------------------------------------------------
(* Trust.                                                                  *)

\* (Mutant: vegetation is forgotten.)
TierOfTheGround(s) ==
    CHOOSE t \in Tier :
        /\ \E x \in {"buildings", "terrain"} : s.tier[x] = t
        /\ \A x \in {"buildings", "terrain"} : TierRank[t] <= TierRank[s.tier[x]]

\* effective_tier: the first of the ranking that some source has.
EffectiveTier(s) ==
    CHOOSE t \in Tier :
        /\ \E x \in Source : s.tier[x] = t
        /\ \A x \in Source : TierRank[t] <= TierRank[s.tier[x]]

\* _weakest_confidence; a statement is determined by its tier.
Weakest(a, b) == IF TierRank[a] <= TierRank[b] THEN a ELSE b
=============================================================================
