---------------------------- MODULE SpineProofs ----------------------------
(* Proofs about ScenarioRules, Spine and Comparison, for all scenarios.    *)
EXTENDS Comparison, FiniteSetTheorems, TLAPS

-----------------------------------------------------------------------------
(* Scenarios that may be compared are on one grid.                         *)

LEMMA RoundBounds ==
    ASSUME NEW a \in Nat, NEW b \in Nat \ {0}
    PROVE  /\ Round(a, b) \in Nat
           /\ b * (2 * Round(a, b) - 1) <= 2 * a
           /\ 2 * a <= b * (2 * Round(a, b) + 1)
<1> DEFINE q == a \div b
           r == a % b
<1>1. q \in Nat /\ r \in Nat /\ r < b /\ a = b * q + r
  BY SMTT(30)
<1>2. 2 * a = 2 * (b * q) + 2 * r
  BY <1>1
<1> HIDE DEF q, r
<1>3. b * (2 * q - 1) = 2 * (b * q) - b /\ b * (2 * q + 1) = 2 * (b * q) + b
  BY <1>1
<1>4. b * (2 * (q + 1) - 1) = 2 * (b * q) + b /\ b * (2 * (q + 1) + 1) = 2 * (b * q) + 3 * b
  BY <1>1
<1>5. CASE Round(a, b) = q
  <2>1. 2 * r <= b
    BY <1>1, <1>5 DEF Round, q, r
  <2> QED BY <1>1, <1>2, <1>3, <1>5, <2>1
<1>6. CASE Round(a, b) = q + 1
  <2>1. b <= 2 * r
    BY <1>1, <1>6 DEF Round, q, r
  <2> QED BY <1>1, <1>2, <1>4, <1>6, <2>1
<1> QED BY <1>5, <1>6 DEF Round, q, r

\* A box is not a fair domain both in metres and in degrees: what has ten cells in
\* metres has more than five hundred in degrees (the limits of _check_domain).
LEMMA NoBoxInBothUnits ==
    ASSUME NEW d \in Domain, NEW e \in Domain,
           d.bbox = e.bbox, d.resolution = e.resolution,
           ~d.geographic, e.geographic,
           DomainIsFair(d), DomainIsFair(e)
    PROVE  FALSE
<1> DEFINE h == d.bbox.height
           w == 100 * d.resolution
           m == Round(h, w)
           n == Round(h * MetresPerDegree, w)
<1>1. h \in Nat /\ w \in Nat \ {0} /\ h * MetresPerDegree \in Nat
  BY LimitsAssumption DEF Domain, Box
<1>2. Ny(d) = AtLeastOne(m) /\ Ny(e) = AtLeastOne(n)
  BY DEF Ny
<1>3. m \in Nat /\ w * (2 * m - 1) <= 2 * h
  BY <1>1, RoundBounds, ZenonT(60)
<1>4. n \in Nat /\ 2 * (h * MetresPerDegree) <= w * (2 * n + 1)
  BY <1>1, RoundBounds, ZenonT(60)
<1> HIDE DEF h, w, m, n
<1>5. MinCells <= m
  BY <1>2, <1>3, LimitsAssumption DEF DomainIsFair, FitsLimits, AtLeastOne
<1>6. n <= MaxCells
  BY <1>2, <1>4, LimitsAssumption DEF DomainIsFair, FitsLimits, AtLeastOne
<1>7. w * (2 * MinCells - 1) <= 2 * h
  <2>1. w * (2 * MinCells - 1) <= w * (2 * m - 1)
    BY <1>1, <1>3, <1>5, LimitsAssumption
  <2> QED BY <2>1, <1>1, <1>3, LimitsAssumption
<1>8. 2 * (h * MetresPerDegree) <= w * (2 * MaxCells + 1)
  <2>1. w * (2 * n + 1) <= w * (2 * MaxCells + 1)
    BY <1>1, <1>4, <1>6, LimitsAssumption
  <2> QED BY <2>1, <1>1, <1>4, LimitsAssumption
<1> DEFINE x == 2 * MinCells - 1
           y == 2 * MaxCells + 1
<1>9. x \in Nat /\ y \in Nat
  BY LimitsAssumption
<1>10. MetresPerDegree * x > y
  BY DegreesAreLong
<1> HIDE DEF x, y
<1>11. MetresPerDegree * (w * x) <= MetresPerDegree * (2 * h)
  BY <1>1, <1>7, <1>9, LimitsAssumption DEF x
<1>12. w * (MetresPerDegree * x) <= w * y
  BY <1>1, <1>8, <1>9, <1>11, LimitsAssumption DEF y
<1>13. w * (MetresPerDegree * x) > w * y
  BY <1>1, <1>9, <1>10, LimitsAssumption
<1> QED BY <1>1, <1>9, <1>12, <1>13, LimitsAssumption

\* validate_comparison checks boxes and resolutions only; yet scenarios that it accepts
\* have grids of the same shape, whatever coordinate systems they name.
THEOREM ComparableScenariosShareGrid ==
    ASSUME NEW b \in Scenarios, NEW i \in Scenarios, Comparable(b, i)
    PROVE  Shape(b.domain) = Shape(i.domain)
<1>1. b.domain \in Domain /\ i.domain \in Domain
  BY ScenariosAssumption
<1>2. DomainIsFair(b.domain) /\ DomainIsFair(i.domain)
      /\ b.domain.bbox = i.domain.bbox /\ b.domain.resolution = i.domain.resolution
  BY DEF Comparable, Valid
<1>3. b.domain.geographic = i.domain.geographic
  BY <1>1, <1>2, NoBoxInBothUnits DEF Domain
<1>4. b.domain = i.domain
  BY <1>1, <1>2, <1>3 DEF Domain
<1> QED BY <1>4

-----------------------------------------------------------------------------
(* Types.                                                                  *)

LEMMA ShapeType == ASSUME NEW s \in Scenarios PROVE Shape(s.domain) \in Nat \X Nat
<1> DEFINE d == s.domain
<1>1. /\ d.bbox.width \in Nat /\ d.bbox.height \in Nat /\ d.bbox.cosine \in Nat
      /\ 100 * d.resolution \in Nat \ {0}
  BY ScenariosAssumption, SMTT(60) DEF Domain, Box
<1>2. MetresPerDegree \div 10 \in Nat
  BY LimitsAssumption
<1>3. /\ d.bbox.width * d.bbox.cosine * (MetresPerDegree \div 10) \in Nat
      /\ d.bbox.height * MetresPerDegree \in Nat
  BY <1>1, <1>2, LimitsAssumption
<1> HIDE DEF d
<1>4. \A n \in Nat : AtLeastOne(n) \in Nat
  BY DEF AtLeastOne
<1>5. Nx(d) \in Nat /\ Ny(d) \in Nat
  BY <1>1, <1>3, <1>4, RoundBounds, ZenonT(60) DEF Nx, Ny
<1> QED BY <1>5 DEF Shape, d

\* The first tier that some source has is a tier, and no source has a lower one.
LEMMA EffectiveTierIsLowest ==
    ASSUME NEW s \in Scenarios
    PROVE  /\ EffectiveTier(s) \in Tier
           /\ \A x \in Source : TierRank[EffectiveTier(s)] <= TierRank[s.tier[x]]
<1>1. \A x \in Source : s.tier[x] \in Tier
  BY ScenariosAssumption
<1>2. \E t \in Tier : /\ \E x \in Source : s.tier[x] = t
                      /\ \A x \in Source : TierRank[t] <= TierRank[s.tier[x]]
  BY <1>1 DEF Source, Tier, TierRank
<1> QED BY <1>2 DEF EffectiveTier

LEMMA WeakestIsLower ==
    ASSUME NEW a \in Tier, NEW b \in Tier
    PROVE  /\ Weakest(a, b) \in Tier
           /\ TierRank[Weakest(a, b)] <= TierRank[a]
           /\ TierRank[Weakest(a, b)] <= TierRank[b]
BY DEF Weakest, Tier, TierRank

LEMMA TypeInit == Init => TypeOK
BY AttemptsAssumption
   DEF Init, TypeOK, Idle, Blank, NoResult, NoComparison, NoSummary, Step, Side

-----------------------------------------------------------------------------
(* What each stage has left for the next.                                  *)

OnGrid(side) == result[side].shape = Shape(request[side].domain)

Rated(side) == result[side].confidence = EffectiveTier(request[side])

\* What an attempt knows of the scenarios it works on.
RequestInv ==
    /\ status = "queued" => attempts < MaxAttempts
    /\ pc # Idle => request.baseline # Fill
    /\ pc.side = "intervention" \/ pc.step = "compare" => IsComparison
    /\ (IsComparison /\ pc # Idle /\ pc.side # "both" /\ pc.step # "serialize") =>
          Comparable(request.baseline, request.intervention)
    /\ IsComparison => \A side \in Side : ~result[side].error

\* What a stage left for the next one.
StageInv ==
    /\ \A side \in Side :
          /\ pc = At("translate", side) => Valid(request[side])
          /\ pc = At("run", side) => driver[side] = StaticDriver(request[side])
          /\ pc = At("report", side) => OnGrid(side)
    /\ pc.side = "intervention" \/ pc.step = "compare" =>
          OnGrid("baseline") /\ Rated("baseline")
    /\ pc.step = "compare" => OnGrid("intervention") /\ Rated("intervention")
    /\ pc.step \in {"validate", "translate", "run", "report", "compare"} =>
          ~comparison.report

\* How far the confidence has got.
TrustInv ==
    /\ pc # Idle => result.baseline.confidence = Fill \/ Rated("baseline")
    /\ pc = At("validate", "both") => result.baseline.confidence = Fill
    /\ pc.step \in {"validate", "translate", "run", "report", "compare"} =>
          comparison.confidence = Fill
    /\ (pc # Idle /\ ~IsComparison) => comparison.confidence = Fill
    /\ (pc.step = "serialize" /\ IsComparison) =>
          IF comparison.confidence = Fill THEN result.baseline.confidence = Fill
          ELSE comparison.confidence = Weakest(EffectiveTier(request.baseline),
                                               EffectiveTier(request.intervention))

SpineInv ==
    TypeOK /\ RequestInv /\ StageInv /\ TrustInv
    /\ DeltasCoverEveryField /\ ConfidenceIsWeakest

LEMMA SpineInit == Init => SpineInv
BY TypeInit, FillAssumption, AttemptsAssumption DEF Init, SpineInv, RequestInv, StageInv, TrustInv, DeltasCoverEveryField,
     ConfidenceIsWeakest, NoComparison, NoResult, IsComparison, Idle, At, Blank, Side

LEMMA BeginKeeps ==
    ASSUME SpineInv, NEW b \in Scenarios, NEW i \in Scenarios \cup {Fill}, Begin(b, i)
    PROVE  SpineInv'
<1> USE DEF SpineInv, Begin
<1>1. TypeOK'
  <2>1. /\ request' \in [Side -> Scenarios \cup {Fill}]
        /\ driver' \in [Side -> {StaticDriver(s) : s \in {x \in Scenarios : Valid(x)}} \cup {Fill}]
    BY DEF Side, Blank
  <2>2. pc' \in [step : Step, side : Side \cup {"both", Fill}] /\ pc' # Idle
    BY DEF At, Idle, Step, Side
  <2>3. /\ NoResult \in [error : BOOLEAN, shape : (Nat \X Nat) \cup {Fill},
                         values : [Fields -> SUBSET Cells], confidence : Tier \cup {Fill}, report : BOOLEAN]
        /\ NoComparison \in [error : BOOLEAN, deltas : SUBSET Fields,
                             confidence : Tier \cup {Fill}, report : BOOLEAN]
    BY DEF NoResult, NoComparison
  <2>4. attempts' \in 0..MaxAttempts
    BY AttemptsAssumption DEF TypeOK, RequestInv
  <2> QED BY <2>1, <2>2, <2>3, <2>4 DEF TypeOK
<1>2. RequestInv'
  BY FillAssumption DEF RequestInv, IsComparison, NoResult, Idle, At, Side
<1>3. StageInv' /\ TrustInv'
  BY FillAssumption DEF StageInv, TrustInv, IsComparison, NoResult, NoComparison, Idle, At, Side
<1>4. DeltasCoverEveryField' /\ ConfidenceIsWeakest'
  BY DEF DeltasCoverEveryField, ConfidenceIsWeakest, NoComparison
<1> QED BY <1>1, <1>2, <1>3, <1>4

LEMMA ValidateComparisonKeeps ==
    ASSUME SpineInv, ValidateComparison
    PROVE  SpineInv'
<1> USE DEF SpineInv, ValidateComparison
<1>1. TypeOK'
  <2>1. comparison' \in [error : BOOLEAN, deltas : SUBSET Fields,
                         confidence : Tier \cup {Fill}, report : BOOLEAN]
    BY DEF TypeOK
  <2>2. pc' \in [step : Step, side : Side \cup {"both", Fill}] /\ pc' # Idle
    BY DEF At, Idle, Step, Side
  <2> QED BY <2>1, <2>2 DEF TypeOK, Idle, At
<1>2. comparison'.confidence = comparison.confidence /\ comparison'.report = comparison.report
      /\ comparison'.deltas = comparison.deltas
  BY DEF TypeOK
<1>3. RequestInv'
  BY FillAssumption DEF RequestInv, IsComparison, Idle, At, Side
<1>4. StageInv'
  BY FillAssumption DEF StageInv, IsComparison, Idle, At, Side, OnGrid, Rated
<1>5. TrustInv'
  BY <1>2, FillAssumption DEF TrustInv, RequestInv, IsComparison, Idle, At, Side, Rated
<1>6. DeltasCoverEveryField' /\ ConfidenceIsWeakest'
  BY <1>2 DEF StageInv, DeltasCoverEveryField, ConfidenceIsWeakest, TypeOK, Idle, At
<1> QED BY <1>1, <1>3, <1>4, <1>5, <1>6

\* Updates of one side's result have its type.
LEMMA ErrorKeepsType ==
    ASSUME NEW r, NEW S, NEW V, NEW C,
           r \in [Side -> [error : BOOLEAN, shape : S, values : V, confidence : C, report : BOOLEAN]],
           NEW side \in Side, NEW e \in BOOLEAN
    PROVE  [r EXCEPT ![side].error = e]
               \in [Side -> [error : BOOLEAN, shape : S, values : V, confidence : C, report : BOOLEAN]]
OBVIOUS

LEMMA ShapeKeepsType ==
    ASSUME NEW r, NEW S, NEW V, NEW C,
           r \in [Side -> [error : BOOLEAN, shape : S, values : V, confidence : C, report : BOOLEAN]],
           NEW side \in Side, NEW e \in S, NEW v \in V
    PROVE  [r EXCEPT ![side].shape = e, ![side].values = v]
               \in [Side -> [error : BOOLEAN, shape : S, values : V, confidence : C, report : BOOLEAN]]
OBVIOUS

LEMMA RatingKeepsType ==
    ASSUME NEW r, NEW S, NEW V, NEW C,
           r \in [Side -> [error : BOOLEAN, shape : S, values : V, confidence : C, report : BOOLEAN]],
           NEW side \in Side, NEW e \in C
    PROVE  [r EXCEPT ![side].confidence = e, ![side].report = TRUE]
               \in [Side -> [error : BOOLEAN, shape : S, values : V, confidence : C, report : BOOLEAN]]
OBVIOUS

LEMMA ValidateKeeps ==
    ASSUME SpineInv, NEW side \in Side, Validate(side)
    PROVE  SpineInv'
<1> USE DEF SpineInv, Validate
<1>1. pc' # Idle /\ pc' \in [step : Step, side : Side \cup {"both", Fill}]
  BY DEF At, Idle, Step, Side, After
<1>2. TypeOK'
  <2>1. result' \in [Side -> [error : BOOLEAN, shape : (Nat \X Nat) \cup {Fill},
                              values : [Fields -> SUBSET Cells],
                              confidence : Tier \cup {Fill}, report : BOOLEAN]]
    BY ErrorKeepsType DEF TypeOK
  <2> QED BY <1>1, <2>1 DEF TypeOK, Idle, At
<1>3. \A s \in Side : /\ result'[s].shape = result[s].shape
                      /\ result'[s].confidence = result[s].confidence
                      /\ s # side => result'[s] = result[s]
  BY DEF TypeOK
<1>4. result'[side].error = ~Valid(request[side])
  BY DEF TypeOK
<1>5. RequestInv'
  <2>1. IsComparison => Comparable(request.baseline, request.intervention)
    BY FillAssumption DEF RequestInv, Idle, At, Side
  <2>2. IsComparison => Valid(request[side])
    BY <2>1 DEF Comparable, Side
  <2>3. side = "intervention" => IsComparison
    BY DEF RequestInv, At
  <2> QED BY <1>1, <1>3, <1>4, <2>1, <2>2, <2>3, FillAssumption
          DEF RequestInv, IsComparison, Idle, At, Side, After
<1>6. StageInv'
  <2>1. IsComparison => Valid(request[side])
    BY FillAssumption DEF RequestInv, Idle, At, Side, Comparable
  <2>2. side = "intervention" => IsComparison
    BY DEF RequestInv, At
  <2> QED BY <1>3, <2>1, <2>2, FillAssumption
          DEF StageInv, IsComparison, Idle, At, Side, After, OnGrid, Rated
<1>7. TrustInv'
  <2>1. IsComparison => Valid(request[side])
    BY FillAssumption DEF RequestInv, Idle, At, Side, Comparable
  <2> QED BY <1>1, <1>3, <2>1, FillAssumption
          DEF TrustInv, RequestInv, IsComparison, Idle, At, Side, After, Rated
<1>8. DeltasCoverEveryField' /\ ConfidenceIsWeakest'
  BY DEF StageInv, DeltasCoverEveryField, ConfidenceIsWeakest, TypeOK, Idle, At
<1> QED BY <1>2, <1>5, <1>6, <1>7, <1>8

LEMMA TranslateKeeps ==
    ASSUME SpineInv, NEW side \in Side, Translate(side)
    PROVE  SpineInv'
<1> USE DEF SpineInv, Translate
<1>1. request[side] \in {x \in Scenarios : Valid(x)}
  BY FillAssumption DEF TypeOK, RequestInv, StageInv, IsComparison, Idle, At, Side
<1>2. pc' # Idle /\ pc' \in [step : Step, side : Side \cup {"both", Fill}]
  BY DEF At, Idle, Step, Side
<1>3. TypeOK'
  <2>1. driver' \in [Side -> {StaticDriver(s) : s \in {x \in Scenarios : Valid(x)}} \cup {Fill}]
    BY <1>1 DEF TypeOK
  <2> QED BY <1>2, <2>1 DEF TypeOK, Idle, At
<1>4. driver'[side] = StaticDriver(request[side])
  BY DEF TypeOK
<1>5. RequestInv'
  BY FillAssumption DEF RequestInv, IsComparison, Idle, At, Side
<1>6. StageInv' /\ TrustInv'
  BY <1>4, FillAssumption DEF StageInv, TrustInv, IsComparison, Idle, At, Side, OnGrid, Rated
<1>7. DeltasCoverEveryField' /\ ConfidenceIsWeakest'
  BY DEF StageInv, DeltasCoverEveryField, ConfidenceIsWeakest, TypeOK, Idle, At
<1> QED BY <1>3, <1>5, <1>6, <1>7

LEMMA RunKeeps ==
    ASSUME SpineInv, NEW side \in Side, Run(side)
    PROVE  SpineInv'
<1> USE DEF SpineInv, Run
<1>1. request[side] \in Scenarios
  BY FillAssumption DEF TypeOK, RequestInv, IsComparison, Idle, At, Side
<1>2. driver[side].shape = Shape(request[side].domain)
  <2>1. driver[side] = StaticDriver(request[side])
    BY DEF StageInv
  <2>2. \A s : StaticDriver(s).shape = Shape(s.domain)
    BY DEF StaticDriver
  <2> QED BY <2>1, <2>2
<1>3. driver[side].shape \in Nat \X Nat
  BY <1>1, <1>2, ShapeType
<1>4. pc' # Idle /\ pc' \in [step : Step, side : Side \cup {"both", Fill}]
  BY DEF At, Idle, Step, Side
<1>0. PICK values \in Masks :
          result' = [result EXCEPT ![side].shape = driver[side].shape, ![side].values = values]
  BY DEF Run
<1>5. TypeOK'
  <2>1. result' \in [Side -> [error : BOOLEAN, shape : (Nat \X Nat) \cup {Fill},
                              values : [Fields -> SUBSET Cells],
                              confidence : Tier \cup {Fill}, report : BOOLEAN]]
    BY <1>0, <1>3, MasksAssumption, ShapeKeepsType DEF TypeOK
  <2> QED BY <1>4, <2>1 DEF TypeOK, Idle, At
<1>6. \A s \in Side : /\ result'[s].error = result[s].error
                      /\ result'[s].confidence = result[s].confidence
                      /\ s # side => result'[s] = result[s]
  BY DEF TypeOK
<1>7. result'[side].shape = Shape(request[side].domain)
  BY <1>2 DEF TypeOK
<1>8. RequestInv'
  BY <1>6, FillAssumption DEF RequestInv, IsComparison, Idle, At, Side
<1>9. StageInv'
  BY <1>6, <1>7, FillAssumption DEF StageInv, IsComparison, Idle, At, Side, OnGrid, Rated
<1>10. TrustInv'
  BY <1>6, FillAssumption DEF TrustInv, IsComparison, Idle, At, Side, Rated
<1>11. DeltasCoverEveryField' /\ ConfidenceIsWeakest'
  BY DEF StageInv, DeltasCoverEveryField, ConfidenceIsWeakest, TypeOK, Idle, At
<1> QED BY <1>5, <1>8, <1>9, <1>10, <1>11

LEMMA ReportKeeps ==
    ASSUME SpineInv, NEW side \in Side, Report(side)
    PROVE  SpineInv'
<1> USE DEF SpineInv, Report
<1>1. request[side] \in Scenarios
  BY FillAssumption DEF TypeOK, RequestInv, IsComparison, Idle, At, Side
<1>2. EffectiveTier(request[side]) \in Tier
  BY <1>1, EffectiveTierIsLowest
<1>3. pc' # Idle /\ pc' \in [step : Step, side : Side \cup {"both", Fill}]
  BY DEF At, Idle, Step, Side, After
<1>4. TypeOK'
  <2>1. result' \in [Side -> [error : BOOLEAN, shape : (Nat \X Nat) \cup {Fill},
                              values : [Fields -> SUBSET Cells],
                              confidence : Tier \cup {Fill}, report : BOOLEAN]]
    BY <1>2, RatingKeepsType DEF TypeOK
  <2> QED BY <1>3, <2>1 DEF TypeOK, Idle, At
<1>5. \A s \in Side : /\ result'[s].error = result[s].error
                      /\ result'[s].shape = result[s].shape
                      /\ s # side => result'[s] = result[s]
  BY DEF TypeOK
<1>6. result'[side].confidence = EffectiveTier(request[side])
  BY DEF TypeOK
<1>7. RequestInv'
  BY <1>5, FillAssumption DEF RequestInv, IsComparison, Idle, At, Side, After
<1>8. StageInv'
  BY <1>5, <1>6, FillAssumption
     DEF StageInv, RequestInv, IsComparison, Idle, At, Side, After, OnGrid, Rated
<1>9. TrustInv'
  BY <1>5, <1>6, FillAssumption DEF TrustInv, IsComparison, Idle, At, Side, After, Rated
<1>10. DeltasCoverEveryField' /\ ConfidenceIsWeakest'
  BY DEF StageInv, DeltasCoverEveryField, ConfidenceIsWeakest, TypeOK, Idle, At
<1> QED BY <1>4, <1>7, <1>8, <1>9, <1>10

LEMMA CompareKeeps ==
    ASSUME SpineInv, CompareSides
    PROVE  SpineInv'
<1> USE DEF SpineInv
<1>1. /\ IsComparison /\ Comparable(request.baseline, request.intervention)
      /\ \A side \in Side : ~result[side].error
  BY FillAssumption DEF CompareSides, RequestInv, Idle, At, Side
<1>2. request.baseline \in Scenarios /\ request.intervention \in Scenarios
  BY <1>1, FillAssumption DEF CompareSides, TypeOK, RequestInv, IsComparison, Idle, At, Side
<1>3. result.baseline.shape = result.intervention.shape
  BY <1>1, <1>2, ComparableScenariosShareGrid DEF CompareSides, StageInv, OnGrid, At
<1> DEFINE w == Weakest(EffectiveTier(request.baseline), EffectiveTier(request.intervention))
<1>4. w \in Tier
  BY <1>2, EffectiveTierIsLowest, WeakestIsLower
<1>5. w = Weakest(result.baseline.confidence, result.intervention.confidence)
  BY DEF CompareSides, StageInv, Rated, At
<1>6. ComparedFields = CommonFields /\ CommonFields \in SUBSET Fields
  BY <1>3 DEF ComparedFields, CommonFields
<1>7. comparison' = [comparison EXCEPT !.deltas = CommonFields, !.confidence = w,
                                       !.report = TRUE]
  BY <1>1, <1>5, <1>6 DEF CompareSides
<1> HIDE DEF w
<1>8. /\ comparison' \in [error : BOOLEAN, deltas : SUBSET Fields,
                          confidence : Tier \cup {Fill}, report : BOOLEAN]
      /\ comparison'.deltas = CommonFields /\ comparison'.confidence = w
  BY <1>4, <1>6, <1>7 DEF TypeOK
<1>9. pc' = At("serialize", Fill) /\ pc' # Idle
      /\ pc' \in [step : Step, side : Side \cup {"both", Fill}]
  BY DEF CompareSides, At, Idle, Step, Side
<1>10. UNCHANGED <<status, attempts, request, driver, result, summary>> /\ pc # Idle
  BY DEF CompareSides, At, Idle
<1>11. TypeOK'
  BY <1>8, <1>9, <1>10 DEF TypeOK
<1>12. RequestInv'
  BY <1>1, <1>9, <1>10, FillAssumption DEF RequestInv, IsComparison, Idle, At, Side
<1>13. StageInv'
  BY <1>9, <1>10, FillAssumption DEF StageInv, IsComparison, Idle, At, Side
<1>14. TrustInv'
  <2>1. Rated("baseline")'
    BY <1>10 DEF CompareSides, StageInv, Rated, At
  <2> QED BY <1>1, <1>4, <1>8, <1>9, <1>10, <2>1, FillAssumption
          DEF TrustInv, IsComparison, Idle, At, w
<1>15. DeltasCoverEveryField' /\ ConfidenceIsWeakest'
  BY <1>8, <1>9, <1>10 DEF DeltasCoverEveryField, CommonFields, ConfidenceIsWeakest, TypeOK, Idle, At
<1> QED BY <1>11, <1>12, <1>13, <1>14, <1>15

\* Nothing in the invariant but the outcome speaks of an idle worker.
LEMMA IdleKeeps ==
    ASSUME SpineInv, pc' = Idle, UNCHANGED <<request, driver, result, comparison>>,
           TypeOK', ConfidenceIsWeakest', status' = "queued" => attempts' < MaxAttempts
    PROVE  SpineInv'
<1>1. RequestInv'
  BY FillAssumption DEF SpineInv, RequestInv, IsComparison, Idle, At, Side
<1>2. StageInv' /\ TrustInv'
  BY FillAssumption DEF StageInv, TrustInv, Idle, At, Side
<1>3. DeltasCoverEveryField'
  BY DEF SpineInv, DeltasCoverEveryField, CommonFields
<1> QED BY <1>1, <1>2, <1>3 DEF SpineInv

LEMMA SerializeKeeps ==
    ASSUME SpineInv, Serialize
    PROVE  SpineInv'
<1> USE DEF SpineInv
<1>1. /\ request.baseline \in Scenarios
      /\ IsComparison => request.intervention \in Scenarios
  BY FillAssumption DEF Serialize, TypeOK, RequestInv, IsComparison, Idle, At, Side
<1>2. /\ result.baseline.shape \in (Nat \X Nat) \cup {Fill}
      /\ result.intervention.shape \in (Nat \X Nat) \cup {Fill}
      /\ result.baseline.confidence \in Tier \cup {Fill}
      /\ comparison.deltas \in SUBSET Fields
      /\ comparison.confidence \in Tier \cup {Fill}
  BY DEF TypeOK, Side
<1>3. TypeOK'
  <2>1. summary' \in [statistics : (Nat \X Nat) \cup {Fill},
                      intervention_statistics : (Nat \X Nat) \cup {Fill},
                      deltas : SUBSET Fields, confidence : Tier \cup {Fill}]
    BY <1>2 DEF Serialize, Summary
  <2> QED BY <2>1 DEF Serialize, TypeOK, local, Idle, Step
<1>4. ConfidenceIsWeakest'
  <2>1. summary'.confidence = IF comparison.confidence # Fill THEN comparison.confidence
                              ELSE result.baseline.confidence
    BY DEF Serialize, Summary
  <2>2. CASE ~IsComparison
    <3>1. comparison.confidence = Fill
          /\ (result.baseline.confidence = Fill \/ Rated("baseline"))
      BY <2>2, FillAssumption DEF TrustInv, Serialize, Idle, At
    <3> QED BY <1>1, <2>1, <2>2, <3>1, EffectiveTierIsLowest
            DEF ConfidenceIsWeakest, Rated, Sides, IsComparison, Serialize, local
  <2>3. CASE IsComparison
    <3> DEFINE b == EffectiveTier(request.baseline)
               i == EffectiveTier(request.intervention)
    <3>1. CASE comparison.confidence = Fill
      <4>1. result.baseline.confidence = Fill
        BY <2>3, <3>1 DEF TrustInv, Serialize, At
      <4> QED BY <2>1, <3>1, <4>1 DEF ConfidenceIsWeakest
    <3>2. CASE comparison.confidence # Fill
      <4>1. summary'.confidence = Weakest(b, i)
        BY <2>1, <2>3, <3>2 DEF TrustInv, Serialize, At
      <4>2. b \in Tier /\ i \in Tier
        BY <1>1, <2>3, EffectiveTierIsLowest
      <4>3. \A x \in Source : /\ TierRank[b] <= TierRank[request.baseline.tier[x]]
                              /\ TierRank[i] <= TierRank[request.intervention.tier[x]]
        BY <1>1, <2>3, EffectiveTierIsLowest
      <4>4. \A x \in Source : /\ request.baseline.tier[x] \in Tier
                              /\ request.intervention.tier[x] \in Tier
        BY <1>1, <2>3, ScenariosAssumption
      <4>5. \A t \in Tier : TierRank[t] \in Nat
        BY DEF Tier, TierRank
      <4> HIDE DEF b, i
      <4>6. /\ Weakest(b, i) \in Tier
            /\ TierRank[Weakest(b, i)] <= TierRank[b]
            /\ TierRank[Weakest(b, i)] <= TierRank[i]
        BY <4>2, WeakestIsLower
      <4>7. \A side \in Side, x \in Source :
               TierRank[Weakest(b, i)] <= TierRank[request[side].tier[x]]
        BY <4>2, <4>3, <4>4, <4>5, <4>6 DEF Side
      <4> QED BY <4>1, <4>7 DEF ConfidenceIsWeakest, Sides, Side, IsComparison, Serialize, local
    <3> QED BY <3>1, <3>2
  <2> QED BY <2>2, <2>3
<1> QED BY <1>3, <1>4, IdleKeeps DEF Serialize, local

LEMMA RaiseKeeps ==
    ASSUME SpineInv, Raise
    PROVE  SpineInv'
<1>1. TypeOK'
  <2>1. /\ request' \in [Side -> Scenarios \cup {Fill}]
        /\ driver' \in [Side -> {StaticDriver(s) : s \in {x \in Scenarios : Valid(x)}} \cup {Fill}]
    BY DEF Raise, Forget, Side, Blank
  <2>2. /\ result' \in [Side -> [error : BOOLEAN, shape : (Nat \X Nat) \cup {Fill},
                              values : [Fields -> SUBSET Cells],
                              confidence : Tier \cup {Fill}, report : BOOLEAN]]
        /\ comparison' \in [error : BOOLEAN, deltas : SUBSET Fields,
                             confidence : Tier \cup {Fill}, report : BOOLEAN]
    BY DEF Raise, Forget, NoResult, NoComparison
  <2> QED BY <2>1, <2>2 DEF SpineInv, Raise, TypeOK, Idle, Step
<1>2. ConfidenceIsWeakest' /\ (status' = "queued" => attempts' < MaxAttempts)
  BY AttemptsAssumption DEF SpineInv, Raise, ConfidenceIsWeakest, TypeOK
<1>3. pc' = Idle /\ request' = Blank /\ comparison'.report = FALSE
  BY DEF Raise, Forget, NoComparison
<1>4. RequestInv'
  BY <1>2, <1>3, FillAssumption DEF RequestInv, IsComparison, Blank, Idle, At, Side
<1>5. StageInv' /\ TrustInv'
  BY <1>3, FillAssumption DEF StageInv, TrustInv, Idle, At, Side
<1> QED BY <1>1, <1>2, <1>3, <1>4, <1>5 DEF SpineInv, DeltasCoverEveryField

-----------------------------------------------------------------------------
(* What a completed job shows.  The argument follows an attempt: nothing   *)
(* has a value before its stage, a stage is only reached by scenarios that *)
(* are in order, and where the pipeline turns to the summary either every  *)
(* part has its value or none has.                                         *)

Fit == IF IsComparison THEN Comparable(request.baseline, request.intervention)
       ELSE Valid(request.baseline)

Outcome ==
    IF Fit
    THEN /\ result.baseline.shape # Fill
         /\ result.intervention.shape # Fill <=> IsComparison
         /\ comparison.confidence # Fill \/ result.baseline.confidence # Fill
         /\ comparison.deltas = IF IsComparison THEN CommonFields ELSE {}
    ELSE /\ result.baseline.shape = Fill /\ result.intervention.shape = Fill
         /\ result.baseline.confidence = Fill
         /\ comparison.confidence = Fill /\ comparison.deltas = {}

OutcomeInv ==
    /\ pc = At("validate", "both") => IsComparison
    /\ pc.step = "validate" /\ pc.side # "intervention" =>
          /\ result.baseline.shape = Fill /\ result.intervention.shape = Fill
          /\ result.baseline.confidence = Fill
    /\ pc # Idle /\ pc.step # "serialize" => comparison.deltas = {}
    /\ \A side \in Side :
          pc \in {At("translate", side), At("run", side), At("report", side)} =>
              Valid(request[side])
    /\ pc # Idle /\ ~IsComparison => result.intervention.shape = Fill
    /\ pc = At("serialize", Fill) => Outcome
    /\ status = "completed" => pc = Idle
    /\ ResultIsAllOrNothing

LEMMA OutcomeInit == Init => OutcomeInv
BY DEF Init, OutcomeInv, ResultIsAllOrNothing, Idle, At

\* Values are no Fill.
LEMMA ValuesAreNoFill ==
    ASSUME NEW s \in Scenarios
    PROVE  Shape(s.domain) # Fill /\ EffectiveTier(s) # Fill
BY ShapeType, EffectiveTierIsLowest, FillAssumption

LEMMA EarlyStagesKeepOutcome ==
    ASSUME SpineInv, OutcomeInv,
           \/ \E b \in Scenarios, i \in Scenarios \cup {Fill} : Begin(b, i)
           \/ ValidateComparison
           \/ \E side \in Side : Translate(side)
    PROVE  OutcomeInv'
<1> USE DEF SpineInv
<1>1. ASSUME NEW b \in Scenarios, NEW i \in Scenarios \cup {Fill}, Begin(b, i)
      PROVE  OutcomeInv'
  BY <1>1, FillAssumption DEF OutcomeInv, Begin, ResultIsAllOrNothing, IsComparison, Idle, At, Side,
     NoResult, NoComparison
<1>2. CASE ValidateComparison
  <2>1. /\ comparison'.deltas = {} /\ comparison'.confidence = Fill
    BY <1>2 DEF ValidateComparison, OutcomeInv, TrustInv, TypeOK, Idle, At
  <2>2. UNCHANGED <<request, result, status, summary>> /\ pc = At("validate", "both")
        /\ status # "completed"
    BY <1>2 DEF ValidateComparison, OutcomeInv, Idle, At
  <2>3. IsComparison /\ IsComparison' /\ (Fit' <=> Comparable(request.baseline, request.intervention))
    BY <2>2 DEF OutcomeInv, Fit, IsComparison
  <2> QED BY <1>2, <2>1, <2>2, <2>3, FillAssumption
          DEF ValidateComparison, OutcomeInv, Outcome, ResultIsAllOrNothing, Idle, At, Side
<1>3. ASSUME NEW side \in Side, Translate(side) PROVE OutcomeInv'
  <2>1. Valid(request[side])
    BY <1>3 DEF Translate, StageInv
  <2> QED BY <1>3, <2>1 DEF Translate, OutcomeInv, ResultIsAllOrNothing, IsComparison, Idle, At, Side
<1> QED BY <1>1, <1>2, <1>3

\* Validation of one side: a scenario of a comparison is in order, a single one may send
\* the pipeline to the summary with nothing in hand.
LEMMA ValidateKeepsOutcome ==
    ASSUME SpineInv, OutcomeInv, NEW side \in Side, Validate(side)
    PROVE  OutcomeInv'
<1> USE DEF SpineInv
<1>1. \A s \in Side : result'[s].shape = result[s].shape /\ result'[s].confidence = result[s].confidence
  BY DEF Validate, TypeOK
<1>2. /\ UNCHANGED <<request, comparison, status, summary>> /\ pc = At("validate", side)
      /\ pc' = IF Valid(request[side]) THEN At("translate", side) ELSE After(side)
      /\ status # "completed"
  BY DEF Validate, OutcomeInv, Idle, At
<1>3. CASE Valid(request[side])
  BY <1>1, <1>2, <1>3 DEF OutcomeInv, ResultIsAllOrNothing, IsComparison, Idle, At, Side
<1>4. CASE ~Valid(request[side])
  <2>1. ~IsComparison
    BY <1>2, <1>4, FillAssumption DEF RequestInv, Comparable, IsComparison, Idle, At, Side
  <2>2. side = "baseline"
    BY <1>2, <2>1 DEF RequestInv, At, Side
  <2>3. pc' = At("serialize", Fill)
    BY <1>2, <1>4, <2>1, <2>2 DEF After
  <2>4. ~Fit' /\ Outcome'
    <3>1. ~Fit'
      BY <1>2, <1>4, <2>1, <2>2 DEF Fit, IsComparison
    <3>2. result.baseline.shape = Fill /\ result.intervention.shape = Fill
          /\ result.baseline.confidence = Fill
      BY <1>2, <2>2, <2>1 DEF OutcomeInv, At
    <3>3. comparison.confidence = Fill /\ comparison.deltas = {}
      BY <1>2 DEF OutcomeInv, TrustInv, Idle, At
    <3> QED BY <1>1, <1>2, <3>1, <3>2, <3>3 DEF Outcome, Side
  <2> QED BY <1>1, <1>2, <2>1, <2>3, <2>4 DEF OutcomeInv, ResultIsAllOrNothing, IsComparison, Idle, At, Side
<1> QED BY <1>3, <1>4

LEMMA RunKeepsOutcome ==
    ASSUME SpineInv, OutcomeInv, NEW side \in Side, Run(side)
    PROVE  OutcomeInv'
<1>1. /\ UNCHANGED <<request, comparison, status, summary>> /\ pc = At("run", side)
      /\ pc' = At("report", side) /\ status # "completed"
  BY DEF Run, OutcomeInv, Idle, At
<1>2. \A s \in Side : s # side => result'[s] = result[s]
  BY DEF Run, SpineInv, TypeOK
<1>3. side = "intervention" => IsComparison
  BY <1>1 DEF SpineInv, RequestInv, At
<1> QED BY <1>1, <1>2, <1>3 DEF OutcomeInv, ResultIsAllOrNothing, IsComparison, Idle, At, Side

\* The report of a single run is its last stage.
LEMMA ReportKeepsOutcome ==
    ASSUME SpineInv, OutcomeInv, NEW side \in Side, Report(side)
    PROVE  OutcomeInv'
<1> USE DEF SpineInv
<1>1. /\ UNCHANGED <<request, comparison, status, summary>> /\ pc = At("report", side)
      /\ pc' = After(side) /\ status # "completed"
  BY DEF Report, OutcomeInv, Idle, At
<1>2. /\ \A s \in Side : result'[s].shape = result[s].shape /\ (s # side => result'[s] = result[s])
      /\ result'[side].confidence = EffectiveTier(request[side])
  BY DEF Report, TypeOK
<1>3. side = "intervention" => IsComparison
  BY <1>1 DEF RequestInv, At
<1>4. CASE IsComparison
  BY <1>1, <1>2, <1>4 DEF OutcomeInv, ResultIsAllOrNothing, After, IsComparison, Idle, At, Side
<1>5. CASE ~IsComparison
  <2>1. side = "baseline" /\ pc' = At("serialize", Fill) /\ request.baseline \in Scenarios
    BY <1>1, <1>3, <1>5, FillAssumption DEF After, Side, TypeOK, RequestInv, Idle, At
  <2>2. Valid(request.baseline) /\ OnGrid("baseline")
    BY <1>1, <2>1 DEF OutcomeInv, StageInv, Side
  <2>3. result'.baseline.shape # Fill /\ result'.baseline.confidence # Fill
    BY <1>2, <2>1, <2>2, ValuesAreNoFill DEF OnGrid
  <2>4. result'.intervention.shape = Fill /\ comparison.deltas = {}
    BY <1>1, <1>2, <1>5 DEF OutcomeInv, Idle, At, Side
  <2>5. Outcome' /\ ~IsComparison'
    BY <1>1, <1>5, <2>2, <2>3, <2>4 DEF Outcome, Fit, IsComparison
  <2> QED BY <1>1, <2>1, <2>4, <2>5 DEF OutcomeInv, ResultIsAllOrNothing, Idle, At, Side
<1> QED BY <1>4, <1>5

LEMMA CompareKeepsOutcome ==
    ASSUME SpineInv, OutcomeInv, CompareSides
    PROVE  OutcomeInv'
<1> USE DEF SpineInv
<1>1. /\ IsComparison /\ Comparable(request.baseline, request.intervention)
      /\ \A side \in Side : ~result[side].error
  BY FillAssumption DEF CompareSides, RequestInv, Idle, At, Side
<1>2. request.baseline \in Scenarios /\ request.intervention \in Scenarios
  BY <1>1, FillAssumption DEF CompareSides, TypeOK, RequestInv, IsComparison, Idle, At, Side
<1>3. /\ result.baseline.shape = Shape(request.baseline.domain)
      /\ result.intervention.shape = Shape(request.intervention.domain)
      /\ result.baseline.confidence = EffectiveTier(request.baseline)
  BY DEF CompareSides, StageInv, OnGrid, Rated, At
<1>4. /\ UNCHANGED <<request, result, status, summary>> /\ pc' = At("serialize", Fill)
      /\ status # "completed"
  BY DEF CompareSides, OutcomeInv, Idle, At
<1>5. ComparedFields = CommonFields /\ CommonFields' = CommonFields
  BY <1>1, <1>2, <1>3, <1>4, ComparableScenariosShareGrid DEF ComparedFields, CommonFields
<1>6. comparison'.deltas = CommonFields
  BY <1>1, <1>5 DEF CompareSides, TypeOK
<1>7. Outcome' /\ IsComparison'
  BY <1>1, <1>2, <1>3, <1>4, <1>5, <1>6, ValuesAreNoFill DEF Outcome, Fit, IsComparison
<1> QED BY <1>4, <1>7 DEF OutcomeInv, ResultIsAllOrNothing, Idle, At, Side

LEMMA LastStagesKeepOutcome ==
    ASSUME SpineInv, OutcomeInv, Serialize \/ Raise
    PROVE  OutcomeInv'
<1>1. CASE Serialize
  <2>1. /\ pc' = Idle /\ Outcome
        /\ UNCHANGED <<request, result, comparison>> /\ summary' = Summary
    BY <1>1 DEF Serialize, OutcomeInv, local
  <2>2. ResultIsAllOrNothing'
    <3>1. Fit' <=> Fit
      BY <2>1 DEF Fit, IsComparison
    <3>2. CASE ~Fit
      <4>1. Summary = NoSummary
        BY <2>1, <3>2 DEF Outcome, Summary, NoSummary
      <4> QED BY <2>1, <3>1, <3>2, <4>1 DEF ResultIsAllOrNothing, Fit
    <3>3. CASE Fit
      <4>1. /\ Summary.statistics # Fill /\ Summary.confidence # Fill
            /\ Summary.intervention_statistics # Fill <=> IsComparison
            /\ Summary.deltas = IF IsComparison THEN CommonFields ELSE {}
        BY <2>1, <3>3 DEF Outcome, Summary
      <4>2. CommonFields' = CommonFields
        BY <2>1 DEF CommonFields
      <4> QED BY <2>1, <3>1, <3>3, <4>1, <4>2 DEF ResultIsAllOrNothing, Fit, IsComparison
    <3> QED BY <3>2, <3>3
  <2> QED BY <2>1, <2>2 DEF OutcomeInv, Idle, At
<1>2. CASE Raise
  BY <1>2 DEF Raise, OutcomeInv, ResultIsAllOrNothing, Idle, At
<1> QED BY <1>1, <1>2

-----------------------------------------------------------------------------
(* What covers a cell.  The surface after the first m changes shows, in    *)
(* every cell, the last of them that covers it.                            *)

Painting == INSTANCE FoldFacts WITH Op <- PaintAll

Cell == [vegetation : Nat \cup {Fill}, pavement : Nat \cup {Fill}, water : Nat \cup {Fill},
         fraction : Category]

\* What the last of the changes that cover a cell leaves in it.
Shows(cell, change) ==
    /\ cell.fraction = change.category
    /\ cell[change.category] = change.type
    /\ cell.vegetation # Fill <=> cell.fraction = "vegetation"

CoveringUpTo(changes, c, m) == {k \in 1..m : c \in changes[k].cells}

LEMMA PaintShows ==
    ASSUME NEW cell \in Cell, NEW change \in SurfaceChange, change.category # "unknown"
    PROVE  Paint(cell, change) \in Cell /\ Shows(Paint(cell, change), change)
<1> DEFINE t == change.type
<1>1. t \in Nat /\ change.category \in Category
  BY DEF SurfaceChange, Category
<1>2. CASE change.category = "vegetation"
  <2> DEFINE first == [cell EXCEPT !.vegetation = t]
             both  == [first EXCEPT !.fraction = "vegetation"]
  <2>1. Paint(cell, change) = both
    BY <1>2 DEF Paint
  <2>2. first = [vegetation |-> t, pavement |-> cell.pavement, water |-> cell.water,
                 fraction |-> cell.fraction]
    BY DEF Cell
  <2> HIDE DEF t, first
  <2>3. both = [vegetation |-> t, pavement |-> cell.pavement, water |-> cell.water,
                fraction |-> "vegetation"]
    BY <2>2
  <2> HIDE DEF both
  <2> QED BY <1>1, <1>2, <2>1, <2>3, FillAssumption DEF Cell, Category, Shows, t
<1>3. CASE change.category = "pavement"
  <2> DEFINE first  == [cell EXCEPT !.pavement = t]
             second == [first EXCEPT !.vegetation = Fill]
             both   == [second EXCEPT !.fraction = "pavement"]
  <2>1. Paint(cell, change) = both
    BY <1>3 DEF Paint
  <2>2. first = [vegetation |-> cell.vegetation, pavement |-> t, water |-> cell.water,
                 fraction |-> cell.fraction]
    BY DEF Cell
  <2> HIDE DEF t, first
  <2>3. second = [vegetation |-> Fill, pavement |-> t, water |-> cell.water,
                  fraction |-> cell.fraction]
    BY <2>2
  <2> HIDE DEF second
  <2>4. both = [vegetation |-> Fill, pavement |-> t, water |-> cell.water,
                fraction |-> "pavement"]
    BY <2>3
  <2> HIDE DEF both
  <2> QED BY <1>1, <1>3, <2>1, <2>4, FillAssumption DEF Cell, Category, Shows, t
<1>4. CASE change.category = "water"
  <2> DEFINE first  == [cell EXCEPT !.water = t]
             second == [first EXCEPT !.vegetation = Fill]
             both   == [second EXCEPT !.fraction = "water"]
  <2>1. Paint(cell, change) = both
    BY <1>4 DEF Paint
  <2>2. first = [vegetation |-> cell.vegetation, pavement |-> cell.pavement, water |-> t,
                 fraction |-> cell.fraction]
    BY DEF Cell
  <2> HIDE DEF t, first
  <2>3. second = [vegetation |-> Fill, pavement |-> cell.pavement, water |-> t,
                  fraction |-> cell.fraction]
    BY <2>2
  <2> HIDE DEF second
  <2>4. both = [vegetation |-> Fill, pavement |-> cell.pavement, water |-> t,
                fraction |-> "water"]
    BY <2>3
  <2> HIDE DEF both
  <2> QED BY <1>1, <1>4, <2>1, <2>4, FillAssumption DEF Cell, Category, Shows, t
<1> QED BY <1>1, <1>2, <1>3, <1>4 DEF Category

\* The last change among the first m that cover a cell, as m grows.
LEMMA CoveringGrows ==
    ASSUME NEW changes, NEW c, NEW m \in Nat
    PROVE  /\ c \in changes[m + 1].cells =>
                 /\ CoveringUpTo(changes, c, m + 1) # {}
                 /\ Max(CoveringUpTo(changes, c, m + 1)) = m + 1
           /\ c \notin changes[m + 1].cells =>
                 CoveringUpTo(changes, c, m + 1) = CoveringUpTo(changes, c, m)
<1> DEFINE T == CoveringUpTo(changes, c, m + 1)
<1>1. T \in SUBSET (1..(m + 1)) /\ (c \in changes[m + 1].cells => m + 1 \in T)
  BY DEF CoveringUpTo
<1>2. ASSUME c \in changes[m + 1].cells PROVE T # {} /\ Max(T) = m + 1
  <2> HIDE DEF T
  <2>1. m + 1 \in T BY <1>1, <1>2
  <2>2. Painting!Max(T) = m + 1 BY <1>1, <2>1, Painting!MaxOf
  <2> QED BY <2>1, <2>2 DEF Max, Painting!Max
<1>3. ASSUME c \notin changes[m + 1].cells PROVE T = CoveringUpTo(changes, c, m)
  BY <1>3 DEF CoveringUpTo
<1> QED BY <1>2, <1>3

LEMMA PaintedShowsLast ==
    ASSUME NEW changes \in Seq(SurfaceChange),
           \A k \in DOMAIN changes : changes[k].category # "unknown",
           NEW c \in Cells
    PROVE  LET covering == {k \in DOMAIN changes : c \in changes[k].cells}
               cell     == Painted(changes)[c]
           IN  IF covering = {} THEN cell = Grass
               ELSE Shows(cell, changes[Max(covering)])
<1> DEFINE n == Len(changes)
<1>1. n \in Nat /\ DOMAIN changes = 1..n /\ \A k \in 1..n : changes[k] \in SurfaceChange
  OBVIOUS
<1>2. Painted(changes) = Painting!Fold(Meadow, changes)
  BY DEF Painted, Painting!Fold, FoldLeft, MapThenFoldSet, Painting!FoldLeft,
         Painting!MapThenFoldSet, Max, Painting!Max
<1>3. PICK f : /\ f[0] = Meadow
               /\ \A k \in 1..n : f[k] = PaintAll(f[k - 1], changes[k])
               /\ Painting!Fold(Meadow, changes) = f[n]
  BY <1>1, Painting!PartialResults, SMTT(60)
<1> DEFINE Right(m) == /\ f[m][c] \in Cell
                       /\ IF CoveringUpTo(changes, c, m) = {} THEN f[m][c] = Grass
                          ELSE Shows(f[m][c], changes[Max(CoveringUpTo(changes, c, m))])
           Good == {m \in Nat : m <= n => Right(m)}
<1>4. 0 \in Good
  <2>1. CoveringUpTo(changes, c, 0) = {}
    BY DEF CoveringUpTo
  <2>2. f[0][c] = Grass
    BY <1>3 DEF Meadow
  <2>3. Grass \in Cell
    BY DEF Grass, Cell, Category
  <2> QED BY <2>1, <2>2, <2>3
<1>5. ASSUME NEW m \in Good PROVE m + 1 \in Good
  <2> SUFFICES ASSUME m + 1 <= n PROVE Right(m + 1)
    OBVIOUS
  <2>1. m \in Nat /\ m + 1 \in 1..n /\ (m + 1) - 1 = m /\ Right(m)
    OBVIOUS
  <2>2. changes[m + 1] \in SurfaceChange /\ changes[m + 1].category # "unknown"
    BY <1>1, <2>1
  <2>3. f[m + 1][c] = IF c \in changes[m + 1].cells THEN Paint(f[m][c], changes[m + 1])
                      ELSE f[m][c]
    <3>1. f[m + 1] = PaintAll(f[m], changes[m + 1])
      BY <1>3, <2>1
    <3> QED BY <3>1 DEF PaintAll
  <2>4. CASE c \in changes[m + 1].cells
    <3>1. /\ CoveringUpTo(changes, c, m + 1) # {}
          /\ Max(CoveringUpTo(changes, c, m + 1)) = m + 1
      BY <2>1, <2>4, CoveringGrows
    <3>2. f[m + 1][c] \in Cell /\ Shows(f[m + 1][c], changes[m + 1])
      BY <2>1, <2>2, <2>3, <2>4, PaintShows
    <3> QED BY <3>1, <3>2
  <2>5. CASE c \notin changes[m + 1].cells
    <3>1. CoveringUpTo(changes, c, m + 1) = CoveringUpTo(changes, c, m)
      BY <2>1, <2>5, CoveringGrows
    <3> QED BY <2>1, <2>3, <2>5, <3>1
  <2> QED BY <2>4, <2>5
<1>6. Good = Nat
  <2>1. Good \in SUBSET Nat
    OBVIOUS
  <2> HIDE DEF Good
  <2> QED BY <1>4, <1>5, <2>1, Painting!NumbersInduction
<1>7. Right(n)
  BY <1>1, <1>6
<1>8. CoveringUpTo(changes, c, n) = {k \in DOMAIN changes : c \in changes[k].cells}
  BY <1>1 DEF CoveringUpTo
<1> QED BY <1>2, <1>3, <1>7, <1>8

\* A driver is that of the scenario of its side, which has been found in order.
DriverInv ==
    \A side \in Side :
        driver[side] # Fill =>
            /\ request[side] \in Scenarios /\ Valid(request[side])
            /\ driver[side] = StaticDriver(request[side])

LEMMA DriverInit == Init => DriverInv
BY DEF Init, DriverInv, Blank

LEMMA DriverKept == SpineInv /\ DriverInv /\ [Next]_vars => DriverInv'
<1> SUFFICES ASSUME SpineInv, DriverInv, [Next]_vars PROVE DriverInv'
  OBVIOUS
<1>1. ASSUME NEW b \in Scenarios, NEW i \in Scenarios \cup {Fill}, Begin(b, i) PROVE DriverInv'
  BY <1>1 DEF Begin, DriverInv, Blank
<1>2. ASSUME NEW side \in Side, Translate(side) PROVE DriverInv'
  <2>1. Valid(request[side]) /\ request[side] \in Scenarios
    BY <1>2, FillAssumption
       DEF Translate, SpineInv, StageInv, TypeOK, RequestInv, IsComparison, Idle, At, Side
  <2>2. driver' = [driver EXCEPT ![side] = StaticDriver(request[side])] /\ request' = request
    BY <1>2 DEF Translate
  <2>3. \A s \in Side : driver'[s] = driver[s] \/ (s = side /\ driver'[s] = StaticDriver(request[s]))
    BY <2>2 DEF SpineInv, TypeOK
  <2> QED BY <2>1, <2>2, <2>3 DEF DriverInv
<1>3. ASSUME UNCHANGED <<driver, request>> PROVE DriverInv'
  BY <1>3 DEF DriverInv
<1>5. CASE Raise
  BY <1>5 DEF Raise, Forget, DriverInv, Blank
<1>4. UNCHANGED <<driver, request>> \/ Raise
      \/ (\E b \in Scenarios, i \in Scenarios \cup {Fill} : Begin(b, i))
      \/ (\E side \in Side : Translate(side))
  BY DEF Next, vars, local, ValidateComparison, Validate, Run, Report, CompareSides, Serialize
<1> QED BY <1>1, <1>2, <1>3, <1>4, <1>5

LEMMA DriversShowLastChanges ==
    ASSUME DriverInv
    PROVE  LastChangeCovers
<1> SUFFICES ASSUME NEW side \in Side, driver[side] # Fill, NEW c \in Cells
             PROVE  LET cell     == driver[side].surface[c]
                        changes  == request[side].surface_changes
                        covering == {k \in DOMAIN changes : c \in changes[k].cells}
                    IN  IF covering = {} THEN cell = Grass
                        ELSE Shows(cell, changes[Max(covering)])
  BY DEF LastChangeCovers, Shows
<1> DEFINE changes == request[side].surface_changes
<1>1. /\ changes \in Seq(SurfaceChange) /\ driver[side] = StaticDriver(request[side])
      /\ SurfacesAreFair(request[side])
  BY ScenariosAssumption DEF DriverInv, Valid
<1>2. \A k \in DOMAIN changes : changes[k].category # "unknown"
  BY <1>1 DEF SurfacesAreFair
<1>3. driver[side].surface = Painted(changes)
  BY <1>1 DEF StaticDriver
<1> HIDE DEF changes
<1> QED BY <1>1, <1>2, <1>3, PaintedShowsLast DEF changes

-----------------------------------------------------------------------------
(* Sums over sets, for the tables of a comparison.                         *)

\* The equation of the recursive function inside SumFunctionOnSet.
Adds(g, f, S) ==
    g = [T \in SUBSET S |->
            IF T = {} THEN 0
            ELSE LET x == CHOOSE y \in T : TRUE IN f[x] + g[T \ {x}]]

\* Facts about finite sets by the size of the set.
LEMMA SizeInduction ==
    ASSUME NEW S, IsFiniteSet(S), NEW Good \in SUBSET (SUBSET S),
           \A T \in SUBSET S : (\A x \in T : T \ {x} \in Good) => T \in Good
    PROVE  S \in Good
<1> DEFINE Sizes == {n \in Nat : \A T \in SUBSET S : Cardinality(T) = n => T \in Good}
<1>1. 0 \in Sizes
  <2>1. \A T \in SUBSET S : Cardinality(T) = 0 => T = {}
    BY FS_Subset, FS_EmptySet
  <2>2. {} \in Good
    OBVIOUS
  <2> QED BY <2>1, <2>2
<1>2. ASSUME NEW n \in Sizes PROVE n + 1 \in Sizes
  <2> SUFFICES ASSUME NEW T \in SUBSET S, Cardinality(T) = n + 1 PROVE T \in Good
    OBVIOUS
  <2>1. IsFiniteSet(T) /\ T # {}
    BY FS_Subset, FS_EmptySet
  <2>2. ASSUME NEW x \in T PROVE T \ {x} \in Good
    <3>1. T \ {x} \in SUBSET S /\ Cardinality(T \ {x}) = Cardinality(T) - 1
      BY <2>1, FS_RemoveElement
    <3>2. n \in Nat /\ Cardinality(T \ {x}) = n
      BY <3>1
    <3> QED BY <3>1, <3>2
  <2> QED BY <2>2
<1> HIDE DEF Sizes
<1>3. Sizes = Nat
  <2>1. Sizes \in SUBSET Nat
    BY DEF Sizes
  <2> QED BY <1>1, <1>2, <2>1, Painting!NumbersInduction
<1>4. Cardinality(S) \in Sizes
  BY <1>3, FS_CardinalityType
<1> QED BY <1>4 DEF Sizes

\* There is such a function: sets of one size after those of the size below.
LEMMA AddsExists ==
    ASSUME NEW S, IsFiniteSet(S), NEW f
    PROVE  \E g : Adds(g, f, S)
<1> DEFINE Value(g, T) == IF T = {} THEN 0
                          ELSE LET x == CHOOSE y \in T : TRUE IN f[x] + g[T \ {x}]
           Fits(g, n) == \A T \in SUBSET S : Cardinality(T) <= n => g[T] = Value(g, T)
           Good == {n \in Nat : \E g : Fits(g, n)}
<1>0. \A T \in SUBSET S : /\ IsFiniteSet(T) /\ Cardinality(T) \in Nat
                          /\ Cardinality(T) <= Cardinality(S)
                          /\ T # {} => LET x == CHOOSE y \in T : TRUE
                                       IN  /\ T \ {x} \in SUBSET S
                                           /\ Cardinality(T \ {x}) = Cardinality(T) - 1
  <2> SUFFICES ASSUME NEW T \in SUBSET S
               PROVE  /\ IsFiniteSet(T) /\ Cardinality(T) \in Nat
                      /\ Cardinality(T) <= Cardinality(S)
                      /\ T # {} => LET x == CHOOSE y \in T : TRUE
                                   IN  /\ T \ {x} \in SUBSET S
                                       /\ Cardinality(T \ {x}) = Cardinality(T) - 1
    OBVIOUS
  <2>1. IsFiniteSet(T) /\ Cardinality(T) \in Nat /\ Cardinality(T) <= Cardinality(S)
    BY FS_Subset, FS_CardinalityType
  <2> DEFINE x == CHOOSE y \in T : TRUE
  <2>2. T # {} => x \in T
    OBVIOUS
  <2> HIDE DEF x
  <2>3. T # {} => T \ {x} \in SUBSET S /\ Cardinality(T \ {x}) = Cardinality(T) - 1
    BY <2>1, <2>2, FS_RemoveElement
  <2> QED BY <2>1, <2>3 DEF x
<1>1. 0 \in Good
  <2> DEFINE g == [T \in SUBSET S |-> 0]
  <2>1. \A T \in SUBSET S : Cardinality(T) <= 0 => T = {}
    BY <1>0, FS_EmptySet
  <2>2. Fits(g, 0)
    BY <2>1
  <2> QED BY <2>2
<1>2. ASSUME NEW n \in Good PROVE n + 1 \in Good
  <2>1. PICK g : Fits(g, n)
    OBVIOUS
  <2> DEFINE h == [T \in SUBSET S |-> IF Cardinality(T) <= n THEN g[T] ELSE Value(g, T)]
  <2>2. ASSUME NEW T \in SUBSET S, Cardinality(T) <= n + 1 PROVE h[T] = Value(h, T)
    <3>1. h[T] = Value(g, T)
      BY <2>1
    <3>2. T # {} => LET x == CHOOSE y \in T : TRUE IN h[T \ {x}] = g[T \ {x}]
      <4> DEFINE x == CHOOSE y \in T : TRUE
      <4>1. T # {} => T \ {x} \in SUBSET S /\ Cardinality(T \ {x}) = Cardinality(T) - 1
        BY <1>0
      <4>2. Cardinality(T) \in Nat
        BY <1>0
      <4> HIDE DEF x
      <4>3. T # {} => h[T \ {x}] = g[T \ {x}]
        BY <2>2, <4>1, <4>2
      <4> QED BY <4>3 DEF x
    <3> DEFINE x == CHOOSE y \in T : TRUE
    <3>3. /\ Value(g, T) = IF T = {} THEN 0 ELSE f[x] + g[T \ {x}]
          /\ Value(h, T) = IF T = {} THEN 0 ELSE f[x] + h[T \ {x}]
      <4> HIDE DEF h
      <4> QED OBVIOUS
    <3>4. T # {} => h[T \ {x}] = g[T \ {x}]
      BY <3>2
    <3> HIDE DEF h, Value, x
    <3> QED BY <3>1, <3>3, <3>4
  <2> HIDE DEF h
  <2>3. Fits(h, n + 1)
    BY <2>2
  <2>4. n + 1 \in Nat
    OBVIOUS
  <2> HIDE DEF Fits
  <2> QED BY <2>3, <2>4
<1> HIDE DEF Good
<1>3. Good = Nat
  <2>1. Good \in SUBSET Nat
    BY DEF Good
  <2> QED BY <1>1, <1>2, <2>1, Painting!NumbersInduction
<1>4. PICK g : Fits(g, Cardinality(S))
  BY <1>3, FS_CardinalityType, ZenonT(60) DEF Good
<1> DEFINE h == [T \in SUBSET S |-> g[T]]
<1>5. \A T \in SUBSET S : h[T] = Value(h, T)
  <2> SUFFICES ASSUME NEW T \in SUBSET S PROVE h[T] = Value(h, T)
    OBVIOUS
  <2>1. g[T] = Value(g, T)
    BY <1>0, <1>4
  <2>2. T # {} => LET x == CHOOSE y \in T : TRUE IN h[T \ {x}] = g[T \ {x}]
    OBVIOUS
  <2> QED BY <2>1, <2>2
<1>6. h = [T \in SUBSET S |-> Value(h, T)]
  <2>1. h = [T \in SUBSET S |-> h[T]]
    OBVIOUS
  <2> HIDE DEF h
  <2> QED BY <1>5, <2>1
<1> HIDE DEF h
<1> QED BY <1>6 DEF Adds

\* The sum is that of the function it folds with.
LEMMA SumUnfolds ==
    ASSUME NEW S, IsFiniteSet(S), NEW f
    PROVE  \E g : Adds(g, f, S) /\ SumFunctionOnSet(f, S) = g[S]
<1> DEFINE it == CHOOSE g : Adds(g, f, S)
<1>1. Adds(it, f, S)
  BY AddsExists
<1>2. SumFunctionOnSet(f, S) = it[S]
  BY DEF SumFunctionOnSet, FoldFunctionOnSet, MapThenFoldSet, Adds
<1> QED BY <1>1, <1>2

\* Integers add up to an integer.
LEMMA SumOfIntegers ==
    ASSUME NEW S, IsFiniteSet(S), NEW f, \A x \in S : f[x] \in Int
    PROVE  SumFunctionOnSet(f, S) \in Int
<1>1. PICK g : Adds(g, f, S) /\ SumFunctionOnSet(f, S) = g[S]
  BY SumUnfolds
<1> DEFINE Good == {T \in SUBSET S : g[T] \in Int}
<1>2. {} \in Good
  BY <1>1 DEF Adds
<1>3. ASSUME NEW T \in SUBSET S, \A x \in T : T \ {x} \in Good PROVE T \in Good
  <2>1. CASE T = {}
    BY <1>2, <2>1
  <2>2. CASE T # {}
    <3> DEFINE x == CHOOSE y \in T : TRUE
    <3>1. g[T] = f[x] + g[T \ {x}]
      BY <1>1, <2>2 DEF Adds
    <3>2. x \in T
      BY <2>2
    <3> HIDE DEF x
    <3>3. g[T \ {x}] \in Int /\ f[x] \in Int
      BY <1>3, <3>2
    <3> QED BY <3>1, <3>3
  <2> QED BY <2>1, <2>2
<1>4. S \in Good
  <2>1. Good \in SUBSET (SUBSET S)
    OBVIOUS
  <2> HIDE DEF Good
  <2> QED BY <1>3, <2>1, SizeInduction
<1> QED BY <1>1, <1>4

\* The members of C that are of a kind in T.
Kin(C, kind, T) == {c \in C : kind[c] \in T}

\* What is counted kind by kind adds up to all that is of these kinds.
LEMMA SumOfKinds ==
    ASSUME NEW C, IsFiniteSet(C), NEW kind, NEW S, IsFiniteSet(S),
           NEW f, \A k \in S : f[k] = Cardinality(Kin(C, kind, {k}))
    PROVE  SumFunctionOnSet(f, S) = Cardinality(Kin(C, kind, S))
<1> DEFINE Of(T) == Kin(C, kind, T)
<1>1. PICK g : Adds(g, f, S) /\ SumFunctionOnSet(f, S) = g[S]
  BY SumUnfolds
<1> DEFINE Good == {T \in SUBSET S : g[T] = Cardinality(Of(T))}
<1>2. {} \in Good
  <2>1. Of({}) = {}
    BY DEF Kin
  <2>2. g[{}] = 0
    BY <1>1 DEF Adds
  <2> HIDE DEF Of
  <2> QED BY <2>1, <2>2, FS_EmptySet
<1>3. ASSUME NEW T \in SUBSET S, \A x \in T : T \ {x} \in Good PROVE T \in Good
  <2>1. CASE T = {}
    BY <1>2, <2>1
  <2>2. CASE T # {}
    <3> DEFINE x == CHOOSE y \in T : TRUE
               one == Of({x})
               others == Of(T \ {x})
    <3>1. g[T] = f[x] + g[T \ {x}]
      BY <1>1, <2>2 DEF Adds
    <3>2. x \in T
      BY <2>2
    <3> HIDE DEF x
    <3>3. g[T \ {x}] = Cardinality(others) /\ f[x] = Cardinality(one)
      BY <1>3, <3>2
    <3>4. Of(T) = one \cup others /\ one \cap others = {}
      BY <3>2 DEF Kin
    <3>5. IsFiniteSet(one) /\ IsFiniteSet(others)
      <4>1. one \in SUBSET C /\ others \in SUBSET C
        BY DEF Kin
      <4> HIDE DEF one, others
      <4> QED BY <4>1, FS_Subset
    <3> HIDE DEF one, others, Of
    <3>6. Cardinality(one \cup others) = Cardinality(one) + Cardinality(others)
      <4>1. Cardinality(one \cap others) = 0
        BY <3>4, FS_EmptySet
      <4>2. Cardinality(one) \in Nat /\ Cardinality(others) \in Nat
        BY <3>5, FS_CardinalityType
      <4>3. Cardinality(one \cup others) =
                Cardinality(one) + Cardinality(others) - Cardinality(one \cap others)
        BY <3>5, FS_Union
      <4> QED BY <4>1, <4>2, <4>3
    <3> QED BY <3>1, <3>3, <3>4, <3>6
  <2> QED BY <2>1, <2>2
<1>4. S \in Good
  <2>1. Good \in SUBSET (SUBSET S)
    OBVIOUS
  <2> HIDE DEF Good
  <2> QED BY <1>3, <2>1, SizeInduction
<1> QED BY <1>1, <1>4

-----------------------------------------------------------------------------
(* The impacts: cells that cross a threshold.                              *)

LEMMA CellsAreFinite == \A S \in SUBSET Grid : IsFiniteSet(S) /\ Cardinality(S) \in Nat
<1>1. IsFiniteSet(1..Rows) /\ IsFiniteSet(1..Columns)
  BY GridAssumption, FS_Interval
<1>2. IsFiniteSet(Grid)
  BY <1>1, FS_Product DEF Grid
<1> QED BY <1>2, FS_Subset, FS_CardinalityType

\* Of the cells above a threshold in one run, those that are so in the other one and those
\* that are not.
LEMMA CellsSplit ==
    ASSUME NEW S \in SUBSET Grid, NEW T \in SUBSET Grid
    PROVE  Cardinality(T) = Cardinality(S) - Cardinality(S \ T) + Cardinality(T \ S)
<1>1. /\ Cardinality(S \ T) = Cardinality(S) - Cardinality(S \cap T)
      /\ Cardinality(T \ S) = Cardinality(T) - Cardinality(T \cap S)
  BY CellsAreFinite, FS_Difference
<1>2. S \cap T = T \cap S /\ S \cap T \in SUBSET Grid
  OBVIOUS
<1>3. Cardinality(S) \in Nat /\ Cardinality(T) \in Nat /\ Cardinality(S \cap T) \in Nat
  BY <1>2, CellsAreFinite
<1>4. Cardinality(T \cap S) = Cardinality(S \cap T)
  BY <1>2
<1> QED BY <1>1, <1>3, <1>4

LEMMA ImpactsBalanceFor ==
    ASSUME NEW b \in PetFields, NEW i \in PetFields, NEW t \in Int
    PROVE  Impact(b, i, t).above_intervention =
               Impact(b, i, t).above_baseline - Impact(b, i, t).improved
                   + Impact(b, i, t).worsened
<1> DEFINE both == Compared(b, i)
           S == {c \in both : b[c] > t}
           T == {c \in both : i[c] > t}
           down == {c \in both : b[c] > t /\ i[c] <= t}
           up == {c \in both : b[c] <= t /\ i[c] > t}
           impact == Impact(b, i, t)
<1>1. \A c \in both : b[c] \in Int /\ i[c] \in Int /\ c \in Grid
  BY PetAssumption DEF Compared, HasValue
<1>2. /\ impact.above_baseline = Cardinality(S) /\ impact.above_intervention = Cardinality(T)
      /\ impact.improved = Cardinality(down) /\ impact.worsened = Cardinality(up)
  BY DEF Impact, Quantify
<1> HIDE DEF both, impact
<1>3. S \in SUBSET Grid /\ T \in SUBSET Grid /\ down = S \ T /\ up = T \ S
  BY <1>1
<1> HIDE DEF S, T, down, up
<1>4. Cardinality(T) = Cardinality(S) - Cardinality(S \ T) + Cardinality(T \ S)
  BY <1>3, CellsSplit
<1>5. impact.above_intervention = impact.above_baseline - impact.improved + impact.worsened
  BY <1>2, <1>3, <1>4
<1> QED BY <1>5 DEF impact

-----------------------------------------------------------------------------
(* The classes: cells above a threshold are in those above it.             *)

\* The floors rise along the classes.
LEMMA FloorsRise ==
    ASSUME NEW j \in DOMAIN BandFloors, NEW k \in DOMAIN BandFloors, j <= k
    PROVE  BandFloors[j] <= BandFloors[k]
<1> DEFINE n == Len(BandFloors)
           Above == {m \in Nat : j + m <= n => BandFloors[j] <= BandFloors[j + m]}
<1>1. n \in Nat /\ DOMAIN BandFloors = 1..n /\ \A l \in 1..n : BandFloors[l] \in Int
  BY BandsAssumption
<1>2. 0 \in Above
  BY <1>1
<1>3. ASSUME NEW m \in Above PROVE m + 1 \in Above
  <2> SUFFICES ASSUME j + (m + 1) <= n PROVE BandFloors[j] <= BandFloors[j + (m + 1)]
    OBVIOUS
  <2> DEFINE l == j + m
  <2>1. l \in 1..(n - 1) /\ l \in 1..n /\ l + 1 \in 1..n /\ j + (m + 1) = l + 1 /\ l <= n
    BY <1>1
  <2>2. BandFloors[l] < BandFloors[l + 1]
    BY <2>1, BandsAssumption
  <2>3. BandFloors[j] <= BandFloors[l]
    BY <2>1
  <2> HIDE DEF l
  <2> QED BY <1>1, <2>1, <2>2, <2>3
<1>4. Above = Nat
  <2>1. Above \in SUBSET Nat
    OBVIOUS
  <2> HIDE DEF Above
  <2> QED BY <1>2, <1>3, <2>1, Painting!NumbersInduction
<1>5. k - j \in Above /\ j + (k - j) = k /\ k <= n
  BY <1>1, <1>4
<1> QED BY <1>5

\* The class of a value is the last whose floor it reaches, and 0 if it reaches none.
LEMMA ClassIsLast ==
    ASSUME NEW v \in Int
    PROVE  /\ Class(v) \in 0..Len(BandFloors)
           /\ \A k \in DOMAIN BandFloors : BandFloors[k] <= v <=> k <= Class(v)
<1> DEFINE n == Len(BandFloors)
           D == {k \in DOMAIN BandFloors : BandFloors[k] <= v}
<1>1. n \in Nat /\ DOMAIN BandFloors = 1..n /\ \A l \in 1..n : BandFloors[l] \in Int
  BY BandsAssumption
<1>2. Class(v) = Cardinality(D)
  BY DEF Class
<1>3. CASE D = {}
  <2>1. Class(v) = 0
    BY <1>2, <1>3, FS_EmptySet
  <2> QED BY <1>1, <1>3, <2>1
<1>4. CASE D # {}
  <2>1. D \in SUBSET Nat /\ IsFiniteSet(D)
    <3>1. IsFiniteSet(1..n) /\ D \in SUBSET (1..n) /\ 1..n \in SUBSET Nat
      BY <1>1, FS_Interval, SMTT(60)
    <3> HIDE DEF D
    <3> QED BY <3>1, FS_Subset
  <2>2. PICK m \in D : \A k \in D : k <= m
    <3>1. n \in Nat /\ D \in SUBSET (0..n)
      BY <1>1
    <3> HIDE DEF D, n
    <3> QED BY <1>4, <3>1, Painting!MaxIn
  <2>3. D = 1..m
    <3>1. \A k \in 1..m : k \in DOMAIN BandFloors /\ BandFloors[k] <= BandFloors[m]
      BY <1>1, FloorsRise
    <3>2. \A k \in 1..m : k \in D
      BY <1>1, <3>1
    <3>3. \A k \in D : k \in 1..m
      BY <1>1, <2>2
    <3> QED BY <3>2, <3>3
  <2>4. m \in 1..n /\ Cardinality(1..m) = m
    BY <1>1, FS_Interval
  <2>5. Class(v) = m
    BY <1>2, <2>3, <2>4
  <2>6. \A k \in DOMAIN BandFloors : BandFloors[k] <= v <=> k \in 1..m
    BY <2>3
  <2> HIDE DEF D
  <2> QED BY <1>1, <2>4, <2>5, <2>6
<1> QED BY <1>3, <1>4

\* What the classes from a threshold upwards count.
LEMMA HotCellsCount ==
    ASSUME NEW f \in PetFields, NEW t \in PetThresholds
    PROVE  SumFunctionOnSet(ClassCounts(f), {k \in DOMAIN BandFloors : BandFloors[k] >= t})
               = Cardinality({c \in HasValue(f) : f[c] >= t})
<1> DEFINE n == Len(BandFloors)
           K == {k \in DOMAIN BandFloors : BandFloors[k] >= t}
           C == HasValue(f)
           kind == [c \in C |-> Class(f[c])]
           counts == ClassCounts(f)
<1>1. n \in Nat /\ DOMAIN BandFloors = 1..n /\ \A l \in 1..n : BandFloors[l] \in Int
  BY BandsAssumption
<1>2. PICK m \in 1..n : t = BandFloors[m]
  BY <1>1, BandsAssumption DEF ToSet
<1>3. C \in SUBSET Grid /\ \A c \in C : f[c] \in Int
  BY PetAssumption DEF HasValue
<1>4. IsFiniteSet(C)
  BY <1>3, CellsAreFinite
<1>5. IsFiniteSet(K) /\ K \in SUBSET (0..n)
  <2>1. IsFiniteSet(0..n) /\ K \in SUBSET (0..n)
    BY <1>1, FS_Interval
  <2> HIDE DEF K
  <2> QED BY <2>1, FS_Subset
<1>6. \A k \in K : counts[k] = Cardinality(Kin(C, kind, {k}))
  <2> SUFFICES ASSUME NEW k \in K
               PROVE  counts[k] = Cardinality(Kin(C, kind, {k}))
    OBVIOUS
  <2>1. counts[k] = Cardinality({c \in C : Class(f[c]) = k})
    BY <1>5 DEF ClassCounts, Quantify
  <2>2. {c \in C : Class(f[c]) = k} = Kin(C, kind, {k})
    BY DEF Kin
  <2> QED BY <2>1, <2>2
<1>7. SumFunctionOnSet(counts, K) = Cardinality(Kin(C, kind, K))
  <2> HIDE DEF counts, kind, K, C
  <2> QED BY <1>4, <1>5, <1>6, SumOfKinds
<1>8. ASSUME NEW c \in C PROVE kind[c] \in K <=> f[c] >= t
  <2> DEFINE v == f[c]
             class == Class(v)
  <2>1. v \in Int /\ kind[c] = class
    BY <1>3
  <2>2. class \in 0..n /\ \A k \in 1..n : BandFloors[k] <= v <=> k <= class
    BY <1>1, <2>1, ClassIsLast
  <2>3. class \in K <=> class \in 1..n /\ BandFloors[class] >= t
    BY <1>1
  <2> HIDE DEF v, class, K, kind, C
  <2>4. ASSUME v >= t PROVE class \in 1..n /\ BandFloors[class] >= t
    <3>1. m <= class /\ class \in 1..n
      BY <1>1, <1>2, <2>2, <2>1, <2>4
    <3> QED BY <1>1, <1>2, <3>1, FloorsRise
  <2>5. ASSUME class \in 1..n, BandFloors[class] >= t PROVE v >= t
    <3>1. BandFloors[class] <= v /\ BandFloors[class] \in Int /\ t \in Int
      BY <1>1, <1>2, <2>2, <2>5
    <3> QED BY <2>1, <2>5, <3>1
  <2>6. kind[c] \in K <=> v >= t
    BY <2>1, <2>3, <2>4, <2>5
  <2> QED BY <2>6 DEF v
<1>9. Kin(C, kind, K) = {c \in C : f[c] >= t}
  BY <1>8 DEF Kin
<1> HIDE DEF kind
<1> QED BY <1>7, <1>9

\* Of one run: the cells above a threshold that both runs have, and the classes above it.
LEMMA FitsClasses ==
    ASSUME NEW f \in PetFields, NEW t \in PetThresholds, NEW both \in SUBSET HasValue(f)
    PROVE  LET above == Cardinality({c \in both : f[c] > t})
               hot == SumFunctionOnSet(ClassCounts(f),
                                       {k \in DOMAIN BandFloors : BandFloors[k] >= t})
           IN  /\ above <= hot
               /\ both = HasValue(f) /\ ~(\E c \in HasValue(f) : f[c] = t) => above = hot
<1> DEFINE C == HasValue(f)
           S == {c \in both : f[c] > t}
           T == {c \in C : f[c] >= t}
           hot == SumFunctionOnSet(ClassCounts(f),
                                   {k \in DOMAIN BandFloors : BandFloors[k] >= t})
<1>1. hot = Cardinality(T)
  BY HotCellsCount
<1>2. C \in SUBSET Grid /\ \A c \in C : f[c] \in Int
  BY PetAssumption DEF HasValue
<1>3. t \in Int
  BY BandsAssumption DEF ToSet
<1>4. T \in SUBSET Grid /\ S \in SUBSET T
  BY <1>2, <1>3
<1>5. both = C /\ ~(\E c \in C : f[c] = t) => S = T
  BY <1>2, <1>3
<1> HIDE DEF S, T, hot
<1>6. Cardinality(S) <= Cardinality(T)
  <2>1. IsFiniteSet(T)
    BY <1>4, CellsAreFinite
  <2> QED BY <1>4, <2>1, FS_Subset
<1> QED BY <1>1, <1>5, <1>6 DEF S, T, hot

-----------------------------------------------------------------------------
(* The regions: which are listed, and what they cover.                     *)

\* Every cell is in one region.
LEMMA RegionsPartition ==
    \A c \in Grid : /\ \E q \in DOMAIN Quadrants : c \in Region(q)
                    /\ \A q, r \in DOMAIN Quadrants :
                          c \in Region(q) /\ c \in Region(r) => q = r
<1> SUFFICES ASSUME NEW c \in Grid
             PROVE  /\ \E q \in DOMAIN Quadrants : c \in Region(q)
                    /\ \A q, r \in DOMAIN Quadrants :
                          c \in Region(q) /\ c \in Region(r) => q = r
  OBVIOUS
<1> DEFINE north == c[1] > Rows \div 2
           east  == c[2] > Columns \div 2
<1>1. DOMAIN Quadrants = 1..4
  BY DEF Quadrants
<1>2. /\ c \in Region(1) <=> north /\ ~east
      /\ c \in Region(2) <=> north /\ east
      /\ c \in Region(3) <=> ~north /\ ~east
      /\ c \in Region(4) <=> ~north /\ east
  BY DEF Region, Quadrants
<1> HIDE DEF north, east
<1>3. \A q \in 1..4 : q = 1 \/ q = 2 \/ q = 3 \/ q = 4
  OBVIOUS
<1> QED BY <1>1, <1>2, <1>3

\* Not below is transitive among ratios with positive denominators.
LEMMA RatiosOrdered ==
    ASSUME NEW x \in Int, NEW y \in Int, NEW z \in Int,
           NEW k \in Nat \ {0}, NEW l \in Nat \ {0}, NEW m \in Nat \ {0},
           x * l >= y * k, y * m >= z * l
    PROVE  x * m >= z * k
<1>1. \A p, q \in Int, n \in Nat : p >= q => p * n >= q * n
  BY SMTT(30)
<1>2. \A p, q \in Int, n \in Nat \ {0} : p < q => p * n < q * n
  BY SMTT(30)
<1>3. (x * l) * m >= (y * k) * m /\ (y * m) * k >= (z * l) * k
  BY <1>1
<1>4. /\ (x * l) * m = (x * m) * l /\ (y * k) * m = (y * m) * k /\ (z * l) * k = (z * k) * l
      /\ x * m \in Int /\ z * k \in Int /\ (x * m) * l \in Int /\ (z * k) * l \in Int
      /\ (y * m) * k \in Int
  BY SMTT(30)
<1>5. ~((x * m) * l < (z * k) * l)
  BY <1>3, <1>4
<1> QED BY <1>2, <1>4, <1>5

\* What the ranking is made of: integers, and areas that are not empty.
LEMMA RegionTypes ==
    ASSUME NEW b \in PetFields, NEW i \in PetFields, NEW q \in Regions(b, i)
    PROVE  Total(b, i, q) \in Int /\ Area(b, i, q) \in Nat \ {0}
<1> DEFINE X == Region(q) \cap Compared(b, i)
           f == [c \in X |-> Delta(b, i, c)]
<1>1. X \in SUBSET Grid /\ \A c \in X : b[c] \in Int /\ i[c] \in Int
  BY PetAssumption DEF Compared, HasValue
<1>2. X # {}
  BY DEF Regions
<1>3. \A c \in X : f[c] \in Int
  BY <1>1 DEF Delta
<1>4. Total(b, i, q) = SumFunctionOnSet(f, X)
  BY DEF Total, SumFunction
<1>5. Area(b, i, q) = Cardinality(X)
  BY DEF Area
<1> HIDE DEF X, f
<1>6. IsFiniteSet(X) /\ Cardinality(X) \in Nat
  BY <1>1, CellsAreFinite
<1>7. Cardinality(X) # 0
  BY <1>2, <1>6, FS_EmptySet
<1>8. SumFunctionOnSet(f, X) \in Int
  BY <1>3, <1>6, SumOfIntegers
<1> QED BY <1>4, <1>5, <1>6, <1>7, <1>8

LEMMA CoolerOrders ==
    ASSUME NEW b \in PetFields, NEW i \in PetFields
    PROVE  /\ \A q, r \in Regions(b, i) : Cooler(b, i, q, r) => ~Cooler(b, i, r, q)
           /\ \A q, r, s \in Regions(b, i) :
                 ~Cooler(b, i, q, r) /\ ~Cooler(b, i, r, s) => ~Cooler(b, i, q, s)
<1>1. ASSUME NEW q \in Regions(b, i), NEW r \in Regions(b, i)
      PROVE  Cooler(b, i, q, r) => ~Cooler(b, i, r, q)
  <2> DEFINE u == Total(b, i, q) * Area(b, i, r)
             v == Total(b, i, r) * Area(b, i, q)
  <2>1. u \in Int /\ v \in Int
    BY RegionTypes
  <2>2. (Cooler(b, i, q, r) <=> u < v) /\ (Cooler(b, i, r, q) <=> v < u)
    BY DEF Cooler
  <2> HIDE DEF u, v
  <2> QED BY <2>1, <2>2
<1>2. ASSUME NEW q \in Regions(b, i), NEW r \in Regions(b, i), NEW s \in Regions(b, i),
             ~Cooler(b, i, q, r), ~Cooler(b, i, r, s)
      PROVE  ~Cooler(b, i, q, s)
  <2> DEFINE x == Total(b, i, q)
             y == Total(b, i, r)
             z == Total(b, i, s)
             k == Area(b, i, q)
             l == Area(b, i, r)
             m == Area(b, i, s)
  <2>1. /\ x \in Int /\ y \in Int /\ z \in Int
        /\ k \in Nat \ {0} /\ l \in Nat \ {0} /\ m \in Nat \ {0}
    BY RegionTypes
  <2>2. ~(x * l < y * k) /\ ~(y * m < z * l) /\ (Cooler(b, i, q, s) <=> x * m < z * k)
    BY <1>2 DEF Cooler
  <2> HIDE DEF x, y, z, k, l, m
  <2>3. x * l >= y * k /\ y * m >= z * l
    BY <2>1, <2>2
  <2>4. x * m >= z * k
    BY <2>1, <2>3, RatiosOrdered
  <2>5. x * m \in Int /\ z * k \in Int
    BY <2>1
  <2> QED BY <2>2, <2>4, <2>5
<1> QED BY <1>1, <1>2

LEMMA RegionsAreFinite ==
    ASSUME NEW b, NEW i
    PROVE  /\ IsFiniteSet(Regions(b, i)) /\ Regions(b, i) \subseteq Nat
           /\ \A q : IsFiniteSet(Before(b, i, q)) /\ Cardinality(Before(b, i, q)) \in Nat
<1>1. DOMAIN Quadrants = 1..4 /\ IsFiniteSet(1..4) /\ 1..4 \subseteq Nat
  <2>1. DOMAIN Quadrants = 1..4
    BY DEF Quadrants
  <2>2. \A n \in Nat : IsFiniteSet(1..n)
    BY FS_Interval
  <2>3. IsFiniteSet(1..4)
    BY <2>2
  <2>4. 1..4 \subseteq Nat
    OBVIOUS
  <2> QED BY <2>1, <2>3, <2>4
<1>2. Regions(b, i) \in SUBSET (1..4)
  BY <1>1 DEF Regions
<1>3. IsFiniteSet(Regions(b, i))
  BY <1>1, <1>2, FS_Subset
<1>4. \A q : Before(b, i, q) \in SUBSET Regions(b, i)
  BY DEF Before
<1> QED BY <1>1, <1>2, <1>3, <1>4, FS_Subset, FS_CardinalityType

\* A region that comes before another one has fewer before it.
LEMMA RankRises ==
    ASSUME NEW b \in PetFields, NEW i \in PetFields,
           NEW q \in Regions(b, i), NEW r \in Before(b, i, q)
    PROVE  Cardinality(Before(b, i, r)) < Cardinality(Before(b, i, q))
<1> DEFINE R == Regions(b, i)
           Cool(u, v) == Cooler(b, i, u, v)
<1>1. R \subseteq Nat
  BY RegionsAreFinite
<1>2. q \in R /\ r \in R /\ (Cool(r, q) \/ (~Cool(q, r) /\ r < q))
  BY DEF Before
<1>3. /\ \A u, v \in R : Cool(u, v) => ~Cool(v, u)
      /\ \A u, v, w \in R : ~Cool(u, v) /\ ~Cool(v, w) => ~Cool(u, w)
  BY CoolerOrders
<1>4. \A s \in R : s \in Before(b, i, r) <=> Cool(s, r) \/ (~Cool(r, s) /\ s < r)
  BY DEF Before
<1>5. \A s \in R : s \in Before(b, i, q) <=> Cool(s, q) \/ (~Cool(q, s) /\ s < q)
  BY DEF Before
<1>6. Before(b, i, r) \subseteq R
  BY DEF Before
<1>7. ASSUME NEW s \in Before(b, i, r) PROVE s \in Before(b, i, q)
  <2> HIDE DEF R, Cool
  <2>1. s \in R /\ (Cool(s, r) \/ (~Cool(r, s) /\ s < r))
    BY <1>4, <1>6
  <2>2. ~Cool(r, s) /\ ~Cool(q, r)
    BY <1>2, <1>3, <2>1
  <2>3. ~Cool(q, s)
    BY <1>2, <1>3, <2>1, <2>2
  <2>4. ASSUME ~Cool(s, q) PROVE s < q
    <3>1. ~Cool(s, r) /\ ~Cool(r, q)
      BY <1>2, <1>3, <2>1, <2>2, <2>4
    <3>2. s < r /\ r < q /\ s \in Nat /\ r \in Nat /\ q \in Nat
      BY <1>1, <1>2, <2>1, <3>1 DEF R
    <3> QED BY <3>2
  <2> QED BY <1>5, <2>1, <2>3, <2>4
<1>8. r \notin Before(b, i, r)
  BY <1>1, <1>2, <1>3, <1>4
<1>9. Before(b, i, r) \in SUBSET Before(b, i, q) /\ Before(b, i, r) # Before(b, i, q)
  BY <1>7, <1>8
<1>10. /\ Cardinality(Before(b, i, r)) <= Cardinality(Before(b, i, q))
       /\ Cardinality(Before(b, i, r)) # Cardinality(Before(b, i, q))
  BY <1>9, RegionsAreFinite, FS_Subset
<1> QED BY <1>10, RegionsAreFinite

\* The list has the regions with fewest before them, and every one of these.
LEMMA RankedAreFirst ==
    ASSUME NEW b \in PetFields, NEW i \in PetFields, NEW q \in Regions(b, i)
    PROVE  /\ q \in ToSet(RankedImprovements(b, i)) <=> Cardinality(Before(b, i, q)) < 3
           /\ ToSet(RankedImprovements(b, i)) \subseteq Regions(b, i)
<1> DEFINE R == Regions(b, i)
           n == Cardinality(R)
           length == Min({3, n})
           list == RankedImprovements(b, i)
           rank == [r \in R |-> Cardinality(Before(b, i, r))]
<1>1. IsFiniteSet(R) /\ n \in Nat /\ R \subseteq Nat
  BY RegionsAreFinite, FS_CardinalityType
<1>2. ASSUME NEW r \in R PROVE rank[r] \in 0..(n - 1)
  <2> DEFINE B == Before(b, i, r)
  <2>1. r \notin B
    <3>1. r \in Nat
      BY <1>1
    <3>2. Cooler(b, i, r, r) => ~Cooler(b, i, r, r)
      BY CoolerOrders
    <3> QED BY <3>1, <3>2 DEF Before
  <2>2. B \in SUBSET (R \ {r})
    BY <2>1 DEF Before
  <2>3. Cardinality(R \ {r}) = n - 1 /\ IsFiniteSet(R \ {r})
    BY <1>1, FS_RemoveElement
  <2>4. Cardinality(B) \in Nat
    BY RegionsAreFinite
  <2> HIDE DEF B, R, n
  <2>5. Cardinality(B) <= n - 1
    BY <2>2, <2>3, FS_Subset
  <2> QED BY <1>1, <2>4, <2>5 DEF B
<1>3. ASSUME NEW r \in R, NEW s \in R, rank[r] = rank[s] PROVE r = s
  <2>1. r \in Before(b, i, s) \/ s \in Before(b, i, r) \/ r = s
    <3>1. r \in Nat /\ s \in Nat
      BY <1>1
    <3>2. r < s \/ s < r \/ r = s
      BY <3>1
    <3> QED BY <3>2 DEF Before
  <2>2. rank[r] \in Int /\ rank[s] \in Int
    BY <1>2
  <2>3. r \in Before(b, i, s) => rank[r] < rank[s]
    BY RankRises
  <2>4. s \in Before(b, i, r) => rank[s] < rank[r]
    BY RankRises
  <2> HIDE DEF rank
  <2> QED BY <1>3, <2>1, <2>2, <2>3, <2>4
<1>4. ASSUME NEW k \in 0..(n - 1) PROVE \E r \in R : rank[r] = k
  <2>1. rank \in [R -> 0..(n - 1)]
    BY <1>2
  <2> HIDE DEF rank, R, n
  <2>2. rank \in Injection(R, 0..(n - 1))
    BY <1>3, <2>1 DEF Injection, IsInjective
  <2>3. IsFiniteSet(0..(n - 1)) /\ Cardinality(0..(n - 1)) = n
    BY <1>1, FS_Interval
  <2>4. rank \in Surjection(R, 0..(n - 1))
    <3>1. Cardinality(R) = Cardinality(0..(n - 1))
      BY <2>3 DEF n
    <3> QED BY <2>2, <2>3, <3>1, FS_Injection
  <2> QED BY <2>4 DEF Surjection
<1>5. length \in Nat /\ length <= n /\ length <= 3 /\ (length = 3 \/ length = n)
  BY <1>1 DEF Min
<1>6. DOMAIN list = 1..length /\ \A k \in 1..length :
          list[k] = CHOOSE r \in R : rank[r] = k - 1
  BY DEF RankedImprovements
<1>7. ToSet(list) = {list[k] : k \in 1..length}
  BY <1>6 DEF ToSet
<1>8. \A k \in 1..length : list[k] \in R /\ rank[list[k]] = k - 1
  <2> SUFFICES ASSUME NEW k \in 1..length PROVE list[k] \in R /\ rank[list[k]] = k - 1
    OBVIOUS
  <2>1. k - 1 \in 0..(n - 1)
    BY <1>1, <1>5
  <2>2. \E r \in R : rank[r] = k - 1
    BY <1>4, <2>1
  <2> HIDE DEF rank, R, list, length
  <2> QED BY <1>6, <2>2
<1>9. ASSUME q \in ToSet(list) PROVE rank[q] < 3
  <2> HIDE DEF rank, R, list, length
  <2> QED BY <1>5, <1>7, <1>8, <1>9
<1>10. ASSUME rank[q] < 3 PROVE q \in ToSet(list)
  <2> DEFINE k == rank[q] + 1
  <2>1. q \in R /\ rank[q] \in 0..(n - 1)
    BY <1>2
  <2> HIDE DEF rank, R, list, length
  <2>2. k \in 1..length /\ k - 1 = rank[q]
    BY <1>1, <1>5, <1>10, <2>1
  <2>3. list[k] \in R /\ rank[list[k]] = rank[q]
    BY <1>8, <2>2
  <2>4. list[k] = q
    BY <1>3, <2>1, <2>3
  <2> QED BY <1>7, <2>2, <2>4
<1>11. rank[q] = Cardinality(Before(b, i, q))
  OBVIOUS
<1>12. ToSet(list) \subseteq R
  <2> HIDE DEF rank, R, list, length
  <2> QED BY <1>7, <1>8
<1> HIDE DEF rank, list
<1>13. q \in ToSet(list) <=> Cardinality(Before(b, i, q)) < 3
  BY <1>9, <1>10, <1>11
<1> QED BY <1>12, <1>13 DEF list

LEMMA RankedAreCoolest ==
    ASSUME NEW b \in PetFields, NEW i \in PetFields,
           NEW q \in Regions(b, i) \ ToSet(RankedImprovements(b, i)),
           NEW r \in ToSet(RankedImprovements(b, i))
    PROVE  ~Cooler(b, i, q, r)
<1>0. r \in Regions(b, i)
  BY RankedAreFirst
<1>1. /\ Cardinality(Before(b, i, r)) \in Nat /\ Cardinality(Before(b, i, q)) \in Nat
      /\ Cardinality(Before(b, i, r)) < 3 /\ ~(Cardinality(Before(b, i, q)) < 3)
  BY <1>0, RankedAreFirst, RegionsAreFinite
<1>2. q \notin Before(b, i, r)
  BY <1>0, <1>1, RankRises
<1> QED BY <1>0, <1>2 DEF Before

\* The areas of the regions make up what was compared.
LEMMA AreasAddUp ==
    ASSUME NEW b, NEW i
    PROVE  SumFunction([q \in Regions(b, i) |-> Area(b, i, q)]) = Cardinality(Compared(b, i))
<1> DEFINE C == Compared(b, i)
           R == Regions(b, i)
           kind == [c \in C |-> CHOOSE q \in DOMAIN Quadrants : c \in Region(q)]
           area == [q \in R |-> Area(b, i, q)]
<1>1. C \in SUBSET Grid
  BY DEF Compared, HasValue
<1>2. \A c \in C : kind[c] \in DOMAIN Quadrants /\ c \in Region(kind[c])
  BY <1>1, RegionsPartition
<1>3. \A c \in C : \A q \in DOMAIN Quadrants : c \in Region(q) <=> kind[c] = q
  BY <1>1, <1>2, RegionsPartition
<1>4. R \subseteq DOMAIN Quadrants
  BY DEF Regions
<1>5. \A c \in C : kind[c] \in R
  BY <1>2 DEF Regions
<1>6. IsFiniteSet(C) /\ IsFiniteSet(R)
  BY <1>1, CellsAreFinite, RegionsAreFinite
<1>7. \A q \in R : area[q] = Cardinality(Kin(C, kind, {q}))
  <2> SUFFICES ASSUME NEW q \in R PROVE area[q] = Cardinality(Kin(C, kind, {q}))
    OBVIOUS
  <2> HIDE DEF kind
  <2>1. Region(q) \cap C = Kin(C, kind, {q})
    <3>1. \A c \in C : c \in Region(q) <=> kind[c] = q
      BY <1>3, <1>4
    <3> QED BY <3>1 DEF Kin
  <2>2. area[q] = Cardinality(Region(q) \cap C)
    BY DEF Area
  <2> QED BY <2>1, <2>2
<1>8. Kin(C, kind, R) = C
  BY <1>5 DEF Kin
<1>9. SumFunction(area) = SumFunctionOnSet(area, R)
  BY DEF SumFunction
<1> HIDE DEF C, R, kind, area
<1>10. SumFunctionOnSet(area, R) = Cardinality(Kin(C, kind, R))
  BY <1>6, <1>7, SumOfKinds
<1>11. SumFunction(area) = Cardinality(C)
  BY <1>8, <1>9, <1>10
<1> QED BY <1>11 DEF C, R, area

-----------------------------------------------------------------------------
(* What is stored.                                                         *)

\* The numbers of the two fields agree, whatever the fields are.
LEMMA NumbersAgree ==
    ASSUME pet \in [Side -> PetFields], analysis = Analysis(pet.baseline, pet.intervention)
    PROVE  ImpactsBalance /\ ImpactsFitClasses /\ RegionsAreBest
<1> DEFINE b == pet.baseline
           i == pet.intervention
<1>1. b \in PetFields /\ i \in PetFields
  BY DEF Side
<1>2. /\ analysis.classes = [side \in Side |-> ClassCounts(IF side = "baseline" THEN b ELSE i)]
      /\ analysis.delta = DeltaStatistics(b, i)
      /\ analysis.impacts = [t \in PetThresholds |-> Impact(b, i, t)]
      /\ analysis.ranked = RankedImprovements(b, i)
  BY DEF Analysis
<1>3. PetThresholds \subseteq Int
  BY BandsAssumption DEF ToSet
<1>4. ImpactsBalance
  BY <1>1, <1>2, <1>3, ImpactsBalanceFor DEF ImpactsBalance
<1>5. ASSUME NEW side \in Side, NEW t \in PetThresholds
      PROVE  LET above == IF side = "baseline" THEN analysis.impacts[t].above_baseline
                          ELSE analysis.impacts[t].above_intervention
                 all   == Compared(pet.baseline, pet.intervention) = HasValue(pet[side])
                 at    == \E c \in HasValue(pet[side]) : pet[side][c] = t
             IN  /\ above <= HotCells(side, t)
                 /\ all /\ ~at => above = HotCells(side, t)
  <2> DEFINE f == pet[side]
             both == Compared(b, i)
             above == IF side = "baseline" THEN analysis.impacts[t].above_baseline
                      ELSE analysis.impacts[t].above_intervention
  <2>1. f \in PetFields /\ both \in SUBSET HasValue(f) /\ f = IF side = "baseline" THEN b ELSE i
    BY <1>1 DEF Side, Compared
  <2>2. above = Cardinality({c \in both : f[c] > t})
    BY <1>2, <2>1, SMTT(60) DEF Impact, Quantify
  <2>3. HotCells(side, t) =
            SumFunctionOnSet(ClassCounts(f), {k \in DOMAIN BandFloors : BandFloors[k] >= t})
    BY <1>2, <2>1 DEF HotCells
  <2> HIDE DEF f, above, both
  <2>4. /\ above <= HotCells(side, t)
        /\ both = HasValue(f) /\ ~(\E c \in HasValue(f) : f[c] = t) => above = HotCells(side, t)
    BY <2>1, <2>2, <2>3, FitsClasses
  <2> QED BY <2>4 DEF f, above, both
<1>6. ImpactsFitClasses
  BY <1>5 DEF ImpactsFitClasses
<1>7. RegionsAreBest
  <2> DEFINE listed == ToSet(analysis.ranked)
  <2>1. ASSUME NEW q \in Regions(b, i) \ listed, NEW r \in listed PROVE ~Cooler(b, i, q, r)
    BY <1>1, <1>2, RankedAreCoolest
  <2>2. SumFunction([q \in Regions(b, i) |-> Area(b, i, q)]) = analysis.delta.n_valid
    BY <1>2, AreasAddUp DEF DeltaStatistics
  <2> QED BY <2>1, <2>2 DEF RegionsAreBest
<1> QED BY <1>4, <1>6, <1>7

-----------------------------------------------------------------------------
(* The theorems.                                                           *)

LEMMA SpineInvariant == Spec => []SpineInv
<1>1. SpineInv /\ [Next]_vars => SpineInv'
  <2> SUFFICES ASSUME SpineInv, [Next]_vars PROVE SpineInv'
    OBVIOUS
  <2>1. CASE UNCHANGED vars
    BY <2>1 DEF vars, SpineInv, TypeOK, RequestInv, StageInv, TrustInv, OnGrid, Rated,
                IsComparison, Sides, DeltasCoverEveryField, CommonFields, ConfidenceIsWeakest
  <2>2. CASE Next
    BY <2>2, BeginKeeps, ValidateComparisonKeeps, ValidateKeeps, TranslateKeeps, RunKeeps,
       ReportKeeps, CompareKeeps, SerializeKeeps, RaiseKeeps DEF Next
  <2> QED BY <2>1, <2>2
<1> QED BY SpineInit, <1>1, PTL DEF Spec

\* Types hold whatever the scenarios, the cells and the number of retries.
THEOREM SpineTypeCorrect == Spec => []TypeOK
<1>1. SpineInv => TypeOK
  BY DEF SpineInv
<1> QED BY SpineInvariant, <1>1, PTL

\* No comparison that _serialize_comparison_result stores misses a field.
THEOREM ComparisonsCoverEveryField == Spec => []DeltasCoverEveryField
<1>1. SpineInv => DeltasCoverEveryField
  BY DEF SpineInv
<1> QED BY SpineInvariant, <1>1, PTL

\* No completed job claims more than its weakest source.
THEOREM ConfidencesAreWeakest == Spec => []ConfidenceIsWeakest
<1>1. SpineInv => ConfidenceIsWeakest
  BY DEF SpineInv
<1> QED BY SpineInvariant, <1>1, PTL
LEMMA OutcomeKept == SpineInv /\ OutcomeInv /\ [Next]_vars => OutcomeInv'
<1> SUFFICES ASSUME SpineInv, OutcomeInv, [Next]_vars PROVE OutcomeInv'
  OBVIOUS
<1>1. CASE UNCHANGED vars
  BY <1>1 DEF vars, OutcomeInv, Outcome, Fit, ResultIsAllOrNothing, CommonFields, IsComparison
<1>2. CASE Next
  BY <1>2, EarlyStagesKeepOutcome, ValidateKeepsOutcome, RunKeepsOutcome, ReportKeepsOutcome,
     CompareKeepsOutcome, LastStagesKeepOutcome DEF Next
<1> QED BY <1>1, <1>2

\* A completed job shows everything or nothing, whatever stage of whatever attempt failed.
THEOREM ResultsAreAllOrNothing == Spec => []ResultIsAllOrNothing
<1>1. Spec => []OutcomeInv
  BY OutcomeInit, OutcomeKept, SpineInvariant, PTL DEF Spec
<1>2. OutcomeInv => ResultIsAllOrNothing
  BY DEF OutcomeInv
<1> QED BY <1>1, <1>2, PTL

\* PALM is given the last change that covers a cell, however many cover it.
THEOREM LastChangesCover == Spec => []LastChangeCovers
<1>1. Spec => []DriverInv
  BY DriverInit, DriverKept, SpineInvariant, PTL DEF Spec
<1> QED BY <1>1, DriversShowLastChanges, PTL

\* The pipeline with its numbers is the pipeline, so that what is proved of the one
\* holds of the other.
THEOREM ComparisonImplementsSpine == ComparisonSpec => Spec
<1>1. ComparisonInit => Init
  BY DEF ComparisonInit
<1>2. [ComparisonNext]_comparisonVars => [Next]_vars
  BY DEF ComparisonNext, comparisonVars, Next, Starting, Running, Comparing, Raising, Other
<1> QED BY <1>1, <1>2, PTL DEF ComparisonSpec, Spec

\* What the numbers are made of: an attempt's fields come with its outputs, and what is
\* stored is of the two fields that are there.
NumbersInv ==
    /\ pet \in [Side -> PetFields \cup {Fill}]
    /\ pc # Idle => \A side \in Side : result[side].shape # Fill => pet[side] \in PetFields
    /\ pc # Idle /\ pc.step # "serialize" => ~comparison.report
    /\ analysis # Fill =>
          /\ pc = At("serialize", Fill) \/ (pc = Idle /\ status = "completed")
          /\ pet \in [Side -> PetFields]
          /\ analysis = Analysis(pet.baseline, pet.intervention)

LEMMA NumbersInit == ComparisonInit => NumbersInv
BY DEF ComparisonInit, Init, NumbersInv, NoField, Idle

LEMMA StartingKeepsNumbers ==
    ASSUME NumbersInv, NEW b \in Scenarios, NEW i \in Scenarios \cup {Fill},
           Starting(b, i)
    PROVE  NumbersInv'
<1>1. /\ pet' = pet /\ analysis' = analysis /\ status = "queued" /\ pc = Idle
      /\ result' = [side \in Side |-> NoResult] /\ comparison' = NoComparison
  BY DEF Starting, Begin, numbers
<1>2. analysis = Fill
  BY <1>1 DEF NumbersInv, At, Idle
<1> QED BY <1>1, <1>2 DEF NumbersInv, NoResult, NoComparison

LEMMA RunningKeepsNumbers ==
    ASSUME SpineInv, NumbersInv, NEW side \in Side, Running(side)
    PROVE  NumbersInv'
<1>1. /\ pc = At("run", side) /\ pc' = At("report", side) /\ comparison' = comparison
      /\ analysis' = analysis
      /\ \E values \in Masks :
            result' = [result EXCEPT ![side].shape = driver[side].shape, ![side].values = values]
  BY DEF Running, Run
<1>2. PICK f \in PetFields : pet' = [pet EXCEPT ![side] = f]
  BY DEF Running
<1>3. analysis = Fill
  BY <1>1 DEF NumbersInv, At, Idle
<1>4. pet' \in [Side -> PetFields \cup {Fill}]
  BY <1>2 DEF NumbersInv
<1>5. ASSUME NEW s \in Side, result'[s].shape # Fill PROVE pet'[s] \in PetFields
  <2>1. CASE s = side
    BY <1>2, <2>1 DEF NumbersInv
  <2>2. CASE s # side
    <3>1. result'[s] = result[s] /\ pet'[s] = pet[s]
      BY <1>1, <1>2, <2>2 DEF NumbersInv, SpineInv, TypeOK
    <3>2. pc # Idle
      BY <1>1 DEF At, Idle
    <3> QED BY <1>5, <3>1, <3>2 DEF NumbersInv
  <2> QED BY <2>1, <2>2
<1>6. ~comparison'.report
  BY <1>1 DEF NumbersInv, At, Idle
<1> QED BY <1>1, <1>3, <1>4, <1>5, <1>6 DEF NumbersInv

LEMMA ComparingKeepsNumbers ==
    ASSUME SpineInv, NumbersInv, Comparing
    PROVE  NumbersInv'
<1>1. /\ pc = At("compare", Fill) /\ pc' = At("serialize", Fill) /\ pet' = pet
      /\ result' = result
  BY DEF Comparing, CompareSides
<1>2. pc # Idle /\ pc.step = "compare"
  BY <1>1 DEF At, Idle
<1>3. result.baseline.shape # Fill /\ result.intervention.shape # Fill
  <2>1. IsComparison /\ request.baseline \in Scenarios /\ request.intervention \in Scenarios
    BY <1>1, <1>2 DEF SpineInv, TypeOK, RequestInv, StageInv, IsComparison, Side
  <2>2. OnGrid("baseline") /\ OnGrid("intervention")
    BY <1>2 DEF SpineInv, StageInv
  <2> QED BY <2>1, <2>2, ValuesAreNoFill DEF OnGrid
<1>4. \A side \in Side : pet[side] \in PetFields
  BY <1>2, <1>3 DEF NumbersInv, Side
<1>5. pet \in [Side -> PetFields]
  BY <1>4 DEF NumbersInv
<1>6. analysis' = Fill \/ analysis' = Analysis(pet.baseline, pet.intervention)
  BY DEF Comparing
<1> QED BY <1>1, <1>4, <1>5, <1>6 DEF NumbersInv, At, Idle

LEMMA OtherKeepsNumbers ==
    ASSUME SpineInv, NumbersInv, Other
    PROVE  NumbersInv'
<1>1. pet' = pet /\ analysis' = analysis
  BY DEF Other, numbers
<1>2. CASE ValidateComparison
  <2>1. pc = At("validate", "both") /\ result' = result
    BY <1>2 DEF ValidateComparison
  <2>2. comparison'.report = comparison.report
    BY <1>2 DEF ValidateComparison, SpineInv, TypeOK
  <2>3. analysis = Fill /\ ~comparison.report
    BY <2>1 DEF NumbersInv, At, Idle
  <2> QED BY <1>1, <2>1, <2>2, <2>3 DEF NumbersInv, At, Idle
<1>3. CASE Serialize
  BY <1>1, <1>3 DEF NumbersInv, Serialize, At, Idle
<1>4. ASSUME NEW side \in Side, Validate(side) \/ Translate(side) \/ Report(side)
      PROVE  NumbersInv'
  <2>1. pc \in {At("validate", side), At("translate", side), At("report", side)}
    BY <1>4 DEF Validate, Translate, Report
  <2>2. comparison' = comparison
    BY <1>4 DEF Validate, Translate, Report
  <2>3. \A s \in Side : result'[s].shape = result[s].shape
    <3>1. CASE Validate(side)
      BY <3>1 DEF Validate, SpineInv, TypeOK
    <3>2. CASE Translate(side)
      BY <3>2 DEF Translate
    <3>3. CASE Report(side)
      BY <3>3 DEF Report, SpineInv, TypeOK
    <3> QED BY <1>4, <3>1, <3>2, <3>3
  <2>4. analysis = Fill /\ ~comparison.report /\ pc # Idle
    BY <2>1 DEF NumbersInv, At, Idle
  <2> QED BY <1>1, <2>2, <2>3, <2>4 DEF NumbersInv
<1> QED BY <1>2, <1>3, <1>4 DEF Other

LEMMA NumbersKept ==
    SpineInv /\ NumbersInv /\ [ComparisonNext]_comparisonVars => NumbersInv'
<1> SUFFICES ASSUME SpineInv, NumbersInv, [ComparisonNext]_comparisonVars PROVE NumbersInv'
  OBVIOUS
<1>1. CASE UNCHANGED comparisonVars
  BY <1>1 DEF comparisonVars, vars, local, numbers, NumbersInv
<1>2. CASE Raising
  BY <1>2 DEF Raising, Raise, NumbersInv, NoField
<1>3. CASE ComparisonNext
  BY <1>2, <1>3, StartingKeepsNumbers, RunningKeepsNumbers, ComparingKeepsNumbers,
     OtherKeepsNumbers DEF ComparisonNext
<1> QED BY <1>1, <1>3

\* What _find_improvement_regions, classify_pet and the threshold impacts say of two runs
\* never contradicts, for any grid, fields and thresholds that are ends of classes.
THEOREM AnalysesAddUp == ComparisonSpec => []AnalysisAddsUp
<1>1. ComparisonSpec => []SpineInv
  BY ComparisonImplementsSpine, SpineInvariant, PTL
<1>2. ComparisonSpec => []NumbersInv
  BY <1>1, NumbersInit, NumbersKept, PTL DEF ComparisonSpec
<1>3. NumbersInv => AnalysisAddsUp
  BY NumbersAgree DEF NumbersInv, AnalysisAddsUp
<1> QED BY <1>2, <1>3, PTL
=============================================================================
