------------------------ MODULE BuildingEditsProofs ------------------------
(***************************************************************************)
(* What the validator and the resolver of building edits have to do with   *)
(* each other, for every chain, and what the routes and the editor page    *)
(* keep of it.                                                             *)
(***************************************************************************)
EXTENDS EditorPage, FiniteSetTheorems, SequenceTheorems, TLAPS

Resolving  == INSTANCE FoldFacts WITH Op <- Applied
Validating == INSTANCE FoldFacts WITH Op <- Checked

\* An instance has its own finite sets, which are the same.
LEMMA SameSizes ==
    \A S : /\ Resolving!IsFiniteSet(S) <=> IsFiniteSet(S)
           /\ Resolving!Cardinality(S) = Cardinality(S)
BY DEF IsFiniteSet, Cardinality, Resolving!IsFiniteSet, Resolving!Cardinality

-----------------------------------------------------------------------------
(* The two replays of a chain, up to its i-th edit.                        *)

Built(scenario, i) == Resolved(Base(scenario), SubSeq(scenario.edits, 1, i))

Working(scenario, i) ==
    FoldLeft(Checked, Start(Base(scenario)), SubSeq(scenario.edits, 1, i))

LEMMA ResolvedFolds == \A base, edits : Resolved(base, edits) = Resolving!Fold(base, edits)
BY DEF Resolved, Resolving!Fold, FoldLeft, MapThenFoldSet, Resolving!FoldLeft, Resolving!MapThenFoldSet, Max, Resolving!Max

LEMMA CheckedFolds == \A w, edits : FoldLeft(Checked, w, edits) = Validating!Fold(w, edits)
BY DEF Validating!Fold, FoldLeft, MapThenFoldSet, Validating!FoldLeft, Validating!MapThenFoldSet, Max, Validating!Max

\* The resolver applies one edit after the other to the base.
LEMMA BuiltSteps ==
    ASSUME NEW scenario \in Scenarios, NEW i \in 0..Len(scenario.edits)
    PROVE  /\ i = 0 => Built(scenario, i) = Base(scenario)
           /\ i > 0 => Built(scenario, i) = Applied(Built(scenario, i - 1), scenario.edits[i])
           /\ i = Len(scenario.edits) => Built(scenario, i) = Resolve(scenario)
<1> DEFINE s == scenario.edits
           base == Base(scenario)
<1>1. s \in Seq(Edits)
  BY DEF Scenarios
<1> HIDE DEF s, base
<1>2. i \in 0..Len(s)
  BY DEF s
<1>3. /\ i = 0 => Resolving!Fold(base, SubSeq(s, 1, i)) = base
      /\ i > 0 => Resolving!Fold(base, SubSeq(s, 1, i)) =
                     Applied(Resolving!Fold(base, SubSeq(s, 1, i - 1)), s[i])
      /\ i = Len(s) => SubSeq(s, 1, i) = s
  BY <1>1, <1>2, Resolving!FoldOfPrefix
<1> QED BY <1>3, ResolvedFolds DEF Built, Resolve, s, base

\* So does the validator, from the footprints of the base.
LEMMA WorkingSteps ==
    ASSUME NEW scenario \in Scenarios, NEW i \in 0..Len(scenario.edits)
    PROVE  /\ i = 0 => Working(scenario, i) = Start(Base(scenario))
           /\ i > 0 => Working(scenario, i) =
                          Checked(Working(scenario, i - 1), scenario.edits[i])
           /\ i = Len(scenario.edits) => Working(scenario, i).valid = Valid(scenario)
<1> DEFINE s == scenario.edits
           base == Start(Base(scenario))
<1>1. s \in Seq(Edits)
  BY DEF Scenarios
<1> HIDE DEF s, base
<1>2. i \in 0..Len(s)
  BY DEF s
<1>3. /\ i = 0 => Validating!Fold(base, SubSeq(s, 1, i)) = base
      /\ i > 0 => Validating!Fold(base, SubSeq(s, 1, i)) =
                     Checked(Validating!Fold(base, SubSeq(s, 1, i - 1)), s[i])
      /\ i = Len(s) => SubSeq(s, 1, i) = s
  BY <1>1, <1>2, Validating!FoldOfPrefix
<1> HIDE DEF Checked
<1>4. Working(scenario, i) = Validating!Fold(base, SubSeq(s, 1, i))
      /\ Working(scenario, i - 1) = Validating!Fold(base, SubSeq(s, 1, i - 1))
      /\ Valid(scenario) = Validating!Fold(base, s).valid
  BY CheckedFolds DEF Working, Valid, Validated, s, base
<1> QED BY <1>3, <1>4 DEF s, base

-----------------------------------------------------------------------------
(* One edit, in both replays.                                              *)

LEMMA EditFields ==
    ASSUME NEW e \in Edits
    PROVE  /\ e.op \in {"add", "modify", "remove"} /\ e.id \in EditIds
           /\ e.op = "add" => IsShape(e.shape) /\ e.height.value \in Nat
           /\ e.op = "modify" => /\ e.shape = None \/ IsShape(e.shape)
                                 /\ e.height = None \/ e.height.value \in Nat
BY EditsAssumption DEF IsHeight

LEMMA Taken ==
    ASSUME NEW f, NEW x
    PROVE  /\ DOMAIN Without(f, x) = DOMAIN f \ {x}
           /\ Without(f, x) = [z \in DOMAIN Without(f, x) |-> Without(f, x)[z]]
           /\ \A z \in DOMAIN f \ {x} : Without(f, x)[z] = f[z]
BY DEF Without, Restrict

IsWorking(w) == w = [known |-> w.known, valid |-> w.valid] /\ w.valid \in BOOLEAN

\* The validator's state keeps its two fields, and what is wrong stays wrong.
LEMMA CheckedKeepsShape ==
    ASSUME NEW w, IsWorking(w), NEW e \in Edits
    PROVE  IsWorking(Checked(w, e)) /\ (Checked(w, e).valid => w.valid)
<1>1. CASE e.op = "add"
  BY <1>1 DEF IsWorking, Checked, CheckedAdd, Wrong
<1>2. CASE e.op = "modify"
  BY <1>2 DEF IsWorking, Checked, CheckedModify, Wrong
<1>3. CASE e.op = "remove"
  BY <1>3 DEF IsWorking, Checked, CheckedRemove, Wrong
<1> QED BY <1>1, <1>2, <1>3, EditFields

\* The buildings of the resolver, b, next to the footprints that the validator knows:
\* it knows only buildings that stand, and no height came from nowhere.
Stage(base, w, b) ==
    /\ IsFiniteSet(DOMAIN b) /\ b = [x \in DOMAIN b |-> b[x]]
    /\ \A x \in DOMAIN b :
          /\ IsShape(b[x].shape) /\ b[x].height.value \in Nat
          /\ \/ InRange(b[x].height.value)
             \/ x \in DOMAIN base /\ b[x].height = base[x].height
    /\ DOMAIN w.known \subseteq DOMAIN b

\* As long as nothing is moved, it knows the buildings that stand and can be read, where
\* they stand; and what was added is drawn, inside the domain and on nobody else's ground.
Unmoved(base, w, b) ==
    /\ DOMAIN w.known = {x \in DOMAIN b : b[x].shape.readable}
    /\ \A x \in DOMAIN w.known : w.known[x] = b[x].shape.core
    /\ \A x \in DOMAIN b \ DOMAIN base :
          /\ b[x].shape.readable /\ b[x].shape.drawing = "drawn"
          /\ b[x].shape.inside \subseteq Ground
          /\ \A y \in DOMAIN b \ {x} :
                b[y].shape.readable => b[x].shape.core \cap b[y].shape.core = {}

LEMMA AddKeepsStage ==
    ASSUME NEW base, NEW w, IsWorking(w), NEW b, Stage(base, w, b),
           NEW e \in Edits, e.op = "add", Checked(w, e).valid
    PROVE  /\ Stage(base, Checked(w, e), Applied(b, e))
           /\ Unmoved(base, w, b) => Unmoved(base, Checked(w, e), Applied(b, e))
<1> DEFINE row == [shape |-> e.shape, height |-> e.height]
           after == With(b, e.id, row)
           known == With(w.known, e.id, e.shape.core)
<1>1. /\ e.shape.readable /\ e.shape.drawing = "drawn"
      /\ e.shape.inside \subseteq Ground /\ InRange(e.height.value)
      /\ \A x \in DOMAIN w.known : w.known[x] \cap e.shape.core = {}
      /\ Checked(w, e).known = known
  BY DEF Checked, CheckedAdd, Wrong, IsWorking
<1>2. Applied(b, e) = after
  BY DEF Applied
<1>3. /\ DOMAIN after = DOMAIN b \cup {e.id} /\ after[e.id] = row
      /\ after = [z \in DOMAIN after |-> after[z]]
      /\ \A z \in DOMAIN b : z # e.id => after[z] = b[z]
  <2> HIDE DEF row
  <2> QED BY DEF With
<1>4. /\ DOMAIN known = DOMAIN w.known \cup {e.id} /\ known[e.id] = e.shape.core
      /\ \A z \in DOMAIN w.known : z # e.id => known[z] = w.known[z]
  BY DEF With
<1>5. /\ row.height = e.height /\ row.shape = e.shape
      /\ e.height.value \in Nat /\ IsShape(e.shape)
  BY EditFields
<1> HIDE DEF row, after, known
<1>6. Stage(base, Checked(w, e), after)
  <2>1. IsFiniteSet(DOMAIN after)
    BY <1>3, FS_AddElement DEF Stage
  <2>2. DOMAIN known \subseteq DOMAIN after
    BY <1>3, <1>4 DEF Stage
  <2>3. ASSUME NEW x \in DOMAIN after
        PROVE  /\ IsShape(after[x].shape) /\ after[x].height.value \in Nat
               /\ \/ InRange(after[x].height.value)
                  \/ x \in DOMAIN base /\ after[x].height = base[x].height
    <3>1. CASE x = e.id
      BY <1>1, <1>3, <1>5, <3>1
    <3>2. CASE x # e.id
      BY <1>3, <3>2 DEF Stage
    <3> QED BY <3>1, <3>2
  <2> QED BY <2>1, <2>2, <2>3, <1>1, <1>3 DEF Stage
<1>7. ASSUME Unmoved(base, w, b) PROVE Unmoved(base, Checked(w, e), after)
  <2>1. DOMAIN known = {x \in DOMAIN after : after[x].shape.readable}
    <3>1. ASSUME NEW x PROVE x \in DOMAIN known <=> x \in DOMAIN after /\ after[x].shape.readable
      <4>1. CASE x = e.id
        BY <1>1, <1>3, <1>4, <1>5, <4>1
      <4>2. CASE x # e.id
        BY <1>3, <1>4, <1>7, <4>2 DEF Unmoved
      <4> QED BY <4>1, <4>2
    <3> QED BY <3>1
  <2>2. ASSUME NEW x \in DOMAIN known PROVE known[x] = after[x].shape.core
    <3>1. CASE x = e.id
      BY <1>3, <1>4, <1>5, <3>1
    <3>2. CASE x # e.id
      BY <1>3, <1>4, <1>7, <3>2 DEF Unmoved
    <3> QED BY <3>1, <3>2
  <2>3. ASSUME NEW y \in DOMAIN b, b[y].shape.readable
        PROVE  e.shape.core \cap b[y].shape.core = {}
    BY <1>1, <1>7, <2>3 DEF Unmoved
  <2>4. ASSUME NEW x \in DOMAIN after \ DOMAIN base
        PROVE  /\ after[x].shape.readable /\ after[x].shape.drawing = "drawn"
               /\ after[x].shape.inside \subseteq Ground
               /\ \A y \in DOMAIN after \ {x} : after[y].shape.readable =>
                     after[x].shape.core \cap after[y].shape.core = {}
    <3>1. CASE x = e.id
      BY <1>1, <1>3, <1>5, <2>3, <3>1
    <3>2. CASE x # e.id
      <4>1. x \in DOMAIN b \ DOMAIN base /\ after[x] = b[x]
        BY <1>3, <3>2
      <4>2. /\ b[x].shape.readable /\ b[x].shape.drawing = "drawn"
            /\ b[x].shape.inside \subseteq Ground
        BY <1>7, <4>1 DEF Unmoved
      <4>3. ASSUME NEW y \in DOMAIN after \ {x}, after[y].shape.readable
            PROVE  b[x].shape.core \cap after[y].shape.core = {}
        <5>1. CASE y = e.id
          BY <1>3, <1>5, <2>3, <4>1, <4>2, <5>1
        <5>2. CASE y # e.id
          BY <1>3, <1>7, <4>1, <4>3, <5>2 DEF Unmoved
        <5> QED BY <5>1, <5>2
      <4> QED BY <4>1, <4>2, <4>3
    <3> QED BY <3>1, <3>2
  <2> QED BY <1>1, <2>1, <2>2, <2>4 DEF Unmoved
<1> QED BY <1>2, <1>6, <1>7

LEMMA ModifyKeepsStage ==
    ASSUME NEW base, NEW w, IsWorking(w), NEW b, Stage(base, w, b),
           NEW e \in Edits, e.op = "modify", Checked(w, e).valid
    PROVE  /\ e.target \in DOMAIN b
           /\ Stage(base, Checked(w, e), Applied(b, e))
           /\ Unmoved(base, w, b) /\ e.shape = None =>
                 Unmoved(base, Checked(w, e), Applied(b, e))
<1> DEFINE t == e.target
           row == [shape |-> Or(e.shape, b[t].shape), height |-> Or(e.height, b[t].height)]
           after == [b EXCEPT ![t] = row]
<1>1. /\ t \in DOMAIN w.known /\ (e.height # None => InRange(e.height.value))
      /\ Checked(w, e) = w
  BY DEF Checked, CheckedModify, Wrong, IsWorking
<1>2. t \in DOMAIN b
  BY <1>1 DEF Stage
<1>3. Applied(b, e) = after
  BY <1>2 DEF Applied
<1>4. /\ DOMAIN after = DOMAIN b /\ after[t] = row
      /\ after = [z \in DOMAIN after |-> after[z]]
      /\ \A z \in DOMAIN b : z # t => after[z] = b[z]
  BY <1>2 DEF Stage
<1>5. /\ row.height = IF e.height # None THEN e.height ELSE b[t].height
      /\ row.shape = IF e.shape # None THEN e.shape ELSE b[t].shape
  BY DEF Or
<1>6. (e.shape = None \/ IsShape(e.shape)) /\ (e.height = None \/ e.height.value \in Nat)
  BY EditFields
<1> HIDE DEF t, row, after
<1>7. Stage(base, w, after)
  <2>1. ASSUME NEW x \in DOMAIN after
        PROVE  /\ IsShape(after[x].shape) /\ after[x].height.value \in Nat
               /\ \/ InRange(after[x].height.value)
                  \/ x \in DOMAIN base /\ after[x].height = base[x].height
    <3>1. CASE x = t
      BY <1>1, <1>2, <1>4, <1>5, <1>6, <3>1 DEF Stage
    <3>2. CASE x # t
      BY <1>4, <3>2 DEF Stage
    <3> QED BY <3>1, <3>2
  <2> QED BY <2>1, <1>4 DEF Stage
<1>8. ASSUME Unmoved(base, w, b), e.shape = None PROVE Unmoved(base, w, after)
  <2>1. \A x \in DOMAIN b : after[x].shape = b[x].shape
    BY <1>2, <1>4, <1>5, <1>8 DEF Stage
  <2>2. DOMAIN w.known = {x \in DOMAIN after : after[x].shape.readable}
    BY <1>4, <1>8, <2>1 DEF Unmoved
  <2> QED BY <1>4, <1>8, <2>1, <2>2 DEF Unmoved
<1> QED BY <1>1, <1>2, <1>3, <1>7, <1>8 DEF t

LEMMA RemoveKeepsStage ==
    ASSUME NEW base, NEW w, IsWorking(w), NEW b, Stage(base, w, b),
           NEW e \in Edits, e.op = "remove", Checked(w, e).valid
    PROVE  /\ e.target \in DOMAIN b
           /\ Stage(base, Checked(w, e), Applied(b, e))
           /\ Unmoved(base, w, b) => Unmoved(base, Checked(w, e), Applied(b, e))
<1> DEFINE t == e.target
<1>1. t \in DOMAIN w.known /\ Checked(w, e).known = Without(w.known, t)
  BY DEF Checked, CheckedRemove, Wrong, IsWorking
<1>2. Applied(b, e) = Without(b, t)
  BY DEF Applied
<1> HIDE DEF t
<1>3. /\ DOMAIN Without(b, t) = DOMAIN b \ {t}
      /\ Without(b, t) = [z \in DOMAIN Without(b, t) |-> Without(b, t)[z]]
      /\ \A z \in DOMAIN b \ {t} : Without(b, t)[z] = b[z]
      /\ DOMAIN Without(w.known, t) = DOMAIN w.known \ {t}
      /\ \A z \in DOMAIN w.known \ {t} : Without(w.known, t)[z] = w.known[z]
  BY Taken
<1>4. Stage(base, Checked(w, e), Without(b, t))
  <2>1. IsFiniteSet(DOMAIN Without(b, t))
    BY <1>3, FS_RemoveElement DEF Stage
  <2> QED BY <1>1, <1>3, <2>1 DEF Stage
<1>5. Unmoved(base, w, b) => Unmoved(base, Checked(w, e), Without(b, t))
  <2> SUFFICES ASSUME Unmoved(base, w, b) PROVE Unmoved(base, Checked(w, e), Without(b, t))
    OBVIOUS
  <2>1. DOMAIN Without(w.known, t) = {x \in DOMAIN Without(b, t) : Without(b, t)[x].shape.readable}
    BY <1>3 DEF Unmoved
  <2>2. \A x \in DOMAIN Without(w.known, t) : Without(w.known, t)[x] = Without(b, t)[x].shape.core
    BY <1>3 DEF Unmoved
  <2>3. ASSUME NEW x \in DOMAIN Without(b, t) \ DOMAIN base
        PROVE  /\ Without(b, t)[x].shape.readable /\ Without(b, t)[x].shape.drawing = "drawn"
               /\ Without(b, t)[x].shape.inside \subseteq Ground
               /\ \A y \in DOMAIN Without(b, t) \ {x} : Without(b, t)[y].shape.readable =>
                     Without(b, t)[x].shape.core \cap Without(b, t)[y].shape.core = {}
    BY <1>3 DEF Unmoved
  <2> QED BY <1>1, <2>1, <2>2, <2>3 DEF Unmoved
<1> QED BY <1>1, <1>2, <1>4, <1>5 DEF Stage, t

-----------------------------------------------------------------------------
(* The whole chain.                                                        *)

LEMMA BaseIsPlain ==
    ASSUME NEW scenario \in Scenarios
    PROVE  LET base == Base(scenario)
           IN  /\ IsFiniteSet(DOMAIN base) /\ base = [x \in DOMAIN base |-> base[x]]
               /\ \A x \in DOMAIN base : IsShape(base[x].shape) /\ base[x].height.value \in Nat
               /\ DOMAIN base \cap EditIds = {}
<1>1. CASE scenario.snapshot \in DOMAIN Snapshots
  BY <1>1, SnapshotsAssumption DEF Base, IsHeight
<1>2. CASE scenario.snapshot \notin DOMAIN Snapshots
  <2>1. DOMAIN <<>> = {} /\ <<>> = [x \in {} |-> <<>>[x]]
    OBVIOUS
  <2> QED BY <1>2, <2>1, FS_EmptySet DEF Base
<1> QED BY <1>1, <1>2

\* The edits of a chain are edits.
LEMMA ChainOfEdits ==
    ASSUME NEW scenario \in Scenarios
    PROVE  /\ Len(scenario.edits) \in Nat /\ DOMAIN scenario.edits = 1..Len(scenario.edits)
           /\ \A i \in 1..Len(scenario.edits) : scenario.edits[i] \in Edits
BY DEF Scenarios

\* If the validator accepts the whole chain, it has accepted every prefix of it.
LEMMA ValidAllAlong ==
    ASSUME NEW scenario \in Scenarios
    PROVE  \A i \in 0..Len(scenario.edits) :
               /\ IsWorking(Working(scenario, i))
               /\ Valid(scenario) => Working(scenario, i).valid
<1> DEFINE n == Len(scenario.edits)
           Shaped == {m \in Nat : m <= n => IsWorking(Working(scenario, m))}
           Held == {m \in Nat : m <= n /\ Valid(scenario) => Working(scenario, n - m).valid}
<1>1. n \in Nat /\ \A i \in 1..n : scenario.edits[i] \in Edits
  BY ChainOfEdits
<1> HIDE DEF n
<1>2. \A i \in 0..n :
          /\ i = 0 => Working(scenario, i) = Start(Base(scenario))
          /\ i > 0 => Working(scenario, i) = Checked(Working(scenario, i - 1), scenario.edits[i])
          /\ i = n => Working(scenario, i).valid = Valid(scenario)
  BY WorkingSteps DEF n
<1>3. Shaped = Nat
  <2>1. 0 \in Shaped
    <3>1. Working(scenario, 0) = Start(Base(scenario))
      BY <1>1, <1>2
    <3>2. IsWorking(Start(Base(scenario)))
      BY DEF IsWorking, Start
    <3> QED BY <3>1, <3>2
  <2>2. ASSUME NEW m \in Shaped PROVE m + 1 \in Shaped
    <3> SUFFICES ASSUME m + 1 <= n PROVE IsWorking(Working(scenario, m + 1))
      OBVIOUS
    <3>1. /\ m + 1 \in 0..n /\ m + 1 > 0 /\ (m + 1) - 1 = m /\ m + 1 \in 1..n
          /\ IsWorking(Working(scenario, m))
      BY <1>1
    <3> QED BY <1>1, <1>2, <3>1, CheckedKeepsShape
  <2>3. Shaped \in SUBSET Nat
    OBVIOUS
  <2> HIDE DEF Shaped
  <2> QED BY <2>1, <2>2, <2>3, Resolving!NumbersInduction
<1>4. \A i \in 0..n : IsWorking(Working(scenario, i))
  BY <1>1, <1>3
<1>5. Held = Nat
  <2>1. 0 \in Held
    BY <1>1, <1>2
  <2>2. ASSUME NEW m \in Held PROVE m + 1 \in Held
    <3> SUFFICES ASSUME m + 1 <= n, Valid(scenario)
                 PROVE  Working(scenario, n - (m + 1)).valid
      OBVIOUS
    <3> DEFINE i == n - m
    <3>1. /\ i \in 0..n /\ i > 0 /\ i \in 1..n /\ i - 1 = n - (m + 1) /\ i - 1 \in 0..n
          /\ Working(scenario, i).valid
      BY <1>1
    <3> HIDE DEF i
    <3>2. Checked(Working(scenario, i - 1), scenario.edits[i]).valid
      BY <1>2, <3>1
    <3>3. Working(scenario, i - 1).valid
      BY <1>1, <1>4, <3>1, <3>2, CheckedKeepsShape
    <3> QED BY <3>1, <3>3
  <2>3. Held \in SUBSET Nat
    OBVIOUS
  <2> HIDE DEF Held
  <2> QED BY <2>1, <2>2, <2>3, Resolving!NumbersInduction
<1>6. ASSUME NEW i \in 0..n, Valid(scenario) PROVE Working(scenario, i).valid
  <2>1. n - i \in Nat /\ n - (n - i) = i /\ n - i <= n
    BY <1>1
  <2>2. n - i \in Held
    BY <1>5, <2>1
  <2> QED BY <1>6, <2>1, <2>2
<1> QED BY <1>4, <1>6 DEF n

\* The two replays of a chain that the validator accepts keep to each other: no edit is
\* skipped, and each stage of one fits the same stage of the other.
LEMMA ReplaysAgree ==
    ASSUME NEW scenario \in Scenarios, Valid(scenario)
    PROVE  /\ \A i \in 0..Len(scenario.edits) :
                 /\ Stage(Base(scenario), Working(scenario, i), Built(scenario, i))
                 /\ MovesNothing(scenario) =>
                       Unmoved(Base(scenario), Working(scenario, i), Built(scenario, i))
           /\ \A i \in 1..Len(scenario.edits) :
                 LET e == scenario.edits[i]
                 IN  /\ Checked(Working(scenario, i - 1), e).valid
                     /\ e.op # "add" => e.target \in DOMAIN Built(scenario, i - 1)
<1> DEFINE n == Len(scenario.edits)
           base == Base(scenario)
           Fits(i) == /\ Stage(base, Working(scenario, i), Built(scenario, i))
                      /\ MovesNothing(scenario) =>
                            Unmoved(base, Working(scenario, i), Built(scenario, i))
           Agree == {m \in Nat : m <= n => Fits(m)}
<1>1. n \in Nat /\ \A i \in 1..n : scenario.edits[i] \in Edits
  BY ChainOfEdits
<1>2. ASSUME NEW i \in 1..n
      PROVE  /\ IsWorking(Working(scenario, i - 1))
             /\ Working(scenario, i) = Checked(Working(scenario, i - 1), scenario.edits[i])
             /\ Built(scenario, i) = Applied(Built(scenario, i - 1), scenario.edits[i])
             /\ Checked(Working(scenario, i - 1), scenario.edits[i]).valid
  <2>1. i \in 0..n /\ i > 0 /\ i - 1 \in 0..n
    BY <1>1
  <2>2. IsWorking(Working(scenario, i - 1)) /\ Working(scenario, i).valid
    BY <2>1, ValidAllAlong
  <2>3. Working(scenario, i) = Checked(Working(scenario, i - 1), scenario.edits[i])
    BY <2>1, WorkingSteps
  <2>4. Built(scenario, i) = Applied(Built(scenario, i - 1), scenario.edits[i])
    BY <2>1, BuiltSteps
  <2> QED BY <2>2, <2>3, <2>4
<1>3. ASSUME NEW i \in 1..n, Fits(i - 1)
      PROVE  /\ Fits(i)
             /\ scenario.edits[i].op # "add" =>
                   scenario.edits[i].target \in DOMAIN Built(scenario, i - 1)
  <2> DEFINE e == scenario.edits[i]
             w == Working(scenario, i - 1)
             b == Built(scenario, i - 1)
  <2>1. /\ e \in Edits /\ IsWorking(w) /\ Checked(w, e).valid /\ Stage(base, w, b)
        /\ MovesNothing(scenario) => Unmoved(base, w, b)
        /\ Working(scenario, i) = Checked(w, e) /\ Built(scenario, i) = Applied(b, e)
    BY <1>1, <1>2, <1>3
  <2>2. MovesNothing(scenario) /\ e.op = "modify" => e.shape = None
    BY ChainOfEdits DEF MovesNothing
  <2> HIDE DEF e, w, b, base
  <2>3. CASE e.op = "add"
    <3>1. /\ Stage(base, Checked(w, e), Applied(b, e))
          /\ Unmoved(base, w, b) => Unmoved(base, Checked(w, e), Applied(b, e))
      BY <2>1, <2>3, AddKeepsStage
    <3> QED BY <2>1, <2>3, <3>1 DEF e
  <2>4. CASE e.op = "modify"
    <3>1. /\ Stage(base, Checked(w, e), Applied(b, e)) /\ e.target \in DOMAIN b
          /\ Unmoved(base, w, b) /\ e.shape = None =>
                Unmoved(base, Checked(w, e), Applied(b, e))
      BY <2>1, <2>4, ModifyKeepsStage
    <3> QED BY <2>1, <2>2, <2>4, <3>1 DEF e, b
  <2>5. CASE e.op = "remove"
    <3>1. /\ Stage(base, Checked(w, e), Applied(b, e)) /\ e.target \in DOMAIN b
          /\ Unmoved(base, w, b) => Unmoved(base, Checked(w, e), Applied(b, e))
      BY <2>1, <2>5, RemoveKeepsStage
    <3> QED BY <2>1, <2>5, <3>1 DEF e, b
  <2> QED BY <2>1, <2>3, <2>4, <2>5, EditFields
<1>4. 0 \in Agree
  <2>1. 0 \in 0..n
    BY <1>1
  <2>2. Working(scenario, 0) = Start(base) /\ Built(scenario, 0) = base
    BY <2>1, BuiltSteps, WorkingSteps
  <2>3. Stage(base, Start(base), base) /\ Unmoved(base, Start(base), base)
    BY BaseIsPlain DEF Stage, Unmoved, Start
  <2> QED BY <2>2, <2>3
<1>5. ASSUME NEW m \in Agree PROVE m + 1 \in Agree
  <2> SUFFICES ASSUME m + 1 <= n PROVE Fits(m + 1)
    OBVIOUS
  <2>1. m + 1 \in 1..n /\ (m + 1) - 1 = m /\ Fits(m)
    BY <1>1
  <2> HIDE DEF Fits, n
  <2> QED BY <1>3, <2>1
<1>6. Agree = Nat
  <2>1. Agree \in SUBSET Nat
    OBVIOUS
  <2> HIDE DEF Agree
  <2> QED BY <1>4, <1>5, <2>1, Resolving!NumbersInduction
<1>7. \A i \in 0..n : Fits(i)
  BY <1>1, <1>6
<1>8. ASSUME NEW i \in 1..n
      PROVE  scenario.edits[i].op # "add" =>
                 scenario.edits[i].target \in DOMAIN Built(scenario, i - 1)
  <2>1. i - 1 \in 0..n
    BY <1>1
  <2> HIDE DEF Fits, n
  <2> QED BY <1>3, <1>7, <2>1
<1> QED BY <1>2, <1>7, <1>8

-----------------------------------------------------------------------------
(* What the validator accepts is sound on the resolver.                    *)

\* validate_buildings_edits and resolve_buildings replay a chain each in its own way, and
\* agree for every chain: what one accepts, the other resolves without a skipped edit,
\* an overlap or an impossible height; and unless it moves a building, the validator's
\* working set ends with the readable ones of the resolver's buildings and no others.
THEOREM ValidChainsAreSound ==
    ASSUME NEW scenario \in Scenarios, Valid(scenario)
    PROVE  Sound(scenario)
<1> DEFINE n == Len(scenario.edits)
<1>1. n \in Nat /\ DOMAIN scenario.edits = 1..n /\ \A i \in 1..n : scenario.edits[i] \in Edits
  BY ChainOfEdits
<1>2. \A i \in 1..n : EditedBefore(scenario, i) = Built(scenario, i - 1)
  BY DEF EditedBefore, Built
<1>3. NothingIsSkipped(scenario)
  BY <1>1, <1>2, ReplaysAgree DEF NothingIsSkipped
<1>4. ASSUME MovesNothing(scenario) PROVE AddedStandClear(scenario)
  <2> SUFFICES ASSUME NEW i \in 1..n, scenario.edits[i].op = "add"
               PROVE  LET e == scenario.edits[i]
                          standing == Built(scenario, i - 1)
                      IN  /\ e.shape.inside \subseteq Ground
                          /\ \A b \in DOMAIN standing :
                                standing[b].shape.readable =>
                                    standing[b].shape.core \cap e.shape.core = {}
    BY <1>1, <1>2 DEF AddedStandClear
  <2> DEFINE e == scenario.edits[i]
             w == Working(scenario, i - 1)
             standing == Built(scenario, i - 1)
  <2>1. i - 1 \in 0..n
    BY <1>1
  <2>2. IsWorking(w) /\ Checked(w, e).valid /\ Unmoved(Base(scenario), w, standing)
    BY <1>4, <2>1, ReplaysAgree, ValidAllAlong
  <2>3. /\ e.shape.inside \subseteq Ground
        /\ \A x \in DOMAIN w.known : w.known[x] \cap e.shape.core = {}
    <3>1. Checked(w, e) = CheckedAdd(w, e)
      BY DEF Checked
    <3> HIDE DEF w, e
    <3> QED BY <2>2, <3>1 DEF CheckedAdd, Wrong, IsWorking
  <2> QED BY <2>2, <2>3 DEF Unmoved
<1>5. /\ n \in 0..n /\ Built(scenario, n) = Resolve(scenario)
      /\ Working(scenario, n) = Validated(scenario)
  <2>1. n \in 0..n /\ SubSeq(scenario.edits, 1, n) = scenario.edits
    BY <1>1 DEF Scenarios
  <2> QED BY <2>1, BuiltSteps DEF Working, Validated
<1>6. HeightsArePlausible(scenario)
  BY <1>5, ReplaysAgree DEF HeightsArePlausible, Stage
<1>7. ASSUME MovesNothing(scenario) PROVE KnowsWhatStands(scenario)
  BY <1>5, <1>7, ReplaysAgree DEF KnowsWhatStands, Unmoved
<1> QED BY <1>3, <1>4, <1>6, <1>7 DEF Sound

\* Where several buildings stand over a cell there is a tallest one.
LEMMA TallestExists ==
    ASSUME NEW b, IsFiniteSet(DOMAIN b), \A x \in DOMAIN b : b[x].height.value \in Nat,
           NEW c, Over(b, c) # {}
    PROVE  \E x \in Over(b, c) : \A y \in Over(b, c) : b[y].height.value <= b[x].height.value
<1> DEFINE over == Over(b, c)
           height == [x \in over |-> b[x].height.value]
           heights == {height[x] : x \in over}
<1>1. over \in SUBSET DOMAIN b
  BY DEF Over
<1>2. IsFiniteSet(over)
  <2> HIDE DEF over
  <2> QED BY <1>1, FS_Subset
<1>3. IsFiniteSet(heights)
  <2>1. \A h \in heights : \E x \in over : h = height[x]
    OBVIOUS
  <2> HIDE DEF over, height, heights
  <2> QED BY <1>2, <2>1, SameSizes, Resolving!ImageOfFinite
<1>4. heights \in SUBSET Nat /\ heights # {}
  BY <1>1
<1>5. PICK h \in heights : \A k \in heights : k <= h
  <2> HIDE DEF heights
  <2> QED BY <1>3, <1>4, SameSizes, Resolving!GreatestNumber
<1>6. PICK x \in over : h = height[x]
  BY <1>5
<1>7. \A y \in over : b[y].height.value <= b[x].height.value
  BY <1>5, <1>6
<1> QED BY <1>6, <1>7

\* What a cell of the grid shows stands there.
LEMMA DrawnStandsThere ==
    ASSUME NEW b, IsFiniteSet(DOMAIN b), \A x \in DOMAIN b : b[x].height.value \in Nat
    PROVE  \A c \in DOMAIN Raster(b) : Raster(b)[c] \in Over(b, c)
<1> DEFINE drawn == {g \in Cells : \E x \in Over(b, g) : b[x].height.value > 0}
           Tallest(x, c) == \A y \in Over(b, c) : b[y].height.value <= b[x].height.value
<1>1. Raster(b) = [c \in drawn |-> CHOOSE x \in Over(b, c) : Tallest(x, c)]
  BY DEF Raster
<1>2. ASSUME NEW c \in drawn PROVE (CHOOSE x \in Over(b, c) : Tallest(x, c)) \in Over(b, c)
  <2>1. \E x \in Over(b, c) : Tallest(x, c)
    BY <1>2, TallestExists
  <2> HIDE DEF Tallest, drawn
  <2> QED BY <2>1
<1> HIDE DEF drawn, Tallest
<1> QED BY <1>1, <1>2

\* The last stage of both replays.
LEMMA AtTheEnd ==
    ASSUME NEW scenario \in Scenarios, Valid(scenario)
    PROVE  LET w == Working(scenario, Len(scenario.edits))
           IN  /\ Stage(Base(scenario), w, Resolve(scenario))
               /\ MovesNothing(scenario) => Unmoved(Base(scenario), w, Resolve(scenario))
<1> DEFINE n == Len(scenario.edits)
<1>1. n \in 0..n
  BY ChainOfEdits
<1>2. Built(scenario, n) = Resolve(scenario)
  BY <1>1, BuiltSteps
<1> QED BY <1>1, <1>2, ReplaysAgree

\* PALM's grid shows every building that a valid chain has added on every cell of its core,
\* where no building that the validator could not read and no neighbour within the overlap
\* tolerance is taller (unless the chain moves buildings).
THEOREM AddedBuildingsAreDrawn ==
    ASSUME NEW scenario \in Scenarios, Valid(scenario), MovesNothing(scenario)
    PROVE  AddedAreDrawn(scenario)
<1> DEFINE w == Working(scenario, Len(scenario.edits))
           standing == Resolve(scenario)
           drawn == Raster(standing)
           base == Base(scenario)
<1>1. Stage(base, w, standing) /\ Unmoved(base, w, standing)
  BY AtTheEnd
<1> HIDE DEF standing, base, w
<1>2. /\ DOMAIN drawn = {g \in Cells : \E b \in Over(standing, g) : standing[b].height.value > 0}
      /\ \A c \in DOMAIN drawn : drawn[c] \in Over(standing, c)
  <2>1. \A c \in DOMAIN drawn : drawn[c] \in Over(standing, c)
    BY <1>1, DrawnStandsThere DEF Stage
  <2> QED BY <2>1 DEF Raster
<1> HIDE DEF drawn
<1>3. ASSUME NEW b \in DOMAIN standing \ DOMAIN base, NEW c \in Cells \cap standing[b].shape.core
      PROVE  /\ c \in DOMAIN drawn
             /\ drawn[c] # b => (standing[drawn[c]].shape.readable =>
                                    c \notin standing[drawn[c]].shape.core)
  <2>1. /\ standing[b].shape.readable /\ standing[b].shape.drawing = "drawn"
        /\ \A y \in DOMAIN standing \ {b} : standing[y].shape.readable =>
              standing[b].shape.core \cap standing[y].shape.core = {}
    BY <1>1 DEF Unmoved
  <2>2. b \in Over(standing, c)
    BY <1>1, <2>1 DEF Over, Stage, IsShape
  <2>3. standing[b].height.value > 0
    BY <1>1, HeightsAssumption DEF Stage, InRange
  <2>4. c \in DOMAIN drawn
    BY <1>2, <2>2, <2>3
  <2>5. drawn[c] \in DOMAIN standing
    BY <1>2, <2>4 DEF Over
  <2> QED BY <2>1, <2>4, <2>5
<1> QED BY <1>3 DEF AddedAreDrawn, standing, base, drawn

\* No text gets into PALM's grid in the place of a height: where one stands over a cell,
\* nothing is written.
LEMMA DrawnAreNumbers ==
    ASSUME NEW scenario \in Scenarios, Valid(scenario), Writable(Resolve(scenario))
    PROVE  DrawnHeightsAreNumbers(scenario)
<1> DEFINE standing == Resolve(scenario)
           drawn == Raster(standing)
<1>1. \A c \in DOMAIN drawn : drawn[c] \in Over(standing, c)
  BY AtTheEnd, DrawnStandsThere DEF Stage
<1>2. DOMAIN drawn \subseteq Cells
  BY DEF Raster
<1> HIDE DEF drawn
<1>3. ASSUME NEW c \in DOMAIN drawn PROVE ~standing[drawn[c]].height.text
  BY <1>1, <1>2 DEF Over, Writable
<1> QED BY <1>3 DEF DrawnHeightsAreNumbers, drawn

-----------------------------------------------------------------------------
(* The routes.                                                             *)

\* What may be in the database: a chain that parses, and that somebody uploaded or that
\* replays soundly.
Stored(scenario) ==
    /\ scenario \in Scenarios /\ Parses(scenario) /\ Len(scenario.edits) <= MaxEdits
    /\ scenario \in Uploads \/ Sound(scenario)

\* What a route makes of the chain that it read.
Follows(kind, read, new) ==
    /\ kind = "append" =>
          ToSet(read.edits) \subseteq ToSet(new.edits) /\ new.edits # <<>>
    /\ kind = "reorder" =>
          /\ ToSet(read.edits) = ToSet(new.edits)
          /\ read.edits # <<>> /\ new.edits # <<>>

Kinds == {"append", "delete", "reorder", "upload"}

RoutesInv ==
    /\ Stored(record)
    /\ session \in [Handlers -> [kind : Kinds \cup {"none"}, read : Scenarios, new : Scenarios]]
    /\ \A h \in Handlers :
          LET s == session[h]
          IN  s # NoSession => s.kind \in Kinds /\ Stored(s.new) /\ Follows(s.kind, s.read, s.new)
    /\ driver = NoScenario \/ (driver \in Scenarios /\ Valid(driver) /\ Writable(Resolve(driver)))
    /\ requests \in 0..MaxRequests

LEMMA NoScenarioIsStored == Stored(NoScenario)
<1> DEFINE s == NoScenario
<1>1. /\ s \in Scenarios /\ s.edits = <<>> /\ Len(s.edits) = 0 /\ DOMAIN s.edits = {}
  BY DEF NoScenario, Scenarios
<1>2. Parses(s)
  <2>1. Ids(s.edits) = {}
    BY <1>1 DEF Ids
  <2> QED BY <1>1, <2>1, FS_EmptySet DEF Parses
<1>3. Valid(s)
  <2>1. 0 \in 0..Len(s.edits)
    BY <1>1
  <2>2. Working(s, 0) = Start(Base(s)) /\ Working(s, 0).valid = Valid(s)
    BY <1>1, <2>1, WorkingSteps
  <2> QED BY <2>2 DEF Start
<1>4. Sound(s)
  BY <1>1, <1>3, ValidChainsAreSound
<1> QED BY <1>1, <1>2, <1>4, BoundsAssumption DEF Stored

\* The number of ids in a chain.
LEMMA IdsOfChain ==
    ASSUME NEW edits \in Seq(Edits)
    PROVE  /\ IsFiniteSet(Ids(edits)) /\ Cardinality(Ids(edits)) \in Nat
           /\ Cardinality(Ids(edits)) <= Len(edits) /\ Ids(edits) \subseteq EditIds
<1> DEFINE id == [i \in DOMAIN edits |-> edits[i].id]
           T == Ids(edits)
<1>1. \A y \in T : \E x \in 1..Len(edits) : y = id[x]
  BY DEF Ids
<1>2. IsFiniteSet(1..Len(edits)) /\ Cardinality(1..Len(edits)) = Len(edits)
  <2>1. 1 \in Int /\ Len(edits) \in Int /\ Len(edits) >= 0
    OBVIOUS
  <2> QED BY <2>1, FS_Interval, SMTT(60)
<1>3. T \subseteq EditIds
  BY EditFields DEF Ids
<1> HIDE DEF T, id
<1>4. IsFiniteSet(T) /\ Cardinality(T) <= Len(edits)
  BY <1>1, <1>2, SameSizes, Resolving!ImageOfFinite
<1> QED BY <1>3, <1>4, FS_CardinalityType DEF T

\* There is an id for an edit that a chain has room for.
LEMMA NextEditIdIsNew ==
    ASSUME Stored(record), Len(record.edits) < MaxEdits
    PROVE  NextEditId \in EditIds
<1> DEFINE free == EditIds \ Ids(record.edits)
<1>1. record.edits \in Seq(Edits) /\ Len(record.edits) \in Nat
  BY DEF Stored, Scenarios
<1>2. free # {}
  <2> SUFFICES ASSUME EditIds \subseteq Ids(record.edits) PROVE FALSE
    OBVIOUS
  <2> DEFINE ids == Ids(record.edits)
  <2>1. /\ IsFiniteSet(ids) /\ Cardinality(ids) \in Nat
        /\ Cardinality(ids) <= Len(record.edits) /\ ids = EditIds
    BY <1>1, IdsOfChain
  <2> HIDE DEF ids
  <2> QED BY <1>1, <2>1, EditIdsAssumption, BoundsAssumption
<1>3. free \in SUBSET Nat
  BY EditIdsAssumption
<1> HIDE DEF free
<1>4. \E n \in free : \A m \in free : n <= m
  BY <1>2, <1>3, Resolving!LeastNumber
<1> QED BY <1>4 DEF NextEditId, free

LEMMA AppendMakes ==
    ASSUME RoutesInv, NEW h \in Handlers, NEW body \in Bodies,
           NEW id, id \in EditIds \/ id = NextEditId, AppendEdit(h, body, id)
    PROVE  \E new : /\ Stored(new) /\ Follows("append", record, new)
                    /\ Accepted(h, "append", new)
<1> DEFINE e == [body EXCEPT !.id = id]
           new == WithEdits(Append(record.edits, e))
<1>1. id \in EditIds
  BY NextEditIdIsNew DEF AppendEdit, RoutesInv
<1>2. e \in Edits
  BY <1>1 DEF Edits
<1>3. /\ record \in Scenarios /\ record.edits \in Seq(Edits) /\ Len(record.edits) < MaxEdits
      /\ Len(record.edits) \in Nat
  BY DEF RoutesInv, Stored, Scenarios, AppendEdit
<1>4. Parses(new) /\ Valid(new) /\ Accepted(h, "append", new)
  BY DEF AppendEdit
<1> HIDE DEF e
<1>5. Append(record.edits, e) \in Seq(Edits)
      /\ Len(Append(record.edits, e)) = Len(record.edits) + 1
  BY <1>2, <1>3
<1>6. new \in Scenarios /\ new.edits = Append(record.edits, e)
  BY <1>3, <1>5 DEF Scenarios, WithEdits
<1>7. Len(new.edits) <= MaxEdits
  BY <1>3, <1>5, <1>6, BoundsAssumption
<1>8. Follows("append", record, new)
  BY <1>2, <1>3, <1>6 DEF Follows, ToSet
<1> HIDE DEF new
<1>9. Sound(new)
  BY <1>4, <1>6, ValidChainsAreSound
<1> QED BY <1>4, <1>6, <1>7, <1>8, <1>9 DEF Stored

\* One edit less.
LEMMA LessIsShorter ==
    ASSUME NEW edits \in Seq(Edits), NEW id \in Ids(edits),
           Cardinality(Ids(edits)) = Len(edits)
    PROVE  LET less == Less(edits, id)
           IN  /\ less \in Seq(Edits) /\ Len(less) = Len(edits) - 1
               /\ Cardinality(Ids(less)) = Len(less)
               /\ \A e \in ToSet(edits) : e.id = id \/ e \in ToSet(less)
<1> DEFINE n == Len(edits)
           i == CHOOSE j \in DOMAIN edits : edits[j].id = id
           less == Less(edits, id)
<1>1. i \in 1..n /\ edits[i].id = id
  BY DEF Ids
<1>2. less = SubSeq(edits, 1, i - 1) \o SubSeq(edits, i + 1, n)
  BY DEF Less, RemoveAt
<1> HIDE DEF i, less
<1>3. /\ less \in Seq(Edits) /\ Len(less) = n - 1 /\ DOMAIN less = 1..(n - 1)
      /\ \A j \in 1..(n - 1) : less[j] = IF j < i THEN edits[j] ELSE edits[j + 1]
  <2> DEFINE front == SubSeq(edits, 1, i - 1)
             back  == SubSeq(edits, i + 1, n)
  <2>1. /\ front \in Seq(Edits) /\ Len(front) = i - 1
        /\ \A j \in 1..(i - 1) : front[j] = edits[j]
    BY <1>1
  <2>2. /\ back \in Seq(Edits) /\ Len(back) = n - i
        /\ \A j \in 1..(n - i) : back[j] = edits[i + j]
    BY <1>1
  <2> HIDE DEF front, back
  <2>3. /\ front \o back \in Seq(Edits) /\ Len(front \o back) = (i - 1) + (n - i)
        /\ \A j \in 1..((i - 1) + (n - i)) :
              (front \o back)[j] = IF j <= i - 1 THEN front[j] ELSE back[j - (i - 1)]
    <3>1. front \o back \in Seq(Edits) /\ Len(front \o back) = Len(front) + Len(back)
      BY <2>1, <2>2, SMTT(60)
    <3>2. ASSUME NEW j \in 1..((i - 1) + (n - i))
          PROVE  (front \o back)[j] = IF j <= i - 1 THEN front[j] ELSE back[j - (i - 1)]
      <4>1. j \in 1..(Len(front) + Len(back))
        BY <2>1, <2>2
      <4> HIDE DEF n
      <4>2. (front \o back)[j] = IF j <= Len(front) THEN front[j] ELSE back[j - Len(front)]
        BY <2>1, <2>2, <4>1, ConcatProperties
      <4> QED BY <2>1, <4>2
    <3> QED BY <3>1, <3>2, <2>1, <2>2
  <2>4. less = front \o back /\ n \in Nat
    BY <1>2 DEF front, back
  <2>5. ASSUME NEW j \in 1..(n - 1)
        PROVE  less[j] = IF j < i THEN edits[j] ELSE edits[j + 1]
    <3>1. CASE j < i
      BY <1>1, <2>1, <2>3, <2>4, <3>1
    <3>2. CASE ~(j < i)
      <4>1. j - (i - 1) \in 1..(n - i) /\ i + (j - (i - 1)) = j + 1 /\ ~(j <= i - 1)
        BY <1>1, <2>4, <3>2
      <4> QED BY <1>1, <2>2, <2>3, <2>4, <3>2, <4>1
    <3> QED BY <3>1, <3>2
  <2> QED BY <1>1, <2>3, <2>4, <2>5
<1>4. \A j \in 1..n : j # i => \E k \in 1..(n - 1) : less[k] = edits[j]
  <2> SUFFICES ASSUME NEW j \in 1..n, j # i PROVE \E k \in 1..(n - 1) : less[k] = edits[j]
    OBVIOUS
  <2>1. CASE j < i
    <3>1. j \in 1..(n - 1)
      BY <1>1, <2>1
    <3> QED BY <1>3, <2>1, <3>1
  <2>2. CASE j > i
    <3>1. j - 1 \in 1..(n - 1) /\ ~(j - 1 < i) /\ (j - 1) + 1 = j
      BY <1>1, <2>2
    <3> QED BY <1>3, <3>1
  <2> QED BY <1>1, <2>1, <2>2
<1>5. \A e \in ToSet(edits) : e.id = id \/ e \in ToSet(less)
  <2>1. ASSUME NEW j \in 1..n PROVE edits[j].id = id \/ edits[j] \in ToSet(less)
    BY <1>1, <1>3, <1>4 DEF ToSet
  <2> QED BY <2>1 DEF ToSet
<1>6. Cardinality(Ids(less)) = n - 1
  <2>1. Ids(edits) \subseteq Ids(less) \cup {id}
    <3>1. ASSUME NEW j \in 1..n PROVE edits[j].id \in Ids(less) \cup {id}
      BY <1>1, <1>3, <1>4 DEF Ids
    <3> QED BY <3>1 DEF Ids
  <2>2. IsFiniteSet(Ids(less)) /\ Cardinality(Ids(less)) \in Nat
        /\ Cardinality(Ids(less)) <= n - 1
    BY <1>3, IdsOfChain
  <2>3. IsFiniteSet(Ids(less) \cup {id})
        /\ Cardinality(Ids(less) \cup {id}) <= Cardinality(Ids(less)) + 1
        /\ Cardinality(Ids(less) \cup {id}) \in Nat
    <3> DEFINE ids == Ids(less)
    <3> HIDE DEF ids
    <3>1. IsFiniteSet(ids) /\ Cardinality(ids) \in Nat
      BY <2>2 DEF ids
    <3>2. /\ IsFiniteSet(ids \cup {id})
          /\ Cardinality(ids \cup {id}) = IF id \in ids THEN Cardinality(ids)
                                          ELSE Cardinality(ids) + 1
      BY <3>1, FS_AddElement
    <3> QED BY <3>1, <3>2 DEF ids
  <2>4. Cardinality(Ids(edits)) <= Cardinality(Ids(less) \cup {id})
    BY <2>1, <2>3, FS_Subset
  <2> QED BY <2>2, <2>3, <2>4
<1> QED BY <1>3, <1>5, <1>6 DEF less

LEMMA DeleteMakes ==
    ASSUME RoutesInv, NEW h \in Handlers, NEW id, DeleteEdit(h, id)
    PROVE  \E new : /\ Stored(new) /\ Accepted(h, "delete", new)
                    /\ \A e \in ToSet(record.edits) : e.id = id \/ e \in ToSet(new.edits)
<1> DEFINE less == Less(record.edits, id)
           new == WithEdits(less)
<1>1. /\ record \in Scenarios /\ record.edits \in Seq(Edits) /\ Len(record.edits) <= MaxEdits
      /\ Len(record.edits) \in Nat /\ Cardinality(Ids(record.edits)) = Len(record.edits)
  BY DEF RoutesInv, Stored, Scenarios, Parses
<1>2. id \in Ids(record.edits) /\ Valid(new) /\ Accepted(h, "delete", new)
  BY DEF DeleteEdit
<1>3. /\ less \in Seq(Edits) /\ Len(less) = Len(record.edits) - 1
      /\ Cardinality(Ids(less)) = Len(less)
      /\ \A e \in ToSet(record.edits) : e.id = id \/ e \in ToSet(less)
  BY <1>1, <1>2, LessIsShorter
<1> HIDE DEF less
<1>4. new \in Scenarios /\ new.edits = less
  BY <1>1, <1>3 DEF Scenarios, WithEdits
<1>5. Parses(new) /\ Len(new.edits) <= MaxEdits
  BY <1>1, <1>3, <1>4, BoundsAssumption DEF Parses
<1> HIDE DEF new
<1>6. Sound(new)
  BY <1>2, <1>4, ValidChainsAreSound
<1> QED BY <1>2, <1>3, <1>4, <1>5, <1>6 DEF Stored

LEMMA ReorderMakes ==
    ASSUME RoutesInv, NEW h \in Handlers, ReorderEdits(h)
    PROVE  \E new : /\ Stored(new) /\ Follows("reorder", record, new)
                    /\ Accepted(h, "reorder", new)
<1> DEFINE n == Len(record.edits)
<1>1. /\ record \in Scenarios /\ record.edits \in Seq(Edits) /\ n <= MaxEdits
      /\ n \in Nat /\ Cardinality(Ids(record.edits)) = n /\ n > 0
  BY DEF RoutesInv, Stored, Scenarios, Parses, ReorderEdits
<1>2. PICK order \in Bijection(1..n, 1..n) :
          LET new == WithEdits([i \in 1..n |-> record.edits[order[i]]])
          IN  Valid(new) /\ Accepted(h, "reorder", new)
  BY DEF ReorderEdits
<1> DEFINE edits == [i \in 1..n |-> record.edits[order[i]]]
           new == WithEdits(edits)
<1>3. /\ \A i \in 1..n : order[i] \in 1..n
      /\ \A j \in 1..n : \E i \in 1..n : order[i] = j
  BY DEF Bijection, Injection, Surjection
<1>4. edits \in Seq(Edits) /\ Len(edits) = n
  BY <1>1, <1>3, SMTT(60)
<1>5. ToSet(edits) = ToSet(record.edits) /\ Ids(edits) = Ids(record.edits)
  <2>1. DOMAIN edits = 1..n /\ DOMAIN record.edits = 1..n
        /\ \A i \in 1..n : edits[i] = record.edits[order[i]]
    BY <1>1
  <2> HIDE DEF edits, n
  <2>2. ToSet(edits) \subseteq ToSet(record.edits) /\ Ids(edits) \subseteq Ids(record.edits)
    <3>1. ASSUME NEW i \in 1..n
          PROVE  edits[i] \in ToSet(record.edits) /\ edits[i].id \in Ids(record.edits)
      BY <1>3, <2>1 DEF ToSet, Ids
    <3> QED BY <2>1, <3>1 DEF ToSet, Ids
  <2>3. ASSUME NEW j \in 1..n
        PROVE  record.edits[j] \in ToSet(edits) /\ record.edits[j].id \in Ids(edits)
    <3>1. PICK i \in 1..n : order[i] = j
      BY <1>3
    <3>2. edits[i] = record.edits[j]
      BY <2>1, <3>1
    <3> QED BY <2>1, <3>2 DEF ToSet, Ids
  <2>4. ToSet(record.edits) \subseteq ToSet(edits) /\ Ids(record.edits) \subseteq Ids(edits)
    BY <2>1, <2>3 DEF ToSet, Ids
  <2> QED BY <2>2, <2>4
<1> HIDE DEF edits
<1>6. new \in Scenarios /\ new.edits = edits
  BY <1>1, <1>4 DEF Scenarios, WithEdits
<1>7. Parses(new) /\ Len(new.edits) <= MaxEdits
  BY <1>1, <1>4, <1>5, <1>6 DEF Parses
<1>8. Follows("reorder", record, new)
  BY <1>1, <1>4, <1>5, <1>6 DEF Follows
<1>9. Valid(new) /\ Accepted(h, "reorder", new)
  BY <1>2 DEF edits
<1> HIDE DEF new
<1>10. Sound(new)
  BY <1>6, <1>9, ValidChainsAreSound
<1> QED BY <1>6, <1>7, <1>8, <1>9, <1>10 DEF Stored

LEMMA AcceptedKeeps ==
    ASSUME RoutesInv, NEW h \in Handlers, NEW kind \in Kinds, NEW new, Stored(new),
           Follows(kind, record, new), Accepted(h, kind, new)
    PROVE  RoutesInv'
<1> DEFINE row == [kind |-> kind, read |-> record, new |-> new]
<1>1. /\ session' = [session EXCEPT ![h] = row] /\ requests' = requests + 1
      /\ UNCHANGED <<record, driver>> /\ requests < MaxRequests
  BY DEF Accepted, Free
<1>2. row \in [kind : Kinds \cup {"none"}, read : Scenarios, new : Scenarios]
  BY DEF RoutesInv, Stored
<1>3. row.kind = kind /\ row.new = new /\ row.read = record
  OBVIOUS
<1> HIDE DEF row
<1>4. session' \in [Handlers -> [kind : Kinds \cup {"none"}, read : Scenarios, new : Scenarios]]
  BY <1>1, <1>2 DEF RoutesInv
<1>5. \A g \in Handlers : session'[g] = IF g = h THEN row ELSE session[g]
  BY <1>1 DEF RoutesInv
<1>6. requests' \in 0..MaxRequests
  BY <1>1, BoundsAssumption DEF RoutesInv
<1> QED BY <1>1, <1>3, <1>4, <1>5, <1>6 DEF RoutesInv, Stored

LEMMA EndsKeep ==
    ASSUME RoutesInv, NEW h \in Handlers, Commit(h) \/ Rollback(h)
    PROVE  /\ RoutesInv'
           /\ record' # record => record' = session[h].new /\ session[h] # NoSession
<1>1. /\ session' = [session EXCEPT ![h] = NoSession] /\ UNCHANGED <<driver, requests>>
      /\ record' = record \/ (record' = session[h].new /\ session[h] # NoSession)
  BY DEF Commit, Rollback
<1>2. NoSession \in [kind : Kinds \cup {"none"}, read : Scenarios, new : Scenarios]
  BY NoScenarioIsStored DEF Stored, NoSession
<1>3. session' \in [Handlers -> [kind : Kinds \cup {"none"}, read : Scenarios, new : Scenarios]]
      /\ \A g \in Handlers : session'[g] = IF g = h THEN NoSession ELSE session[g]
  BY <1>1, <1>2 DEF RoutesInv
<1>4. Stored(record')
  BY <1>1 DEF RoutesInv
<1>5. Stored(record)'
  BY <1>4 DEF Stored
<1> QED BY <1>1, <1>3, <1>5 DEF RoutesInv

LEMMA RunKeeps ==
    ASSUME RoutesInv, Run
    PROVE  RoutesInv'
BY DEF RoutesInv, Run, Stored

-----------------------------------------------------------------------------

LEMMA UploadKeeps ==
    ASSUME RoutesInv, NEW h \in Handlers, NEW scenario, Stored(scenario), Upload(h, scenario)
    PROVE  RoutesInv'
<1>1. Accepted(h, "upload", scenario) /\ "upload" \in Kinds
  BY DEF Upload, Kinds
<1>2. Follows("upload", record, scenario)
  BY DEF Follows
<1> QED BY <1>1, <1>2, AcceptedKeeps

LEMMA AppendKeeps ==
    ASSUME RoutesInv, NEW h \in Handlers, NEW body \in Bodies,
           NEW id, id \in EditIds \/ id = NextEditId, AppendEdit(h, body, id)
    PROVE  RoutesInv'
<1>1. "append" \in Kinds
  BY DEF Kinds
<1> QED BY <1>1, AppendMakes, AcceptedKeeps

LEMMA DeleteKeeps ==
    ASSUME RoutesInv, NEW h \in Handlers, NEW id, DeleteEdit(h, id)
    PROVE  RoutesInv'
<1>1. PICK new : Stored(new) /\ Accepted(h, "delete", new)
  BY DeleteMakes
<1>2. "delete" \in Kinds /\ Follows("delete", record, new)
  BY DEF Kinds, Follows
<1> QED BY <1>1, <1>2, AcceptedKeeps

LEMMA ReorderKeeps ==
    ASSUME RoutesInv, NEW h \in Handlers, ReorderEdits(h)
    PROVE  RoutesInv'
<1>1. "reorder" \in Kinds
  BY DEF Kinds
<1> QED BY <1>1, ReorderMakes, AcceptedKeeps

LEMMA UploadsAreStored ==
    ASSUME NEW scenario \in Uploads, Parses(scenario)
    PROVE  Stored(scenario)
BY UploadsAssumption DEF Stored

LEMMA RequestKeeps ==
    ASSUME RoutesInv, NEW h \in Handlers, Request(h)
    PROVE  RoutesInv' /\ record' = record
<1>1. ASSUME NEW body \in Bodies, NEW id, id \in EditIds \/ id = NextEditId,
             AppendEdit(h, body, id)
      PROVE  RoutesInv' /\ record' = record
  BY <1>1, AppendKeeps DEF AppendEdit, Accepted
<1>2. ASSUME NEW id \in EditIds, DeleteEdit(h, id) PROVE RoutesInv' /\ record' = record
  BY <1>2, DeleteKeeps DEF DeleteEdit, Accepted
<1>3. ASSUME ReorderEdits(h) PROVE RoutesInv' /\ record' = record
  BY <1>3, ReorderKeeps DEF ReorderEdits, Accepted
<1>4. ASSUME NEW s \in Uploads, Upload(h, s) PROVE RoutesInv' /\ record' = record
  <2>1. Stored(s)
    BY <1>4, UploadsAreStored DEF Upload
  <2> QED BY <1>4, <2>1, UploadKeeps DEF Upload, Accepted
<1> QED BY <1>1, <1>2, <1>3, <1>4 DEF Request

LEMMA RoutesInit == Init => RoutesInv
<1> SUFFICES ASSUME Init PROVE RoutesInv
  OBVIOUS
<1>1. Stored(record)
  BY UploadsAreStored, NoScenarioIsStored DEF Init
<1>2. session \in [Handlers -> [kind : Kinds \cup {"none"}, read : Scenarios, new : Scenarios]]
  BY NoScenarioIsStored DEF Init, NoSession, Stored
<1> QED BY <1>1, <1>2, BoundsAssumption DEF Init, RoutesInv

-----------------------------------------------------------------------------
(* The editor page.                                                        *)

Keeps(p, scenario) == \A e \in p.loaded : e.id \in p.undone \/ e \in ToSet(scenario.edits)

\* While nobody else writes, every copy of the chain that can still reach the database
\* holds the loaded edits that were not undone.
PageKeeps ==
    /\ Keeps(page, record) /\ Keeps(page, page.copy) /\ Keeps(page, page.listed)
    /\ page.saved # None => Keeps(page, page.saved)
    /\ page.pc = "initialising" => Keeps(page, EmptyChain)
    /\ \A h \in Handlers : session[h] # NoSession => Keeps(page, session[h].new)

Pages == [copy : Scenarios, listed : Scenarios, saved : Scenarios \cup {None},
          pc : {"idle", "initialising", "drawing"}, by : Handlers \cup {None},
          loaded : SUBSET Edits, undone : SUBSET EditIds, others : BOOLEAN]

EditorInv ==
    /\ RoutesInv
    /\ page \in Pages
    /\ Stored(page.copy) /\ Stored(page.listed) /\ (page.saved # None => Stored(page.saved))
    /\ ~page.others => PageKeeps

LEMMA EmptyChainIsStored == Stored(EmptyChain)
<1>1. Ids(EmptyChain.edits) = {}
  BY EmptyChainAssumption DEF Ids
<1>2. Parses(EmptyChain)
  BY <1>1, EmptyChainAssumption, FS_EmptySet DEF Parses
<1> QED BY <1>2, EmptyChainAssumption, UploadsAreStored

LEMMA NothingLeft ==
    ASSUME NEW s, s.edits = <<>>
    PROVE  ToSet(s.edits) = {}
BY DEF ToSet

LEMMA EditorInitial == EditorInit => EditorInv
<1> SUFFICES ASSUME EditorInit PROVE EditorInv
  OBVIOUS
<1>1. RoutesInv /\ Init
  BY RoutesInit DEF EditorInit
<1>2. Stored(record) /\ record \in Scenarios
  BY <1>1 DEF RoutesInv, Stored
<1>3. ToSet(record.edits) \in SUBSET Edits
  BY <1>2 DEF Scenarios, ToSet
<1>4. page \in Pages /\ page.copy = record /\ page.listed = record /\ page.saved = None
      /\ page.loaded = ToSet(record.edits) /\ page.pc = "idle"
  BY <1>2, <1>3 DEF EditorInit, Pages
<1>5. PageKeeps
  BY <1>1, <1>4 DEF PageKeeps, Keeps, Init
<1> QED BY <1>1, <1>2, <1>4, <1>5 DEF EditorInv

-----------------------------------------------------------------------------
(* The steps of the page.                                                  *)

\* A request of the page that sends a chain with the loaded edits that are not undone.
LEMMA SentKeeps ==
    ASSUME EditorInv, RoutesInv', NEW h \in Handlers, NEW kind, NEW new,
           Accepted(h, kind, new), page' \in Pages,
           page'.loaded = page.loaded, page.undone \subseteq page'.undone,
           page'.others = page.others, page'.copy = page.copy, page'.listed = page.listed,
           page'.saved \in {page.saved, page.copy},
           ~page.others => Keeps(page', new),
           ~page.others /\ page'.pc = "initialising" => Keeps(page', EmptyChain)
    PROVE  EditorInv'
<1>1. /\ record' = record
      /\ \A g \in Handlers : g # h => session'[g] = session[g]
      /\ session'[h].new = new
  BY DEF Accepted, EditorInv, RoutesInv
<1>2. \A s : Keeps(page, s) => Keeps(page', s)
  BY DEF Keeps
<1>3. ASSUME ~page.others PROVE PageKeeps'
  <2>1. PageKeeps
    BY <1>3 DEF EditorInv
  <2>2. \A g \in Handlers : session'[g] # NoSession => Keeps(page', session'[g].new)
    BY <1>1, <1>2, <1>3, <2>1 DEF PageKeeps
  <2> QED BY <1>1, <1>2, <1>3, <2>1, <2>2 DEF PageKeeps
<1> QED BY <1>3 DEF EditorInv, Stored

LEMMA SaveKeeps ==
    ASSUME EditorInv, NEW h \in Handlers, Save(h)
    PROVE  EditorInv'
<1>1. RoutesInv' /\ Accepted(h, "upload", page.copy)
  BY UploadKeeps DEF EditorInv, Save, Upload
<1>2. page' = [page EXCEPT !.saved = page.copy] /\ page \in Pages
  BY DEF Save, EditorInv
<1>3. /\ page' \in Pages /\ page'.saved = page.copy /\ page'.pc = page.pc
      /\ page'.loaded = page.loaded /\ page'.undone = page.undone
      /\ page'.others = page.others /\ page'.copy = page.copy /\ page'.listed = page.listed
  BY <1>2 DEF Pages
<1>4. ~page.others => /\ Keeps(page', page.copy)
                      /\ page.pc = "initialising" => Keeps(page', EmptyChain)
  BY <1>3 DEF EditorInv, PageKeeps, Keeps
<1> QED BY <1>1, <1>3, <1>4, SentKeeps

LEMMA InitialiseKeeps ==
    ASSUME EditorInv, NEW h \in Handlers, Initialise(h)
    PROVE  EditorInv'
<1>1. RoutesInv' /\ Accepted(h, "upload", EmptyChain)
  BY UploadKeeps, EmptyChainIsStored DEF EditorInv, Initialise, Upload
<1>2. page' = [page EXCEPT !.pc = "initialising", !.by = h] /\ page \in Pages
  BY DEF Initialise, EditorInv
<1>3. /\ page' \in Pages /\ page'.saved = page.saved
      /\ page'.loaded = page.loaded /\ page'.undone = page.undone
      /\ page'.others = page.others /\ page'.copy = page.copy /\ page'.listed = page.listed
  BY <1>2 DEF Pages
<1>4. page.copy = NoScenario /\ NoScenario.edits = <<>>
  BY DEF Initialise, NoScenario
<1>5. ~page.others => Keeps(page', EmptyChain)
  BY <1>3, <1>4, NothingLeft DEF EditorInv, PageKeeps, Keeps
<1> QED BY <1>1, <1>3, <1>5, SentKeeps

\* Appending keeps the edits of the chain in the database.
LEMMA PageAppendKeeps ==
    ASSUME EditorInv, NEW h \in Handlers, NEW body \in Bodies, AppendEdit(h, body, NextEditId),
           page' \in {page, [page EXCEPT !.pc = "idle"]}
    PROVE  EditorInv'
<1>1. RoutesInv'
  BY AppendKeeps DEF EditorInv
<1>2. PICK new : Follows("append", record, new) /\ Accepted(h, "append", new)
  BY AppendMakes DEF EditorInv
<1>3. page \in Pages
  BY DEF EditorInv
<1>4. /\ page' \in Pages /\ page'.saved = page.saved /\ page'.pc \in {page.pc, "idle"}
      /\ page'.loaded = page.loaded /\ page'.undone = page.undone
      /\ page'.others = page.others /\ page'.copy = page.copy /\ page'.listed = page.listed
  BY <1>3 DEF Pages
<1>5. ~page.others => /\ Keeps(page', new)
                      /\ page'.pc = "initialising" => Keeps(page', EmptyChain)
  BY <1>2, <1>4 DEF EditorInv, PageKeeps, Keeps, Follows
<1> QED BY <1>1, <1>2, <1>4, <1>5, SentKeeps

LEMMA UndoKeeps ==
    ASSUME EditorInv, NEW h \in Handlers, NEW id \in EditIds, Undo(h, id)
    PROVE  EditorInv'
<1>1. RoutesInv'
  BY DeleteKeeps DEF EditorInv, Undo
<1>2. PICK new : /\ Accepted(h, "delete", new)
                 /\ \A e \in ToSet(record.edits) : e.id = id \/ e \in ToSet(new.edits)
  BY DeleteMakes DEF EditorInv, Undo
<1>3. page \in Pages /\ page' = [page EXCEPT !.undone = @ \cup {id}]
  BY DEF EditorInv, Undo
<1>4. /\ page' \in Pages /\ page'.saved = page.saved /\ page'.pc = page.pc
      /\ page'.loaded = page.loaded /\ page'.undone = page.undone \cup {id}
      /\ page'.others = page.others /\ page'.copy = page.copy /\ page'.listed = page.listed
  BY <1>3 DEF Pages
<1>5. ~page.others => /\ Keeps(page', new)
                      /\ page'.pc = "initialising" => Keeps(page', EmptyChain)
  BY <1>2, <1>4 DEF EditorInv, PageKeeps, Keeps
<1> QED BY <1>1, <1>2, <1>4, <1>5, SentKeeps

LEMMA OthersKeep ==
    ASSUME EditorInv, NEW h \in Handlers, OthersStep(h)
    PROVE  EditorInv'
<1>1. RoutesInv'
  BY RequestKeeps DEF EditorInv, OthersStep
<1>2. page \in Pages /\ page' = [page EXCEPT !.others = TRUE]
  BY DEF EditorInv, OthersStep
<1>3. /\ page' \in Pages /\ page'.others /\ page'.copy = page.copy
      /\ page'.listed = page.listed /\ page'.saved = page.saved
  BY <1>2 DEF Pages
<1> QED BY <1>1, <1>3 DEF EditorInv, Stored

LEMMA EndKeeps ==
    ASSUME EditorInv, NEW h \in Handlers, Ends(h)
    PROVE  EditorInv'
<1>1. RoutesInv' /\ (record' # record => record' = session[h].new /\ session[h] # NoSession)
  BY EndsKeep DEF EditorInv, Ends
<1>2. session' = [session EXCEPT ![h] = NoSession]
  BY DEF Ends, Commit, Rollback
<1>3. page \in Pages /\ page' \in {page, [page EXCEPT !.pc = "idle", !.by = None]}
  BY DEF EditorInv, Ends
<1>4. /\ page' \in Pages /\ page'.saved = page.saved /\ page'.pc \in {page.pc, "idle"}
      /\ page'.loaded = page.loaded /\ page'.undone = page.undone
      /\ page'.others = page.others /\ page'.copy = page.copy /\ page'.listed = page.listed
  BY <1>3 DEF Pages
<1>5. \A g \in Handlers : session'[g] = IF g = h THEN NoSession ELSE session[g]
  BY <1>2 DEF EditorInv, RoutesInv
<1>6. ASSUME ~page.others PROVE PageKeeps'
  <2>1. PageKeeps
    BY <1>6 DEF EditorInv
  <2>2. \A s : Keeps(page, s) => Keeps(page', s)
    BY <1>4 DEF Keeps
  <2> QED BY <1>1, <1>4, <1>5, <2>1, <2>2 DEF PageKeeps
<1> QED BY <1>1, <1>4, <1>6 DEF EditorInv, Stored

\* The steps of the page alone: selectScenario, the answers, a drawing that fails.
LEMMA PageAloneKeeps ==
    ASSUME EditorInv, Select \/ Saved \/ Initialised \/ DrawFails
    PROVE  EditorInv'
<1>1. RoutesInv' /\ record' = record /\ session' = session
  BY DEF EditorInv, RoutesInv, Select, Saved, Initialised, DrawFails, vars, Stored
<1>2. page \in Pages /\ Stored(EmptyChain) /\ EmptyChain \in Scenarios
  BY EmptyChainIsStored DEF EditorInv, Stored
<1>3. /\ page' \in Pages
      /\ page'.pc = "initialising" => page.pc = "initialising"
      /\ page'.loaded = page.loaded /\ page'.undone = page.undone
      /\ page'.others = page.others
      /\ \/ page'.copy \in {page.copy, page.listed}
         \/ page'.copy = EmptyChain /\ page.pc = "initialising"
      /\ \/ page'.listed = page.listed /\ page'.saved = page.saved
         \/ page'.listed = page.saved /\ page'.saved = None /\ page.saved # None
  <2>1. CASE Select
    BY <1>2, <2>1 DEF Pages, Select
  <2>2. CASE Saved
    BY <1>2, <2>2 DEF Pages, Saved
  <2>3. CASE Initialised
    BY <1>2, <2>3 DEF Pages, Initialised
  <2>4. CASE DrawFails
    BY <1>2, <2>4 DEF Pages, DrawFails
  <2> QED BY <2>1, <2>2, <2>3, <2>4
<1>4. ASSUME ~page.others PROVE PageKeeps'
  <2>1. PageKeeps
    BY <1>4 DEF EditorInv
  <2>2. \A s : Keeps(page, s) => Keeps(page', s)
    BY <1>3 DEF Keeps
  <2> QED BY <1>1, <1>3, <2>1, <2>2 DEF PageKeeps
<1> QED BY <1>1, <1>2, <1>3, <1>4 DEF EditorInv, Stored

LEMMA EditorStepKeeps ==
    ASSUME EditorInv, [EditorNext]_pageVars
    PROVE  EditorInv'
<1>1. ASSUME NEW h \in Handlers, PageStep(h) PROVE EditorInv'
  <2>1. ASSUME NEW body \in Bodies, Draw(h, body) \/ Change(h, body) PROVE EditorInv'
    BY <2>1, PageAppendKeeps DEF Draw, Change
  <2> QED BY <1>1, <2>1, SaveKeeps, InitialiseKeeps, UndoKeeps DEF PageStep
<1>2. CASE Run /\ UNCHANGED page
  <2>1. RoutesInv' /\ record' = record /\ session' = session
    BY <1>2, RunKeeps DEF EditorInv, Run
  <2> QED BY <1>2, <2>1 DEF EditorInv, PageKeeps, Keeps, Stored
<1>3. CASE UNCHANGED pageVars
  BY <1>3 DEF pageVars, vars, EditorInv, RoutesInv, PageKeeps, Keeps, Stored
<1> QED BY <1>1, <1>2, <1>3, OthersKeep, EndKeeps, PageAloneKeeps DEF EditorNext

LEMMA EditorInvariant == EditorSpec => []EditorInv
BY EditorInitial, EditorStepKeeps, PTL DEF EditorSpec

-----------------------------------------------------------------------------
(* The theorems.                                                           *)

\* Every chain that the page or another client can store parses again when it is loaded,
\* and every session holds one that does (TypeOK).
THEOREM EditorTypeCorrect == EditorSpec => []TypeOK
<1>1. EditorInv => TypeOK
  <2> SUFFICES ASSUME EditorInv PROVE TypeOK
    OBVIOUS
  <2>1. Ids(record.edits) \subseteq EditIds
    BY IdsOfChain DEF EditorInv, RoutesInv, Stored, Scenarios
  <2>2. Parses(NoSession.new) /\ NoSession.kind = "none"
    BY NoScenarioIsStored DEF NoSession, Stored
  <2>3. ASSUME NEW h \in Handlers
        PROVE  /\ session[h].kind \in {"none", "append", "delete", "reorder", "upload"}
               /\ session[h].kind = "none" <=> session[h] = NoSession
               /\ Parses(session[h].new)
    BY <2>2 DEF EditorInv, RoutesInv, Kinds, Stored
  <2> QED BY <2>1, <2>3 DEF TypeOK, EditorInv, RoutesInv, Stored
<1> QED BY EditorInvariant, <1>1, PTL

\* The static driver is written from chains only that replay soundly, and it shows the
\* buildings that they add, whatever was uploaded (DriverIsSound).
THEOREM DriversAreSound == EditorSpec => []DriverIsSound
<1>1. EditorInv => DriverIsSound
  BY ValidChainsAreSound, AddedBuildingsAreDrawn, DrawnAreNumbers
     DEF EditorInv, RoutesInv, DriverIsSound
<1> QED BY EditorInvariant, <1>1, PTL

\* No route makes the quality tier better by adding an edit, or other by reordering them
\* (TierNeverImproves).
THEOREM TiersNeverImprove == EditorSpec => []TierNeverImproves
<1>1. EditorInv => TierNeverImproves
  <2> SUFFICES ASSUME EditorInv, NEW h \in Handlers, NEW tier \in 1..3
               PROVE  LET s == session[h]
                      IN  /\ s.kind = "append" =>
                                DowngradedTier(tier, s.new) <= DowngradedTier(tier, s.read)
                          /\ s.kind = "reorder" =>
                                DowngradedTier(tier, s.new) = DowngradedTier(tier, s.read)
    BY DEF TierNeverImproves
  <2> DEFINE s == session[h]
             HasLarge(scenario) == \E e \in ToSet(scenario.edits) : Large(e)
  <2>1. \A scenario : (\E i \in DOMAIN scenario.edits : Large(scenario.edits[i]))
                          <=> HasLarge(scenario)
    BY DEF ToSet
  <2>2. \A scenario : DowngradedTier(tier, scenario) =
            IF scenario.edits = <<>> THEN tier
            ELSE IF HasLarge(scenario) THEN 1
            ELSE IF tier > 2 THEN 2 ELSE tier
    BY <2>1 DEF DowngradedTier
  <2>3. s.kind \in {"append", "reorder"} => Follows(s.kind, s.read, s.new)
    BY DEF EditorInv, RoutesInv, NoSession
  <2>4. s.kind = "append" => (HasLarge(s.read) => HasLarge(s.new)) /\ s.new.edits # <<>>
    BY <2>3 DEF Follows
  <2>5. s.kind = "reorder" => /\ HasLarge(s.read) <=> HasLarge(s.new)
                              /\ s.read.edits # <<>> /\ s.new.edits # <<>>
    BY <2>3 DEF Follows
  <2> HIDE DEF s, HasLarge
  <2> QED BY <2>2, <2>4, <2>5 DEF s
<1> QED BY EditorInvariant, <1>1, PTL

\* The edits that the page loaded stay in the database until the user undoes them or
\* somebody else writes the scenario (LoadedEditsStay).
THEOREM LoadedEditsAreSafe == EditorSpec => []LoadedEditsStay
<1>1. EditorInv => LoadedEditsStay
  BY DEF EditorInv, PageKeeps, Keeps, Pages, LoadedEditsStay
<1> QED BY EditorInvariant, <1>1, PTL

\* A step that changes the stored chain stores one that was uploaded or that replays
\* soundly, whatever requests race (EditRoutesKeepChainsSound).
THEOREM StoredChainsAreSound == EditorSpec => EditRoutesKeepChainsSound
<1>1. EditorInv /\ EditorInv' =>
          [record' # record => record' \in Uploads \/ Sound(record')]_vars
  <2>1. Sound(record') <=> Sound(record)'
    BY DEF Sound, NothingIsSkipped, MovesNothing, AddedStandClear, HeightsArePlausible,
           KnowsWhatStands, Validated, EditedBefore, Resolve, Base
  <2> QED BY <2>1 DEF EditorInv, RoutesInv, Stored
<1> QED BY EditorInvariant, <1>1, PTL DEF EditRoutesKeepChainsSound
=============================================================================
