--------------------------- MODULE BuildingEdits ---------------------------
(***************************************************************************)
(* Building geometry editing: the edit chain that a scenario keeps, the    *)
(* routes that append to it, delete from it and reorder it, the validator  *)
(* and the resolver that replay it (validation/buildings.py), and the run  *)
(* that turns the resolved buildings into PALM's static driver.            *)
(***************************************************************************)
EXTENDS Naturals, SequencesExt

CONSTANTS
    EditIds,        \* numbers n, for the ids "e<n>" of edits and "edit:e<n>" of buildings
    None,           \* an absent field
    Snapshots,      \* base_snapshot_id -> the buildings that load_snapshot returns
    Cells,          \* the places of the plane that are the centre of a grid cell
    Ground,         \* the places of the domain inside the ghost layer
    Bodies,         \* the edits that clients post, without an id
    Uploads,        \* the bodies of PUT requests: scenarios with their edit chains
    Handlers,       \* concurrent requests that write the scenario
    HeightMin, HeightMax, LargeHeight, LargeArea,
    MaxEdits,       \* bound: the length of a chain
    MaxRequests     \* bound: the requests that are accepted

\* The edits that can be in a chain: what was posted, with an id, and what was PUT.
Edits == {[body EXCEPT !.id = n] : body \in Bodies, n \in EditIds}
            \cup UNION {ToSet(s.edits) : s \in Uploads}

\* snapshot is base_snapshot_id, edits the chain in buildings_edits.
Scenarios == [snapshot : {s.snapshot : s \in Uploads} \cup {None}, edits : Seq(Edits)]

ASSUME EditIdsAssumption ==
    /\ EditIds \subseteq Nat
    /\ IsFiniteSet(EditIds) => MaxEdits <= Cardinality(EditIds)
ASSUME BoundsAssumption == MaxEdits \in Nat /\ MaxRequests \in Nat

\* A GeoJSON geometry: the places inside its outer ring; the core that is left of them when
\* the ring is shrunk by OVERLAP_TOLERANCE_M; whether _polygon_from_geojson_metric can read
\* it (a Polygon, closed, of four coordinates); and what _write_buildings, which asks less
\* and has valid rings only, makes of it.  What is no geometry at all is an error there.
IsShape(s) ==
    /\ s.readable \in BOOLEAN /\ s.drawing \in {"drawn", "skipped", "error"}
    /\ s.readable => s.drawing # "error"
    /\ s.readable /\ s.drawing = "drawn" => s.core \subseteq s.inside

\* A height is a number, or a text that float() reads as one; "nan", which lies outside of
\* no range, is a text whose value is in the range.
IsHeight(h) == h.value \in Nat /\ h.text \in BOOLEAN

ASSUME HeightsAssumption ==
    {HeightMin, HeightMax, LargeHeight, LargeArea} \subseteq Nat /\ HeightMin > 0
\* resolve_buildings reads the heights of the base with float().
ASSUME SnapshotsAssumption ==
    \A s \in DOMAIN Snapshots :
        /\ IsFiniteSet(DOMAIN Snapshots[s]) /\ DOMAIN Snapshots[s] \cap EditIds = {}
        /\ Snapshots[s] = [b \in DOMAIN Snapshots[s] |-> Snapshots[s][b]]
        /\ \A b \in DOMAIN Snapshots[s] :
              /\ IsShape(Snapshots[s][b].shape)
              /\ IsHeight(Snapshots[s][b].height) /\ ~Snapshots[s][b].height.text
\* The edit models: an edit that adds has a geometry and a number for its height; one that
\* modifies may have any of both.
ASSUME EditsAssumption ==
    \A e \in Edits :
        /\ e.op \in {"add", "modify", "remove"} /\ e.id \in EditIds
        /\ e.op = "add" => IsShape(e.shape) /\ IsHeight(e.height) /\ ~e.height.text
        /\ e.op = "modify" => /\ e.shape = None \/ IsShape(e.shape)
                              /\ e.height = None \/ IsHeight(e.height)
ASSUME UploadsAssumption ==
    Uploads \subseteq Scenarios /\ \A s \in Uploads : Len(s.edits) <= MaxEdits

VARIABLES
    record,     \* scenario_json in the database, as far as buildings are concerned
    session,    \* what each handler has read and is about to commit
    driver,     \* the scenario that the last static driver was written from
    requests    \* counter for the bound

vars == <<record, session, driver, requests>>

-----------------------------------------------------------------------------
(* Resolution: buildings are functions from ids to shapes and heights, as  *)
(* they came; the resolver reads none of them.                             *)

NoScenario == [snapshot |-> None, edits |-> <<>>]

Base(scenario) ==
    IF scenario.snapshot \in DOMAIN Snapshots THEN Snapshots[scenario.snapshot] ELSE <<>>

With(f, x, y) == [z \in DOMAIN f \cup {x} |-> IF z = x THEN y ELSE f[z]]

Without(f, x) == Restrict(f, DOMAIN f \ {x})

Or(a, b) == IF a # None THEN a ELSE b

\* modify sets whatever attribute the edit names; an unknown target is skipped.
Applied(buildings, e) ==
    LET t == e.target
    IN  CASE e.op = "add" ->
               With(buildings, e.id, [shape |-> e.shape, height |-> e.height])
          [] e.op = "modify" /\ t \in DOMAIN buildings ->
               [buildings EXCEPT ![t] =
                   [shape |-> Or(e.shape, @.shape), height |-> Or(e.height, @.height)]]
          [] e.op = "remove" -> Without(buildings, t)
          [] OTHER -> buildings

Resolved(base, edits) == FoldLeft(Applied, base, edits)

Resolve(scenario) == Resolved(Base(scenario), scenario.edits)

\* _write_buildings: a cell whose centre lies in a ring gets the tallest building there.
Over(buildings, c) ==
    {b \in DOMAIN buildings :
        buildings[b].shape.drawing = "drawn" /\ c \in buildings[b].shape.inside}

Raster(buildings) ==
    [c \in {g \in Cells : \E b \in Over(buildings, g) : buildings[b].height.value > 0} |->
        CHOOSE b \in Over(buildings, c) :
            \A d \in Over(buildings, c) : buildings[d].height.value <= buildings[b].height.value]

\* It raises on what is no geometry, and where it compares a text with a number.
Writable(buildings) ==
    \A b \in DOMAIN buildings :
        /\ buildings[b].shape.drawing # "error"
        /\ buildings[b].height.text => \A c \in Cells : b \notin Over(buildings, c)

-----------------------------------------------------------------------------
(* Validation: the working set holds the polygons that could be read, of   *)
(* which only the cores are looked at again.                               *)

InRange(h) == HeightMin <= h /\ h <= HeightMax

Start(base) ==
    [known |-> [b \in {c \in DOMAIN base : base[c].shape.readable} |-> base[b].shape.core],
     valid |-> TRUE]

Wrong(w) == [w EXCEPT !.valid = FALSE]

\* Rules 1 to 6; nothing inside stands for an area or an edge that is too small.
CheckedAdd(w, e) ==
    IF /\ e.shape.readable /\ e.shape.drawing = "drawn"
       /\ e.shape.inside # {} /\ e.shape.inside \subseteq Ground
       /\ InRange(e.height.value)
       /\ \A b \in DOMAIN w.known : w.known[b] \cap e.shape.core = {}
    THEN [w EXCEPT !.known = With(@, e.id, e.shape.core)]
    ELSE Wrong(w)

\* Rule 7, and of the attributes only what float() makes of the height.
CheckedModify(w, e) ==
    IF e.target \in DOMAIN w.known /\ (e.height # None => InRange(e.height.value))
    THEN w ELSE Wrong(w)

\* (Mutant: a removed building stays known.)
CheckedRemoveOnly(w, e) == IF e.target \in DOMAIN w.known THEN w ELSE Wrong(w)

CheckedRemove(w, e) ==
    IF e.target \in DOMAIN w.known
    THEN [w EXCEPT !.known = Without(@, e.target)] ELSE Wrong(w)

Checked(w, e) ==
    CASE e.op = "add"    -> CheckedAdd(w, e)
      [] e.op = "modify" -> CheckedModify(w, e)
      [] e.op = "remove" -> CheckedRemove(w, e)

Validated(scenario) == FoldLeft(Checked, Start(Base(scenario)), scenario.edits)

Valid(scenario) == Validated(scenario).valid

\* The model's own check, on every parse of the JSON.
Ids(edits) == {edits[i].id : i \in DOMAIN edits}

Parses(scenario) == Cardinality(Ids(scenario.edits)) = Len(scenario.edits)

-----------------------------------------------------------------------------
(* The data quality tier: 1 screening, 2 project, 3 research.              *)

Large(e) ==
    /\ e.op = "add"
    /\ \/ e.height.value > LargeHeight
       \/ e.shape.readable /\ Cardinality(e.shape.inside) > LargeArea

\* (Mutant: a large building that was removed again no longer counts.)
TierOfStanding(tier, scenario) ==
    LET standing == Resolve(scenario)
    IN  IF scenario.edits = <<>> THEN tier
        ELSE IF \E i \in DOMAIN scenario.edits :
                   Large(scenario.edits[i]) /\ scenario.edits[i].id \in DOMAIN standing
             THEN 1
        ELSE IF tier > 2 THEN 2 ELSE tier

DowngradedTier(tier, scenario) ==
    IF scenario.edits = <<>> THEN tier
    ELSE IF \E i \in DOMAIN scenario.edits : Large(scenario.edits[i]) THEN 1
    ELSE IF tier > 2 THEN 2 ELSE tier

-----------------------------------------------------------------------------
(* The routes.  Each reads the scenario, makes a new one, and commits it   *)
(* after the handler; what does not pass is refused and changes nothing.   *)

NoSession == [kind |-> "none", read |-> NoScenario, new |-> NoScenario]

Init ==
    /\ record \in {s \in Uploads : Parses(s)} \cup {NoScenario}
    /\ session = [h \in Handlers |-> NoSession]
    /\ driver = NoScenario
    /\ requests = 0

Free(h) == session[h] = NoSession /\ requests < MaxRequests

Accepted(h, kind, new) ==
    /\ Free(h)
    /\ session' = [session EXCEPT ![h] = [kind |-> kind, read |-> record, new |-> new]]
    /\ requests' = requests + 1
    /\ UNCHANGED <<record, driver>>

WithEdits(edits) == [record EXCEPT !.edits = edits]

\* The smallest number that no edit has.
NextEditId == CHOOSE n \in EditIds \ Ids(record.edits) :
                  \A m \in EditIds \ Ids(record.edits) : n <= m

\* The client may name the edit, with any id.
AppendEdit(h, body, id) ==
    LET new == WithEdits(Append(record.edits, [body EXCEPT !.id = id]))
    IN  /\ Free(h) /\ record # NoScenario
        /\ Len(record.edits) < MaxEdits
        /\ Parses(new) /\ Valid(new)
        /\ Accepted(h, "append", new)

\* The chain without the edit of this id, of which there is one.
Less(edits, id) == RemoveAt(edits, CHOOSE i \in DOMAIN edits : edits[i].id = id)

\* (Mutant: the rest of the chain is not validated again.)
DeleteUnchecked(h, id) ==
    /\ id \in Ids(record.edits)
    /\ Accepted(h, "delete", WithEdits(Less(record.edits, id)))

DeleteEdit(h, id) ==
    LET new == WithEdits(Less(record.edits, id))
    IN  /\ Free(h) /\ id \in Ids(record.edits)
        /\ Valid(new)
        /\ Accepted(h, "delete", new)

\* ordered_ids names every edit; one that names an edit twice does not parse.
ReorderEdits(h) ==
    LET n == Len(record.edits)
    IN  /\ Free(h) /\ n > 0
        /\ \E order \in Bijection(1..n, 1..n) :
              LET new == WithEdits([i \in 1..n |-> record.edits[order[i]]])
              IN  Valid(new) /\ Accepted(h, "reorder", new)

\* PUT replaces the whole scenario and does not validate it.
\* (Mutant: nor does it parse it.)
UploadUnparsed(h, scenario) == Accepted(h, "upload", scenario)

Upload(h, scenario) == Parses(scenario) /\ Accepted(h, "upload", scenario)

\* The flush writes scenario_json, the whole of it, if it is not what was loaded: that it
\* may be even if the chain is, since a PUT brings trees and surfaces along.
Commit(h) ==
    LET s == session[h]
    IN  /\ s # NoSession
        /\ \/ s.new = s.read /\ record' = record
           \/ (s.new # s.read \/ s.kind = "upload") /\ record' = s.new
        /\ session' = [session EXCEPT ![h] = NoSession]
        /\ UNCHANGED <<driver, requests>>

Rollback(h) ==
    /\ session[h] # NoSession
    /\ session' = [session EXCEPT ![h] = NoSession]
    /\ UNCHANGED <<record, driver, requests>>

\* run_single_scenario: an invalid scenario gets no driver, nor does one that cannot be drawn.
Run ==
    /\ Valid(record) /\ Writable(Resolve(record))
    /\ driver' = record
    /\ UNCHANGED <<record, session, requests>>

-----------------------------------------------------------------------------

Request(h) ==
    \/ \E body \in Bodies :
          \/ AppendEdit(h, body, NextEditId)
          \/ \E id \in EditIds : AppendEdit(h, body, id)
    \/ \E id \in EditIds : DeleteEdit(h, id)
    \/ ReorderEdits(h)
    \/ \E s \in Uploads : Upload(h, s)

Next ==
    \/ \E h \in Handlers : Request(h) \/ Commit(h) \/ Rollback(h)
    \/ Run

Spec == Init /\ [][Next]_vars

-----------------------------------------------------------------------------
(* What a chain owes to the buildings that PALM sees, said of the resolver *)
(* and not of the validator.                                               *)

EditedBefore(scenario, i) == Resolved(Base(scenario), SubSeq(scenario.edits, 1, i - 1))

\* No edit is skipped for want of its target.
NothingIsSkipped(scenario) ==
    \A i \in DOMAIN scenario.edits :
        scenario.edits[i].op # "add" =>
            scenario.edits[i].target \in DOMAIN EditedBefore(scenario, i)

\* A new building stands in the domain and on nobody else's ground, as far as the validator
\* can read the others, and but for the overlap tolerance.
AddedStandClear(scenario) ==
    \A i \in DOMAIN scenario.edits :
        LET e == scenario.edits[i]
            standing == EditedBefore(scenario, i)
        IN  e.op = "add" =>
              /\ e.shape.inside \subseteq Ground
              /\ \A b \in DOMAIN standing :
                    standing[b].shape.readable => standing[b].shape.core \cap e.shape.core = {}

\* When the validator has done, it knows the readable ones of the buildings that stand.
KnowsWhatStands(scenario) ==
    LET standing == Resolve(scenario)
        known == Validated(scenario).known
    IN  /\ DOMAIN known = {b \in DOMAIN standing : standing[b].shape.readable}
        /\ \A b \in DOMAIN known : known[b] = standing[b].shape.core

\* PALM finds a building on every cell of the core of an added one, and it is this one
\* unless another one stands there that the validator could not read, or whose edge is
\* within the tolerance.
AddedAreDrawn(scenario) ==
    LET standing == Resolve(scenario)
        drawn == Raster(standing)
    IN  \A b \in DOMAIN standing \ DOMAIN Base(scenario) :
          \A c \in Cells \cap standing[b].shape.core :
              /\ c \in DOMAIN drawn
              /\ drawn[c] # b => LET other == standing[drawn[c]].shape
                                 IN  other.readable => c \notin other.core

HeightsArePlausible(scenario) ==
    LET standing == Resolve(scenario)
        base == Base(scenario)
    IN  \A b \in DOMAIN standing :
            \/ InRange(standing[b].height.value)
            \/ b \in DOMAIN base /\ standing[b].height = base[b].height

DrawnHeightsAreNumbers(scenario) ==
    LET standing == Resolve(scenario)
        drawn == Raster(standing)
    IN  \A c \in DOMAIN drawn : ~standing[drawn[c]].height.text

MovesNothing(scenario) ==
    \A i \in DOMAIN scenario.edits :
        scenario.edits[i].op = "modify" => scenario.edits[i].shape = None

Sound(scenario) ==
    /\ NothingIsSkipped(scenario)
    /\ HeightsArePlausible(scenario)
    /\ MovesNothing(scenario) => AddedStandClear(scenario) /\ KnowsWhatStands(scenario)

\* The stored scenario parses whenever it is loaded again: no interleaving of the
\* routes stores two edits with one id, and a session commits what it read and made.
TypeOK ==
    /\ Parses(record) /\ Len(record.edits) <= MaxEdits
    /\ Ids(record.edits) \subseteq EditIds
    /\ \A h \in Handlers :
          /\ session[h].kind \in {"none", "append", "delete", "reorder", "upload"}
          /\ session[h].kind = "none" <=> session[h] = NoSession
          /\ Parses(session[h].new)
    /\ requests \in 0..MaxRequests

\* Whatever requests race, the chain in the database is one that a client uploaded
\* or one that replays on the resolver without a skipped edit, an overlap or an
\* impossible height: the last writer wins as a whole, and deleting or reordering
\* cannot pull a building away from under a later edit.
EditRoutesKeepChainsSound ==
    [][record' # record => record' \in Uploads \/ Sound(record')]_vars

\* An uploaded chain that was never validated does not get as far as PALM: the static
\* driver is written from sound chains only, so that the validator and the resolver,
\* which replay the chain each in its own way, agree on every building; every height on
\* the grid is a number; and the grid shows each building that was added, where no building
\* unknown to the validator and no neighbour within the tolerance is in its place.
DriverIsSound ==
    driver # NoScenario =>
        /\ Sound(driver) /\ DrawnHeightsAreNumbers(driver)
        /\ MovesNothing(driver) => AddedAreDrawn(driver)

\* Appending an edit never raises the data quality tier (removing the tall building again
\* does not wash the scenario clean), and reordering the chain does not change it.
TierNeverImproves ==
    \A h \in Handlers, tier \in 1..3 :
        LET Tier(scenario) == DowngradedTier(tier, scenario)
            s == session[h]
        IN  /\ s.kind = "append" => Tier(s.new) <= Tier(s.read)
            /\ s.kind = "reorder" => Tier(s.new) = Tier(s.read)

-----------------------------------------------------------------------------
\* static_driver.py:228, "If multiple buildings overlap a cell (shouldn't happen after
\* validation)", and ADR-004 section 4, rule 6: no building that the chain made or changed
\* shares ground with another one in the static driver, the overlap tolerance apart.
NoOverlapInDriver ==
    LET standing == Resolve(driver)
        base == Base(driver)
        Untouched(b) == b \in DOMAIN base /\ standing[b] = base[b]
        Drawn == {d \in DOMAIN standing :
                     standing[d].shape.readable /\ standing[d].shape.drawing = "drawn"}
    IN  \A b, c \in Drawn :
            b # c /\ ~ Untouched(b) => standing[b].shape.core \cap standing[c].shape.core = {}

=============================================================================
