------------------------------ MODULE MCSpine ------------------------------
(* Model checking of Spine and Comparison: scenarios on either side of     *)
(* each limit, fields with cells at, above and below thresholds.           *)
EXTENDS Comparison, TLC

District == [width |-> 10000, height |-> 10000, cosine |-> 6]
Degrees  == [width |-> 2, height |-> 1, cosine |-> 6]

In(box, resolution, geographic) ==
    [bbox |-> box, resolution |-> resolution, geographic |-> geographic]

Domains == {In(District, 10, FALSE), In(District, 10, TRUE), In(District, 5, FALSE),
            In(District, 20, FALSE), In(Degrees, 10, TRUE), In(Degrees, 10, FALSE),
            In(Degrees, 5, TRUE)}

Tiers(b, t, v) == [buildings |-> b, terrain |-> t, vegetation |-> v]

SomeTiers == {Tiers("screening", "screening", "project"),
              Tiers("research", "research", "research"),
              Tiers("project", "research", "screening"),
              Tiers("research", "project", "research")}

Change(category, type, cells) ==
    [category |-> category, type |-> type, place |-> "inside", cells |-> cells]

A == <<1, 1>>
B == <<1, 2>>

Park == <<Change("pavement", 1, {A, B}), Change("vegetation", 8, {B}), Change("water", 1, {A}),
          Change("pavement", 5, {A})>>

Plain(domain, tier) ==
    [domain |-> domain, tier |-> tier, trees |-> {}, surface_changes |-> <<>>,
     green_roofs |-> {}, buildings_edits |-> "none", interval_exceeds_runtime |-> FALSE]

Sample == Plain(In(District, 10, FALSE), Tiers("research", "research", "research"))

Contents ==
    {Plain(d, t) : d \in Domains, t \in SomeTiers}
    \cup {[Sample EXCEPT !.trees = {x}] : x \in {"fine", "unknown_species", "outside_domain"}}
    \cup {[Sample EXCEPT !.surface_changes = Park],
          [Sample EXCEPT !.surface_changes = <<[Park[1] EXCEPT !.category = "unknown"]>>],
          [Sample EXCEPT !.surface_changes = <<[Park[1] EXCEPT !.place = "outside"]>>],
          [Sample EXCEPT !.green_roofs = {"no_building_id"}],
          [Sample EXCEPT !.interval_exceeds_runtime = TRUE]}
    \cup {[Sample EXCEPT !.buildings_edits = e] : e \in {"small", "large_add", "broken"}}

\* Two rows of three cells, the south first.
PetField(south, north) == [c \in Grid |-> IF c[1] = 1 THEN south[c[2]] ELSE north[c[2]]]

SomePetFields ==
    {PetField(<<290, 291, 350>>, <<229, 230, 411>>),
     PetField(<<290, 290, 290>>, <<230, 230, 230>>),
     PetField(<<Fill, 286, 410>>, <<Fill, 236, 405>>),
     PetField(<<300, Fill, 345>>, <<Fill, Fill, 351>>),
     PetField(<<Fill, Fill, Fill>>, <<175, 231, Fill>>)}

\* The other fields have values everywhere, but for a run without surface temperatures.
SomeMasks ==
    {[f \in Fields |-> IF f = "bio_pet" THEN HasValue(p) ELSE Grid] : p \in SomePetFields}
    \cup {[f \in Fields |-> IF f = "t_surface" THEN {} ELSE Grid]}

Floors == <<40, 80, 130, 180, 230, 290, 350, 410>>
=============================================================================
