-------------------------- MODULE MCBuildingEdits --------------------------
(* Model checking of BuildingEdits and EditorPage: the centres of five cells, the last of *)
(* them in the ghost layer.                                                              *)
EXTENDS EditorPage

CONSTANTS b1, b2, b3

Shape(inside, core, readable, drawing) ==
    [inside |-> inside, core |-> core, readable |-> readable, drawing |-> drawing]

\* A centre inside a building but not in its core lies within the tolerance of its edge.
Block(inside, core)  == Shape(inside, core, TRUE, "drawn")
MultiPolygon         == Shape({}, {}, FALSE, "skipped")
OpenRing(inside)     == Shape(inside, inside, FALSE, "drawn")
NoGeometry           == Shape({}, {}, FALSE, "error")

Metres(n)            == [value |-> n, text |-> FALSE]
Quoted(n)            == [value |-> n, text |-> TRUE]
Building(shape, h)   == [shape |-> shape, height |-> h]

SomeCells  == 1..5
SomeGround == 1..4

SomeSnapshots ==
    [osm |-> b1 :> Building(Block({1, 2}, {1}), Metres(12))
          @@ b2 :> Building(MultiPolygon, Metres(400))
          @@ b3 :> Building(OpenRing({4}), Metres(20))]

Edit(op, target, shape, h) ==
    [op |-> op, target |-> target, shape |-> shape, height |-> h, id |-> 0]

Add(shape, h)          == Edit("add", None, shape, h)
Modify(t, shape, h)    == Edit("modify", t, shape, h)
Demolish(t)            == Edit("remove", t, None, None)
Named(e, n)            == [e EXCEPT !.id = n]
Scenario(s, edits)     == [snapshot |-> s, edits |-> edits]

\* A tall building on the ground of b1; another one that meets the edge of b1 and the ring
\* that the validator cannot read; one half outside.
Tall    == Add(Block({1, 3}, {1, 3}), Metres(40))
Low     == Add(Block({2, 3, 4}, {2, 3, 4}), Metres(10))
Outside == Add(Block({4, 5}, {4}), Metres(12))

SomeBodies ==
    {Tall, Low, Outside,
     Modify(1, None, Metres(200)), Modify(1, None, Metres(400)), Modify(1, None, Quoted(12)),
     Modify(b1, Block({3}, {3}), None), Modify(b1, NoGeometry, None), Modify(b2, None, Metres(20)),
     Demolish(b1), Demolish(1)}

\* An empty chain; the same on a snapshot that is not there; one whose second edit needs
\* the first; one that refers to a building that is gone; one that does not parse.
SomeUploads ==
    {Scenario("osm", <<>>), Scenario("lost", <<>>),
     Scenario("osm", <<Named(Low, 1), Named(Modify(1, None, Metres(200)), 2)>>),
     Scenario("osm", <<Named(Demolish(b1), 1), Named(Modify(b1, None, Metres(20)), 2)>>),
     Scenario("osm", <<Named(Demolish(b1), 1), Named(Low, 1)>>)}

TheEmptyChain == Scenario("osm", <<>>)

Symmetric == Permutations(Handlers)
=============================================================================
