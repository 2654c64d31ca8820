----------------------------- MODULE EditorPage -----------------------------
(***************************************************************************)
(* The scenario editor, frontend/src/app/projects/[id]/page.tsx, as a      *)
(* client of the building routes: it keeps a copy of the scenario that it  *)
(* loaded, edits buildings through the routes, which leaves the copy as it *)
(* is, and saves the copy with one PUT.  Other clients go on as in         *)
(* BuildingEdits.                                                          *)
(***************************************************************************)
EXTENDS BuildingEdits

CONSTANT EmptyChain     \* what the page initialises buildings_edits with

ASSUME EmptyChainAssumption == EmptyChain \in Uploads /\ EmptyChain.edits = <<>>

VARIABLE page

pageVars == <<vars, page>>

-----------------------------------------------------------------------------

\* copy: the state variable scenario; listed: its record in scenarioList; pc: what
\* handleBuildingDrawComplete waits for, with the handler of its request; history: the
\* edits that the page loaded, those that the user undid, and whether anybody else wrote.
EditorInit ==
    /\ Init
    /\ page = [copy |-> record, listed |-> record, saved |-> None, pc |-> "idle", by |-> None,
               loaded |-> ToSet(record.edits), undone |-> {}, others |-> FALSE]

\* selectScenario takes the record in the list, and asks nobody for a newer one.
Select ==
    /\ page' = [page EXCEPT !.copy = page.listed]
    /\ UNCHANGED vars

\* saveScenario: the whole copy is PUT, whatever has been edited since.
Save(h) ==
    /\ page.saved = None
    /\ Upload(h, page.copy)
    /\ page' = [page EXCEPT !.saved = page.copy]

Saved ==
    /\ page.saved # None
    /\ page' = [page EXCEPT !.listed = page.saved, !.saved = None]
    /\ UNCHANGED vars

\* handleBuildingDrawComplete: a copy without buildings_edits is first PUT with an empty
\* chain (bound: by one drawing at a time) ...
\* (Mutant: the chain is initialised every time.)
AlwaysInitialise(h) ==
    /\ page.pc = "idle"
    /\ Upload(h, EmptyChain)
    /\ page' = [page EXCEPT !.pc = "initialising", !.by = h]

Initialise(h) ==
    /\ page.pc = "idle" /\ page.copy = NoScenario
    /\ Upload(h, EmptyChain)
    /\ page' = [page EXCEPT !.pc = "initialising", !.by = h]

\* (the answer may come before the commit: releases of FastAPI differ)
Initialised ==
    /\ page.pc = "initialising"
    /\ page' = [page EXCEPT !.pc = "drawing", !.by = None, !.copy = EmptyChain]
    /\ UNCHANGED vars

\* ... and then, or at once, the building is appended.
Draw(h, body) ==
    /\ body.op = "add"
    /\ page.pc = "drawing" \/ page.copy # NoScenario
    /\ AppendEdit(h, body, NextEditId)
    /\ page' = [page EXCEPT !.pc = "idle"]

\* The append is refused, or fails.
DrawFails ==
    /\ page.pc = "drawing"
    /\ page' = [page EXCEPT !.pc = "idle"]
    /\ UNCHANGED vars

\* handleBuildingModifyHeight and handleBuildingRemove initialise nothing.
Change(h, body) ==
    /\ body.op \in {"modify", "remove"}
    /\ AppendEdit(h, body, NextEditId)
    /\ UNCHANGED page

\* handleBuildingEditDelete.
Undo(h, id) ==
    /\ DeleteEdit(h, id)
    /\ page' = [page EXCEPT !.undone = @ \cup {id}]

PageStep(h) ==
    \/ Save(h) \/ Initialise(h)
    \/ \E body \in Bodies : Draw(h, body) \/ Change(h, body)
    \/ \E id \in EditIds : Undo(h, id)

-----------------------------------------------------------------------------

\* Somebody else's request.
OthersStep(h) == Request(h) /\ page' = [page EXCEPT !.others = TRUE]

\* A PUT that fails gives the drawing up.
Ends(h) ==
    \/ Commit(h) /\ UNCHANGED page
    \/ /\ Rollback(h)
       /\ page' = IF page.by = h THEN [page EXCEPT !.pc = "idle", !.by = None] ELSE page

EditorNext ==
    \/ \E h \in Handlers : PageStep(h) \/ OthersStep(h) \/ Ends(h)
    \/ Select \/ Saved \/ Initialised \/ DrawFails
    \/ Run /\ UNCHANGED page

EditorSpec == EditorInit /\ [][EditorNext]_pageVars

-----------------------------------------------------------------------------

\* Whatever the user draws, changes, reselects and saves, in requests that overlap, are
\* rolled back or are answered early: the edits that the chain had when the page was
\* loaded stay in it until the user undoes them or another client writes the scenario.
\* (No more than these: Save overwrites the edits made since with the page's copy.)
LoadedEditsStay ==
    \A e \in page.loaded :
        e \in ToSet(record.edits) \/ e.id \in page.undone \/ page.others
=============================================================================
