---------------------------- MODULE ForcingFiles ----------------------------
(***************************************************************************)
(* The forcing files of a project, backend/src/api/main.py: a row in the   *)
(* database and a file in the upload directory, which the routes write and *)
(* unlink while their session is still open, on top of the projects that   *)
(* ProjectData creates and deletes around them.  Project has no            *)
(* relationship to its forcing files: they stay when it is deleted.        *)
(***************************************************************************)
EXTENDS ProjectData

CONSTANTS
    FileNames,      \* the names that clients give their files
    Contents,       \* what clients upload
    Passing         \* the contents that validate_forcing_file finds no errors in

ASSUME ForcingAssumption == Passing \subseteq Contents

VARIABLES
    forcing,    \* forcing_files, by id
    disk,       \* PALM4U_FORCING_DIR: stored name -> content
    past        \* history: see ForcingDescribesDisk

forcingVars == <<forcing, disk, past>>
allVars     == <<vars, forcingVars>>

-----------------------------------------------------------------------------

ForcingInit ==
    /\ Init
    /\ forcing = <<>> /\ disk = <<>>
    /\ past = [shared |-> FALSE, undone |-> FALSE, twice |-> FALSE]

\* (Mutant: the stored name does not say whose file it is.)
SharedName(row) == <<row.name>>

\* filename, "proj{project_id}_{name}".
StoredName(row) == <<row.project, row.name>>

Uploading(h) == session[h].op = "upload_forcing"
Deleting(h)  == session[h].op = "delete_forcing"
Unlinked(h)  == Deleting(h) /\ session[h].new = "unlinked"

\* The project has a file of this name, or one is under way.
Taken(p, name) ==
    LET rows == {forcing[f] : f \in DOMAIN forcing}
                    \cup {session[h].row : h \in {g \in Handlers : Uploading(g)}}
    IN  \E row \in rows : row.project = p /\ row.name = name

AcceptedForcing(h, op, id, row, new) == Accepted(h, op, id, row, new) /\ UNCHANGED forcing

\* The file is written, over whatever has its name, and then validated.
UploadForcing(h, u, p, name, content) ==
    LET row == [project |-> p, name |-> name, size |-> content,
                validated |-> content \in Passing]
    IN  /\ May(u, p, "editor")
        /\ disk' = With(disk, StoredName(row), content)
        /\ past' = [past EXCEPT !.shared = @ \/ Taken(p, name)]
        /\ AcceptedForcing(h, "upload_forcing", None, row, None)

\* The row is read.
DeleteForcing(h, u, p, f) ==
    /\ f \in DOMAIN forcing /\ forcing[f].project = p
    /\ May(u, p, "editor")
    /\ past' = [past EXCEPT !.twice = @ \/ \E g \in Handlers : Deleting(g) /\ session[g].id = f]
    /\ UNCHANGED disk
    /\ AcceptedForcing(h, "delete_forcing", f, forcing[f], "found")

\* The handler goes on: it unlinks the file, if there is one, before the row goes.
UnlinkForcing(h) ==
    /\ Deleting(h) /\ ~Unlinked(h)
    /\ disk' = Without(disk, {StoredName(session[h].row)})
    /\ session' = [session EXCEPT ![h].new = "unlinked"]
    /\ UNCHANGED <<tables, requests, clashed, crossed, forcing, past>>

ForcingUploaded(h) ==
    /\ Writes(h, "upload_forcing")
    /\ NewId(forcing) <= MaxId
    /\ forcing' = Insert(forcing, session[h].row)
    /\ UNCHANGED <<tables, disk, past>>

ForcingDeleted(h) ==
    /\ Unlinked(h) /\ Writes(h, "delete_forcing")
    /\ forcing' = Without(forcing, {session[h].id})
    /\ UNCHANGED <<tables, disk, past>>

\* The transaction is undone, what was done to the file is not.
ForcingUndone(h) ==
    /\ Uploading(h) \/ Deleting(h)
    /\ Rollback(h)
    /\ past' = [past EXCEPT !.undone = @ \/ Unlinked(h)]
    /\ UNCHANGED <<forcing, disk>>

-----------------------------------------------------------------------------

ForcingStep(h) ==
    \/ \E u \in Users, p \in 1..MaxId :
          \/ \E name \in FileNames, c \in Contents : UploadForcing(h, u, p, name, c)
          \/ \E f \in DOMAIN forcing : DeleteForcing(h, u, p, f)
    \/ UnlinkForcing(h)
    \/ ForcingUploaded(h) \/ ForcingDeleted(h) \/ ForcingUndone(h)

\* A step of the other routes leaves the sessions of these alone.
OtherStep ==
    /\ Next
    /\ \A h \in Handlers : Uploading(h) \/ Deleting(h) => session'[h] = session[h]
    /\ UNCHANGED forcingVars

ForcingNext == OtherStep \/ \E h \in Handlers : ForcingStep(h)

ForcingSpec == ForcingInit /\ [][ForcingNext]_allVars

-----------------------------------------------------------------------------

\* A forcing record describes the file on the disk, its size and whether it was valid:
\* neither overlapping requests, nor a project of the same name of a file, nor a project
\* id that comes back change that, except while a deletion is between the unlink and its commit
\* and unless a second file of the same name was uploaded to the project, a deletion was
\* undone after the unlink, or two deletions of one record overlapped (the later one then
\* unlinks what has been uploaded since).
ForcingDescribesDisk ==
    ~past.shared /\ ~past.undone /\ ~past.twice =>
        \A f \in DOMAIN forcing :
            \/ \E h \in Handlers : Unlinked(h) /\ session[h].id = f
            \/ LET stored == StoredName(forcing[f])
               IN  /\ stored \in DOMAIN disk
                   /\ disk[stored] = forcing[f].size
                   /\ forcing[f].validated = (disk[stored] \in Passing)
=============================================================================
