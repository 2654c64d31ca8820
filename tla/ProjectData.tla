---------------------------- MODULE ProjectData ----------------------------
(***************************************************************************)
(* Projects, their members, scenarios and jobs, and the users' flags: the  *)
(* rows that refer to one another by id, and the routes of                 *)
(* backend/src/api/main.py that insert, change and delete them.  A route   *)
(* reads and checks, and its session writes at the commit.  The database   *)
(* is SQLite, the default: a new row takes the largest id plus one, so an  *)
(* id can come back, and foreign keys are not enforced; NOT NULL and       *)
(* UNIQUE are.                                                             *)
(***************************************************************************)
EXTENDS Naturals, SequencesExt

CONSTANTS
    Users,          \* the registered users
    Administrators, \* those who are administrators at first
    Handlers,       \* concurrent requests
    None,           \* NULL, no request
    MaxId,          \* bound: the ids of each table
    MaxRequests     \* bound: the requests that pass their checks

ASSUME UsersAssumption == Administrators \subseteq Users /\ Administrators # {}
ASSUME BoundsAssumption == MaxId \in Nat /\ MaxRequests \in Nat

VARIABLES
    account,    \* users: is_admin and is_active
    project,    \* projects, by id: the user who created it
    member,     \* project_members, by id
    scenario,   \* scenario_records, by id: its project
    job,        \* jobs, by id, and the projects whose scenarios it has read
    session,    \* what each handler has read and is about to write
    requests,   \* counter for the bound
    clashed,    \* history: a deletion overlapped another request
    crossed     \* history: an administrator was put out while a patch of his was under way

tables == <<account, project, member, scenario, job>>
vars   == <<account, project, member, scenario, job, session, requests, clashed, crossed>>

-----------------------------------------------------------------------------

Role == {"viewer", "editor", "owner"}

Level == [none |-> 0, viewer |-> 1, editor |-> 2, owner |-> 3]

NewId(table) == 1 + Max(DOMAIN table \cup {0})

With(table, id, row) == [i \in DOMAIN table \cup {id} |-> IF i = id THEN row ELSE table[i]]

Insert(table, row) == With(table, NewId(table), row)

Without(table, ids) == Restrict(table, DOMAIN table \ ids)

MembersOf(p) == {m \in DOMAIN member : member[m].project = p}

IsMember(p, u) == \E m \in MembersOf(p) : member[m].user = u

Member(p, u, role) == [project |-> p, user |-> u, role |-> role]

\* The role in the membership table, else the creator's of an old project.
RoleOf(u, p) ==
    IF IsMember(p, u)
    THEN member[CHOOSE m \in MembersOf(p) : member[m].user = u].role
    ELSE IF p \in DOMAIN project /\ project[p] = u THEN "owner" ELSE "none"

LoggedIn(u) == account[u].is_active

Administers(u) == LoggedIn(u) /\ account[u].is_admin

May(u, p, least) == LoggedIn(u) /\ Level[RoleOf(u, p)] >= Level[least]

NoSession == [op |-> "none", id |-> None, row |-> None, new |-> None]

Init ==
    /\ account = [u \in Users |-> [is_admin |-> u \in Administrators, is_active |-> TRUE]]
    /\ project = <<>> /\ member = <<>> /\ scenario = <<>> /\ job = <<>>
    /\ session = [h \in Handlers |-> NoSession]
    /\ requests = 0
    /\ clashed = FALSE /\ crossed = FALSE

-----------------------------------------------------------------------------
(* The checks.  id and row: the row as it was read, or the row to insert.  *)

Removes(op) == op \in {"delete_project", "remove_member"}

Accepted(h, op, id, row, new) ==
    /\ session[h] = NoSession /\ requests < MaxRequests
    /\ requests' = requests + 1
    /\ session' = [session EXCEPT ![h] = [op |-> op, id |-> id, row |-> row, new |-> new]]
    /\ clashed' = (clashed \/ \E g \in Handlers :
                                session[g] # NoSession
                                /\ (Removes(op) \/ Removes(session[g].op)))
    /\ UNCHANGED <<tables, crossed>>

CreateProject(h, u) == LoggedIn(u) /\ Accepted(h, "create_project", None, [user |-> u], None)

\* db.delete loads the members, which go with their project.
DeleteProject(h, u, p) ==
    /\ May(u, p, "owner")
    /\ Accepted(h, "delete_project", p, None, [members |-> MembersOf(p)])

AddMember(h, u, p, v, role) ==
    /\ May(u, p, "owner")
    /\ role \in {"viewer", "editor"}
    /\ ~IsMember(p, v)
    /\ Accepted(h, "add_member", None, Member(p, v, role), None)

\* (Mutant: the owner's role may be changed.)
UpdateAnyMember(h, u, m, role) ==
    /\ May(u, member[m].project, "owner")
    /\ role \in {"viewer", "editor"}
    /\ Accepted(h, "update_member", m, member[m], [role |-> role])

UpdateMember(h, u, m, role) ==
    /\ May(u, member[m].project, "owner")
    /\ role \in {"viewer", "editor"}
    /\ member[m].role # "owner"
    /\ Accepted(h, "update_member", m, member[m], [role |-> role])

RemoveMember(h, u, m) ==
    /\ May(u, member[m].project, "owner")
    /\ member[m].role # "owner"
    /\ Accepted(h, "remove_member", m, member[m], None)

CreateScenario(h, u, p) ==
    May(u, p, "editor") /\ Accepted(h, "create_scenario", None, [project |-> p], None)

DeleteScenario(h, u, s) ==
    May(u, scenario[s], "editor") /\ Accepted(h, "delete_scenario", s, None, None)

\* run_job, and compare_job with its intervention i.
SubmitJob(h, u, b, i) ==
    /\ i # None => scenario[i] = scenario[b]
    /\ May(u, scenario[b], "editor")
    /\ Accepted(h, "submit_job", None,
                [project |-> scenario[b], baseline |-> b, intervention |-> i,
                 status |-> "queued", ran |-> {}], None)

\* (Mutant: the administrator may be the target.)
PatchAnyUser(h, u, v, flags) ==
    /\ Administers(u)
    /\ Accepted(h, "patch_user", v, account[v], [actor |-> u, flags |-> flags])

PatchUser(h, u, v, flags) ==
    /\ Administers(u)
    /\ u = v => flags.is_active # FALSE /\ flags.is_admin # FALSE
    /\ Accepted(h, "patch_user", v, account[v], [actor |-> u, flags |-> flags])

-----------------------------------------------------------------------------
(* The commits.  A constraint that a flush violates, or an UPDATE that     *)
(* finds no row, is an exception: only Rollback is left.                   *)

Ends(h, op) ==
    /\ session[h].op = op
    /\ session' = [session EXCEPT ![h] = NoSession]
    /\ UNCHANGED <<requests, clashed>>

Writes(h, op) == Ends(h, op) /\ UNCHANGED crossed

\* The project and its owner's membership, in one transaction.
ProjectCreated(h) ==
    LET p == NewId(project)
        u == session[h].row.user
    IN  /\ Writes(h, "create_project")
        /\ p <= MaxId /\ NewId(member) <= MaxId
        /\ ~IsMember(p, u)
        /\ project' = Insert(project, u)
        /\ member' = Insert(member, Member(p, u, "owner"))
        /\ UNCHANGED <<account, scenario, job>>

\* (Mutant: the ORM leaves the children of the project alone.)
ProjectDeletedAnyhow(h) ==
    /\ Writes(h, "delete_project")
    /\ project' = Without(project, {session[h].id})
    /\ member' = Without(member, session[h].new.members)
    /\ UNCHANGED <<account, scenario, job>>

\* The ORM sets project_id of the project's scenarios and jobs to NULL, which the
\* schema does not allow: a project that has any stays.
ProjectDeleted(h) ==
    LET p == session[h].id
    IN  /\ Writes(h, "delete_project")
        /\ \A s \in DOMAIN scenario : scenario[s] # p
        /\ \A j \in DOMAIN job : job[j].project # p
        /\ project' = Without(project, {p})
        /\ member' = Without(member, session[h].new.members)
        /\ UNCHANGED <<account, scenario, job>>

\* (Mutant: no UNIQUE constraint on project and user.)
MemberAddedTwice(h) ==
    /\ Writes(h, "add_member")
    /\ NewId(member) <= MaxId
    /\ member' = Insert(member, session[h].row)
    /\ UNCHANGED <<account, project, scenario, job>>

MemberAdded(h) ==
    LET row == session[h].row
    IN  /\ Writes(h, "add_member")
        /\ NewId(member) <= MaxId
        /\ ~IsMember(row.project, row.user)
        /\ member' = Insert(member, row)
        /\ UNCHANGED <<account, project, scenario, job>>

MemberUpdated(h) ==
    LET s == session[h]
    IN  /\ Writes(h, "update_member")
        /\ s.id \in DOMAIN member
        /\ member' = IF s.new.role = s.row.role THEN member
                     ELSE [member EXCEPT ![s.id].role = s.new.role]
        /\ UNCHANGED <<account, project, scenario, job>>

MemberRemoved(h) ==
    /\ Writes(h, "remove_member")
    /\ member' = Without(member, {session[h].id})
    /\ UNCHANGED <<account, project, scenario, job>>

ScenarioCreated(h) ==
    /\ Writes(h, "create_scenario")
    /\ NewId(scenario) <= MaxId
    /\ scenario' = Insert(scenario, session[h].row.project)
    /\ UNCHANGED <<account, project, member, job>>

\* The jobs that refer to the scenario keep its id.
ScenarioDeleted(h) ==
    /\ Writes(h, "delete_scenario")
    /\ scenario' = Without(scenario, {session[h].id})
    /\ UNCHANGED <<account, project, member, job>>

JobSubmitted(h) ==
    /\ Writes(h, "submit_job")
    /\ NewId(job) <= MaxId
    /\ job' = Insert(job, session[h].row)
    /\ UNCHANGED <<account, project, member, scenario>>

PatchBy(h, u) == session[h].op = "patch_user" /\ session[h].new.actor = u

\* A flag is written if the body gives it and it is not what was read.
Flag(current, read, new) == IF new \in {None, read} THEN current ELSE new

UserPatched(h) ==
    LET s     == session[h]
        flags == s.new.flags
    IN  /\ Ends(h, "patch_user")
        /\ account' = [account EXCEPT ![s.id] =
              [is_admin  |-> Flag(@.is_admin, s.row.is_admin, flags.is_admin),
               is_active |-> Flag(@.is_active, s.row.is_active, flags.is_active)]]
        /\ crossed' = (crossed \/ /\ \E g \in Handlers \ {h} : PatchBy(g, s.id)
                                  /\ ~(account'[s.id].is_admin /\ account'[s.id].is_active))
        /\ UNCHANGED <<project, member, scenario, job>>

Rollback(h) ==
    /\ session[h] # NoSession
    /\ session' = [session EXCEPT ![h] = NoSession]
    /\ UNCHANGED <<account, project, member, scenario, job, requests, clashed, crossed>>

-----------------------------------------------------------------------------
\* Worker._execute_job reads the scenarios by their ids (two queries, here one step).
Execute(j) ==
    LET inputs == {job[j].baseline, job[j].intervention} \ {None}
    IN  /\ job[j].status = "queued"
        /\ job' = [job EXCEPT ![j] =
              IF inputs \subseteq DOMAIN scenario
              THEN [@ EXCEPT !.status = "executed", !.ran = {scenario[s] : s \in inputs}]
              ELSE [@ EXCEPT !.status = "failed"]]
        /\ UNCHANGED <<account, project, member, scenario, session, requests, clashed, crossed>>

-----------------------------------------------------------------------------

Flags == {[is_admin |-> a, is_active |-> b] : a, b \in {TRUE, FALSE, None}}

Check(h, u) ==
    \/ CreateProject(h, u)
    \/ \E p \in DOMAIN project : DeleteProject(h, u, p)
    \/ \E p \in 1..MaxId : CreateScenario(h, u, p)
    \/ \E p \in 1..MaxId, v \in Users, role \in Role : AddMember(h, u, p, v, role)
    \/ \E m \in DOMAIN member : RemoveMember(h, u, m)
    \/ \E m \in DOMAIN member, role \in Role : UpdateMember(h, u, m, role)
    \/ \E s \in DOMAIN scenario : DeleteScenario(h, u, s)
    \/ \E b \in DOMAIN scenario, i \in DOMAIN scenario \cup {None} : SubmitJob(h, u, b, i)
    \/ \E v \in Users, flags \in Flags : PatchUser(h, u, v, flags)

Write(h) ==
    \/ ProjectCreated(h)  \/ ProjectDeleted(h)
    \/ MemberAdded(h)     \/ MemberUpdated(h)   \/ MemberRemoved(h)
    \/ ScenarioCreated(h) \/ ScenarioDeleted(h) \/ JobSubmitted(h)
    \/ UserPatched(h)     \/ Rollback(h)

Next ==
    \/ \E h \in Handlers, u \in Users : Check(h, u)
    \/ \E h \in Handlers : Write(h)
    \/ \E j \in DOMAIN job : Execute(j)

Spec == Init /\ [][Next]_vars

-----------------------------------------------------------------------------

\* The rows hold values of their columns, and a user has one role in a project.
TypeOK ==
    /\ UNION {DOMAIN project, DOMAIN member, DOMAIN scenario, DOMAIN job} \subseteq 1..MaxId
    /\ account \in [Users -> [is_admin : BOOLEAN, is_active : BOOLEAN]]
    /\ \A p \in DOMAIN project : project[p] \in Users
    /\ \A m \in DOMAIN member : member[m] \in [project : 1..MaxId, user : Users, role : Role]
    /\ \A m, n \in DOMAIN member :
          member[m].project = member[n].project /\ member[m].user = member[n].user => m = n
    /\ \A s \in DOMAIN scenario : scenario[s] \in 1..MaxId
    /\ \A j \in DOMAIN job : job[j].status \in {"queued", "executed", "failed"}
    /\ requests \in 0..MaxRequests /\ clashed \in BOOLEAN /\ crossed \in BOOLEAN

\* The user who created a project remains its owner, and its only one, through every
\* history of invitations, role changes, deletions and ids that come back, unless the
\* deletion of a project or of a member overlapped another request.
CreatorOwnsProject ==
    ~clashed =>
        \A p \in DOMAIN project, u \in Users :
            RoleOf(u, p) = "owner" <=> project[p] = u

\* Members, scenarios and jobs do not outlive their project, although no foreign key
\* is enforced: an id that comes back brings no old rows with it, unless the deletion of a
\* project or of a member overlapped another request.
NothingOutlivesItsProject ==
    ~clashed =>
        /\ \A m \in DOMAIN member : member[m].project \in DOMAIN project
        /\ \A s \in DOMAIN scenario : scenario[s] \in DOMAIN project
        /\ \A j \in DOMAIN job : job[j].project \in DOMAIN project

\* Somebody can always administer the system: patches that overlap, column by column and
\* from flags read long ago, and whatever else runs beside them, do not put out the last
\* administrator.  The one way to it, and the code has it, is that an administrator is put
\* out while a patch of his own is under way, which is then written all the same.
AdministratorRemains == ~crossed => \E u \in Users : Administers(u)

-----------------------------------------------------------------------------
\* main.py:1074, "Scenarios must belong to the same project": what a job has compared
\* belongs to one project.
ComparedWithinProject ==
    \A j \in DOMAIN job : \A p, q \in job[j].ran : p = q

=============================================================================
