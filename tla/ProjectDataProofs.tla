------------------------- MODULE ProjectDataProofs -------------------------
(***************************************************************************)
(* What the routes on projects, members, scenarios, jobs, users and        *)
(* forcing files keep true of the tables, for any number of concurrent     *)
(* requests.                                                               *)
(***************************************************************************)
EXTENDS ForcingFiles, TLAPS

\* For its facts about numbers; nothing is folded here.
Numbers == INSTANCE FoldFacts WITH Op <- Insert

-----------------------------------------------------------------------------
(* The tables.                                                             *)

\* An id that is the largest one plus one is no row's.
LEMMA NewIdIsNew ==
    ASSUME NEW table, DOMAIN table \subseteq 1..MaxId
    PROVE  NewId(table) \in Nat \ {0} /\ NewId(table) \notin DOMAIN table
<1> DEFINE ids == DOMAIN table \cup {0}
<1>1. ids \in SUBSET (0..MaxId) /\ ids # {} /\ MaxId \in Nat
  BY BoundsAssumption
<1>2. Max(ids) = Numbers!Max(ids)
  BY DEF Max, Numbers!Max
<1> HIDE DEF ids
<1>3. Max(ids) \in ids /\ \A y \in ids : y <= Max(ids)
  <2>1. \A T \in SUBSET (0..MaxId) : T # {} =>
            Numbers!Max(T) \in T /\ \A y \in T : y <= Numbers!Max(T)
    BY <1>1, Numbers!MaxIn
  <2>2. Numbers!Max(ids) \in ids /\ \A y \in ids : y <= Numbers!Max(ids)
    BY <1>1, <2>1
  <2> QED BY <1>2, <2>2
<1>4. PICK top \in ids : top = Max(ids) /\ \A y \in ids : y <= top
  BY <1>3
<1>5. top \in Nat
  BY <1>1
<1>6. NewId(table) = 1 + top
  BY <1>4 DEF NewId, ids
<1>7. 1 + top \notin ids
  <2>1. ASSUME 1 + top \in ids
        PROVE  1 + top <= top
    BY <1>4, <2>1
  <2> QED BY <1>5, <2>1
<1>8. NewId(table) \notin DOMAIN table
  BY <1>6, <1>7 DEF ids
<1> QED BY <1>5, <1>6, <1>8

-----------------------------------------------------------------------------
(* The invariant.                                                          *)

IsJob(row) ==
    /\ row = [project |-> row.project, baseline |-> row.baseline,
              intervention |-> row.intervention, status |-> row.status, ran |-> row.ran]
    /\ row.status \in {"queued", "executed", "failed"}

\* What a session is about to write has the types of its columns.
Typed(s) ==
    /\ s.op = "create_project"  => s.row.user \in Users
    /\ s.op = "add_member"      => s.row \in [project : 1..MaxId, user : Users,
                                              role : {"viewer", "editor"}]
    /\ s.op = "update_member"   => s.new.role \in {"viewer", "editor"}
    /\ s.op = "create_scenario" => s.row.project \in 1..MaxId
    /\ s.op = "submit_job"      => IsJob(s.row)
    /\ s.op = "patch_user"      => s.id \in Users /\ s.new.actor \in Users
                                       /\ s.new.flags \in Flags

TypeInv ==
    /\ TypeOK
    /\ \A j \in DOMAIN job : IsJob(job[j])
    /\ session = [h \in Handlers |-> session[h]]
    /\ \A h \in Handlers : Typed(session[h])

\* What a session has checked still holds: nothing was removed since, and whoever removes
\* is alone.
Current(s) ==
    /\ s.op \in {"add_member", "create_scenario", "submit_job"} =>
          s.row.project \in DOMAIN project
    /\ s.op \in {"update_member", "remove_member"} =>
          s.id \in DOMAIN member /\ member[s.id].role # "owner"
    /\ s.op = "delete_project" => s.new.members = MembersOf(s.id)

\* The membership rows with the role of owner are those of the creators.
OwnersInv ==
    /\ \A p \in DOMAIN project :
          \E m \in DOMAIN member : member[m] = Member(p, project[p], "owner")
    /\ \A m \in DOMAIN member :
          member[m].role = "owner" => project[member[m].project] = member[m].user

RefsInv ==
    /\ \A m \in DOMAIN member : member[m].project \in DOMAIN project
    /\ \A s \in DOMAIN scenario : scenario[s] \in DOMAIN project
    /\ \A j \in DOMAIN job : job[j].project \in DOMAIN project

\* Who asked for a patch is still an administrator, and will be after it.
Entitled(s) ==
    s.op = "patch_user" =>
        /\ Administers(s.new.actor)
        /\ s.new.actor = s.id => s.new.flags.is_active # FALSE /\ s.new.flags.is_admin # FALSE

RightsInv ==
    ~crossed => /\ \E u \in Users : Administers(u)
                /\ \A h \in Handlers : Entitled(session[h])

SessionsInv ==
    /\ \A h \in Handlers : Current(session[h])
    /\ \A h, g \in Handlers :
          Removes(session[h].op) /\ g # h => session[g] = NoSession

CalmInv == ~clashed => OwnersInv /\ RefsInv /\ SessionsInv

\* The names under which files are stored are those of one row or one upload each, and
\* what was written is on the disk.
OnDisk(row) ==
    /\ StoredName(row) \in DOMAIN disk /\ disk[StoredName(row)] = row.size
    /\ row.validated = (row.size \in Passing)

Apart(row, other) == row.project # other.project \/ row.name # other.name

\* No two rows, no two uploads, and no upload and row have one name.
NamesApart ==
    /\ \A f, g \in DOMAIN forcing : f # g => Apart(forcing[f], forcing[g])
    /\ \A h, g \in Handlers :
          Uploading(h) /\ Uploading(g) /\ h # g => Apart(session[h].row, session[g].row)
    /\ \A h \in Handlers, f \in DOMAIN forcing :
          Uploading(h) => Apart(session[h].row, forcing[f])

GoingAway(f) == \E h \in Handlers : Unlinked(h) /\ session[h].id = f

Stored ==
    /\ \A h \in Handlers : Uploading(h) => OnDisk(session[h].row)
    /\ \A f \in DOMAIN forcing : GoingAway(f) \/ OnDisk(forcing[f])

\* A deletion goes on with the row that it has read, and alone.
RowsStand ==
    /\ \A h \in Handlers :
          Deleting(h) => session[h].id \in DOMAIN forcing
                            /\ forcing[session[h].id] = session[h].row
    /\ \A h, g \in Handlers :
          Deleting(h) /\ Deleting(g) /\ h # g => session[h].id # session[g].id

FilesInv ==
    /\ DOMAIN forcing \subseteq 1..MaxId
    /\ past \in [shared : BOOLEAN, undone : BOOLEAN, twice : BOOLEAN]
    /\ ~past.shared /\ ~past.undone /\ ~past.twice => NamesApart /\ Stored /\ RowsStand

DataInv == TypeInv /\ CalmInv /\ RightsInv

ForcingInv == DataInv /\ FilesInv

-----------------------------------------------------------------------------
(* Types.                                                                  *)

LEMMA Subsets ==
    ASSUME NEW A, NEW B, NEW C, NEW D, NEW S
    PROVE  UNION {A, B, C, D} \subseteq S <=>
               A \subseteq S /\ B \subseteq S /\ C \subseteq S /\ D \subseteq S
OBVIOUS

Ids == /\ DOMAIN project \subseteq 1..MaxId /\ DOMAIN member \subseteq 1..MaxId
       /\ DOMAIN scenario \subseteq 1..MaxId /\ DOMAIN job \subseteq 1..MaxId

LEMMA TypeParts ==
    TypeInv => /\ Ids
               /\ session = [h \in Handlers |-> session[h]]
               /\ \A h \in Handlers : Typed(session[h])
BY Subsets DEF TypeInv, TypeOK, Ids

\* The flags of an account after a patch.
LEMMA FlagIsBoolean ==
    ASSUME NEW current \in BOOLEAN, NEW read, NEW new \in {TRUE, FALSE, None}
    PROVE  Flag(current, read, new) \in BOOLEAN
BY DEF Flag

LEMMA FlagsOf ==
    \A f \in Flags : f.is_admin \in {TRUE, FALSE, None} /\ f.is_active \in {TRUE, FALSE, None}
<1> TAKE f \in Flags
<1> DEFINE Values == {TRUE, FALSE, None}
<1> HIDE DEF Values
<1>1. \E a, b \in Values : f = [is_admin |-> a, is_active |-> b]
  BY DEF Flags, Values
<1>2. f.is_admin \in Values /\ f.is_active \in Values
  BY <1>1
<1> QED BY <1>2 DEF Values

LEMMA NoSessionIsTyped == Typed(NoSession)
BY DEF Typed, NoSession

LEMMA AcceptedIsTyped ==
    ASSUME TypeInv, NEW h \in Handlers, NEW op, NEW id, NEW row, NEW new,
           Accepted(h, op, id, row, new),
           Typed([op |-> op, id |-> id, row |-> row, new |-> new])
    PROVE  TypeInv'
<1> DEFINE s == [op |-> op, id |-> id, row |-> row, new |-> new]
<1>1. session' = [session EXCEPT ![h] = s]
  BY DEF Accepted
<1>2. session' = [g \in Handlers |-> session'[g]] /\ \A g \in Handlers : Typed(session'[g])
  <2> HIDE DEF s
  <2>1. Typed(s)
    BY DEF s
  <2> QED BY <1>1, <2>1, TypeParts
<1>3. requests' \in 0..MaxRequests /\ clashed' \in BOOLEAN /\ crossed' \in BOOLEAN
  BY BoundsAssumption DEF Accepted, TypeInv, TypeOK
<1> QED BY <1>2, <1>3 DEF Accepted, tables, TypeInv, TypeOK

\* A session that ends leaves the types of the sessions alone.
LEMMA EndedIsTyped ==
    ASSUME TypeInv, NEW h \in Handlers, session' = [session EXCEPT ![h] = NoSession],
           TypeOK', \A j \in DOMAIN job' : IsJob(job'[j])
    PROVE  TypeInv'
<1>1. session' = [g \in Handlers |-> session'[g]] /\ \A g \in Handlers : Typed(session'[g])
  BY TypeParts, NoSessionIsTyped
<1> QED BY <1>1 DEF TypeInv

LEMMA CheckKeepsTypes ==
    ASSUME TypeInv, NEW h \in Handlers, NEW u \in Users, Check(h, u)
    PROVE  TypeInv'
<1>1. CASE CreateProject(h, u)
  BY <1>1, AcceptedIsTyped DEF CreateProject, Typed
<1>2. ASSUME NEW p \in DOMAIN project, DeleteProject(h, u, p)
      PROVE  TypeInv'
  BY <1>2, AcceptedIsTyped DEF DeleteProject, Typed
<1>3. ASSUME NEW p \in 1..MaxId, CreateScenario(h, u, p)
      PROVE  TypeInv'
  BY <1>3, AcceptedIsTyped DEF CreateScenario, Typed
<1>4. ASSUME NEW p \in 1..MaxId, NEW v \in Users, NEW role \in Role, AddMember(h, u, p, v, role)
      PROVE  TypeInv'
  BY <1>4, AcceptedIsTyped DEF AddMember, Member, Typed
<1>5. ASSUME NEW m \in DOMAIN member, RemoveMember(h, u, m)
      PROVE  TypeInv'
  BY <1>5, AcceptedIsTyped DEF RemoveMember, Typed
<1>6. ASSUME NEW m \in DOMAIN member, NEW role \in Role, UpdateMember(h, u, m, role)
      PROVE  TypeInv'
  BY <1>6, AcceptedIsTyped DEF UpdateMember, Typed
<1>7. ASSUME NEW s \in DOMAIN scenario, DeleteScenario(h, u, s)
      PROVE  TypeInv'
  BY <1>7, AcceptedIsTyped DEF DeleteScenario, Typed
<1>8. ASSUME NEW b \in DOMAIN scenario, NEW i \in DOMAIN scenario \cup {None},
             SubmitJob(h, u, b, i)
      PROVE  TypeInv'
  BY <1>8, AcceptedIsTyped DEF SubmitJob, Typed, IsJob
<1>9. ASSUME NEW v \in Users, NEW flags \in Flags, PatchUser(h, u, v, flags)
      PROVE  TypeInv'
  BY <1>9, AcceptedIsTyped DEF PatchUser, Typed
<1> QED BY <1>1, <1>2, <1>3, <1>4, <1>5, <1>6, <1>7, <1>8, <1>9 DEF Check

\* A commit or a rollback ends its session.
LEMMA WriteEnds ==
    ASSUME NEW h \in Handlers, Write(h)
    PROVE  /\ session' = [session EXCEPT ![h] = NoSession]
           /\ UNCHANGED <<requests, clashed>>
BY DEF Write, Writes, Ends, ProjectCreated, ProjectDeleted, MemberAdded, MemberUpdated, MemberRemoved,
       ScenarioCreated, ScenarioDeleted, JobSubmitted, UserPatched, Rollback

\* What TypeOK says of the membership table.
MembersOK ==
    /\ DOMAIN member \subseteq 1..MaxId
    /\ \A m \in DOMAIN member : member[m] \in [project : 1..MaxId, user : Users, role : Role]
    /\ \A m, n \in DOMAIN member :
          member[m].project = member[n].project /\ member[m].user = member[n].user => m = n

LEMMA MemberInserted ==
    ASSUME MembersOK, NEW row \in [project : 1..MaxId, user : Users, role : Role],
           NewId(member) <= MaxId, ~IsMember(row.project, row.user),
           member' = Insert(member, row)
    PROVE  MembersOK'
<1> DEFINE m == NewId(member)
<1>1. m \in 1..MaxId /\ m \notin DOMAIN member
  BY NewIdIsNew, BoundsAssumption DEF MembersOK
<1>2. \A n \in DOMAIN member : ~(member[n].project = row.project /\ member[n].user = row.user)
  BY DEF IsMember, MembersOf
<1>3. /\ DOMAIN member' = DOMAIN member \cup {m} /\ member'[m] = row
      /\ \A n \in DOMAIN member : member'[n] = member[n]
  BY <1>1 DEF Insert, With
<1> HIDE DEF m
<1> QED BY <1>1, <1>2, <1>3 DEF MembersOK

LEMMA MembersRemoved ==
    ASSUME MembersOK, NEW ids, member' = Without(member, ids)
    PROVE  MembersOK'
BY DEF Without, Restrict, MembersOK

LEMMA CrossedIsBoolean ==
    ASSUME TypeOK, NEW h \in Handlers, Write(h)
    PROVE  crossed' \in BOOLEAN
<1>1. crossed' = crossed \/ UserPatched(h)
  BY DEF Write, Writes, ProjectCreated, ProjectDeleted, MemberAdded, MemberUpdated, MemberRemoved,
         ScenarioCreated, ScenarioDeleted, JobSubmitted, Rollback
<1>2. CASE UserPatched(h)
  <2> DEFINE out == \/ crossed
                    \/ /\ \E g \in Handlers \ {h} : PatchBy(g, session[h].id)
                       /\ ~(account'[session[h].id].is_admin /\ account'[session[h].id].is_active)
  <2>1. crossed' = out
    BY <1>2 DEF UserPatched
  <2>2. out \in BOOLEAN
    OBVIOUS
  <2> HIDE DEF out
  <2> QED BY <2>1, <2>2
<1> QED BY <1>1, <1>2 DEF TypeOK

LEMMA WriteKeepsTypes ==
    ASSUME TypeInv, NEW h \in Handlers, Write(h)
    PROVE  TypeInv'
<1>1. Ids /\ MembersOK /\ TypeOK /\ \A j \in DOMAIN job : IsJob(job[j])
  BY Subsets DEF TypeInv, TypeOK, Ids, MembersOK
<1>2. Typed(session[h])
  BY TypeParts
<1>3. SUFFICES TypeOK' /\ \A j \in DOMAIN job' : IsJob(job'[j])
  BY WriteEnds, EndedIsTyped
<1>4. requests' = requests /\ clashed' = clashed /\ crossed' \in BOOLEAN
  BY <1>1, WriteEnds, CrossedIsBoolean
<1>5. CASE ProjectCreated(h)
  <2> DEFINE p == NewId(project)
             u == session[h].row.user
  <2>1. u \in Users
    BY <1>2, <1>5 DEF ProjectCreated, Writes, Ends, Typed
  <2>0. p \in 1..MaxId /\ p \notin DOMAIN project
    BY <1>1, <1>5, NewIdIsNew, BoundsAssumption DEF ProjectCreated, Ids
  <2>2. /\ p \in 1..MaxId
        /\ DOMAIN project' = DOMAIN project \cup {p} /\ project'[p] = u
        /\ \A q \in DOMAIN project : project'[q] = project[q]
    BY <1>1, <2>0, <1>5 DEF ProjectCreated, Insert, With
  <2>3. MembersOK'
    <3>1. Member(p, u, "owner") \in [project : 1..MaxId, user : Users, role : Role]
      BY <2>1, <2>2 DEF Member, Role
    <3>2. Member(p, u, "owner").project = p /\ Member(p, u, "owner").user = u
      BY DEF Member
    <3> QED BY <1>1, <1>5, <3>1, <3>2, MemberInserted DEF ProjectCreated
  <2>4. UNCHANGED <<account, scenario, job>>
    BY <1>5 DEF ProjectCreated
  <2>5. DOMAIN project' \subseteq 1..MaxId /\ \A q \in DOMAIN project' : project'[q] \in Users
    <3> HIDE DEF p, u
    <3> QED BY <1>1, <2>1, <2>2 DEF Ids, TypeOK
  <2> QED BY <1>1, <1>4, <2>3, <2>4, <2>5, Subsets DEF TypeOK, Ids, MembersOK
<1>6. CASE ProjectDeleted(h)
  <2>1. /\ DOMAIN project' \subseteq DOMAIN project
        /\ \A q \in DOMAIN project' : project'[q] = project[q]
    BY <1>6 DEF ProjectDeleted, Without, Restrict
  <2>2. MembersOK'
    BY <1>1, <1>6, MembersRemoved DEF ProjectDeleted
  <2> QED BY <1>1, <1>4, <1>6, <2>1, <2>2, Subsets, ZenonT(60)
          DEF ProjectDeleted, TypeOK, Ids, MembersOK
<1>7. CASE MemberAdded(h)
  <2>1. session[h].row \in [project : 1..MaxId, user : Users, role : Role]
    BY <1>2, <1>7 DEF MemberAdded, Writes, Ends, Typed, Role
  <2>2. MembersOK'
    BY <1>1, <1>7, <2>1, MemberInserted DEF MemberAdded
  <2> QED BY <1>1, <1>4, <1>7, <2>2, Subsets DEF MemberAdded, TypeOK, Ids, MembersOK
<1>8. CASE MemberUpdated(h)
  <2>1. session[h].new.role \in Role /\ session[h].id \in DOMAIN member
    BY <1>2, <1>8 DEF MemberUpdated, Writes, Ends, Typed, Role
  <2>2. /\ DOMAIN member' = DOMAIN member
        /\ \A m \in DOMAIN member :
              /\ member'[m] \in [project : 1..MaxId, user : Users, role : Role]
              /\ member'[m].project = member[m].project /\ member'[m].user = member[m].user
    BY <1>1, <1>8, <2>1 DEF MemberUpdated, MembersOK
  <2>3. MembersOK'
    BY <1>1, <2>2 DEF MembersOK
  <2> QED BY <1>1, <1>4, <1>8, <2>3, Subsets DEF MemberUpdated, TypeOK, Ids, MembersOK
<1>9. CASE MemberRemoved(h)
  <2>1. MembersOK'
    BY <1>1, <1>9, MembersRemoved DEF MemberRemoved
  <2> QED BY <1>1, <1>4, <1>9, <2>1, Subsets, ZenonT(60) DEF MemberRemoved, TypeOK, Ids, MembersOK
<1>10. CASE ScenarioCreated(h)
  <2>1. session[h].row.project \in 1..MaxId
    BY <1>2, <1>10 DEF ScenarioCreated, Writes, Ends, Typed
  <2>0. NewId(scenario) \in 1..MaxId /\ NewId(scenario) \notin DOMAIN scenario
    BY <1>1, <1>10, NewIdIsNew, BoundsAssumption DEF ScenarioCreated, Ids
  <2>2. /\ NewId(scenario) \in 1..MaxId
        /\ DOMAIN scenario' = DOMAIN scenario \cup {NewId(scenario)}
        /\ scenario'[NewId(scenario)] = session[h].row.project
        /\ \A s \in DOMAIN scenario : scenario'[s] = scenario[s]
    BY <1>1, <2>0, <1>10 DEF ScenarioCreated, Insert, With
  <2> QED BY <1>1, <1>4, <1>10, <2>1, <2>2, Subsets, ZenonT(60) DEF ScenarioCreated, TypeOK, Ids
<1>11. CASE ScenarioDeleted(h)
  <2>1. /\ DOMAIN scenario' \subseteq DOMAIN scenario
        /\ \A s \in DOMAIN scenario' : scenario'[s] = scenario[s]
    BY <1>11 DEF ScenarioDeleted, Without, Restrict
  <2> QED BY <1>1, <1>4, <1>11, <2>1, Subsets, ZenonT(60) DEF ScenarioDeleted, TypeOK, Ids
<1>12. CASE JobSubmitted(h)
  <2>1. IsJob(session[h].row)
    BY <1>2, <1>12 DEF JobSubmitted, Writes, Ends, Typed
  <2>0. NewId(job) \in 1..MaxId /\ NewId(job) \notin DOMAIN job
    BY <1>1, <1>12, NewIdIsNew, BoundsAssumption DEF JobSubmitted, Ids
  <2>2. /\ NewId(job) \in 1..MaxId
        /\ DOMAIN job' = DOMAIN job \cup {NewId(job)}
        /\ job'[NewId(job)] = session[h].row
        /\ \A j \in DOMAIN job : job'[j] = job[j]
    BY <1>1, <2>0, <1>12 DEF JobSubmitted, Insert, With
  <2>3. \A j \in DOMAIN job' : IsJob(job'[j])
    BY <1>1, <2>1, <2>2
  <2>4. \A j \in DOMAIN job' : job'[j].status \in {"queued", "executed", "failed"}
    BY <2>3 DEF IsJob
  <2> QED BY <1>1, <1>4, <1>12, <2>2, <2>3, <2>4, Subsets DEF JobSubmitted, TypeOK, Ids
<1>13. CASE UserPatched(h)
  <2> DEFINE s == session[h]
             u == s.id
             flags == s.new.flags
  <2>1. u \in Users /\ flags.is_admin \in {TRUE, FALSE, None}
                    /\ flags.is_active \in {TRUE, FALSE, None}
    <3>1. u \in Users /\ flags \in Flags
      BY <1>2, <1>13 DEF UserPatched, Ends, Typed
    <3> QED BY <3>1, FlagsOf
  <2>2. account[u].is_admin \in BOOLEAN /\ account[u].is_active \in BOOLEAN
    BY <1>1, <2>1 DEF TypeOK
  <2>3. /\ Flag(account[u].is_admin, s.row.is_admin, flags.is_admin) \in BOOLEAN
        /\ Flag(account[u].is_active, s.row.is_active, flags.is_active) \in BOOLEAN
    BY <2>1, <2>2, FlagIsBoolean
  <2>4. account' \in [Users -> [is_admin : BOOLEAN, is_active : BOOLEAN]]
    BY <1>1, <1>13, <2>3 DEF UserPatched, TypeOK
  <2> QED BY <1>1, <1>4, <1>13, <2>4 DEF UserPatched, TypeOK
<1>14. CASE Rollback(h)
  BY <1>1, <1>4, <1>14, Subsets DEF Rollback, TypeOK, Ids
<1> QED BY <1>5, <1>6, <1>7, <1>8, <1>9, <1>10, <1>11, <1>12, <1>13, <1>14 DEF Write

LEMMA ExecutedJobs ==
    ASSUME \A j \in DOMAIN job : IsJob(job[j]), NEW k \in DOMAIN job, Execute(k)
    PROVE  /\ DOMAIN job' = DOMAIN job
           /\ \A j \in DOMAIN job : IsJob(job'[j]) /\ job'[j].project = job[j].project
<1> DEFINE read == {scenario[s] : s \in {job[k].baseline, job[k].intervention} \ {None}}
<1>1. job' = [job EXCEPT ![k] = [job[k] EXCEPT !.status = "executed", !.ran = read]]
          \/ job' = [job EXCEPT ![k] = [job[k] EXCEPT !.status = "failed"]]
  BY DEF Execute
<1> HIDE DEF read
<1>2. PICK p, b, i, st, r :
          job[k] = [project |-> p, baseline |-> b, intervention |-> i, status |-> st, ran |-> r]
  BY DEF IsJob
<1>3. /\ IsJob([job[k] EXCEPT !.status = "executed", !.ran = read])
      /\ [job[k] EXCEPT !.status = "executed", !.ran = read].project = job[k].project
  <2>1. [job[k] EXCEPT !.status = "executed", !.ran = read] =
            [project |-> p, baseline |-> b, intervention |-> i, status |-> "executed", ran |-> read]
    <3> DEFINE first == [job[k] EXCEPT !.status = "executed"]
    <3>1. first = [project |-> p, baseline |-> b, intervention |-> i, status |-> "executed",
                   ran |-> r]
      BY <1>2
    <3>2. [job[k] EXCEPT !.status = "executed", !.ran = read] = [first EXCEPT !.ran = read]
      OBVIOUS
    <3> HIDE DEF first
    <3> QED BY <3>1, <3>2
  <2> QED BY <1>2, <2>1 DEF IsJob
<1>4. /\ IsJob([job[k] EXCEPT !.status = "failed"])
      /\ [job[k] EXCEPT !.status = "failed"].project = job[k].project
  <2>1. [job[k] EXCEPT !.status = "failed"] =
            [project |-> p, baseline |-> b, intervention |-> i, status |-> "failed", ran |-> r]
    BY <1>2
  <2> QED BY <1>2, <2>1 DEF IsJob
<1> QED BY <1>1, <1>3, <1>4

LEMMA ExecuteKeepsTypes ==
    ASSUME TypeInv, NEW k \in DOMAIN job, Execute(k)
    PROVE  TypeInv'
<1>1. /\ DOMAIN job' = DOMAIN job
      /\ \A j \in DOMAIN job' : IsJob(job'[j])
  BY ExecutedJobs DEF TypeInv
<1>2. \A j \in DOMAIN job' : job'[j].status \in {"queued", "executed", "failed"}
  BY <1>1 DEF IsJob
<1>3. UNCHANGED <<account, project, member, scenario, session, requests, clashed, crossed>>
  BY DEF Execute
<1>4. TypeOK'
  BY <1>1, <1>2, <1>3, Subsets DEF TypeInv, TypeOK, Ids
<1> QED BY <1>1, <1>3, <1>4 DEF TypeInv

\* The session of a deletion when the file is unlinked.
LEMMA UnlinkSession ==
    ASSUME TypeInv, NEW h \in Handlers, UnlinkForcing(h)
    PROVE  /\ Deleting(h) /\ Unlinked(h)'
           /\ session'[h].op = "delete_forcing" /\ session'[h].new = "unlinked"
           /\ session'[h].id = session[h].id /\ session'[h].row = session[h].row
           /\ \A g \in Handlers \ {h} : session'[g] = session[g]
<1> DEFINE old == session[h]
           new == [old EXCEPT !.new = "unlinked"]
<1>1. session' = [session EXCEPT ![h] = new] /\ old.op = "delete_forcing"
  BY DEF UnlinkForcing, Deleting
<1>2. session'[h] = new /\ \A g \in Handlers \ {h} : session'[g] = session[g]
  BY <1>1, TypeParts
<1>3. SUFFICES new.op = old.op /\ new.id = old.id /\ new.row = old.row /\ new.new = "unlinked"
  BY <1>1, <1>2 DEF Unlinked, Deleting
<1> QED OBVIOUS

LEMMA ForcingKeepsTypes ==
    ASSUME TypeInv, NEW h \in Handlers, ForcingStep(h)
    PROVE  TypeInv'
<1>1. ASSUME NEW u \in Users, NEW p \in 1..MaxId, NEW name \in FileNames, NEW c \in Contents,
             UploadForcing(h, u, p, name, c)
      PROVE  TypeInv'
  BY <1>1, AcceptedIsTyped DEF UploadForcing, AcceptedForcing, Typed
<1>2. ASSUME NEW u \in Users, NEW p \in 1..MaxId, NEW f \in DOMAIN forcing,
             DeleteForcing(h, u, p, f)
      PROVE  TypeInv'
  BY <1>2, AcceptedIsTyped DEF DeleteForcing, AcceptedForcing, Typed
<1>4. CASE UnlinkForcing(h)
  <2>1. /\ session' = [session EXCEPT ![h].new = "unlinked"]
        /\ UNCHANGED <<tables, requests, clashed, crossed>>
    BY <1>4 DEF UnlinkForcing
  <2>2. TypeOK' /\ \A j \in DOMAIN job' : IsJob(job'[j])
    BY <2>1 DEF TypeInv, TypeOK, tables
  <2>3. ASSUME NEW g \in Handlers
        PROVE  Typed(session'[g])
    <3>1. CASE g = h
      <4>1. session'[g].op = "delete_forcing"
        BY <1>4, <3>1, UnlinkSession
      <4> QED BY <4>1 DEF Typed
    <3>2. CASE g # h
      BY <1>4, <3>2, UnlinkSession, TypeParts
    <3> QED BY <3>1, <3>2
  <2>4. session' = [g \in Handlers |-> session'[g]]
    BY <2>1, TypeParts
  <2> QED BY <2>2, <2>3, <2>4 DEF TypeInv
<1>3. CASE ForcingUploaded(h) \/ ForcingDeleted(h) \/ ForcingUndone(h)
  <2>1. /\ session' = [session EXCEPT ![h] = NoSession]
        /\ UNCHANGED <<tables, requests, clashed, crossed>>
    BY <1>3 DEF ForcingUploaded, ForcingDeleted, ForcingUndone, Writes, Ends, Rollback, tables
  <2>2. TypeOK' /\ \A j \in DOMAIN job' : IsJob(job'[j])
    BY <2>1 DEF TypeInv, TypeOK, tables
  <2> QED BY <2>1, <2>2, EndedIsTyped
<1> QED BY <1>1, <1>2, <1>3, <1>4 DEF ForcingStep

LEMMA StepKeepsTypes ==
    ASSUME TypeInv, [ForcingNext]_allVars
    PROVE  TypeInv'
<1>1. CASE OtherStep
  BY <1>1, CheckKeepsTypes, WriteKeepsTypes, ExecuteKeepsTypes DEF OtherStep, Next
<1>2. ASSUME NEW h \in Handlers, ForcingStep(h)
      PROVE  TypeInv'
  BY <1>2, ForcingKeepsTypes
<1>3. CASE UNCHANGED allVars
  BY <1>3 DEF allVars, vars, TypeInv, TypeOK
<1> QED BY <1>1, <1>2, <1>3 DEF ForcingNext

-----------------------------------------------------------------------------
(* Calm: no deletion has overlapped another request.                       *)

\* A user has the role of the only membership row there is.
LEMMA RoleOfMember ==
    ASSUME TypeOK, NEW m \in DOMAIN member
    PROVE  RoleOf(member[m].user, member[m].project) = member[m].role
<1> DEFINE u == member[m].user
           p == member[m].project
           c == CHOOSE n \in MembersOf(p) : member[n].user = u
<1>1. m \in MembersOf(p) /\ member[m].user = u
  BY DEF MembersOf
<1>2. c \in MembersOf(p) /\ member[c].user = u
  BY <1>1
<1>3. c = m
  BY <1>2 DEF TypeOK, MembersOf
<1> QED BY <1>1, <1>3 DEF RoleOf, IsMember

\* Who may do something in a project is a member of it, or has created it.
LEMMA MayImpliesProject ==
    ASSUME RefsInv, NEW u, NEW p, NEW least \in {"editor", "owner"}, May(u, p, least)
    PROVE  p \in DOMAIN project
<1>1. RoleOf(u, p) # "none"
  BY DEF May, Level
<1>2. CASE IsMember(p, u)
  BY <1>2 DEF IsMember, MembersOf, RefsInv
<1>3. CASE ~IsMember(p, u)
  BY <1>1, <1>3 DEF RoleOf
<1> QED BY <1>2, <1>3

\* A request that passes its checks and that overlaps no deletion.
LEMMA AcceptedIsCalm ==
    ASSUME TypeInv, CalmInv, NEW h \in Handlers, NEW op, NEW id, NEW row, NEW new,
           Accepted(h, op, id, row, new),
           ~clashed => Current([op |-> op, id |-> id, row |-> row, new |-> new])
    PROVE  CalmInv'
<1> DEFINE s == [op |-> op, id |-> id, row |-> row, new |-> new]
<1> SUFFICES ASSUME ~clashed'
             PROVE  OwnersInv' /\ RefsInv' /\ SessionsInv'
  BY DEF CalmInv
<1>1. /\ ~clashed
      /\ \A g \in Handlers : session[g] # NoSession => ~Removes(op) /\ ~Removes(session[g].op)
  BY DEF Accepted
<1>2. session' = [session EXCEPT ![h] = s] /\ s.op = op /\ UNCHANGED tables
  BY DEF Accepted
<1>3. OwnersInv /\ RefsInv /\ SessionsInv
  BY <1>1 DEF CalmInv
<1>4. Current(s)
  BY <1>1
<1> HIDE DEF s
<1>5. session'[h] = s /\ \A g \in Handlers \ {h} : session'[g] = session[g]
  BY <1>2, TypeParts
<1>6. OwnersInv' /\ RefsInv'
  BY <1>2, <1>3 DEF OwnersInv, RefsInv, tables
<1>7. \A g \in Handlers : Current(session'[g])
  BY <1>3, <1>4, <1>5 DEF SessionsInv
<1>8. \A g \in Handlers : Current(session[g])'
  BY <1>2, <1>7 DEF Current, MembersOf, tables
<1>9. ASSUME NEW f \in Handlers, NEW g \in Handlers, Removes(session'[f].op), g # f
      PROVE  session'[g] = NoSession
  <2>1. ~Removes(NoSession.op)
    BY DEF Removes, NoSession
  <2>2. CASE f = h
    BY <1>1, <1>2, <1>5, <1>9, <2>2
  <2>3. CASE f # h
    BY <1>1, <1>5, <1>9, <2>1, <2>3
  <2> QED BY <2>2, <2>3
<1> QED BY <1>6, <1>8, <1>9 DEF SessionsInv

LEMMA CheckKeepsCalm ==
    ASSUME TypeInv, CalmInv, NEW h \in Handlers, NEW u \in Users, Check(h, u)
    PROVE  CalmInv'
<1>0. ~clashed => RefsInv
  BY DEF CalmInv
<1>1. CASE CreateProject(h, u)
  BY <1>1, AcceptedIsCalm DEF CreateProject, Current
<1>2. ASSUME NEW p \in DOMAIN project, DeleteProject(h, u, p)
      PROVE  CalmInv'
  BY <1>2, AcceptedIsCalm DEF DeleteProject, Current
<1>3. ASSUME NEW p \in 1..MaxId, CreateScenario(h, u, p)
      PROVE  CalmInv'
  <2>1. ~clashed => p \in DOMAIN project
    BY <1>0, <1>3, MayImpliesProject DEF CreateScenario
  <2> QED BY <1>3, <2>1, AcceptedIsCalm DEF CreateScenario, Current
<1>4. ASSUME NEW p \in 1..MaxId, NEW v \in Users, NEW role \in Role, AddMember(h, u, p, v, role)
      PROVE  CalmInv'
  <2>1. ~clashed => p \in DOMAIN project
    BY <1>0, <1>4, MayImpliesProject DEF AddMember
  <2> QED BY <1>4, <2>1, AcceptedIsCalm DEF AddMember, Member, Current
<1>5. ASSUME NEW m \in DOMAIN member, RemoveMember(h, u, m)
      PROVE  CalmInv'
  BY <1>5, AcceptedIsCalm DEF RemoveMember, Current
<1>6. ASSUME NEW m \in DOMAIN member, NEW role \in Role, UpdateMember(h, u, m, role)
      PROVE  CalmInv'
  BY <1>6, AcceptedIsCalm DEF UpdateMember, Current
<1>7. ASSUME NEW s \in DOMAIN scenario, DeleteScenario(h, u, s)
      PROVE  CalmInv'
  BY <1>7, AcceptedIsCalm DEF DeleteScenario, Current
<1>8. ASSUME NEW b \in DOMAIN scenario, NEW i \in DOMAIN scenario \cup {None},
             SubmitJob(h, u, b, i)
      PROVE  CalmInv'
  <2>1. ~clashed => scenario[b] \in DOMAIN project
    BY <1>0 DEF RefsInv
  <2> QED BY <1>8, <2>1, AcceptedIsCalm DEF SubmitJob, Current
<1>9. ASSUME NEW v \in Users, NEW flags \in Flags, PatchUser(h, u, v, flags)
      PROVE  CalmInv'
  BY <1>9, AcceptedIsCalm DEF PatchUser, Current
<1> QED BY <1>1, <1>2, <1>3, <1>4, <1>5, <1>6, <1>7, <1>8, <1>9 DEF Check

\* A session that ends, with whatever the tables have become.
LEMMA EndedIsCalm ==
    ASSUME TypeInv, NEW h \in Handlers, session' = [session EXCEPT ![h] = NoSession],
           SessionsInv, \A g \in Handlers \ {h} : session[g] # NoSession => Current(session[g])'
    PROVE  SessionsInv'
<1>1. session'[h] = NoSession /\ \A g \in Handlers \ {h} : session'[g] = session[g]
  BY TypeParts
<1>2. ~Removes(NoSession.op)
  BY DEF Removes, NoSession
<1>3. ASSUME NEW g \in Handlers
      PROVE  Current(session[g])'
  <2>1. CASE session'[g] = NoSession
    <3>1. session'[g].op = "none"
      BY <2>1 DEF NoSession
    <3> QED BY <3>1 DEF Current
  <2>2. CASE session'[g] # NoSession
    BY <1>1, <2>2
  <2> QED BY <2>1, <2>2
<1>4. ASSUME NEW f \in Handlers, NEW g \in Handlers, Removes(session'[f].op), g # f
      PROVE  session'[g] = NoSession
  BY <1>1, <1>2, <1>4 DEF SessionsInv
<1> QED BY <1>3, <1>4 DEF SessionsInv

\* A removing request is alone.
LEMMA RemoverKeepsSessions ==
    ASSUME TypeInv, NEW h \in Handlers, session' = [session EXCEPT ![h] = NoSession],
           SessionsInv, Removes(session[h].op)
    PROVE  SessionsInv'
<1>1. \A g \in Handlers \ {h} : session[g] = NoSession
  BY DEF SessionsInv
<1> QED BY <1>1, EndedIsCalm

\* What the other requests have checked, if nothing is removed and nobody becomes an owner.
LEMMA WriterKeepsSessions ==
    ASSUME TypeInv, NEW h \in Handlers, session' = [session EXCEPT ![h] = NoSession],
           SessionsInv, session[h] # NoSession,
           DOMAIN project \subseteq DOMAIN project',
           \A m \in DOMAIN member :
               m \in DOMAIN member' /\ (member[m].role # "owner" => member'[m].role # "owner")
    PROVE  SessionsInv'
<1>1. SUFFICES ASSUME NEW g \in Handlers \ {h}
               PROVE  Current(session[g])'
  BY EndedIsCalm
<1>2. session'[g] = session[g]
  BY TypeParts
<1>3. ~Removes(session[g].op)
  BY DEF SessionsInv
<1>4. Current(session[g])
  BY DEF SessionsInv
<1>5. session[g].op \notin {"delete_project", "remove_member"}
  BY <1>3 DEF Removes
<1>6. session[g].op \in {"add_member", "create_scenario", "submit_job"} =>
          session[g].row.project \in DOMAIN project'
  BY <1>4 DEF Current
<1>7. session[g].op = "update_member" =>
          session[g].id \in DOMAIN member' /\ member'[session[g].id].role # "owner"
  BY <1>4 DEF Current
<1> QED BY <1>2, <1>5, <1>6, <1>7 DEF Current

LEMMA WriteKeepsCalm ==
    ASSUME TypeInv, CalmInv, NEW h \in Handlers, Write(h)
    PROVE  CalmInv'
<1>1. session' = [session EXCEPT ![h] = NoSession] /\ clashed' = clashed
  BY WriteEnds
<1> SUFFICES ASSUME ~clashed
             PROVE  OwnersInv' /\ RefsInv' /\ SessionsInv'
  BY <1>1 DEF CalmInv
<1>2. OwnersInv /\ RefsInv /\ SessionsInv
  BY DEF CalmInv
<1>3. Ids /\ MembersOK /\ TypeOK
  BY Subsets DEF TypeInv, TypeOK, Ids, MembersOK
<1>4. Current(session[h])
  BY <1>2 DEF SessionsInv
<1>5. CASE ProjectCreated(h)
  <2> DEFINE p == NewId(project)
             m == NewId(member)
             row == Member(p, session[h].row.user, "owner")
  <2>1. session[h] # NoSession /\ UNCHANGED <<account, scenario, job>>
    BY <1>5 DEF ProjectCreated, Writes, Ends, NoSession
  <2>2. p \notin DOMAIN project /\ m \notin DOMAIN member
    BY <1>3, NewIdIsNew DEF Ids
  <2>3. /\ DOMAIN project' = DOMAIN project \cup {p} /\ project'[p] = session[h].row.user
        /\ \A q \in DOMAIN project : project'[q] = project[q]
    BY <1>5, <2>2 DEF ProjectCreated, Insert, With
  <2>4. /\ DOMAIN member' = DOMAIN member \cup {m} /\ member'[m] = row
        /\ \A n \in DOMAIN member : member'[n] = member[n]
    BY <1>5, <2>2 DEF ProjectCreated, Insert, With
  <2>5. row.project = p /\ row.user = project'[p]
    BY <2>3 DEF Member
  <2>6. row = Member(p, project'[p], "owner")
    BY <2>3
  <2> HIDE DEF p, m, row
  <2>7. OwnersInv'
    <3>1. \A q \in DOMAIN project' :
              \E n \in DOMAIN member' : member'[n] = Member(q, project'[q], "owner")
      BY <1>2, <2>2, <2>3, <2>4, <2>6 DEF OwnersInv
    <3>2. \A n \in DOMAIN member' :
              member'[n].role = "owner" => project'[member'[n].project] = member'[n].user
      BY <1>2, <2>3, <2>4, <2>5 DEF OwnersInv, RefsInv
    <3> QED BY <3>1, <3>2 DEF OwnersInv
  <2>8. RefsInv'
    BY <1>2, <2>1, <2>3, <2>4, <2>5 DEF RefsInv
  <2>9. SessionsInv'
    BY <1>1, <1>2, <2>1, <2>3, <2>4, WriterKeepsSessions
  <2> QED BY <1>2, <2>1, <2>7, <2>8, <2>9
<1>6. CASE ProjectDeleted(h)
  <2> DEFINE p == session[h].id
  <2>1. session[h].op = "delete_project" /\ UNCHANGED <<account, scenario, job>>
    BY <1>6 DEF ProjectDeleted, Writes, Ends
  <2>2. session[h].new.members = MembersOf(p)
    BY <1>4, <2>1 DEF Current
  <2>3. /\ DOMAIN project' = DOMAIN project \ {p}
        /\ \A q \in DOMAIN project' : project'[q] = project[q]
    BY <1>6 DEF ProjectDeleted, Without, Restrict
  <2>4. /\ DOMAIN member' = DOMAIN member \ MembersOf(p)
        /\ \A m \in DOMAIN member' : member'[m] = member[m]
    BY <1>6, <2>2 DEF ProjectDeleted, Without, Restrict
  <2>5. \A m \in DOMAIN member : m \in DOMAIN member' <=> member[m].project # p
    BY <2>4 DEF MembersOf
  <2>6. /\ \A s \in DOMAIN scenario : scenario[s] # p
        /\ \A j \in DOMAIN job : job[j].project # p
    BY <1>6 DEF ProjectDeleted
  <2> HIDE DEF p
  <2>7. OwnersInv'
    <3>1. ASSUME NEW q \in DOMAIN project'
          PROVE  \E n \in DOMAIN member' : member'[n] = Member(q, project'[q], "owner")
      <4>1. PICK n \in DOMAIN member : member[n] = Member(q, project[q], "owner")
        BY <1>2, <2>3, <3>1 DEF OwnersInv
      <4>2. member[n].project = q /\ q # p
        BY <2>3, <3>1, <4>1 DEF Member
      <4> QED BY <2>3, <2>4, <2>5, <4>1, <4>2
    <3>2. \A n \in DOMAIN member' :
              member'[n].role = "owner" => project'[member'[n].project] = member'[n].user
      BY <1>2, <2>3, <2>4, <2>5 DEF OwnersInv, RefsInv
    <3> QED BY <3>1, <3>2 DEF OwnersInv
  <2>8. RefsInv'
    BY <1>2, <2>1, <2>3, <2>4, <2>5, <2>6 DEF RefsInv
  <2>9. SessionsInv'
    BY <1>1, <1>2, <2>1, RemoverKeepsSessions DEF Removes
  <2> QED BY <1>2, <2>1, <2>7, <2>8, <2>9
<1>7. CASE MemberAdded(h)
  <2> DEFINE m == NewId(member)
             row == session[h].row
  <2>1. session[h].op = "add_member" /\ UNCHANGED <<account, project, scenario, job>>
    BY <1>7 DEF MemberAdded, Writes, Ends
  <2>2. row.project \in DOMAIN project /\ row.role # "owner"
    BY <1>4, <2>1, TypeParts DEF Current, Typed
  <2>3. m \notin DOMAIN member
    BY <1>3, NewIdIsNew DEF Ids
  <2>4. /\ DOMAIN member' = DOMAIN member \cup {m} /\ member'[m] = row
        /\ \A n \in DOMAIN member : member'[n] = member[n]
    BY <1>7, <2>3 DEF MemberAdded, Insert, With
  <2> HIDE DEF m, row
  <2>5. OwnersInv'
    BY <1>2, <2>1, <2>2, <2>4 DEF OwnersInv
  <2>6. RefsInv'
    BY <1>2, <2>1, <2>2, <2>4 DEF RefsInv
  <2>7. session[h] # NoSession
    BY <2>1 DEF NoSession
  <2>8. SessionsInv'
    BY <1>1, <1>2, <2>1, <2>4, <2>7, WriterKeepsSessions
  <2> QED BY <1>2, <2>1, <2>5, <2>6, <2>8
<1>8. CASE MemberUpdated(h)
  <2> DEFINE m == session[h].id
             role == session[h].new.role
  <2>1. session[h].op = "update_member" /\ UNCHANGED <<account, project, scenario, job>>
    BY <1>8 DEF MemberUpdated, Writes, Ends
  <2>2. m \in DOMAIN member /\ member[m].role # "owner" /\ role # "owner"
    BY <1>4, <2>1, TypeParts DEF Current, Typed
  <2>3. member' = member \/ member' = [member EXCEPT ![m].role = role]
    BY <1>8 DEF MemberUpdated
  <2> HIDE DEF m, role
  <2>4. \A n \in DOMAIN member : member[n] \in [project : 1..MaxId, user : Users, role : Role]
    BY <1>3 DEF MembersOK
  <2>5. /\ DOMAIN member' = DOMAIN member
        /\ \A n \in DOMAIN member \ {m} : member'[n] = member[n]
        /\ member'[m].project = member[m].project /\ member'[m].role # "owner"
    BY <2>2, <2>3, <2>4
  <2>6. OwnersInv'
    <3>1. ASSUME NEW p \in DOMAIN project'
          PROVE  \E n \in DOMAIN member' : member'[n] = Member(p, project'[p], "owner")
      <4>1. PICK n \in DOMAIN member : member[n] = Member(p, project[p], "owner")
        BY <1>2, <2>1 DEF OwnersInv
      <4>2. n # m
        BY <2>2, <4>1 DEF Member
      <4> QED BY <2>1, <2>5, <4>1, <4>2
    <3>2. \A n \in DOMAIN member' :
              member'[n].role = "owner" => project'[member'[n].project] = member'[n].user
      BY <1>2, <2>1, <2>5 DEF OwnersInv
    <3> QED BY <3>1, <3>2 DEF OwnersInv
  <2>7. RefsInv'
    BY <1>2, <2>1, <2>5 DEF RefsInv
  <2>8. session[h] # NoSession
    BY <2>1 DEF NoSession
  <2>9. \A n \in DOMAIN member :
            n \in DOMAIN member' /\ (member[n].role # "owner" => member'[n].role # "owner")
    BY <2>5
  <2>10. SessionsInv'
    BY <1>1, <1>2, <2>1, <2>8, <2>9, WriterKeepsSessions
  <2> QED BY <1>2, <2>1, <2>6, <2>7, <2>10
<1>9. CASE MemberRemoved(h)
  <2> DEFINE m == session[h].id
  <2>1. session[h].op = "remove_member" /\ UNCHANGED <<account, project, scenario, job>>
    BY <1>9 DEF MemberRemoved, Writes, Ends
  <2>2. m \in DOMAIN member /\ member[m].role # "owner"
    BY <1>4, <2>1 DEF Current
  <2>3. /\ DOMAIN member' = DOMAIN member \ {m}
        /\ \A n \in DOMAIN member' : member'[n] = member[n]
    BY <1>9 DEF MemberRemoved, Without, Restrict
  <2> HIDE DEF m
  <2>4. OwnersInv'
    <3>1. ASSUME NEW p \in DOMAIN project'
          PROVE  \E n \in DOMAIN member' : member'[n] = Member(p, project'[p], "owner")
      <4>1. PICK n \in DOMAIN member : member[n] = Member(p, project[p], "owner")
        BY <1>2, <2>1 DEF OwnersInv
      <4>2. n # m
        BY <2>2, <4>1 DEF Member
      <4> QED BY <2>1, <2>3, <4>1, <4>2
    <3>2. \A n \in DOMAIN member' :
              member'[n].role = "owner" => project'[member'[n].project] = member'[n].user
      BY <1>2, <2>1, <2>3 DEF OwnersInv
    <3> QED BY <3>1, <3>2 DEF OwnersInv
  <2>5. RefsInv'
    BY <1>2, <2>1, <2>3 DEF RefsInv
  <2>6. SessionsInv'
    BY <1>1, <1>2, <2>1, RemoverKeepsSessions DEF Removes
  <2> QED BY <1>2, <2>1, <2>4, <2>5, <2>6
<1>10. CASE ScenarioCreated(h)
  <2> DEFINE s == NewId(scenario)
  <2>1. session[h].op = "create_scenario" /\ UNCHANGED <<account, project, member, job>>
    BY <1>10 DEF ScenarioCreated, Writes, Ends
  <2>2. session[h].row.project \in DOMAIN project
    BY <1>4, <2>1 DEF Current
  <2>3. s \notin DOMAIN scenario
    BY <1>3, NewIdIsNew DEF Ids
  <2>4. /\ DOMAIN scenario' = DOMAIN scenario \cup {s}
        /\ scenario'[s] = session[h].row.project
        /\ \A t \in DOMAIN scenario : scenario'[t] = scenario[t]
    BY <1>10, <2>3 DEF ScenarioCreated, Insert, With
  <2> HIDE DEF s
  <2>5. RefsInv'
    BY <1>2, <2>1, <2>2, <2>4 DEF RefsInv
  <2>6. session[h] # NoSession
    BY <2>1 DEF NoSession
  <2>7. SessionsInv'
    BY <1>1, <1>2, <2>1, <2>6, WriterKeepsSessions
  <2> QED BY <1>2, <2>1, <2>5, <2>7 DEF OwnersInv
<1>11. CASE ScenarioDeleted(h)
  <2>1. session[h].op = "delete_scenario" /\ UNCHANGED <<account, project, member, job>>
    BY <1>11 DEF ScenarioDeleted, Writes, Ends
  <2>2. \A s \in DOMAIN scenario' : s \in DOMAIN scenario /\ scenario'[s] = scenario[s]
    BY <1>11 DEF ScenarioDeleted, Without, Restrict
  <2>3. RefsInv'
    BY <1>2, <2>1, <2>2 DEF RefsInv
  <2>4. session[h] # NoSession
    BY <2>1 DEF NoSession
  <2>5. SessionsInv'
    BY <1>1, <1>2, <2>1, <2>4, WriterKeepsSessions
  <2> QED BY <1>2, <2>1, <2>3, <2>5 DEF OwnersInv
<1>12. CASE JobSubmitted(h)
  <2> DEFINE j == NewId(job)
  <2>1. session[h].op = "submit_job" /\ UNCHANGED <<account, project, member, scenario>>
    BY <1>12 DEF JobSubmitted, Writes, Ends
  <2>2. session[h].row.project \in DOMAIN project
    BY <1>4, <2>1 DEF Current
  <2>3. j \notin DOMAIN job
    BY <1>3, NewIdIsNew DEF Ids
  <2>4. /\ DOMAIN job' = DOMAIN job \cup {j} /\ job'[j] = session[h].row
        /\ \A k \in DOMAIN job : job'[k] = job[k]
    BY <1>12, <2>3 DEF JobSubmitted, Insert, With
  <2> HIDE DEF j
  <2>5. RefsInv'
    BY <1>2, <2>1, <2>2, <2>4 DEF RefsInv
  <2>6. session[h] # NoSession
    BY <2>1 DEF NoSession
  <2>7. SessionsInv'
    BY <1>1, <1>2, <2>1, <2>6, WriterKeepsSessions
  <2> QED BY <1>2, <2>1, <2>5, <2>7 DEF OwnersInv
<1>13. CASE UserPatched(h)
  <2>1. session[h] # NoSession /\ UNCHANGED <<project, member, scenario, job>>
    BY <1>13 DEF UserPatched, Ends, NoSession
  <2>2. SessionsInv'
    BY <1>1, <1>2, <2>1, WriterKeepsSessions
  <2> QED BY <1>2, <2>1, <2>2 DEF OwnersInv, RefsInv
<1>14. CASE Rollback(h)
  <2>1. session[h] # NoSession /\ UNCHANGED tables
    BY <1>14 DEF Rollback, tables
  <2>2. SessionsInv'
    BY <1>1, <1>2, <2>1, WriterKeepsSessions DEF tables
  <2> QED BY <1>2, <2>1, <2>2 DEF OwnersInv, RefsInv, tables
<1> QED BY <1>5, <1>6, <1>7, <1>8, <1>9, <1>10, <1>11, <1>12, <1>13, <1>14 DEF Write

LEMMA ExecuteKeepsCalm ==
    ASSUME TypeInv, CalmInv, NEW k \in DOMAIN job, Execute(k)
    PROVE  CalmInv'
<1>1. /\ DOMAIN job' = DOMAIN job
      /\ \A j \in DOMAIN job : job'[j].project = job[j].project
  BY ExecutedJobs DEF TypeInv
<1>2. UNCHANGED <<account, project, member, scenario, session, requests, clashed>>
  BY DEF Execute
<1>3. OwnersInv => OwnersInv'
  BY <1>2 DEF OwnersInv
<1>4. RefsInv => RefsInv'
  BY <1>1, <1>2 DEF RefsInv
<1>5. SessionsInv => SessionsInv'
  BY <1>2 DEF SessionsInv, Current, MembersOf
<1> QED BY <1>2, <1>3, <1>4, <1>5 DEF CalmInv

LEMMA ForcingKeepsCalm ==
    ASSUME TypeInv, CalmInv, NEW h \in Handlers, ForcingStep(h)
    PROVE  CalmInv'
<1>1. ASSUME NEW u \in Users, NEW p \in 1..MaxId, NEW name \in FileNames, NEW c \in Contents,
             UploadForcing(h, u, p, name, c)
      PROVE  CalmInv'
  BY <1>1, AcceptedIsCalm DEF UploadForcing, AcceptedForcing, Current
<1>2. ASSUME NEW u \in Users, NEW p \in 1..MaxId, NEW f \in DOMAIN forcing,
             DeleteForcing(h, u, p, f)
      PROVE  CalmInv'
  BY <1>2, AcceptedIsCalm DEF DeleteForcing, AcceptedForcing, Current
<1>4. CASE UnlinkForcing(h)
  <2>1. UNCHANGED <<tables, clashed>>
    BY <1>4 DEF UnlinkForcing
  <2>2. SessionsInv => SessionsInv'
    <3>1. SUFFICES ASSUME SessionsInv
                   PROVE  SessionsInv'
      OBVIOUS
    <3>2. /\ session[h].op = "delete_forcing" /\ session'[h].op = "delete_forcing"
          /\ session[h] # NoSession
          /\ \A g \in Handlers \ {h} : session'[g] = session[g]
      BY <1>4, UnlinkSession DEF Deleting, NoSession
    <3>3. \A g \in Handlers : Current(session[g])'
      <4>1. Current(session[h])'
        BY <3>2 DEF Current
      <4>2. ASSUME NEW g \in Handlers \ {h} PROVE Current(session[g])'
        BY <2>1, <3>1, <3>2 DEF SessionsInv, Current, MembersOf, tables
      <4> QED BY <4>1, <4>2
    <3>4. ASSUME NEW f \in Handlers, NEW g \in Handlers, Removes(session'[f].op), g # f
          PROVE  session'[g] = NoSession
      <4>1. f # h /\ session'[f] = session[f]
        BY <3>2, <3>4 DEF Removes
      <4>2. session[h] = NoSession
        BY <3>1, <3>4, <4>1 DEF SessionsInv
      <4> QED BY <3>2, <4>2
    <3> QED BY <3>3, <3>4 DEF SessionsInv
  <2> QED BY <2>1, <2>2 DEF CalmInv, OwnersInv, RefsInv, tables
<1>3. CASE ForcingUploaded(h) \/ ForcingDeleted(h) \/ ForcingUndone(h)
  <2>1. /\ session' = [session EXCEPT ![h] = NoSession] /\ session[h] # NoSession
        /\ UNCHANGED <<tables, requests, clashed>>
    BY <1>3 DEF ForcingUploaded, ForcingDeleted, ForcingUndone, Writes, Ends, Rollback, tables,
                NoSession
  <2>2. SessionsInv => SessionsInv'
    BY <2>1, WriterKeepsSessions DEF tables
  <2> QED BY <2>1, <2>2 DEF CalmInv, OwnersInv, RefsInv, tables
<1> QED BY <1>1, <1>2, <1>3, <1>4 DEF ForcingStep

LEMMA StepKeepsCalm ==
    ASSUME TypeInv, CalmInv, [ForcingNext]_allVars
    PROVE  CalmInv'
<1>1. CASE OtherStep
  BY <1>1, CheckKeepsCalm, WriteKeepsCalm, ExecuteKeepsCalm DEF OtherStep, Next
<1>2. ASSUME NEW h \in Handlers, ForcingStep(h)
      PROVE  CalmInv'
  BY <1>2, ForcingKeepsCalm
<1>3. CASE UNCHANGED allVars
  <2>1. SessionsInv => SessionsInv'
    BY <1>3 DEF allVars, vars, SessionsInv, Current, MembersOf
  <2> QED BY <1>3, <2>1 DEF allVars, vars, CalmInv, OwnersInv, RefsInv
<1> QED BY <1>1, <1>2, <1>3 DEF ForcingNext

-----------------------------------------------------------------------------
(* The rights of those who have patches under way.                         *)

LEMMA AcceptedKeepsRights ==
    ASSUME TypeInv, RightsInv, NEW h \in Handlers, NEW op, NEW id, NEW row, NEW new,
           Accepted(h, op, id, row, new),
           Entitled([op |-> op, id |-> id, row |-> row, new |-> new])
    PROVE  RightsInv'
<1> DEFINE s == [op |-> op, id |-> id, row |-> row, new |-> new]
<1>1. session' = [session EXCEPT ![h] = s] /\ account' = account /\ crossed' = crossed
  BY DEF Accepted, tables
<1>2. Entitled(s)
  OBVIOUS
<1> HIDE DEF s
<1>3. session'[h] = s /\ \A g \in Handlers \ {h} : session'[g] = session[g]
  BY <1>1, TypeParts
<1>4. \A u \in Users : Administers(u)' <=> Administers(u)
  BY <1>1 DEF Administers, LoggedIn
<1>5. \A g \in Handlers : Entitled(session[g]) => Entitled(session[g])' \/ g = h
  BY <1>1, <1>3 DEF Entitled, Administers, LoggedIn
<1>6. Entitled(session[h])'
  BY <1>1, <1>2, <1>3 DEF Entitled, Administers, LoggedIn
<1> QED BY <1>1, <1>4, <1>5, <1>6 DEF RightsInv

\* A session ends, no account is changed.
LEMMA EndedKeepsRights ==
    ASSUME TypeInv, RightsInv, NEW h \in Handlers, session' = [session EXCEPT ![h] = NoSession],
           UNCHANGED <<account, crossed>>
    PROVE  RightsInv'
<1>1. session'[h] = NoSession /\ \A g \in Handlers \ {h} : session'[g] = session[g]
  BY TypeParts
<1>2. NoSession.op # "patch_user"
  BY DEF NoSession
<1> QED BY <1>1, <1>2 DEF RightsInv, Entitled, Administers, LoggedIn

LEMMA CheckKeepsRights ==
    ASSUME TypeInv, RightsInv, NEW h \in Handlers, NEW u \in Users, Check(h, u)
    PROVE  RightsInv'
<1>0. ASSUME NEW op, NEW id, NEW row, NEW new, Accepted(h, op, id, row, new), op # "patch_user"
      PROVE  RightsInv'
  BY <1>0, AcceptedKeepsRights DEF Entitled
<1>1. CASE CreateProject(h, u)
  BY <1>1, <1>0 DEF CreateProject
<1>2. ASSUME NEW p \in DOMAIN project, DeleteProject(h, u, p)
      PROVE  RightsInv'
  BY <1>2, <1>0 DEF DeleteProject
<1>3. ASSUME NEW p \in 1..MaxId, CreateScenario(h, u, p)
      PROVE  RightsInv'
  BY <1>3, <1>0 DEF CreateScenario
<1>4. ASSUME NEW p \in 1..MaxId, NEW v \in Users, NEW role \in Role, AddMember(h, u, p, v, role)
      PROVE  RightsInv'
  BY <1>4, <1>0 DEF AddMember
<1>5. ASSUME NEW m \in DOMAIN member, RemoveMember(h, u, m)
      PROVE  RightsInv'
  BY <1>5, <1>0 DEF RemoveMember
<1>6. ASSUME NEW m \in DOMAIN member, NEW role \in Role, UpdateMember(h, u, m, role)
      PROVE  RightsInv'
  BY <1>6, <1>0 DEF UpdateMember
<1>7. ASSUME NEW s \in DOMAIN scenario, DeleteScenario(h, u, s)
      PROVE  RightsInv'
  BY <1>7, <1>0 DEF DeleteScenario
<1>8. ASSUME NEW b \in DOMAIN scenario, NEW i \in DOMAIN scenario \cup {None},
             SubmitJob(h, u, b, i)
      PROVE  RightsInv'
  BY <1>8, <1>0 DEF SubmitJob
<1>9. ASSUME NEW v \in Users, NEW flags \in Flags, PatchUser(h, u, v, flags)
      PROVE  RightsInv'
  <2>1. Entitled([op |-> "patch_user", id |-> v, row |-> account[v],
                  new |-> [actor |-> u, flags |-> flags]])
    BY <1>9 DEF PatchUser, Entitled
  <2> QED BY <1>9, <2>1, AcceptedKeepsRights DEF PatchUser
<1> QED BY <1>1, <1>2, <1>3, <1>4, <1>5, <1>6, <1>7, <1>8, <1>9 DEF Check

\* Who asked for a patch is an administrator after it.
LEMMA ActorRemains ==
    ASSUME TypeInv, NEW h \in Handlers, UserPatched(h), Entitled(session[h])
    PROVE  /\ session[h].new.actor \in Users
           /\ account'[session[h].new.actor].is_admin /\ account'[session[h].new.actor].is_active
<1> DEFINE s == session[h]
           u == s.new.actor
           v == s.id
           flags == s.new.flags
<1>1. s.op = "patch_user" /\ u \in Users /\ v \in Users /\ flags \in Flags
  BY TypeParts DEF UserPatched, Ends, Typed
<1>2. /\ account[u].is_admin /\ account[u].is_active
      /\ u = v => flags.is_active # FALSE /\ flags.is_admin # FALSE
  BY <1>1 DEF Entitled, Administers, LoggedIn
<1>3. account \in [Users -> [is_admin : BOOLEAN, is_active : BOOLEAN]]
  BY DEF TypeInv, TypeOK
<1> DEFINE admin == Flag(account[v].is_admin, s.row.is_admin, flags.is_admin)
           active == Flag(account[v].is_active, s.row.is_active, flags.is_active)
<1>4. account' = [account EXCEPT ![v] = [is_admin |-> admin, is_active |-> active]]
  BY DEF UserPatched
<1>5. ASSUME u # v PROVE account'[u].is_admin /\ account'[u].is_active
  <2> HIDE DEF u, v, admin, active
  <2> QED BY <1>1, <1>2, <1>3, <1>4, <1>5
<1>6. ASSUME u = v PROVE account'[u].is_admin /\ account'[u].is_active
  <2>1. flags.is_admin \in {TRUE, None} /\ flags.is_active \in {TRUE, None}
    BY <1>1, <1>2, <1>6, FlagsOf
  <2>2. account[v].is_admin = TRUE /\ account[v].is_active = TRUE
    BY <1>1, <1>2, <1>3, <1>6
  <2>3. admin = TRUE /\ active = TRUE
    BY <2>1, <2>2 DEF Flag
  <2> HIDE DEF admin, active, u, v
  <2>4. account'[u] = [is_admin |-> admin, is_active |-> active]
    BY <1>1, <1>3, <1>4, <1>6
  <2> QED BY <2>3, <2>4
<1> QED BY <1>1, <1>5, <1>6

LEMMA PatchKeepsRights ==
    ASSUME TypeInv, RightsInv, NEW h \in Handlers, UserPatched(h)
    PROVE  RightsInv'
<1> DEFINE v == session[h].id
           out == ~(account'[v].is_admin /\ account'[v].is_active)
<1>1. /\ crossed' = (crossed \/ ((\E g \in Handlers \ {h} : PatchBy(g, v)) /\ out))
      /\ session' = [session EXCEPT ![h] = NoSession]
  BY Zenon DEF UserPatched, Ends
<1>2. \A u \in Users \ {v} : account'[u] = account[u]
  BY DEF UserPatched, TypeInv, TypeOK
<1> HIDE DEF v, out
<1> SUFFICES ASSUME ~crossed'
             PROVE  (\E u \in Users : Administers(u))' /\ \A g \in Handlers : Entitled(session[g])'
  BY DEF RightsInv
<1>3. /\ \A g \in Handlers : Entitled(session[g])
      /\ \A g \in Handlers \ {h} : PatchBy(g, v) => ~out
  BY <1>1 DEF RightsInv
<1>4. (\E u \in Users : Administers(u))'
  BY <1>3, ActorRemains DEF Administers, LoggedIn
<1>5. session'[h] = NoSession /\ \A g \in Handlers \ {h} : session'[g] = session[g]
  BY <1>1, TypeParts
<1>6. Entitled(session[h])'
  BY <1>5 DEF Entitled, NoSession
<1>7. ASSUME NEW g \in Handlers \ {h}, session[g].op = "patch_user"
      PROVE  Entitled(session[g])'
  <2>1. session[g].new.actor \in Users
    BY <1>7, TypeParts DEF Typed
  <2>2. account'[session[g].new.actor].is_admin /\ account'[session[g].new.actor].is_active
    <3>1. CASE session[g].new.actor = v
      BY <1>3, <1>7, <3>1 DEF PatchBy, out
    <3>2. CASE session[g].new.actor # v
      BY <1>2, <1>3, <1>7, <2>1, <3>2 DEF Entitled, Administers, LoggedIn
    <3> QED BY <3>1, <3>2
  <2> QED BY <1>3, <1>5, <1>7, <2>2 DEF Entitled, Administers, LoggedIn
<1>8. ASSUME NEW g \in Handlers \ {h}, session[g].op # "patch_user"
      PROVE  Entitled(session[g])'
  BY <1>5, <1>8 DEF Entitled
<1> QED BY <1>4, <1>6, <1>7, <1>8

LEMMA WriteKeepsRights ==
    ASSUME TypeInv, RightsInv, NEW h \in Handlers, Write(h)
    PROVE  RightsInv'
<1>1. CASE UserPatched(h)
  BY <1>1, PatchKeepsRights
<1>2. CASE ~UserPatched(h)
  <2>1. UNCHANGED <<account, crossed>>
    BY <1>2 DEF Write, Writes, ProjectCreated, ProjectDeleted, MemberAdded, MemberUpdated,
                MemberRemoved, ScenarioCreated, ScenarioDeleted, JobSubmitted, Rollback
  <2> QED BY <2>1, WriteEnds, EndedKeepsRights
<1> QED BY <1>1, <1>2

LEMMA ForcingKeepsRights ==
    ASSUME TypeInv, RightsInv, NEW h \in Handlers, ForcingStep(h)
    PROVE  RightsInv'
<1>1. ASSUME NEW u \in Users, NEW p \in 1..MaxId, NEW name \in FileNames, NEW c \in Contents,
             UploadForcing(h, u, p, name, c)
      PROVE  RightsInv'
  BY <1>1, AcceptedKeepsRights DEF UploadForcing, AcceptedForcing, Entitled
<1>2. ASSUME NEW u \in Users, NEW p \in 1..MaxId, NEW f \in DOMAIN forcing,
             DeleteForcing(h, u, p, f)
      PROVE  RightsInv'
  BY <1>2, AcceptedKeepsRights DEF DeleteForcing, AcceptedForcing, Entitled
<1>3. CASE UnlinkForcing(h)
  <2>1. UNCHANGED <<account, crossed>>
    BY <1>3 DEF UnlinkForcing, tables
  <2>2. /\ session'[h].op = "delete_forcing"
        /\ \A g \in Handlers \ {h} : session'[g] = session[g]
    BY <1>3, UnlinkSession
  <2> QED BY <2>1, <2>2 DEF RightsInv, Entitled, Administers, LoggedIn
<1>4. CASE ForcingUploaded(h) \/ ForcingDeleted(h) \/ ForcingUndone(h)
  <2>1. /\ session' = [session EXCEPT ![h] = NoSession]
        /\ UNCHANGED <<account, crossed>>
    BY <1>4 DEF ForcingUploaded, ForcingDeleted, ForcingUndone, Writes, Ends, Rollback, tables
  <2> QED BY <2>1, EndedKeepsRights
<1> QED BY <1>1, <1>2, <1>3, <1>4 DEF ForcingStep

LEMMA StepKeepsRights ==
    ASSUME TypeInv, RightsInv, [ForcingNext]_allVars
    PROVE  RightsInv'
<1>1. ASSUME NEW h \in Handlers, NEW u \in Users, Check(h, u)
      PROVE  RightsInv'
  BY <1>1, CheckKeepsRights
<1>2. ASSUME NEW h \in Handlers, Write(h) \/ ForcingStep(h)
      PROVE  RightsInv'
  BY <1>2, WriteKeepsRights, ForcingKeepsRights
<1>3. ASSUME UNCHANGED <<account, session, crossed>>
      PROVE  RightsInv'
  BY <1>3 DEF RightsInv, Entitled, Administers, LoggedIn
<1>4. ASSUME NEW j \in DOMAIN job, Execute(j)
      PROVE  RightsInv'
  BY <1>3, <1>4 DEF Execute
<1>5. CASE UNCHANGED allVars
  BY <1>3, <1>5 DEF allVars, vars
<1> QED BY <1>1, <1>2, <1>4, <1>5 DEF ForcingNext, OtherStep, Next

-----------------------------------------------------------------------------
(* The files on the disk.                                                  *)

\* The session of a request that passes its checks.
LEMMA AcceptedSession ==
    ASSUME TypeInv, NEW h \in Handlers, NEW op, NEW id, NEW row, NEW new,
           Accepted(h, op, id, row, new)
    PROVE  /\ session[h] = NoSession
           /\ session'[h].op = op /\ session'[h].id = id /\ session'[h].row = row
           /\ session'[h].new = new
           /\ \A g \in Handlers \ {h} : session'[g] = session[g]
<1> DEFINE s == [op |-> op, id |-> id, row |-> row, new |-> new]
<1>1. session' = [session EXCEPT ![h] = s] /\ session[h] = NoSession
  BY DEF Accepted
<1>2. s.op = op /\ s.id = id /\ s.row = row /\ s.new = new
  OBVIOUS
<1> HIDE DEF s
<1> QED BY <1>1, <1>2, TypeParts

ForcingOps == {"upload_forcing", "delete_forcing"}

LEMMA CheckedOps ==
    ASSUME TypeInv, NEW h \in Handlers, NEW u \in Users, Check(h, u)
    PROVE  session'[h].op \notin ForcingOps /\ \A g \in Handlers \ {h} : session'[g] = session[g]
<1> DEFINE Goal == session'[h].op \notin ForcingOps
                       /\ \A g \in Handlers \ {h} : session'[g] = session[g]
<1>0. ASSUME NEW op, NEW id, NEW row, NEW new, Accepted(h, op, id, row, new),
             op \notin ForcingOps
      PROVE  Goal
  BY <1>0, AcceptedSession
<1> HIDE DEF Goal
<1>1. ASSUME CreateProject(h, u)
      PROVE  Goal
  BY <1>1, <1>0 DEF CreateProject, ForcingOps
<1>2. ASSUME NEW p \in DOMAIN project, DeleteProject(h, u, p)
      PROVE  Goal
  BY <1>2, <1>0 DEF DeleteProject, ForcingOps
<1>3. ASSUME NEW p \in 1..MaxId, CreateScenario(h, u, p)
      PROVE  Goal
  BY <1>3, <1>0 DEF CreateScenario, ForcingOps
<1>4. ASSUME NEW p \in 1..MaxId, NEW v \in Users, NEW role \in Role, AddMember(h, u, p, v, role)
      PROVE  Goal
  BY <1>4, <1>0 DEF AddMember, ForcingOps
<1>5. ASSUME NEW m \in DOMAIN member, RemoveMember(h, u, m)
      PROVE  Goal
  BY <1>5, <1>0 DEF RemoveMember, ForcingOps
<1>6. ASSUME NEW m \in DOMAIN member, NEW role \in Role, UpdateMember(h, u, m, role)
      PROVE  Goal
  BY <1>6, <1>0 DEF UpdateMember, ForcingOps
<1>7. ASSUME NEW s \in DOMAIN scenario, DeleteScenario(h, u, s)
      PROVE  Goal
  BY <1>7, <1>0 DEF DeleteScenario, ForcingOps
<1>8. ASSUME NEW b \in DOMAIN scenario, NEW i \in DOMAIN scenario \cup {None},
             SubmitJob(h, u, b, i)
      PROVE  Goal
  BY <1>8, <1>0 DEF SubmitJob, ForcingOps
<1>9. ASSUME NEW v \in Users, NEW flags \in Flags, PatchUser(h, u, v, flags)
      PROVE  Goal
  BY <1>9, <1>0 DEF PatchUser, ForcingOps
<1>10. Goal
  BY <1>1, <1>2, <1>3, <1>4, <1>5, <1>6, <1>7, <1>8, <1>9 DEF Check
<1> QED BY <1>10 DEF Goal

\* A step of the other routes begins and ends no upload and no deletion of a file.
LEMMA OthersKeepForcing ==
    ASSUME TypeInv, OtherStep, NEW h \in Handlers
    PROVE  /\ Uploading(h)' <=> Uploading(h)
           /\ Deleting(h)' <=> Deleting(h)
           /\ Unlinked(h)' <=> Unlinked(h)
           /\ Uploading(h) \/ Deleting(h) => session'[h] = session[h]
<1>1. Uploading(h) \/ Deleting(h) => session'[h] = session[h]
  BY DEF OtherStep
<1> DEFINE Stays == session'[h] = session[h] \/ session'[h].op \notin ForcingOps
<1>2. ASSUME NEW g \in Handlers, NEW u \in Users, Check(g, u)
      PROVE  Stays
  BY <1>2, CheckedOps
<1>3. ASSUME NEW g \in Handlers, Write(g)
      PROVE  Stays
  <2>1. session'[h] = session[h] \/ session'[h] = NoSession
    BY <1>3, WriteEnds, TypeParts
  <2>2. NoSession.op \notin ForcingOps
    BY DEF NoSession, ForcingOps
  <2> QED BY <2>1, <2>2
<1>4. ASSUME NEW j \in DOMAIN job, Execute(j)
      PROVE  Stays
  BY <1>4 DEF Execute
<1>5. Stays
  BY <1>2, <1>3, <1>4 DEF OtherStep, Next
<1> QED BY <1>1, <1>5 DEF Uploading, Deleting, Unlinked, ForcingOps

LEMMA OthersKeepFiles ==
    ASSUME TypeInv, FilesInv, OtherStep
    PROVE  FilesInv'
<1>1. UNCHANGED forcingVars
  BY DEF OtherStep
<1>2. NamesApart => NamesApart'
  BY <1>1, OthersKeepForcing DEF NamesApart, Apart, forcingVars
<1>3. \A row : OnDisk(row) => OnDisk(row)'
  BY <1>1 DEF OnDisk, forcingVars
<1>4. \A f : GoingAway(f) => GoingAway(f)'
  BY OthersKeepForcing DEF GoingAway, Unlinked
<1>6. RowsStand => RowsStand'
  BY <1>1, OthersKeepForcing DEF RowsStand, forcingVars
<1>5. Stored => Stored'
  <2>1. SUFFICES ASSUME Stored
                 PROVE  Stored'
    OBVIOUS
  <2>2. ASSUME NEW h \in Handlers, Uploading(h)'
        PROVE  OnDisk(session[h].row)'
    BY <1>1, <2>1, <2>2, OthersKeepForcing DEF Stored, OnDisk, forcingVars
  <2>3. ASSUME NEW f \in DOMAIN forcing'
        PROVE  GoingAway(f)' \/ OnDisk(forcing[f])'
    BY <1>1, <1>4, <2>1, <2>3 DEF Stored, OnDisk, forcingVars
  <2> QED BY <2>2, <2>3 DEF Stored
<1> QED BY <1>1, <1>2, <1>5, <1>6 DEF FilesInv, forcingVars

\* Files with different names are stored under different names.
LEMMA ApartIsStoredApart ==
    ASSUME NEW row, NEW other, Apart(row, other)
    PROVE  StoredName(row) # StoredName(other)
BY DEF Apart, StoredName

LEMMA UploadKeepsFiles ==
    ASSUME TypeInv, FilesInv, NEW h \in Handlers, NEW u \in Users, NEW p \in 1..MaxId,
           NEW name \in FileNames, NEW c \in Contents, UploadForcing(h, u, p, name, c)
    PROVE  FilesInv'
<1> DEFINE row == [project |-> p, name |-> name, size |-> c, validated |-> c \in Passing]
<1>1. /\ row.project = p /\ row.name = name /\ row.size = c
      /\ row.validated = (c \in Passing)
  OBVIOUS
<1>2. /\ forcing' = forcing /\ disk' = With(disk, StoredName(row), c)
      /\ past' = [past EXCEPT !.shared = @ \/ Taken(p, name)]
  BY DEF UploadForcing, AcceptedForcing
<1>3. /\ session[h] = NoSession /\ session'[h].op = "upload_forcing" /\ session'[h].row = row
      /\ \A g \in Handlers \ {h} : session'[g] = session[g]
  <2> HIDE DEF row
  <2> QED BY AcceptedSession DEF UploadForcing, AcceptedForcing, row
<1> SUFFICES ASSUME ~past'.shared, ~past'.undone, ~past'.twice
             PROVE  NamesApart' /\ Stored' /\ RowsStand'
  BY <1>2 DEF FilesInv
<1>4. ~Taken(p, name) /\ NamesApart /\ Stored /\ RowsStand
  BY <1>2 DEF FilesInv
<1> HIDE DEF row
<1>5. /\ \A f \in DOMAIN forcing : Apart(row, forcing[f])
      /\ \A g \in Handlers : Uploading(g) => Apart(row, session[g].row)
  BY <1>1, <1>4 DEF Taken, Apart
<1>6. /\ ~Uploading(h) /\ ~Deleting(h) /\ Uploading(h)' /\ ~Deleting(h)'
      /\ \A g \in Handlers \ {h} : /\ Uploading(g)' <=> Uploading(g)
                                   /\ Deleting(g)' <=> Deleting(g)
                                   /\ Unlinked(g)' <=> Unlinked(g)
  BY <1>3 DEF Uploading, Deleting, Unlinked, NoSession
<1>7. OnDisk(row)'
  BY <1>1, <1>2 DEF OnDisk, With
<1>8. \A other : Apart(row, other) /\ OnDisk(other) => OnDisk(other)'
  BY <1>2, ApartIsStoredApart DEF OnDisk, With
<1>9. NamesApart'
  BY <1>2, <1>3, <1>4, <1>5, <1>6 DEF NamesApart, Apart
<1>10. \A f \in DOMAIN forcing : GoingAway(f) => GoingAway(f)'
  BY <1>3, <1>6 DEF GoingAway, Unlinked
<1>11. Stored'
  <2>1. ASSUME NEW g \in Handlers, Uploading(g)'
        PROVE  OnDisk(session[g].row)'
    BY <1>3, <1>4, <1>5, <1>6, <1>7, <1>8, <2>1 DEF Stored
  <2>2. ASSUME NEW f \in DOMAIN forcing
        PROVE  GoingAway(f)' \/ OnDisk(forcing[f])'
    BY <1>2, <1>4, <1>5, <1>8, <1>10, <2>2 DEF Stored
  <2> QED BY <1>2, <2>1, <2>2 DEF Stored
<1>12. RowsStand'
  BY <1>2, <1>3, <1>4, <1>6 DEF RowsStand
<1> QED BY <1>9, <1>11, <1>12

LEMMA DeleteKeepsFiles ==
    ASSUME TypeInv, FilesInv, NEW h \in Handlers, NEW u \in Users, NEW p \in 1..MaxId,
           NEW f \in DOMAIN forcing, DeleteForcing(h, u, p, f)
    PROVE  FilesInv'
<1> DEFINE again == \E g \in Handlers : Deleting(g) /\ session[g].id = f
<1>1. /\ UNCHANGED <<forcing, disk>> /\ past' = [past EXCEPT !.twice = @ \/ again]
      /\ again \in BOOLEAN
  BY DEF DeleteForcing, AcceptedForcing
<1> HIDE DEF again
<1>2. /\ session[h] = NoSession /\ session'[h].op = "delete_forcing" /\ session'[h].id = f
      /\ session'[h].row = forcing[f]
      /\ \A g \in Handlers \ {h} : session'[g] = session[g]
  BY AcceptedSession DEF DeleteForcing, AcceptedForcing
<1> SUFFICES ASSUME ~past'.shared, ~past'.undone, ~past'.twice
             PROVE  NamesApart' /\ Stored' /\ RowsStand'
  BY <1>1 DEF FilesInv
<1>3. ~again /\ NamesApart /\ Stored /\ RowsStand
  BY <1>1 DEF FilesInv
<1>4. /\ ~Uploading(h) /\ ~Uploading(h)' /\ ~Unlinked(h) /\ ~Deleting(h)
      /\ \A g \in Handlers \ {h} : /\ Uploading(g)' <=> Uploading(g)
                                   /\ Deleting(g)' <=> Deleting(g)
                                   /\ Unlinked(g)' <=> Unlinked(g)
  BY <1>2 DEF Uploading, Deleting, Unlinked, NoSession
<1>5. NamesApart'
  BY <1>1, <1>2, <1>3, <1>4 DEF NamesApart, Apart
<1>6. \A g \in DOMAIN forcing : GoingAway(g) => GoingAway(g)'
  BY <1>2, <1>4 DEF GoingAway
<1>7. \A row : OnDisk(row) => OnDisk(row)'
  BY <1>1 DEF OnDisk
<1>8. Stored'
  BY <1>1, <1>2, <1>3, <1>4, <1>6, <1>7 DEF Stored, OnDisk
<1>9. RowsStand'
  BY <1>1, <1>2, <1>3, <1>4 DEF RowsStand, again
<1> QED BY <1>5, <1>8, <1>9

LEMMA UnlinkKeepsFiles ==
    ASSUME TypeInv, FilesInv, NEW h \in Handlers, UnlinkForcing(h)
    PROVE  FilesInv'
<1> DEFINE row == session[h].row
           f == session[h].id
<1>1. UNCHANGED <<forcing, past>> /\ disk' = Without(disk, {StoredName(row)})
  BY DEF UnlinkForcing
<1>2. /\ Deleting(h) /\ Unlinked(h)' /\ session'[h].id = f /\ session'[h].row = row
      /\ \A g \in Handlers \ {h} : session'[g] = session[g]
  BY UnlinkSession
<1> SUFFICES ASSUME NamesApart, Stored, RowsStand
             PROVE  NamesApart' /\ Stored' /\ RowsStand'
  BY <1>1 DEF FilesInv
<1>3. f \in DOMAIN forcing /\ forcing[f] = row
  BY <1>2 DEF RowsStand
<1> HIDE DEF row, f
<1>4. /\ ~Uploading(h) /\ ~Uploading(h)' /\ Deleting(h)'
      /\ \A g \in Handlers \ {h} : /\ Uploading(g)' <=> Uploading(g)
                                   /\ Deleting(g)' <=> Deleting(g)
                                   /\ Unlinked(g)' <=> Unlinked(g)
  BY <1>2 DEF Uploading, Deleting, Unlinked
<1>5. \A other : Apart(other, row) /\ OnDisk(other) => OnDisk(other)'
  BY <1>1, ApartIsStoredApart DEF OnDisk, Without, Restrict
<1>6. NamesApart'
  BY <1>1, <1>2, <1>4 DEF NamesApart, Apart
<1>7. \A g \in DOMAIN forcing : g = f \/ GoingAway(g) => GoingAway(g)'
  BY <1>2, <1>4 DEF GoingAway, f
<1>8. Stored'
  <2>1. ASSUME NEW g \in Handlers, Uploading(g)'
        PROVE  OnDisk(session[g].row)'
    <3>1. g # h /\ Uploading(g) /\ session'[g] = session[g]
      BY <1>2, <1>4, <2>1
    <3>2. Apart(session[g].row, row) /\ OnDisk(session[g].row)
      BY <1>3, <3>1 DEF NamesApart, Stored
    <3> QED BY <1>1, <3>1, <3>2, ApartIsStoredApart DEF OnDisk, Without, Restrict
  <2>2. ASSUME NEW g \in DOMAIN forcing
        PROVE  GoingAway(g)' \/ OnDisk(forcing[g])'
    <3>1. CASE g = f
      BY <1>7, <3>1
    <3>2. CASE g # f
      <4>1. Apart(forcing[g], row)
        BY <1>3, <3>2 DEF NamesApart
      <4>2. GoingAway(g) \/ OnDisk(forcing[g])
        BY DEF Stored
      <4>3. OnDisk(forcing[g]) => OnDisk(forcing[g])'
        <5>1. StoredName(forcing[g]) # StoredName(row)
          BY <4>1, ApartIsStoredApart
        <5>2. forcing'[g] = forcing[g]
          BY <1>1
        <5> QED BY <1>1, <5>1, <5>2 DEF OnDisk, StoredName, Without, Restrict
      <4> QED BY <1>7, <4>2, <4>3
    <3> QED BY <3>1, <3>2
  <2> QED BY <1>1, <2>1, <2>2 DEF Stored
<1>9. RowsStand'
  BY <1>1, <1>2, <1>4 DEF RowsStand, f, row
<1> QED BY <1>6, <1>8, <1>9

\* The sessions when one of them ends.
LEMMA EndedSession ==
    ASSUME TypeInv, NEW h \in Handlers, session' = [session EXCEPT ![h] = NoSession]
    PROVE  /\ ~Uploading(h)' /\ ~Deleting(h)'
           /\ \A g \in Handlers \ {h} : /\ session'[g] = session[g]
                                        /\ Uploading(g)' <=> Uploading(g)
                                        /\ Deleting(g)' <=> Deleting(g)
                                        /\ Unlinked(g)' <=> Unlinked(g)
<1>1. session'[h] = NoSession /\ \A g \in Handlers \ {h} : session'[g] = session[g]
  BY TypeParts
<1> QED BY <1>1 DEF Uploading, Deleting, Unlinked, NoSession

\* A session that ends, with some of the rows or all of them.
LEMMA NamesStayApart ==
    ASSUME TypeInv, NEW h \in Handlers, session' = [session EXCEPT ![h] = NoSession], NamesApart,
           \A f \in DOMAIN forcing' : f \in DOMAIN forcing /\ forcing'[f] = forcing[f]
    PROVE  NamesApart'
<1>1. \A g \in Handlers : Uploading(g)' => Uploading(g) /\ session'[g] = session[g]
  BY EndedSession
<1>2. ASSUME NEW g \in DOMAIN forcing', NEW k \in DOMAIN forcing', g # k
      PROVE  Apart(forcing'[g], forcing'[k])
  BY <1>2 DEF NamesApart, Apart
<1>3. ASSUME NEW g \in Handlers, NEW k \in Handlers, Uploading(g)', Uploading(k)', g # k
      PROVE  Apart(session'[g].row, session'[k].row)
  BY <1>1, <1>3 DEF NamesApart
<1>4. ASSUME NEW g \in Handlers, NEW k \in DOMAIN forcing', Uploading(g)'
      PROVE  Apart(session'[g].row, forcing'[k])
  BY <1>1, <1>4 DEF NamesApart
<1> QED BY <1>2, <1>3, <1>4 DEF NamesApart, Apart

LEMMA UploadedKeepsFiles ==
    ASSUME TypeInv, FilesInv, NEW h \in Handlers, ForcingUploaded(h)
    PROVE  FilesInv'
<1> DEFINE f == NewId(forcing)
           row == session[h].row
<1>1. /\ session' = [session EXCEPT ![h] = NoSession] /\ Uploading(h)
      /\ UNCHANGED <<disk, past>>
  BY DEF ForcingUploaded, Writes, Ends, Uploading
<1>2. f \in 1..MaxId /\ f \notin DOMAIN forcing
  BY NewIdIsNew, BoundsAssumption DEF ForcingUploaded, FilesInv
<1>3. /\ DOMAIN forcing' = DOMAIN forcing \cup {f} /\ forcing'[f] = row
      /\ \A g \in DOMAIN forcing : forcing'[g] = forcing[g]
  BY <1>2 DEF ForcingUploaded, Insert, With
<1> HIDE DEF f
<1>4. DOMAIN forcing' \subseteq 1..MaxId
  BY <1>2, <1>3 DEF FilesInv
<1> SUFFICES ASSUME NamesApart, Stored, RowsStand
             PROVE  NamesApart' /\ Stored' /\ RowsStand'
  BY <1>1, <1>4 DEF FilesInv
<1>5. \A other : OnDisk(other) => OnDisk(other)'
  BY <1>1 DEF OnDisk
<1>6. NamesApart'
  <2>1. ASSUME NEW g \in DOMAIN forcing', NEW k \in DOMAIN forcing', g # k
        PROVE  Apart(forcing'[g], forcing'[k])
    BY <1>1, <1>3, <2>1 DEF NamesApart, Apart
  <2>2. ASSUME NEW g \in Handlers, NEW k \in Handlers, Uploading(g)', Uploading(k)', g # k
        PROVE  Apart(session'[g].row, session'[k].row)
    BY <1>1, <2>2, EndedSession DEF NamesApart
  <2>3. ASSUME NEW g \in Handlers, NEW k \in DOMAIN forcing', Uploading(g)'
        PROVE  Apart(session'[g].row, forcing'[k])
    <3>1. g # h /\ Uploading(g) /\ session'[g] = session[g]
      BY <1>1, <2>3, EndedSession
    <3>2. Apart(session[g].row, row) /\ \A l \in DOMAIN forcing : Apart(session[g].row, forcing[l])
      BY <1>1, <3>1 DEF NamesApart
    <3> QED BY <1>3, <2>3, <3>1, <3>2
  <2> QED BY <2>1, <2>2, <2>3 DEF NamesApart, Apart
<1>7. \A g \in DOMAIN forcing : GoingAway(g) => GoingAway(g)'
  BY <1>1, EndedSession DEF GoingAway, Uploading, Deleting, Unlinked
<1>8. Stored'
  <2>1. ASSUME NEW g \in Handlers, Uploading(g)'
        PROVE  OnDisk(session[g].row)'
    BY <1>1, <1>5, <2>1, EndedSession DEF Stored
  <2>2. ASSUME NEW g \in DOMAIN forcing'
        PROVE  GoingAway(g)' \/ OnDisk(forcing[g])'
    BY <1>1, <1>3, <1>5, <1>7, <2>2 DEF Stored
  <2> QED BY <2>1, <2>2 DEF Stored
<1>9. RowsStand'
  <2>1. \A g \in Handlers : Deleting(g)' => Deleting(g) /\ session'[g] = session[g]
    BY <1>1, EndedSession
  <2> QED BY <1>3, <2>1 DEF RowsStand
<1> QED BY <1>6, <1>8, <1>9

LEMMA DeletedKeepsFiles ==
    ASSUME TypeInv, FilesInv, NEW h \in Handlers, ForcingDeleted(h)
    PROVE  FilesInv'
<1>1. /\ session' = [session EXCEPT ![h] = NoSession] /\ Deleting(h) /\ ~Uploading(h)
      /\ UNCHANGED <<disk, past>>
  BY DEF ForcingDeleted, Writes, Ends, Uploading, Deleting, Unlinked
<1>2. /\ DOMAIN forcing' = DOMAIN forcing \ {session[h].id}
      /\ \A f \in DOMAIN forcing' : forcing'[f] = forcing[f]
  BY DEF ForcingDeleted, Without, Restrict
<1> SUFFICES ASSUME NamesApart, Stored, RowsStand
             PROVE  NamesApart' /\ Stored' /\ RowsStand'
  BY <1>1, <1>2 DEF FilesInv
<1>3. NamesApart'
  BY <1>1, <1>2, NamesStayApart
<1>4. \A f \in DOMAIN forcing' : GoingAway(f) => GoingAway(f)'
  BY <1>1, <1>2, EndedSession DEF GoingAway
<1>5. \A other : OnDisk(other) => OnDisk(other)'
  BY <1>1 DEF OnDisk
<1>6. Stored'
  <2>1. ASSUME NEW g \in Handlers, Uploading(g)'
        PROVE  OnDisk(session[g].row)'
    BY <1>1, <1>5, <2>1, EndedSession DEF Stored
  <2>2. ASSUME NEW f \in DOMAIN forcing'
        PROVE  GoingAway(f)' \/ OnDisk(forcing[f])'
    BY <1>2, <1>4, <1>5, <2>2 DEF Stored
  <2> QED BY <2>1, <2>2 DEF Stored
<1>7. RowsStand'
  <2>1. \A g \in Handlers :
            Deleting(g)' => Deleting(g) /\ g # h /\ session'[g] = session[g]
    BY <1>1, EndedSession
  <2>2. \A g \in Handlers : Deleting(g)' => session[g].id # session[h].id
    BY <1>1, <2>1 DEF RowsStand
  <2> QED BY <1>2, <2>1, <2>2 DEF RowsStand
<1> QED BY <1>3, <1>6, <1>7

LEMMA UndoneKeepsFiles ==
    ASSUME TypeInv, FilesInv, NEW h \in Handlers, ForcingUndone(h)
    PROVE  FilesInv'
<1>1. /\ session' = [session EXCEPT ![h] = NoSession]
      /\ UNCHANGED <<forcing, disk>> /\ past' = [past EXCEPT !.undone = @ \/ Unlinked(h)]
  BY DEF ForcingUndone, Rollback
<1>2. past' \in [shared : BOOLEAN, undone : BOOLEAN, twice : BOOLEAN]
  BY <1>1 DEF FilesInv, Unlinked, Deleting
<1> SUFFICES ASSUME ~past'.shared, ~past'.undone, ~past'.twice
             PROVE  NamesApart' /\ Stored' /\ RowsStand'
  BY <1>1, <1>2 DEF FilesInv
<1>3. ~Unlinked(h) /\ NamesApart /\ Stored /\ RowsStand
  BY <1>1 DEF FilesInv
<1>4. NamesApart'
  BY <1>1, <1>3, NamesStayApart
<1>5. \A f \in DOMAIN forcing : GoingAway(f) => GoingAway(f)'
  BY <1>1, <1>3, EndedSession DEF GoingAway
<1>6. \A other : OnDisk(other) => OnDisk(other)'
  BY <1>1 DEF OnDisk
<1>7. Stored'
  <2>1. ASSUME NEW g \in Handlers, Uploading(g)'
        PROVE  OnDisk(session[g].row)'
    BY <1>1, <1>3, <1>6, <2>1, EndedSession DEF Stored
  <2>2. ASSUME NEW f \in DOMAIN forcing'
        PROVE  GoingAway(f)' \/ OnDisk(forcing[f])'
    BY <1>1, <1>3, <1>5, <1>6, <2>2 DEF Stored
  <2> QED BY <2>1, <2>2 DEF Stored
<1>8. RowsStand'
  <2>1. \A g \in Handlers : Deleting(g)' => Deleting(g) /\ session'[g] = session[g]
    BY <1>1, EndedSession
  <2> QED BY <1>1, <1>3, <2>1 DEF RowsStand
<1> QED BY <1>4, <1>7, <1>8

LEMMA StepKeepsFiles ==
    ASSUME TypeInv, FilesInv, [ForcingNext]_allVars
    PROVE  FilesInv'
<1>1. CASE OtherStep
  BY <1>1, OthersKeepFiles
<1>2. ASSUME NEW h \in Handlers, ForcingStep(h)
      PROVE  FilesInv'
  BY <1>2, UploadKeepsFiles, DeleteKeepsFiles, UnlinkKeepsFiles, UploadedKeepsFiles, DeletedKeepsFiles,
     UndoneKeepsFiles DEF ForcingStep
<1>3. CASE UNCHANGED allVars
  BY <1>3 DEF allVars, vars, forcingVars, FilesInv, NamesApart, Stored, RowsStand, Apart, OnDisk,
              GoingAway, Uploading, Deleting, Unlinked
<1> QED BY <1>1, <1>2, <1>3 DEF ForcingNext

-----------------------------------------------------------------------------
(* The theorems.                                                           *)

LEMMA DataInitially == ForcingInit => ForcingInv
<1> SUFFICES ASSUME ForcingInit
             PROVE  ForcingInv
  OBVIOUS
<1>1. /\ DOMAIN project = {} /\ DOMAIN member = {} /\ DOMAIN scenario = {} /\ DOMAIN job = {}
      /\ DOMAIN forcing = {} /\ DOMAIN disk = {}
  BY DEF ForcingInit, Init
<1>2. /\ account = [u \in Users |-> [is_admin |-> u \in Administrators, is_active |-> TRUE]]
      /\ session = [h \in Handlers |-> NoSession]
      /\ requests = 0 /\ clashed = FALSE /\ crossed = FALSE
      /\ past = [shared |-> FALSE, undone |-> FALSE, twice |-> FALSE]
  BY DEF ForcingInit, Init
<1>3. TypeOK
  <2>1. account \in [Users -> [is_admin : BOOLEAN, is_active : BOOLEAN]]
    BY <1>2
  <2>2. Ids
    BY <1>1 DEF Ids
  <2>3. requests \in 0..MaxRequests /\ clashed \in BOOLEAN /\ crossed \in BOOLEAN
    <3>1. requests \in 0..MaxRequests
      BY BoundsAssumption DEF ForcingInit, Init
    <3>2. clashed \in BOOLEAN /\ crossed \in BOOLEAN
      BY DEF ForcingInit, Init
    <3> QED BY <3>1, <3>2
  <2> QED BY <1>1, <2>1, <2>2, <2>3, Subsets DEF TypeOK, Ids
<1>4. TypeInv
  BY <1>1, <1>2, <1>3, NoSessionIsTyped DEF TypeInv
<1>5. OwnersInv /\ RefsInv
  BY <1>1 DEF OwnersInv, RefsInv
<1>6. RightsInv
  <2>1. \E u \in Users : Administers(u)
    BY <1>2, UsersAssumption DEF Administers, LoggedIn
  <2>2. \A h \in Handlers : Entitled(session[h])
    BY <1>2 DEF Entitled, NoSession
  <2> QED BY <2>1, <2>2 DEF RightsInv
<1>7. SessionsInv
  BY <1>2 DEF SessionsInv, Current, Removes, NoSession
<1>8. FilesInv
  BY <1>1, <1>2 DEF FilesInv, NamesApart, Stored, RowsStand, Uploading, Deleting, NoSession
<1> QED BY <1>4, <1>5, <1>6, <1>7, <1>8 DEF ForcingInv, DataInv, CalmInv

LEMMA DataInvariant == ForcingSpec => []ForcingInv
<1>1. ForcingInv /\ [ForcingNext]_allVars => ForcingInv'
  BY StepKeepsTypes, StepKeepsCalm, StepKeepsRights, StepKeepsFiles DEF ForcingInv, DataInv
<1> QED BY DataInitially, <1>1, PTL DEF ForcingSpec

\* The rows of the tables hold values of their columns, a user has one role in a project,
\* and an id is never that of another row, whatever the requests that run side by side.
THEOREM DataTypeCorrect == ForcingSpec => []TypeOK
<1>1. ForcingInv => TypeOK
  BY DEF ForcingInv, DataInv, TypeInv
<1> QED BY DataInvariant, <1>1, PTL

\* The user who created a project remains its owner, and its only one (create_project,
\* update_member, remove_member, delete_project), unless the deletion of a project or of a
\* member overlapped another request.
THEOREM CreatorsOwnTheirProjects == ForcingSpec => []CreatorOwnsProject
<1>1. ASSUME ForcingInv, ~clashed, NEW p \in DOMAIN project, NEW u \in Users
      PROVE  RoleOf(u, p) = "owner" <=> project[p] = u
  <2>1. TypeOK /\ OwnersInv
    BY <1>1 DEF ForcingInv, DataInv, TypeInv, CalmInv
  <2>2. ASSUME project[p] = u
        PROVE  RoleOf(u, p) = "owner"
    <3>1. PICK m \in DOMAIN member : member[m] = Member(p, u, "owner")
      BY <2>1, <2>2 DEF OwnersInv
    <3>2. member[m].project = p /\ member[m].user = u /\ member[m].role = "owner"
      BY <3>1 DEF Member
    <3> QED BY <2>1, <3>2, RoleOfMember
  <2>3. ASSUME RoleOf(u, p) = "owner"
        PROVE  project[p] = u
    <3>1. CASE IsMember(p, u)
      <4>1. PICK m \in DOMAIN member : member[m].project = p /\ member[m].user = u
        BY <3>1 DEF IsMember, MembersOf
      <4>2. member[m].role = "owner"
        BY <2>1, <2>3, <4>1, RoleOfMember
      <4> QED BY <2>1, <4>1, <4>2 DEF OwnersInv
    <3>2. CASE ~IsMember(p, u)
      BY <2>3, <3>2 DEF RoleOf
    <3> QED BY <3>1, <3>2
  <2> QED BY <2>2, <2>3
<1>2. ForcingInv => CreatorOwnsProject
  BY <1>1 DEF CreatorOwnsProject
<1> QED BY DataInvariant, <1>2, PTL

\* No member, scenario or job outlives its project, although no foreign key is enforced
\* (db.delete of a project), unless the deletion of a project or of a member overlapped
\* another request.
THEOREM RowsGoWithTheirProject == ForcingSpec => []NothingOutlivesItsProject
<1>1. ForcingInv => NothingOutlivesItsProject
  BY DEF ForcingInv, DataInv, CalmInv, RefsInv, NothingOutlivesItsProject
<1> QED BY DataInvariant, <1>1, PTL

\* An active administrator remains, however many patches of flags overlap and whatever else
\* runs beside them (admin_patch_user checks the one who asks before it writes): each patch
\* leaves behind the administrator who asked for it, unless he was put out himself while it
\* was under way.
THEOREM AnAdministratorRemains == ForcingSpec => []AdministratorRemains
<1>1. ForcingInv => AdministratorRemains
  BY DEF ForcingInv, DataInv, RightsInv, AdministratorRemains
<1> QED BY DataInvariant, <1>1, PTL

\* A forcing record describes the file on the disk (upload_forcing,
\* delete_forcing, whose read of the row and unlink of the file are two steps), unless a
\* second file of the name was uploaded to the project, a deletion was undone after the
\* unlink, or two deletions of one record overlapped.
THEOREM RecordsDescribeFiles == ForcingSpec => []ForcingDescribesDisk
<1>1. ASSUME ForcingInv, ~past.shared, ~past.undone, ~past.twice, NEW f \in DOMAIN forcing
      PROVE  \/ \E h \in Handlers : Unlinked(h) /\ session[h].id = f
             \/ LET stored == StoredName(forcing[f])
                IN  /\ stored \in DOMAIN disk
                    /\ disk[stored] = forcing[f].size
                    /\ forcing[f].validated = (disk[stored] \in Passing)
  BY <1>1 DEF ForcingInv, FilesInv, Stored, GoingAway, OnDisk
<1>2. ForcingInv => ForcingDescribesDisk
  BY <1>1 DEF ForcingDescribesDisk
<1> QED BY DataInvariant, <1>2, PTL
=============================================================================
