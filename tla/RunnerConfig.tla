---------------------------- MODULE RunnerConfig ----------------------------
(***************************************************************************)
(* The runtime-editable PALM runner configuration: the palm_runner_config  *)
(* table, the admin route that saves it, and run_palm, which resolves the  *)
(* table and the environment into a backend (execution/settings.py and     *)
(* runner.py).  run_palm reads the table twice, an admin's save reads it   *)
(* before it writes: both go on with what they read.                       *)
(***************************************************************************)
EXTENDS Naturals, Sequences

CONSTANTS
    Admins,         \* concurrent PUT /api/admin/palm-runner requests
    Runs,           \* calls of run_palm
    Urls, Tokens,   \* worker URLs and bearer tokens
    None,           \* NULL, an unset variable, an empty string
    Envs,           \* the environments that the process may have been started in
    Payloads,       \* the bodies that pass the route's check of the mode
    StubFlags,      \* the stub argument of the calls: TRUE, FALSE or None
    MaxSaves        \* bound: saves that begin

ValidModes == {"stub", "remote", "local"}

\* A row, or the body of a request.
Row == [mode : ValidModes \cup {None}, url : Urls \cup {None}, token : Tokens \cup {None}]

ASSUME PayloadsAssumption == Payloads \subseteq Row
ASSUME EnvsAssumption ==
    \A e \in Envs : e.url \in Urls \cup {None} /\ e.token \in Tokens \cup {None}
ASSUME NoneAssumption == None \notin ValidModes
ASSUME BoundAssumption == MaxSaves \in Nat

VARIABLES
    env,        \* PALM_RUNNER_MODE, PALM_REMOTE_URL, PALM_REMOTE_TOKEN
    rows,       \* the table, by primary key
    save,       \* the session of each request
    run,        \* the progress of each call of run_palm
    saves,      \* counter for the bound
    inForce     \* history: the configurations that were in force

vars == <<env, rows, save, run, saves, inForce>>

-----------------------------------------------------------------------------
(* Resolution.                                                             *)

Empty == [mode |-> None, url |-> None, token |-> None]

Or(a, b) == IF a # None THEN a ELSE b

\* _merge, field by field; a mode that is not valid falls through to stub.
Merge(row, e) ==
    LET mode == Or(row.mode, Or(e.mode, "stub"))
    IN  [mode  |-> IF mode \in ValidModes THEN mode ELSE "stub",
         url   |-> Or(row.url, e.url),
         token |-> Or(row.token, e.token)]

\* _fetch_row: the row with the smallest id.
FirstRow(table) == IF table = <<>> THEN Empty ELSE table[1]

InForce == Merge(FirstRow(rows), env)

\* _resolve_mode with mode = None.
EffectiveMode(stub, config) ==
    IF stub = TRUE THEN "stub"
    ELSE IF stub = FALSE /\ config.mode = "stub" THEN "local"
    ELSE config.mode

NoSave == [pc |-> "idle", id |-> 0, old |-> Empty, new |-> Empty, alone |-> TRUE]
NoRun  == [pc |-> "idle", stub |-> None, read |-> Empty, mode |-> None,
           target |-> Empty]

Init ==
    /\ env \in Envs
    /\ rows = <<>>
    /\ save = [a \in Admins |-> NoSave]
    /\ run = [r \in Runs |-> NoRun]
    /\ saves = 0
    /\ inForce = {Merge(Empty, env)}

-----------------------------------------------------------------------------
(* save_config.                                                            *)

Saving(a) == save[a].pc = "fetched"

\* The request reads the row, or adds a new one to its session, and sets every field.
Fetch(a, p) ==
    LET others == {b \in Admins \ {a} : Saving(b)}
    IN  /\ ~Saving(a) /\ saves < MaxSaves
        /\ save' = [b \in Admins |->
              IF b = a
              THEN [pc |-> "fetched", id |-> IF rows = <<>> THEN 0 ELSE 1,
                    old |-> FirstRow(rows), new |-> p, alone |-> others = {}]
              ELSE IF b \in others THEN [save[b] EXCEPT !.alone = FALSE]
              ELSE save[b]]
        /\ saves' = saves + 1
        /\ UNCHANGED <<env, rows, run, inForce>>

\* The flush: an INSERT, or an UPDATE of the fields that are not as they were loaded.
\* (Mutant: a field that the body leaves out is not cleared.)
FlushWithoutClearing(row, old, new) ==
    [mode  |-> Or(new.mode, row.mode),
     url   |-> Or(new.url, row.url),
     token |-> Or(new.token, row.token)]

Flush(row, old, new) ==
    [mode  |-> IF new.mode = old.mode THEN row.mode ELSE new.mode,
     url   |-> IF new.url = old.url THEN row.url ELSE new.url,
     token |-> IF new.token = old.token THEN row.token ELSE new.token]

\* (Mutant: a body that clears every field deletes the row.)
WrittenOrDeleted(s) ==
    IF s.new = Empty THEN <<>>
    ELSE IF s.id = 0 THEN Append(rows, s.new)
    ELSE [rows EXCEPT ![s.id] = Flush(@, s.old, s.new)]

Written(s) ==
    IF s.id = 0 THEN Append(rows, s.new)
                ELSE [rows EXCEPT ![s.id] = Flush(@, s.old, s.new)]

Commit(a) ==
    /\ Saving(a)
    /\ rows' = Written(save[a])
    /\ inForce' = inForce \cup {Merge(FirstRow(rows'), env)}
    /\ save' = [save EXCEPT ![a] = NoSave]
    /\ UNCHANGED <<env, run, saves>>

Rollback(a) ==
    /\ Saving(a)
    /\ save' = [save EXCEPT ![a] = NoSave]
    /\ UNCHANGED <<env, rows, run, saves, inForce>>

-----------------------------------------------------------------------------
(* run_palm.                                                               *)

\* load_config_sync falls back to the environment when the table cannot be read.
Readable == {InForce, Merge(Empty, env)}

\* _resolve_mode; with stub=True nothing is read.
Resolve(r, stub, config) ==
    LET mode == EffectiveMode(stub, config)
    IN  /\ run[r].pc = "idle"
        /\ run' = [run EXCEPT ![r] =
              [@ EXCEPT !.pc = IF mode = "remote" THEN "resolved" ELSE "done",
                        !.stub = stub, !.read = config, !.mode = mode]]
        /\ UNCHANGED <<env, rows, save, saves, inForce>>

\* _run_remote reads the configuration once more.
\* (Mutant: it uses the url of the first reading and the token of the second.)
DispatchTwoReadings(r, config) ==
    LET target == [config EXCEPT !.url = run[r].read.url]
    IN  /\ run[r].pc = "resolved"
        /\ run' = [run EXCEPT ![r] =
              IF target.url = None \/ target.token = None
              THEN [@ EXCEPT !.pc = "raised"]
              ELSE [@ EXCEPT !.pc = "posted", !.target = target]]
        /\ UNCHANGED <<env, rows, save, saves, inForce>>

Dispatch(r, config) ==
    /\ run[r].pc = "resolved"
    /\ run' = [run EXCEPT ![r] =
          IF config.url = None \/ config.token = None
          THEN [@ EXCEPT !.pc = "raised"]
          ELSE [@ EXCEPT !.pc = "posted", !.target = config]]
    /\ UNCHANGED <<env, rows, save, saves, inForce>>

\* What a call did is of no further use: the next one begins.
Return(r) ==
    /\ run[r].pc \in {"done", "raised", "posted"}
    /\ run' = [run EXCEPT ![r] = NoRun]
    /\ UNCHANGED <<env, rows, save, saves, inForce>>

-----------------------------------------------------------------------------

Next ==
    \/ \E a \in Admins : (\E p \in Payloads : Fetch(a, p)) \/ Commit(a) \/ Rollback(a)
    \/ \E r \in Runs :
          \/ \E stub \in StubFlags, config \in Readable : Resolve(r, stub, config)
          \/ \E config \in Readable : Dispatch(r, config)
          \/ Return(r)

Spec == Init /\ [][Next]_vars

-----------------------------------------------------------------------------

\* The table holds rows, a session holds the id of the row that it will update, and
\* the table never loses a row.
TypeOK ==
    /\ rows \in Seq(Row)
    /\ save \in [Admins -> [pc : {"idle", "fetched"}, id : {0, 1}, old : Row, new : Row,
                            alone : BOOLEAN]]
    /\ \A a \in Admins : save[a].id <= Len(rows)
    /\ run \in [Runs -> [pc : {"idle", "resolved", "done", "raised", "posted"},
                         stub : StubFlags \cup {None}, mode : ValidModes \cup {None},
                         read : Row, target : Row]]
    /\ saves \in 0..MaxSaves

\* What an admin saves while nobody else does is what run_palm and the health panel
\* then resolve, cleared fields falling back to the environment, even when an earlier
\* race has left more than one row in the table.
QuietSaveTakesEffect ==
    [][\A a \in Admins :
          Saving(a) /\ save[a].alone /\ rows' # rows
          => Merge(FirstRow(rows'), env) = Merge(save[a].new, env)]_vars

\* The URL that a run is posted to and the token that it carries were in force together
\* at one moment, and neither is empty, although an admin may save between the two
\* readings and either of them may fail.  That somebody configured the pair is not
\* claimed: racing saves mix their columns, and each field falls back to the environment.
PostedTargetWasInForce ==
    \A r \in Runs :
        run[r].pc = "posted" =>
            /\ run[r].target.url # None /\ run[r].target.token # None
            /\ \E c \in inForce \cup {Merge(Empty, env)} :
                  c.url = run[r].target.url /\ c.token = run[r].target.token

=============================================================================
