---------------------------- MODULE LinuxWorker ----------------------------
(***************************************************************************)
(* The Linux PALM worker, linux_worker/main.py and runner.py: a FastAPI    *)
(* process that keeps its runs in a dictionary and executes each of them   *)
(* in a background task.  Sync endpoints, the token check and background   *)
(* tasks share one pool of threads.  A run is named by the client call     *)
(* whose POST created it (every POST gets a fresh uuid).                   *)
(***************************************************************************)
EXTENDS Naturals, Sequences, FiniteSets

CONSTANTS
    Calls,          \* calls of run_palm in remote mode, one run each
    Mode,           \* PALM_WORKER_MODE
    PoolSize,       \* threads of the pool
    MaxRestarts     \* bound: crashes of the worker process

ASSUME CallsAssumption == IsFiniteSet(Calls)
ASSUME PoolAssumption == PoolSize \in Nat \ {0} /\ MaxRestarts \in Nat

VARIABLES
    wire,       \* the HTTP request that each call has under way
    registry,   \* _JOBS: the JobRecord of every run
    task,       \* the background task of every run
    archive,    \* outputs.tar.gz in the job directory of every run
    up,         \* the worker process runs
    restarts    \* counter for the bound

workerVars == <<wire, registry, task, archive, up, restarts>>

-----------------------------------------------------------------------------
(* Records.                                                                *)

JobRecord == [status : {"unknown", "queued", "running", "completed", "failed"},
              message : {"empty", "set"},
              wall_time_s : {"null", "set"},
              output_archive : {"null", "set"}]

Unknown == [status |-> "unknown", message |-> "empty",
            wall_time_s |-> "null", output_archive |-> "null"]

NewRecord == [Unknown EXCEPT !.status = "queued"]

\* What execute_palm can do.  The stub copies the static driver, which every bundle
\* holds; mpirun may exit with an error, or be missing.
Outcomes ==
    CASE Mode = "stub"   -> {"output"}
      [] Mode = "mpirun" -> {"output", "error"}
      [] OTHER           -> {"error"}

\* The fields that _run_job sets at the end, in order, and their values.  The lock is
\* the record's own and get_run does not take it: a reader sees every prefix.
\* (Mutant: the status is published first.)
StatusFirst(o) ==
    IF o = "error" THEN <<"status", "message", "wall_time_s">>
                   ELSE <<"status", "output_archive", "wall_time_s", "message">>

FinalFields(o) ==
    IF o = "error" THEN <<"status", "message", "wall_time_s">>
                   ELSE <<"output_archive", "wall_time_s", "status", "message">>

FinalRecord(o) ==
    LET final == [Unknown EXCEPT !.message = "set", !.wall_time_s = "set"]
    IN  IF o = "error" THEN [final EXCEPT !.status = "failed"]
        ELSE [final EXCEPT !.status = "completed", !.output_archive = "set"]

\* The fields that get_run reads, in order.
\* (Mutant: the status is read last.)
StatusLast == <<"message", "wall_time_s", "status">>

ReportFields == <<"status", "message", "wall_time_s">>

Blank == [status |-> "none", message |-> "empty", wall_time_s |-> "null"]

NoTask == [pc |-> "none", outcome |-> "none", left |-> <<>>]

\* kind: the endpoint; state: how far it is; left: the fields still to be read.
NoRequest == [kind |-> "none", state |-> "none", left |-> <<>>,
              code |-> "none", report |-> Blank, body |-> "none"]

Request(kind) == [NoRequest EXCEPT !.kind = kind, !.state = "sent"]

Answered(r, code) == [r EXCEPT !.state = "answered", !.code = code]

Working(c) == task[c].pc \in {"executing", "packing", "recording"}

ThreadIsFree ==
    Cardinality({c \in Calls : Working(c)})
        + Cardinality({c \in Calls : wire[c].state = "reading"}) < PoolSize

WorkerInit ==
    /\ wire = [c \in Calls |-> NoRequest]
    /\ registry = [c \in Calls |-> Unknown]
    /\ task = [c \in Calls |-> NoTask]
    /\ archive = [c \in Calls |-> "none"]
    /\ up = TRUE
    /\ restarts = 0

-----------------------------------------------------------------------------
(* The endpoints.  Every request first needs a thread for require_token.   *)

Arrives(c, kind) ==
    up /\ ThreadIsFree /\ wire[c].kind = kind /\ wire[c].state = "sent"

\* POST /runs registers the run and answers; the task is started after the answer.
SubmitRun(c) ==
    /\ Arrives(c, "post")
    /\ registry' = [registry EXCEPT ![c] = NewRecord]
    /\ task' = [task EXCEPT ![c].pc = "waiting"]
    /\ wire' = [wire EXCEPT ![c] = Answered(@, "ok")]
    /\ UNCHANGED <<archive, up, restarts>>

\* (Mutant: the run is registered before the bundle is found to be broken.)
RefuseRegisteredRun(c) ==
    /\ Arrives(c, "post")
    /\ registry' = [registry EXCEPT ![c] = NewRecord]
    /\ task' = [task EXCEPT ![c].pc = "waiting"]
    /\ wire' = [wire EXCEPT ![c] = Answered(@, "refused")]
    /\ UNCHANGED <<archive, up, restarts>>

\* A wrong token, no token configured, a bundle that cannot be unpacked.
RefuseRun(c) ==
    /\ Arrives(c, "post")
    /\ wire' = [wire EXCEPT ![c] = Answered(@, "refused")]
    /\ UNCHANGED <<registry, task, archive, up, restarts>>

\* GET /runs/{id}: _get looks the record up once ...
GetRun(c) ==
    /\ Arrives(c, "status")
    /\ wire' = [wire EXCEPT ![c] =
                   IF registry[c] = Unknown
                   THEN Answered(@, "unknown")
                   ELSE [@ EXCEPT !.state = "reading", !.left = ReportFields]]
    /\ UNCHANGED <<registry, task, archive, up, restarts>>

\* ... and the fields are read one after the other, without the record's lock.
ReadField(c) ==
    LET r == wire[c]
        f == Head(r.left)
        more == [r EXCEPT !.report[f] = registry[c][f], !.left = Tail(@)]
    IN  /\ up /\ r.state = "reading"
        /\ wire' = [wire EXCEPT ![c] =
                       IF Tail(r.left) = <<>> THEN Answered(more, "ok") ELSE more]
        /\ UNCHANGED <<registry, task, archive, up, restarts>>

\* GET /runs/{id}/output: 404, 409 and 410, or the file as it is on the disk.
GetOutput(c) ==
    LET job == registry[c]
    IN  /\ Arrives(c, "output")
        /\ wire' = [wire EXCEPT ![c] =
              IF job = Unknown THEN Answered(@, "unknown")
              ELSE IF job.status # "completed" THEN Answered(@, "conflict")
              ELSE IF job.output_archive = "null" \/ archive[c] = "none"
                   THEN Answered(@, "gone")
              ELSE [Answered(@, "ok") EXCEPT !.body = archive[c]]]
        /\ UNCHANGED <<registry, task, archive, up, restarts>>

-----------------------------------------------------------------------------
(* _run_job.                                                               *)

StartTask(c) ==
    /\ up /\ ThreadIsFree
    /\ task[c].pc = "waiting"
    /\ task' = [task EXCEPT ![c].pc = "executing"]
    /\ registry' = [registry EXCEPT ![c].status = "running"]
    /\ UNCHANGED <<wire, archive, up, restarts>>

Recording(o) == [pc |-> "recording", outcome |-> o, left |-> FinalFields(o)]

\* execute_palm returns or raises RunnerError; _pack_outputs opens the archive.
\* (Mutant: the record is completed while the archive is being written.)
PublishBeforePacking(c) ==
    /\ up /\ task[c].pc = "executing"
    /\ \E o \in Outcomes : task' = [task EXCEPT ![c] = Recording(o)]
    /\ archive' = [archive EXCEPT ![c] = "partial"]
    /\ UNCHANGED <<wire, registry, up, restarts>>

PalmEnds(c) ==
    /\ up /\ task[c].pc = "executing"
    /\ \E o \in Outcomes :
          IF o = "error"
          THEN /\ task' = [task EXCEPT ![c] = Recording("error")]
               /\ UNCHANGED archive
          ELSE /\ task' = [task EXCEPT ![c].pc = "packing", ![c].outcome = o]
               /\ archive' = [archive EXCEPT ![c] = "partial"]
    /\ UNCHANGED <<wire, registry, up, restarts>>

Pack(c) ==
    /\ up /\ task[c].pc = "packing"
    /\ archive' = [archive EXCEPT ![c] = task[c].outcome]
    /\ task' = [task EXCEPT ![c] = Recording(task[c].outcome)]
    /\ UNCHANGED <<wire, registry, up, restarts>>

\* The disk is full: the partial archive stays, the record says failed.
PackFails(c) ==
    /\ up /\ task[c].pc = "packing"
    /\ task' = [task EXCEPT ![c] = Recording("error")]
    /\ UNCHANGED <<wire, registry, archive, up, restarts>>

RecordField(c) ==
    LET t == task[c]
        f == Head(t.left)
    IN  /\ up /\ t.pc = "recording"
        /\ registry' = [registry EXCEPT ![c][f] = FinalRecord(t.outcome)[f]]
        /\ task' = [task EXCEPT ![c] =
                       IF Tail(t.left) = <<>> THEN NoTask
                                              ELSE [t EXCEPT !.left = Tail(t.left)]]
        /\ UNCHANGED <<wire, archive, up, restarts>>

-----------------------------------------------------------------------------
(* The process ends: the registry and the tasks are gone, the job          *)
(* directories stay, connections break.                                    *)

Crash ==
    /\ up /\ restarts < MaxRestarts
    /\ up' = FALSE
    /\ restarts' = restarts + 1
    /\ registry' = [c \in Calls |-> Unknown]
    /\ task' = [c \in Calls |-> NoTask]
    /\ wire' = [c \in Calls |-> IF wire[c].state \in {"sent", "reading"}
                                THEN [wire[c] EXCEPT !.state = "broken"]
                                ELSE wire[c]]
    /\ UNCHANGED archive

Boot ==
    /\ ~up
    /\ up' = TRUE
    /\ UNCHANGED <<wire, registry, task, archive, restarts>>

-----------------------------------------------------------------------------

WorkerNext ==
    \/ \E c \in Calls :
          \/ SubmitRun(c) \/ RefuseRun(c)
          \/ GetRun(c) \/ ReadField(c) \/ GetOutput(c)
          \/ StartTask(c) \/ PalmEnds(c) \/ Pack(c) \/ PackFails(c) \/ RecordField(c)
    \/ Crash \/ Boot

WorkerTypeOK ==
    /\ registry \in [Calls -> JobRecord]
    /\ \A c \in Calls :
          /\ task[c].pc \in {"none", "waiting", "executing", "packing", "recording"}
          /\ task[c].outcome \in {"none", "output", "error"}
          /\ task[c].left # <<>> <=> task[c].pc = "recording"
          /\ wire[c].kind \in {"none", "post", "status", "output"}
          /\ wire[c].state \in {"none", "sent", "reading", "answered", "broken"}
          /\ wire[c].code \in {"none", "ok", "refused", "unknown", "conflict", "gone"}
          /\ wire[c].left # <<>> => wire[c].kind = "status"
    /\ archive \in [Calls -> {"none", "partial", "output"}]
    /\ up \in BOOLEAN
    /\ restarts \in 0..MaxRestarts

=============================================================================
