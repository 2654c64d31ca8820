----------------------------- MODULE RemoteRun -----------------------------
(***************************************************************************)
(* run_palm in remote mode, backend/src/execution/remote_client.py and     *)
(* runner.py: each call posts its inputs to the Linux worker, polls the    *)
(* run, and downloads the output; composed with the worker it talks to.    *)
(***************************************************************************)
EXTENDS LinuxWorker

VARIABLE call       \* the state of each call of run_palm

vars == <<workerVars, call>>

-----------------------------------------------------------------------------

\* result: what run_palm did; why: the error path behind a FAILED RunResult;
\* or an exception that it lets through; report: the payload of the last poll.
NewCall == [pc |-> "idle", overdue |-> FALSE, report |-> Blank,
            result |-> "none", why |-> "none"]

Init == WorkerInit /\ call = [c \in Calls |-> NewCall]

Terminal == {"completed", "failed"}

\* The worker's part of a step, and a step of the client on its own.
Send(c, kind) ==
    /\ wire' = [wire EXCEPT ![c] = Request(kind)]
    /\ UNCHANGED <<registry, task, archive, up, restarts>>

Consume(c) ==
    /\ wire' = [wire EXCEPT ![c] = NoRequest]
    /\ UNCHANGED <<registry, task, archive, up, restarts>>

\* RemoteRunnerError, which _run_remote turns into a FAILED RunResult.
Failed(k, why) == [k EXCEPT !.pc = "ended", !.result = "failed", !.why = why]

\* Any other exception goes up to the worker's poll loop.
Raised(k, why) == [k EXCEPT !.pc = "ended", !.result = "raised", !.why = why]

Reply(c, pc, code) ==
    /\ call[c].pc = pc
    /\ wire[c].state = "answered"
    /\ (wire[c].code = "ok") = (code = "ok")

-----------------------------------------------------------------------------
(* RemoteRunnerClient.run.                                                 *)

\* _pack_inputs finds every required file and _submit posts the bundle.
Submit(c) ==
    /\ call[c].pc = "idle"
    /\ call' = [call EXCEPT ![c].pc = "posting"]
    /\ Send(c, "post")

InputsMissing(c) ==
    /\ call[c].pc = "idle"
    /\ call' = [call EXCEPT ![c] = Failed(@, "inputs")]
    /\ UNCHANGED workerVars

Submitted(c) ==
    /\ Reply(c, "posting", "ok")
    /\ call' = [call EXCEPT ![c].pc = "polling"]
    /\ Consume(c)

Poll(c) ==
    /\ call[c].pc = "polling" /\ wire[c] = NoRequest
    /\ UNCHANGED call
    /\ Send(c, "status")

\* timeout_s have passed since the polling began.
DeadlinePasses(c) ==
    /\ call[c].pc = "polling" /\ ~call[c].overdue
    /\ call' = [call EXCEPT ![c].overdue = TRUE]
    /\ UNCHANGED workerVars

\* (Mutant: the deadline is checked before the status.)
DeadlineFirst(k, report) ==
    CASE k.overdue                     -> Failed(k, "deadline")
      [] report.status = "completed"   -> [k EXCEPT !.pc = "downloading"]
      [] report.status = "failed"      -> Failed(k, "run")
      [] OTHER                         -> k

\* (Mutant: the deadline is never checked.)
DeadlineIgnored(k, report) ==
    CASE report.status = "completed"   -> [k EXCEPT !.pc = "downloading"]
      [] report.status = "failed"      -> Failed(k, "run")
      [] OTHER                         -> k

\* The status is looked at before the deadline: a run that ended late is kept.
Decide(k, report) ==
    CASE report.status = "completed"   -> [k EXCEPT !.pc = "downloading"]
      [] report.status = "failed"      -> Failed(k, "run")
      [] report.status \notin Terminal /\ k.overdue -> Failed(k, "deadline")
      [] OTHER                         -> k

Polled(c) ==
    /\ Reply(c, "polling", "ok")
    /\ call' = [call EXCEPT ![c] =
                   Decide([@ EXCEPT !.report = wire[c].report], wire[c].report)]
    /\ Consume(c)

Download(c) ==
    /\ call[c].pc = "downloading" /\ wire[c] = NoRequest
    /\ UNCHANGED call
    /\ Send(c, "output")

\* The archive is buffered, unpacked and classified: COMPLETED, with or without av_3d.
\* A truncated archive cannot be unpacked: tarfile raises, and nothing catches it.
Downloaded(c) ==
    /\ Reply(c, "downloading", "ok")
    /\ call' = [call EXCEPT ![c] =
                   IF wire[c].body = "partial" THEN Raised(@, "unpacking")
                   ELSE [@ EXCEPT !.pc = "ended", !.result = "completed"]]
    /\ Consume(c)

\* An answer with HTTP status 400 or more.
Refused(c) ==
    /\ \E pc \in {"posting", "polling", "downloading"} :
          /\ Reply(c, pc, "error")
          /\ call' = [call EXCEPT ![c] = Failed(@, pc)]
    /\ Consume(c)

\* (Mutant: the request is not given up with the call.)
TransportErrorKeepsRequest(c) ==
    /\ call[c].pc \in {"posting", "polling", "downloading"}
    /\ wire[c].kind # "none"
    /\ call' = [call EXCEPT ![c] = Raised(@, "transport")]
    /\ UNCHANGED workerVars

\* httpx raises: a connection refused or broken, an answer that takes longer than
\* http_timeout_s.  Nothing catches it.  A POST may still be under way.
TransportError(c) ==
    /\ call[c].pc \in {"posting", "polling", "downloading"}
    /\ wire[c].kind # "none"
    /\ call' = [call EXCEPT ![c] = Raised(@, "transport")]
    /\ wire' = [wire EXCEPT ![c] =
                   IF @.kind = "post" /\ @.state = "sent" THEN @ ELSE NoRequest]
    /\ UNCHANGED <<registry, task, archive, up, restarts>>

-----------------------------------------------------------------------------

CallStep(c) ==
    \/ Submit(c) \/ InputsMissing(c) \/ Submitted(c)
    \/ Poll(c) \/ DeadlinePasses(c) \/ Polled(c)
    \/ Download(c) \/ Downloaded(c) \/ Refused(c) \/ TransportError(c)

Next ==
    \/ \E c \in Calls : CallStep(c)
    \/ WorkerNext /\ UNCHANGED call

Spec == Init /\ [][Next]_vars

\* The calling thread goes on; time passes, so that a request which nobody answers
\* times out and the deadline comes.  Nothing is assumed of the Linux worker or PALM.
Fairness ==
    \A c \in Calls :
        /\ WF_vars(Submitted(c)) /\ WF_vars(Poll(c)) /\ WF_vars(Polled(c))
        /\ WF_vars(Download(c)) /\ WF_vars(Downloaded(c)) /\ WF_vars(Refused(c))
        /\ WF_vars(DeadlinePasses(c)) /\ WF_vars(TransportError(c))

FairSpec == Spec /\ Fairness

-----------------------------------------------------------------------------

\* The worker's and the client's variables hold values of their types, and a call
\* has a request under way only while it waits for the answer to it.
TypeOK ==
    /\ WorkerTypeOK
    /\ \A c \in Calls :
          /\ call[c].pc \in {"idle", "posting", "polling", "downloading", "ended"}
          /\ call[c].result \in {"none", "completed", "failed", "raised"}
          /\ call[c].result = "none" <=> call[c].pc # "ended"
          /\ call[c].overdue \in BOOLEAN
          /\ wire[c].kind = "status" => call[c].pc = "polling"
          /\ wire[c].kind = "output" => call[c].pc = "downloading"

\* A call that returns COMPLETED holds the finished output of its own run, and no call
\* is handed an archive that was still being written, or that packing left half-written.
CompletedHoldsOutput ==
    \A c \in Calls :
        /\ call[c].result = "completed" => archive[c] = "output"
        /\ call[c].why # "unpacking"

\* A torn read of the record never costs a finished run its wall time: when the status
\* that get_run read says completed, the wall time that it read later is the run's own,
\* so the client does not fall back on its own clock.  The report as a whole may be
\* torn: _run_job sets the message after the status, and run_palm passes on an empty one.
CompletedReportIsTimed ==
    \A c \in Calls :
        call[c].report.status = "completed" => call[c].report.wall_time_s = "set"

\* A run that the worker reported as completed can be downloaded (no 404, 409 or 410),
\* and a registered run is known to the next poll, unless the worker restarted.
ReportedRunIsServed ==
    \A c \in Calls :
        call[c].why \in {"polling", "downloading"} => restarts > 0

\* A call gives up for its deadline only on a run that its last poll saw unfinished;
\* it reports a failed run only if that run has no finished output.
FailureIsJustified ==
    \A c \in Calls :
        /\ call[c].why = "deadline" => call[c].report.status \notin Terminal
        /\ call[c].why = "run" => archive[c] # "output"

\* The Linux worker runs PALM for nobody only where the client could not tell it: after
\* the client's deadline or a broken connection, as there is no request to cancel a run.
\* A call that ended in any other way has no run waiting, executing or being packed.
WorkIsWanted ==
    \A c \in Calls :
        task[c].pc \in {"waiting", "executing", "packing"} =>
            \/ call[c].pc \in {"posting", "polling"}
            \/ call[c].why \in {"deadline", "transport"}

\* Every call ends: neither a PALM process that hangs, nor a worker that is down, nor
\* a pool with no thread to answer holds the calling worker thread for ever.
EveryCallEnds ==
    \A c \in Calls : call[c].pc = "posting" ~> call[c].pc = "ended"

=============================================================================
