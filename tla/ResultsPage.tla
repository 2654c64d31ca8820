---------------------------- MODULE ResultsPage ----------------------------
(***************************************************************************)
(* The results page of a job, frontend/src/app/projects/[id]/results/      *)
(* [jobId]/page.tsx: it loads the job, polls it every three seconds until  *)
(* it has completed or failed, and then loads the results.  What happens   *)
(* to the job meanwhile is what JobLifecycle promises of the queue.        *)
(***************************************************************************)
EXTENDS Naturals

CONSTANTS
    Viewed,         \* the job
    Workers, None, MaxRetries,
    MaxCalls        \* bound: the requests that may be under way at once

ASSUME CallsAssumption == MaxCalls \in Nat \ {0}

VARIABLES
    life,           \* the job, as in JobLifecycle
    page,           \* mounted or not, and the component's state
    timer,          \* is pollRef's interval running?
    fetches,        \* the requests under way
    history         \* what the properties say of the past

vars == <<life, page, timer, fetches, history>>

Queue == INSTANCE JobLifecycle WITH Jobs <- {Viewed}

Slots     == 1..MaxCalls
Statuses  == {"queued", "running", "completed", "failed", "cancelled"}
Unsettled == {"queued", "running"}

status == life[Viewed].status

-----------------------------------------------------------------------------

NoFetch    == [kind |-> "none", state |-> "none", job |-> "none"]
Sent(kind) == [kind |-> kind, state |-> "sent", job |-> "none"]

\* job: the status in the component's state; results, error: are they set?
Closed == [open |-> FALSE, job |-> "none", results |-> FALSE, error |-> FALSE]

Init ==
    /\ Queue!Init
    /\ page = Closed /\ timer = FALSE
    /\ fetches = [s \in Slots |-> NoFetch]
    /\ history = [opened |-> FALSE, leftLoading |-> FALSE, straggler |-> FALSE]

\* setState does nothing once the component is unmounted.
Show(changed) == page' = IF page.open THEN changed ELSE page

\* (Mutant: the polling begins before the first answer.)
OpenPolling ==
    /\ ~history.opened /\ status # "absent"
    /\ page' = [page EXCEPT !.open = TRUE]
    /\ timer' = TRUE
    /\ history' = [history EXCEPT !.opened = TRUE]
    /\ fetches' = [fetches EXCEPT ![1] = Sent("load")]
    /\ UNCHANGED life

\* The editor goes to the page of the job that it has just submitted.
Open ==
    /\ ~history.opened /\ status # "absent"
    /\ page' = [page EXCEPT !.open = TRUE]
    /\ history' = [history EXCEPT !.opened = TRUE]
    /\ fetches' = [fetches EXCEPT ![1] = Sent("load")]
    /\ UNCHANGED <<life, timer>>

\* The interval does not wait for the poll before it.
Tick ==
    /\ timer
    /\ \E s \in Slots : /\ fetches[s] = NoFetch
                        /\ fetches' = [fetches EXCEPT ![s] = Sent("poll")]
    /\ UNCHANGED <<life, page, timer, history>>

\* GET /jobs/{id} and /jobs/{id}/results read the row; they may be answered in any order.
Serve(s) ==
    /\ fetches[s].state = "sent"
    /\ fetches' = [fetches EXCEPT ![s].state = "answered", ![s].job = status]
    /\ UNCHANGED <<life, page, timer, history>>

Answer(s, kind) == fetches[s].kind = kind /\ fetches[s].state = "answered"

\* loadResults follows in the place of the answer that said completed.
Follow(s, job) ==
    fetches' = [fetches EXCEPT ![s] = IF job = "completed" THEN Sent("results") ELSE NoFetch]

\* The first answer: an interval is set for a job that has not ended, even if the page
\* has been left in the meantime.
Loaded(s) ==
    /\ Answer(s, "load")
    /\ Show([page EXCEPT !.job = fetches[s].job])
    /\ timer' = (fetches[s].job \in Unsettled)
    /\ Follow(s, fetches[s].job)
    /\ UNCHANGED <<life, history>>

\* (Mutant: the end is noticed, but the results are not asked for.)
PolledWithoutResults(s) ==
    /\ Answer(s, "poll")
    /\ Show([page EXCEPT !.job = fetches[s].job])
    /\ timer' = (timer /\ fetches[s].job \notin {"completed", "failed"})
    /\ history' = [history EXCEPT !.straggler =
                      @ \/ (page.open /\ ~timer /\ fetches[s].job \in Unsettled)]
    /\ fetches' = [fetches EXCEPT ![s] = NoFetch]
    /\ UNCHANGED life

Polled(s) ==
    /\ Answer(s, "poll")
    /\ Show([page EXCEPT !.job = fetches[s].job])
    /\ timer' = (timer /\ fetches[s].job \notin {"completed", "failed"})
    /\ history' = [history EXCEPT !.straggler =
                      @ \/ (page.open /\ ~timer /\ fetches[s].job \in Unsettled)]
    /\ Follow(s, fetches[s].job)
    /\ UNCHANGED life

\* Only a completed job has results: 409 otherwise.
ResultsLoaded(s) ==
    /\ Answer(s, "results")
    /\ Show(IF fetches[s].job = "completed" THEN [page EXCEPT !.results = TRUE]
                                            ELSE [page EXCEPT !.error = TRUE])
    /\ fetches' = [fetches EXCEPT ![s] = NoFetch]
    /\ UNCHANGED <<life, timer, history>>

\* A request fails.  The error of a poll is nobody's: the next one goes out all the same.
Fails(s) ==
    /\ fetches[s] # NoFetch
    /\ Show(IF fetches[s].kind = "poll" THEN page ELSE [page EXCEPT !.error = TRUE])
    /\ fetches' = [fetches EXCEPT ![s] = NoFetch]
    /\ UNCHANGED <<life, timer, history>>

\* (Mutant: the effect has no cleanup.)
LeaveTimer ==
    /\ page.open
    /\ page' = Closed
    /\ history' = [history EXCEPT !.leftLoading = \E s \in Slots : fetches[s].kind = "load"]
    /\ UNCHANGED <<life, timer, fetches>>

\* The user leaves the page: the effect's cleanup clears the interval set so far.
Leave ==
    /\ page.open
    /\ page' = Closed /\ timer' = FALSE
    /\ history' = [history EXCEPT !.leftLoading = \E s \in Slots : fetches[s].kind = "load"]
    /\ UNCHANGED <<life, fetches>>

\* The queue moves the job, as its promise lets it.
JobMoves ==
    /\ life' \in [{Viewed} -> [status : Statuses, owner : Workers \cup {None},
                               tries : 0..MaxRetries]]
    /\ Queue!Move(Viewed)
    /\ UNCHANGED <<page, timer, fetches, history>>

-----------------------------------------------------------------------------

Arrives(s) == Loaded(s) \/ Polled(s) \/ ResultsLoaded(s)

Next ==
    \/ Open \/ Tick \/ Leave \/ JobMoves
    \/ \E s \in Slots : Serve(s) \/ Arrives(s) \/ Fails(s)

\* The browser's timer fires, and requests that are sent again and again are answered
\* in the end.  Nothing is assumed of the job.
Fairness ==
    /\ WF_vars(Tick)
    /\ \A s \in Slots : SF_vars(Serve(s)) /\ SF_vars(Arrives(s))

Spec == Init /\ [][Next]_vars /\ Fairness

-----------------------------------------------------------------------------

\* The state keeps its types; the polling begins after the first answer, and only a job
\* that has completed has results on the page.
TypeOK ==
    /\ page \in [open : BOOLEAN, job : {"none"} \cup Statuses, results : BOOLEAN,
                 error : BOOLEAN]
    /\ timer \in BOOLEAN
    /\ fetches \in [Slots -> [kind : {"none", "load", "poll", "results"},
                              state : {"none", "sent", "answered"},
                              job : {"none"} \cup Statuses]]
    /\ timer => \A s \in Slots : fetches[s].kind # "load"
    /\ page.results => status = "completed"

\* The polling matches what is on the screen.  A page that shows the spinner goes on
\* polling, unless the answer to an overlapping poll arrived after the polling had
\* stopped; a page that shows results does not poll; and no interval outlives its page,
\* unless the page was left before its first answer.
PollingMatchesPage ==
    /\ page.open /\ page.job \in Unsettled => timer \/ history.straggler
    /\ page.open /\ page.job = "completed" => ~timer
    /\ timer => page.open \/ history.leftLoading

\* Whoever stays on the page sees the results of a job that completes, although polls
\* fail and overlap: unless the load of the job or of the results itself failed, an
\* answer came after the polling had stopped, or the page had seen the job failed or
\* cancelled and somebody retried it.
CompletedIsShown ==
    page.open /\ status = "completed" ~>
        \/ page.job = "completed" /\ page.results
        \/ ~page.open \/ page.error \/ history.straggler
        \/ page.job \in {"failed", "cancelled"} /\ ~timer
=============================================================================
