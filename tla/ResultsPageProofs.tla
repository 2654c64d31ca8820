------------------------- MODULE ResultsPageProofs -------------------------
(***************************************************************************)
(* What the results page shows and when it polls, for any number of        *)
(* requests under way at once.                                             *)
(***************************************************************************)
EXTENDS ResultsPage, TLAPS

-----------------------------------------------------------------------------

Fetch == [kind : {"none", "load", "poll", "results"}, state : {"none", "sent", "answered"},
          job : {"none"} \cup Statuses]

Types ==
    /\ page \in [open : BOOLEAN, job : {"none"} \cup Statuses, results : BOOLEAN,
                 error : BOOLEAN]
    /\ timer \in BOOLEAN
    /\ fetches \in [Slots -> Fetch]
    /\ history \in [opened : BOOLEAN, leftLoading : BOOLEAN, straggler : BOOLEAN]
    /\ status \in {"absent"} \cup Statuses

\* There is one load, of a page that has been opened for a job that exists; nothing is
\* polled, shown or asked for before it is answered.
OneLoad ==
    /\ \A s \in Slots : fetches[s].kind = "load" => s = 1
    /\ ~history.opened => page = Closed /\ ~timer /\ \A s \in Slots : fetches[s] = NoFetch
    /\ history.opened => status # "absent"
    /\ timer => \A s \in Slots : fetches[s].kind # "load"

\* A job that has completed stays so: an answer that says it is never out of date.
CompletedStays ==
    /\ \A s \in Slots : fetches[s].job = "completed" => status = "completed"
    /\ page.results => status = "completed"

\* A page that was left while its first answer was under way is remembered.
LeftEarly ==
    ~page.open /\ history.opened /\ (\E s \in Slots : fetches[s].kind = "load")
        => history.leftLoading

PageInv == Types /\ OneLoad /\ CompletedStays /\ LeftEarly /\ PollingMatchesPage

-----------------------------------------------------------------------------

LEMMA SlotOne == 1 \in Slots
BY CallsAssumption DEF Slots

LEMMA Sends ==
    /\ NoFetch \in Fetch /\ NoFetch.kind = "none" /\ NoFetch.job = "none"
    /\ \A kind \in {"load", "poll", "results"} :
          Sent(kind) \in Fetch /\ Sent(kind).kind = kind /\ Sent(kind).job = "none"
BY DEF NoFetch, Sent, Fetch

LEMMA PageInitially == Init => PageInv
<1> SUFFICES ASSUME Init
             PROVE  PageInv
  OBVIOUS
<1>1. status = "absent"
  BY DEF Init, Queue!Init, Queue!Absent, Queue!Life, status
<1>2. \A s \in Slots : fetches[s] = NoFetch
  BY DEF Init
<1>3. Types
  BY <1>1, Sends DEF Init, Types, Closed
<1> QED BY <1>1, <1>2, <1>3, Sends
        DEF Init, PageInv, OneLoad, CompletedStays, LeftEarly, PollingMatchesPage, Closed,
            Unsettled

\* What the queue does to the job.
LEMMA MovesKeep ==
    ASSUME Queue!Move(Viewed),
           life' \in [{Viewed} -> [status : Statuses, owner : Workers \cup {None},
                                   tries : 0..MaxRetries]]
    PROVE  /\ status' \in Statuses
           /\ status = "completed" => status' = "completed"
<1>1. status' \in Statuses
  BY DEF status
<1>2. status # "completed"
  BY DEF status, Queue!Move, Queue!Submit, Queue!Start, Queue!Complete, Queue!TryAgain,
         Queue!GiveBack, Queue!GiveUp, Queue!Cancel, Queue!Revive, Queue!Absent, Queue!Life
<1> QED BY <1>1, <1>2

-----------------------------------------------------------------------------
(* One step of each kind.                                                  *)

LEMMA OpenKeeps == ASSUME PageInv, Open PROVE PageInv'
<1>1. /\ ~history.opened /\ status # "absent" /\ status' = status
      /\ page' = [page EXCEPT !.open = TRUE] /\ timer' = timer
      /\ history' = [history EXCEPT !.opened = TRUE]
      /\ fetches' = [fetches EXCEPT ![1] = Sent("load")]
  BY DEF Open, status
<1>2. /\ page = Closed /\ ~timer /\ \A s \in Slots : fetches[s] = NoFetch
      /\ fetches \in [Slots -> Fetch]
  BY <1>1 DEF PageInv, OneLoad, Types
<1>3. /\ fetches'[1] = Sent("load")
      /\ \A s \in Slots \ {1} : fetches'[s] = NoFetch
  BY <1>1, <1>2, SlotOne
<1>4. page' = [open |-> TRUE, job |-> "none", results |-> FALSE, error |-> FALSE]
  BY <1>1, <1>2 DEF Closed
<1>5. history'.opened /\ history' \in [opened : BOOLEAN, leftLoading : BOOLEAN, straggler : BOOLEAN]
  BY <1>1 DEF PageInv, Types
<1>6. fetches' \in [Slots -> Fetch]
  BY <1>1, <1>2, Sends
<1>7. Types'
  BY <1>1, <1>4, <1>5, <1>6 DEF PageInv, Types
<1>8. OneLoad'
  BY <1>1, <1>2, <1>3, <1>5, Sends DEF OneLoad
<1>9. CompletedStays'
  BY <1>1, <1>3, <1>4, Sends DEF CompletedStays
<1> QED BY <1>1, <1>2, <1>4, <1>7, <1>8, <1>9
        DEF PageInv, LeftEarly, PollingMatchesPage, Unsettled

LEMMA TickKeeps == ASSUME PageInv, Tick PROVE PageInv'
<1>1. PICK s \in Slots : fetches[s] = NoFetch /\ fetches' = [fetches EXCEPT ![s] = Sent("poll")]
  BY DEF Tick
<1>2. timer /\ UNCHANGED <<page, timer, history>> /\ status' = status
  BY DEF Tick, status
<1>3. /\ fetches' \in [Slots -> Fetch]
      /\ \A t \in Slots : /\ fetches'[t].kind = "load" => fetches[t].kind = "load"
                          /\ fetches'[t].job = "completed" => fetches[t].job = "completed"
  BY <1>1, Sends DEF PageInv, Types
<1>4. history.opened
  BY <1>2 DEF PageInv, OneLoad
<1> QED BY <1>2, <1>3, <1>4
        DEF PageInv, Types, OneLoad, CompletedStays, LeftEarly, PollingMatchesPage

LEMMA ServeKeeps == ASSUME PageInv, NEW s \in Slots, Serve(s) PROVE PageInv'
<1>1. /\ UNCHANGED <<page, timer, history>> /\ status' = status /\ fetches[s].state = "sent"
      /\ fetches' = [fetches EXCEPT ![s].state = "answered", ![s].job = status]
  BY DEF Serve, status
<1>2. history.opened
  BY <1>1 DEF PageInv, OneLoad, NoFetch
<1>3. status \in Statuses
  BY <1>2 DEF PageInv, OneLoad, Types
<1>4. fetches \in [Slots -> Fetch]
  BY DEF PageInv, Types
<1>5. PICK k \in {"none", "load", "poll", "results"}, j \in {"none"} \cup Statuses :
          fetches[s] = [kind |-> k, state |-> "sent", job |-> j]
  BY <1>1, <1>4 DEF Fetch
<1>6. fetches' = [fetches EXCEPT ![s] = [kind |-> k, state |-> "answered", job |-> status]]
  <2> DEFINE first == [fetches[s] EXCEPT !.state = "answered"]
             both  == [fetches[s] EXCEPT !.state = "answered", !.job = status]
  <2>1. fetches' = [fetches EXCEPT ![s] = both]
    BY <1>1, <1>4
  <2>2. first = [kind |-> k, state |-> "answered", job |-> j]
    BY <1>5
  <2>3. both = [first EXCEPT !.job = status]
    OBVIOUS
  <2> HIDE DEF first, both
  <2>4. both = [kind |-> k, state |-> "answered", job |-> status]
    BY <2>2, <2>3
  <2> QED BY <2>1, <2>4
<1>7. [kind |-> k, state |-> "answered", job |-> status] \in Fetch
  BY <1>3 DEF Fetch
<1>8. /\ fetches' \in [Slots -> Fetch]
      /\ \A t \in Slots : fetches'[t].kind = fetches[t].kind
      /\ \A t \in Slots : fetches'[t].job = "completed" =>
            fetches[t].job = "completed" \/ status = "completed"
  BY <1>4, <1>5, <1>6, <1>7
<1> QED BY <1>1, <1>2, <1>8
        DEF PageInv, Types, OneLoad, CompletedStays, LeftEarly, PollingMatchesPage

\* What an answer does to the requests under way.
LEMMA FollowUp ==
    ASSUME PageInv, NEW s \in Slots, NEW job, Follow(s, job)
    PROVE  /\ fetches' \in [Slots -> Fetch]
           /\ fetches'[s].kind # "load" /\ fetches'[s].job = "none"
           /\ \A t \in Slots \ {s} : fetches'[t] = fetches[t]
<1> DEFINE next == IF job = "completed" THEN Sent("results") ELSE NoFetch
<1>1. next \in Fetch /\ next.kind # "load" /\ next.job = "none"
  BY Sends
<1>2. fetches' = [fetches EXCEPT ![s] = next]
  BY DEF Follow
<1> HIDE DEF next
<1> QED BY <1>1, <1>2 DEF PageInv, Types

\* A page that is opened, if there is an answer.
LEMMA Answered ==
    ASSUME PageInv, NEW s \in Slots, NEW kind \in {"load", "poll", "results"}, Answer(s, kind)
    PROVE  history.opened /\ fetches[s].kind = kind /\ fetches[s] \in Fetch
BY DEF PageInv, OneLoad, Types, Answer, NoFetch

LEMMA LoadedKeeps == ASSUME PageInv, NEW s \in Slots, Loaded(s) PROVE PageInv'
<1>1. /\ page' = IF page.open THEN [page EXCEPT !.job = fetches[s].job] ELSE page
      /\ timer' = (fetches[s].job \in Unsettled)
      /\ Follow(s, fetches[s].job) /\ history' = history /\ status' = status
  BY DEF Loaded, Show, status
<1>2. history.opened /\ fetches[s].kind = "load" /\ fetches[s].job \in {"none"} \cup Statuses
  BY Answered DEF Loaded, Fetch
<1>3. /\ fetches' \in [Slots -> Fetch]
      /\ fetches'[s].kind # "load" /\ fetches'[s].job = "none"
      /\ \A t \in Slots \ {s} : fetches'[t] = fetches[t]
  BY <1>1, FollowUp
<1>4. \A t \in Slots : fetches'[t].kind # "load"
  BY <1>2, <1>3 DEF PageInv, OneLoad
<1>5. /\ page' \in [open : BOOLEAN, job : {"none"} \cup Statuses, results : BOOLEAN,
                    error : BOOLEAN]
      /\ page'.open = page.open /\ page'.results = page.results
      /\ page.open => page'.job = fetches[s].job
  BY <1>1, <1>2 DEF PageInv, Types
<1>6. timer' \in BOOLEAN
  BY <1>1
<1>7. Types'
  BY <1>1, <1>3, <1>5, <1>6 DEF PageInv, Types
<1>8. OneLoad'
  BY <1>1, <1>2, <1>4 DEF PageInv, OneLoad
<1>9. CompletedStays'
  BY <1>1, <1>3, <1>5 DEF PageInv, CompletedStays
<1>10. PollingMatchesPage'
  <2>1. page'.open /\ page'.job \in Unsettled => timer'
    BY <1>1, <1>5
  <2>2. page'.open /\ page'.job = "completed" => ~timer'
    BY <1>1, <1>5 DEF Unsettled
  <2>3. ~page.open => history.leftLoading
    BY <1>2 DEF PageInv, LeftEarly
  <2> QED BY <1>1, <1>5, <2>1, <2>2, <2>3 DEF PollingMatchesPage
<1> QED BY <1>4, <1>7, <1>8, <1>9, <1>10 DEF PageInv, LeftEarly

LEMMA PolledKeeps == ASSUME PageInv, NEW s \in Slots, Polled(s) PROVE PageInv'
<1> DEFINE late == page.open /\ ~timer /\ fetches[s].job \in Unsettled
<1>1. /\ page' = IF page.open THEN [page EXCEPT !.job = fetches[s].job] ELSE page
      /\ timer' = (timer /\ fetches[s].job \notin {"completed", "failed"})
      /\ history' = [history EXCEPT !.straggler = @ \/ late]
      /\ Follow(s, fetches[s].job) /\ status' = status
  BY DEF Polled, Show, status
<1>2. history.opened /\ fetches[s].kind = "poll" /\ fetches[s].job \in {"none"} \cup Statuses
  BY Answered DEF Polled, Fetch
<1>3. /\ fetches' \in [Slots -> Fetch]
      /\ fetches'[s].kind # "load" /\ fetches'[s].job = "none"
      /\ \A t \in Slots \ {s} : fetches'[t] = fetches[t]
  BY <1>1, FollowUp
<1>4. /\ page' \in [open : BOOLEAN, job : {"none"} \cup Statuses, results : BOOLEAN,
                    error : BOOLEAN]
      /\ page'.open = page.open /\ page'.results = page.results
      /\ page.open => page'.job = fetches[s].job
  BY <1>1, <1>2 DEF PageInv, Types
<1>5. /\ history' \in [opened : BOOLEAN, leftLoading : BOOLEAN, straggler : BOOLEAN]
      /\ history'.opened = history.opened /\ history'.leftLoading = history.leftLoading
      /\ history.straggler \/ late => history'.straggler
  <2>1. late \in BOOLEAN
    OBVIOUS
  <2> HIDE DEF late
  <2> QED BY <1>1, <2>1 DEF PageInv, Types
<1>6. timer' \in BOOLEAN /\ (timer' => timer)
  BY <1>1
<1>7. Types'
  BY <1>1, <1>3, <1>4, <1>5, <1>6 DEF PageInv, Types
<1>8. \A t \in Slots : fetches'[t].kind = "load" => fetches[t].kind = "load"
  BY <1>3
<1>9. OneLoad'
  BY <1>1, <1>2, <1>5, <1>6, <1>8 DEF PageInv, OneLoad
<1>10. CompletedStays'
  BY <1>1, <1>3, <1>4 DEF PageInv, CompletedStays
<1>11. LeftEarly'
  BY <1>4, <1>5, <1>8 DEF PageInv, LeftEarly
<1>12. PollingMatchesPage'
  <2>1. page'.open /\ page'.job \in Unsettled => timer' \/ history'.straggler
    BY <1>1, <1>4, <1>5 DEF Unsettled
  <2>2. page'.open /\ page'.job = "completed" => ~timer'
    BY <1>1, <1>4
  <2>3. timer' => page'.open \/ history'.leftLoading
    BY <1>4, <1>5, <1>6 DEF PageInv, PollingMatchesPage
  <2> QED BY <2>1, <2>2, <2>3 DEF PollingMatchesPage
<1> QED BY <1>7, <1>9, <1>10, <1>11, <1>12 DEF PageInv

\* A request that ends without a follow-up.
LEMMA EndedFetch ==
    ASSUME PageInv, NEW s \in Slots, fetches' = [fetches EXCEPT ![s] = NoFetch]
    PROVE  /\ fetches' \in [Slots -> Fetch]
           /\ \A t \in Slots : /\ fetches'[t].kind = "load" => fetches[t].kind = "load"
                               /\ fetches'[t].job = "completed" => fetches[t].job = "completed"
BY Sends DEF PageInv, Types

LEMMA ResultsKeep == ASSUME PageInv, NEW s \in Slots, ResultsLoaded(s) PROVE PageInv'
<1>1. /\ page' = IF page.open
                 THEN IF fetches[s].job = "completed" THEN [page EXCEPT !.results = TRUE]
                                                      ELSE [page EXCEPT !.error = TRUE]
                 ELSE page
      /\ fetches' = [fetches EXCEPT ![s] = NoFetch]
      /\ UNCHANGED <<timer, history>> /\ status' = status
  BY DEF ResultsLoaded, Show, status
<1>2. history.opened
  BY Answered DEF ResultsLoaded
<1>3. /\ page' \in [open : BOOLEAN, job : {"none"} \cup Statuses, results : BOOLEAN,
                    error : BOOLEAN]
      /\ page'.open = page.open /\ page'.job = page.job
      /\ page'.results => page.results \/ fetches[s].job = "completed"
  BY <1>1 DEF PageInv, Types
<1> QED BY <1>1, <1>2, <1>3, EndedFetch
        DEF PageInv, Types, OneLoad, CompletedStays, LeftEarly, PollingMatchesPage

LEMMA FailsKeeps == ASSUME PageInv, NEW s \in Slots, Fails(s) PROVE PageInv'
<1>1. /\ page' = page \/ page' = [page EXCEPT !.error = TRUE]
      /\ fetches[s] # NoFetch /\ fetches' = [fetches EXCEPT ![s] = NoFetch]
      /\ UNCHANGED <<timer, history>> /\ status' = status
  BY DEF Fails, Show, status
<1>2. history.opened
  BY <1>1 DEF PageInv, OneLoad
<1>3. /\ page' \in [open : BOOLEAN, job : {"none"} \cup Statuses, results : BOOLEAN,
                    error : BOOLEAN]
      /\ page'.open = page.open /\ page'.job = page.job /\ page'.results = page.results
  BY <1>1 DEF PageInv, Types
<1> QED BY <1>1, <1>2, <1>3, EndedFetch
        DEF PageInv, Types, OneLoad, CompletedStays, LeftEarly, PollingMatchesPage

LEMMA LeaveKeeps == ASSUME PageInv, Leave PROVE PageInv'
<1> DEFINE loading == \E s \in Slots : fetches[s].kind = "load"
<1>1. /\ page.open /\ page' = Closed /\ timer' = FALSE
      /\ history' = [history EXCEPT !.leftLoading = loading]
      /\ fetches' = fetches /\ status' = status
  BY DEF Leave, status
<1>2. history.opened
  BY <1>1 DEF PageInv, OneLoad, Closed
<1>3. /\ history' \in [opened : BOOLEAN, leftLoading : BOOLEAN, straggler : BOOLEAN]
      /\ history'.opened = history.opened /\ (loading => history'.leftLoading)
  <2>1. loading \in BOOLEAN
    OBVIOUS
  <2> HIDE DEF loading
  <2> QED BY <1>1, <2>1 DEF PageInv, Types
<1>4. Types'
  BY <1>1, <1>3 DEF PageInv, Types, Closed
<1>5. OneLoad'
  BY <1>1, <1>2, <1>3 DEF PageInv, OneLoad
<1>6. CompletedStays' /\ PollingMatchesPage'
  BY <1>1 DEF PageInv, CompletedStays, PollingMatchesPage, Closed
<1>7. LeftEarly'
  BY <1>1, <1>3 DEF LeftEarly
<1> QED BY <1>4, <1>5, <1>6, <1>7 DEF PageInv

LEMMA JobMovesKeeps == ASSUME PageInv, JobMoves PROVE PageInv'
<1>1. /\ status' \in Statuses /\ (status = "completed" => status' = "completed")
      /\ UNCHANGED <<page, timer, fetches, history>>
  BY MovesKeep DEF JobMoves
<1> QED BY <1>1
        DEF PageInv, Types, OneLoad, CompletedStays, LeftEarly, PollingMatchesPage, Statuses

LEMMA StepKeeps == ASSUME PageInv, [Next]_vars PROVE PageInv'
<1>1. CASE UNCHANGED vars
  BY <1>1 DEF vars, PageInv, Types, OneLoad, CompletedStays, LeftEarly, PollingMatchesPage, status
<1>2. ASSUME NEW s \in Slots, Serve(s) \/ Arrives(s) \/ Fails(s)
      PROVE  PageInv'
  BY <1>2, ServeKeeps, LoadedKeeps, PolledKeeps, ResultsKeep, FailsKeeps DEF Arrives
<1> QED BY <1>1, <1>2, OpenKeeps, TickKeeps, LeaveKeeps, JobMovesKeeps DEF Next

-----------------------------------------------------------------------------
(* The theorems.                                                           *)

LEMMA PageInvariant == Spec => []PageInv
BY PageInitially, StepKeeps, PTL DEF Spec

\* The state of the page keeps its types; the interval is set after the first answer (load,
\* in useEffect), and results are shown only of a job that has completed, in whatever order
\* the answers arrive.
THEOREM PageTypeCorrect == Spec => []TypeOK
<1>1. PageInv => TypeOK
  BY DEF PageInv, Types, OneLoad, CompletedStays, TypeOK, Fetch
<1> QED BY PageInvariant, <1>1, PTL

\* The interval runs when the page needs it and not otherwise (load, poll, and the cleanup
\* of the effect), but for a late answer to an overlapping poll and a page that was left
\* before its first answer.
THEOREM PollingMatches == Spec => []PollingMatchesPage
<1>1. PageInv => PollingMatchesPage
  BY DEF PageInv
<1> QED BY PageInvariant, <1>1, PTL
=============================================================================
