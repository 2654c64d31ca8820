-------------------------- MODULE RemoteRunProofs --------------------------
(***************************************************************************)
(* Theorems of RemoteRun, for any number of calls and of threads, every    *)
(* mode of the Linux worker and any number of crashes.                     *)
(***************************************************************************)
EXTENDS RemoteRun, TLAPS

-----------------------------------------------------------------------------
(* The inductive invariant.  The task, the record and the archive of a run *)
(* go through stages together, and the call and its request agree on the   *)
(* stages that they may meet.                                              *)

Task(pc, o, left) == [pc |-> pc, outcome |-> o, left |-> left]

Record(s, m, w, a) ==
    [status |-> s, message |-> m, wall_time_s |-> w, output_archive |-> a]

\* Nothing has come of the call's POST, or a crash has made the worker forget the run.
Forgotten(c) == task[c] = NoTask /\ registry[c] = Unknown
Fresh(c)     == Forgotten(c) /\ archive[c] = "none"

Waits(c) == /\ task[c] = Task("waiting", "none", <<>>)
            /\ registry[c] = NewRecord /\ archive[c] = "none"

Executes(c) == /\ task[c] = Task("executing", "none", <<>>)
               /\ registry[c] = Record("running", "empty", "null", "null") /\ archive[c] = "none"

Packs(c) == /\ task[c] = Task("packing", "output", <<>>)
            /\ registry[c] = Record("running", "empty", "null", "null") /\ archive[c] = "partial"

RecordsOutput(c) ==
    /\ archive[c] = "output"
    /\ \/ /\ task[c] = Task("recording", "output",
                            <<"output_archive", "wall_time_s", "status", "message">>)
          /\ registry[c] = Record("running", "empty", "null", "null")
       \/ /\ task[c] = Task("recording", "output", <<"wall_time_s", "status", "message">>)
          /\ registry[c] = Record("running", "empty", "null", "set")
       \/ /\ task[c] = Task("recording", "output", <<"status", "message">>)
          /\ registry[c] = Record("running", "empty", "set", "set")

RecordsError(c) ==
    /\ archive[c] \in {"none", "partial"}
    /\ \/ /\ task[c] = Task("recording", "error", <<"status", "message", "wall_time_s">>)
          /\ registry[c] = Record("running", "empty", "null", "null")
       \/ /\ task[c] = Task("recording", "error", <<"message", "wall_time_s">>)
          /\ registry[c] = Record("failed", "empty", "null", "null")
       \/ /\ task[c] = Task("recording", "error", <<"wall_time_s">>)
          /\ registry[c] = Record("failed", "set", "null", "null")

\* The record says completed; its message may still be missing.
Succeeded(c) ==
    /\ archive[c] = "output"
    /\ \/ /\ task[c] = Task("recording", "output", <<"message">>)
          /\ registry[c] = Record("completed", "empty", "set", "set")
       \/ /\ task[c] = NoTask
          /\ registry[c] = Record("completed", "set", "set", "set")

HasFailed(c) == /\ task[c] = NoTask
                /\ registry[c] = Record("failed", "set", "set", "null")
                /\ archive[c] \in {"none", "partial"}

Stage(c) ==
    \/ Forgotten(c) /\ archive[c] \in {"none", "partial", "output"}
    \/ Waits(c) \/ Executes(c) \/ Packs(c)
    \/ RecordsOutput(c) \/ RecordsError(c) \/ Succeeded(c) \/ HasFailed(c)

\* What stays true of a run whose record said completed, or failed.
HasOutput(c) == archive[c] = "output" /\ (Succeeded(c) \/ (Forgotten(c) /\ restarts > 0))
IsLost(c)    == archive[c] # "output" /\ task[c].pc \in {"none", "recording"}

Known(c) == registry[c] # Unknown \/ restarts > 0

Report == [status : {"none", "unknown", "queued", "running", "completed", "failed"},
           message : {"empty", "set"}, wall_time_s : {"null", "set"}]

\* What a report that says so implies of the run.
Holds(c, report) ==
    /\ report.status = "completed" => HasOutput(c) /\ report.wall_time_s = "set"
    /\ report.status = "failed" => IsLost(c)

\* The requests that a call can have under way, with what they know.
NoneIsOut(c) == wire[c] = NoRequest

PostIsOut(c) ==
    /\ wire[c].kind = "post" /\ wire[c].left = <<>>
    /\ \/ wire[c].state \in {"sent", "broken"} /\ wire[c].code = "none" /\ Fresh(c)
       \/ wire[c].state = "answered" /\ wire[c].code = "ok" /\ Known(c)
       \/ wire[c].state = "answered" /\ wire[c].code = "refused" /\ Fresh(c)

StatusIsOut(c) ==
    /\ wire[c].kind = "status" /\ wire[c].body = "none" /\ wire[c].report \in Report
    /\ \/ wire[c].state = "sent" /\ wire[c].code = "none" /\ wire[c].left = <<>>
       \/ wire[c].state = "broken" /\ wire[c].code = "none"
       \/ /\ wire[c].state = "reading" /\ wire[c].code = "none" /\ registry[c] # Unknown
          /\ \/ wire[c].left = <<"status", "message", "wall_time_s">>
             \/ /\ wire[c].left \in {<<"message", "wall_time_s">>, <<"wall_time_s">>}
                /\ wire[c].report.status = "completed" => Succeeded(c)
                /\ wire[c].report.status = "failed" => IsLost(c)
       \/ /\ wire[c].state = "answered" /\ wire[c].code = "ok" /\ wire[c].left = <<>>
          /\ Holds(c, wire[c].report)
       \/ /\ wire[c].state = "answered" /\ wire[c].code = "unknown" /\ wire[c].left = <<>>
          /\ Forgotten(c) /\ restarts > 0

OutputIsOut(c) ==
    /\ wire[c].kind = "output" /\ wire[c].left = <<>>
    /\ \/ wire[c].state \in {"sent", "broken"} /\ wire[c].code = "none"
       \/ wire[c].state = "answered" /\ wire[c].code = "ok" /\ wire[c].body = "output"
       \/ /\ wire[c].state = "answered" /\ wire[c].code \in {"unknown", "conflict", "gone"}
          /\ Forgotten(c) /\ restarts > 0

Nothing(c) == call[c].result = "none" /\ call[c].why = "none"

Ending(c) ==
    LET k == call[c]
    IN  \/ k.result = "completed" /\ k.why = "none" /\ HasOutput(c) /\ NoneIsOut(c)
        \/ k.result = "failed" /\ k.why \in {"inputs", "posting"} /\ Fresh(c) /\ NoneIsOut(c)
        \/ k.result = "failed" /\ k.why \in {"polling", "downloading"} /\ restarts > 0
              /\ task[c] = NoTask /\ NoneIsOut(c)
        \/ k.result = "failed" /\ k.why = "deadline" /\ k.report.status \notin Terminal
              /\ NoneIsOut(c)
        \/ k.result = "failed" /\ k.why = "run" /\ IsLost(c) /\ NoneIsOut(c)
        \/ k.result = "raised" /\ k.why = "transport" /\ (NoneIsOut(c) \/ PostIsOut(c))

\* The call, by how far it is.
Progress(c) ==
    \/ call[c].pc = "idle" /\ Nothing(c) /\ call[c].report = Blank /\ NoneIsOut(c) /\ Fresh(c)
    \/ call[c].pc = "posting" /\ Nothing(c) /\ call[c].report = Blank /\ PostIsOut(c)
    \/ /\ call[c].pc = "polling" /\ Nothing(c)
       /\ call[c].report.status \notin Terminal
       /\ Known(c) /\ (NoneIsOut(c) \/ StatusIsOut(c))
    \/ /\ call[c].pc = "downloading" /\ Nothing(c)
       /\ HasOutput(c) /\ (NoneIsOut(c) \/ OutputIsOut(c))
    \/ call[c].pc = "ended" /\ Ending(c)

Lefts == {<<>>, <<"output_archive", "wall_time_s", "status", "message">>,
          <<"wall_time_s", "status", "message">>, <<"status", "message">>, <<"message">>,
          <<"status", "message", "wall_time_s">>, <<"message", "wall_time_s">>,
          <<"wall_time_s">>}

CallType ==
    [pc : {"idle", "posting", "polling", "downloading", "ended"}, overdue : BOOLEAN,
     report : Report, result : {"none", "completed", "failed", "raised"},
     why : {"none", "inputs", "posting", "polling", "downloading", "deadline", "run",
            "transport", "unpacking"}]

TaskType == [pc : {"none", "waiting", "executing", "packing", "recording"},
             outcome : {"none", "output", "error"}, left : Lefts]

RequestType ==
    [kind : {"none", "post", "status", "output"},
     state : {"none", "sent", "reading", "answered", "broken"},
     left : {<<>>, ReportFields, <<"message", "wall_time_s">>, <<"wall_time_s">>},
     code : {"none", "ok", "refused", "unknown", "conflict", "gone"},
     report : Report, body : {"none", "partial", "output"}]

Types ==
    /\ call \in [Calls -> CallType]
    /\ wire \in [Calls -> RequestType]
    /\ task \in [Calls -> TaskType]
    /\ registry \in [Calls -> JobRecord]
    /\ archive \in [Calls -> {"none", "partial", "output"}]
    /\ up \in BOOLEAN
    /\ restarts \in 0..MaxRestarts

Timed(c) == call[c].report.status = "completed" => call[c].report.wall_time_s = "set"

CallInv(c) == Stage(c) /\ Progress(c) /\ Timed(c)

Inv == Types /\ \A c \in Calls : CallInv(c)

-----------------------------------------------------------------------------
(* What one step leaves alone stays as it is.                              *)

Same(c) == /\ call'[c] = call[c] /\ wire'[c] = wire[c] /\ task'[c] = task[c]
           /\ registry'[c] = registry[c] /\ archive'[c] = archive[c]

LEMMA SameCall ==
    ASSUME NEW c \in Calls, CallInv(c), Same(c), restarts' = restarts
    PROVE  CallInv(c)'
  <1>1. Stage(c)'
    BY DEF CallInv, Same, Stage, Forgotten, Waits, Executes, Packs, RecordsOutput,
           RecordsError, Succeeded, HasFailed
  <1>2. Timed(c)'
    BY DEF CallInv, Same, Timed
  <1>3. Progress(c)'
    BY DEF CallInv, Same, Progress, Nothing, Ending, NoneIsOut, PostIsOut, StatusIsOut,
           OutputIsOut, HasOutput, IsLost, Known, Holds, Fresh, Forgotten, Succeeded
  <1> QED  BY <1>1, <1>2, <1>3 DEF CallInv

LEMMA Local ==
    ASSUME Inv, NEW c \in Calls, Types', CallInv(c)', restarts' = restarts,
           \A d \in Calls \ {c} : Same(d)
    PROVE  Inv'
  BY SameCall DEF Inv

LEMMA TailFacts ==
    /\ Tail(<<"output_archive", "wall_time_s", "status", "message">>)
           = <<"wall_time_s", "status", "message">>
    /\ Head(<<"output_archive", "wall_time_s", "status", "message">>) = "output_archive"
    /\ Tail(<<"wall_time_s", "status", "message">>) = <<"status", "message">>
    /\ Head(<<"wall_time_s", "status", "message">>) = "wall_time_s"
    /\ Tail(<<"status", "message">>) = <<"message">> /\ Head(<<"status", "message">>) = "status"
    /\ Tail(<<"message">>) = <<>> /\ Head(<<"message">>) = "message"
    /\ Tail(<<"status", "message", "wall_time_s">>) = <<"message", "wall_time_s">>
    /\ Head(<<"status", "message", "wall_time_s">>) = "status"
    /\ Tail(<<"message", "wall_time_s">>) = <<"wall_time_s">>
    /\ Head(<<"message", "wall_time_s">>) = "message"
    /\ Tail(<<"wall_time_s">>) = <<>> /\ Head(<<"wall_time_s">>) = "wall_time_s"
    /\ <<"wall_time_s", "status", "message">> # <<>> /\ <<"status", "message">> # <<>>
    /\ <<"message">> # <<>> /\ <<"message", "wall_time_s">> # <<>> /\ <<"wall_time_s">> # <<>>
  OBVIOUS

LEMMA ClientStep ==
    ASSUME Inv, NEW c \in Calls, NEW k \in CallType, NEW w \in RequestType,
           call' = [call EXCEPT ![c] = k], wire' = [wire EXCEPT ![c] = w],
           UNCHANGED <<registry, task, archive, up, restarts>>
    PROVE  /\ call'[c] = k /\ wire'[c] = w
           /\ Stage(c)'
           /\ Progress(c)' /\ Timed(c)' => Inv'
  <1>1. Types'
    BY DEF Inv, Types
  <1>2. call'[c] = k /\ wire'[c] = w
    BY DEF Inv, Types
  <1>3. \A d \in Calls \ {c} : Same(d)
    BY DEF Inv, Types, Same
  <1>4. Stage(c)'
    BY DEF Inv, CallInv, Stage, Forgotten, Waits, Executes, Packs, RecordsOutput,
           RecordsError, Succeeded, HasFailed
  <1> QED  BY <1>1, <1>2, <1>3, <1>4, Local DEF CallInv

LEMMA ClientFrame ==
    ASSUME NEW c \in Calls, UNCHANGED <<registry, task, archive, up, restarts>>
    PROVE  /\ Fresh(c)' <=> Fresh(c)
           /\ Forgotten(c)' <=> Forgotten(c)
           /\ Known(c)' <=> Known(c)
           /\ HasOutput(c)' <=> HasOutput(c)
           /\ IsLost(c)' <=> IsLost(c)
           /\ \A report : Holds(c, report)' <=> Holds(c, report)
  BY DEF Fresh, Forgotten, Known, HasOutput, IsLost, Succeeded, Holds

LEMMA RequestFields ==
    ASSUME NEW kind \in {"post", "status", "output"}
    PROVE  /\ Request(kind) \in RequestType
           /\ Request(kind).kind = kind /\ Request(kind).state = "sent"
           /\ Request(kind).left = <<>> /\ Request(kind).code = "none"
           /\ Request(kind).body = "none" /\ Request(kind).report = Blank
           /\ Blank \in Report
  BY DEF RequestType, Request, NoRequest, Report, Blank

LEMMA NoRequestType == NoRequest \in RequestType /\ NoRequest.kind = "none"
                       /\ NoRequest.state = "none"
  BY DEF RequestType, NoRequest, Report, Blank

Whys == {"inputs", "posting", "polling", "downloading", "deadline", "run", "transport",
         "unpacking"}

LEMMA EndFields ==
    ASSUME NEW k \in CallType, NEW why \in Whys
    PROVE  /\ Failed(k, why) \in CallType
           /\ Failed(k, why).pc = "ended" /\ Failed(k, why).result = "failed"
           /\ Failed(k, why).why = why /\ Failed(k, why).report = k.report
           /\ Raised(k, why) \in CallType
           /\ Raised(k, why).pc = "ended" /\ Raised(k, why).result = "raised"
           /\ Raised(k, why).why = why /\ Raised(k, why).report = k.report
  BY DEF Failed, Raised, CallType, Whys

LEMMA RunTyped == ASSUME Inv, NEW c \in Calls
                  PROVE  /\ task[c] \in TaskType /\ registry[c] \in JobRecord
                         /\ archive[c] \in {"none", "partial", "output"}
                         /\ task = [task EXCEPT ![c] = task[c]]
                         /\ registry = [registry EXCEPT ![c] = registry[c]]
                         /\ archive = [archive EXCEPT ![c] = archive[c]]
  BY DEF Inv, Types

LEMMA CallTyped == ASSUME Inv, NEW c \in Calls
                   PROVE  /\ call[c] \in CallType /\ wire[c] \in RequestType
                          /\ Progress(c) /\ Timed(c) /\ Stage(c)
                          /\ call = [call EXCEPT ![c] = call[c]]
                          /\ wire = [wire EXCEPT ![c] = wire[c]]
  BY DEF Inv, Types, CallInv

-----------------------------------------------------------------------------
(* The steps of the client.                                                *)

LEMMA SubmitStep ==
    ASSUME Inv, NEW c \in Calls, Submit(c)
    PROVE  Inv'
  <1> DEFINE k == [call[c] EXCEPT !.pc = "posting"]
             w == Request("post")
  <1>1. k \in CallType /\ k.pc = "posting" /\ k.result = "none" /\ k.why = "none"
        /\ k.report = Blank /\ Fresh(c)
    BY CallTyped DEF Progress, Submit, Nothing, CallType
  <1>2. call' = [call EXCEPT ![c] = k] /\ wire' = [wire EXCEPT ![c] = w]
        /\ UNCHANGED <<registry, task, archive, up, restarts>>
    BY DEF Submit, Send
  <1> HIDE DEF k, w
  <1>3. w \in RequestType /\ w.kind = "post" /\ w.state = "sent" /\ w.left = <<>>
        /\ w.code = "none"
    BY RequestFields DEF w
  <1>4. call'[c] = k /\ wire'[c] = w /\ (Progress(c)' /\ Timed(c)' => Inv')
    BY <1>1, <1>2, <1>3, ClientStep
  <1>5. PostIsOut(c)'
    BY <1>1, <1>2, <1>3, <1>4, ClientFrame DEF PostIsOut
  <1>6. Progress(c)' /\ Timed(c)'
    BY <1>1, <1>4, <1>5 DEF Progress, Nothing, Timed, Blank
  <1> QED  BY <1>4, <1>6

LEMMA InputsMissingStep ==
    ASSUME Inv, NEW c \in Calls, InputsMissing(c)
    PROVE  Inv'
  <1> DEFINE k == Failed(call[c], "inputs")
  <1>1. k \in CallType /\ k.pc = "ended" /\ k.result = "failed" /\ k.why = "inputs"
        /\ k.report = Blank /\ Fresh(c) /\ wire[c] = NoRequest
    BY CallTyped, EndFields DEF Progress, InputsMissing, Nothing, Whys, NoneIsOut
  <1>2. call' = [call EXCEPT ![c] = k] /\ wire' = [wire EXCEPT ![c] = wire[c]]
        /\ UNCHANGED <<registry, task, archive, up, restarts>>
    BY CallTyped DEF InputsMissing, workerVars
  <1> HIDE DEF k
  <1>3. call'[c] = k /\ wire'[c] = wire[c] /\ (Progress(c)' /\ Timed(c)' => Inv')
    BY <1>1, <1>2, CallTyped, ClientStep
  <1>4. Ending(c)'
    BY <1>1, <1>2, <1>3, ClientFrame DEF Ending, NoneIsOut
  <1>5. Progress(c)' /\ Timed(c)'
    BY <1>1, <1>3, <1>4 DEF Progress, Timed, Blank
  <1> QED  BY <1>3, <1>5

LEMMA SubmittedStep ==
    ASSUME Inv, NEW c \in Calls, Submitted(c)
    PROVE  Inv'
  <1> DEFINE k == [call[c] EXCEPT !.pc = "polling"]
  <1>1. k \in CallType /\ k.pc = "polling" /\ k.result = "none" /\ k.why = "none"
        /\ k.report = Blank /\ Known(c)
    BY CallTyped DEF Progress, Submitted, Reply, Nothing, CallType, PostIsOut
  <1>2. call' = [call EXCEPT ![c] = k] /\ wire' = [wire EXCEPT ![c] = NoRequest]
        /\ UNCHANGED <<registry, task, archive, up, restarts>>
    BY DEF Submitted, Consume
  <1> HIDE DEF k
  <1>3. call'[c] = k /\ wire'[c] = NoRequest /\ (Progress(c)' /\ Timed(c)' => Inv')
    BY <1>1, <1>2, NoRequestType, ClientStep
  <1>4. Known(c)' /\ NoneIsOut(c)' /\ k.report.status \notin Terminal
    BY <1>1, <1>2, <1>3, ClientFrame DEF NoneIsOut, Terminal, Blank
  <1>5. Progress(c)' /\ Timed(c)'
    BY <1>1, <1>3, <1>4 DEF Progress, Nothing, Timed, Terminal
  <1> QED  BY <1>3, <1>5

LEMMA PollStep ==
    ASSUME Inv, NEW c \in Calls, Poll(c)
    PROVE  Inv'
  <1> DEFINE k == call[c]
             w == Request("status")
  <1>1. k \in CallType /\ k.pc = "polling" /\ k.result = "none" /\ k.why = "none"
        /\ k.report.status \notin Terminal /\ Known(c)
    BY CallTyped DEF Progress, Poll, Nothing
  <1>2. call' = [call EXCEPT ![c] = k] /\ wire' = [wire EXCEPT ![c] = w]
        /\ UNCHANGED <<registry, task, archive, up, restarts>>
    BY CallTyped DEF Poll, Send
  <1> HIDE DEF k, w
  <1>3. w \in RequestType /\ w.kind = "status" /\ w.state = "sent" /\ w.left = <<>>
        /\ w.code = "none" /\ w.body = "none" /\ w.report \in Report
    BY RequestFields DEF w
  <1>4. call'[c] = k /\ wire'[c] = w /\ (Progress(c)' /\ Timed(c)' => Inv')
    BY <1>1, <1>2, <1>3, ClientStep
  <1>5. Known(c)' /\ StatusIsOut(c)'
    BY <1>1, <1>2, <1>3, <1>4, ClientFrame DEF StatusIsOut
  <1>6. Progress(c)' /\ Timed(c)'
    BY <1>1, <1>4, <1>5 DEF Progress, Nothing, Timed, Terminal
  <1> QED  BY <1>4, <1>6

LEMMA DeadlinePassesStep ==
    ASSUME Inv, NEW c \in Calls, DeadlinePasses(c)
    PROVE  Inv'
  <1> DEFINE k == [call[c] EXCEPT !.overdue = TRUE]
  <1>1. k \in CallType /\ k.pc = "polling" /\ k.result = "none" /\ k.why = "none"
        /\ k.report.status \notin Terminal /\ Known(c) /\ (NoneIsOut(c) \/ StatusIsOut(c))
    BY CallTyped DEF Progress, DeadlinePasses, Nothing, CallType
  <1>2. call' = [call EXCEPT ![c] = k] /\ wire' = [wire EXCEPT ![c] = wire[c]]
        /\ UNCHANGED <<registry, task, archive, up, restarts>>
    BY CallTyped DEF DeadlinePasses, workerVars
  <1>0. wire' = wire
    BY DEF DeadlinePasses, workerVars
  <1> HIDE DEF k
  <1>3. call'[c] = k /\ (Progress(c)' /\ Timed(c)' => Inv')
    BY <1>1, <1>2, CallTyped, ClientStep
  <1>4. Known(c)' /\ (NoneIsOut(c)' \/ StatusIsOut(c)')
    <2>1. NoneIsOut(c) => NoneIsOut(c)'
      BY <1>0 DEF NoneIsOut
    <2>2. StatusIsOut(c) => StatusIsOut(c)'
      <3>1. registry' = registry /\ task' = task /\ archive' = archive /\ restarts' = restarts
            /\ wire' = wire
        BY <1>0, <1>2
      <3> QED
        BY <3>1 DEF StatusIsOut, Holds, HasOutput, IsLost, Succeeded, Forgotten
    <2> QED  BY <1>1, <1>2, <2>1, <2>2, ClientFrame
  <1>5. Progress(c)' /\ Timed(c)'
    BY <1>1, <1>3, <1>4 DEF Progress, Nothing, Timed, Terminal
  <1> QED  BY <1>3, <1>5

\* A poll that was answered.
LEMMA PolledStep ==
    ASSUME Inv, NEW c \in Calls, Polled(c)
    PROVE  Inv'
  <1> DEFINE R == wire[c].report
             j == [call[c] EXCEPT !.report = R]
             k == Decide(j, R)
  <1>1. call[c].pc = "polling" /\ Nothing(c) /\ Known(c) /\ StatusIsOut(c)
        /\ wire[c].state = "answered" /\ wire[c].code = "ok"
    BY CallTyped, NoRequestType DEF Progress, Polled, Reply, NoneIsOut
  <1>2. R \in Report /\ Holds(c, R)
    BY <1>1 DEF StatusIsOut
  <1>3. call' = [call EXCEPT ![c] = k] /\ wire' = [wire EXCEPT ![c] = NoRequest]
        /\ UNCHANGED <<registry, task, archive, up, restarts>>
    BY DEF Polled, Consume
  <1>4. j \in CallType /\ j.pc = "polling" /\ j.result = "none" /\ j.why = "none"
        /\ j.report = R
    BY <1>1, <1>2, CallTyped DEF CallType, Nothing
  <1> HIDE DEF j
  <1>5. /\ k \in CallType /\ k.report = R
        /\ \/ k.pc = "downloading" /\ R.status = "completed"
              /\ k.result = "none" /\ k.why = "none"
           \/ k.pc = "ended" /\ k.result = "failed" /\ k.why = "run" /\ R.status = "failed"
           \/ k.pc = "ended" /\ k.result = "failed" /\ k.why = "deadline"
              /\ R.status \notin Terminal
           \/ k.pc = "polling" /\ R.status \notin Terminal
              /\ k.result = "none" /\ k.why = "none"
    <2>1. CASE R.status = "completed"
      <3>1. k = [j EXCEPT !.pc = "downloading"]
        BY <2>1 DEF Decide, Terminal
      <3> QED  BY <1>4, <2>1, <3>1 DEF CallType
    <2>2. CASE R.status = "failed"
      <3>1. k = Failed(j, "run")
        BY <2>2 DEF Decide, Terminal
      <3> QED  BY <1>4, <2>2, <3>1, EndFields DEF Whys
    <2>3. CASE R.status \notin Terminal
      <3>1. k = IF j.overdue THEN Failed(j, "deadline") ELSE j
        BY <2>3 DEF Decide, Terminal
      <3> QED  BY <1>4, <2>3, <3>1, EndFields DEF Whys
    <2> QED  BY <2>1, <2>2, <2>3 DEF Terminal
  <1> HIDE DEF k
  <1>6. call'[c] = k /\ wire'[c] = NoRequest /\ (Progress(c)' /\ Timed(c)' => Inv')
    BY <1>3, <1>5, NoRequestType, ClientStep, ZenonT(60)
  <1>7. Known(c)' /\ NoneIsOut(c)'
    BY <1>1, <1>2, <1>3, <1>6, ClientFrame DEF NoneIsOut
  <1> HIDE DEF R
  <1>8. Timed(c)'
    BY <1>2, <1>5, <1>6 DEF Timed, Holds
  <1>9. Progress(c)'
    <2>1. R.status = "completed" => HasOutput(c)'
      BY <1>2, <1>3, ClientFrame DEF Holds
    <2>2. R.status = "failed" => IsLost(c)'
      BY <1>2, <1>3, ClientFrame DEF Holds
    <2> QED  BY <1>5, <1>6, <1>7, <2>1, <2>2 DEF Progress, Nothing, Ending
  <1> QED  BY <1>6, <1>8, <1>9

LEMMA DownloadStep ==
    ASSUME Inv, NEW c \in Calls, Download(c)
    PROVE  Inv'
  <1> DEFINE k == call[c]
             w == Request("output")
  <1>1. k \in CallType /\ k.pc = "downloading" /\ k.result = "none" /\ k.why = "none"
        /\ Timed(c) /\ HasOutput(c)
    BY CallTyped DEF Progress, Download, Nothing
  <1>2. call' = [call EXCEPT ![c] = k] /\ wire' = [wire EXCEPT ![c] = w]
        /\ UNCHANGED <<registry, task, archive, up, restarts>>
    BY CallTyped DEF Download, Send
  <1>3. w \in RequestType /\ w.kind = "output" /\ w.state = "sent" /\ w.left = <<>>
        /\ w.code = "none"
    BY RequestFields
  <1>4. call'[c] = k /\ wire'[c] = w /\ (Progress(c)' /\ Timed(c)' => Inv')
    BY <1>1, <1>2, <1>3, ClientStep
  <1>5. HasOutput(c)' /\ OutputIsOut(c)' /\ Timed(c)'
    BY <1>1, <1>2, <1>3, <1>4, ClientFrame DEF OutputIsOut, Timed
  <1> HIDE DEF k, w
  <1>6. Progress(c)'
    BY <1>1, <1>4, <1>5 DEF Progress, Nothing
  <1> QED  BY <1>4, <1>5, <1>6

LEMMA DownloadedStep ==
    ASSUME Inv, NEW c \in Calls, Downloaded(c)
    PROVE  Inv'
  <1> DEFINE k == [call[c] EXCEPT !.pc = "ended", !.result = "completed"]
  <1>1. call[c].pc = "downloading" /\ Nothing(c) /\ HasOutput(c) /\ OutputIsOut(c)
        /\ wire[c].state = "answered" /\ wire[c].code = "ok"
    BY CallTyped, NoRequestType DEF Progress, Downloaded, Reply, NoneIsOut
  <1>2. wire[c].body = "output"
    BY <1>1 DEF OutputIsOut
  <1>3. call' = [call EXCEPT ![c] = k] /\ wire' = [wire EXCEPT ![c] = NoRequest]
        /\ UNCHANGED <<registry, task, archive, up, restarts>>
    BY <1>2 DEF Downloaded, Consume
  <1>4. k \in CallType /\ k.pc = "ended" /\ k.result = "completed" /\ k.why = "none"
        /\ k.report = call[c].report
    BY <1>1, CallTyped DEF CallType, Nothing
  <1> HIDE DEF k
  <1>5. call'[c] = k /\ wire'[c] = NoRequest /\ (Progress(c)' /\ Timed(c)' => Inv')
    BY <1>3, <1>4, NoRequestType, ClientStep
  <1>6. HasOutput(c)' /\ NoneIsOut(c)' /\ Timed(c)'
    BY <1>1, <1>3, <1>4, <1>5, CallTyped, ClientFrame DEF NoneIsOut, Timed
  <1>7. Progress(c)'
    BY <1>4, <1>5, <1>6 DEF Progress, Ending
  <1> QED  BY <1>5, <1>6, <1>7

\* What an answer of 400 or more says of the run.
LEMMA RefusedStep ==
    ASSUME Inv, NEW c \in Calls, Refused(c)
    PROVE  Inv'
  <1>1. PICK pc \in {"posting", "polling", "downloading"} :
            Reply(c, pc, "error") /\ call' = [call EXCEPT ![c] = Failed(@, pc)]
    BY DEF Refused
  <1> DEFINE k == Failed(call[c], pc)
  <1>2. call[c].pc = pc /\ wire[c].state = "answered" /\ wire[c].code # "ok"
    BY <1>1 DEF Reply
  <1>3. call' = [call EXCEPT ![c] = k] /\ wire' = [wire EXCEPT ![c] = NoRequest]
        /\ UNCHANGED <<registry, task, archive, up, restarts>>
    BY <1>1 DEF Refused, Consume
  <1>4. k \in CallType /\ k.pc = "ended" /\ k.result = "failed" /\ k.why = pc
        /\ k.report = call[c].report
    BY CallTyped, EndFields DEF Whys
  <1> HIDE DEF k
  <1>5. call'[c] = k /\ wire'[c] = NoRequest /\ (Progress(c)' /\ Timed(c)' => Inv')
    BY <1>3, <1>4, NoRequestType, ClientStep
  <1>6. NoneIsOut(c)' /\ Timed(c)'
    BY <1>4, <1>5, CallTyped DEF NoneIsOut, Timed
  <1>7. \/ pc = "posting" /\ Fresh(c)
        \/ pc \in {"polling", "downloading"} /\ restarts > 0 /\ task[c] = NoTask
    <2>1. CASE pc = "posting"
      BY <1>2, <2>1, CallTyped DEF Progress, PostIsOut
    <2>2. CASE pc = "polling"
      BY <1>2, <2>2, CallTyped, NoRequestType DEF Progress, NoneIsOut, StatusIsOut, Forgotten
    <2>3. CASE pc = "downloading"
      BY <1>2, <2>3, CallTyped, NoRequestType
         DEF Progress, NoneIsOut, OutputIsOut, HasOutput, Succeeded, Forgotten
    <2> QED  BY <2>1, <2>2, <2>3
  <1>8. Ending(c)'
    BY <1>3, <1>4, <1>5, <1>6, <1>7, ClientFrame DEF Ending
  <1>9. Progress(c)'
    BY <1>4, <1>5, <1>8 DEF Progress
  <1> QED  BY <1>5, <1>6, <1>9

LEMMA TransportErrorStep ==
    ASSUME Inv, NEW c \in Calls, TransportError(c)
    PROVE  Inv'
  <1> DEFINE k == Raised(call[c], "transport")
             w == IF wire[c].kind = "post" /\ wire[c].state = "sent" THEN wire[c] ELSE NoRequest
  <1>1. call' = [call EXCEPT ![c] = k] /\ wire' = [wire EXCEPT ![c] = w]
        /\ UNCHANGED <<registry, task, archive, up, restarts>>
    BY DEF TransportError
  <1>2. k \in CallType /\ k.pc = "ended" /\ k.result = "raised" /\ k.why = "transport"
        /\ k.report = call[c].report
    BY CallTyped, EndFields DEF Whys
  <1>3. w \in RequestType
    BY CallTyped, NoRequestType
  <1> HIDE DEF k
  <1>4. call'[c] = k /\ wire'[c] = w /\ (Progress(c)' /\ Timed(c)' => Inv')
    BY <1>1, <1>2, <1>3, ClientStep, ZenonT(60)
  <1>5. NoneIsOut(c)' \/ PostIsOut(c)'
    <2>1. CASE wire[c].kind = "post" /\ wire[c].state = "sent"
      <3>1. PostIsOut(c)
        BY <2>1, CallTyped, NoRequestType
           DEF TransportError, Progress, NoneIsOut, StatusIsOut, OutputIsOut
      <3> QED  BY <1>1, <1>4, <2>1, <3>1, ClientFrame DEF PostIsOut
    <2>2. CASE ~(wire[c].kind = "post" /\ wire[c].state = "sent")
      BY <1>4, <2>2 DEF NoneIsOut
    <2> QED  BY <2>1, <2>2
  <1>6. Timed(c)' /\ Progress(c)'
    BY <1>2, <1>4, <1>5, CallTyped DEF Timed, Progress, Ending
  <1> QED  BY <1>4, <1>6

-----------------------------------------------------------------------------
(* The steps of the Linux worker.                                          *)

LEMMA WorkerStep ==
    ASSUME Inv, NEW c \in Calls, NEW w \in RequestType, NEW t \in TaskType,
           NEW r \in JobRecord, NEW a \in {"none", "partial", "output"},
           wire' = [wire EXCEPT ![c] = w], task' = [task EXCEPT ![c] = t],
           registry' = [registry EXCEPT ![c] = r], archive' = [archive EXCEPT ![c] = a],
           UNCHANGED <<call, up, restarts>>
    PROVE  /\ wire'[c] = w /\ task'[c] = t /\ registry'[c] = r /\ archive'[c] = a
           /\ Stage(c)' /\ Progress(c)' => Inv'
  <1>1. Types'
    BY DEF Inv, Types
  <1>2. wire'[c] = w /\ task'[c] = t /\ registry'[c] = r /\ archive'[c] = a
    BY DEF Inv, Types
  <1>3. \A d \in Calls \ {c} : Same(d)
    BY DEF Inv, Types, Same
  <1>4. Timed(c)'
    BY DEF Inv, CallInv, Timed
  <1> QED  BY <1>1, <1>2, <1>3, <1>4, Local DEF CallInv

\* A request that is answered without a change of the run.
LEMMA AnswerStep ==
    ASSUME Inv, NEW c \in Calls, NEW w \in RequestType, wire' = [wire EXCEPT ![c] = w],
           UNCHANGED <<call, registry, task, archive, up, restarts>>
    PROVE  wire'[c] = w /\ (Progress(c)' => Inv')
  <1>1. Stage(c)'
    BY DEF Inv, CallInv, Stage, Forgotten, Waits, Executes, Packs, RecordsOutput,
           RecordsError, Succeeded, HasFailed
  <1>2. Types' /\ wire'[c] = w
    BY DEF Inv, Types
  <1>3. \A d \in Calls \ {c} : Same(d)
    BY DEF Inv, Types, Same
  <1>4. Timed(c)'
    BY DEF Inv, CallInv, Timed
  <1> QED  BY <1>1, <1>2, <1>3, <1>4, Local DEF CallInv

\* A request of the kind is under way only in these states of the call.
LEMMA Asked ==
    ASSUME Inv, NEW c \in Calls
    PROVE  /\ wire[c].kind = "post" =>
                 /\ PostIsOut(c)
                 /\ \/ call[c].pc = "posting" /\ Nothing(c) /\ call[c].report = Blank
                    \/ call[c].pc = "ended" /\ call[c].result = "raised"
                          /\ call[c].why = "transport"
           /\ wire[c].kind = "status" =>
                 /\ StatusIsOut(c) /\ Known(c)
                 /\ call[c].pc = "polling" /\ Nothing(c) /\ call[c].report.status \notin Terminal
           /\ wire[c].kind = "output" =>
                 /\ OutputIsOut(c) /\ HasOutput(c)
                 /\ call[c].pc = "downloading" /\ Nothing(c)
  <1>1. Progress(c)
    BY CallTyped
  <1>2. NoneIsOut(c) => wire[c].kind = "none"
    BY NoRequestType DEF NoneIsOut
  <1>3. PostIsOut(c) => wire[c].kind = "post"
    BY DEF PostIsOut
  <1>4. StatusIsOut(c) => wire[c].kind = "status"
    BY DEF StatusIsOut
  <1>5. OutputIsOut(c) => wire[c].kind = "output"
    BY DEF OutputIsOut
  <1> QED  BY <1>1, <1>2, <1>3, <1>4, <1>5 DEF Progress, Ending

LEMMA Reassemble ==
    ASSUME NEW c \in Calls, UNCHANGED call
    PROVE  /\ /\ PostIsOut(c)'
              /\ \/ call[c].pc = "posting" /\ Nothing(c) /\ call[c].report = Blank
                 \/ call[c].pc = "ended" /\ call[c].result = "raised"
                       /\ call[c].why = "transport"
              => Progress(c)'
           /\ /\ StatusIsOut(c)' /\ Known(c)'
              /\ call[c].pc = "polling" /\ Nothing(c) /\ call[c].report.status \notin Terminal
              => Progress(c)'
           /\ /\ OutputIsOut(c)' /\ HasOutput(c)'
              /\ call[c].pc = "downloading" /\ Nothing(c)
              => Progress(c)'
  BY DEF Progress, Ending, Nothing, Terminal

LEMMA SubmitRunStep ==
    ASSUME Inv, NEW c \in Calls, SubmitRun(c), UNCHANGED call
    PROVE  Inv'
  <1> DEFINE w == Answered(wire[c], "ok")
             t == [task[c] EXCEPT !.pc = "waiting"]
  <1>1. wire[c].kind = "post" /\ wire[c].state = "sent" /\ Fresh(c) /\ PostIsOut(c)
    BY Asked DEF SubmitRun, Arrives, PostIsOut
  <1>2. wire' = [wire EXCEPT ![c] = w] /\ task' = [task EXCEPT ![c] = t]
        /\ registry' = [registry EXCEPT ![c] = NewRecord]
        /\ archive' = [archive EXCEPT ![c] = archive[c]] /\ UNCHANGED <<call, up, restarts>>
    BY RunTyped DEF SubmitRun
  <1>3. w \in RequestType /\ w.kind = "post" /\ w.state = "answered" /\ w.code = "ok"
        /\ w.left = <<>>
    BY <1>1, CallTyped DEF Answered, RequestType, PostIsOut
  <1>4. t \in TaskType /\ t = Task("waiting", "none", <<>>)
    BY <1>1 DEF Fresh, Forgotten, NoTask, Task, TaskType, Lefts
  <1>5. NewRecord \in JobRecord /\ NewRecord # Unknown
    BY DEF NewRecord, Unknown, JobRecord
  <1> HIDE DEF w, t
  <1>6. /\ wire'[c] = w /\ task'[c] = t /\ registry'[c] = NewRecord /\ archive'[c] = archive[c]
        /\ Stage(c)' /\ Progress(c)' => Inv'
    BY <1>2, <1>3, <1>4, <1>5, RunTyped, WorkerStep
  <1>7. Stage(c)'
    BY <1>1, <1>4, <1>6 DEF Stage, Waits, Fresh
  <1>8. PostIsOut(c)'
    BY <1>3, <1>5, <1>6 DEF PostIsOut, Known
  <1>9. Progress(c)'
    BY <1>1, <1>8, Asked, Reassemble
  <1> QED  BY <1>6, <1>7, <1>9

LEMMA RefuseRunStep ==
    ASSUME Inv, NEW c \in Calls, RefuseRun(c), UNCHANGED call
    PROVE  Inv'
  <1> DEFINE w == Answered(wire[c], "refused")
  <1>1. wire[c].kind = "post" /\ Fresh(c) /\ PostIsOut(c)
    BY Asked DEF RefuseRun, Arrives, PostIsOut
  <1>2. wire' = [wire EXCEPT ![c] = w]
        /\ UNCHANGED <<call, registry, task, archive, up, restarts>>
    BY DEF RefuseRun
  <1>3. w \in RequestType /\ w.kind = "post" /\ w.state = "answered" /\ w.code = "refused"
        /\ w.left = <<>>
    BY <1>1, CallTyped DEF Answered, RequestType, PostIsOut
  <1> HIDE DEF w
  <1>4. wire'[c] = w /\ (Progress(c)' => Inv')
    BY <1>2, <1>3, AnswerStep
  <1>5. PostIsOut(c)'
    BY <1>1, <1>2, <1>3, <1>4, ClientFrame DEF PostIsOut
  <1>6. Progress(c)'
    BY <1>1, <1>2, <1>5, Asked, Reassemble
  <1> QED  BY <1>4, <1>6

LEMMA GetRunStep ==
    ASSUME Inv, NEW c \in Calls, GetRun(c), UNCHANGED call
    PROVE  Inv'
  <1> DEFINE w == IF registry[c] = Unknown
                  THEN Answered(wire[c], "unknown")
                  ELSE [wire[c] EXCEPT !.state = "reading", !.left = ReportFields]
  <1>1. /\ wire[c].kind = "status" /\ StatusIsOut(c) /\ Known(c) /\ wire[c].left = <<>>
        /\ wire[c].code = "none" /\ wire[c].body = "none" /\ wire[c].report \in Report
    BY Asked DEF GetRun, Arrives, StatusIsOut
  <1>2. wire' = [wire EXCEPT ![c] = w]
        /\ UNCHANGED <<call, registry, task, archive, up, restarts>>
    BY DEF GetRun
  <1>3. /\ w \in RequestType /\ w.kind = "status" /\ w.body = "none" /\ w.report \in Report
        /\ IF registry[c] = Unknown
           THEN w.state = "answered" /\ w.code = "unknown" /\ w.left = <<>>
           ELSE w.state = "reading" /\ w.code = "none"
                /\ w.left = <<"status", "message", "wall_time_s">>
    BY <1>1, CallTyped DEF Answered, RequestType, ReportFields
  <1> HIDE DEF w
  <1>4. wire'[c] = w /\ (Progress(c)' => Inv')
    BY <1>2, <1>3, AnswerStep
  <1>5. registry[c] = Unknown => Forgotten(c) /\ restarts > 0
    BY <1>1, CallTyped DEF Known, Stage, Forgotten, Waits, Executes, Packs, RecordsOutput,
       RecordsError, Succeeded, HasFailed, Record, NewRecord, Unknown
  <1>6. StatusIsOut(c)'
    BY <1>2, <1>3, <1>4, <1>5, ClientFrame DEF StatusIsOut
  <1>7. Progress(c)'
    BY <1>1, <1>2, <1>6, Asked, Reassemble, ClientFrame
  <1> QED  BY <1>4, <1>7

\* What the fields of a record say of the run.
LEMMA RecordSays ==
    ASSUME Inv, NEW c \in Calls
    PROVE  /\ registry[c].status = "completed" => Succeeded(c)
           /\ registry[c].status = "failed" => IsLost(c)
           /\ Succeeded(c) => registry[c].wall_time_s = "set" /\ HasOutput(c)
  BY CallTyped DEF Stage, Forgotten, Waits, Executes, Packs, RecordsOutput, RecordsError,
     Succeeded, HasFailed, Record, NewRecord, Unknown, IsLost, HasOutput, Task, NoTask

LEMMA ReadFieldStep ==
    ASSUME Inv, NEW c \in Calls, ReadField(c), UNCHANGED call
    PROVE  Inv'
  <1> DEFINE q == wire[c]
  <1>1. q.state = "reading" /\ q \in RequestType
    BY CallTyped DEF ReadField
  <1>2. q.kind = "status"
    BY <1>1, CallTyped, NoRequestType
       DEF Progress, Ending, NoneIsOut, PostIsOut, StatusIsOut, OutputIsOut
  <1>3. /\ StatusIsOut(c) /\ q.body = "none" /\ q.report \in Report /\ q.code = "none"
        /\ registry[c] # Unknown
        /\ \/ q.left = <<"status", "message", "wall_time_s">>
           \/ /\ q.left \in {<<"message", "wall_time_s">>, <<"wall_time_s">>}
              /\ q.report.status = "completed" => Succeeded(c)
              /\ q.report.status = "failed" => IsLost(c)
    BY <1>1, <1>2, Asked DEF StatusIsOut
  <1>4. UNCHANGED <<call, registry, task, archive, up, restarts>>
    BY DEF ReadField
  <1>5. registry[c].status \in {"unknown", "queued", "running", "completed", "failed"}
        /\ registry[c].message \in {"empty", "set"}
        /\ registry[c].wall_time_s \in {"null", "set"}
    BY RunTyped DEF JobRecord
  <1>6. CASE q.left = <<"status", "message", "wall_time_s">>
    <2> DEFINE R == [q.report EXCEPT !.status = registry[c].status]
               w == [q EXCEPT !.report = R, !.left = <<"message", "wall_time_s">>]
    <2>0. /\ Head(q.left) = "status" /\ Tail(q.left) = <<"message", "wall_time_s">>
          /\ Tail(q.left) # <<>>
      BY <1>6, TailFacts
    <2>1. wire' = [wire EXCEPT ![c] = w]
      BY <2>0 DEF ReadField
    <2>2. R \in Report /\ R.status = registry[c].status
      BY <1>3, <1>5 DEF Report
    <2> HIDE DEF R
    <2>3. /\ w \in RequestType /\ w.kind = "status" /\ w.body = "none" /\ w.report = R
          /\ w.state = "reading" /\ w.code = "none" /\ w.left = <<"message", "wall_time_s">>
      BY <1>1, <1>2, <1>3, <2>2 DEF RequestType
    <2> HIDE DEF w
    <2>4. wire'[c] = w /\ (Progress(c)' => Inv')
      BY <1>4, <2>1, <2>3, AnswerStep
    <2>5. Succeeded(c)' = Succeeded(c) /\ IsLost(c)' = IsLost(c) /\ registry'[c] # Unknown
      BY <1>3, <1>4 DEF Succeeded, IsLost
    <2>6. StatusIsOut(c)'
      BY <2>2, <2>3, <2>4, <2>5, RecordSays DEF StatusIsOut
    <2>7. Progress(c)'
      BY <1>2, <1>4, <2>6, Asked, Reassemble, ClientFrame
    <2> QED  BY <2>4, <2>7
  <1>8. CASE q.left = <<"message", "wall_time_s">>
    <2> DEFINE R == [q.report EXCEPT !.message = registry[c].message]
               w == [q EXCEPT !.report = R, !.left = <<"wall_time_s">>]
    <2>0. Head(q.left) = "message" /\ Tail(q.left) = <<"wall_time_s">> /\ Tail(q.left) # <<>>
      BY <1>8, TailFacts
    <2>1. wire' = [wire EXCEPT ![c] = w]
      BY <2>0 DEF ReadField
    <2>2. R \in Report /\ R.status = q.report.status
      BY <1>3, <1>5 DEF Report
    <2>3. /\ R.status = "completed" => Succeeded(c)
          /\ R.status = "failed" => IsLost(c)
      BY <1>3, <1>8, <2>2
    <2> HIDE DEF R
    <2>4. /\ w \in RequestType /\ w.kind = "status" /\ w.body = "none" /\ w.report = R
          /\ w.state = "reading" /\ w.code = "none" /\ w.left = <<"wall_time_s">>
      BY <1>1, <1>2, <1>3, <2>2 DEF RequestType
    <2> HIDE DEF w
    <2>5. wire'[c] = w /\ (Progress(c)' => Inv')
      BY <1>4, <2>1, <2>4, AnswerStep
    <2>6. Succeeded(c)' = Succeeded(c) /\ IsLost(c)' = IsLost(c) /\ registry'[c] # Unknown
      BY <1>3, <1>4 DEF Succeeded, IsLost
    <2>7. StatusIsOut(c)'
      BY <2>2, <2>3, <2>4, <2>5, <2>6 DEF StatusIsOut
    <2>8. Progress(c)'
      BY <1>2, <1>4, <2>7, Asked, Reassemble, ClientFrame
    <2> QED  BY <2>5, <2>8
  <1>7. CASE q.left = <<"wall_time_s">>
    <2> DEFINE R == [q.report EXCEPT !.wall_time_s = registry[c].wall_time_s]
               w == [q EXCEPT !.report = R, !.left = <<>>, !.state = "answered", !.code = "ok"]
    <2>1. wire' = [wire EXCEPT ![c] = w]
      BY <1>7, TailFacts DEF ReadField, Answered
    <2>2. R \in Report /\ R.status = q.report.status /\ R.wall_time_s = registry[c].wall_time_s
      BY <1>3, <1>5 DEF Report
    <2>3. Holds(c, R)
      BY <1>3, <1>7, <2>2, RecordSays DEF Holds
    <2> HIDE DEF R
    <2>4. /\ w \in RequestType /\ w.kind = "status" /\ w.body = "none" /\ w.report = R
          /\ w.state = "answered" /\ w.code = "ok" /\ w.left = <<>>
      BY <1>1, <1>2, <1>3, <2>2 DEF RequestType
    <2> HIDE DEF w
    <2>5. wire'[c] = w /\ (Progress(c)' => Inv')
      BY <1>4, <2>1, <2>4, AnswerStep
    <2>6. Holds(c, w.report)
      BY <2>3, <2>4
    <2>7. /\ w.report.status = "completed" => HasOutput(c)' /\ w.report.wall_time_s = "set"
          /\ w.report.status = "failed" => IsLost(c)'
      BY <1>4, <2>6, ClientFrame DEF Holds
    <2>8. StatusIsOut(c)'
      BY <2>2, <2>4, <2>5, <2>7 DEF StatusIsOut, Holds
    <2>9. Progress(c)'
      BY <1>2, <1>4, <2>8, Asked, Reassemble, ClientFrame
    <2> QED  BY <2>5, <2>9
  <1> QED  BY <1>3, <1>6, <1>7, <1>8

LEMMA GetOutputStep ==
    ASSUME Inv, NEW c \in Calls, GetOutput(c), UNCHANGED call
    PROVE  Inv'
  <1> DEFINE job == registry[c]
             w == IF job = Unknown THEN Answered(wire[c], "unknown")
                  ELSE IF job.status # "completed" THEN Answered(wire[c], "conflict")
                  ELSE IF job.output_archive = "null" \/ archive[c] = "none"
                       THEN Answered(wire[c], "gone")
                  ELSE [Answered(wire[c], "ok") EXCEPT !.body = archive[c]]
  <1>1. wire[c].kind = "output" /\ OutputIsOut(c) /\ HasOutput(c) /\ wire[c].left = <<>>
    BY Asked DEF GetOutput, Arrives, OutputIsOut
  <1>2. wire' = [wire EXCEPT ![c] = w]
        /\ UNCHANGED <<call, registry, task, archive, up, restarts>>
    BY DEF GetOutput
  <1>3. /\ w \in RequestType /\ w.kind = "output" /\ w.left = <<>> /\ w.state = "answered"
        /\ \/ w.code = "ok" /\ w.body = "output"
           \/ w.code = "unknown" /\ Forgotten(c) /\ restarts > 0
    <2>1. CASE Succeeded(c)
      <3>1. job.status = "completed" /\ job.output_archive = "set" /\ archive[c] = "output"
            /\ job # Unknown
        BY <2>1 DEF Succeeded, Record, Unknown
      <3>2. w = [Answered(wire[c], "ok") EXCEPT !.body = archive[c]]
        BY <3>1
      <3> QED  BY <1>1, <3>1, <3>2, CallTyped DEF RequestType, Answered
    <2>2. CASE Forgotten(c) /\ restarts > 0
      <3>1. w = Answered(wire[c], "unknown")
        BY <2>2 DEF Forgotten
      <3>2. /\ Answered(wire[c], "unknown") \in RequestType
            /\ Answered(wire[c], "unknown").kind = wire[c].kind
            /\ Answered(wire[c], "unknown").left = wire[c].left
            /\ Answered(wire[c], "unknown").state = "answered"
            /\ Answered(wire[c], "unknown").code = "unknown"
        BY CallTyped DEF RequestType, Answered
      <3> HIDE DEF w
      <3> QED  BY <1>1, <2>2, <3>1, <3>2
    <2> QED  BY <1>1, <2>1, <2>2 DEF HasOutput
  <1> HIDE DEF w
  <1>4. wire'[c] = w /\ (Progress(c)' => Inv')
    BY <1>2, <1>3, AnswerStep
  <1>5. OutputIsOut(c)'
    BY <1>2, <1>3, <1>4, ClientFrame DEF OutputIsOut
  <1>6. Progress(c)'
    BY <1>1, <1>2, <1>5, Asked, Reassemble, ClientFrame
  <1> QED  BY <1>4, <1>6

-----------------------------------------------------------------------------
(* The steps of the background task.                                       *)

LEMMA StageOf ==
    ASSUME NEW c \in Calls, Stage(c)
    PROVE  /\ task[c].pc = "waiting" => Waits(c)
           /\ task[c].pc = "executing" => Executes(c)
           /\ task[c].pc = "packing" => Packs(c)
           /\ task[c].pc = "recording" => RecordsOutput(c) \/ RecordsError(c) \/ Succeeded(c)
           /\ task[c].pc \in {"waiting", "executing", "packing"} => ~Succeeded(c)
           /\ task[c].pc # "none" => task[c] # NoTask /\ registry[c] # Unknown
  BY DEF Stage, Forgotten, Waits, Executes, Packs, RecordsOutput, RecordsError, Succeeded,
     HasFailed, Task, NoTask, Record, NewRecord, Unknown

\* While the task is there, nobody holds anything final about the run but that it has
\* succeeded.
LEMMA TaskFrame ==
    ASSUME Inv, NEW c \in Calls, task[c] # NoTask, registry[c] # Unknown,
           registry'[c] # Unknown, IsLost(c) => IsLost(c)', Succeeded(c) => Succeeded(c)',
           UNCHANGED <<call, wire, up, restarts>>
    PROVE  Progress(c)'
  <1>1. ~Fresh(c) /\ ~Forgotten(c) /\ (HasOutput(c) => HasOutput(c)')
    BY DEF Fresh, Forgotten, HasOutput, Succeeded
  <1>8. OutputIsOut(c) => OutputIsOut(c)'
    BY <1>1 DEF OutputIsOut
  <1>2. Known(c)'
    BY DEF Known
  <1>3. NoneIsOut(c) => NoneIsOut(c)'
    BY DEF NoneIsOut
  <1>4. PostIsOut(c) => PostIsOut(c)'
    BY <1>1, <1>2 DEF PostIsOut
  <1>5. StatusIsOut(c) => StatusIsOut(c)'
    BY <1>1 DEF StatusIsOut, Holds
  <1>6. Progress(c)
    BY CallTyped
  <1>7. Ending(c) => Ending(c)'
    BY <1>1, <1>3, <1>4 DEF Ending
  <1> QED  BY <1>1, <1>2, <1>3, <1>4, <1>5, <1>6, <1>7, <1>8 DEF Progress, Nothing

\* A step of the task, to a record r and an archive a.
LEMMA TaskStep ==
    ASSUME Inv, NEW c \in Calls, NEW t \in TaskType, NEW r \in JobRecord,
           NEW a \in {"none", "partial", "output"}, task[c].pc # "none", r # Unknown,
           task' = [task EXCEPT ![c] = t], registry' = [registry EXCEPT ![c] = r],
           archive' = [archive EXCEPT ![c] = a], UNCHANGED <<call, wire, up, restarts>>,
           IsLost(c) => a # "output" /\ t.pc \in {"none", "recording"},
           Succeeded(c) => /\ t = NoTask /\ a = "output"
                           /\ r = Record("completed", "set", "set", "set")
    PROVE  /\ task'[c] = t /\ registry'[c] = r /\ archive'[c] = a
           /\ Stage(c)' => Inv'
  <1>1. wire' = [wire EXCEPT ![c] = wire[c]] /\ wire[c] \in RequestType
    BY CallTyped
  <1>2. /\ task'[c] = t /\ registry'[c] = r /\ archive'[c] = a
        /\ Stage(c)' /\ Progress(c)' => Inv'
    BY <1>1, WorkerStep
  <1>3. task[c] # NoTask /\ registry[c] # Unknown
    BY CallTyped, StageOf
  <1>4. IsLost(c) => IsLost(c)'
    BY <1>2 DEF IsLost
  <1>6. Succeeded(c) => Succeeded(c)'
    BY <1>2 DEF Succeeded
  <1>5. Progress(c)'
    BY <1>2, <1>3, <1>4, <1>6, TaskFrame
  <1> QED  BY <1>2, <1>5

LEMMA RecordTypes ==
    /\ Task("executing", "none", <<>>) \in TaskType
    /\ Task("packing", "output", <<>>) \in TaskType
    /\ NoTask \in TaskType
    /\ Recording("output") = Task("recording", "output",
                                  <<"output_archive", "wall_time_s", "status", "message">>)
    /\ Recording("error") = Task("recording", "error",
                                 <<"status", "message", "wall_time_s">>)
    /\ Recording("output") \in TaskType /\ Recording("error") \in TaskType
    /\ Record("running", "empty", "null", "null") \in JobRecord
    /\ Record("running", "empty", "null", "null") # Unknown
  BY DEF Task, TaskType, Lefts, NoTask, Recording, FinalFields, Record, JobRecord, Unknown

LEMMA TaskEdits ==
    /\ [Task("waiting", "none", <<>>) EXCEPT !.pc = "executing"] = Task("executing", "none", <<>>)
    /\ [NewRecord EXCEPT !.status = "running"] = Record("running", "empty", "null", "null")
    /\ [Task("executing", "none", <<>>) EXCEPT !.pc = "packing", !.outcome = "output"]
           = Task("packing", "output", <<>>)
  <1>1. [Task("waiting", "none", <<>>) EXCEPT !.pc = "executing"] = Task("executing", "none", <<>>)
    BY DEF Task
  <1>3. Unknown = Record("unknown", "empty", "null", "null")
    BY DEF Unknown, Record
  <1>4. [Record("unknown", "empty", "null", "null") EXCEPT !.status = "queued"]
           = Record("queued", "empty", "null", "null")
    BY DEF Record
  <1>5. NewRecord = Record("queued", "empty", "null", "null")
    BY <1>3, <1>4 DEF NewRecord
  <1>6. [Record("queued", "empty", "null", "null") EXCEPT !.status = "running"]
           = Record("running", "empty", "null", "null")
    BY DEF Record
  <1>2. [Task("executing", "none", <<>>) EXCEPT !.pc = "packing", !.outcome = "output"]
           = Task("packing", "output", <<>>)
    <2>1. [Task("executing", "none", <<>>) EXCEPT !.pc = "packing"]
             = Task("packing", "none", <<>>)
      BY DEF Task
    <2>2. [Task("packing", "none", <<>>) EXCEPT !.outcome = "output"]
             = Task("packing", "output", <<>>)
      BY DEF Task
    <2> QED  BY <2>1, <2>2, Zenon
  <1>7. [NewRecord EXCEPT !.status = "running"] = Record("running", "empty", "null", "null")
    BY <1>5, <1>6, Zenon
  <1> QED  BY <1>1, <1>2, <1>7

LEMMA StartTaskStep ==
    ASSUME Inv, NEW c \in Calls, StartTask(c), UNCHANGED call
    PROVE  Inv'
  <1> DEFINE t == [task[c] EXCEPT !.pc = "executing"]
             r == [registry[c] EXCEPT !.status = "running"]
  <1>1. task[c].pc = "waiting" /\ Waits(c)
    BY CallTyped, StageOf DEF StartTask
  <1>2. t = Task("executing", "none", <<>>) /\ r = Record("running", "empty", "null", "null")
    BY <1>1, TaskEdits DEF Waits
  <1>3. task' = [task EXCEPT ![c] = t] /\ registry' = [registry EXCEPT ![c] = r]
        /\ archive' = [archive EXCEPT ![c] = archive[c]] /\ UNCHANGED <<call, wire, up, restarts>>
    BY RunTyped DEF StartTask
  <1>4. ~IsLost(c) /\ ~Succeeded(c)
    BY <1>1, CallTyped, StageOf DEF IsLost
  <1> HIDE DEF t, r
  <1>5. /\ task'[c] = t /\ registry'[c] = r /\ archive'[c] = archive[c]
        /\ Stage(c)' => Inv'
    BY <1>1, <1>2, <1>3, <1>4, RunTyped, RecordTypes, TaskStep
  <1>6. Stage(c)'
    BY <1>1, <1>2, <1>5 DEF Stage, Executes, Waits
  <1> QED  BY <1>5, <1>6

LEMMA PalmEndsStep ==
    ASSUME Inv, NEW c \in Calls, PalmEnds(c), UNCHANGED call
    PROVE  Inv'
  <1>1. task[c].pc = "executing" /\ Executes(c)
    BY CallTyped, StageOf DEF PalmEnds
  <1>2. PICK o \in Outcomes :
            IF o = "error"
            THEN task' = [task EXCEPT ![c] = Recording("error")] /\ UNCHANGED archive
            ELSE /\ task' = [task EXCEPT ![c].pc = "packing", ![c].outcome = o]
                 /\ archive' = [archive EXCEPT ![c] = "partial"]
    BY DEF PalmEnds
  <1>3. o \in {"output", "error"}
    BY DEF Outcomes
  <1>4. registry' = [registry EXCEPT ![c] = registry[c]] /\ UNCHANGED <<call, wire, up, restarts>>
    BY RunTyped DEF PalmEnds
  <1>5. /\ ~IsLost(c) /\ ~Succeeded(c) /\ archive[c] = "none"
        /\ registry[c] = Record("running", "empty", "null", "null")
    BY <1>1, CallTyped, StageOf DEF IsLost, Executes
  <1>6. CASE o = "error"
    <2>1. task' = [task EXCEPT ![c] = Recording("error")]
          /\ archive' = [archive EXCEPT ![c] = archive[c]]
      BY <1>2, <1>6, RunTyped
    <2>2. /\ task'[c] = Recording("error") /\ registry'[c] = registry[c]
          /\ archive'[c] = archive[c] /\ (Stage(c)' => Inv')
      BY <1>1, <1>4, <1>5, <2>1, RunTyped, RecordTypes, TaskStep
    <2>3. RecordsError(c)'
      BY <1>5, <2>2, RecordTypes DEF RecordsError
    <2> QED  BY <2>2, <2>3 DEF Stage
  <1>7. CASE o = "output"
    <2> DEFINE t == [task[c] EXCEPT !.pc = "packing", !.outcome = "output"]
    <2>1. task' = [task EXCEPT ![c] = t] /\ archive' = [archive EXCEPT ![c] = "partial"]
      BY <1>2, <1>7
    <2>2. t = Task("packing", "output", <<>>)
      BY <1>1, TaskEdits DEF Executes
    <2> HIDE DEF t
    <2>3. /\ task'[c] = t /\ registry'[c] = registry[c]
          /\ archive'[c] = "partial" /\ (Stage(c)' => Inv')
      BY <1>1, <1>4, <1>5, <2>1, <2>2, RunTyped, RecordTypes, TaskStep
    <2>5. Packs(c)'
      BY <1>5, <2>2, <2>3 DEF Packs
    <2> QED  BY <2>3, <2>5 DEF Stage
  <1> QED  BY <1>3, <1>6, <1>7

LEMMA PackStep ==
    ASSUME Inv, NEW c \in Calls, Pack(c), UNCHANGED call
    PROVE  Inv'
  <1>1. task[c].pc = "packing" /\ Packs(c) /\ task[c].outcome = "output" /\ ~IsLost(c) /\ ~Succeeded(c)
        /\ registry[c] = Record("running", "empty", "null", "null")
    BY CallTyped, StageOf DEF Pack, Packs, Task, IsLost
  <1>2. /\ task' = [task EXCEPT ![c] = Recording("output")]
        /\ archive' = [archive EXCEPT ![c] = "output"]
        /\ registry' = [registry EXCEPT ![c] = registry[c]] /\ UNCHANGED <<call, wire, up, restarts>>
    BY <1>1, RunTyped DEF Pack
  <1>3. /\ task'[c] = Recording("output") /\ registry'[c] = registry[c]
        /\ archive'[c] = "output" /\ (Stage(c)' => Inv')
    BY <1>1, <1>2, RunTyped, RecordTypes, TaskStep
  <1>4. RecordsOutput(c)'
    BY <1>1, <1>3, RecordTypes DEF RecordsOutput
  <1> QED  BY <1>3, <1>4 DEF Stage

LEMMA PackFailsStep ==
    ASSUME Inv, NEW c \in Calls, PackFails(c), UNCHANGED call
    PROVE  Inv'
  <1>1. task[c].pc = "packing" /\ Packs(c) /\ ~IsLost(c) /\ ~Succeeded(c)
        /\ archive[c] = "partial"
        /\ registry[c] = Record("running", "empty", "null", "null")
    BY CallTyped, StageOf DEF PackFails, Packs, IsLost
  <1>2. /\ task' = [task EXCEPT ![c] = Recording("error")]
        /\ archive' = [archive EXCEPT ![c] = archive[c]]
        /\ registry' = [registry EXCEPT ![c] = registry[c]] /\ UNCHANGED <<call, wire, up, restarts>>
    BY RunTyped DEF PackFails
  <1>3. /\ task'[c] = Recording("error") /\ registry'[c] = registry[c]
        /\ archive'[c] = archive[c] /\ (Stage(c)' => Inv')
    BY <1>1, <1>2, RunTyped, RecordTypes, TaskStep
  <1>4. RecordsError(c)'
    BY <1>1, <1>3, RecordTypes DEF RecordsError
  <1> QED  BY <1>3, <1>4 DEF Stage

\* _run_job sets the fields of the record one by one.
LEMMA RecordMoves ==
    ASSUME Inv, NEW c \in Calls, RecordField(c), NEW o \in {"output", "error"},
           NEW l \in Lefts, NEW m \in Lefts, Tail(l) = m, task[c] = Task("recording", o, l)
    PROVE  /\ task' = [task EXCEPT ![c] = IF m = <<>> THEN NoTask ELSE Task("recording", o, m)]
           /\ Head(l) = "status" => registry' =
                 [registry EXCEPT ![c] = [registry[c] EXCEPT !.status = FinalRecord(o).status]]
           /\ Head(l) = "message" => registry' =
                 [registry EXCEPT ![c] = [registry[c] EXCEPT !.message = FinalRecord(o).message]]
           /\ Head(l) = "wall_time_s" => registry' =
                 [registry EXCEPT ![c] =
                     [registry[c] EXCEPT !.wall_time_s = FinalRecord(o).wall_time_s]]
           /\ Head(l) = "output_archive" => registry' =
                 [registry EXCEPT ![c] =
                     [registry[c] EXCEPT !.output_archive = FinalRecord(o).output_archive]]
  <1>1. task[c].outcome = o /\ task[c].left = l
    BY DEF Task
  <1>2. registry' = [registry EXCEPT ![c][Head(l)] = FinalRecord(o)[Head(l)]]
    BY <1>1 DEF RecordField
  <1>3. task' = [task EXCEPT ![c] = IF m = <<>> THEN NoTask ELSE [task[c] EXCEPT !.left = m]]
    BY <1>1 DEF RecordField
  <1>4. [task[c] EXCEPT !.left = m] = Task("recording", o, m)
    BY RunTyped DEF TaskType, Task
  <1>5. task' = [task EXCEPT ![c] = IF m = <<>> THEN NoTask ELSE Task("recording", o, m)]
    BY <1>3, <1>4
  <1> QED  BY <1>2, <1>5

LEMMA FinalValues ==
    /\ FinalRecord("output").message = "set" /\ FinalRecord("error").message = "set"
    /\ FinalRecord("output").status = "completed"
    /\ FinalRecord("output").wall_time_s = "set"
    /\ FinalRecord("output").output_archive = "set"
    /\ FinalRecord("error").status = "failed"
    /\ FinalRecord("error").wall_time_s = "set"
  BY DEF FinalRecord, Unknown

\* A step from the fields l to the fields m, with r the record after it.
LEMMA FieldStep ==
    ASSUME Inv, NEW c \in Calls, RecordField(c), UNCHANGED call,
           NEW o \in {"output", "error"}, NEW l \in Lefts, NEW m \in Lefts, Tail(l) = m,
           task[c] = Task("recording", o, l), NEW r \in JobRecord, r # Unknown,
           \/ /\ Head(l) = "status"
              /\ r = [registry[c] EXCEPT !.status = FinalRecord(o).status]
           \/ /\ Head(l) = "message"
              /\ r = [registry[c] EXCEPT !.message = FinalRecord(o).message]
           \/ /\ Head(l) = "wall_time_s"
              /\ r = [registry[c] EXCEPT !.wall_time_s = FinalRecord(o).wall_time_s]
           \/ /\ Head(l) = "output_archive"
              /\ r = [registry[c] EXCEPT !.output_archive = FinalRecord(o).output_archive],
           Succeeded(c) => m = <<>> /\ r = Record("completed", "set", "set", "set")
    PROVE  /\ task'[c] = IF m = <<>> THEN NoTask ELSE Task("recording", o, m)
           /\ registry'[c] = r /\ archive'[c] = archive[c]
           /\ Stage(c)' => Inv'
  <1> DEFINE t == IF m = <<>> THEN NoTask ELSE Task("recording", o, m)
  <1>1. task[c].pc = "recording"
    BY DEF Task
  <1>2. IsLost(c) => archive[c] # "output"
    BY DEF IsLost
  <1>3. archive' = [archive EXCEPT ![c] = archive[c]] /\ UNCHANGED <<call, wire, up, restarts>>
    BY RunTyped DEF RecordField
  <1>4. task' = [task EXCEPT ![c] = t] /\ registry' = [registry EXCEPT ![c] = r]
    BY RecordMoves
  <1>5. t \in TaskType /\ t.pc \in {"none", "recording"}
    BY DEF Task, NoTask, TaskType, Lefts
  <1>7. Succeeded(c) => t = NoTask /\ archive[c] = "output"
    BY DEF Succeeded
  <1> HIDE DEF t
  <1>6. task'[c] = t /\ registry'[c] = r /\ archive'[c] = archive[c] /\ (Stage(c)' => Inv')
    BY <1>1, <1>2, <1>3, <1>4, <1>5, <1>7, RunTyped, TaskStep
  <1> QED  BY <1>6 DEF t

LEMMA RecordFieldStep ==
    ASSUME Inv, NEW c \in Calls, RecordField(c), UNCHANGED call
    PROVE  Inv'
  <1> DEFINE Out4 == <<"output_archive", "wall_time_s", "status", "message">>
             Out3 == <<"wall_time_s", "status", "message">>
             Out2 == <<"status", "message">>
             Out1 == <<"message">>
             Err3 == <<"status", "message", "wall_time_s">>
             Err2 == <<"message", "wall_time_s">>
             Err1 == <<"wall_time_s">>
             Done == <<>>
             R0 == Record("running", "empty", "null", "null")
             R1 == Record("running", "empty", "null", "set")
             R2 == Record("running", "empty", "set", "set")
             R3 == Record("completed", "empty", "set", "set")
             R4 == Record("completed", "set", "set", "set")
             F1 == Record("failed", "empty", "null", "null")
             F2 == Record("failed", "set", "null", "null")
             F3 == Record("failed", "set", "set", "null")
  <1>1. RecordsOutput(c) \/ RecordsError(c) \/ Succeeded(c)
    BY CallTyped, StageOf DEF RecordField
  <1>2. /\ Out4 \in Lefts /\ Out3 \in Lefts /\ Out2 \in Lefts /\ Out1 \in Lefts
        /\ Err3 \in Lefts /\ Err2 \in Lefts /\ Err1 \in Lefts /\ Done \in Lefts
    BY DEF Lefts
  <1>3. /\ Out3 # Done /\ Out2 # Done /\ Out1 # Done /\ Err2 # Done /\ Err1 # Done
        /\ Head(Out4) = "output_archive" /\ Tail(Out4) = Out3
        /\ Head(Out3) = "wall_time_s" /\ Tail(Out3) = Out2
        /\ Head(Out2) = "status" /\ Tail(Out2) = Out1
        /\ Head(Out1) = "message" /\ Tail(Out1) = Done
        /\ Head(Err3) = "status" /\ Tail(Err3) = Err2
        /\ Head(Err2) = "message" /\ Tail(Err2) = Err1
        /\ Head(Err1) = "wall_time_s" /\ Tail(Err1) = Done
    BY TailFacts
  <1>4. /\ R1 = [R0 EXCEPT !.output_archive = "set"]
        /\ R2 = [R1 EXCEPT !.wall_time_s = "set"]
        /\ R3 = [R2 EXCEPT !.status = "completed"]
        /\ R4 = [R3 EXCEPT !.message = "set"]
        /\ F1 = [R0 EXCEPT !.status = "failed"]
        /\ F2 = [F1 EXCEPT !.message = "set"]
        /\ F3 = [F2 EXCEPT !.wall_time_s = "set"]
    BY DEF Record
  <1>5. \A r \in {R1, R2, R3, R4, F1, F2, F3} : r \in JobRecord /\ r # Unknown
    BY DEF Record, JobRecord, Unknown
  <1>6. ASSUME task[c].pc = "recording", task[c].left # <<"message">>
        PROVE  ~Succeeded(c)
    BY <1>6 DEF Succeeded, Task, NoTask
  <1>7. /\ Task("recording", "output", Out4).left # <<"message">>
        /\ Task("recording", "output", Out3).left # <<"message">>
        /\ Task("recording", "output", Out2).left # <<"message">>
        /\ Task("recording", "error", Err3).left # <<"message">>
        /\ Task("recording", "error", Err2).left # <<"message">>
        /\ Task("recording", "error", Err1).left # <<"message">>
    BY DEF Task
  <1>8. task[c].pc = "recording"
    BY DEF RecordField
  <1> HIDE DEF Out4, Out3, Out2, Out1, Err3, Err2, Err1, Done, R0, R1, R2, R3, R4, F1, F2, F3
  <1>9. CASE /\ archive[c] = "output"
              /\ task[c] = Task("recording", "output", Out4) /\ registry[c] = R0
    <2>1. ~Succeeded(c)
      BY <1>6, <1>7, <1>8, <1>9
    <2>2. R1 = [registry[c] EXCEPT !.output_archive = FinalRecord("output").output_archive]
      BY <1>4, <1>9, FinalValues
    <2>5. /\ Out4 \in Lefts /\ Out3 \in Lefts /\ Tail(Out4) = Out3 /\ Head(Out4) = "output_archive"
          /\ R1 \in JobRecord /\ R1 # Unknown
      BY <1>2, <1>3, <1>5
    <2>3. /\ task'[c] = IF Out3 = <<>> THEN NoTask ELSE Task("recording", "output", Out3)
          /\ registry'[c] = R1 /\ archive'[c] = archive[c] /\ (Stage(c)' => Inv')
      BY <1>9, <2>1, <2>2, <2>5, FieldStep
    <2>4. RecordsOutput(c)'
      BY <1>3, <1>9, <2>3 DEF RecordsOutput, Out3, R1, Done
    <2> QED  BY <2>3, <2>4 DEF Stage
  <1>10. CASE /\ archive[c] = "output"
              /\ task[c] = Task("recording", "output", Out3) /\ registry[c] = R1
    <2>1. ~Succeeded(c)
      BY <1>6, <1>7, <1>8, <1>10
    <2>2. R2 = [registry[c] EXCEPT !.wall_time_s = FinalRecord("output").wall_time_s]
      BY <1>4, <1>10, FinalValues
    <2>5. /\ Out3 \in Lefts /\ Out2 \in Lefts /\ Tail(Out3) = Out2 /\ Head(Out3) = "wall_time_s"
          /\ R2 \in JobRecord /\ R2 # Unknown
      BY <1>2, <1>3, <1>5
    <2>3. /\ task'[c] = IF Out2 = <<>> THEN NoTask ELSE Task("recording", "output", Out2)
          /\ registry'[c] = R2 /\ archive'[c] = archive[c] /\ (Stage(c)' => Inv')
      BY <1>10, <2>1, <2>2, <2>5, FieldStep
    <2>4. RecordsOutput(c)'
      BY <1>3, <1>10, <2>3 DEF RecordsOutput, Out2, R2, Done
    <2> QED  BY <2>3, <2>4 DEF Stage
  <1>11. CASE /\ archive[c] = "output"
              /\ task[c] = Task("recording", "output", Out2) /\ registry[c] = R2
    <2>1. ~Succeeded(c)
      BY <1>6, <1>7, <1>8, <1>11
    <2>2. R3 = [registry[c] EXCEPT !.status = FinalRecord("output").status]
      BY <1>4, <1>11, FinalValues
    <2>5. /\ Out2 \in Lefts /\ Out1 \in Lefts /\ Tail(Out2) = Out1 /\ Head(Out2) = "status"
          /\ R3 \in JobRecord /\ R3 # Unknown
      BY <1>2, <1>3, <1>5
    <2>3. /\ task'[c] = IF Out1 = <<>> THEN NoTask ELSE Task("recording", "output", Out1)
          /\ registry'[c] = R3 /\ archive'[c] = archive[c] /\ (Stage(c)' => Inv')
      BY <1>11, <2>1, <2>2, <2>5, FieldStep
    <2>4. Succeeded(c)'
      BY <1>3, <1>11, <2>3 DEF Succeeded, Out1, R3, Done
    <2> QED  BY <2>3, <2>4 DEF Stage
  <1>12. CASE /\ archive[c] = "output"
              /\ task[c] = Task("recording", "output", Out1) /\ registry[c] = R3
    <2>1. Succeeded(c) => Done = <<>> /\ R4 = Record("completed", "set", "set", "set")
      BY DEF Done, R4
    <2>2. R4 = [registry[c] EXCEPT !.message = FinalRecord("output").message]
      BY <1>4, <1>12, FinalValues
    <2>5. /\ Out1 \in Lefts /\ Done \in Lefts /\ Tail(Out1) = Done /\ Head(Out1) = "message"
          /\ R4 \in JobRecord /\ R4 # Unknown
      BY <1>2, <1>3, <1>5
    <2>3. /\ task'[c] = IF Done = <<>> THEN NoTask ELSE Task("recording", "output", Done)
          /\ registry'[c] = R4 /\ archive'[c] = archive[c] /\ (Stage(c)' => Inv')
      BY <1>12, <2>1, <2>2, <2>5, FieldStep
    <2>4. Succeeded(c)'
      BY <1>3, <1>12, <2>3 DEF Succeeded, Done, R4, Done
    <2> QED  BY <2>3, <2>4 DEF Stage
  <1>13. CASE /\ archive[c] \in {"none", "partial"}
              /\ task[c] = Task("recording", "error", Err3) /\ registry[c] = R0
    <2>1. ~Succeeded(c)
      BY <1>6, <1>7, <1>8, <1>13
    <2>2. F1 = [registry[c] EXCEPT !.status = FinalRecord("error").status]
      BY <1>4, <1>13, FinalValues
    <2>5. /\ Err3 \in Lefts /\ Err2 \in Lefts /\ Tail(Err3) = Err2 /\ Head(Err3) = "status"
          /\ F1 \in JobRecord /\ F1 # Unknown
      BY <1>2, <1>3, <1>5
    <2>3. /\ task'[c] = IF Err2 = <<>> THEN NoTask ELSE Task("recording", "error", Err2)
          /\ registry'[c] = F1 /\ archive'[c] = archive[c] /\ (Stage(c)' => Inv')
      BY <1>13, <2>1, <2>2, <2>5, FieldStep
    <2>4. RecordsError(c)'
      BY <1>3, <1>13, <2>3 DEF RecordsError, Err2, F1, Done
    <2> QED  BY <2>3, <2>4 DEF Stage
  <1>14. CASE /\ archive[c] \in {"none", "partial"}
              /\ task[c] = Task("recording", "error", Err2) /\ registry[c] = F1
    <2>1. ~Succeeded(c)
      BY <1>6, <1>7, <1>8, <1>14
    <2>2. F2 = [registry[c] EXCEPT !.message = FinalRecord("error").message]
      BY <1>4, <1>14, FinalValues
    <2>5. /\ Err2 \in Lefts /\ Err1 \in Lefts /\ Tail(Err2) = Err1 /\ Head(Err2) = "message"
          /\ F2 \in JobRecord /\ F2 # Unknown
      BY <1>2, <1>3, <1>5
    <2>3. /\ task'[c] = IF Err1 = <<>> THEN NoTask ELSE Task("recording", "error", Err1)
          /\ registry'[c] = F2 /\ archive'[c] = archive[c] /\ (Stage(c)' => Inv')
      BY <1>14, <2>1, <2>2, <2>5, FieldStep
    <2>4. RecordsError(c)'
      BY <1>3, <1>14, <2>3 DEF RecordsError, Err1, F2, Done
    <2> QED  BY <2>3, <2>4 DEF Stage
  <1>15. CASE /\ archive[c] \in {"none", "partial"}
              /\ task[c] = Task("recording", "error", Err1) /\ registry[c] = F2
    <2>1. ~Succeeded(c)
      BY <1>6, <1>7, <1>8, <1>15
    <2>2. F3 = [registry[c] EXCEPT !.wall_time_s = FinalRecord("error").wall_time_s]
      BY <1>4, <1>15, FinalValues
    <2>5. /\ Err1 \in Lefts /\ Done \in Lefts /\ Tail(Err1) = Done /\ Head(Err1) = "wall_time_s"
          /\ F3 \in JobRecord /\ F3 # Unknown
      BY <1>2, <1>3, <1>5
    <2>3. /\ task'[c] = IF Done = <<>> THEN NoTask ELSE Task("recording", "error", Done)
          /\ registry'[c] = F3 /\ archive'[c] = archive[c] /\ (Stage(c)' => Inv')
      BY <1>15, <2>1, <2>2, <2>5, FieldStep
    <2>4. HasFailed(c)'
      BY <1>3, <1>15, <2>3 DEF HasFailed, Done, F3, Done
    <2> QED  BY <2>3, <2>4 DEF Stage
  <1>16. CASE RecordsOutput(c)
    BY <1>16, <1>9, <1>10, <1>11 DEF RecordsOutput, Out4, Out3, Out2, R0, R1, R2
  <1>17. CASE RecordsError(c)
    BY <1>17, <1>13, <1>14, <1>15 DEF RecordsError, Err3, Err2, Err1, R0, F1, F2
  <1>18. CASE Succeeded(c)
    <2>1. task[c] # NoTask
      BY <1>8 DEF NoTask
    <2> QED  BY <1>18, <1>12, <2>1 DEF Succeeded, Out1, R3
  <1> QED  BY <1>1, <1>16, <1>17, <1>18

-----------------------------------------------------------------------------
(* A crash forgets every run: the archives stay, and the requests that     *)
(* nobody has answered break.                                              *)

LEMMA CrashFrame ==
    ASSUME Inv, NEW c \in Calls, Crash, UNCHANGED call
    PROVE  /\ call'[c] = call[c] /\ archive'[c] = archive[c]
           /\ registry'[c] = Unknown /\ task'[c] = NoTask /\ restarts' > 0
           /\ wire'[c].kind = wire[c].kind /\ wire'[c].left = wire[c].left
           /\ wire'[c].code = wire[c].code /\ wire'[c].report = wire[c].report
           /\ wire'[c].body = wire[c].body
           /\ wire'[c].state = IF wire[c].state \in {"sent", "reading"} THEN "broken"
                                                                       ELSE wire[c].state
           /\ wire[c].state \notin {"sent", "reading"} => wire'[c] = wire[c]
           /\ wire'[c] \in RequestType
  <1> DEFINE w == [wire[c] EXCEPT !.state = "broken"]
  <1>1. wire'[c] = IF wire[c].state \in {"sent", "reading"} THEN w ELSE wire[c]
    BY DEF Crash
  <1>2. /\ w.kind = wire[c].kind /\ w.left = wire[c].left /\ w.code = wire[c].code
        /\ w.report = wire[c].report /\ w.body = wire[c].body /\ w.state = "broken"
        /\ w \in RequestType
    BY CallTyped DEF RequestType
  <1> HIDE DEF w
  <1>3. /\ call'[c] = call[c] /\ archive'[c] = archive[c]
        /\ registry'[c] = Unknown /\ task'[c] = NoTask
    BY DEF Crash
  <1>4. restarts' > 0
    BY DEF Crash, Inv, Types
  <1> QED  BY <1>1, <1>2, <1>3, <1>4, CallTyped

LEMMA CrashCall ==
    ASSUME Inv, NEW c \in Calls, Crash, UNCHANGED call
    PROVE  CallInv(c)'
  <1>1. Forgotten(c)' /\ Known(c)' /\ restarts' > 0 /\ archive'[c] = archive[c]
        /\ call'[c] = call[c]
    BY CrashFrame DEF Forgotten, Known
  <1>2. Fresh(c) => Fresh(c)'
    BY <1>1 DEF Fresh
  <1>3. HasOutput(c) => HasOutput(c)'
    BY <1>1 DEF HasOutput
  <1>4. IsLost(c) => IsLost(c)'
    BY <1>1 DEF IsLost, Forgotten, NoTask
  <1>5. NoneIsOut(c) => NoneIsOut(c)'
    BY CrashFrame, NoRequestType DEF NoneIsOut
  <1>6. PostIsOut(c) => PostIsOut(c)'
    BY <1>1, <1>2, CrashFrame DEF PostIsOut
  <1>7. \A report : Holds(c, report) => Holds(c, report)'
    BY <1>3, <1>4 DEF Holds
  <1>8. StatusIsOut(c) => StatusIsOut(c)'
    BY <1>1, <1>7, CrashFrame DEF StatusIsOut
  <1>9. OutputIsOut(c) => OutputIsOut(c)'
    BY <1>1, CrashFrame DEF OutputIsOut
  <1>10. Ending(c) => Ending(c)'
    BY <1>1, <1>2, <1>3, <1>4, <1>5, <1>6 DEF Ending, Forgotten
  <1>11. Progress(c)'
    BY <1>1, <1>2, <1>3, <1>5, <1>6, <1>8, <1>9, <1>10, CallTyped DEF Progress, Nothing
  <1>12. Stage(c)'
    BY <1>1, RunTyped DEF Stage
  <1>13. Timed(c)'
    BY <1>1, CallTyped DEF Timed
  <1> QED  BY <1>11, <1>12, <1>13 DEF CallInv

LEMMA CrashStep ==
    ASSUME Inv, Crash, UNCHANGED call
    PROVE  Inv'
  <1>1. wire' \in [Calls -> RequestType]
    <2>1. wire' = [c \in Calls |-> wire'[c]]
      BY DEF Crash
    <2>2. \A c \in Calls : wire'[c] \in RequestType
      BY CrashFrame
    <2> QED  BY <2>1, <2>2
  <1>2. NoTask \in TaskType /\ Unknown \in JobRecord
    BY DEF NoTask, TaskType, Lefts, Unknown, JobRecord
  <1>3. task' \in [Calls -> TaskType] /\ registry' \in [Calls -> JobRecord]
    BY <1>2 DEF Crash
  <1>4. up' \in BOOLEAN /\ restarts' \in 0..MaxRestarts
    <2>1. restarts \in 0..MaxRestarts /\ restarts < MaxRestarts
      BY DEF Crash, Inv, Types
    <2>2. restarts' = restarts + 1 /\ up' = FALSE
      BY DEF Crash
    <2>3. restarts' \in 0..MaxRestarts
      BY <2>1, <2>2, PoolAssumption
    <2> QED  BY <2>2, <2>3
  <1>5. Types'
    BY <1>1, <1>3, <1>4 DEF Crash, Inv, Types
  <1> QED  BY <1>5, CrashCall DEF Inv

LEMMA BootStep ==
    ASSUME Inv, Boot, UNCHANGED call
    PROVE  Inv'
  <1>1. Types'
    BY DEF Boot, Inv, Types
  <1>2. \A c \in Calls : Same(c)
    BY DEF Boot, Same
  <1>3. restarts' = restarts
    BY DEF Boot
  <1> QED  BY <1>1, <1>2, <1>3, SameCall DEF Inv

-----------------------------------------------------------------------------

LEMMA InitInv == Init => Inv
  <1> SUFFICES ASSUME Init PROVE Inv
    OBVIOUS
  <1>1. NewCall \in CallType /\ NewCall.pc = "idle" /\ NewCall.result = "none"
        /\ NewCall.why = "none" /\ NewCall.report = Blank /\ Blank.status = "none"
    BY DEF NewCall, CallType, Report, Blank
  <1>2. NoTask \in TaskType /\ Unknown \in JobRecord
    BY DEF NoTask, TaskType, Lefts, Unknown, JobRecord
  <1>3. Types
    BY <1>1, <1>2, NoRequestType, PoolAssumption DEF Init, WorkerInit, Types
  <1>4. ASSUME NEW c \in Calls PROVE CallInv(c)
    <2>1. call[c] = NewCall /\ wire[c] = NoRequest /\ task[c] = NoTask
          /\ registry[c] = Unknown /\ archive[c] = "none"
      BY DEF Init, WorkerInit
    <2>2. Fresh(c) /\ NoneIsOut(c)
      BY <2>1 DEF Fresh, Forgotten, NoneIsOut
    <2> QED  BY <1>1, <2>1, <2>2 DEF CallInv, Stage, Fresh, Progress, Nothing, Timed
  <1> QED  BY <1>3, <1>4 DEF Inv

LEMMA NextInv == Inv /\ [Next]_vars => Inv'
  <1> SUFFICES ASSUME Inv, [Next]_vars PROVE Inv'
    OBVIOUS
  <1>1. ASSUME NEW c \in Calls, CallStep(c) PROVE Inv'
    BY <1>1, SubmitStep, InputsMissingStep, SubmittedStep, PollStep, DeadlinePassesStep,
       PolledStep, DownloadStep, DownloadedStep, RefusedStep, TransportErrorStep DEF CallStep
  <1>2. ASSUME NEW c \in Calls, UNCHANGED call,
               \/ SubmitRun(c) \/ RefuseRun(c) \/ GetRun(c) \/ ReadField(c) \/ GetOutput(c)
        PROVE  Inv'
    BY <1>2, SubmitRunStep, RefuseRunStep, GetRunStep, ReadFieldStep, GetOutputStep
  <1>3. ASSUME NEW c \in Calls, UNCHANGED call,
               \/ StartTask(c) \/ PalmEnds(c) \/ Pack(c) \/ PackFails(c) \/ RecordField(c)
        PROVE  Inv'
    BY <1>3, StartTaskStep, PalmEndsStep, PackStep, PackFailsStep, RecordFieldStep
  <1>4. CASE (Crash \/ Boot) /\ UNCHANGED call
    BY <1>4, CrashStep, BootStep
  <1>5. CASE UNCHANGED vars
    <2>1. Types' /\ \A c \in Calls : Same(c)
      BY <1>5 DEF vars, workerVars, Inv, Types, Same
    <2>2. restarts' = restarts
      BY <1>5 DEF vars, workerVars
    <2> QED  BY <2>1, <2>2, SameCall DEF Inv
  <1> QED  BY <1>1, <1>2, <1>3, <1>4, <1>5 DEF Next, WorkerNext

-----------------------------------------------------------------------------
(* The invariant implies the properties.                                   *)

LEMMA InvTyped == Inv => TypeOK
  <1> SUFFICES ASSUME Inv PROVE TypeOK
    OBVIOUS
  <1>1. ASSUME NEW c \in Calls
        PROVE  /\ call[c].pc \in {"idle", "posting", "polling", "downloading", "ended"}
               /\ call[c].result \in {"none", "completed", "failed", "raised"}
               /\ call[c].result = "none" <=> call[c].pc # "ended"
               /\ call[c].overdue \in BOOLEAN
               /\ wire[c].kind = "status" => call[c].pc = "polling"
               /\ wire[c].kind = "output" => call[c].pc = "downloading"
    <2>1. /\ call[c].pc \in {"idle", "posting", "polling", "downloading", "ended"}
          /\ call[c].result \in {"none", "completed", "failed", "raised"}
          /\ call[c].overdue \in BOOLEAN
      BY CallTyped DEF CallType
    <2>2. call[c].result = "none" <=> call[c].pc # "ended"
      BY CallTyped DEF Progress, Nothing, Ending
    <2>3. /\ wire[c].kind = "status" => call[c].pc = "polling"
          /\ wire[c].kind = "output" => call[c].pc = "downloading"
      BY CallTyped, NoRequestType DEF Progress, Ending, NoneIsOut, PostIsOut, StatusIsOut,
         OutputIsOut
    <2> QED  BY <2>1, <2>2, <2>3
  <1>2. ASSUME NEW c \in Calls
        PROVE  /\ task[c].pc \in {"none", "waiting", "executing", "packing", "recording"}
               /\ task[c].outcome \in {"none", "output", "error"}
               /\ task[c].left # <<>> <=> task[c].pc = "recording"
    <2>1. task[c] \in TaskType
      BY RunTyped
    <2>2. task[c].left # <<>> <=> task[c].pc = "recording"
      BY CallTyped DEF Stage, Forgotten, Waits, Executes, Packs, RecordsOutput, RecordsError,
         Succeeded, HasFailed, Task, NoTask
    <2> QED  BY <2>1, <2>2 DEF TaskType
  <1>3. ASSUME NEW c \in Calls
        PROVE  /\ wire[c].kind \in {"none", "post", "status", "output"}
               /\ wire[c].state \in {"none", "sent", "reading", "answered", "broken"}
               /\ wire[c].code \in {"none", "ok", "refused", "unknown", "conflict", "gone"}
               /\ wire[c].left # <<>> => wire[c].kind = "status"
    <2>1. wire[c] \in RequestType
      BY CallTyped
    <2>2. wire[c].left # <<>> => wire[c].kind = "status"
      BY CallTyped DEF Progress, Ending, NoneIsOut, PostIsOut, StatusIsOut, OutputIsOut, NoRequest
    <2> QED  BY <2>1, <2>2 DEF RequestType
  <1> QED  BY <1>1, <1>2, <1>3 DEF TypeOK, WorkerTypeOK, Inv, Types

LEMMA InvProperties ==
    Inv => /\ CompletedHoldsOutput /\ CompletedReportIsTimed /\ ReportedRunIsServed
           /\ FailureIsJustified /\ WorkIsWanted
  <1> SUFFICES ASSUME Inv, NEW c \in Calls
               PROVE  /\ call[c].result = "completed" => archive[c] = "output"
                      /\ call[c].why # "unpacking"
                      /\ call[c].report.status = "completed"
                            => call[c].report.wall_time_s = "set"
                      /\ call[c].why \in {"polling", "downloading"} => restarts > 0
                      /\ call[c].why = "deadline" => call[c].report.status \notin Terminal
                      /\ call[c].why = "run" => archive[c] # "output"
                      /\ task[c].pc \in {"waiting", "executing", "packing"}
                            => \/ call[c].pc \in {"posting", "polling"}
                               \/ call[c].why \in {"deadline", "transport"}
    BY DEF CompletedHoldsOutput, CompletedReportIsTimed, ReportedRunIsServed,
           FailureIsJustified, WorkIsWanted
  <1>1. Progress(c) /\ Timed(c)
    BY CallTyped
  <1>2. call[c].result = "completed" => archive[c] = "output"
    BY <1>1 DEF Progress, Nothing, Ending, HasOutput
  <1>3. call[c].why # "unpacking" /\ (call[c].why \in {"polling", "downloading"} => restarts > 0)
    BY <1>1 DEF Progress, Nothing, Ending
  <1>4. /\ call[c].why = "deadline" => call[c].report.status \notin Terminal
        /\ call[c].why = "run" => archive[c] # "output"
    BY <1>1 DEF Progress, Nothing, Ending, IsLost
  <1>5. task[c].pc \in {"waiting", "executing", "packing"}
           => call[c].pc \in {"posting", "polling"} \/ call[c].why \in {"deadline", "transport"}
    <2>1. NoTask.pc = "none"
      BY DEF NoTask
    <2>2. Fresh(c) \/ HasOutput(c) \/ IsLost(c) \/ task[c] = NoTask
             => task[c].pc \notin {"waiting", "executing", "packing"}
      BY <2>1 DEF Fresh, Forgotten, HasOutput, Succeeded, IsLost, Task
    <2> QED  BY <1>1, <2>2 DEF Progress, Ending
  <1> QED  BY <1>1, <1>2, <1>3, <1>4, <1>5 DEF Timed

-----------------------------------------------------------------------------
(* The theorems.                                                           *)

\* In every reachable state the run, its record, its archive, the request under way and
\* the call of run_palm are at stages that belong together.
THEOREM Invariance == Spec => []Inv
  BY InitInv, NextInv, PTL DEF Spec

\* The client's and the Linux worker's variables keep their types, and a status or output
\* request is under way only while the call waits for it.
THEOREM Typing == Spec => []TypeOK
  BY Invariance, InvTyped, PTL

\* A call that returns COMPLETED holds the finished output of its own run: no archive is
\* downloaded while _run_job still writes it, however reads and writes interleave.
THEOREM OutputIsFinished == Spec => []CompletedHoldsOutput
  BY Invariance, InvProperties, PTL

\* A report that says completed carries the run's wall time, although get_run reads the
\* record field by field while _run_job writes it (its message may still be missing).
THEOREM ReportIsTimed == Spec => []CompletedReportIsTimed
  BY Invariance, InvProperties, PTL

\* A poll or a download is refused only after the Linux worker has restarted.
THEOREM RunIsServed == Spec => []ReportedRunIsServed
  BY Invariance, InvProperties, PTL

\* The client gives up at its deadline only on a run that it last saw unfinished, and
\* reports a failed run only when the run left no finished output.
THEOREM FailuresAreJustified == Spec => []FailureIsJustified
  BY Invariance, InvProperties, PTL

\* PALM works only for a call that still waits, or that its deadline or a broken
\* connection ended.
THEOREM NoUnwantedWork == Spec => []WorkIsWanted
  BY Invariance, InvProperties, PTL

=============================================================================
