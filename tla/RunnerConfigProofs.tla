------------------------- MODULE RunnerConfigProofs -------------------------
(***************************************************************************)
(* Theorems of RunnerConfig, for any number of admins, calls of run_palm,  *)
(* payloads and environments.                                              *)
(***************************************************************************)
EXTENDS RunnerConfig, TLAPS

\* The configuration that a row and the environment resolve to is one that a row can hold.
LEMMA MergeType ==
    ASSUME NEW e \in Envs, NEW row \in Row
    PROVE  Merge(row, e) \in Row /\ Merge(row, e).mode \in ValidModes
  BY EnvsAssumption DEF Merge, Or, Row, ValidModes

LEMMA FirstRowType ==
    ASSUME NEW table \in Seq(Row)
    PROVE  FirstRow(table) \in Row
  <1>1. Empty \in Row
    BY DEF Empty, Row
  <1>2. CASE table = <<>>
    BY <1>1, <1>2 DEF FirstRow
  <1>3. CASE table # <<>>
    BY <1>3 DEF FirstRow
  <1> QED  BY <1>2, <1>3

LEMMA FlushType ==
    ASSUME NEW row \in Row, NEW old \in Row, NEW new \in Row
    PROVE  Flush(row, old, new) \in Row
  BY DEF Flush, Row

\* What a flush writes over the row that the session loaded is what the body says.
LEMMA FlushOfLoaded ==
    ASSUME NEW row \in Row, NEW new \in Row
    PROVE  Flush(row, row, new) = new
  BY DEF Flush, Row

\* The type invariant, with the environment fixed.
TypeInv == TypeOK /\ env \in Envs

LEMMA ReadableType == TypeInv => Readable \subseteq Row /\ Empty \in Row
  <1> SUFFICES ASSUME TypeInv PROVE Readable \subseteq Row /\ Empty \in Row
    OBVIOUS
  <1>1. Empty \in Row
    BY DEF Empty, Row
  <1>2. FirstRow(rows) \in Row
    BY FirstRowType DEF TypeInv, TypeOK
  <1> QED  BY <1>1, <1>2, MergeType DEF TypeInv, Readable, InForce

LEMMA TypeInit == Init => TypeInv
  <1> SUFFICES ASSUME Init PROVE TypeInv
    OBVIOUS
  <1>1. Empty \in Row
    BY DEF Empty, Row
  <1>2. rows \in Seq(Row) /\ Len(rows) = 0
    BY DEF Init
  <1> QED  BY <1>1, <1>2, BoundAssumption DEF TypeInv, TypeOK, Init, NoSave, NoRun

LEMMA WrittenType ==
    ASSUME TypeInv, NEW a \in Admins
    PROVE  /\ Written(save[a]) \in Seq(Row)
           /\ Len(Written(save[a])) >= Len(rows)
           /\ Len(Written(save[a])) = Len(rows) + (IF save[a].id = 0 THEN 1 ELSE 0)
  <1> DEFINE s == save[a]
  <1>1. /\ s.id \in {0, 1} /\ s.id <= Len(rows) /\ s.old \in Row /\ s.new \in Row
        /\ rows \in Seq(Row) /\ Len(rows) \in Nat
    BY DEF TypeInv, TypeOK
  <1>2. CASE s.id = 0
    BY <1>1, <1>2 DEF Written
  <1>3. CASE s.id # 0
    <2>1. s.id \in 1..Len(rows) /\ rows[s.id] \in Row
      BY <1>1, <1>3
    <2>2. Flush(rows[s.id], s.old, s.new) \in Row
      BY <1>1, <2>1, FlushType
    <2> QED  BY <1>1, <1>3, <2>1, <2>2 DEF Written
  <1> QED  BY <1>2, <1>3

RunType == [pc : {"idle", "resolved", "done", "raised", "posted"},
            stub : StubFlags \cup {None}, mode : ValidModes \cup {None},
            read : Row, target : Row]

LEMMA TypeStep == TypeInv /\ [Next]_vars => TypeInv'
  <1> SUFFICES ASSUME TypeInv, [Next]_vars PROVE TypeInv'
    OBVIOUS
  <1> USE DEF TypeInv, TypeOK
  <1>0. Empty \in Row /\ Readable \subseteq Row /\ Len(rows) \in Nat
    BY ReadableType
  <1>1. ASSUME NEW a \in Admins, NEW p \in Payloads, Fetch(a, p) PROVE TypeInv'
    <2>1. p \in Row /\ FirstRow(rows) \in Row
      BY PayloadsAssumption, FirstRowType
    <2>2. rows # <<>> => Len(rows) >= 1
      BY <1>0
    <2>3. saves' \in 0..MaxSaves
      BY <1>1, BoundAssumption DEF Fetch
    <2>4. save' \in [Admins -> [pc : {"idle", "fetched"}, id : {0, 1}, old : Row,
                                new : Row, alone : BOOLEAN]]
      BY <1>1, <2>1, ZenonT(60) DEF Fetch
    <2>5. \A b \in Admins : save'[b].id <= Len(rows)
      BY <1>1, <2>2, <1>0 DEF Fetch
    <2> QED  BY <1>1, <2>3, <2>4, <2>5 DEF Fetch
  <1>2. ASSUME NEW a \in Admins, Commit(a) PROVE TypeInv'
    <2>1. rows' \in Seq(Row) /\ Len(rows') >= Len(rows) /\ Len(rows') \in Nat
      BY <1>2, WrittenType DEF Commit
    <2>2. \A b \in Admins : save'[b].id <= Len(rows')
      BY <1>2, <2>1, <1>0 DEF Commit, NoSave
    <2> QED  BY <1>0, <1>2, <2>1, <2>2 DEF Commit, NoSave
  <1>3. ASSUME NEW a \in Admins, Rollback(a) PROVE TypeInv'
    <2>1. save' \in [Admins -> [pc : {"idle", "fetched"}, id : {0, 1}, old : Row,
                                new : Row, alone : BOOLEAN]]
      BY <1>0, <1>3 DEF Rollback, NoSave
    <2>2. \A b \in Admins : save'[b].id <= Len(rows)
      BY <1>0, <1>3 DEF Rollback, NoSave
    <2> QED  BY <1>3, <2>1, <2>2 DEF Rollback
  <1>4. ASSUME NEW r \in Runs, NEW stub \in StubFlags, NEW c \in Readable,
               Resolve(r, stub, c)
        PROVE  TypeInv'
    <2>1. c \in Row /\ c.mode \in ValidModes \cup {None}
      BY <1>0 DEF Row
    <2>2. EffectiveMode(stub, c) \in ValidModes \cup {None}
      BY <2>1 DEF EffectiveMode, ValidModes
    <2> DEFINE k == [run[r] EXCEPT
                        !.pc = IF EffectiveMode(stub, c) = "remote" THEN "resolved"
                                                                   ELSE "done",
                        !.stub = stub, !.read = c, !.mode = EffectiveMode(stub, c)]
    <2>3. run \in [Runs -> RunType] /\ run[r] \in RunType
      BY DEF RunType
    <2>4. k \in RunType
      BY <2>1, <2>2, <2>3 DEF RunType
    <2>5. run' = [run EXCEPT ![r] = k]
      BY <1>4, <2>3 DEF Resolve
    <2> HIDE DEF k
    <2>6. run' \in [Runs -> RunType]
      BY <2>3, <2>4, <2>5
    <2> QED  BY <1>0, <1>4, <2>6 DEF Resolve, RunType
  <1>5. ASSUME NEW r \in Runs, NEW c \in Readable, Dispatch(r, c) PROVE TypeInv'
    <2>1. c \in Row
      BY <1>0
    <2>2. run \in [Runs -> RunType] /\ run[r] \in RunType
      BY DEF RunType
    <2> DEFINE k == IF c.url = None \/ c.token = None
                    THEN [run[r] EXCEPT !.pc = "raised"]
                    ELSE [run[r] EXCEPT !.pc = "posted", !.target = c]
    <2>3. k \in RunType
      BY <2>1, <2>2 DEF RunType
    <2>4. run' = [run EXCEPT ![r] = k]
      BY <1>5, <2>2 DEF Dispatch
    <2> HIDE DEF k
    <2>5. run' \in [Runs -> RunType]
      BY <2>2, <2>3, <2>4
    <2> QED  BY <1>0, <1>5, <2>5 DEF Dispatch, RunType
  <1>6. ASSUME NEW r \in Runs, Return(r) PROVE TypeInv'
    BY <1>0, <1>6 DEF Return, NoRun
  <1>7. CASE UNCHANGED vars
    BY <1>7 DEF vars
  <1> QED  BY <1>1, <1>2, <1>3, <1>4, <1>5, <1>6, <1>7 DEF Next

\* The table and the sessions hold what they should for every number of admins.
THEOREM ConfigTypeCorrect == Spec => []TypeOK
  <1>1. Spec => []TypeInv
    BY TypeInit, TypeStep, PTL DEF Spec
  <1> QED  BY <1>1, PTL DEF TypeInv

-----------------------------------------------------------------------------

\* A save that overlaps no other still has the row that it read before it, and two
\* saves that overlap know of each other.
AloneSeesTable ==
    \A a \in Admins : Saving(a) /\ save[a].alone =>
        /\ save[a].old = FirstRow(rows)
        /\ save[a].id = 0 <=> rows = <<>>
        /\ \A b \in Admins \ {a} : ~Saving(b)

LEMMA AloneInit == Init => AloneSeesTable
  BY DEF Init, AloneSeesTable, Saving, NoSave

LEMMA AloneStep == TypeInv /\ AloneSeesTable /\ [Next]_vars => AloneSeesTable'
  <1> SUFFICES ASSUME TypeInv, AloneSeesTable, [Next]_vars PROVE AloneSeesTable'
    OBVIOUS
  <1> USE DEF AloneSeesTable, Saving
  <1>0. save \in [Admins -> [pc : {"idle", "fetched"}, id : {0, 1}, old : Row, new : Row,
                            alone : BOOLEAN]]
    BY DEF TypeInv, TypeOK
  <1>1. ASSUME NEW a \in Admins, NEW p \in Payloads, Fetch(a, p) PROVE AloneSeesTable'
    <2> DEFINE others == {b \in Admins \ {a} : Saving(b)}
    <2>a. save'[a] = [pc |-> "fetched", id |-> IF rows = <<>> THEN 0 ELSE 1,
                      old |-> FirstRow(rows), new |-> p, alone |-> others = {}]
      BY <1>1 DEF Fetch
    <2>b. save'[a].alone <=> others = {}
      <3>1. save'[a].alone = (others = {})
        BY <2>a
      <3>2. save'[a].alone \in BOOLEAN
        BY <3>1
      <3> QED  BY <3>1, <3>2
    <2>1. /\ save'[a].old = FirstRow(rows)
          /\ save'[a].id = 0 <=> rows = <<>>
          /\ save'[a].alone <=> \A b \in Admins \ {a} : ~Saving(b)
      <3>1. others = {} <=> \A b \in Admins \ {a} : ~Saving(b)
        OBVIOUS
      <3>2. save'[a].old = FirstRow(rows) /\ (save'[a].id = 0 <=> rows = <<>>)
        BY <2>a
      <3> QED  BY <2>b, <3>1, <3>2
    <2>2. \A b \in Admins \ {a} : save'[b].pc = save[b].pc
      BY <1>0, <1>1 DEF Fetch
    <2>3. \A b \in Admins \ {a} : save'[b].pc = "fetched" => ~save'[b].alone
      BY <1>0, <1>1 DEF Fetch
    <2>4. rows' = rows
      BY <1>1 DEF Fetch
    <2> QED  BY <2>1, <2>2, <2>3, <2>4 DEF FirstRow
  <1>2. ASSUME NEW a \in Admins, Commit(a) PROVE AloneSeesTable'
    <2>1. \A b \in Admins \ {a} : save'[b] = save[b] /\ ~(save[b].pc = "fetched" /\ save[b].alone)
      BY <1>0, <1>2 DEF Commit
    <2>2. save'[a].pc = "idle"
      BY <1>0, <1>2 DEF Commit, NoSave
    <2> QED  BY <2>1, <2>2
  <1>3. ASSUME NEW a \in Admins, Rollback(a) PROVE AloneSeesTable'
    BY <1>0, <1>3 DEF Rollback, NoSave, FirstRow
  <1>4. ASSUME NEW r \in Runs, NEW stub \in StubFlags, NEW c \in Readable,
               Resolve(r, stub, c)
        PROVE  AloneSeesTable'
    BY <1>4 DEF Resolve, FirstRow
  <1>5. ASSUME NEW r \in Runs, NEW c \in Readable, Dispatch(r, c) PROVE AloneSeesTable'
    BY <1>5 DEF Dispatch, FirstRow
  <1>6. ASSUME NEW r \in Runs, Return(r) PROVE AloneSeesTable'
    BY <1>6 DEF Return, FirstRow
  <1>7. CASE UNCHANGED vars
    BY <1>7 DEF vars, FirstRow
  <1> QED  BY <1>1, <1>2, <1>3, <1>4, <1>5, <1>6, <1>7 DEF Next

\* A commit of a save that was alone leaves the body as the first row of the table.
LEMMA AloneCommit ==
    ASSUME TypeInv, AloneSeesTable, NEW a \in Admins, Commit(a), save[a].alone
    PROVE  FirstRow(rows') = save[a].new
  <1> DEFINE s == save[a]
  <1>1. /\ s.id \in {0, 1} /\ s.id <= Len(rows) /\ s.old \in Row /\ s.new \in Row
        /\ rows \in Seq(Row) /\ rows' = Written(s)
    BY DEF TypeInv, TypeOK, Commit
  <1>2. s.old = FirstRow(rows) /\ (s.id = 0 <=> rows = <<>>)
    BY DEF AloneSeesTable, Commit
  <1>3. CASE s.id = 0
    <2>1. rows' = <<s.new>>
      BY <1>1, <1>2, <1>3 DEF Written
    <2> QED  BY <2>1 DEF FirstRow
  <1>4. CASE s.id = 1
    <2>1. rows # <<>> /\ Len(rows) >= 1 /\ s.old = rows[1] /\ rows[1] \in Row
      BY <1>1, <1>2, <1>4 DEF FirstRow
    <2>2. Flush(rows[1], s.old, s.new) = s.new
      BY <1>1, <2>1, FlushOfLoaded
    <2>3. rows' = [rows EXCEPT ![1] = s.new]
      BY <1>1, <1>4, <2>2 DEF Written
    <2>4. rows' # <<>> /\ rows'[1] = s.new
      BY <1>1, <2>1, <2>3
    <2> QED  BY <2>4 DEF FirstRow
  <1> QED  BY <1>1, <1>3, <1>4

\* A save that overlaps no other takes effect, whatever races came before it.
THEOREM QuietSavesTakeEffect == Spec => QuietSaveTakesEffect
  <1> DEFINE Quiet == \A a \in Admins :
                  Saving(a) /\ save[a].alone /\ rows' # rows
                  => Merge(FirstRow(rows'), env) = Merge(save[a].new, env)
  <1>1. TypeInv /\ AloneSeesTable /\ [Next]_vars => [Quiet]_vars
    <2> SUFFICES ASSUME TypeInv, AloneSeesTable, Next,
                        NEW a \in Admins, Saving(a), save[a].alone, rows' # rows
                 PROVE  Merge(FirstRow(rows'), env) = Merge(save[a].new, env)
      OBVIOUS
    <2>1. PICK b \in Admins : Commit(b)
      BY DEF Next, Fetch, Rollback, Resolve, Dispatch, Return
    <2>2. b = a
      BY <2>1 DEF AloneSeesTable, Commit
    <2> QED  BY <2>1, <2>2, AloneCommit
  <1>2. Spec => [](TypeInv /\ AloneSeesTable)
    BY TypeInit, TypeStep, AloneInit, AloneStep, PTL DEF Spec
  <1> QED  BY <1>1, <1>2, PTL DEF Spec, QuietSaveTakesEffect

-----------------------------------------------------------------------------

\* What is in force is remembered, and so is what a run was posted with.
TargetInv ==
    /\ InForce \in inForce
    /\ PostedTargetWasInForce

LEMMA TargetInit == Init => TargetInv
  BY DEF Init, TargetInv, PostedTargetWasInForce, InForce, FirstRow, NoRun

LEMMA TargetStep == TypeInv /\ TargetInv /\ [Next]_vars => TargetInv'
  <1> SUFFICES ASSUME TypeInv, TargetInv, [Next]_vars PROVE TargetInv'
    OBVIOUS
  <1> USE DEF TargetInv, PostedTargetWasInForce
  <1>0. run \in [Runs -> RunType]
    BY DEF TypeInv, TypeOK, RunType
  <1>1. ASSUME NEW a \in Admins, NEW p \in Payloads, Fetch(a, p) PROVE TargetInv'
    BY <1>1 DEF Fetch, InForce
  <1>2. ASSUME NEW a \in Admins, Commit(a) PROVE TargetInv'
    BY <1>2 DEF Commit, InForce
  <1>3. ASSUME NEW a \in Admins, Rollback(a) PROVE TargetInv'
    BY <1>3 DEF Rollback, InForce
  <1>4. ASSUME NEW r \in Runs, NEW stub \in StubFlags, NEW c \in Readable,
               Resolve(r, stub, c)
        PROVE  TargetInv'
    <2>1. run'[r].pc # "posted" /\ \A q \in Runs \ {r} : run'[q] = run[q]
      BY <1>0, <1>4 DEF Resolve, RunType
    <2> QED  BY <1>4, <2>1 DEF Resolve, InForce
  <1>5. ASSUME NEW r \in Runs, NEW c \in Readable, Dispatch(r, c) PROVE TargetInv'
    <2>1. \A q \in Runs \ {r} : run'[q] = run[q]
      BY <1>0, <1>5 DEF Dispatch, RunType
    <2>2. run'[r].pc = "posted" => run'[r].target = c /\ c.url # None /\ c.token # None
      BY <1>0, <1>5 DEF Dispatch, RunType
    <2>3. c \in inForce \cup {Merge(Empty, env)}
      BY DEF Readable
    <2> QED  BY <1>5, <2>1, <2>2, <2>3 DEF Dispatch, InForce
  <1>6. ASSUME NEW r \in Runs, Return(r) PROVE TargetInv'
    <2>1. run'[r].pc # "posted" /\ \A q \in Runs \ {r} : run'[q] = run[q]
      BY <1>0, <1>6 DEF Return, NoRun
    <2> QED  BY <1>6, <2>1 DEF Return, InForce
  <1>7. CASE UNCHANGED vars
    BY <1>7 DEF vars, InForce
  <1> QED  BY <1>1, <1>2, <1>3, <1>4, <1>5, <1>6, <1>7 DEF Next

\* The URL and the token of a posted run were in force together at one moment, however
\* saves and failed readings interleave with the call.
THEOREM PostedTargetsWereInForce == Spec => []PostedTargetWasInForce
  <1>1. Spec => [](TypeInv /\ TargetInv)
    BY TypeInit, TypeStep, TargetInit, TargetStep, PTL DEF Spec
  <1> QED  BY <1>1, PTL DEF TargetInv

=============================================================================
