---------------------------- MODULE HarnessProofs ---------------------------
(***************************************************************************)
(* Proofs about Harness for every number of operations and every choice of *)
(* what may go wrong.                                                      *)
(***************************************************************************)
EXTENDS Harness, SequenceTheorems, TLAPS

(***************************************************************************)
(* The inductive invariant: what is known at each call of Run.  While      *)
(* nothing has gone wrong, the one savepoint there is is that of the       *)
(* operation under way and keeps the rows it found.                        *)
(***************************************************************************)
Failures == {operationErrors[i] : i \in 1 .. Len(operationErrors)}

TypeOK ==
    /\ conn \in {"up", "lost"} /\ block \in {"idle", "active", "failed"}
    /\ closed \in BOOLEAN /\ cancelled \in BOOLEAN
    /\ pc \in {"begin", "savepoint", "operate", "undo", "release", "rollback", "returned"}
    /\ n \in 1 .. N + 1
    /\ operationErrors \in Seq(Nat)

\* The server notices that a connection is gone and rolls back.
Ended == conn = "lost" => block = "idle"

\* The error of a savepoint call is the only one there is.
SavepointFailed == err \in {{"undo"}, {"release"}}

Whole == err = {} /\ conn = "up" /\ ~closed /\ durable = {}

BeforeBegin ==
    pc = "begin" => /\ Whole /\ block = "idle" /\ n = 1 /\ rows = {} /\ DOMAIN marks = {}
                    /\ operationErrors = << >>

BetweenOperations ==
    pc = "savepoint" => Whole /\ block = "active" /\ n <= N /\ DOMAIN marks = {}

InOperation ==
    pc = "operate" => Whole /\ block = "active" /\ n <= N /\ DOMAIN marks = {n} /\ rows = marks[n]

\* Failures of operations that are over, and of this one once it is.
Recorded ==
    /\ pc \in {"begin", "savepoint", "operate"} => n \notin Failures
    /\ pc = "undo" => n \in Failures
    /\ \A f \in Failures : f <= n

AfterOperation ==
    pc \in {"undo", "release"} =>
        /\ err = {} /\ n <= N
        /\ ~Spoiled => /\ Whole /\ DOMAIN marks = {n} /\ rows \in {marks[n], marks[n] \cup {n}}
                       /\ pc = "release" /\ n \in Failures => rows = marks[n]

InTheEnd ==
    /\ pc = "rollback" /\ err = {} => Whole /\ block = "active" /\ n = N + 1 /\ DOMAIN marks = {}
    /\ pc = "rollback" /\ closed => SavepointFailed
    /\ pc = "returned" /\ block # "idle" => closed /\ SavepointFailed
    /\ pc = "returned" /\ err = {} => conn = "up" /\ durable = {} /\ rows = {} /\ n = N + 1

IInv == /\ TypeOK /\ Ended /\ BeforeBegin /\ BetweenOperations /\ InOperation
        /\ Recorded /\ AfterOperation /\ InTheEnd

-----------------------------------------------------------------------------
(***************************************************************************)
(* Each call keeps the invariant.  Types and the end of a transaction on   *)
(* the server first, then what is known at the call that follows.          *)
(***************************************************************************)
Control == /\ BeforeBegin /\ BetweenOperations /\ InOperation
           /\ Recorded /\ AfterOperation /\ InTheEnd

LEMMA InitEstablishes == Init => IInv
<1> SUFFICES ASSUME Init PROVE IInv
  OBVIOUS
<1> USE NAssumption DEF Init, SessionInit, NoMarks
<1>1. operationErrors \in Seq(Nat) /\ Len(operationErrors) = 0
  BY EmptySeq
<1>2. Failures = {}
  BY <1>1 DEF Failures
<1>3. closed \in BOOLEAN /\ cancelled \in BOOLEAN
  BY Zenon
<1>4. TypeOK
  BY <1>1, <1>3 DEF TypeOK
<1>5. DOMAIN marks = {}
  OBVIOUS
<1>6. QED
  BY <1>2, <1>4, <1>5 DEF IInv, Ended, Whole, BeforeBegin, BetweenOperations, InOperation,
                          Recorded, AfterOperation, InTheEnd

LEMMA BeginKeeps == ASSUME IInv, Begin PROVE IInv'
<1> USE NAssumption DEF IInv, Begin
<1>1. TypeOK' /\ Ended' /\ Failures' = Failures
  <2>1. Failures' = Failures
    BY DEF Failures
  <2>2. closed' \in BOOLEAN /\ cancelled' \in BOOLEAN
    BY DEF TypeOK, BeginBlock, Breaks, Drop
  <2>3. TypeOK'
    BY <2>2 DEF TypeOK, BeginBlock, Breaks, Drop
  <2>4. Ended'
    BY DEF Ended, Works, BeginBlock, Breaks, Drop
  <2>5. QED
    BY <2>1, <2>3, <2>4
<1>2. Control'
  BY <1>1 DEF TypeOK, Control, BeforeBegin, BetweenOperations, InOperation, Recorded,
              AfterOperation, InTheEnd, Whole, Works, BeginBlock, Breaks, Drop
<1>3. QED
  BY <1>1, <1>2 DEF Control

LEMMA SavepointKeeps == ASSUME IInv, Savepoint PROVE IInv'
<1> USE NAssumption DEF IInv, Savepoint
<1>1. TypeOK' /\ Ended' /\ Failures' = Failures
  <2>1. Failures' = Failures
    BY DEF Failures, GiveUp
  <2>2. closed' \in BOOLEAN /\ cancelled' \in BOOLEAN
    BY DEF TypeOK, Mark, Breaks, Unsent, Drop, session
  <2>3. TypeOK'
    BY <2>2 DEF TypeOK, Mark, Breaks, Unsent, Drop, GiveUp, session
  <2>4. Ended'
    BY DEF Ended, Works, Mark, Breaks, Unsent, Drop, session
  <2>5. QED
    BY <2>1, <2>3, <2>4
<1>2. Control'
  BY <1>1 DEF TypeOK, Control, BeforeBegin, BetweenOperations, InOperation, Recorded,
              AfterOperation, InTheEnd, Whole, Works, Mark, Breaks, Unsent, Drop, GiveUp, session
<1>3. QED
  BY <1>1, <1>2 DEF Control

\* What an operation does to the transaction, and that n is recorded if it fails.
LEMMA OperateRecords ==
    ASSUME TypeOK, pc = "operate", Operate
    PROVE  /\ TypeOK'
           /\ \/ pc' = "undo" /\ Failures' = Failures \cup {n}
              \/ pc' = "release" /\ Failures' = Failures
<1>1. /\ operationErrors' \in Seq(Nat)
      /\ \/ pc' = "undo" /\ Failures' = Failures \cup {n}
         \/ pc' = "release" /\ Failures' = Failures
  <2>1. CASE pc' = "undo" /\ operationErrors' = Append(operationErrors, n)
    <3>1. /\ operationErrors' \in Seq(Nat) /\ Len(operationErrors') = Len(operationErrors) + 1
          /\ operationErrors'[Len(operationErrors) + 1] = n /\ Len(operationErrors) \in Nat
          /\ \A i \in 1 .. Len(operationErrors) : operationErrors'[i] = operationErrors[i]
      BY <2>1, NAssumption, AppendProperties DEF TypeOK
    <3>2. Failures' = Failures \cup {n}
      BY <3>1 DEF Failures
    <3>3. QED
      BY <2>1, <3>1, <3>2
  <2>2. CASE pc' = "release" /\ UNCHANGED operationErrors
    BY <2>2 DEF TypeOK, Failures
  <2>3. QED
    BY <2>1, <2>2 DEF Operate
<1>2. n' = n
  BY DEF Operate
<1>3. /\ conn' \in {"up", "lost"} /\ block' \in {"idle", "active", "failed"}
      /\ closed' \in BOOLEAN /\ cancelled' \in BOOLEAN
  BY DEF TypeOK, Operate, Work, End, Restart, EndAndBreak, EndBlock, Breaks, Unsent, Drop, session
<1>4. QED
  BY <1>1, <1>2, <1>3 DEF TypeOK

\* The rows are as they were or hold the operation's own, or it has ended the
\* transaction, lost the connection, or begun another that has no savepoint.
LEMMA OperateKeeps == ASSUME IInv, Operate PROVE IInv'
<1> USE NAssumption DEF IInv
<1>1. pc = "operate" /\ UNCHANGED <<n, err>>
  BY DEF Operate
<1>2. /\ TypeOK'
      /\ \/ pc' = "undo" /\ Failures' = Failures \cup {n}
         \/ pc' = "release" /\ Failures' = Failures
  BY <1>1, OperateRecords
<1>3. Recorded'
  BY <1>1, <1>2 DEF Recorded, TypeOK
<1>4. /\ Ended'
      /\ ~Spoiled' => /\ conn' = "up" /\ ~closed' /\ durable' = {} /\ DOMAIN marks' = {n}
                      /\ rows' \in {marks'[n], marks'[n] \cup {n}}
  <2> USE <1>1 DEF InOperation, Whole
  <2>1. CASE Work
    BY <2>1 DEF Work, Ended
  <2>2. CASE End
    BY <1>2, <2>2 DEF End, EndBlock, Ended, Spoiled
  <2>3. CASE Restart
    BY <1>2, <2>3 DEF Restart, NoMarks, Ended, Spoiled
  <2>4. CASE EndAndBreak
    BY <2>4 DEF EndAndBreak, Ended, Spoiled
  <2>5. CASE Breaks
    BY <2>5 DEF Breaks, Drop, Ended, Spoiled
  <2>6. CASE Unsent
    BY <2>6 DEF Unsent, session, Ended
  <2>7. QED
    BY <2>1, <2>2, <2>3, <2>4, <2>5, <2>6 DEF Operate
<1>5. AfterOperation'
  <2>1. ~Spoiled' /\ pc' = "release" /\ n' \in Failures' => rows' = marks'[n']
    BY <1>1, <1>2 DEF Recorded
  <2>2. QED
    BY <1>1, <1>4, <2>1 DEF AfterOperation, InOperation, Whole
<1>6. BeforeBegin' /\ BetweenOperations' /\ InOperation' /\ InTheEnd'
  BY <1>2 DEF BeforeBegin, BetweenOperations, InOperation, InTheEnd
<1>7. QED
  BY <1>2, <1>3, <1>4, <1>5, <1>6

\* A call that does not get its way gives up with its error.
LEMMA FailsKeeps ==
    ASSUME IInv, NEW acceptable, NEW call \in {"undo", "release"}, pc \in {"undo", "release"},
           Fails(call, acceptable)
    PROVE  IInv' /\ Spoiled'
<1> USE DEF IInv, Fails, GiveUp
<1>1. Failures' = Failures
  BY DEF Failures
<1>2. closed' \in BOOLEAN /\ cancelled' \in BOOLEAN
  BY DEF TypeOK, Reject, Breaks, Unsent, Drop, session
<1>3. TypeOK' /\ Ended'
  BY <1>2 DEF TypeOK, Ended, Reject, Breaks, Unsent, Drop, session
<1>4. pc' = "rollback" /\ err' = {call} /\ n' = n
  BY DEF AfterOperation
<1>5. Control' /\ Spoiled'
  BY <1>1, <1>4 DEF Control, BeforeBegin, BetweenOperations, InOperation, Recorded,
                    AfterOperation, InTheEnd, SavepointFailed, Spoiled
<1>6. QED
  BY <1>3, <1>5 DEF Control

LEMMA UndoKeeps == ASSUME IInv, Undo PROVE IInv'
<1>1. CASE Works /\ BackTo(n) /\ pc' = "release" /\ UNCHANGED <<cancelled, n, operationErrors, err>>
  <2> USE <1>1 DEF IInv, BackTo, Undo
  <2>1. ~Spoiled
    BY DEF Works, Spoiled, AfterOperation
  <2>2. TypeOK' /\ Ended' /\ Failures' = Failures
    <3>1. closed' \in BOOLEAN /\ cancelled' \in BOOLEAN
      BY DEF TypeOK
    <3>2. QED
      BY <3>1 DEF TypeOK, Ended, Works, Failures
  <2>3. DOMAIN marks' = {n} /\ rows' = marks'[n]
    BY <2>1 DEF AfterOperation, TypeOK
  <2>4. Control'
    BY <2>1, <2>2, <2>3 DEF Control, BeforeBegin, BetweenOperations, InOperation, Recorded,
                            AfterOperation, InTheEnd, Whole
  <2>5. QED
    BY <2>2, <2>4 DEF Control
<1>2. CASE Fails("undo", block # "idle" /\ n \in DOMAIN marks)
  BY <1>2, FailsKeeps DEF Undo
<1>3. QED
  BY <1>1, <1>2 DEF Undo

LEMMA ReleaseKeeps == ASSUME IInv, Release PROVE IInv'
<1>1. CASE /\ Works /\ Forget(n) /\ n' = n + 1 /\ pc' = NextOperation
           /\ UNCHANGED <<cancelled, operationErrors, err>>
  <2> USE <1>1, NAssumption DEF IInv, Forget, Release, NextOperation
  <2>1. ~Spoiled
    BY DEF Works, Spoiled, AfterOperation
  <2>2. TypeOK' /\ Ended' /\ Failures' = Failures
    <3>1. closed' \in BOOLEAN /\ cancelled' \in BOOLEAN
      BY DEF TypeOK
    <3>2. QED
      BY <2>1, <3>1 DEF TypeOK, Ended, Failures, AfterOperation
  <2>3. DOMAIN marks' = {}
    BY <2>1 DEF AfterOperation, TypeOK
  <2>4. BeforeBegin' /\ BetweenOperations' /\ InOperation' /\ AfterOperation'
    BY <2>1, <2>3 DEF BeforeBegin, BetweenOperations, InOperation, AfterOperation, Whole, TypeOK
  <2>5. Recorded'
    <3>1. \A f \in Failures : f \in Nat /\ f <= n
      BY DEF Recorded, Failures, TypeOK
    <3>2. QED
      BY <2>2, <3>1 DEF Recorded, TypeOK
  <2>6. InTheEnd'
    BY <2>1, <2>3 DEF InTheEnd, AfterOperation, Whole, TypeOK
  <2>7. QED
    BY <2>2, <2>4, <2>5, <2>6
<1>2. CASE Fails("release", block = "active" /\ n \in DOMAIN marks)
  BY <1>2, FailsKeeps DEF Release
<1>3. QED
  BY <1>1, <1>2 DEF Release

LEMMA RollbackKeeps == ASSUME IInv, Rollback PROVE IInv'
<1> USE DEF IInv, Rollback
<1>1. Failures' = Failures
  BY DEF Failures
<1>2. closed' \in BOOLEAN /\ cancelled' \in BOOLEAN
  BY DEF TypeOK, EndBlock, Breaks, Drop, session
<1>3. TypeOK' /\ Ended'
  BY <1>2 DEF TypeOK, Ended, EndBlock, Breaks, Drop, session
<1>4. InTheEnd'
  BY DEF InTheEnd, SavepointFailed, Ended, EndBlock, Whole, Works, Breaks, Drop, session
<1>5. Control'
  BY <1>1, <1>4 DEF Control, BeforeBegin, BetweenOperations, InOperation, Recorded, AfterOperation
<1>6. QED
  BY <1>3, <1>5 DEF Control

LEMMA CancelKeeps == ASSUME IInv, Cancel PROVE IInv'
<1> USE DEF IInv, Cancel, session
<1>1. closed' \in BOOLEAN /\ cancelled' \in BOOLEAN
  BY DEF TypeOK
<1>2. TypeOK' /\ Ended' /\ Failures' = Failures
  BY <1>1 DEF TypeOK, Ended, Failures
<1>3. Control'
  BY <1>2 DEF Control, BeforeBegin, BetweenOperations, InOperation, Recorded, AfterOperation,
              InTheEnd, SavepointFailed, Whole, Spoiled
<1>4. QED
  BY <1>2, <1>3 DEF Control

LEMMA StutterKeeps == ASSUME IInv, UNCHANGED vars PROVE IInv'
BY DEF vars, session, IInv, TypeOK, Ended, BeforeBegin, BetweenOperations, InOperation, Recorded,
       AfterOperation, InTheEnd, SavepointFailed, Whole, Spoiled, Failures

LEMMA StepKeeps == IInv /\ [Next]_vars => IInv'
BY BeginKeeps, SavepointKeeps, OperateKeeps, UndoKeeps, ReleaseKeeps, RollbackKeeps, CancelKeeps,
   StutterKeeps DEF Next, Step, Returned

-----------------------------------------------------------------------------
\* What is known at each call of Run holds of every run: which savepoint there
\* is and what it keeps, that the deferred rollback finds a closed transaction
\* only after a savepoint call failed, and that otherwise no block is left open
\* (harness.go:20-45).
THEOREM InvariantHolds == Spec => []IInv
  BY InitEstablishes, StepKeeps, PTL DEF Spec

\* For every number of operations and whatever they do: an answer without an
\* error means that each had its turn and that nothing of them is left
\* (harness.go:14-45).
THEOREM CleanReturnHolds == Spec => []CleanReturn
<1>1. IInv => CleanReturn
  BY DEF IInv, InTheEnd, SavepointFailed, CleanReturn
<1>2. QED
  BY <1>1, InvariantHolds, PTL

\* For every number of operations and whatever they do: a connection that was
\* given up is reported, and one that is still inside a transaction block is one
\* whose pgx.Tx an operation closed, and comes with the error of the savepoint call
\* (harness.go:22-27, 33).
THEOREM LeftOpenIsReportedHolds == Spec => []LeftOpenIsReported
<1>1. IInv => LeftOpenIsReported
  BY DEF IInv, InTheEnd, SavepointFailed, LeftOpenIsReported
<1>2. QED
  BY <1>1, InvariantHolds, PTL

-----------------------------------------------------------------------------
(***************************************************************************)
(* Run implements Batch.  The batch sees the answers to the calls and, in  *)
(* "effects", the rows the savepoint under way would go back to; most      *)
(* calls are steps it does not see.                                        *)
(***************************************************************************)
Failed  == Failures \cap 1 .. n - 1
Standing == IF n \in DOMAIN marks THEN marks[n] ELSE rows
Effects == IF BatchState = "ok" THEN rows
           ELSE IF BatchState # "open" THEN {}
           ELSE Standing

\* The batch's variables are these.
LEMMA Mapping ==
    /\ (UNCHANGED B!batch) <=> UNCHANGED <<n - 1, Failed, Effects, BatchState>>
    /\ B!Init <=> n - 1 = 0 /\ Failed = {} /\ Effects = {} /\ BatchState = "open"
    /\ B!Succeed <=> /\ BatchState = "open" /\ n - 1 < N /\ n' - 1 = n - 1 + 1
                     /\ Effects' \in {Effects, Effects \cup {n - 1 + 1}}
                     /\ Failed' = Failed /\ BatchState' = BatchState
    /\ B!Fail <=> /\ BatchState = "open" /\ n - 1 < N /\ n' - 1 = n - 1 + 1
                  /\ Failed' = Failed \cup {n - 1 + 1}
                  /\ Effects' = Effects /\ BatchState' = BatchState
    /\ B!Spoil <=> /\ BatchState = "open" /\ BatchState' = "spoiled" /\ Effects' = {}
                   /\ n' - 1 = n - 1 /\ Failed' = Failed
    /\ B!Answer <=> /\ \/ BatchState = "open" /\ n - 1 = N /\ BatchState' = "ok"
                       \/ BatchState \in {"open", "spoiled"} /\ BatchState' = "error"
                    /\ Effects' = {} /\ n' - 1 = n - 1 /\ Failed' = Failed
BY DEF B!batch, B!Init, B!Succeed, B!Fail, B!Spoil, B!Answer, Failed, Failures, Standing, Effects

BatchStep == B!Next \/ UNCHANGED B!batch

\* A call after which the same operation is under way, and that is not the last:
\* the batch sees nothing, or that it is spoiled.
LEMMA WithinOperation ==
    ASSUME UNCHANGED n, Failed' = Failed, pc # "returned", pc' # "returned",
           Spoiled => Spoiled',
           ~Spoiled /\ ~Spoiled' => Standing' = Standing
    PROVE  BatchStep
<1>1. CASE Spoiled
  <2>1. BatchState = "spoiled" /\ BatchState' = "spoiled"
    BY <1>1 DEF BatchState
  <2>2. QED
    BY <2>1, Mapping DEF BatchStep, Effects
<1>2. CASE ~Spoiled /\ Spoiled'
  <2>1. BatchState = "open" /\ BatchState' = "spoiled"
    BY <1>2 DEF BatchState
  <2>2. QED
    BY <2>1, Mapping DEF BatchStep, Effects, B!Next
<1>3. CASE ~Spoiled /\ ~Spoiled'
  <2>1. BatchState = "open" /\ BatchState' = "open"
    BY <1>3 DEF BatchState
  <2>2. QED
    BY <1>3, <2>1, Mapping DEF BatchStep, Effects
<1>4. QED
  BY <1>1, <1>2, <1>3

LEMMA InitRefines == Init => B!Init
<1> SUFFICES ASSUME Init PROVE B!Init
  OBVIOUS
<1> USE DEF Init, SessionInit, NoMarks
<1>1. Failed = {} /\ n - 1 = 0
  BY DEF Failed
<1>2. BatchState = "open"
  BY DEF BatchState, Spoiled
<1>3. Effects = {}
  BY <1>2 DEF Effects, Standing
<1>4. QED
  BY <1>1, <1>2, <1>3, Mapping

LEMMA BeginRefines == ASSUME IInv, Begin PROVE BatchStep
<1> USE DEF IInv, Begin
<1>1. UNCHANGED n /\ Failed' = Failed
  BY DEF Failed, Failures
<1>2. ~Spoiled /\ BatchState = "open"
  BY DEF BeforeBegin, Whole, Spoiled, BatchState
<1>3. CASE Works /\ BeginBlock /\ UNCHANGED <<cancelled, err>> /\ pc' # "returned"
  BY <1>1, <1>2, <1>3, WithinOperation DEF BeginBlock, Standing
<1>4. CASE err' = {"begin"} /\ pc' = "returned"
  <2>1. BatchState' = "error"
    BY <1>4 DEF BatchState
  <2>2. QED
    BY <1>1, <1>2, <2>1, Mapping DEF BatchStep, Effects, B!Next
<1>5. QED
  BY <1>3, <1>4

LEMMA SavepointRefines == ASSUME IInv, Savepoint PROVE BatchStep
<1> USE DEF IInv, Savepoint
<1>1. UNCHANGED n /\ Failed' = Failed
  BY DEF Failed, Failures, GiveUp
<1>2. CASE Works /\ Mark(n) /\ pc' = "operate"
  <2>1. Standing' = Standing
    BY <1>1, <1>2 DEF Mark, Standing, BetweenOperations
  <2>2. QED
    BY <1>1, <1>2, <2>1, WithinOperation DEF Spoiled, BetweenOperations, Whole
<1>3. CASE GiveUp("savepoint")
  <2>1. Spoiled' /\ pc' # "returned"
    BY <1>3 DEF GiveUp, Spoiled
  <2>2. QED
    BY <1>1, <2>1, WithinOperation
<1>4. QED
  BY <1>2, <1>3

\* What the operation did is behind its savepoint, and so is its error.
LEMMA OperateRefines == ASSUME IInv, Operate PROVE BatchStep
<1>1. pc = "operate" /\ UNCHANGED n
  BY DEF Operate
<1>2. /\ pc' \in {"undo", "release"}
      /\ Failures' \in {Failures, Failures \cup {n}}
  BY <1>1, OperateRecords DEF IInv
<1>3. Failed' = Failed
  BY <1>1, <1>2 DEF Failed, IInv, TypeOK
<1>4. ~Spoiled
  BY <1>1 DEF IInv, InOperation, Whole, Spoiled
<1>5. ASSUME ~Spoiled' PROVE Standing' = Standing
  <2> USE <1>1, <1>2, <1>5 DEF IInv, InOperation, Whole, Standing
  <2>1. CASE Work
    BY <2>1 DEF Work
  <2>2. CASE End
    BY <2>2 DEF End, EndBlock, Spoiled
  <2>3. CASE Restart
    BY <2>3 DEF Restart, NoMarks, Spoiled
  <2>4. CASE EndAndBreak
    BY <2>4 DEF EndAndBreak, Spoiled
  <2>5. CASE Breaks
    BY <2>5 DEF Breaks, Drop, Spoiled
  <2>6. CASE Unsent
    BY <2>6 DEF Unsent, session
  <2>7. QED
    BY <2>1, <2>2, <2>3, <2>4, <2>5, <2>6 DEF Operate
<1>6. QED
  BY <1>1, <1>2, <1>3, <1>4, <1>5, WithinOperation

LEMMA FailsRefines ==
    ASSUME IInv, NEW acceptable, NEW call \in {"undo", "release"}, pc \in {"undo", "release"},
           Fails(call, acceptable)
    PROVE  BatchStep
<1>1. UNCHANGED n /\ pc' = "rollback" /\ Failed' = Failed
  BY DEF Fails, GiveUp, Failed, Failures
<1>2. Spoiled'
  BY FailsKeeps
<1>3. QED
  BY <1>1, <1>2, WithinOperation

LEMMA UndoRefines == ASSUME IInv, Undo PROVE BatchStep
<1>1. CASE Works /\ BackTo(n) /\ pc' = "release" /\ UNCHANGED <<cancelled, n, operationErrors, err>>
  <2>1. pc = "undo" /\ ~Spoiled
    BY <1>1 DEF Undo, BackTo, Works, Spoiled, IInv, AfterOperation
  <2>2. Standing' = Standing
    BY <1>1, <2>1 DEF BackTo, Standing, IInv, TypeOK
  <2>3. Failed' = Failed
    BY <1>1 DEF Failed, Failures
  <2>4. QED
    BY <1>1, <2>1, <2>2, <2>3, WithinOperation
<1>2. CASE Fails("undo", block # "idle" /\ n \in DOMAIN marks)
  BY <1>2, FailsRefines DEF Undo
<1>3. QED
  BY <1>1, <1>2 DEF Undo

\* The operation is over: with its rows if it did not fail, without if it did.
LEMMA ReleaseRefines == ASSUME IInv, Release PROVE BatchStep
<1>1. CASE /\ Works /\ Forget(n) /\ n' = n + 1 /\ pc' = NextOperation
           /\ UNCHANGED <<cancelled, operationErrors, err>>
  <2>1. pc = "release" /\ ~Spoiled /\ n \in 1 .. N /\ N \in Nat /\ DOMAIN marks = {n}
    BY <1>1, NAssumption DEF Release, Forget, Works, Spoiled, IInv, AfterOperation, TypeOK
  <2>2. ~Spoiled' /\ pc' \in {"savepoint", "rollback"}
    BY <1>1, <2>1 DEF Spoiled, Forget, NextOperation
  <2>3. BatchState = "open" /\ BatchState' = "open"
    BY <2>1, <2>2 DEF BatchState
  <2>4. Effects = marks[n] /\ Effects' = rows
    BY <1>1, <2>1, <2>3 DEF Effects, Standing, Forget
  <2>5. n - 1 < N /\ n' - 1 = n - 1 + 1 /\ n - 1 + 1 = n /\ 1 .. n' - 1 = (1 .. n - 1) \cup {n}
    BY <1>1, <2>1
  <2>6. Failures' = Failures
    BY <1>1 DEF Failures
  <2>7. CASE n \in Failures
    <3>1. Failed' = Failed \cup {n}
      BY <2>5, <2>6, <2>7 DEF Failed
    <3>2. Effects' = Effects
      BY <2>1, <2>4, <2>7 DEF IInv, AfterOperation
    <3>3. B!Fail
      BY <2>3, <2>5, <3>1, <3>2, Mapping
    <3>4. QED
      BY <3>3 DEF BatchStep, B!Next
  <2>8. CASE n \notin Failures
    <3>1. Failed' = Failed
      BY <2>5, <2>6, <2>8 DEF Failed
    <3>2. Effects' \in {Effects, Effects \cup {n}}
      BY <2>1, <2>4 DEF IInv, AfterOperation
    <3>3. B!Succeed
      BY <2>3, <2>5, <3>1, <3>2, Mapping
    <3>4. QED
      BY <3>3 DEF BatchStep, B!Next
  <2>9. QED
    BY <2>7, <2>8
<1>2. CASE Fails("release", block = "active" /\ n \in DOMAIN marks)
  BY <1>2, FailsRefines DEF Release
<1>3. QED
  BY <1>1, <1>2 DEF Release

LEMMA RollbackRefines == ASSUME IInv, Rollback PROVE BatchStep
<1>1. pc = "rollback" /\ pc' = "returned" /\ UNCHANGED n /\ Failed' = Failed
  BY DEF Rollback, Failed, Failures
<1>2. CASE err' = {}
  <2>1. err = {} /\ Whole /\ n - 1 = N /\ rows' = {}
    BY <1>2, NAssumption DEF Rollback, EndBlock, Breaks, IInv, InTheEnd, Whole, TypeOK, Works
  <2>2. BatchState = "open" /\ BatchState' = "ok"
    BY <1>1, <1>2, <2>1 DEF BatchState, Spoiled, Whole
  <2>3. QED
    BY <1>1, <2>1, <2>2, Mapping DEF BatchStep, Effects, B!Next
<1>3. CASE err' # {}
  <2>1. BatchState \in {"open", "spoiled"} /\ BatchState' = "error"
    BY <1>1, <1>3 DEF BatchState
  <2>2. QED
    BY <1>1, <2>1, Mapping DEF BatchStep, Effects, B!Next
<1>4. QED
  BY <1>2, <1>3

LEMMA CancelRefines == ASSUME Cancel PROVE BatchStep
<1>1. Spoiled' = Spoiled /\ Standing' = Standing /\ Failed' = Failed
  BY DEF Cancel, session, Spoiled, Standing, Failed, Failures
<1>2. QED
  BY <1>1, WithinOperation DEF Cancel

LEMMA StutterRefines == ASSUME UNCHANGED vars PROVE BatchStep
<1>1. BatchState' = BatchState /\ Effects' = Effects /\ Failed' = Failed /\ n' = n
  BY DEF vars, session, BatchState, Spoiled, Effects, Standing, Failed, Failures
<1>2. QED
  BY <1>1, Mapping DEF BatchStep

\* For every number of operations and whatever goes wrong: Run implements Batch.
\* Operations take place one after another, whole or not at all, one that
\* returned an error leaves no trace and does not keep the next from running, and
\* all is undone in the end (harness.go:14-45).
THEOREM RunKeepsBatch == Spec => KeepsBatch
<1>1. Init => B!Init
  BY InitRefines
<1>2. IInv /\ [Next]_vars => [B!Next]_(B!batch)
  BY BeginRefines, SavepointRefines, OperateRefines, UndoRefines, ReleaseRefines, RollbackRefines,
     CancelRefines, StutterRefines DEF Next, Step, Returned, BatchStep
<1>3. QED
  BY <1>1, <1>2, InvariantHolds, PTL DEF Spec, KeepsBatch, B!Spec
=============================================================================
