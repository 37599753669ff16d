------------------------ MODULE CircuitBreaker_proofs ------------------------
(***************************************************************************)
(* Theorems about CircuitBreaker, for any number of calls, any timeout,    *)
(* window and threshold, and any number of SQL failures and restarts; and  *)
(* that the code implements AbstractBreaker as long as calls do not        *)
(* overlap and no statement fails.                                         *)
(***************************************************************************)
EXTENDS BreakerRefinement, TLAPS, FiniteSetTheorems

\* Dropping the expired records of a window leaves a window.
LEMMA CleanOldRequestsType ==
    ASSUME NEW reqs \in Seq(Records)
    PROVE  CleanOldRequests(reqs) \in Seq(Records)
<1> DEFINE Old == {i \in DOMAIN reqs : reqs[i].age >= Window}
<1>1. DOMAIN reqs = 1..Len(reqs) /\ Len(reqs) \in Nat
  OBVIOUS
<1>2. IsFiniteSet(1..Len(reqs)) /\ Cardinality(1..Len(reqs)) = Len(reqs)
  BY <1>1, FS_Interval
<1>3. Old \subseteq 1..Len(reqs)
  BY <1>1
<1>4. Cardinality(Old) \in Nat /\ Cardinality(Old) <= Len(reqs)
  <2>1. IsFiniteSet(Old) /\ Cardinality(Old) <= Cardinality(1..Len(reqs))
    BY <1>2, <1>3, FS_Subset
  <2>. QED BY <2>1, <1>2, FS_CardinalityType
<1>. HIDE DEF Old
<1>5. \A k \in 0..Len(reqs) : SubSeq(reqs, k + 1, Len(reqs)) \in Seq(Records)
  BY <1>1
<1>6. SubSeq(reqs, Cardinality(Old) + 1, Len(reqs)) \in Seq(Records)
  BY <1>1, <1>4, <1>5
<1>. QED BY <1>6 DEF CleanOldRequests, Expired, Old

-------------------------------------------------------------------------------
(* Types                                                                   *)

LEMMA RowTypes ==
    /\ ClosedRow \in Rows /\ HalfOpenRow \in Rows /\ OpenRow \in Rows
    /\ \A r \in Rows : r # NoRow
    /\ \A r \in Rows : Sooner(r) \in Rows
    /\ Sooner(NoRow) = NoRow
BY BreakerAssumption DEF Rows, NoRow, States, NoDeadline, ClosedRow,
   HalfOpenRow, OpenRow, Sooner

LEMMA NoRecords == <<>> \in Seq(Records)
OBVIOUS

LEMMA IdleCallType == IdleCall \in Calls
BY RowTypes DEF IdleCall, Calls, PCs

\* What the actions do to one call leaves it a call.
LEMMA CallUpdates ==
    ASSUME NEW c \in Callers, call \in [Callers -> Calls]
    PROVE  /\ \A v \in Calls : Becomes(c, v) => call' \in [Callers -> Calls]
           /\ IdleCall \in Calls
           /\ \A l \in PCs : [call[c] EXCEPT !.pc = l] \in Calls
           /\ \A l \in PCs, m \in {"closed", "half_open"} :
                [call[c] EXCEPT !.mode = m, !.pc = l] \in Calls
           /\ \A l \in PCs, n \in Nat :
                [call[c] EXCEPT !.attempts = n, !.pc = l] \in Calls
           /\ \A l \in PCs, b \in BOOLEAN :
                [call[c] EXCEPT !.ok = b, !.pc = l] \in Calls
           /\ \A l \in PCs, r \in Rows :
                [call[c] EXCEPT !.seen = r, !.pc = l] \in Calls
<1>1. call[c] \in Calls
  OBVIOUS
<1>2. \A v \in Calls : Becomes(c, v) => call' \in [Callers -> Calls]
  BY DEF Becomes
<1>3. \A l \in PCs : [call[c] EXCEPT !.pc = l] \in Calls
  BY <1>1 DEF Calls
<1>4. \A l \in PCs, m \in {"closed", "half_open"} :
        [call[c] EXCEPT !.mode = m, !.pc = l] \in Calls
  BY <1>1 DEF Calls
<1>5. \A l \in PCs, n \in Nat :
        [call[c] EXCEPT !.attempts = n, !.pc = l] \in Calls
  BY <1>1 DEF Calls
<1>6. \A l \in PCs, b \in BOOLEAN :
        [call[c] EXCEPT !.ok = b, !.pc = l] \in Calls
  BY <1>1 DEF Calls
<1>7. \A l \in PCs, r \in Rows :
        [call[c] EXCEPT !.seen = r, !.pc = l] \in Calls
  BY <1>1 DEF Calls
<1>. QED BY Zenon, <1>2, <1>3, <1>4, <1>5, <1>6, <1>7, IdleCallType

\* What a SQL statement, succeeding or failing, leaves in the row.
RowOK == /\ row \in Rows \cup {NoRow}
         /\ faults \in 0..MaxFaults
         /\ restarts \in 0..MaxRestarts
         /\ resets \in 0..MaxResets

LEMMA SqlTypes ==
    ASSUME RowOK
    PROVE  /\ \A r \in Rows : SqlWrites(r) => RowOK'
           /\ SqlFails \/ SqlReads \/ NotFound => RowOK'
           /\ row' = row /\ bounds' = bounds => RowOK'
BY BreakerAssumption
   DEF RowOK, SqlWrites, SqlFails, SqlReads, NotFound, bounds

\* A call's own step leaves the variables in their types.
LEMMA CallStepType ==
    ASSUME TypeOK, NEW c \in Callers, CallStep(c)
    PROVE  TypeOK'
<1>. USE BreakerAssumption
<1>a. RowOK /\ call \in [Callers -> Calls] /\ call[c] \in Calls
  BY DEF TypeOK, RowOK
<1>b. SUFFICES RowOK' /\ call' \in [Callers -> Calls]
               /\ requests' \in Seq(Records) /\ halfOpenAttempts' \in Nat
               /\ resetting' \in BOOLEAN
  BY DEF TypeOK, RowOK
<1>1. CASE GetState(c)
  <2>1. call' \in [Callers -> Calls]
    BY <1>1, <1>a, CallUpdates DEF GetState, Dispatch, Goto, Return, PCs
  <2>2. RowOK'
    BY <1>1, <1>a, SqlTypes DEF GetState
  <2>. QED BY <1>1, <1>b, <2>1, <2>2 DEF GetState, TypeOK, memory
<1>2. CASE Initialize(c)
  <2>1. call' \in [Callers -> Calls]
    BY <1>2, <1>a, CallUpdates DEF Initialize, Goto, Return, PCs
  <2>2. RowOK'
    BY <1>2, <1>a, RowTypes, SqlTypes DEF Initialize
  <2>. QED BY <1>2, <1>b, <2>1, <2>2 DEF Initialize, TypeOK, memory
<1>3. CASE Reread(c)
  <2>1. call' \in [Callers -> Calls]
    BY <1>3, <1>a, CallUpdates DEF Reread, Dispatch, Return, PCs
  <2>2. RowOK'
    BY <1>3, <1>a, SqlTypes DEF Reread
  <2>. QED BY <1>3, <1>b, <2>1, <2>2 DEF Reread, TypeOK, memory
<1>4. CASE ToHalfOpen(c)
  <2>1. call' \in [Callers -> Calls]
    BY <1>4, <1>a, CallUpdates DEF ToHalfOpen, Goto, Return, PCs
  <2>2. RowOK'
    BY <1>4, <1>a, RowTypes, SqlTypes DEF ToHalfOpen
  <2>. QED BY <1>4, <1>b, <2>1, <2>2 DEF ToHalfOpen, TypeOK, memory
<1>5. CASE EnterHalfOpen(c)
  <2>0. halfOpenAttempts + 1 \in Nat
    BY DEF TypeOK
  <2>a. [call[c] EXCEPT !.attempts = halfOpenAttempts + 1, !.pc = "running"]
          \in Calls
    BY <1>a, <2>0 DEF Calls, PCs
  <2>1. call' \in [Callers -> Calls]
    <3>1. Becomes(c, [call[c] EXCEPT !.attempts = halfOpenAttempts + 1,
                                     !.pc = "running"])
      BY <1>5 DEF EnterHalfOpen
    <3>. QED BY Zenon, <3>1, <1>a, <2>a, CallUpdates
  <2>2. RowOK'
    BY <1>5, <1>a, SqlTypes DEF EnterHalfOpen
  <2>. QED BY <1>5, <1>b, <2>0, <2>1, <2>2 DEF EnterHalfOpen, TypeOK
<1>6. ASSUME NEW result \in BOOLEAN, FinishClosed(c, result) PROVE TypeOK'
  <2>1. call' \in [Callers -> Calls]
    BY <1>6, <1>a, CallUpdates DEF FinishClosed, Returned, PCs
  <2>2. Append(requests, [age |-> 0, success |-> result]) \in Seq(Records)
    BY DEF Records, TypeOK
  <2>3. requests' \in Seq(Records)
    BY <1>6, <2>2, CleanOldRequestsType DEF FinishClosed
  <2>4. RowOK'
    BY <1>6, <1>a, SqlTypes DEF FinishClosed
  <2>. QED BY <1>6, <2>1, <2>3, <2>4 DEF FinishClosed, TypeOK, RowOK
<1>7. ASSUME NEW result \in BOOLEAN, FinishHalfOpen(c, result) PROVE TypeOK'
  <2>1. call' \in [Callers -> Calls]
    BY <1>7, <1>a, CallUpdates DEF FinishHalfOpen, Returned, PCs
  <2>2. RowOK'
    BY <1>7, <1>a, SqlTypes DEF FinishHalfOpen
  <2>. QED BY <1>7, <2>1, <2>2 DEF FinishHalfOpen, TypeOK, RowOK, memory
<1>8. CASE RecordRead(c)
  <2>0. (SqlReads => row \in Rows) /\ ClosedRow \in Rows
    BY RowTypes DEF TypeOK, SqlReads
  <2>1. call' \in [Callers -> Calls]
    BY <1>8, <1>a, <2>0, CallUpdates DEF RecordRead, PCs, TypeOK
  <2>2. RowOK'
    BY <1>8, <1>a, SqlTypes DEF RecordRead
  <2>. QED BY <1>8, <1>b, <2>1, <2>2 DEF RecordRead, TypeOK, memory
<1>9. CASE RecordWrite(c)
  <2>0. call[c].seen \in Rows
    BY <1>a DEF Calls
  <2>1. call' \in [Callers -> Calls]
    BY <1>9, <1>a, CallUpdates DEF RecordWrite, AfterRecord, Goto, Return, PCs
  <2>2. RowOK'
    BY <1>9, <1>a, <2>0, SqlTypes DEF RecordWrite
  <2>. QED BY <1>9, <1>b, <2>1, <2>2 DEF RecordWrite, TypeOK, memory
<1>10. CASE ShouldOpen(c)
  <2>1. call' \in [Callers -> Calls]
    BY <1>10, <1>a, CallUpdates DEF ShouldOpen, Goto, Return, PCs
  <2>2. RowOK'
    BY <1>10, <1>a, SqlTypes DEF ShouldOpen
  <2>. QED BY <1>10, <1>b, <2>1, <2>2 DEF ShouldOpen, TypeOK, memory
<1>11. CASE TripOpen(c)
  <2>1. call' \in [Callers -> Calls]
    BY <1>11, <1>a, CallUpdates DEF TripOpen, Return, PCs
  <2>2. RowOK'
    BY <1>11, <1>a, RowTypes, SqlTypes DEF TripOpen
  <2>. QED BY <1>11, <1>b, <2>1, <2>2 DEF TripOpen, TypeOK, memory
<1>12. CASE BackToOpen(c)
  <2>1. call' \in [Callers -> Calls]
    BY <1>12, <1>a, CallUpdates DEF BackToOpen, Goto, PCs
  <2>2. RowOK'
    BY <1>12, <1>a, RowTypes, SqlTypes DEF BackToOpen
  <2>. QED BY <1>12, <1>b, <2>1, <2>2 DEF BackToOpen, TypeOK, memory
<1>13. CASE DropAttempts(c)
  <2>1. call' \in [Callers -> Calls]
    BY <1>13, <1>a, CallUpdates DEF DropAttempts, Return, PCs
  <2>2. RowOK'
    BY <1>13, <1>a, SqlTypes DEF DropAttempts
  <2>. QED BY <1>13, <1>b, <2>1, <2>2 DEF DropAttempts, TypeOK, memory
<1>14. CASE ToClosed(c)
  <2>1. call' \in [Callers -> Calls]
    BY <1>14, <1>a, CallUpdates DEF ToClosed, Goto, PCs
  <2>2. RowOK'
    BY <1>14, <1>a, RowTypes, SqlTypes DEF ToClosed
  <2>. QED BY <1>14, <1>b, <2>1, <2>2 DEF ToClosed, TypeOK, memory
<1>15. CASE ClearMemory(c)
  <2>1. call' \in [Callers -> Calls]
    BY <1>15, <1>a, CallUpdates DEF ClearMemory, Return, PCs
  <2>2. RowOK'
    BY <1>15, <1>a, SqlTypes DEF ClearMemory
  <2>. QED BY <1>15, <1>b, <2>1, <2>2 DEF ClearMemory, TypeOK, memory
<1>16. CASE Finish(c)
  <2>1. PICK result \in BOOLEAN :
          FinishClosed(c, result) \/ FinishHalfOpen(c, result)
    BY <1>16 DEF Finish
  <2>2. TypeOK'
    BY <2>1, <1>6, <1>7
  <2>. QED BY <2>2 DEF TypeOK, RowOK
<1>. QED BY <1>1, <1>2, <1>3, <1>4, <1>5, <1>8, <1>9, <1>10, <1>11, <1>12,
         <1>13, <1>14, <1>15, <1>16 DEF CallStep

\* Every step leaves the variables in their types.
LEMMA TypeStep == TypeOK /\ [Next]_vars => TypeOK'
<1>. SUFFICES ASSUME TypeOK, [Next]_vars PROVE TypeOK'
  OBVIOUS
<1>. USE BreakerAssumption
<1>a. CASE UNCHANGED vars
  BY <1>a DEF vars, TypeOK
<1>b. ASSUME NEW c \in Callers, CallStep(c) PROVE TypeOK'
  BY <1>b, CallStepType
<1>c. CASE ResetMemory
  BY <1>c, NoRecords DEF ResetMemory, TypeOK
<1>d. CASE ResetRow
  <2>1. RowOK'
    BY <1>d, RowTypes, SqlTypes DEF ResetRow, TypeOK, RowOK
  <2>. QED BY <1>d, <2>1 DEF ResetRow, TypeOK, RowOK, memory
<1>e. CASE ResetCircuitBreaker
  BY <1>e, RowTypes DEF ResetCircuitBreaker, TypeOK, memory
<1>f. CASE Restart
  <2>1. call' \in [Callers -> Calls]
    BY <1>f, IdleCallType DEF Restart
  <2>2. restarts' \in 0..MaxRestarts
    BY <1>f DEF Restart, TypeOK
  <2>. QED BY <1>f, <2>1, <2>2, NoRecords DEF Restart, TypeOK
<1>g. CASE Tick
  <2>1. row' \in Rows \cup {NoRow}
    BY <1>g, RowTypes DEF Tick, TypeOK
  <2>2. \A v \in Calls : [v EXCEPT !.seen = Sooner(@)] \in Calls
    BY RowTypes DEF Calls
  <2>3. call' \in [Callers -> Calls]
    BY <1>g, <2>2 DEF Tick, TypeOK
  <2>4. \A r \in Records : Older(r) \in Records
    BY DEF Records, Older
  <2>5. requests' \in Seq(Records)
    <3>1. requests \in [1..Len(requests) -> Records] /\ Len(requests) \in Nat
      BY DEF TypeOK
    <3>2. requests' \in [1..Len(requests) -> Records]
      BY <1>g, <2>4, <3>1 DEF Tick
    <3>. QED BY <3>1, <3>2
  <2>. QED BY <1>g, <2>1, <2>3, <2>5 DEF Tick, TypeOK, bounds
<1>. QED BY <1>a, <1>b, <1>c, <1>d, <1>e, <1>f, <1>g DEF Next

LEMMA InitType == Init => TypeOK
<1>. SUFFICES ASSUME Init PROVE TypeOK
  OBVIOUS
<1>1. call \in [Callers -> Calls]
  BY IdleCallType DEF Init
<1>2. faults \in 0..MaxFaults /\ restarts \in 0..MaxRestarts /\ resets \in 0..MaxResets
  BY BreakerAssumption DEF Init
<1>. QED BY <1>1, <1>2, NoRecords DEF Init, TypeOK

\* Type correctness of the breaker.
THEOREM TypeCorrect == Spec => []TypeOK
<1>1. Init => TypeOK
  BY InitType
<1>. QED BY <1>1, TypeStep, PTL DEF Spec

-------------------------------------------------------------------------------
(* No open row without a deadline                                          *)

\* The row and the copies that calls will write back pair "open" with a
\* deadline.  The copies are what makes the invariant inductive: a stale
\* copy may be written over any later row.
Paired(r) == r.state = "open" <=> r.retryIn # NoDeadline

DeadlineInv ==
    /\ TypeOK
    /\ Paired(row)
    /\ \A c \in Callers : Paired(call[c].seen)

LEMMA PairedRows ==
    /\ Paired(NoRow) /\ Paired(ClosedRow) /\ Paired(HalfOpenRow) /\ Paired(OpenRow)
    /\ \A r \in Rows \cup {NoRow} : Paired(r) => Paired(Sooner(r))
BY BreakerAssumption DEF Paired, NoRow, ClosedRow, HalfOpenRow, OpenRow, Rows,
   States, Sooner, NoDeadline

LEMMA DeadlineStep == DeadlineInv /\ [Next]_vars => DeadlineInv'
<1>. SUFFICES ASSUME DeadlineInv, [Next]_vars PROVE DeadlineInv'
  OBVIOUS
<1>1. TypeOK /\ TypeOK'
  BY TypeStep DEF DeadlineInv
<1>2. \A c \in Callers : Paired(call[c].seen)
  BY DEF DeadlineInv
<1>3. Paired(IdleCall.seen)
  BY PairedRows DEF IdleCall
<1>a. CASE UNCHANGED vars
  BY <1>a, <1>1 DEF vars, DeadlineInv, Paired
<1>b. ASSUME NEW c \in Callers, CallStep(c) PROVE DeadlineInv'
  <2>1. row' = row \/ row' \in {ClosedRow, HalfOpenRow, OpenRow, call[c].seen}
    <3>. USE DEF SqlFails, SqlWrites, SqlReads, NotFound
    <3>1. CASE GetState(c) \/ Initialize(c) \/ Reread(c) \/ ToHalfOpen(c)
      BY <3>1 DEF GetState, Initialize, Reread, ToHalfOpen
    <3>2. CASE EnterHalfOpen(c) \/ Finish(c)
      BY <3>2 DEF EnterHalfOpen, Finish, FinishClosed, FinishHalfOpen
    <3>3. CASE RecordRead(c) \/ RecordWrite(c)
      BY <3>3 DEF RecordRead, RecordWrite
    <3>4. CASE ShouldOpen(c) \/ TripOpen(c) \/ BackToOpen(c)
      BY <3>4 DEF ShouldOpen, TripOpen, BackToOpen
    <3>5. CASE DropAttempts(c) \/ ToClosed(c) \/ ClearMemory(c)
      BY <3>5 DEF DropAttempts, ToClosed, ClearMemory
    <3>. QED BY <1>b, <3>1, <3>2, <3>3, <3>4, <3>5 DEF CallStep
  <2>2. Paired(row')
    BY <2>1, <1>2, PairedRows DEF DeadlineInv
  <2>3. PICK v : /\ Becomes(c, v)
                 /\ v.seen \in {call[c].seen, IdleCall.seen, row, ClosedRow}
    <3>. DEFINE Kept == call[c].seen
    <3>0. call[c] \in Calls
      BY <1>1 DEF TypeOK
    <3>a. ASSUME NEW l, Goto(c, l)
          PROVE  \E v : Becomes(c, v) /\ v.seen = Kept
      <4>1. [call[c] EXCEPT !.pc = l].seen = Kept
        BY <3>0 DEF Calls
      <4>. QED BY <3>a, <4>1 DEF Goto
    <3>b. ASSUME Return(c) PROVE \E v : Becomes(c, v) /\ v.seen = IdleCall.seen
      BY <3>b DEF Return
    <3>c. ASSUME Dispatch(c)
          PROVE  \E v : Becomes(c, v) /\ v.seen \in {Kept, IdleCall.seen}
      <4>1. \A m, l : [call[c] EXCEPT !.mode = m, !.pc = l].seen = Kept
        BY <3>0 DEF Calls
      <4>2. Return(c) \/ \E m, l : Becomes(c, [call[c] EXCEPT !.mode = m, !.pc = l])
        BY Zenon, <3>c DEF Dispatch
      <4>. QED BY Zenon, <3>b, <4>1, <4>2
    <3>1. CASE GetState(c) \/ Initialize(c) \/ Reread(c) \/ ToHalfOpen(c)
      BY <3>1, <3>a, <3>b, <3>c DEF GetState, Initialize, Reread, ToHalfOpen
    <3>2. CASE EnterHalfOpen(c)
      <4>1. [call[c] EXCEPT !.attempts = halfOpenAttempts + 1,
                            !.pc = "running"].seen = Kept
        BY <3>0 DEF Calls
      <4>2. Becomes(c, [call[c] EXCEPT !.attempts = halfOpenAttempts + 1,
                                       !.pc = "running"])
        BY <3>2 DEF EnterHalfOpen
      <4>. QED BY Zenon, <4>1, <4>2
    <3>3. CASE Finish(c)
      <4>1. \A b : [call[c] EXCEPT !.ok = b, !.pc = "recordRead"].seen = Kept
        BY <3>0 DEF Calls
      <4>2. \E b \in BOOLEAN : Returned(c, b)
        BY <3>3 DEF Finish, FinishClosed, FinishHalfOpen
      <4>. QED BY Zenon, <4>1, <4>2 DEF Returned
    <3>4. CASE RecordRead(c)
      <4>1. \A r : [call[c] EXCEPT !.seen = r, !.pc = "recordWrite"].seen = r
        BY <3>0 DEF Calls
      <4>. QED BY <3>4, <4>1 DEF RecordRead
    <3>5. CASE RecordWrite(c)
      BY <3>5, <3>a, <3>b DEF RecordWrite, AfterRecord
    <3>6. CASE ShouldOpen(c) \/ TripOpen(c) \/ BackToOpen(c)
      BY <3>6, <3>a, <3>b DEF ShouldOpen, TripOpen, BackToOpen
    <3>7. CASE DropAttempts(c) \/ ToClosed(c) \/ ClearMemory(c)
      BY <3>7, <3>a, <3>b DEF DropAttempts, ToClosed, ClearMemory
    <3>. QED BY <1>b, <3>1, <3>2, <3>3, <3>4, <3>5, <3>6, <3>7 DEF CallStep
  <2>4. Paired(v.seen)
    BY <2>3, <1>2, <1>3, PairedRows DEF DeadlineInv
  <2>5. \A d \in Callers : Paired(call'[d].seen)
    <3>1. call'[c] = v /\ \A d \in Callers \ {c} : call'[d] = call[d]
      BY <2>3, <1>1 DEF TypeOK, Becomes
    <3>. QED BY <3>1, <2>4, <1>2
  <2>. QED BY <1>1, <2>2, <2>5 DEF DeadlineInv, Paired
<1>c. CASE ResetMemory
  BY <1>c, <1>1 DEF ResetMemory, DeadlineInv, Paired
<1>d. CASE ResetRow \/ ResetCircuitBreaker
  <2>1. row' \in {row, ClosedRow} /\ call' = call
    BY <1>d DEF ResetRow, ResetCircuitBreaker, SqlWrites, SqlFails
  <2>. QED BY <1>1, <1>2, <2>1, PairedRows DEF DeadlineInv, Paired
<1>e. CASE Restart
  BY <1>e, <1>1, <1>3 DEF Restart, DeadlineInv, Paired
<1>f. CASE Tick
  <2>1. Paired(row')
    BY <1>f, <1>1, PairedRows DEF Tick, DeadlineInv, TypeOK
  <2>2. ASSUME NEW c \in Callers PROVE Paired(call'[c].seen)
    <3>1. call'[c].seen = Sooner(call[c].seen) /\ call[c].seen \in Rows
      BY <1>f, <1>1 DEF Tick, TypeOK, Calls
    <3>. QED BY <3>1, <1>2, PairedRows
  <2>. QED BY <1>1, <2>1, <2>2 DEF DeadlineInv, Paired
<1>. QED BY <1>a, <1>b, <1>c, <1>d, <1>e, <1>f DEF Next

\* An open breaker always has the deadline that lets it test again, whatever
\* stale rows overlapping calls write back and whichever statements fail.
THEOREM OpenAlwaysHasDeadline == Spec => []OpenHasDeadline
<1>1. Init => DeadlineInv
  BY InitType, PairedRows DEF Init, DeadlineInv, IdleCall
<1>2. DeadlineInv => OpenHasDeadline
  BY DEF DeadlineInv, Paired, OpenHasDeadline
<1>. QED BY <1>1, <1>2, DeadlineStep, PTL DEF Spec

-------------------------------------------------------------------------------
(* The refinement                                                          *)

Inv == DeadlineInv /\ SerialInv

LEMMA SerialIsNext == [SerialNext]_vars => [Next]_vars
BY Zenon DEF SerialNext, Next

-------------------------------------------------------------------------------
(* What one call sees, and what its step leaves to the others              *)

Same(v, w) == v.mode = w.mode /\ v.ok = w.ok /\ v.attempts = w.attempts /\ v.seen = w.seen

LEMMA Went ==
    ASSUME TypeOK, NEW c \in Callers, NEW l \in PCs, Goto(c, l)
    PROVE  \E v \in Calls : Becomes(c, v) /\ v.pc = l /\ Same(v, call[c])
<1>1. call[c] \in Calls
  BY DEF TypeOK
<1>2. [call[c] EXCEPT !.pc = l] \in Calls
  BY <1>1 DEF Calls
<1>3. [call[c] EXCEPT !.pc = l].pc = l /\ Same([call[c] EXCEPT !.pc = l], call[c])
  BY <1>1 DEF Calls, Same
<1>. QED BY <1>2, <1>3 DEF Goto

LEMMA Admitted ==
    ASSUME TypeOK, NEW c \in Callers, Dispatch(c)
    PROVE  \/ Return(c)
           \/ \E v \in Calls :
                 /\ Becomes(c, v) /\ v.ok = call[c].ok
                 /\ \/ /\ row.state = "open" /\ row.retryIn = 0
                       /\ v.mode = "half_open" /\ v.pc = "toHalfOpen"
                    \/ /\ row.state = "half_open"
                       /\ v.mode = "half_open" /\ v.pc = "enterHalfOpen"
                    \/ /\ row.state = "closed"
                       /\ v.mode = "closed" /\ v.pc = "running"
<1>1. call[c] \in Calls
  BY DEF TypeOK
<1>2. ASSUME NEW m \in {"closed", "half_open"}, NEW l \in PCs
      PROVE  LET v == [call[c] EXCEPT !.mode = m, !.pc = l]
             IN  v \in Calls /\ v.ok = call[c].ok /\ v.mode = m /\ v.pc = l
  BY <1>1, <1>2 DEF Calls
<1>. QED BY <1>2 DEF Dispatch, PCs

LEMMA IdleFields ==
    /\ IdleCall \in Calls /\ IdleCall.pc = "idle" /\ IdleCall.mode = "closed" /\ IdleCall.ok
    /\ ~Pending(IdleCall)
BY IdleCallType DEF IdleCall, Pending

\* The only call in flight belongs to the row and to the counter.
LEMMA InFlight ==
    ASSUME SerialInv, NEW c \in Callers, OthersIdle(c)
    PROVE  /\ CallMatches(call[c], row, halfOpenAttempts)
           /\ Cleared(call[c], row, halfOpenAttempts)
BY DEF SerialInv

Tests(v, n) == IF Pending(v) THEN n - 1 ELSE n

\* If the call in flight belongs to row and counter after its step as well,
\* the invariant holds, and what the call has pending is all there is.
LEMMA CallChanges ==
    ASSUME TypeOK, SerialInv, NEW c \in Callers, OthersIdle(c), ~resetting,
           NEW v \in Calls, Becomes(c, v), resetting' = resetting, resets' = resets,
           CallMatches(v, row', halfOpenAttempts'), Cleared(v, row', halfOpenAttempts')
    PROVE  /\ SerialInv'
           /\ absSuccesses = Tests(call[c], halfOpenAttempts)
           /\ absSuccesses' = Tests(v, halfOpenAttempts')
           /\ absResets' = absResets
<1>1. call'[c] = v /\ \A d \in Callers \ {c} : call'[d] = call[d] /\ call[d].pc = "idle"
  BY DEF TypeOK, Becomes, OthersIdle, At
<1>2. \A d \in Callers \ {c} : /\ CallMatches(call[d], row', halfOpenAttempts')
                               /\ ~Pending(call[d])
  <2>1. \A d \in Callers \ {c} : ModeMatches(call[d])
    BY DEF SerialInv, CallMatches
  <2>. QED BY <1>1, <2>1 DEF CallMatches, RowMatches, ModeMatches, AttemptsMatch, Pending
<1>3. \A d \in Callers : CallMatches(call'[d], row', halfOpenAttempts')
  BY <1>1, <1>2
<1>4. \A d, e \in Callers : At(d, "idle")' \/ At(e, "idle")' \/ d = e
  BY <1>1 DEF At
<1>5. AllIdle' => Cleared(IdleCall, row', halfOpenAttempts')
  BY <1>1 DEF AllIdle, At, Cleared
<1>6. ASSUME NEW d \in Callers, OthersIdle(d)'
      PROVE  Cleared(call'[d], row', halfOpenAttempts')
  <2>1. CASE d = c
    BY <2>1, <1>1
  <2>2. CASE d # c
    <3>1. v.pc = "idle"
      BY <2>2, <1>6, <1>1 DEF OthersIdle, At
    <3>. QED BY <3>1 DEF Cleared
  <2>. QED BY <2>1, <2>2
<1>7. SerialInv'
  BY <1>3, <1>4, <1>5, <1>6 DEF SerialInv
<1>8. (TestPending <=> Pending(call[c])) /\ (TestPending' <=> Pending(v))
  BY <1>1, <1>2, Zenon DEF TestPending
<1>. QED BY <1>7, <1>8 DEF absSuccesses, absResets, Tests

-------------------------------------------------------------------------------
(* The row as the abstract breaker sees it                                 *)

LEMMA RowSeen ==
    ASSUME TypeOK, Paired(row)
    PROVE  /\ row # NoRow => absState = row.state
           /\ row.state \in States => row # NoRow
           /\ row \in {NoRow, ClosedRow} => absState = "closed" /\ absLeft = 0
           /\ row.state \in {"closed", "half_open"} => absLeft = 0
           /\ row.state = "open" => absLeft = row.retryIn
           /\ ClosedRow # NoRow /\ ClosedRow.state = "closed"
BY DEF TypeOK, Paired, absState, absLeft, NoRow, ClosedRow, Rows, States, NoDeadline

LEMMA RowSeenNext ==
    /\ row' = ClosedRow => absState' = "closed" /\ absLeft' = 0
    /\ row' = HalfOpenRow => absState' = "half_open" /\ absLeft' = 0
    /\ row' = OpenRow => absState' = "open" /\ absLeft' = Timeout
    /\ row' = row => absState' = absState /\ absLeft' = absLeft
    /\ HalfOpenRow.state = "half_open" /\ OpenRow.state = "open"
BY BreakerAssumption
   DEF absState, absLeft, NoRow, ClosedRow, HalfOpenRow, OpenRow, NoDeadline

AbstractStep == [Abstract!Next]_<<absState, absLeft, absSuccesses, absResets>>

\* Every step of the only call is a step of the abstract breaker, or none.
LEMMA CallSteps ==
    ASSUME Inv, TypeOK', NEW c \in Callers, OthersIdle(c), ~resetting, CallStep(c),
           faults' = faults
    PROVE  SerialInv' /\ AbstractStep
<1>0. TypeOK /\ SerialInv /\ Paired(row) /\ halfOpenAttempts \in Nat /\ faults \in Nat
  BY DEF Inv, DeadlineInv, TypeOK
<1>1. ~SqlFails
  BY <1>0 DEF SqlFails
<1>2. CallMatches(call[c], row, halfOpenAttempts) /\ Cleared(call[c], row, halfOpenAttempts)
  BY <1>0, InFlight
<1>. USE <1>0, <1>1, IdleFields, BreakerAssumption
     DEF CallMatches, RowMatches, ModeMatches, AttemptsMatch, Cleared, Pending, Tests, At,
         memory, bounds, SqlReads, SqlWrites, NotFound
\* What a step that leaves the row alone has to show.
<1>3. ASSUME NEW v \in Calls, Becomes(c, v), row' = row, resetting' = resetting,
             resets' = resets, CallMatches(v, row, halfOpenAttempts'),
             Cleared(v, row, halfOpenAttempts'),
             Tests(v, halfOpenAttempts') \in {Tests(call[c], halfOpenAttempts), 0}
      PROVE  SerialInv' /\ AbstractStep
  <2>1. /\ SerialInv' /\ absSuccesses' \in {absSuccesses, 0} /\ absResets' = absResets
    BY <1>3, CallChanges
  <2>2. absState' = absState /\ absLeft' = absLeft
    BY <1>3, RowSeenNext
  <2>. QED BY <2>1, <2>2 DEF AbstractStep, Abstract!Next, Abstract!Forget
<1>4. ASSUME Dispatch(c), row' = row, halfOpenAttempts' = halfOpenAttempts,
             resetting' = resetting, resets' = resets, call[c].pc \in {"idle", "reread"}
      PROVE  SerialInv' /\ AbstractStep
  <2>1. CASE Return(c)
    BY <1>2, <1>3, <1>4, <2>1 DEF Return
  <2>2. CASE ~Return(c)
    <3>1. PICK v \in Calls :
             /\ Becomes(c, v) /\ v.ok = call[c].ok
             /\ \/ /\ row.state = "open" /\ row.retryIn = 0
                   /\ v.mode = "half_open" /\ v.pc = "toHalfOpen"
                \/ /\ row.state = "half_open"
                   /\ v.mode = "half_open" /\ v.pc = "enterHalfOpen"
                \/ /\ row.state = "closed"
                   /\ v.mode = "closed" /\ v.pc = "running"
      BY <1>4, <2>2, Admitted
    <3>. QED BY <1>2, <1>3, <1>4, <3>1
  <2>. QED BY <2>1, <2>2
<1>a. CASE GetState(c)
  <2>1. CASE Dispatch(c) /\ row' = row
    BY <1>a, <1>4, <2>1 DEF GetState
  <2>2. CASE row = NoRow /\ row' = row /\ Goto(c, "initialize")
    <3>1. PICK v \in Calls : Becomes(c, v) /\ v.pc = "initialize" /\ Same(v, call[c])
      BY <2>2, Went DEF PCs
    <3>. QED BY <1>2, <1>3, <1>a, <2>2, <3>1 DEF GetState, Same
  <2>. QED BY <1>a, <2>1, <2>2 DEF GetState
<1>b. CASE Initialize(c)
  <2>1. PICK v \in Calls : Becomes(c, v) /\ v.pc = "reread" /\ Same(v, call[c])
    BY <1>b, Went DEF Initialize, PCs
  <2>2. row = NoRow /\ row' = ClosedRow
    BY <1>2, <1>b DEF Initialize
  <2>3. SerialInv' /\ absSuccesses' = absSuccesses /\ absResets' = absResets
    BY <1>2, <1>b, <2>1, <2>2, CallChanges, RowSeen DEF Initialize, Same, NoRow, ClosedRow
  <2>. QED BY <2>2, <2>3, RowSeen, RowSeenNext DEF AbstractStep
<1>c. CASE Reread(c)
  BY <1>4, <1>c DEF Reread
<1>d. CASE ToHalfOpen(c)
  <2>1. PICK v \in Calls : Becomes(c, v) /\ v.pc = "enterHalfOpen" /\ Same(v, call[c])
    BY <1>d, Went DEF ToHalfOpen, PCs
  <2>2. /\ row.state = "open" /\ row.retryIn = 0 /\ row' = HalfOpenRow
        /\ halfOpenAttempts = 0 /\ halfOpenAttempts' = 0
    BY <1>2, <1>d DEF ToHalfOpen
  <2>3. SerialInv' /\ absSuccesses' = 0 /\ absResets' = absResets
    BY <1>2, <1>d, <2>1, <2>2, CallChanges, RowSeenNext DEF ToHalfOpen, Same
  <2>. QED
    BY <2>2, <2>3, RowSeen, RowSeenNext
       DEF AbstractStep, Abstract!Next, Abstract!StartTesting, States
<1>e. CASE EnterHalfOpen(c)
  <2>1. PICK v \in Calls :
           /\ Becomes(c, v) /\ v.pc = "running" /\ v.attempts = halfOpenAttempts + 1
           /\ v.mode = call[c].mode /\ v.ok = call[c].ok
    <3>. DEFINE v == [call[c] EXCEPT !.attempts = halfOpenAttempts + 1, !.pc = "running"]
    <3>0. halfOpenAttempts + 1 \in Nat
      OBVIOUS
    <3>1. call[c] \in Calls
      BY DEF TypeOK
    <3>2. v \in Calls
      BY <3>0, <3>1 DEF Calls, PCs
    <3>3. /\ v.pc = "running" /\ v.attempts = halfOpenAttempts + 1
          /\ v.mode = call[c].mode /\ v.ok = call[c].ok
      BY <3>1 DEF Calls
    <3>4. Becomes(c, v)
      BY <1>e DEF EnterHalfOpen
    <3>. QED BY <3>2, <3>3, <3>4, Zenon
  <2>. QED BY <1>2, <1>3, <1>e, <2>1 DEF EnterHalfOpen
<1>f. ASSUME NEW result \in BOOLEAN, FinishClosed(c, result) \/ FinishHalfOpen(c, result)
      PROVE  SerialInv' /\ AbstractStep
  <2>1. PICK v \in Calls :
           /\ Becomes(c, v) /\ v.pc = "recordRead" /\ v.ok = result
           /\ v.mode = call[c].mode /\ v.attempts = call[c].attempts
    <3>. DEFINE v == [call[c] EXCEPT !.ok = result, !.pc = "recordRead"]
    <3>1. call[c] \in Calls
      BY DEF TypeOK
    <3>2. v \in Calls
      BY <3>1 DEF Calls, PCs
    <3>3. /\ v.pc = "recordRead" /\ v.ok = result
          /\ v.mode = call[c].mode /\ v.attempts = call[c].attempts
      BY <3>1 DEF Calls
    <3>4. Becomes(c, v)
      BY <1>f DEF FinishClosed, FinishHalfOpen, Returned
    <3>. QED BY <3>2, <3>3, <3>4, Zenon
  <2>2. /\ row' = row /\ halfOpenAttempts' = halfOpenAttempts
        /\ resetting' = resetting /\ resets' = resets /\ call[c].pc = "running"
    BY <1>f DEF FinishClosed, FinishHalfOpen
  <2>3. CASE call[c].mode = "half_open" /\ result
    <3>3. CallMatches(v, row', halfOpenAttempts') /\ Cleared(v, row', halfOpenAttempts')
      BY <1>2, <2>1, <2>2, <2>3
    <3>4. /\ SerialInv' /\ absResets' = absResets
          /\ absSuccesses = Tests(call[c], halfOpenAttempts)
          /\ absSuccesses' = Tests(v, halfOpenAttempts')
      BY <2>1, <2>2, <3>3, CallChanges
    <3>5. Pending(call[c]) /\ ~Pending(v)
      BY <2>1, <2>2, <2>3
    <3>1. /\ SerialInv' /\ absSuccesses' = absSuccesses + 1 /\ absResets' = absResets
      BY <2>2, <3>4, <3>5
    <3>2. row.state = "half_open"
      BY <1>2, <2>2, <2>3
    <3>. QED
      BY <2>2, <3>1, <3>2, RowSeen, RowSeenNext
         DEF AbstractStep, Abstract!Next, Abstract!TestSucceeds, States
  <2>4. CASE ~(call[c].mode = "half_open" /\ result)
    BY <1>2, <1>3, <2>1, <2>2, <2>4
  <2>. QED BY <2>3, <2>4
<1>g. CASE Finish(c)
  BY <1>f, <1>g DEF Finish
<1>h. CASE RecordRead(c)
  <2>1. row # NoRow /\ row' = row
    BY <1>2, <1>h, RowSeen DEF RecordRead, TypeOK, NoRow, Calls
  <2>2. PICK v \in Calls :
           /\ Becomes(c, v) /\ v.pc = "recordWrite" /\ v.seen = row
           /\ v.mode = call[c].mode /\ v.ok = call[c].ok /\ v.attempts = call[c].attempts
    <3>. DEFINE v == [call[c] EXCEPT !.seen = row, !.pc = "recordWrite"]
    <3>1. call[c] \in Calls /\ row \in Rows
      BY <2>1 DEF TypeOK
    <3>2. v \in Calls
      BY <3>1 DEF Calls, PCs
    <3>3. /\ v.pc = "recordWrite" /\ v.seen = row
          /\ v.mode = call[c].mode /\ v.ok = call[c].ok /\ v.attempts = call[c].attempts
      BY <3>1 DEF Calls
    <3>4. Becomes(c, v)
      BY <1>h, <2>1 DEF RecordRead
    <3>. QED BY <3>2, <3>3, <3>4, Zenon
  <2>. QED BY <1>2, <1>3, <1>h, <2>1, <2>2 DEF RecordRead
<1>i. CASE RecordWrite(c)
  <2>1. /\ row' = row /\ halfOpenAttempts' = halfOpenAttempts
        /\ resetting' = resetting /\ resets' = resets /\ call[c].pc = "recordWrite"
        /\ AfterRecord(c)
    BY <1>2, <1>i DEF RecordWrite
  <2>. DEFINE v == call[c]
  <2>2. CASE Return(c) /\ v.ok
    BY <1>2, <1>3, <2>1, <2>2 DEF Return
  <2>3. CASE Goto(c, "shouldOpen") /\ v.mode = "closed" /\ ~v.ok
    <3>1. PICK w \in Calls : Becomes(c, w) /\ w.pc = "shouldOpen" /\ Same(w, v)
      BY <2>3, Went DEF PCs
    <3>. QED BY <1>2, <1>3, <2>1, <2>3, <3>1 DEF Same
  <2>4. CASE Goto(c, "backToOpen") /\ v.mode = "half_open" /\ ~v.ok
    <3>1. PICK w \in Calls : Becomes(c, w) /\ w.pc = "backToOpen" /\ Same(w, v)
      BY <2>4, Went DEF PCs
    <3>. QED BY <1>2, <1>3, <2>1, <2>4, <3>1 DEF Same
  <2>5. CASE /\ Goto(c, "toClosed") /\ v.mode = "half_open" /\ v.ok
             /\ v.attempts >= HalfOpenRequests
    <3>1. PICK w \in Calls : Becomes(c, w) /\ w.pc = "toClosed" /\ Same(w, v)
      BY <2>5, Went DEF PCs
    <3>. QED BY <1>2, <1>3, <2>1, <2>5, <3>1 DEF Same
  <2>6. v.mode \in {"closed", "half_open"}
    BY DEF TypeOK, Calls
  <2>. QED BY <2>1, <2>2, <2>3, <2>4, <2>5, <2>6 DEF AfterRecord
<1>j. CASE ShouldOpen(c)
  <2>1. CASE Return(c)
    BY <1>2, <1>3, <1>j, <2>1 DEF ShouldOpen, Return
  <2>2. CASE Goto(c, "tripOpen")
    <3>1. PICK v \in Calls : Becomes(c, v) /\ v.pc = "tripOpen" /\ Same(v, call[c])
      BY <2>2, Went DEF PCs
    <3>. QED BY <1>2, <1>3, <1>j, <3>1 DEF ShouldOpen, Same
  <2>. QED BY <1>j, <2>1, <2>2 DEF ShouldOpen
<1>k. CASE TripOpen(c)
  <2>1. /\ row.state = "closed" /\ row' = OpenRow /\ Becomes(c, IdleCall)
        /\ halfOpenAttempts = 0 /\ halfOpenAttempts' = 0 /\ call[c].mode = "closed"
    BY <1>2, <1>k DEF TripOpen, Return
  <2>2. SerialInv' /\ absSuccesses' = absSuccesses /\ absResets' = absResets
    BY <1>2, <1>k, <2>1, CallChanges, RowSeenNext DEF TripOpen
  <2>. QED
    BY <2>1, <2>2, RowSeen, RowSeenNext
       DEF AbstractStep, Abstract!Next, Abstract!Trip, States
<1>l. CASE BackToOpen(c)
  <2>1. PICK v \in Calls : Becomes(c, v) /\ v.pc = "dropAttempts" /\ Same(v, call[c])
    BY <1>l, Went DEF BackToOpen, PCs
  <2>2. /\ row.state = "half_open" /\ row' = OpenRow /\ halfOpenAttempts' = halfOpenAttempts
    BY <1>2, <1>l DEF BackToOpen
  <2>3. SerialInv' /\ absSuccesses' = absSuccesses /\ absResets' = absResets
    BY <1>2, <1>l, <2>1, <2>2, CallChanges, RowSeenNext DEF BackToOpen, Same
  <2>. QED
    BY <2>2, <2>3, RowSeen, RowSeenNext
       DEF AbstractStep, Abstract!Next, Abstract!TestFails, States
<1>m. CASE DropAttempts(c)
  <2>1. Becomes(c, IdleCall) /\ row' = row /\ halfOpenAttempts' = 0
    BY <1>m DEF DropAttempts, Return
  <2>. QED BY <1>2, <1>3, <1>m, <2>1 DEF DropAttempts
<1>n. CASE ToClosed(c)
  <2>1. PICK v \in Calls : Becomes(c, v) /\ v.pc = "clearMemory" /\ Same(v, call[c])
    BY <1>n, Went DEF ToClosed, PCs
  <2>2. /\ row.state = "half_open" /\ row' = ClosedRow /\ halfOpenAttempts' = halfOpenAttempts
        /\ call[c].ok /\ halfOpenAttempts >= HalfOpenRequests
    BY <1>2, <1>n DEF ToClosed
  <2>3. /\ SerialInv' /\ absSuccesses' = absSuccesses /\ absResets' = absResets
        /\ absSuccesses >= HalfOpenRequests
    BY <1>2, <1>n, <2>1, <2>2, CallChanges, RowSeen DEF ToClosed, Same
  <2>. QED
    BY <2>2, <2>3, RowSeen, RowSeenNext
       DEF AbstractStep, Abstract!Next, Abstract!Close, States
<1>o. CASE ClearMemory(c)
  <2>1. Becomes(c, IdleCall) /\ row' = row /\ halfOpenAttempts' = 0
    BY <1>o DEF ClearMemory, Return
  <2>. QED BY <1>2, <1>3, <1>o, <2>1 DEF ClearMemory
<1>. QED
  BY <1>a, <1>b, <1>c, <1>d, <1>e, <1>g, <1>h, <1>i, <1>j, <1>k, <1>l, <1>m, <1>n, <1>o
     DEF CallStep

-------------------------------------------------------------------------------
(* Resets, restarts and time                                               *)

LEMMA AllAtRest ==
    ASSUME SerialInv, AllIdle
    PROVE  \A c \in Callers : /\ call[c].pc = "idle" /\ call[c].mode = "closed"
                              /\ call[c].ok /\ ~Pending(call[c])
BY DEF SerialInv, AllIdle, At, CallMatches, ModeMatches, Pending

\* With every call at rest the invariant only speaks of row and counter.
LEMMA RestIsSerial ==
    ASSUME \A c \in Callers : /\ call'[c].pc = "idle" /\ call'[c].mode = "closed"
                              /\ call'[c].ok,
           row'.state # "half_open" => halfOpenAttempts' = 0,
           resetting' => halfOpenAttempts' = 0
    PROVE  SerialInv' /\ absSuccesses' = halfOpenAttempts'
<1>1. AllIdle'
  BY DEF AllIdle, At
<1>2. \A c \in Callers : CallMatches(call'[c], row', halfOpenAttempts')
  BY DEF CallMatches, RowMatches, ModeMatches, AttemptsMatch
<1>3. \A v : Cleared(v, row', halfOpenAttempts')
  BY DEF Cleared
<1>4. ~TestPending'
  BY DEF TestPending, Pending
<1>. QED BY <1>1, <1>2, <1>3, <1>4 DEF SerialInv, AllIdle, At, absSuccesses

\* A tick takes one from the deadline of an open row and nothing from others.
LEMMA SoonerLeft ==
    ASSUME TypeOK
    PROVE  /\ row.retryIn = -1 \/ row.retryIn \in Nat
           /\ row.retryIn > 0 => Sooner(row).retryIn = row.retryIn - 1
           /\ ~(row.retryIn > 0) => Sooner(row) = row
<1>1. row \in Rows \/ row = NoRow
  BY DEF TypeOK
<1>2. row.retryIn = -1 \/ row.retryIn \in Nat
  <2>1. Timeout \in Nat
    BY BreakerAssumption
  <2>2. CASE row = NoRow
    BY <2>2 DEF NoRow, NoDeadline
  <2>3. CASE row \in Rows
    BY <2>1, <2>3 DEF Rows, NoDeadline
  <2>. QED BY <1>1, <2>2, <2>3
<1>3. ASSUME row.retryIn > 0 PROVE Sooner(row).retryIn = row.retryIn - 1
  <2>1. Sooner(row) = [row EXCEPT !.retryIn = @ - 1]
    BY <1>3 DEF Sooner
  <2>2. row \in Rows
    BY <1>1, <1>3 DEF NoRow, NoDeadline
  <2>. QED BY <2>1, <2>2 DEF Rows
<1>4. ~(row.retryIn > 0) => Sooner(row) = row
  BY DEF Sooner
<1>. QED BY <1>2, <1>3, <1>4

LEMMA OtherSteps ==
    ASSUME Inv, TypeOK', [SerialNext]_vars, faults' = faults,
           ~(\E c \in Callers : OthersIdle(c) /\ ~resetting /\ CallStep(c))
    PROVE  SerialInv' /\ AbstractStep
<1>0. /\ TypeOK /\ SerialInv /\ Paired(row) /\ halfOpenAttempts \in Nat /\ faults \in Nat
      /\ resets \in Nat /\ resetting \in BOOLEAN
  BY DEF Inv, DeadlineInv, TypeOK
<1>. USE <1>0, BreakerAssumption DEF memory, bounds
<1>1. ASSUME AllIdle
      PROVE  /\ row.state # "half_open" => halfOpenAttempts = 0
             /\ absSuccesses = halfOpenAttempts
  <2>1. row.state # "half_open" => halfOpenAttempts = 0
    BY <1>1, IdleFields DEF SerialInv, Cleared
  <2>2. ~TestPending
    BY <1>1, AllAtRest DEF TestPending
  <2>. QED BY <2>1, <2>2 DEF absSuccesses
<1>2. CASE AllIdle /\ ResetMemory
  <2>1. SerialInv' /\ absSuccesses' = 0
    BY <1>2, AllAtRest, RestIsSerial DEF ResetMemory
  <2>2. absResets' = absResets
    BY <1>2 DEF ResetMemory, absResets
  <2>3. absState' = absState /\ absLeft' = absLeft
    BY <1>2, RowSeenNext DEF ResetMemory
  <2>. QED BY <2>1, <2>2, <2>3 DEF AbstractStep, Abstract!Next, Abstract!Forget
<1>3. CASE AllIdle /\ ResetRow
  <2>1. /\ row' = ClosedRow /\ halfOpenAttempts = 0 /\ halfOpenAttempts' = 0
        /\ call' = call /\ resetting /\ ~resetting' /\ resets' = resets
    BY <1>3 DEF ResetRow, SqlWrites, SqlFails, SerialInv
  <2>2. SerialInv' /\ absSuccesses' = absSuccesses
    BY <1>1, <1>3, <2>1, AllAtRest, RestIsSerial
  <2>3. absResets' = absResets + 1
    BY <2>1 DEF absResets
  <2>. QED
    BY <2>1, <2>2, <2>3, RowSeenNext DEF AbstractStep, Abstract!Next, Abstract!Reset
<1>4. CASE AllIdle /\ halfOpenAttempts = 0 /\ ResetCircuitBreaker
  <2>1. /\ row' = ClosedRow /\ halfOpenAttempts' = 0 /\ call' = call
        /\ resetting' = resetting /\ resets' = resets + 1
    BY <1>4 DEF ResetCircuitBreaker
  <2>2. SerialInv' /\ absSuccesses' = absSuccesses
    BY <1>1, <1>4, <2>1, AllAtRest, RestIsSerial
  <2>3. absResets' = absResets + 1
    BY <2>1 DEF absResets
  <2>. QED
    BY <2>1, <2>2, <2>3, RowSeenNext DEF AbstractStep, Abstract!Next, Abstract!Reset
<1>5. CASE Restart
  <2>1. /\ row' = row /\ halfOpenAttempts' = 0 /\ ~resetting' /\ resets' = resets
        /\ \A c \in Callers : call'[c] = IdleCall
    BY <1>5 DEF Restart
  <2>2. SerialInv' /\ absSuccesses' = 0
    BY <2>1, IdleFields, RestIsSerial
  <2>3. absResets' \in {absResets, absResets + 1}
    BY <2>1 DEF absResets
  <2>. QED
    BY <2>1, <2>2, <2>3, RowSeenNext DEF AbstractStep, Abstract!Next, Abstract!Forget
<1>6. CASE Tick
  <2>1. /\ row' = Sooner(row) /\ halfOpenAttempts' = halfOpenAttempts
        /\ resetting' = resetting /\ resets' = resets
        /\ call' = [c \in Callers |-> [call[c] EXCEPT !.seen = Sooner(@)]]
    BY <1>6 DEF Tick
  <2>2. \A c \in Callers :
           /\ call'[c].pc = call[c].pc /\ call'[c].mode = call[c].mode
           /\ call'[c].ok = call[c].ok /\ call'[c].attempts = call[c].attempts
           /\ call'[c].seen = Sooner(call[c].seen)
    <3>1. \A c \in Callers : call[c] \in Calls
      BY DEF TypeOK
    <3>. QED BY <2>1, <3>1 DEF Calls
  <2>3. /\ row'.state = row.state /\ (row = NoRow => row' = NoRow)
        /\ (row = ClosedRow => row' = ClosedRow) /\ (row.retryIn = 0 => row' = row)
    BY <2>1 DEF TypeOK, Sooner, Rows, NoRow, ClosedRow, NoDeadline
  <2>4. \A c \in Callers : CallMatches(call'[c], row', halfOpenAttempts')
    <3>1. \A c \in Callers : CallMatches(call[c], row, halfOpenAttempts)
      BY DEF SerialInv
    <3>2. \A c \in Callers : RowMatches(call'[c], row')
      BY <2>1, <2>2, <2>3, <3>1 DEF CallMatches, RowMatches
    <3>. QED BY <2>1, <2>2, <3>1, <3>2 DEF CallMatches, ModeMatches, AttemptsMatch
  <2>5. SerialInv'
    <3>1. (AllIdle' <=> AllIdle) /\ \A c \in Callers : OthersIdle(c)' <=> OthersIdle(c)
      BY <2>2 DEF AllIdle, OthersIdle, At
    <3>2. /\ AllIdle => Cleared(IdleCall, row', halfOpenAttempts')
          /\ \A c \in Callers :
                OthersIdle(c) => Cleared(call'[c], row', halfOpenAttempts')
      BY <2>1, <2>2, <2>3 DEF SerialInv, Cleared
    <3>3. \A c, d \in Callers : At(c, "idle")' \/ At(d, "idle")' \/ c = d
      BY <2>2 DEF SerialInv, At
    <3>4. resetting' => AllIdle' /\ halfOpenAttempts' = 0
      BY <2>1, <3>1 DEF SerialInv
    <3>. QED BY <2>4, <3>1, <3>2, <3>3, <3>4 DEF SerialInv
  <2>6. TestPending' <=> TestPending
    BY <2>2 DEF TestPending, Pending
  <2>7. absSuccesses' = absSuccesses /\ absResets' = absResets /\ absState' = absState
    BY <2>1, <2>3, <2>6 DEF absSuccesses, absResets, absState, TypeOK, Rows, NoRow, States
  <2>8. absLeft' = absLeft \/ (absLeft > 0 /\ absLeft' = absLeft - 1)
    BY <2>1, SoonerLeft DEF absLeft, NoDeadline
  <2>. QED BY <2>5, <2>7, <2>8 DEF AbstractStep, Abstract!Next, Abstract!Tick
<1>7. CASE UNCHANGED vars
  <2>1. SerialInv'
    BY <1>7 DEF vars, SerialInv, AllIdle, OthersIdle, At, CallMatches, RowMatches,
       ModeMatches, AttemptsMatch, Cleared
  <2>2. absSuccesses' = absSuccesses /\ absResets' = absResets
    BY <1>7 DEF vars, absSuccesses, absResets, TestPending, Pending
  <2>. QED BY <1>7, <2>1, <2>2, RowSeenNext DEF vars, AbstractStep
<1>. QED BY <1>2, <1>3, <1>4, <1>5, <1>6, <1>7 DEF SerialNext

-------------------------------------------------------------------------------
(* The refinement                                                          *)

LEMMA SerialStart == Init => Inv /\ Abstract!Init
<1>. SUFFICES ASSUME Init PROVE Inv /\ Abstract!Init
  OBVIOUS
<1>1. DeadlineInv
  BY InitType, PairedRows DEF Init, DeadlineInv, IdleCall
<1>2. /\ \A c \in Callers : call[c] = IdleCall
      /\ halfOpenAttempts = 0 /\ row = NoRow /\ ~resetting /\ resets = 0
  BY DEF Init
<1>3. ~TestPending
  BY <1>2, IdleFields DEF TestPending
<1>4. SerialInv
  BY <1>2, IdleFields
     DEF SerialInv, AllIdle, At, CallMatches, RowMatches, ModeMatches, AttemptsMatch, Cleared
<1>5. Abstract!Init
  BY <1>2, <1>3
     DEF Abstract!Init, absState, absLeft, absSuccesses, absResets, NoRow, NoDeadline
<1>. QED BY <1>1, <1>4, <1>5 DEF Inv

LEMMA SerialStep == Inv /\ [SerialNext]_vars => Inv' /\ AbstractStep
<1>. SUFFICES ASSUME Inv, [SerialNext]_vars PROVE Inv' /\ AbstractStep
  OBVIOUS
<1>1. DeadlineInv'
  BY SerialIsNext, DeadlineStep DEF Inv
<1>2. TypeOK' /\ faults' = faults
  BY <1>1 DEF DeadlineInv, SerialNext, vars
<1>3. CASE \E c \in Callers : OthersIdle(c) /\ ~resetting /\ CallStep(c)
  BY <1>1, <1>2, <1>3, CallSteps DEF Inv
<1>4. CASE ~(\E c \in Callers : OthersIdle(c) /\ ~resetting /\ CallStep(c))
  BY <1>1, <1>2, <1>4, OtherSteps DEF Inv
<1>. QED BY <1>3, <1>4

\* As long as calls do not overlap and statements do not fail, the code is the
\* three-state breaker of README.md, for every timeout, threshold and number of
\* tests: it opens only from Closed, tests only after the deadline, and closes
\* only after enough successful tests or by a reset.
THEOREM CodeIsTextbookBreaker == SerialSpec => ImplementsTextbook
<1>1. AbstractStep => [Abstract!Next]_Abstract!vars
  BY DEF AbstractStep, Abstract!vars
<1>. QED
  BY <1>1, SerialStart, SerialStep, PTL DEF SerialSpec, ImplementsTextbook, Abstract!Spec
===============================================================================
