-------------------------- MODULE Recording_proofs --------------------------
(***************************************************************************)
(* Proofs about Recording for any records, sizes and bounds: what a         *)
(* deletion and a shutdown promise, and that every step is one of CallLog   *)
(* or none of its business.  CallLog's fairness is checked by TLC only.     *)
(***************************************************************************)
EXTENDS Recording, TLAPS

Holding == {"insert", "recent", "trim", "daily"}
AfterPush == {"pop", "insert", "recent", "trim", "daily", "stopped"}

(* A record is in one place after the other, and in none before its call is *)
(* over; what was counted is in none any more.                              *)
InOnePlace ==
    /\ \A r \in queue \cup pending \cup buffer \cup batch : call[r] = "over"
    /\ \A r \in queue : r \notin pending /\ r \notin buffer /\ r \notin batch
    /\ \A r \in pending : r \notin buffer /\ r \notin batch
    /\ \A r \in buffer : r \notin batch
    /\ worker \notin Holding => batch = {}
    /\ \A r \in Records : daily[r] # 0 => call[r] = "over" /\ ~InFlight(r)

(* The times of deletions, and where records older than the last may be.    *)
CutOff ==
    /\ cleared <= dropBefore /\ dropBefore < clock
    /\ deletion.pc = "drop" => dropBefore <= deletion.cutoff /\ deletion.cutoff < clock
    /\ deletion.pc = "delete" => deletion.cutoff = dropBefore
    /\ Locked => \A r \in batch : at[r] > dropBefore
    /\ \A r \in recent : call[r] = "over" /\ at[r] > cleared

(* What has left the queue before the cancellation never returns to it.     *)
Drains ==
    /\ worker \in AfterPush => pending = {}
    /\ worker = "stopped" => final
    /\ final => cancelled /\ early \cap queue = {}
    /\ \A r \in early : call[r] = "over"

RecordingInv == TypeOK /\ InOnePlace /\ CutOff /\ Drains

LEMMA TypeInit == Init => TypeOK
<1> SUFFICES ASSUME Init PROVE TypeOK
  OBVIOUS
<1>1. /\ at \in [Records -> 1..MaxDeletions + 1] /\ clock \in 1..MaxDeletions + 1
      /\ dropBefore \in 0..MaxDeletions /\ cleared \in 0..MaxDeletions
      /\ deletion \in [pc : {"idle", "drop", "delete"}, cutoff : 0..MaxDeletions]
      /\ spent \in [faults : 0..MaxFaults, exits : 0..MaxExits]
  BY RecordingAssumption DEF Init
<1> QED
  BY <1>1 DEF Init, TypeOK

LEMMA InvInit == Init => RecordingInv
<1> SUFFICES ASSUME Init PROVE RecordingInv
  OBVIOUS
<1>1. TypeOK
  BY TypeInit
<1>2. InOnePlace
  BY DEF Init, InOnePlace, Holding
<1>3. CutOff
  BY DEF Init, CutOff, Locked
<1>4. Drains
  BY DEF Init, Drains, AfterPush
<1> QED
  BY <1>1, <1>2, <1>3, <1>4 DEF RecordingInv

(* A call that fails uses up one fault, or has a cancelled context.         *)
LEMMA Spending ==
    ASSUME TypeOK
    PROVE  /\ Fails => spent' \in [faults : 0..MaxFaults, exits : 0..MaxExits]
           /\ WorkerFails => spent' \in [faults : 0..MaxFaults, exits : 0..MaxExits]
BY RecordingAssumption DEF Fails, WorkerFails, TypeOK

LEMMA TypeNext ==
    ASSUME TypeOK, [Next]_vars
    PROVE  TypeOK'
<1> USE RecordingAssumption
<1>1. ASSUME NEW r \in Records, Call(r) PROVE TypeOK'
  BY <1>1 DEF Call, TypeOK
<1>2. ASSUME NEW r \in Records, RecordAsync(r) PROVE TypeOK'
  BY <1>2 DEF RecordAsync, TypeOK
<1>3. ASSUME NEW r \in Records, Enqueue(r) PROVE TypeOK'
  BY <1>3 DEF Enqueue, TypeOK
<1>4. CASE Take
  BY <1>4 DEF Take, TypeOK
<1>5. CASE Tick
  BY <1>5 DEF Tick, TypeOK
<1>6. CASE Shutdown
  BY <1>6 DEF Shutdown, TypeOK
<1>7. CASE PushToBuffer
  BY <1>7, Spending DEF PushToBuffer, TypeOK
<1>8. CASE PopBatch
  BY <1>8 DEF PopBatch, TypeOK, Flushed
<1>9. CASE PopFails
  BY <1>9, Spending DEF PopFails, TypeOK, Flushed
<1>10. CASE Insert
  BY <1>10 DEF Insert, TypeOK, Flushed
<1>11. CASE AppendRecords
  BY <1>11, Spending DEF AppendRecords, TypeOK
<1>12. CASE Trim
  BY <1>12 DEF Trim, TypeOK
<1>13. CASE TrimFails
  BY <1>13, Spending DEF TrimFails, TypeOK
<1>14. CASE InsertDaily
  BY <1>14, Spending DEF InsertDaily, TypeOK, Flushed
<1>15. CASE ClearRecords
  BY <1>15 DEF ClearRecords, TypeOK
<1>16. CASE DropBefore
  BY <1>16 DEF DropBefore, TypeOK
<1>17. CASE ClearRecordsBefore
  BY <1>17, Spending DEF ClearRecordsBefore, TypeOK
<1>18. CASE Cleanup
  BY <1>18 DEF Cleanup, process, TypeOK
<1>19. CASE Cancel
  BY <1>19 DEF Cancel, TypeOK
<1>20. CASE Exit
  <2>1. spent' \in [faults : 0..MaxFaults, exits : 0..MaxExits]
    BY <1>20 DEF Exit, TypeOK
  <2>2. deletion' \in [pc : {"idle", "drop", "delete"}, cutoff : 0..MaxDeletions]
    BY <1>20 DEF Exit
  <2>3. call' \in [Records -> {"none", "made", "checked", "over"}]
    BY <1>20 DEF Exit
  <2> QED
    BY <1>20, <2>1, <2>2, <2>3 DEF Exit, TypeOK
<1>21. CASE UNCHANGED vars
  BY <1>21 DEF vars, TypeOK
<1> QED
  BY <1>1, <1>2, <1>3, <1>4, <1>5, <1>6, <1>7, <1>8, <1>9, <1>10, <1>11, <1>12,
     <1>13, <1>14, <1>15, <1>16, <1>17, <1>18, <1>19, <1>20, <1>21 DEF Next, Work

LEMMA OnePlaceNext ==
    ASSUME TypeOK, InOnePlace, [Next]_vars
    PROVE  InOnePlace'
<1> USE DEF TypeOK, InOnePlace, InFlight, Holding
<1>1. ASSUME NEW r \in Records, Call(r) PROVE InOnePlace'
  BY <1>1 DEF Call
<1>2. ASSUME NEW r \in Records, RecordAsync(r) PROVE InOnePlace'
  BY <1>2 DEF RecordAsync
<1>3. ASSUME NEW r \in Records, Enqueue(r) PROVE InOnePlace'
  BY <1>3 DEF Enqueue
<1>4. CASE Take
  BY <1>4 DEF Take
<1>5. CASE Tick
  BY <1>5 DEF Tick
<1>6. CASE Shutdown
  BY <1>6 DEF Shutdown
<1>7. CASE PushToBuffer
  BY <1>7 DEF PushToBuffer
<1>8. CASE PopBatch
  BY <1>8 DEF PopBatch, Flushed
<1>9. CASE PopFails
  BY <1>9 DEF PopFails, Flushed
<1>10. CASE Insert
  BY <1>10 DEF Insert, Flushed
<1>11. CASE AppendRecords
  BY <1>11 DEF AppendRecords
<1>12. CASE Trim
  BY <1>12 DEF Trim
<1>13. CASE TrimFails
  BY <1>13 DEF TrimFails
<1>14. CASE InsertDaily
  BY <1>14 DEF InsertDaily, Flushed
<1>15. CASE ClearRecords
  BY <1>15 DEF ClearRecords
<1>16. CASE DropBefore
  BY <1>16 DEF DropBefore
<1>17. CASE ClearRecordsBefore
  BY <1>17 DEF ClearRecordsBefore
<1>18. CASE Cleanup
  BY <1>18 DEF Cleanup, process
<1>19. CASE Cancel
  BY <1>19 DEF Cancel
<1>20. CASE Exit
  BY <1>20 DEF Exit
<1>21. CASE UNCHANGED vars
  BY <1>21 DEF vars
<1> QED
  BY <1>1, <1>2, <1>3, <1>4, <1>5, <1>6, <1>7, <1>8, <1>9, <1>10, <1>11, <1>12,
     <1>13, <1>14, <1>15, <1>16, <1>17, <1>18, <1>19, <1>20, <1>21 DEF Next, Work

(* While the lock of deletions is held for reading, dropBefore stands.      *)
LEMMA CutOffNext ==
    ASSUME TypeOK, InOnePlace, CutOff, [Next]_vars
    PROVE  CutOff'
<1> USE DEF TypeOK, InOnePlace, CutOff, Locked, Holding
<1>1. ASSUME NEW r \in Records, Call(r) PROVE CutOff'
  BY <1>1 DEF Call
<1>2. ASSUME NEW r \in Records, RecordAsync(r) PROVE CutOff'
  BY <1>2 DEF RecordAsync
<1>3. ASSUME NEW r \in Records, Enqueue(r) PROVE CutOff'
  BY <1>3 DEF Enqueue
<1>4. CASE Take
  BY <1>4 DEF Take
<1>5. CASE Tick
  BY <1>5 DEF Tick
<1>6. CASE Shutdown
  BY <1>6 DEF Shutdown
<1>7. CASE PushToBuffer
  BY <1>7 DEF PushToBuffer
<1>8. CASE PopBatch
  BY <1>8 DEF PopBatch, Flushed
<1>9. CASE PopFails
  BY <1>9 DEF PopFails, Flushed
<1>10. CASE Insert
  BY <1>10 DEF Insert, Flushed, ShouldDrop
<1>11. CASE AppendRecords
  BY <1>11 DEF AppendRecords
<1>12. CASE Trim
  BY <1>12 DEF Trim
<1>13. CASE TrimFails
  BY <1>13 DEF TrimFails
<1>14. CASE InsertDaily
  BY <1>14 DEF InsertDaily, Flushed
<1>15. CASE ClearRecords
  BY <1>15 DEF ClearRecords
<1>16. CASE DropBefore
  BY <1>16 DEF DropBefore
<1>17. CASE ClearRecordsBefore
  BY <1>17 DEF ClearRecordsBefore
<1>18. CASE Cleanup
  BY <1>18 DEF Cleanup, process
<1>19. CASE Cancel
  BY <1>19 DEF Cancel
<1>20. CASE Exit
  BY <1>20 DEF Exit
<1>21. CASE UNCHANGED vars
  BY <1>21 DEF vars
<1> QED
  BY <1>1, <1>2, <1>3, <1>4, <1>5, <1>6, <1>7, <1>8, <1>9, <1>10, <1>11, <1>12,
     <1>13, <1>14, <1>15, <1>16, <1>17, <1>18, <1>19, <1>20, <1>21 DEF Next, Work

LEMMA DrainsNext ==
    ASSUME TypeOK, Drains, [Next]_vars
    PROVE  Drains'
<1> USE DEF TypeOK, Drains, AfterPush
<1>1. ASSUME NEW r \in Records, Call(r) PROVE Drains'
  BY <1>1 DEF Call
<1>2. ASSUME NEW r \in Records, RecordAsync(r) PROVE Drains'
  BY <1>2 DEF RecordAsync
<1>3. ASSUME NEW r \in Records, Enqueue(r) PROVE Drains'
  BY <1>3 DEF Enqueue
<1>4. CASE Take
  BY <1>4 DEF Take
<1>5. CASE Tick
  BY <1>5 DEF Tick
<1>6. CASE Shutdown
  BY <1>6 DEF Shutdown
<1>7. CASE PushToBuffer
  BY <1>7 DEF PushToBuffer
<1>8. CASE PopBatch
  BY <1>8 DEF PopBatch, Flushed
<1>9. CASE PopFails
  BY <1>9 DEF PopFails, Flushed
<1>10. CASE Insert
  BY <1>10 DEF Insert, Flushed
<1>11. CASE AppendRecords
  BY <1>11 DEF AppendRecords
<1>12. CASE Trim
  BY <1>12 DEF Trim
<1>13. CASE TrimFails
  BY <1>13 DEF TrimFails
<1>14. CASE InsertDaily
  BY <1>14 DEF InsertDaily, Flushed
<1>15. CASE ClearRecords
  BY <1>15 DEF ClearRecords
<1>16. CASE DropBefore
  BY <1>16 DEF DropBefore
<1>17. CASE ClearRecordsBefore
  BY <1>17 DEF ClearRecordsBefore
<1>18. CASE Cleanup
  BY <1>18 DEF Cleanup, process
<1>19. CASE Cancel
  BY <1>19 DEF Cancel
<1>20. CASE Exit
  BY <1>20 DEF Exit
<1>21. CASE UNCHANGED vars
  BY <1>21 DEF vars
<1> QED
  BY <1>1, <1>2, <1>3, <1>4, <1>5, <1>6, <1>7, <1>8, <1>9, <1>10, <1>11, <1>12,
     <1>13, <1>14, <1>15, <1>16, <1>17, <1>18, <1>19, <1>20, <1>21 DEF Next, Work

LEMMA InvNext ==
    ASSUME RecordingInv, [Next]_vars
    PROVE  RecordingInv'
BY TypeNext, OnePlaceNext, CutOffNext, DrainsNext DEF RecordingInv

(***************************************************************************)
(* The refinement.  Every step leaves the stages of CallLog alone, offers   *)
(* one record, or settles some, of which only those of the batch that is    *)
(* inserted are counted; the retention forgets settled ones.                *)
(***************************************************************************)
Settles == \A r \in Records :
    Stage'[r] = Stage[r] \/ (Stage[r] = "offered" /\ Stage'[r] = "settled")

LEMMA StageOf ==
    ASSUME NEW r \in Records
    PROVE  /\ Stage[r] = IF call[r] = "none" THEN "new"
                         ELSE IF InFlight(r) THEN "offered" ELSE "settled"
           /\ Stage'[r] = IF call'[r] = "none" THEN "new"
                          ELSE IF InFlight(r)' THEN "offered" ELSE "settled"
BY DEF Stage

LEMMA SettlesStep ==
    ASSUME TypeOK, Settles, NEW C \in SUBSET Records,
           \A r \in C : Stage[r] = "offered" /\ Stage'[r] = "settled",
           daily' = [r \in Records |-> IF r \in C THEN daily[r] + 1 ELSE daily[r]]
    PROVE  [Log!Next]_<<Stage, daily>>
<1> DEFINE S == {r \in Records : Stage[r] = "offered" /\ Stage'[r] = "settled"}
<1>1. CASE S = {}
  <2>1. Stage' = Stage
    BY <1>1 DEF Settles, Stage
  <2>2. daily' = daily
    BY <1>1 DEF TypeOK
  <2> QED
    BY <2>1, <2>2
<1>2. CASE S # {}
  <2>1. \A r \in Records : Stage'[r] = IF r \in S THEN "settled" ELSE Stage[r]
    BY DEF Settles
  <2>2. Stage' = [r \in Records |-> IF r \in S THEN "settled" ELSE Stage[r]]
    BY <2>1 DEF Stage
  <2>3. C \in SUBSET S
    OBVIOUS
  <2>4. Log!Settle(S, C)
    BY <1>2, <2>2, <2>3 DEF Log!Settle
  <2> QED
    BY <2>3, <2>4 DEF Log!Next
<1> QED
  BY <1>1, <1>2

(* A step that counts nothing.                                              *)
LEMMA SettlesOnly ==
    ASSUME TypeOK, Settles, daily' = daily
    PROVE  [Log!Next]_<<Stage, daily>>
<1>1. daily' = [r \in Records |-> IF r \in {} THEN daily[r] + 1 ELSE daily[r]]
  BY DEF TypeOK
<1>2. {} \in SUBSET Records /\ \A r \in {} : Stage[r] = "offered" /\ Stage'[r] = "settled"
  OBVIOUS
<1> QED
  BY <1>1, <1>2, SettlesStep, Zenon

LEMMA StepSimulation ==
    ASSUME TypeOK, InOnePlace, [Next]_vars
    PROVE  [Log!Next]_<<Stage, daily>>
<1> USE DEF TypeOK, InFlight
<1>1. ASSUME NEW r \in Records, Call(r) PROVE [Log!Next]_<<Stage, daily>>
  <2>1. Stage[r] = "new" /\ Stage'[r] = "offered"
    BY <1>1, StageOf DEF Call
  <2>2. \A q \in Records \ {r} : Stage'[q] = Stage[q]
    BY <1>1, StageOf DEF Call
  <2>3. Stage' = [Stage EXCEPT ![r] = "offered"]
    BY <2>1, <2>2 DEF Stage
  <2>4. Log!Offer(r)
    BY <1>1, <2>1, <2>3 DEF Log!Offer, Call
  <2> QED
    BY <2>4 DEF Log!Next
<1>2. ASSUME NEW r \in Records, RecordAsync(r) PROVE [Log!Next]_<<Stage, daily>>
  <2>1. Settles
    BY <1>2, StageOf DEF RecordAsync, Settles
  <2> QED
    BY <1>2, <2>1, SettlesOnly DEF RecordAsync
<1>3. ASSUME NEW r \in Records, Enqueue(r) PROVE [Log!Next]_<<Stage, daily>>
  <2>1. Settles
    BY <1>3, StageOf DEF Enqueue, Settles
  <2> QED
    BY <1>3, <2>1, SettlesOnly DEF Enqueue
<1>4. CASE Take
  <2>1. Settles
    BY <1>4, StageOf DEF Take, Settles
  <2> QED
    BY <1>4, <2>1, SettlesOnly DEF Take
<1>5. CASE Tick
  <2>1. Settles
    BY <1>5, StageOf DEF Tick, Settles
  <2> QED
    BY <1>5, <2>1, SettlesOnly DEF Tick
<1>6. CASE Shutdown
  <2>1. Settles
    BY <1>6, StageOf DEF Shutdown, Settles
  <2> QED
    BY <1>6, <2>1, SettlesOnly DEF Shutdown
<1>7. CASE PushToBuffer
  <2>1. Settles
    BY <1>7, StageOf DEF PushToBuffer, Settles, InOnePlace, Holding
  <2> QED
    BY <1>7, <2>1, SettlesOnly DEF PushToBuffer
<1>8. CASE PopBatch
  <2>1. Settles
    BY <1>8, StageOf DEF PopBatch, Settles, InOnePlace, Holding
  <2> QED
    BY <1>8, <2>1, SettlesOnly DEF PopBatch
<1>9. CASE PopFails
  <2>1. Settles
    BY <1>9, StageOf DEF PopFails, Settles
  <2> QED
    BY <1>9, <2>1, SettlesOnly DEF PopFails
<1>10. CASE Insert
  <2>1. Settles
    BY <1>10, StageOf DEF Insert, Settles, InOnePlace, Holding
  <2> QED
    BY <1>10, <2>1, SettlesOnly DEF Insert
<1>11. CASE AppendRecords
  <2>1. Settles
    BY <1>11, StageOf DEF AppendRecords, Settles
  <2> QED
    BY <1>11, <2>1, SettlesOnly DEF AppendRecords
<1>12. CASE Trim
  <2>1. Settles
    BY <1>12, StageOf DEF Trim, Settles
  <2> QED
    BY <1>12, <2>1, SettlesOnly DEF Trim
<1>13. CASE TrimFails
  <2>1. Settles
    BY <1>13, StageOf DEF TrimFails, Settles
  <2> QED
    BY <1>13, <2>1, SettlesOnly DEF TrimFails
<1>14. CASE InsertDaily
  <2>1. \A r \in batch : Stage[r] = "offered" /\ Stage'[r] = "settled"
    BY <1>14, StageOf DEF InsertDaily, InOnePlace
  <2>2. Settles
    BY <1>14, StageOf DEF InsertDaily, InOnePlace, Settles
  <2>3. CASE daily' = daily
    BY <2>2, <2>3, SettlesOnly
  <2>4. CASE daily' = [r \in Records |-> daily[r] + IF r \in batch THEN 1 ELSE 0]
    <3>1. daily' = [r \in Records |-> IF r \in batch THEN daily[r] + 1 ELSE daily[r]]
      BY <2>4
    <3> QED
      BY <2>1, <2>2, <3>1, SettlesStep
  <2> QED
    BY <1>14, <2>3, <2>4 DEF InsertDaily
<1>15. CASE ClearRecords
  <2>1. Settles
    BY <1>15, StageOf DEF ClearRecords, Settles
  <2> QED
    BY <1>15, <2>1, SettlesOnly DEF ClearRecords
<1>16. CASE DropBefore
  <2>1. Settles
    BY <1>16, StageOf DEF DropBefore, Settles
  <2> QED
    BY <1>16, <2>1, SettlesOnly DEF DropBefore
<1>17. CASE ClearRecordsBefore
  <2>1. Settles
    BY <1>17, StageOf DEF ClearRecordsBefore, Settles
  <2> QED
    BY <1>17, <2>1, SettlesOnly DEF ClearRecordsBefore
<1>18. CASE Cancel
  <2>1. Settles
    BY <1>18, StageOf DEF Cancel, Settles
  <2> QED
    BY <1>18, <2>1, SettlesOnly DEF Cancel
<1>19. CASE Exit
  <2>1. Settles
    BY <1>19, StageOf DEF Exit, Settles
  <2> QED
    BY <1>19, <2>1, SettlesOnly DEF Exit
<1>20. CASE Cleanup
  <2>1. PICK day \in 1..clock :
           daily' = [r \in Records |-> IF at[r] < day THEN 0 ELSE daily[r]]
    BY <1>20 DEF Cleanup
  <2> DEFINE S == {r \in Records : at[r] < day /\ daily[r] # 0}
  <2>2. \A r \in S : Stage[r] = "settled"
    BY StageOf DEF InOnePlace
  <2>3. \A r \in Records : Stage'[r] = Stage[r]
    BY <1>20, StageOf DEF Cleanup, process
  <2>4. Stage' = Stage
    BY <2>3 DEF Stage
  <2>5. daily' = [r \in Records |-> IF r \in S THEN 0 ELSE daily[r]]
    BY <2>1
  <2>6. CASE S = {}
    <3>1. daily' = daily
      BY <2>5, <2>6
    <3> QED
      BY <2>4, <3>1
  <2>7. CASE S # {}
    <3>1. Log!Forget(S)
      BY <2>2, <2>4, <2>5, <2>7 DEF Log!Forget
    <3> QED
      BY <3>1 DEF Log!Next
  <2> QED
    BY <2>6, <2>7
<1>21. CASE UNCHANGED vars
  <2>1. \A r \in Records : Stage'[r] = Stage[r]
    BY <1>21, StageOf DEF vars
  <2> QED
    BY <1>21, <2>1 DEF vars, Stage
<1> QED
  BY <1>1, <1>2, <1>3, <1>4, <1>5, <1>6, <1>7, <1>8, <1>9, <1>10, <1>11, <1>12,
      <1>13, <1>14, <1>15, <1>16, <1>17, <1>18, <1>19, <1>20, <1>21 DEF Next, Work

LEMMA InitSimulation == Init => Log!Init
BY DEF Init, Log!Init, Stage

(* Whatever the bounds: where records, deletions and clocks may be.         *)
THEOREM TypeCorrect == Spec => []TypeOK
<1>1. Init => RecordingInv
  BY InvInit
<1>2. RecordingInv /\ [Next]_vars => RecordingInv'
  BY InvNext
<1>3. RecordingInv => TypeOK
  BY DEF RecordingInv
<1> QED
  BY <1>1, <1>2, <1>3, PTL DEF Spec

(* ClearRecords wins against RecordAsync, the queue, the buffer and a batch *)
(* being written (dropBefore, dropMu).                                      *)
THEOREM ClearedStayGone == Spec => []ClearedRecordsStayGone
<1>1. Init => RecordingInv
  BY InvInit
<1>2. RecordingInv /\ [Next]_vars => RecordingInv'
  BY InvNext
<1>3. RecordingInv => ClearedRecordsStayGone
  BY DEF RecordingInv, CutOff, ClearedRecordsStayGone
<1> QED
  BY <1>1, <1>2, <1>3, PTL DEF Spec

(* A worker that has stopped has drained what was queued before (shutdown). *)
THEOREM StoppedIsDrained == Spec => []StopsDrained
<1>1. Init => RecordingInv
  BY InvInit
<1>2. RecordingInv /\ [Next]_vars => RecordingInv'
  BY InvNext
<1>3. RecordingInv => StopsDrained
  BY DEF RecordingInv, InOnePlace, Holding, Drains, AfterPush, StopsDrained
<1> QED
  BY <1>1, <1>2, <1>3, PTL DEF Spec

(* The recorder implements CallLog: no record is counted twice, before its  *)
(* call, or after it was given up, through crashes, failing calls,          *)
(* deletions, retention and shutdown alike.                                 *)
THEOREM ImplementsCallLog == Spec => Log!Spec
<1>1. Init => RecordingInv
  BY InvInit
<1>2. RecordingInv /\ [Next]_vars => RecordingInv'
  BY InvNext
<1>3. Init => Log!Init
  BY InitSimulation
<1>4. RecordingInv /\ [Next]_vars => [Log!Next]_<<Stage, daily>>
  BY StepSimulation DEF RecordingInv
<1> QED
  BY <1>1, <1>2, <1>3, <1>4, PTL DEF Spec, Log!Spec
=============================================================================
