--------------------------- MODULE BatchRun_proofs ---------------------------
(***************************************************************************)
(* Proofs about BatchRun, for any finite set of tasks and any number of    *)
(* redeliveries and faults.                                                *)
(***************************************************************************)
EXTENDS BatchRun, FiniteSetTheorems, TLAPS

Pcs == {"idle", "mark", "select", "next", "start", "call", "store", "fail", "close",
        "ack"}
AtATask == {"start", "call", "store", "fail"}

Types ==
    /\ batch \in [st: Statuses \ {"failed"}, completed: Nat, failed: Nat]
    /\ task \in [Tasks -> Statuses]
    /\ message \in {"none", "ready", "taken", "acked", "dead"}
    /\ creator \in {"new", "insert", "done"}
    /\ canceller \in {"new", "tasks", "done"}
    /\ consumer \in [pc: Pcs, todo: SUBSET Tasks, cur: SUBSET Tasks,
                     completed: Nat, failed: Nat]
    /\ deliveries \in Nat /\ faults \in 0..MaxFaults
    /\ runs \in [Tasks -> Nat] /\ withdrawn \subseteq Tasks

(* The consumer has one task at hand, or none.                             *)
HandInv ==
    IF consumer.pc \in AtATask
    THEN \E t \in Tasks : consumer.cur = {t} /\ t \notin consumer.todo
    ELSE consumer.cur = {}

(* What the row of a task says of its runs, and how it can differ from     *)
(* what the consumer remembers: only a cancellation may have come between. *)
TaskInv ==
    \A t \in Tasks :
        /\ runs[t] <= 1
        /\ task[t] \in {"absent", "pending", "cancelled"} => runs[t] = 0
        /\ t \in consumer.todo => task[t] \in {"pending", "cancelled"}
        /\ t \in consumer.cur =>
              /\ consumer.pc = "start" => task[t] \in {"pending", "cancelled"}
              /\ consumer.pc = "call" => task[t] = "running" /\ runs[t] = 0
              /\ consumer.pc = "store" => task[t] = "running"
              /\ consumer.pc = "fail" => task[t] # "completed"

(* A withdrawn task stays cancelled, and no consumer has it.               *)
WithdrawnInv ==
    \A t \in withdrawn :
        task[t] = "cancelled" /\ t \notin consumer.todo \cup consumer.cur

(* One consumer at a time.  Without a fault, a completed batch is not      *)
(* delivered again.                                                        *)
QueueInv ==
    /\ creator # "done" => message = "none"
    /\ message = "none" => deliveries = 0
    /\ message = "ready" => deliveries <= Retries
    /\ deliveries <= Retries + 1
    /\ consumer.pc # "idle" <=> message = "taken"
    /\ faults = 0 /\ batch.st = "completed" => message = "acked" \/ consumer.pc = "ack"

RunInv == Types /\ HandInv /\ TaskInv /\ WithdrawnInv /\ QueueInv

-----------------------------------------------------------------------------
LEMMA InitRunInv == Init => RunInv
<1> SUFFICES ASSUME Init PROVE RunInv
  OBVIOUS
<1> USE BatchAssumption DEF Init
<1>1. Types
  BY DEF Types, NoBatch, Statuses, Idle, Pcs
<1>2. HandInv
  BY DEF HandInv, Idle, AtATask
<1>3. TaskInv /\ WithdrawnInv
  BY DEF TaskInv, WithdrawnInv, Idle
<1>4. QueueInv
  BY DEF QueueInv, Idle, NoBatch
<1> QED
  BY <1>1, <1>2, <1>3, <1>4 DEF RunInv

(* The requests of the API.                                                *)
LEMMA RequestsKeepRunInv ==
    ASSUME RunInv,
           \/ Create \/ (\E t \in Tasks : InsertTask(t)) \/ Send \/ CreateThrows
           \/ Cancel \/ CancelTasks \/ CancelThrows
    PROVE  RunInv'
<1> USE BatchAssumption DEF RunInv
<1>1. CASE Create
  <2> USE <1>1 DEF Create, queue, history
  <2>1. Types'
    BY DEF Types, NoBatch, Statuses
  <2>2. HandInv' /\ TaskInv' /\ WithdrawnInv'
    BY DEF HandInv, TaskInv, WithdrawnInv
  <2>3. QueueInv'
    BY DEF QueueInv, NoBatch
  <2> QED
    BY <2>1, <2>2, <2>3
<1>2. ASSUME NEW t \in Tasks, InsertTask(t)
      PROVE  RunInv'
  <2> USE <1>2 DEF InsertTask, Becomes, queue, requests, history
  <2>1. Types'
    BY DEF Types, Statuses
  <2>2. HandInv'
    BY DEF HandInv
  <2>3. TaskInv' /\ WithdrawnInv'
    BY DEF TaskInv, WithdrawnInv, Types
  <2>4. QueueInv'
    BY DEF QueueInv
  <2> QED
    BY <2>1, <2>2, <2>3, <2>4
<1>3. CASE Send \/ CreateThrows \/ CancelThrows
  <2> USE <1>3 DEF Send, CreateThrows, CancelThrows, Fault, queue, history
  <2>1. Types'
    BY DEF Types
  <2>2. HandInv' /\ TaskInv' /\ WithdrawnInv'
    BY DEF HandInv, TaskInv, WithdrawnInv
  <2>3. QueueInv'
    BY DEF QueueInv, Types
  <2> QED
    BY <2>1, <2>2, <2>3
<1>4. CASE Cancel
  <2> USE <1>4 DEF Cancel, queue, history
  <2>1. Types'
    BY DEF Types, Statuses
  <2>2. HandInv' /\ TaskInv' /\ WithdrawnInv'
    BY DEF HandInv, TaskInv, WithdrawnInv
  <2>3. QueueInv'
    BY DEF QueueInv, Types
  <2> QED
    BY <2>1, <2>2, <2>3
<1>5. CASE CancelTasks
  <2> USE <1>5 DEF CancelTasks, Becomes, With, queue
  <2>1. Types'
    BY DEF Types, Statuses
  <2>2. HandInv' /\ QueueInv'
    BY DEF HandInv, QueueInv
  <2>3. TaskInv'
    BY DEF TaskInv, Types
  <2>4. WithdrawnInv'
    BY DEF WithdrawnInv, Types
  <2> QED
    BY <2>1, <2>2, <2>3, <2>4
<1> QED
  BY <1>1, <1>2, <1>3, <1>4, <1>5

(* The consumer, between two tasks.                                        *)
LEMMA QueueKeepsRunInv ==
    ASSUME RunInv, Receive \/ Mark \/ Select \/ LastTask \/ Close \/ Ack \/ Crash
    PROVE  RunInv'
<1> USE BatchAssumption DEF RunInv
<1>1. CASE Receive
  <2> USE <1>1 DEF Receive, Idle, requests, history
  <2>1. Types'
    BY DEF Types, Pcs
  <2>2. HandInv' /\ TaskInv' /\ WithdrawnInv'
    BY DEF HandInv, TaskInv, WithdrawnInv, AtATask
  <2>3. QueueInv'
    BY DEF QueueInv, Types
  <2> QED
    BY <2>1, <2>2, <2>3
<1>2. CASE Mark
  <2> USE <1>2 DEF Mark, At, Go, Fault, queue, requests, history
  <2>1. Types'
    BY DEF Types, Pcs, Statuses
  <2>2. HandInv' /\ TaskInv' /\ WithdrawnInv'
    BY DEF HandInv, TaskInv, WithdrawnInv, AtATask, Types
  <2>3. QueueInv'
    BY DEF QueueInv, Types
  <2> QED
    BY <2>1, <2>2, <2>3
<1>3. CASE Select
  <2> USE <1>3 DEF Select, Selected, With, At, queue, requests, history
  <2>1. Types'
    BY DEF Types, Pcs
  <2>2. HandInv'
    BY DEF HandInv, AtATask, Types
  <2>3. TaskInv' /\ WithdrawnInv'
    BY DEF TaskInv, WithdrawnInv, Types
  <2>4. QueueInv'
    BY DEF QueueInv, Types
  <2> QED
    BY <2>1, <2>2, <2>3, <2>4
<1>4. CASE LastTask
  <2> USE <1>4 DEF LastTask, At, Go, queue, requests, history
  <2>1. Types'
    BY DEF Types, Pcs
  <2>2. HandInv' /\ TaskInv' /\ WithdrawnInv'
    BY DEF HandInv, TaskInv, WithdrawnInv, AtATask, Types
  <2>3. QueueInv'
    BY DEF QueueInv, Types
  <2> QED
    BY <2>1, <2>2, <2>3
<1>5. CASE Close
  <2> USE <1>5 DEF Close, At, Go, Fault, queue, requests, history
  <2>1. Types'
    BY DEF Types, Pcs, Statuses
  <2>2. HandInv' /\ TaskInv' /\ WithdrawnInv'
    BY DEF HandInv, TaskInv, WithdrawnInv, AtATask, Types
  <2>3. QueueInv'
    BY DEF QueueInv, Types
  <2> QED
    BY <2>1, <2>2, <2>3
<1>6. CASE Ack \/ Crash
  <2> USE <1>6 DEF Ack, Crash, At, Fault, Idle, requests, history
  <2>1. Types'
    BY DEF Types, Pcs, Statuses
  <2>2. HandInv' /\ TaskInv' /\ WithdrawnInv'
    BY DEF HandInv, TaskInv, WithdrawnInv, AtATask
  <2>3. QueueInv'
    BY DEF QueueInv, Types
  <2> QED
    BY <2>1, <2>2, <2>3
<1> QED
  BY <1>1, <1>2, <1>3, <1>4, <1>5, <1>6

(* The consumer, at a task.  Only Call runs one, and only from Start, which *)
(* a task that ever ran does not reach.                                    *)
LEMMA TasksKeepRunInv ==
    ASSUME RunInv,
           \/ \E t \in Tasks : Gate(t) \/ NoCredit(t)
           \/ Start \/ Call \/ Store \/ Fail
    PROVE  RunInv'
<1> USE BatchAssumption DEF RunInv
<1>1. ASSUME NEW t \in Tasks, Gate(t)
      PROVE  RunInv'
  <2> USE <1>1 DEF Gate, At, queue, requests, history
  <2>1. Types'
    BY DEF Types, Pcs
  <2>2. HandInv'
    BY DEF HandInv, AtATask, Types
  <2>3. TaskInv' /\ WithdrawnInv'
    BY DEF TaskInv, WithdrawnInv, Types
  <2>4. QueueInv'
    BY DEF QueueInv, Types
  <2> QED
    BY <2>1, <2>2, <2>3, <2>4
<1>2. ASSUME NEW t \in Tasks, NoCredit(t)
      PROVE  RunInv'
  <2>1. PICK ts \in {{}, {t}, With("pending"), With("pending") \cup {t}} :
             Becomes(ts, "failed")
    BY <1>2 DEF NoCredit
  <2>2. faults' \in 0..MaxFaults /\ (faults' = 0 => faults = 0)
    BY <1>2 DEF NoCredit, Fault, Types
  <2> USE <1>2, <2>1, <2>2 DEF Becomes, With
  <2>3. Cardinality(consumer.todo) \in Nat
    BY FS_Subset, FS_CardinalityType DEF Types
  <2>4. /\ consumer' = [consumer EXCEPT !.pc = "close",
                           !.failed = @ + Cardinality(consumer.todo), !.todo = {}]
        /\ consumer.pc = "next" /\ t \in consumer.todo
        /\ UNCHANGED <<batch, queue, requests, history>>
    BY DEF NoCredit, At, RestFailed
  <2> HIDE <1>2
  <2> USE <2>3, <2>4 DEF queue, requests, history
  <2>5. Types'
    <3>1. consumer' \in [pc: Pcs, todo: SUBSET Tasks, cur: SUBSET Tasks,
                         completed: Nat, failed: Nat]
      <4>1. consumer.failed + Cardinality(consumer.todo) \in Nat
        BY DEF Types
      <4> QED
        BY <4>1 DEF Types, Pcs
    <3>2. task' \in [Tasks -> Statuses]
      BY DEF Types, Statuses
    <3> QED
      BY <3>1, <3>2 DEF Types
  <2>6. HandInv'
    BY DEF HandInv, AtATask, Types
  <2>7. TaskInv' /\ WithdrawnInv'
    BY DEF TaskInv, WithdrawnInv, HandInv, AtATask, Types
  <2>8. QueueInv'
    BY DEF QueueInv, Types
  <2> QED
    BY <2>5, <2>6, <2>7, <2>8
<1>3. CASE Start
  <2> USE <1>3 DEF Start, At, Go, Fault, Becomes, queue, requests, history
  <2>1. Types'
    BY DEF Types, Pcs, Statuses
  <2>2. HandInv'
    BY DEF HandInv, AtATask, Types
  <2>3. TaskInv'
    BY DEF TaskInv, HandInv, AtATask, Types
  <2>4. WithdrawnInv' /\ QueueInv'
    BY DEF WithdrawnInv, QueueInv, Types
  <2> QED
    BY <2>1, <2>2, <2>3, <2>4
<1>4. CASE Call
  <2> USE <1>4 DEF Call, At, Go, Fault, queue, requests
  <2>1. Types'
    BY DEF Types, Pcs
  <2>2. HandInv'
    BY DEF HandInv, AtATask, Types
  <2>3. TaskInv'
    BY DEF TaskInv, HandInv, AtATask, Types
  <2>4. WithdrawnInv' /\ QueueInv'
    BY DEF WithdrawnInv, QueueInv, Types
  <2> QED
    BY <2>1, <2>2, <2>3, <2>4
<1>5. CASE Store
  <2> USE DEF At, Go, Fault, Becomes, queue, requests, history
  <2>1. CASE Becomes(consumer.cur, "completed") /\ consumer' = CountCompleted /\ UNCHANGED faults
    <3> USE <1>5, <2>1 DEF Store
    <3>1. consumer' = [pc |-> "next", todo |-> consumer.todo, cur |-> {},
                       completed |-> consumer.completed + 1,
                       failed |-> consumer.failed]
      BY DEF CountCompleted, Types
    <3> HIDE <1>5, <2>1 DEF Store
    <3>2. /\ task' = [t \in Tasks |-> IF t \in consumer.cur THEN "completed" ELSE task[t]]
          /\ consumer.pc = "store"
          /\ UNCHANGED <<batch, queue, requests, faults, history>>
      BY <1>5, <2>1 DEF Store
    <3> USE <3>1, <3>2
    <3>3. Types' /\ HandInv'
      BY DEF Types, Pcs, Statuses, HandInv, AtATask
    <3>4. TaskInv'
      BY DEF TaskInv, HandInv, AtATask, Types
    <3>5. WithdrawnInv' /\ QueueInv'
      BY DEF WithdrawnInv, QueueInv, Types
    <3> QED
      BY <3>3, <3>4, <3>5
  <2>2. CASE Fault /\ Go("fail") /\ UNCHANGED task
    <3> USE <1>5, <2>2 DEF Store
    <3>1. Types' /\ HandInv'
      BY DEF Types, Pcs, HandInv, AtATask
    <3>2. TaskInv' /\ WithdrawnInv' /\ QueueInv'
      BY DEF TaskInv, WithdrawnInv, QueueInv, Types
    <3> QED
      BY <3>1, <3>2
  <2> QED
    BY <1>5, <2>1, <2>2 DEF Store
<1>6. CASE Fail
  <2> USE DEF At, Fault, Becomes, queue, requests, history
  <2>1. consumer' = [pc |-> "next", todo |-> consumer.todo, cur |-> {},
                     completed |-> consumer.completed,
                     failed |-> consumer.failed + 1]
    BY <1>6 DEF Fail, CountFailed, Types
  <2>2. /\ \/ task' = [t \in Tasks |-> IF t \in consumer.cur THEN "failed" ELSE task[t]]
           \/ task' = task
        /\ faults' \in 0..MaxFaults /\ (faults' = 0 => faults = 0)
        /\ consumer.pc = "fail"
        /\ UNCHANGED <<batch, queue, requests, history>>
    BY <1>6 DEF Fail, Types
  <2> USE <2>1, <2>2
  <2>3. Types' /\ HandInv'
    BY DEF Types, Pcs, Statuses, HandInv, AtATask
  <2>4. TaskInv'
    BY DEF TaskInv, HandInv, AtATask, Types
  <2>5. WithdrawnInv' /\ QueueInv'
    BY DEF WithdrawnInv, QueueInv, Types
  <2> QED
    BY <2>3, <2>4, <2>5
<1> QED
  BY <1>1, <1>2, <1>3, <1>4, <1>5, <1>6

LEMMA NextRunInv == RunInv /\ [Next]_vars => RunInv'
<1> SUFFICES ASSUME RunInv, [Next]_vars PROVE RunInv'
  OBVIOUS
<1>1. CASE Next
  BY <1>1, RequestsKeepRunInv, QueueKeepsRunInv, TasksKeepRunInv DEF Next, Consume
<1>2. CASE UNCHANGED vars
  BY <1>2 DEF vars, queue, requests, history, RunInv, Types, HandInv, TaskInv,
              WithdrawnInv, QueueInv
<1> QED
  BY <1>1, <1>2

LEMMA RunInvariant == Spec => []RunInv
  BY InitRunInv, NextRunInv, PTL DEF Spec

(* No crash of a consumer and no redelivery of the message makes the       *)
(* runtime run a task a second time.                                       *)
THEOREM TasksRunOnce == Spec => []TaskRunOnce
<1>1. RunInv => TaskRunOnce
  BY DEF RunInv, TaskInv, TaskRunOnce
<1> QED
  BY <1>1, RunInvariant, PTL

(* A task cancelled before a consumer had it is not run, though a later    *)
(* delivery takes the batch up again.                                      *)
THEOREM WithdrawnNeverRuns == Spec => []WithdrawnNotRun
<1>1. RunInv => WithdrawnNotRun
  BY DEF RunInv, Types, TaskInv, WithdrawnInv, WithdrawnNotRun
<1> QED
  BY <1>1, RunInvariant, PTL

-----------------------------------------------------------------------------
(* The counts.  What a consumer has counted, and what it has left to count, *)
(* fits into the tasks; and the tasks it counts as completed are among the *)
(* completed ones: all of them when no fault has made it start again.      *)
Completed == Cardinality(With("completed"))

ConsumerCounts ==
    /\ consumer.pc \in {"idle", "mark", "select"} =>
          consumer.completed = 0 /\ consumer.failed = 0 /\ consumer.todo = {}
    /\ consumer.completed + consumer.failed + Cardinality(consumer.todo)
         + Cardinality(consumer.cur) <= Cardinality(Tasks)
    /\ consumer.completed <= Completed

BatchCounts ==
    /\ batch.completed + batch.failed <= Cardinality(Tasks)
    /\ batch.completed <= Completed

ExactCounts ==
    faults = 0 =>
        /\ message \in {"none", "ready"} => Completed = 0
        /\ consumer.pc # "idle" => consumer.completed = Completed
        /\ batch.st = "completed" => batch.completed = Completed

CountInv == ConsumerCounts /\ BatchCounts /\ ExactCounts

LEMMA FiniteParts ==
    ASSUME NEW S, S \subseteq Tasks
    PROVE  /\ IsFiniteSet(S)
           /\ Cardinality(S) \in Nat
           /\ Cardinality(S) <= Cardinality(Tasks)
           /\ Cardinality(Tasks) \in Nat
  BY BatchAssumption, FS_Subset, FS_CardinalityType

LEMMA CompletedType == Completed \in Nat
<1>1. With("completed") \subseteq Tasks
  BY DEF With
<1> QED
  BY <1>1, FiniteParts DEF Completed

(* A step that completes no task and undoes no completion.                 *)
LEMMA CompletedKept ==
    ASSUME \A t \in Tasks : task'[t] = "completed" <=> task[t] = "completed"
    PROVE  Completed' = Completed
<1>1. With("completed")' = With("completed")
  BY DEF With
<1> QED
  BY <1>1 DEF Completed

LEMMA InitCountInv == Init => CountInv
<1> SUFFICES ASSUME Init PROVE CountInv
  OBVIOUS
<1>1. With("completed") = {}
  BY DEF Init, With
<1>2. Completed = 0
  BY <1>1, FS_EmptySet DEF Completed
<1>3. Cardinality(Tasks) \in Nat
  BY FiniteParts
<1> QED
  BY <1>2, <1>3, FS_EmptySet
     DEF Init, CountInv, ConsumerCounts, BatchCounts, ExactCounts, Idle, NoBatch

(* The steps that leave the consumer's counts and the batch's alone.       *)
LEMMA OthersKeepCountInv ==
    ASSUME RunInv, CountInv,
           \/ Create \/ (\E t \in Tasks : InsertTask(t)) \/ Send \/ CreateThrows
           \/ Cancel \/ CancelTasks \/ CancelThrows \/ Receive \/ Mark
    PROVE  CountInv'
<1> USE DEF RunInv, Types
<1>1. Completed' = Completed
  <2>1. \A t \in Tasks : task'[t] = "completed" <=> task[t] = "completed"
    BY DEF Create, InsertTask, Send, CreateThrows, Cancel, CancelTasks, CancelThrows,
           Receive, Mark, Becomes, With
  <2> QED
    BY <2>1, CompletedKept
<1>2. Completed \in Nat /\ Cardinality(Tasks) \in Nat /\ Cardinality({}) = 0
  BY CompletedType, FiniteParts, FS_EmptySet
<1>3. ConsumerCounts'
  <2>1. CASE consumer' = consumer
    BY <1>1, <2>1 DEF CountInv, ConsumerCounts
  <2>2. CASE consumer' = [Idle EXCEPT !.pc = "mark"]
    BY <1>1, <1>2, <2>2 DEF ConsumerCounts, Idle
  <2>3. CASE Mark
    BY <1>1, <2>3 DEF Mark, At, Go, CountInv, ConsumerCounts
  <2> QED
    BY <2>1, <2>2, <2>3
       DEF Create, InsertTask, Send, CreateThrows, Cancel, CancelTasks, CancelThrows,
           Receive
<1>4. BatchCounts'
  <2>1. CASE batch'.completed = batch.completed /\ batch'.failed = batch.failed
    BY <1>1, <2>1 DEF CountInv, BatchCounts
  <2>2. CASE Create
    BY <1>1, <1>2, <2>2 DEF Create, NoBatch, BatchCounts
  <2>3. CASE Cancel \/ Mark
    BY <2>1, <2>3 DEF Cancel, Mark
  <2> QED
    BY <2>1, <2>2, <2>3
       DEF InsertTask, Send, CreateThrows, CancelTasks, CancelThrows, Receive
<1>5. ExactCounts'
  <2> SUFFICES ASSUME faults' = 0
               PROVE  /\ message' \in {"none", "ready"} => Completed = 0
                      /\ consumer'.pc # "idle" => consumer'.completed = Completed
                      /\ batch'.st = "completed" => batch'.completed = Completed
    BY <1>1 DEF ExactCounts
  <2>1. CASE Create \/ (\E t \in Tasks : InsertTask(t)) \/ Send \/ Cancel \/ CancelTasks
    BY <2>1 DEF CountInv, ExactCounts, QueueInv, Create, InsertTask, Send, Cancel,
                CancelTasks, NoBatch, queue
  <2>2. CASE Receive
    BY <2>2 DEF CountInv, ExactCounts, QueueInv, Receive, Idle
  <2>3. CASE Mark
    BY <2>3 DEF CountInv, ExactCounts, Mark, At, Go, Fault, queue
  <2>4. CASE CreateThrows \/ CancelThrows
    BY <2>4 DEF CreateThrows, CancelThrows, Fault
  <2> QED
    BY <2>1, <2>2, <2>3, <2>4
<1> QED
  BY <1>3, <1>4, <1>5 DEF CountInv

(* The steps of the consumer between two tasks.                            *)
LEMMA QueueKeepsCountInv ==
    ASSUME RunInv, CountInv, Select \/ LastTask \/ Close \/ Ack \/ Crash
    PROVE  CountInv'
<1> USE DEF RunInv, Types
<1>1. Completed' = Completed
  <2>1. task' = task
    BY DEF Select, LastTask, Close, Ack, Crash
  <2> QED
    BY <2>1, CompletedKept
<1>2. Completed \in Nat /\ Cardinality(Tasks) \in Nat /\ Cardinality({}) = 0
  BY CompletedType, FiniteParts, FS_EmptySet
<1>3. CASE Select
  <2>1. /\ consumer.pc = "select" /\ consumer.cur = {}
        /\ consumer.completed = 0 /\ consumer.failed = 0
    BY <1>3 DEF Select, At, CountInv, ConsumerCounts, HandInv, AtATask
  <2>2. /\ Selected \subseteq Tasks
        /\ consumer' = [consumer EXCEPT !.pc = "next", !.todo = Selected]
        /\ UNCHANGED <<batch, message, faults>>
    BY <1>3 DEF Select, Selected, With, queue
  <2>3. Cardinality(Selected) \in Nat /\ Cardinality(Selected) <= Cardinality(Tasks)
    BY <2>2, FiniteParts
  <2>4. ConsumerCounts'
    <3>1. /\ consumer'.pc = "next" /\ consumer'.cur = {} /\ consumer'.todo = Selected
          /\ consumer'.completed = 0 /\ consumer'.failed = 0
      BY <2>1, <2>2
    <3> QED
      BY <1>1, <1>2, <2>3, <3>1 DEF ConsumerCounts
  <2>5. BatchCounts' /\ ExactCounts'
    BY <1>1, <2>1, <2>2 DEF CountInv, BatchCounts, ExactCounts
  <2> QED
    BY <2>4, <2>5 DEF CountInv
<1>4. CASE LastTask
  BY <1>1, <1>4
     DEF LastTask, At, Go, queue, CountInv, ConsumerCounts, BatchCounts, ExactCounts
<1>5. CASE Close
  <2>1. /\ consumer.pc = "close"
        /\ consumer' = [consumer EXCEPT !.pc = "ack"]
        /\ Cardinality(consumer.todo) \in Nat /\ Cardinality(consumer.cur) \in Nat
        /\ message' = message
        /\ faults' = 0 => faults = 0
    BY <1>5, FiniteParts DEF Close, At, Go, Fault, queue
  <2>2. ConsumerCounts'
    BY <1>1, <2>1 DEF CountInv, ConsumerCounts
  <2>3. BatchCounts'
    BY <1>1, <1>2, <1>5, <2>1 DEF Close, CountInv, ConsumerCounts, BatchCounts
  <2>4. ExactCounts'
    BY <1>1, <1>5, <2>1 DEF Close, Fault, CountInv, ExactCounts
  <2> QED
    BY <2>2, <2>3, <2>4 DEF CountInv
<1>6. CASE Ack
  BY <1>1, <1>2, <1>6
     DEF Ack, Idle, CountInv, ConsumerCounts, BatchCounts, ExactCounts
<1>7. CASE Crash
  BY <1>1, <1>2, <1>7
     DEF Crash, Fault, Idle, CountInv, ConsumerCounts, BatchCounts, ExactCounts
<1> QED
  BY <1>3, <1>4, <1>5, <1>6, <1>7

(* A task moves from those left to the one at hand to one of the counts.   *)
LEMMA TasksKeepCountInv ==
    ASSUME RunInv, CountInv,
           \/ \E t \in Tasks : Gate(t) \/ NoCredit(t)
           \/ Start \/ Call \/ Store \/ Fail
    PROVE  CountInv'
<1> USE DEF RunInv, Types
<1>1. /\ Completed \in Nat /\ Cardinality(Tasks) \in Nat /\ Cardinality({}) = 0
      /\ IsFiniteSet(consumer.todo) /\ Cardinality(consumer.todo) \in Nat
      /\ Cardinality(consumer.cur) \in Nat
      /\ \A t \in Tasks : Cardinality({t}) = 1
  BY CompletedType, FiniteParts, FS_EmptySet, FS_Singleton
<1>2. ASSUME NEW t \in Tasks, Gate(t)
      PROVE  CountInv'
  <2>1. Completed' = Completed
    BY <1>2, CompletedKept DEF Gate
  <2>2. consumer.cur = {}
    BY <1>2 DEF Gate, At, HandInv, AtATask
  <2>3. Cardinality(consumer.todo \ {t}) = Cardinality(consumer.todo) - 1
    BY <1>1, <1>2, FS_RemoveElement DEF Gate
  <2>4. ConsumerCounts'
    <3>1. /\ consumer'.pc = "start" /\ consumer'.cur = {t}
          /\ consumer'.todo = consumer.todo \ {t}
          /\ consumer'.completed = consumer.completed
          /\ consumer'.failed = consumer.failed
      BY <1>2 DEF Gate
    <3>2. Cardinality(consumer'.todo) = Cardinality(consumer.todo) - 1
          /\ Cardinality(consumer'.cur) = 1
      BY <1>1, <2>3, <3>1
    <3> QED
      BY <1>1, <2>1, <2>2, <3>1, <3>2 DEF CountInv, ConsumerCounts
  <2>5. BatchCounts' /\ ExactCounts'
    BY <1>2, <2>1 DEF Gate, At, queue, CountInv, BatchCounts, ExactCounts
  <2> QED
    BY <2>4, <2>5 DEF CountInv
<1>3. ASSUME NEW t \in Tasks, NoCredit(t)
      PROVE  CountInv'
  <2>1. PICK ts \in {{}, {t}, With("pending"), With("pending") \cup {t}} :
             Becomes(ts, "failed")
    BY <1>3 DEF NoCredit
  <2>2. Completed' = Completed
    BY <1>3, <2>1, CompletedKept DEF NoCredit, Becomes, With, TaskInv
  <2>3. /\ consumer.pc = "next"
        /\ consumer' = [consumer EXCEPT !.pc = "close",
                           !.failed = @ + Cardinality(consumer.todo), !.todo = {}]
        /\ faults' = 0 => faults = 0
        /\ UNCHANGED <<batch, message>>
    BY <1>3 DEF NoCredit, At, RestFailed, Fault, queue
  <2>4. ConsumerCounts'
    <3>1. /\ consumer'.pc = "close" /\ consumer'.todo = {} /\ consumer'.cur = consumer.cur
          /\ consumer'.completed = consumer.completed
          /\ consumer'.failed = consumer.failed + Cardinality(consumer.todo)
      BY <2>3
    <3> QED
      BY <1>1, <2>2, <3>1 DEF CountInv, ConsumerCounts
  <2>5. BatchCounts' /\ ExactCounts'
    BY <2>2, <2>3 DEF CountInv, BatchCounts, ExactCounts
  <2> QED
    BY <2>4, <2>5 DEF CountInv
<1>4. CASE Start \/ Call
  <2>1. \A t \in Tasks : task'[t] = "completed" <=> task[t] = "completed"
    BY <1>4 DEF Start, Call, At, Becomes, TaskInv
  <2>2. Completed' = Completed
    BY <2>1, CompletedKept
  <2>3. /\ consumer.pc \in {"start", "call"}
        /\ \E pc \in {"call", "store", "fail"} : consumer' = [consumer EXCEPT !.pc = pc]
        /\ faults' = 0 => faults = 0
        /\ UNCHANGED <<batch, message>>
    BY <1>4 DEF Start, Call, At, Go, Fault, queue
  <2> QED
    BY <2>2, <2>3 DEF CountInv, ConsumerCounts, BatchCounts, ExactCounts
<1>5. CASE Store
  <2>1. PICK t \in Tasks : consumer.cur = {t}
    BY <1>5 DEF Store, At, HandInv, AtATask
  <2>2. consumer.pc = "store" /\ task[t] = "running" /\ UNCHANGED <<batch, message>>
    BY <1>5, <2>1 DEF Store, At, TaskInv, queue
  <2>3. CASE Becomes({t}, "completed") /\ consumer' = CountCompleted /\ UNCHANGED faults
    <3>1. With("completed")' = With("completed") \cup {t} /\ t \notin With("completed")
      BY <2>2, <2>3 DEF Becomes, With
    <3>2. IsFiniteSet(With("completed"))
      BY FiniteParts DEF With
    <3>3. Completed' = Completed + 1
      BY <3>1, <3>2, FS_AddElement DEF Completed
    <3>4. /\ consumer'.pc = "next" /\ consumer'.cur = {} /\ consumer'.todo = consumer.todo
          /\ consumer'.completed = consumer.completed + 1
          /\ consumer'.failed = consumer.failed
      BY <2>3 DEF CountCompleted
    <3>5. ConsumerCounts'
      BY <1>1, <2>1, <3>3, <3>4 DEF CountInv, ConsumerCounts
    <3>6. BatchCounts'
      BY <1>1, <2>2, <3>3 DEF CountInv, BatchCounts
    <3>7. ExactCounts'
      BY <2>2, <2>3, <3>3, <3>4 DEF CountInv, ExactCounts, QueueInv
    <3> QED
      BY <3>5, <3>6, <3>7 DEF CountInv
  <2>4. CASE Fault /\ Go("fail") /\ UNCHANGED task
    <3>1. Completed' = Completed
      BY <2>4, CompletedKept
    <3> QED
      BY <2>2, <2>4, <3>1
         DEF Fault, Go, CountInv, ConsumerCounts, BatchCounts, ExactCounts
  <2> QED
    BY <1>5, <2>1, <2>3, <2>4 DEF Store
<1>6. CASE Fail
  <2>1. PICK t \in Tasks : consumer.cur = {t}
    BY <1>6 DEF Fail, At, HandInv, AtATask
  <2>2. \A u \in Tasks : task'[u] = "completed" <=> task[u] = "completed"
    BY <1>6, <2>1 DEF Fail, At, Becomes, TaskInv
  <2>3. Completed' = Completed
    BY <2>2, CompletedKept
  <2>4. /\ consumer.pc = "fail" /\ consumer'.pc = "next" /\ consumer'.cur = {}
        /\ consumer'.todo = consumer.todo
        /\ consumer'.completed = consumer.completed
        /\ consumer'.failed = consumer.failed + 1
        /\ UNCHANGED <<batch, message>>
    BY <1>6 DEF Fail, At, CountFailed, queue
  <2>5. faults' = 0 => faults = 0
    BY <1>6 DEF Fail, Fault
  <2>6. ConsumerCounts'
    BY <1>1, <2>1, <2>3, <2>4 DEF CountInv, ConsumerCounts
  <2>7. BatchCounts' /\ ExactCounts'
    BY <2>3, <2>4, <2>5 DEF CountInv, BatchCounts, ExactCounts
  <2> QED
    BY <2>6, <2>7 DEF CountInv
<1> QED
  BY <1>2, <1>3, <1>4, <1>5, <1>6

LEMMA NextCountInv == RunInv /\ CountInv /\ [Next]_vars => CountInv'
<1> SUFFICES ASSUME RunInv, CountInv, [Next]_vars PROVE CountInv'
  OBVIOUS
<1>1. CASE Next
  BY <1>1, OthersKeepCountInv, QueueKeepsCountInv, TasksKeepCountInv DEF Next, Consume
<1>2. CASE UNCHANGED vars
  BY <1>2 DEF vars, queue, requests, history, CountInv, ConsumerCounts, BatchCounts,
              ExactCounts, Completed, With
<1> QED
  BY <1>1, <1>2

LEMMA CountInvariant == Spec => []CountInv
  BY InitCountInv, NextCountInv, RunInvariant, PTL DEF Spec

(* A completed batch never claims more completed tasks than the rows of    *)
(* its tasks show, and claims all of them when nothing threw or died.      *)
THEOREM CountsAreHonest == Spec => []CountsHonest
<1>1. CountInv => CountsHonest
  BY DEF CountInv, BatchCounts, ExactCounts, Completed, CountsHonest
<1> QED
  BY <1>1, CountInvariant, PTL

(* Every variable keeps its type, the counts included.                     *)
THEOREM TypeCorrect == Spec => []TypeOK
<1>1. RunInv /\ CountInv => TypeOK
  <2> SUFFICES ASSUME RunInv, CountInv PROVE TypeOK
    OBVIOUS
  <2>1. /\ Cardinality(Tasks) \in Nat
        /\ Cardinality(consumer.todo) \in Nat /\ Cardinality(consumer.cur) \in Nat
    BY FiniteParts DEF RunInv, Types
  <2>2. batch \in [st: Statuses \ {"failed"}, completed: 0..Cardinality(Tasks),
                   failed: 0..Cardinality(Tasks)]
    BY <2>1 DEF RunInv, Types, CountInv, BatchCounts
  <2>3. consumer.completed + consumer.failed \in 0..Cardinality(Tasks)
    BY <2>1 DEF RunInv, Types, CountInv, ConsumerCounts
  <2>4. Cardinality(consumer.cur) <= 1
    <3>1. consumer.cur = {} \/ \E t \in Tasks : consumer.cur = {t}
      BY DEF RunInv, HandInv
    <3>2. Cardinality(consumer.cur) \in {0, 1}
      BY <3>1, FS_EmptySet, FS_Singleton
    <3> QED
      BY <3>2
  <2>5. deliveries \in 0..(Retries + 1)
    BY BatchAssumption DEF RunInv, Types, QueueInv
  <2> QED
    BY <2>2, <2>3, <2>4, <2>5 DEF RunInv, Types, TypeOK, Pcs
<1> QED
  BY <1>1, RunInvariant, CountInvariant, PTL
=============================================================================
