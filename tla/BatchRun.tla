------------------------------ MODULE BatchRun ------------------------------
(***************************************************************************)
(* One batch of agent runs: its creation and cancellation                  *)
(* (routes/batch-api.ts) and the batch_run branch of the queue consumer    *)
(* (control-plane/src/index.ts).                                           *)
(*                                                                         *)
(* Nothing is in a transaction.  The consumer takes the pending tasks into *)
(* memory and runs them one after the other; when it dies the queue hands  *)
(* the message to another one, until its retries are used up.  The credit  *)
(* gate and the runtime may answer anything.                               *)
(***************************************************************************)
EXTENDS Integers, FiniteSets

CONSTANTS
    Tasks,
    Retries,     \* max_retries of the queue
    MaxFaults    \* bound on the statements and calls that throw

ASSUME BatchAssumption ==
    /\ IsFiniteSet(Tasks)
    /\ Retries \in Nat /\ MaxFaults \in Nat

VARIABLES
    batch,       \* the row of batch_jobs
    task,        \* status of each row of batch_tasks
    message,     \* where the batch_run message is
    creator, canceller, \* the two requests of the API
    consumer,    \* local state: the tasks left and at hand, the two counts
    deliveries,  \* attempts of the message
    faults,      \* the bound's counter
    runs,        \* history: calls of the runtime for each task
    withdrawn    \* history: tasks cancelled before a consumer had taken them

requests == <<creator, canceller>>
queue == <<message, deliveries>>
history == <<runs, withdrawn>>
vars == <<batch, task, queue, requests, consumer, faults, history>>

NoBatch == [st |-> "absent", completed |-> 0, failed |-> 0]
Statuses == {"absent", "pending", "running", "completed", "failed", "cancelled"}
Idle == [pc |-> "idle", todo |-> {}, cur |-> {}, completed |-> 0, failed |-> 0]

TypeOK ==
    /\ batch \in [st: Statuses \ {"failed"}, completed: 0..Cardinality(Tasks),
                  failed: 0..Cardinality(Tasks)]
    /\ task \in [Tasks -> Statuses]
    /\ message \in {"none", "ready", "taken", "acked", "dead"}
    /\ creator \in {"new", "insert", "done"}
    /\ canceller \in {"new", "tasks", "done"}
    /\ consumer.pc \in {"idle", "mark", "select", "next", "start", "call", "store",
                        "fail", "close", "ack"}
    /\ consumer.todo \subseteq Tasks
    /\ consumer.cur \subseteq Tasks /\ Cardinality(consumer.cur) <= 1
    /\ consumer.completed + consumer.failed \in 0..Cardinality(Tasks)
    /\ deliveries \in 0..(Retries + 1)
    /\ faults \in 0..MaxFaults
    /\ runs \in [Tasks -> Nat]
    /\ withdrawn \subseteq Tasks

Init ==
    /\ batch = NoBatch
    /\ task = [t \in Tasks |-> "absent"]
    /\ message = "none" /\ deliveries = 0
    /\ creator = "new" /\ canceller = "new"
    /\ consumer = Idle
    /\ faults = 0
    /\ runs = [t \in Tasks |-> 0]
    /\ withdrawn = {}

-----------------------------------------------------------------------------
Fault == faults < MaxFaults /\ faults' = faults + 1
At(pc) == consumer.pc = pc
Go(pc) == consumer' = [consumer EXCEPT !.pc = pc]
With(st) == {t \in Tasks : task[t] = st}
Becomes(ts, st) == task' = [t \in Tasks |-> IF t \in ts THEN st ELSE task[t]]

(* Conditions that a plausible mistake would change, each preceded by the  *)
(* form the mistake would give it.                                         *)
AlsoRunning == With("pending") \cup With("running")
AlsoCancelled == With("pending") \cup With("cancelled")
Selected == With("pending")

AllFailed == Cardinality(consumer.todo) + consumer.completed
RestFailed == Cardinality(consumer.todo)

-----------------------------------------------------------------------------
(* The creating request: the row of the batch, the rows of its tasks one   *)
(* by one, the message.  When one of them throws, what is there stays.     *)
Create ==
    /\ creator = "new"
    /\ batch' = [NoBatch EXCEPT !.st = "pending"]
    /\ creator' = "insert"
    /\ UNCHANGED <<task, queue, canceller, consumer, faults, history>>

InsertTask(t) ==
    /\ creator = "insert" /\ task[t] = "absent"
    /\ Becomes({t}, "pending")
    /\ UNCHANGED <<batch, queue, requests, consumer, faults, history>>

Send ==
    /\ creator = "insert" /\ With("absent") = {}
    /\ message' = "ready"
    /\ creator' = "done"
    /\ UNCHANGED <<batch, task, deliveries, canceller, consumer, faults, history>>

CreateThrows ==
    /\ creator = "insert" /\ Fault
    /\ creator' = "done"
    /\ UNCHANGED <<batch, task, queue, canceller, consumer, history>>

(* The cancelling request: the batch if it is pending or running, then its *)
(* pending tasks.                                                          *)
Cancel ==
    /\ canceller = "new" /\ batch.st \in {"pending", "running"}
    /\ batch' = [batch EXCEPT !.st = "cancelled"]
    /\ canceller' = "tasks"
    /\ UNCHANGED <<task, queue, creator, consumer, faults, history>>

CancelTasks ==
    /\ canceller = "tasks"
    /\ Becomes(With("pending"), "cancelled")
    /\ withdrawn' = With("pending") \ (consumer.todo \cup consumer.cur)
    /\ canceller' = "done"
    /\ UNCHANGED <<batch, queue, creator, consumer, faults, runs>>

CancelThrows ==
    /\ canceller = "tasks" /\ Fault
    /\ canceller' = "done"
    /\ UNCHANGED <<batch, task, queue, creator, consumer, history>>

-----------------------------------------------------------------------------
Receive ==
    /\ message = "ready"
    /\ message' = "taken"
    /\ deliveries' = deliveries + 1
    /\ consumer' = [Idle EXCEPT !.pc = "mark"]
    /\ UNCHANGED <<batch, task, requests, faults, history>>

(* The batch is running, whatever it was; the error is caught.             *)
Mark ==
    /\ At("mark")
    /\ \/ batch' = [batch EXCEPT !.st = "running"] /\ UNCHANGED faults
       \/ Fault /\ UNCHANGED batch
    /\ Go("select")
    /\ UNCHANGED <<task, queue, requests, history>>

Select ==
    /\ At("select")
    /\ consumer' = [consumer EXCEPT !.pc = "next", !.todo = Selected]
    /\ UNCHANGED <<batch, task, queue, requests, faults, history>>

(* For each task the credit gate is asked.  Enough, or no answer: the task *)
(* is the next one to run.                                                 *)
Gate(t) ==
    /\ At("next") /\ t \in consumer.todo
    /\ consumer' = [consumer EXCEPT !.pc = "start", !.cur = {t},
                                    !.todo = @ \ {t}]
    /\ UNCHANGED <<batch, task, queue, requests, faults, history>>

(* Not enough: this task and all pending ones fail, if that can be written,*)
(* and the rest is counted as failed.                                      *)
NoCredit(t) ==
    /\ At("next") /\ t \in consumer.todo
    /\ \/ Becomes(With("pending") \cup {t}, "failed") /\ UNCHANGED faults
       \/ Fault /\ \E ts \in {{}, {t}, With("pending")} : Becomes(ts, "failed")
    /\ consumer' = [consumer EXCEPT !.pc = "close", !.failed = @ + RestFailed,
                                    !.todo = {}]
    /\ UNCHANGED <<batch, queue, requests, history>>

Start ==
    /\ At("start")
    /\ \/ Becomes(consumer.cur, "running") /\ Go("call") /\ UNCHANGED faults
       \/ Fault /\ Go("fail") /\ UNCHANGED task
    /\ UNCHANGED <<batch, queue, requests, history>>

(* The runtime is called; the call may throw after the agent has run.      *)
Call ==
    /\ At("call")
    /\ runs' = [t \in Tasks |-> IF t \in consumer.cur THEN runs[t] + 1 ELSE runs[t]]
    /\ \/ Go("store") /\ UNCHANGED faults
       \/ Fault /\ Go("fail")
    /\ UNCHANGED <<batch, task, queue, requests, withdrawn>>

CountCompleted == [consumer EXCEPT !.pc = "next", !.cur = {}, !.completed = @ + 1]
CountAnyway == [consumer EXCEPT !.pc = "next", !.cur = {}, !.failed = @ + 1,
                                 !.completed = @ + 1]
CountFailed == [consumer EXCEPT !.pc = "next", !.cur = {}, !.failed = @ + 1]

(* Its answer is stored, and its cost is deducted without waiting for it   *)
(* (CreditLedger).                                                         *)
Store ==
    /\ At("store")
    /\ \/ Becomes(consumer.cur, "completed") /\ consumer' = CountCompleted
          /\ UNCHANGED faults
       \/ Fault /\ Go("fail") /\ UNCHANGED task
    /\ UNCHANGED <<batch, queue, requests, history>>

(* What threw is caught: the task has failed, if that can be written.      *)
Fail ==
    /\ At("fail")
    /\ \/ Becomes(consumer.cur, "failed") /\ UNCHANGED faults
       \/ Fault /\ UNCHANGED task
    /\ consumer' = CountFailed
    /\ UNCHANGED <<batch, queue, requests, history>>

LastTask ==
    /\ At("next") /\ consumer.todo = {}
    /\ Go("close")
    /\ UNCHANGED <<batch, task, queue, requests, faults, history>>

(* The batch is completed, whatever it was, with the counts of this        *)
(* delivery, if that can be written.                                       *)
Close ==
    /\ At("close")
    /\ \/ /\ batch' = [st |-> "completed", completed |-> consumer.completed,
                       failed |-> consumer.failed]
          /\ UNCHANGED faults
       \/ Fault /\ UNCHANGED batch
    /\ Go("ack")
    /\ UNCHANGED <<task, queue, requests, history>>

(* The callback is delivered, which changes nothing here, and then the     *)
(* message is acknowledged.  A consumer that dies before that has its      *)
(* completed batch delivered once more: it is running again, and completed *)
(* with the counts of that delivery, zero if no task was left pending.     *)
Ack ==
    /\ At("ack")
    /\ message' = "acked"
    /\ consumer' = Idle
    /\ UNCHANGED <<batch, task, deliveries, requests, faults, history>>

(* The consumer is evicted, or its SELECT throws.                          *)
Crash ==
    /\ ~At("idle") /\ Fault
    /\ message' = IF deliveries <= Retries THEN "ready" ELSE "dead"
    /\ consumer' = Idle
    /\ UNCHANGED <<batch, task, deliveries, requests, history>>

Consume ==
    \/ Mark \/ Select \/ \E t \in Tasks : Gate(t) \/ NoCredit(t)
    \/ Start \/ Call \/ Store \/ Fail \/ LastTask \/ Close
    \/ Ack

Next ==
    \/ Create \/ (\E t \in Tasks : InsertTask(t)) \/ Send \/ CreateThrows
    \/ Cancel \/ CancelTasks \/ CancelThrows
    \/ Receive \/ Consume \/ Crash

Spec == Init /\ [][Next]_vars

-----------------------------------------------------------------------------
(* A task is sent to the runtime at most once, over crashes of the consumer *)
(* and redeliveries of the message: it is marked as running before the     *)
(* call, and never taken up again.  (One that was running when the consumer *)
(* died stays running for ever: index.ts:610.)                             *)
TaskRunOnce == \A t \in Tasks : runs[t] <= 1

(* A task that was cancelled before a consumer had taken it into memory is *)
(* never run, also when a later delivery revives the batch.                *)
WithdrawnNotRun == \A t \in withdrawn : runs[t] = 0

(* A completed batch does not claim more completed tasks than the rows of  *)
(* its tasks show, whatever died, threw or was delivered again, and claims *)
(* all of them when no consumer was evicted and nothing threw.             *)
CountsHonest ==
    batch.st = "completed" =>
        /\ batch.completed <= Cardinality(With("completed"))
        /\ faults = 0 => batch.completed = Cardinality(With("completed"))
=============================================================================
