------------------------------ MODULE Training ------------------------------
(***************************************************************************)
(* The training of one agent: the jobs and steps of routes/training.ts and *)
(* the training_step messages that chain steps (index.ts, queue).          *)
(*                                                                         *)
(* A step evaluates the active prompt, has an algorithm write the next one *)
(* and stores it as a new version.  It is a long list of single SQL        *)
(* statements without a transaction; steps of the same agent run beside    *)
(* each other.  A prompt is known by its version: version 0 is what the    *)
(* agent had when its first job was created, and the UNIQUE constraint of  *)
(* training_resources lets a version be written once.  The agent is taken  *)
(* to have a prompt by then; an empty one gets no version 0                *)
(* (training.ts:168).                                                      *)
(***************************************************************************)
EXTENDS Integers, FiniteSetsExt

CONSTANTS
    Jobs,
    Steps,         \* concurrent callers of the routes, and queue consumers
    Scores,        \* the rewards an evaluation may give
    MaxIterations, \* training_jobs.max_iterations
    MaxPosts,      \* bound on the requests of a behaviour
    MaxClaims,     \* bound on the iterations of a job
    MaxCrashes     \* bound on the evictions (below the queue's three retries)

ASSUME TrainingAssumption ==
    /\ Scores \subseteq Nat /\ Scores # {} /\ IsFiniteSet(Scores)
    /\ MaxIterations \in Nat \ {0}
    /\ MaxPosts \in Nat
    /\ MaxClaims \in Nat /\ MaxClaims >= MaxIterations
    /\ MaxCrashes \in 0..3
    /\ IsFiniteSet(Steps)

VARIABLES
    job,        \* the rows of training_jobs
    iteration,  \* the rows of training_iterations, by job and number
    resource,   \* the rows of training_resources, by version
    prompt,     \* the version that agents.config_json has
    step,       \* local state of each request
    messages,   \* training_step messages in the queue
    posts, crashes, \* the bounds' counters
    counted,    \* history: iterations that reached their job's row
    overlapped, \* history: jobs read by a step while another was under way
    settled     \* history: jobs cancelled while no request was under way

rows == <<job, iteration, resource, prompt>>
bounds == <<posts, crashes>>
history == <<counted, overlapped, settled>>
vars == <<rows, step, messages, bounds, history>>

Null == -1
Numbers == 1..MaxClaims
Versions == 0..(MaxClaims + 1)
Absent == [st |-> "absent"]

Statuses == {"created", "running", "completed", "cancelled", "failed"}
Rows == [st: Statuses, at: 0..MaxClaims, best: Scores \cup {Null},
         bestIter: Numbers \cup {Null}, bestVer: Versions \cup {Null}]
Evaluated == [st: {"optimizing", "completed"}, score: Scores,
              tested: Versions]
NotEvaluated == [st |-> "failed"]
Resources == [of: Jobs, active: BOOLEAN]

(* best, bestIter and bestVer are what the request read of its job,        *)
(* created whether it found it new; cur is the active version it found.    *)
Idle == [pc |-> "idle"]
Routes == [pc: {"mark", "send", "load"}, job: Jobs, auto: BOOLEAN]
Stepping == [pc: {"claim", "start", "open", "deactivate", "insert",
                  "apply", "complete", "finish", "activate", "reply"},
             job: Jobs, auto: BOOLEAN, created: BOOLEAN, n: 0..MaxClaims,
             best: Scores \cup {Null}, bestIter: Numbers \cup {Null},
             bestVer: Versions \cup {Null},
             cur: Versions \cup {Null}, score: Scores \cup {Null}]

TypeOK ==
    /\ job \in [Jobs -> {Absent} \cup Rows]
    /\ iteration \in [Jobs \X Numbers -> {Absent, NotEvaluated} \cup Evaluated]
    /\ resource \in [Versions -> {Absent} \cup Resources]
    /\ prompt \in Versions
    /\ step \in [Steps -> {Idle} \cup Routes \cup Stepping]
    /\ messages \in [Jobs -> Nat]
    /\ posts \in 0..MaxPosts /\ crashes \in 0..MaxCrashes
    /\ counted \subseteq Jobs \X Numbers
    /\ overlapped \subseteq Jobs /\ settled \subseteq Jobs

Init ==
    /\ job = [j \in Jobs |-> Absent]
    /\ iteration = [p \in Jobs \X Numbers |-> Absent]
    /\ resource = [v \in Versions |-> Absent]
    /\ prompt = 0
    /\ step = [s \in Steps |-> Idle]
    /\ messages = [j \in Jobs |-> 0]
    /\ posts = 0 /\ crashes = 0
    /\ counted = {} /\ overlapped = {} /\ settled = {}

-----------------------------------------------------------------------------
At(s, pc) == step[s].pc = pc
Go(s, pc) == step' = [step EXCEPT ![s].pc = pc]
Return(s) == step' = [step EXCEPT ![s] = Idle]
Busy(j) == {s \in Steps : step[s] # Idle /\ step[s].job = j}
Past(j) == {s \in Busy(j) : ~(step[s].pc \in {"mark", "send", "load", "claim"})}

(* Conditions that a plausible mistake would change, each preceded by the  *)
(* form the mistake would give it.                                         *)
UnclaimedNow(s) == TRUE
Unclaimed(s) == job[step[s].job].at = step[s].n

OverCompleted(st) == st = "completed"
Over(st) == st \in {"completed", "cancelled"}

IsBestAlways(s) == TRUE
IsBest(s) == step[s].score > step[s].best

NextFree(s) == Max({v \in Versions : resource[v] # Absent} \cup {0}) + 1
NextVersion(s) == IF step[s].cur = Null THEN 1 ELSE step[s].cur + 1

MayContinueAlways(n) == TRUE
MayContinue(n) == n < MaxIterations

TestedRaw(v) == v
Tested(v) == Max({v, 0})

-----------------------------------------------------------------------------
Post == posts < MaxPosts /\ posts' = posts + 1

(* POST /jobs: one transaction.  The snapshot of the prompt is skipped     *)
(* when the agent already has a version 0.                                 *)
Create(j) ==
    /\ job[j] = Absent
    /\ job' = [job EXCEPT ![j] = [st |-> "created", at |-> 0, best |-> Null,
                                  bestIter |-> Null, bestVer |-> Null]]
    /\ resource' = IF resource[0] # Absent THEN resource
                   ELSE [resource EXCEPT ![0] = [of |-> j, active |-> TRUE]]
    /\ UNCHANGED <<iteration, prompt, step, messages, bounds, history>>

(* POST /jobs/{id}/cancel.                                                 *)
Cancel(j) ==
    /\ job[j].st \in {"created", "running"}
    /\ job' = [job EXCEPT ![j].st = "cancelled"]
    /\ settled' = IF Busy(j) = {} THEN settled \cup {j} ELSE settled
    /\ UNCHANGED <<iteration, resource, prompt, step, messages, bounds,
                   counted, overlapped>>

(* POST /jobs/{id}/auto-step: read the status, mark a new job as running,  *)
(* send the first message.                                                 *)
PostAuto(s, j) ==
    /\ step[s] = Idle /\ job[j] # Absent /\ Post
    /\ ~Over(job[j].st)
    /\ step' = [step EXCEPT ![s] =
                  [pc |-> IF job[j].st = "created" THEN "mark" ELSE "send",
                   job |-> j, auto |-> FALSE]]
    /\ UNCHANGED <<rows, messages, crashes, history>>

MarkRunning(s) ==
    /\ At(s, "mark")
    /\ job' = [job EXCEPT ![step[s].job].st = "running"]
    /\ Go(s, "send")
    /\ UNCHANGED <<iteration, resource, prompt, messages, bounds, history>>

Send(s) ==
    /\ At(s, "send")
    /\ messages' = [messages EXCEPT ![step[s].job] = @ + 1]
    /\ Return(s)
    /\ UNCHANGED <<rows, bounds, history>>

(* The queue hands a message to a consumer, which drops it unless the job  *)
(* is running, and calls the step route.                                   *)
Take(s, j) ==
    /\ step[s] = Idle /\ messages[j] > 0
    /\ messages' = [messages EXCEPT ![j] = @ - 1]
    /\ step' = IF job[j].st = "running"
               THEN [step EXCEPT ![s] = [pc |-> "load", job |-> j, auto |-> TRUE]]
               ELSE step
    /\ UNCHANGED <<rows, bounds, history>>

-----------------------------------------------------------------------------
(* The step route.  It reads the job, refuses one that is over,            *)
Load(s, j, auto) ==
    /\ step' = [step EXCEPT ![s] =
                  IF Over(job[j].st) THEN Idle
                  ELSE [pc |-> "claim", job |-> j, auto |-> auto,
                        created |-> job[j].st = "created", n |-> job[j].at,
                        best |-> job[j].best, bestIter |-> job[j].bestIter,
                        bestVer |-> job[j].bestVer, cur |-> Null, score |-> Null]]
    /\ overlapped' = IF Past(j) = {} THEN overlapped ELSE overlapped \cup {j}
    /\ UNCHANGED <<rows, messages, crashes, counted, settled>>

PostStep(s, j) ==
    /\ step[s] = Idle /\ job[j] # Absent /\ Post
    /\ Load(s, j, FALSE)

TakenStep(s) ==
    /\ At(s, "load")
    /\ Load(s, step[s].job, TRUE)
    /\ UNCHANGED posts

(* claims the next iteration, or finds that somebody else has,             *)
Claim(s) ==
    /\ At(s, "claim")
    /\ LET j == step[s].job
           n == job[j].at + 1
       IN \/ /\ Unclaimed(s) /\ n <= MaxClaims
             /\ job' = [job EXCEPT ![j].at = n]
             /\ step' = [step EXCEPT ![s].n = n, ![s].created = FALSE,
                                     ![s].pc = IF step[s].created THEN "start" ELSE "open"]
          \/ ~Unclaimed(s) /\ Return(s) /\ UNCHANGED job
    /\ UNCHANGED <<iteration, resource, prompt, messages, bounds, counted,
                   overlapped, settled>>

(* marks a new job as running,                                             *)
Start(s) ==
    /\ At(s, "start")
    /\ job' = [job EXCEPT ![step[s].job].st = "running"]
    /\ Go(s, "open")
    /\ UNCHANGED <<iteration, resource, prompt, messages, bounds, history>>

(* fails it when the tools of the agent are not there, once,               *)
Preflight(s) ==
    /\ At(s, "open") /\ step[s].n = 1
    /\ job' = [job EXCEPT ![step[s].job].st = "failed"]
    /\ Return(s)
    /\ UNCHANGED <<iteration, resource, prompt, messages, bounds, history>>

(* or the job has no tasks to evaluate.                                    *)
NoTasks(s) ==
    /\ At(s, "open")
    /\ iteration' = [iteration EXCEPT ![<<step[s].job, step[s].n>>] = NotEvaluated]
    /\ Return(s)
    /\ UNCHANGED <<job, resource, prompt, messages, bounds, history>>

(* It inserts the iteration, reads the job's active version, evaluates it, *)
(* and the algorithm may or may not have a new prompt,                     *)
Evaluate(s, score) ==
    /\ At(s, "open")
    /\ LET j == step[s].job
           mine == {v \in Versions : resource[v] = [of |-> j, active |-> TRUE]}
           cur == Max(mine \cup {Null})
       IN /\ iteration' = [iteration EXCEPT ![<<j, step[s].n>>] =
                             [st |-> "optimizing", score |-> score, tested |-> Tested(cur)]]
          /\ \E pc \in {"deactivate", "complete"} :
                step' = [step EXCEPT ![s].pc = pc, ![s].cur = cur, ![s].score = score]
    /\ UNCHANGED <<job, resource, prompt, messages, bounds, history>>

(* which replaces the active version of the agent, in two statements,      *)
Deactivate(s) ==
    /\ At(s, "deactivate")
    /\ resource' = [v \in Versions |-> IF resource[v] = Absent THEN Absent
                                       ELSE [resource[v] EXCEPT !.active = FALSE]]
    /\ Go(s, "insert")
    /\ UNCHANGED <<job, iteration, prompt, messages, bounds, history>>

Insert(s) ==
    /\ At(s, "insert")
    /\ resource[NextVersion(s)] = Absent
    /\ resource' = [resource EXCEPT ![NextVersion(s)] =
                      [of |-> step[s].job, active |-> TRUE]]
    /\ Go(s, "apply")
    /\ UNCHANGED <<job, iteration, prompt, messages, bounds, history>>

(* and goes into the agent's configuration; the iteration is completed.    *)
(* (Two statements, of which only the first is seen by another request.)   *)
Complete(s) ==
    /\ step[s].pc \in {"apply", "complete"}
    /\ prompt' = IF At(s, "apply") THEN NextVersion(s) ELSE prompt
    /\ iteration' = [iteration EXCEPT ![<<step[s].job, step[s].n>>].st = "completed"]
    /\ Go(s, "finish")
    /\ UNCHANGED <<job, resource, messages, bounds, history>>

(* The job's row.  Convergence or the algorithm may end the job before its *)
(* last iteration.                                                         *)
Finish(s) ==
    /\ At(s, "finish")
    /\ LET x == step[s]
           j == x.job
       IN \E more \in {FALSE, MayContinue(x.n)} :
             /\ job' = [job EXCEPT ![j].best = IF IsBest(s) THEN x.score ELSE x.best,
                                   ![j].bestIter = IF IsBest(s) THEN x.n ELSE x.bestIter,
                                   ![j].bestVer = IF IsBest(s) THEN NextVersion(s)
                                                  ELSE x.bestVer,
                                   ![j].st = IF more THEN "running" ELSE "completed"]
             /\ step' = [step EXCEPT ![s] = IF ~more THEN [x EXCEPT !.pc = "activate"]
                                            ELSE IF x.auto THEN [x EXCEPT !.pc = "reply"]
                                            ELSE Idle]
             /\ counted' = counted \cup {<<j, x.n>>}
    /\ UNCHANGED <<iteration, resource, prompt, messages, bounds,
                   overlapped, settled>>

(* auto_activate: the version taken for the best one goes live.            *)
Activate(s) ==
    /\ At(s, "activate")
    /\ LET v == IF IsBest(s) THEN NextVersion(s) ELSE step[s].bestVer
       IN prompt' = IF v # Null /\ resource[v] # Absent THEN v ELSE prompt
    /\ Return(s)
    /\ UNCHANGED <<job, iteration, resource, messages, bounds, history>>

(* The consumer sends the next message; when that throws, the job fails.   *)
Reply(s) ==
    /\ At(s, "reply")
    /\ LET j == step[s].job
       IN \/ messages' = [messages EXCEPT ![j] = @ + 1] /\ UNCHANGED job
          \/ job' = [job EXCEPT ![j].st = "failed"] /\ UNCHANGED messages
    /\ Return(s)
    /\ UNCHANGED <<iteration, resource, prompt, bounds, history>>

(* The new version is refused by the UNIQUE constraint: the caller gets an *)
(* error, which a consumer takes for the end of the chain.                 *)
Conflict(s) ==
    /\ At(s, "insert")
    /\ resource[NextVersion(s)] # Absent
    /\ Return(s)
    /\ UNCHANGED <<rows, messages, bounds, history>>

(* Another statement throws, to the same effect.                           *)
Throws(s) ==
    /\ step[s] # Idle
    /\ crashes < MaxCrashes /\ crashes' = crashes + 1
    /\ Return(s)
    /\ UNCHANGED <<rows, messages, posts, history>>

(* The worker is evicted; the queue delivers the message again.            *)
Evicted(s) ==
    /\ step[s] # Idle
    /\ crashes < MaxCrashes /\ crashes' = crashes + 1
    /\ messages' = IF step[s].auto THEN [messages EXCEPT ![step[s].job] = @ + 1]
                   ELSE messages
    /\ Return(s)
    /\ UNCHANGED <<rows, posts, history>>

-----------------------------------------------------------------------------
Run(s) ==
    \/ MarkRunning(s) \/ Send(s) \/ TakenStep(s) \/ Claim(s) \/ Start(s)
    \/ Preflight(s) \/ NoTasks(s)
    \/ \E score \in Scores : Evaluate(s, score)
    \/ Deactivate(s) \/ Insert(s) \/ Conflict(s)
    \/ Complete(s) \/ Finish(s)
    \/ Activate(s) \/ Reply(s)

Next ==
    \/ \E j \in Jobs : Create(j) \/ Cancel(j)
    \/ \E s \in Steps, j \in Jobs : PostStep(s, j) \/ PostAuto(s, j) \/ Take(s, j)
    \/ \E s \in Steps : Run(s) \/ Throws(s) \/ Evicted(s)

Spec == Init /\ [][Next]_vars

-----------------------------------------------------------------------------
(* Unless two of its steps ran beside each other, the score a job calls its *)
(* best is the highest of the iterations that reached its row, over crashes *)
(* and redeliveries.  (An iteration that died just before is completed but  *)
(* never weighed: training.ts:978, 1030.)                                   *)
BestIsBest ==
    \A j \in Jobs \ overlapped : job[j] # Absent =>
        job[j].best = Max({Null} \cup {iteration[p].score : p \in counted \cap ({j} \X Numbers)})

(* Steps replace the active version in two statements, and still no two    *)
(* versions of the prompt are ever active: a step that would add a second  *)
(* one collides with the UNIQUE constraint.  (Without a version 0 the      *)
(* snapshot of a second job would be active beside version 1.)             *)
AtMostOneActive ==
    \A v, w \in Versions :
        resource[v] # Absent /\ resource[w] # Absent
        /\ resource[v].active /\ resource[w].active => v = w

(* A job cancelled while no request of it was under way stays cancelled,   *)
(* whatever its queued messages and later requests do.  (One that was under *)
(* way overwrites the status: training.ts:1030.)                           *)
CancelIsFinal == \A j \in settled : job[j].st = "cancelled"

(* Unattended training ends: beyond its last iteration a job only gets the *)
(* claims that concurrent callers and repeated steps make.                 *)
IterationsBounded ==
    \A j \in Jobs : job[j] # Absent =>
        job[j].at <= MaxIterations - 1 + posts + crashes

(* training.ts, "Fix #2: Auto-activate the BEST resource version when      *)
(* training completes": with one job, one step at a time and no failure,   *)
(* the prompt that got the best score is the one that is live at the end.  *)
BestActivated ==
    \A j \in Jobs \ overlapped :
        (/\ job[j] # Absent /\ job[j].st = "completed" /\ Busy(j) = {}
         /\ crashes = 0 /\ \A k \in Jobs \ {j} : job[k] = Absent)
        => prompt = iteration[j, job[j].bestIter].tested
=============================================================================
